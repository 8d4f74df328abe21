------------------------------- MODULE ExitClose -------------------------------
(***************************************************************************)
(* One car at an exit: its case asked again for a covered QR, the person   *)
(* who opens meanwhile, and the close that must land on the case left open *)
(* (src/src/lane_controller: controller.py _qr_settles_exit_case,          *)
(* complete_vend and _record_session; sync.py _close_session).             *)
(*                                                                         *)
(* Asking again opens a new case on the platform, which supersedes the old *)
(* one.  It is on the network while a person may lose patience, take the   *)
(* old case and open; the car then crosses, and its close is recorded and  *)
(* sent by the drain, whenever the platform answers.                       *)
(*                                                                         *)
(* Cases are numbered in the order they are opened: case n + 1 is the one  *)
(* n is asked again as, so its number is also the event it is opened with. *)
(* What the driver pays and what is on the reader are in ReaderFees, the   *)
(* claim against a new arrival in Opening, the outbox's order in Outbox.   *)
(***************************************************************************)
EXTENDS Naturals, FiniteSets

CONSTANTS
  MaxCases,     \* bound: the car's cases, the first and those it is asked again as
  Retries,      \* EXIT_QR_RETRIES
  MaxQrs,       \* bound: the covered QRs read for the car
  MaxRestarts   \* bound: how often the process stops and starts again

ASSUME ExitCloseAssumption ==
  MaxCases \in Nat \ {0} /\ Retries \in Nat /\ MaxQrs \in Nat /\ MaxRestarts \in Nat

VARIABLES
  status,     \* the platform: each case, "none" before it is opened
  settled,    \* the platform: the cases that are paid or covered
  record,     \* the platform: the close it has taken, if any
  late,       \* the network: the cases an ask-again given up on still asks for
  case,       \* `_exit_case`: the case waiting at this lane, or 0
  taken,      \* ExitCase.taken: the cases a person took
  completed,  \* `last_decision_completed_at`: somebody opens for this car
  idle,       \* `_supersede_idle`: no ask-again is on the network
  retry,      \* ExitCase.qr_waiting: a covered QR waits to be asked again
  retries,    \* ExitCase.qr_retries
  qrs,        \* the covered QRs read so far
  asked,      \* `_ask_again_events`: the cases with an ask-again of their own
  follows,    \* `_close_follows`: the cases whose close goes to the next one
  letOutBy,   \* `_let_out_by`: the case a person's authority is held for, if any
  lane,       \* where the lane thread is
  person,     \* where the person's vend is
  crossing,   \* the case the car crosses on, while its close is not recorded
  queue,      \* the outbox: the close, until it is delivered or refused
  drain,      \* where the drain thread is
  opener,     \* history: who opened for the car
  slipped,    \* history: a re-point came between the person's claim and note
  astray,     \* history: the platform ended a case, or refused the close, itself
  told,       \* history: a person was told that the close was refused
  silent,     \* history: the platform did not say what became of a case
  restarts

platform == <<status, settled, record, late, astray>>
memory   == <<case, taken, completed, idle, retry, retries, qrs, asked, follows, letOutBy>>
threads  == <<lane, person, crossing>>
outbox   == <<queue, drain, told, silent>>
vars     == <<platform, memory, threads, outbox, opener, slipped, restarts>>

------------------------------------------------------------------------------
Cases  == 1..MaxCases
Opt(S) == {{}} \cup {{x} : x \in S}

\* A close: the case it names, the ask-again it carries (0: none) and whether
\* it carries the authority of a person.
Closes == [exit : Cases \cup {0}, event : Cases \cup {0}, by : BOOLEAN]

LaneRests   == [pc |-> "turn", of |-> 0, got |-> "none"]
PersonRests == [pc |-> "away", of |-> 0]
DrainRests  == [pc |-> "waits", exit |-> 0]

\* The car's first case is open and waits.
Init ==
  /\ status = [c \in Cases |-> IF c = 1 THEN "open" ELSE "none"]
  /\ settled = {} /\ record = {} /\ late = {} /\ astray = FALSE
  /\ case = 1 /\ taken = {} /\ completed = FALSE
  /\ idle = TRUE /\ retry = FALSE /\ retries = 0 /\ qrs = 0
  /\ asked = {} /\ follows = {} /\ letOutBy = {}
  /\ lane = LaneRests /\ person = PersonRests /\ crossing = {}
  /\ queue = {} /\ drain = DrainRests /\ told = FALSE /\ silent = FALSE
  /\ opener = "nobody" /\ slipped = FALSE /\ restarts = 0

------------------------------------------------------------------------------
(* The platform.                                                           *)

\* The driver pays, or the pass module covers the stay.
Settles(c) ==
  /\ status[c] = "open" /\ c \notin settled
  /\ settled' = settled \cup {c}
  /\ UNCHANGED <<status, record, late, astray, memory, threads, outbox, opener, slipped, restarts>>

\* A person at the platform ends the case.
Ends(c) ==
  /\ status[c] = "open"
  /\ status' = [status EXCEPT ![c] = "closed"]
  /\ astray' = TRUE
  /\ UNCHANGED <<settled, record, late, memory, threads, outbox, opener, slipped, restarts>>

\* POST /exits naming the stay of case c: the next case supersedes it.  Sent
\* again with the same event, it is the same case.
Supersede(c) ==
  \/ /\ status[c] = "open" /\ c \notin settled /\ status[c + 1] = "none"
     /\ status' = [status EXCEPT ![c] = "superseded", ![c + 1] = "open"]
  \/ /\ status[c + 1] # "none"
     /\ UNCHANGED status

\* An ask-again the lane gave up on reaches the platform after all.
Lands(c) ==
  /\ c \in late
  /\ late' = late \ {c}
  /\ Supersede(c) \/ UNCHANGED status
  /\ UNCHANGED <<settled, record, astray, memory, threads, outbox, opener, slipped, restarts>>

\* The close, naming a case: taken, or refused.  Sent again, it is the same close.
Takes(e, exit) ==
  \/ record # {} /\ UNCHANGED <<status, record>>
  \/ /\ record = {}
     /\ exit # 0 => status[exit] = "open"
     /\ status' = IF exit = 0 THEN status ELSE [status EXCEPT ![exit] = "closed"]
     /\ record' = {[exit |-> exit, by |-> e.by]}

ExitClosed(exit) == record = {} /\ exit # 0 /\ status[exit] # "open"

------------------------------------------------------------------------------
(* The lane thread, on its idle turns (observe_exit_case, observe_qr).     *)

LaneAt(pc) == lane.pc = pc

LaneTo(pc, of, got) == lane' = [pc |-> pc, of |-> of, got |-> got]

LaneGoes(pc) == LaneTo(pc, lane.of, lane.got)

\* The case is asked about, and is settled or goes on waiting.
Step ==
  /\ LaneAt("turn") /\ case # 0
  /\ case \in settled
  /\ LaneTo("settled", case, "none")
  /\ UNCHANGED <<platform, memory, person, crossing, outbox, opener, slipped, restarts>>

\* _let_out, under the lock: a person opened first, or the car is still there,
\* or it backed off while the platform was asked and its case is dropped.
LetOut ==
  /\ LaneAt("settled")
  /\ \/ /\ case # lane.of
        /\ lane' = LaneRests /\ UNCHANGED <<case, completed>>
     \/ /\ case = lane.of
        /\ case' = 0 /\ completed' = TRUE
        /\ LaneGoes("opens")
     \/ /\ case = lane.of
        /\ case' = 0
        /\ lane' = LaneRests /\ UNCHANGED completed
  /\ UNCHANGED <<platform, taken, idle, retry, retries, qrs, asked, follows, letOutBy,
                 person, crossing, outbox, opener, slipped, restarts>>

LaneOpens ==
  /\ LaneAt("opens")
  /\ opener' = "lane"
  /\ crossing' = {lane.of}
  /\ lane' = LaneRests
  /\ UNCHANGED <<platform, memory, person, outbox, slipped, restarts>>

\* The car has left, or its loop read clear too long: the case is dropped.
Drop ==
  /\ LaneAt("turn") /\ case # 0
  /\ case' = 0
  /\ UNCHANGED <<platform, taken, completed, idle, retry, retries, qrs, asked, follows, letOutBy,
                 threads, outbox, opener, slipped, restarts>>

\* The fault: the event is kept on the case alone, and its close does not know it.
NotedNowhere(c) == asked' = asked

\* The event a case is asked again with is noted, for its close.
Noted(c) == asked' = asked \cup {c}

\* A covered QR, or one that waited: the ask-again begins.  Two sections under
\* the lock with no call between them, so no car crosses between them: one step.
AskAgain ==
  /\ LaneAt("turn") /\ case \in 1..MaxCases - 1
  /\ \/ retry /\ UNCHANGED qrs
     \/ qrs < MaxQrs /\ qrs' = qrs + 1
  /\ idle' = FALSE /\ retry' = FALSE
  /\ Noted(case)
  /\ LaneTo("ask", case, "none")
  /\ UNCHANGED <<platform, case, taken, completed, retries, follows, letOutBy,
                 person, crossing, outbox, opener, slipped, restarts>>

\* open_exit is answered, refused, or goes unanswered: taken and the answer
\* lost, not taken, not taken yet (a card is being authorised), or late.
Asked ==
  /\ LaneAt("ask")
  /\ \/ /\ Supersede(lane.of)
        /\ LaneTo("answered", lane.of, "fresh")
        /\ UNCHANGED late
     \/ /\ Supersede(lane.of)
        /\ LaneTo("answered", lane.of, "unreachable")
        /\ UNCHANGED late
     \/ /\ late' \in {late, late \cup {lane.of}}
        /\ LaneTo("answered", lane.of, "unreachable")
        /\ UNCHANGED status
     \/ /\ status[lane.of + 1] = "none"
        /\ LaneTo("answered", lane.of, "refused")
        /\ UNCHANGED <<status, late>>
  /\ UNCHANGED <<settled, record, astray, memory, person, crossing, outbox, opener, slipped, restarts>>

\* The fault: the close follows, and the authority stays with the old case.
LeftBehind(c) == letOutBy

\* Who a person's authority is held for, once case c is asked again.
Repointed(c) == IF letOutBy = {c} THEN {c + 1} ELSE letOutBy

\* _open_superseding, under the lock.  The new case becomes the car's; or, if
\* a person took the old one, the close and the authority are re-pointed to it.
NewCase ==
  /\ LaneAt("answered") /\ lane.got = "fresh"
  /\ \/ /\ case = lane.of
        /\ case' = lane.of + 1
        /\ asked' = asked \ {lane.of}
        /\ retry' = FALSE /\ retries' = 0
        /\ UNCHANGED <<follows, letOutBy, slipped>>
     \/ /\ case # lane.of /\ lane.of \in taken
        /\ follows' = follows \cup {lane.of}
        /\ letOutBy' = Repointed(lane.of)
        /\ slipped' = (slipped \/ (person.of = lane.of /\ person.pc \in {"opens", "notes"}))
        /\ UNCHANGED <<case, asked, retry, retries>>
     \/ /\ case # lane.of /\ lane.of \notin taken
        /\ UNCHANGED <<case, asked, retry, retries, follows, letOutBy, slipped>>
  /\ LaneGoes("over")
  /\ UNCHANGED <<platform, taken, completed, idle, qrs, person, crossing, outbox, opener, restarts>>

MayRetry == retries < Retries

NoNewCase ==
  /\ LaneAt("answered") /\ lane.got # "fresh"
  /\ \/ /\ lane.got = "unreachable" /\ case = lane.of
        /\ retry' = MayRetry
        /\ retries' = IF MayRetry THEN retries + 1 ELSE retries
     \/ /\ lane.got = "unreachable" /\ case # lane.of
        /\ UNCHANGED <<retry, retries>>
     \/ /\ lane.got = "refused"
        /\ retry' = FALSE /\ UNCHANGED retries
  /\ LaneGoes("over")
  /\ UNCHANGED <<platform, case, taken, completed, idle, qrs, asked, follows, letOutBy,
                 person, crossing, outbox, opener, slipped, restarts>>

\* The ask-again is over, whatever became of it.
AskedAgain ==
  /\ LaneAt("over")
  /\ idle' = TRUE
  /\ lane' = LaneRests
  /\ UNCHANGED <<platform, case, taken, completed, retry, retries, qrs, asked, follows, letOutBy,
                 person, crossing, outbox, opener, slipped, restarts>>

------------------------------------------------------------------------------
(* A person's vend, on the intercom's thread (complete_vend).              *)

PersonAt(pc) == person.pc = pc

PersonGoes(pc) == person' = [pc |-> pc, of |-> person.of]

\* After a restart no decision stands for a person to complete.
PersonComes ==
  /\ PersonAt("away") /\ restarts = 0
  /\ PersonGoes("waits")
  /\ UNCHANGED <<platform, memory, lane, crossing, outbox, opener, slipped, restarts>>

\* The ask-again on the network is waited for ...
Waited ==
  /\ PersonAt("waits") /\ idle
  /\ PersonGoes("claims")
  /\ UNCHANGED <<platform, memory, lane, crossing, outbox, opener, slipped, restarts>>

\* ... for _supersede_wait_seconds at most.
WaitRunsOut ==
  /\ PersonAt("waits") /\ ~idle
  /\ PersonGoes("claims")
  /\ UNCHANGED <<platform, memory, lane, crossing, outbox, opener, slipped, restarts>>

\* Under the lock: the decision is the person's, and the case with it.
Claims ==
  /\ PersonAt("claims") /\ ~completed
  /\ completed' = TRUE
  /\ case' = 0
  /\ taken' = IF case = 0 THEN taken ELSE taken \cup {case}
  /\ person' = [pc |-> "opens", of |-> case]
  /\ UNCHANGED <<platform, idle, retry, retries, qrs, asked, follows, letOutBy,
                 lane, crossing, outbox, opener, slipped, restarts>>

TooLate ==
  /\ PersonAt("claims") /\ completed
  /\ person' = PersonRests
  /\ UNCHANGED <<platform, memory, lane, crossing, outbox, opener, slipped, restarts>>

PersonOpens ==
  /\ PersonAt("opens")
  /\ opener' = "person"
  /\ PersonGoes("notes")
  /\ UNCHANGED <<platform, memory, lane, crossing, outbox, slipped, restarts>>

\* What the close will carry is set aside, and the transit begins.
PersonNotes ==
  /\ PersonAt("notes")
  /\ letOutBy' = {person.of} \ {0}
  /\ crossing' = {person.of}
  /\ person' = PersonRests
  /\ UNCHANGED <<platform, case, taken, completed, idle, retry, retries, qrs, asked, follows,
                 lane, outbox, opener, slipped, restarts>>

------------------------------------------------------------------------------
(* The car crosses: its close is recorded (_record_session).               *)

\* Under the lock: where the close goes, and on whose authority.
Recorded(c) ==
  LET to == IF c \in follows THEN c + 1 ELSE c
  IN  /\ queue' = {[exit |-> to, event |-> IF c \in asked THEN c + 1 ELSE 0,
                    by |-> to # 0 /\ to \in letOutBy]}
      /\ asked' = asked \ {c}
      /\ follows' = follows \ {c}
      /\ letOutBy' = IF to = 0 THEN letOutBy ELSE letOutBy \ {to}

Crosses ==
  /\ \E c \in crossing : Recorded(c)
  /\ crossing' = {}
  /\ UNCHANGED <<platform, case, taken, completed, idle, retry, retries, qrs, lane, person,
                 drain, told, silent, opener, slipped, restarts>>

------------------------------------------------------------------------------
(* The drain thread (PlatformTransport._close_session).                    *)

DrainAt(pc) == drain.pc = pc

\* _guarded and _close_refused: the close leaves the outbox, and a person is told.
Refused(e) == queue' = {} /\ told' = (e.exit # 0) /\ drain' = DrainRests

Sends ==
  /\ DrainAt("waits")
  /\ \E e \in queue : drain' = [pc |-> "sends", exit |-> e.exit]
  /\ UNCHANGED <<platform, memory, threads, queue, told, silent, opener, slipped, restarts>>

Delivered(e) ==
  /\ Takes(e, drain.exit)
  /\ queue' = {} /\ drain' = DrainRests
  /\ UNCHANGED <<settled, late, astray, told>>

\* 409 exit_closed, for a case the lane asked again: is it superseded?
Superseded(e) ==
  /\ ExitClosed(drain.exit) /\ e.event # 0 /\ drain.exit = e.exit
  /\ drain' = [pc |-> "follows", exit |-> drain.exit]
  /\ UNCHANGED <<platform, queue, told>>

Terminal(e) ==
  /\ ExitClosed(drain.exit) /\ (e.event = 0 \/ drain.exit # e.exit)
  /\ Refused(e)
  /\ UNCHANGED platform

\* Any other refusal of the platform's own.
OtherRefusal(e) ==
  /\ record = {} /\ astray' = TRUE
  /\ Refused(e)
  /\ UNCHANGED <<status, settled, record, late>>

\* No answer, before the platform took it or after: it stays queued.
Unanswered(e) ==
  /\ Takes(e, drain.exit) \/ UNCHANGED <<status, record>>
  /\ drain' = DrainRests
  /\ UNCHANGED <<settled, late, astray, queue, told>>

Answer(e) == Delivered(e) \/ Superseded(e) \/ Terminal(e) \/ OtherRefusal(e)

Sent ==
  /\ DrainAt("sends")
  /\ \E e \in queue : Answer(e) \/ Unanswered(e)
  /\ UNCHANGED <<memory, threads, silent, opener, slipped, restarts>>

\* The fault: the close is sent again to the case that refused it.
SameCase(e) == e.exit

TookItsPlace(e) == e.exit + 1

\* _superseded_by: the case that took its place, when it is the lane's own.
Followed(e) ==
  /\ status[e.exit] = "superseded" /\ e.event = e.exit + 1
  /\ drain' = [pc |-> "sends", exit |-> TookItsPlace(e)]
  /\ UNCHANGED <<queue, told, silent>>

NotFollowed(e) ==
  /\ status[e.exit] # "superseded" \/ e.event # e.exit + 1
  /\ Refused(e)
  /\ UNCHANGED silent

\* The platform refuses to say, or says it in another shape: the close stays
\* the refusal it was, whatever became of the case.
NotSaid(e) ==
  /\ Refused(e)
  /\ silent' = TRUE

Resolved(e) == Followed(e) \/ NotFollowed(e) \/ NotSaid(e)

Follows ==
  /\ DrainAt("follows")
  /\ \/ \E e \in queue : Resolved(e)
     \/ drain' = DrainRests /\ UNCHANGED <<queue, told, silent>>
  /\ UNCHANGED <<platform, memory, threads, opener, slipped, restarts>>

------------------------------------------------------------------------------
\* The process stops and starts again: the outbox is on disk, the rest is lost.
Restart ==
  /\ restarts < MaxRestarts
  /\ restarts' = restarts + 1
  /\ case' = 0 /\ taken' = {} /\ completed' = FALSE
  /\ idle' = TRUE /\ retry' = FALSE /\ retries' = 0 /\ qrs' = 0
  /\ asked' = {} /\ follows' = {} /\ letOutBy' = {}
  /\ lane' = LaneRests /\ person' = PersonRests /\ crossing' = {} /\ drain' = DrainRests
  /\ UNCHANGED <<platform, queue, told, silent, opener, slipped>>

Platform == \E c \in Cases : Settles(c) \/ Ends(c) \/ Lands(c)
Lane     == \/ Step \/ LetOut \/ LaneOpens \/ Drop
            \/ AskAgain \/ Asked \/ NewCase \/ NoNewCase \/ AskedAgain
Person   == PersonComes \/ Waited \/ WaitRunsOut \/ Claims \/ TooLate \/ PersonOpens \/ PersonNotes
Drain    == Sends \/ Sent \/ Follows

Next == Platform \/ Lane \/ Person \/ Crosses \/ Drain \/ Restart

Spec == Init /\ [][Next]_vars

\* The drain retries a queued close for as long as the process runs, and a
\* platform sent the same request again and again answers it in the end.
Answered(exit) ==
  /\ DrainAt("sends") /\ drain.exit = exit
  /\ \E e \in queue : Answer(e)
  /\ UNCHANGED <<memory, threads, silent, opener, slipped, restarts>>

FollowAnswered ==
  /\ DrainAt("follows")
  /\ \E e \in queue : Resolved(e)
  /\ UNCHANGED <<platform, memory, threads, opener, slipped, restarts>>

FairSpec ==
  /\ Spec /\ WF_vars(Drain) /\ SF_vars(FollowAnswered)
  /\ \A exit \in Cases \cup {0} : SF_vars(Answered(exit))

------------------------------------------------------------------------------
(* Every variable holds what the code keeps in it. *)
TypeOK ==
  /\ status \in [Cases -> {"none", "open", "superseded", "closed"}]
  /\ settled \subseteq Cases
  /\ record \in Opt([exit : Cases \cup {0}, by : BOOLEAN])
  /\ late \subseteq Cases \ {MaxCases}
  /\ case \in Cases \cup {0} /\ taken \subseteq Cases
  /\ completed \in BOOLEAN /\ idle \in BOOLEAN /\ retry \in BOOLEAN
  /\ retries \in 0..Retries /\ qrs \in 0..MaxQrs
  /\ asked \subseteq Cases \ {MaxCases} /\ follows \subseteq Cases \ {MaxCases}
  /\ letOutBy \in Opt(Cases)
  /\ lane \in [pc : {"turn", "settled", "opens", "ask", "answered", "over"},
              of : Cases \cup {0}, got : {"none", "fresh", "unreachable", "refused"}]
  /\ person \in [pc : {"away", "waits", "claims", "opens", "notes"}, of : Cases \cup {0}]
  /\ crossing \in Opt(Cases \cup {0})
  /\ queue \in Opt(Closes)
  /\ drain \in [pc : {"waits", "sends", "follows"}, exit : Cases \cup {0}]
  /\ opener \in {"nobody", "lane", "person"}
  /\ slipped \in BOOLEAN /\ astray \in BOOLEAN
  /\ told \in BOOLEAN /\ silent \in BOOLEAN
  /\ restarts \in 0..MaxRestarts

(***************************************************************************)
(* However the ask-again, the person, the drain and a restart interleave,  *)
(* and whichever answers are lost, the close finds the case that was left  *)
(* open: it is refused for good only when the platform itself ended the    *)
(* case, refused the close, or would not say what became of the case       *)
(* (_close_follows, superseding_event, _superseded_by; sync.py 567:        *)
(* "Anything else stays the refusal it was").                              *)
(* The type invariant is checked with it.                                  *)
(***************************************************************************)
ReachesTheCase ==
  /\ TypeOK
  /\ told => astray \/ silent

(***************************************************************************)
(* The close of a case a person opened for carries the person's authority, *)
(* and no other close does -- whatever case it was re-pointed to, and      *)
(* across restarts (_let_out_by; the platform's record of who let the car  *)
(* out).  Except when the ask-again is answered between the person's claim *)
(* and the unlocked note of the authority: the README says what happens.   *)
(***************************************************************************)
AuthorityKept ==
  \A r \in record \cup queue :
    r.exit # 0 /\ ~slipped => (r.by <=> opener = "person")

(***************************************************************************)
(* A recorded close does not stay in the outbox for ever: it is taken, or  *)
(* refused for good, although its case was superseded under it and         *)
(* although answers are lost, as long as the platform answers again and    *)
(* again.                                                                  *)
(***************************************************************************)
CloseSettles == queue # {} ~> queue = {}

==============================================================================

------------------------------ MODULE LoopBoard ------------------------------
(***************************************************************************)
(* The loops after the gate and the threads that read them                 *)
(* (src/src/lane_controller/controller.py, vend.py).                       *)
(*                                                                         *)
(* A vend opens the barrier and publishes a PENDING transit; a read of the *)
(* loops after the gate decides what becomes of it.  A transit begins      *)
(* through one of two doors: the lane thread, which reads the loops itself *)
(* (Ordinary), or the vend route, whose worker thread reads them while a   *)
(* settle thread bounds it by a deadline (Assisted).  On its idle turns    *)
(* the lane thread polls the same loops for a crossing nothing admitted.   *)
(* One lock (`_board`) guards the published transit, the count of vend     *)
(* reads outstanding, the poll's claim and the slot a crossing is handed   *)
(* over in; every action below is one critical section, one driver call or *)
(* one unlocked stretch of one thread.                                     *)
(*                                                                         *)
(* A crossing is its number in the order the loops completed it; the       *)
(* driver reports each once, to whichever read asks first.                 *)
(***************************************************************************)
EXTENDS Naturals, FiniteSets

CONSTANTS
  Assisted,      \* transits begun by the vend route
  Ordinary,      \* transits begun by the lane thread
  At,            \* the timestamp each transit is published under
  Direction,     \* what the lane is: "entry" or "exit"
  DriverRaises,  \* whether a driver call may raise
  MaxCrossings   \* bound: how many crossings the loops complete

Transits == Assisted \cup Ordinary

\* `at` is the binding of the hand-over, and two transits never share one
\* while the wall clock moves forward (the comment at `_handed`).
ASSUME BoardAssumption ==
  /\ IsFiniteSet(Assisted)
  /\ IsFiniteSet(Ordinary)
  /\ Assisted \cap Ordinary = {}
  /\ \A t, u \in Transits : At[t] = At[u] => t = u
  /\ Direction \in {"entry", "exit"}
  /\ DriverRaises \in BOOLEAN
  /\ MaxCrossings \in Nat

VARIABLES
  hasLoops,     \* whether the site has loops after the gate; set once
  laneTurn,     \* the lane thread: "idle", "polling", "polled", "recording", "serving"
  pollReading,  \* _poll_reading: the poll's claim on the board
  claimedAt,    \* _transits_published as the poll saw it when it claimed
  pollGot,      \* what the poll's driver call came back with
  transitState, \* transit_state
  transitSince, \* transit_since, as the set holding the timestamp
  published,    \* _transits_published
  reads,        \* _reads_outstanding
  handed,       \* _handed: {} or the one crossing with its transit's `at`
  step,         \* where each transit's reading thread is
  got,          \* what each transit's read of the loops returned
  claim,        \* the transit's _Once: "free", "worker" or "deadline"
  settle,       \* where each assisted transit's settle thread is
  outcome,      \* the outcome recorded for each transit
  session,      \* the session action recorded for each transit
  inProgress,   \* AssistedVend._in_progress
  completable,  \* the last decision is one a person may complete
  unclaimed,    \* last_decision_completed_at is None
  crossed,      \* crossings the loops have completed
  taken,        \* crossings a driver call has reported
  unadmitted    \* crossings recorded as entry_unadmitted

laneVars   == <<laneTurn, pollReading, claimedAt, pollGot>>
boardVars  == <<transitState, transitSince, published>>
vendVars   == <<step, got, claim>>
decisionVars == <<completable, unclaimed>>
recordVars == <<outcome, session>>
doorVars   == <<settle, inProgress, decisionVars>>
loopVars   == <<crossed, taken>>
vars == <<hasLoops, laneVars, boardVars, reads, handed, vendVars, recordVars, doorVars, loopVars,
          unadmitted>>

------------------------------------------------------------------------------
\* What a read of the loops returns, after `_as_declared`: which crossing,
\* and whether it confirms an entry (FORWARD, OCCUPIED) or refutes one
\* (REVERSE).  An answer the lane's geometry cannot give says "nothing".

Says        == {"confirms", "refutes", "nothing"}
Answers     == [number : 0..MaxCrossings, says : Says]
\* What the slot may hold: a crossing and the timestamp of its transit.
Stamps      == {At[t] : t \in Transits}
Slots       == [answer : Answers, at : Stamps]
NoCrossing  == [number |-> 0, says |-> "nothing"]

States   == {"none", "pending", "confirmed", "backed_out", "held", "unconfirmable"}
Outcomes == States \ {"pending"}
Sessions == {"none", "confirmed", "held", "unconfirmable"}

\* One driver call: the oldest crossing not yet reported, or nothing when
\* there is none.
DriverAnswers(answer) ==
  \/ /\ taken < crossed
     /\ answer.number = taken + 1
     /\ taken' = taken + 1
  \/ /\ taken = crossed
     /\ answer = NoCrossing
     /\ UNCHANGED taken

\* `_transit`: under the lock, the state, its `at` and the count together.
Publish(state, t) ==
  /\ transitState' = state
  /\ transitSince' = {At[t]}
  /\ published' = published + 1

\* The session action an outcome records: an entry opens one when it is
\* confirmed, or when the lane has no loop to confirm with; an exit closes
\* one even when it is held, for the barrier has opened.
SessionOf(result) ==
  CASE result = "confirmed"                        -> "confirmed"
    [] result = "unconfirmable" /\ ~hasLoops       -> "unconfirmable"
    [] result = "held" /\ Direction = "exit"       -> "held"
    [] OTHER                                       -> "none"

\* What the loops made of a transit whose read came back with `answer`.
ResultOf(answer, inWindow) ==
  CASE ~hasLoops                                -> "unconfirmable"
    [] answer.says = "confirms" /\ inWindow     -> "confirmed"
    [] answer.says = "refutes"                  -> "backed_out"
    [] OTHER                                    -> "held"

\* The steps after which a transit's reading thread does nothing more.
Finished == {"answered", "dropped", "dead"}
Counted  == {"reading", "given"}
Steps    == {"none", "judged", "vended", "begun", "read", "claimed"} \cup Counted \cup Finished

------------------------------------------------------------------------------
Init ==
  /\ hasLoops \in BOOLEAN
  /\ laneTurn = "idle"
  /\ pollReading = FALSE
  /\ claimedAt = 0
  /\ pollGot = NoCrossing
  /\ transitState = "none"
  /\ transitSince = {}
  /\ published = 0
  /\ reads = 0
  /\ handed = {}
  /\ step = [t \in Transits |-> "none"]
  /\ got = [t \in Transits |-> NoCrossing]
  /\ claim = [t \in Transits |-> "free"]
  /\ settle = [t \in Assisted |-> "none"]
  /\ outcome = [t \in Transits |-> "none"]
  /\ session = [t \in Transits |-> "none"]
  /\ inProgress = FALSE
  /\ completable = FALSE
  /\ unclaimed = TRUE
  /\ crossed = 0
  /\ taken = 0
  /\ unadmitted = {}

\* A vehicle completes a crossing of the loops after the gate.
Cross ==
  /\ hasLoops
  /\ crossed < MaxCrossings
  /\ crossed' = crossed + 1
  /\ UNCHANGED <<hasLoops, laneVars, boardVars, reads, handed, vendVars, recordVars, doorVars, taken,
                 unadmitted>>

------------------------------------------------------------------------------
\* The two doors.

\* The lane thread decides an arrival and the barrier stays shut: a case a
\* person may complete.
RefuseArrival ==
  /\ laneTurn = "idle"
  /\ completable' = TRUE
  /\ unclaimed' = TRUE
  /\ UNCHANGED <<hasLoops, laneVars, boardVars, reads, handed, vendVars, recordVars, settle, inProgress,
                 loopVars, unadmitted>>

\* The lane thread decides an arrival ALLOW and pulses the relay.
AllowArrival(t) ==
  /\ laneTurn = "idle"
  /\ step[t] = "none"
  /\ laneTurn' = "serving"
  /\ step' = [step EXCEPT ![t] = "vended"]
  /\ completable' = FALSE
  /\ unclaimed' = TRUE
  /\ UNCHANGED <<hasLoops, pollReading, claimedAt, pollGot, boardVars, reads, handed, got, claim,
                 recordVars, settle, inProgress, loopVars, unadmitted>>

\* The lane thread opens for the refused car on an idle turn: its exit case
\* settled, or its QR was honoured.  The decision is completed.
OpenForRefused(t) ==
  /\ laneTurn = "idle"
  /\ completable
  /\ unclaimed
  /\ step[t] = "none"
  /\ laneTurn' = "serving"
  /\ step' = [step EXCEPT ![t] = "vended"]
  /\ unclaimed' = FALSE
  /\ UNCHANGED <<hasLoops, pollReading, claimedAt, pollGot, boardVars, reads, handed, got, claim,
                 recordVars, settle, inProgress, completable, loopVars, unadmitted>>

\* The route judges a completion of the last decision, and refuses nothing.
JudgeVend(t) ==
  /\ completable
  /\ unclaimed
  /\ step[t] = "none"
  /\ step' = [step EXCEPT ![t] = "judged"]
  /\ UNCHANGED <<hasLoops, laneVars, boardVars, reads, handed, got, claim, recordVars, doorVars,
                 loopVars, unadmitted>>

\* The route takes the lane, claims the decision -- whichever is the last
\* one by now -- and pulses the relay.
AcceptVend(t) ==
  /\ ~inProgress
  /\ unclaimed
  /\ step[t] = "judged"
  /\ inProgress' = TRUE
  /\ unclaimed' = FALSE
  /\ step' = [step EXCEPT ![t] = "vended"]
  /\ UNCHANGED <<hasLoops, laneVars, boardVars, reads, handed, got, claim, recordVars, settle,
                 completable, loopVars, unadmitted>>

\* begin_transit: PENDING is published.  The route then starts the settle
\* thread, which starts the worker and waits for it under the deadline.
BeginTransit(t) ==
  /\ step[t] = "vended"
  /\ step' = [step EXCEPT ![t] = "begun"]
  /\ Publish("pending", t)
  /\ settle' = [a \in Assisted |-> IF a = t THEN "joining" ELSE settle[a]]
  /\ UNCHANGED <<hasLoops, laneVars, reads, handed, got, claim, recordVars, inProgress, decisionVars,
                 loopVars, unadmitted>>

------------------------------------------------------------------------------
\* A transit's read of the loops (`_read_closing_loops`, resolve_transit).

\* At a site with no loops there is nothing to read.
SkipRead(t) ==
  /\ ~hasLoops
  /\ step[t] = "begun"
  /\ step' = [step EXCEPT ![t] = "read"]
  /\ UNCHANGED <<hasLoops, laneVars, boardVars, reads, handed, got, claim, recordVars, doorVars, loopVars,
                 unadmitted>>

\* The crossing waiting in the slot, if it was handed to this transit.
HandedTo(t) == {h \in handed : h.at = At[t]}

\* The fault: a read whose deadline answered first is never counted out.
CountedOutIfOpen(t) == IF claim[t] = "free" THEN reads - 1 ELSE reads
\* The count once a read is over: it falls whoever answered.
CountedOut(t) == reads - 1

\* Once no poll is reading, the read takes the slot if it is its own and
\* counts itself in.
CountIn(t) ==
  /\ hasLoops
  /\ step[t] = "begun"
  /\ ~pollReading
  /\ reads' = reads + 1
  /\ \/ /\ HandedTo(t) = {}
        /\ step' = [step EXCEPT ![t] = "reading"]
        /\ UNCHANGED <<handed, got>>
     \/ \E h \in HandedTo(t) :
          /\ step' = [step EXCEPT ![t] = "given"]
          /\ got' = [got EXCEPT ![t] = h.answer]
          /\ handed' = {}
  /\ UNCHANGED <<hasLoops, laneVars, boardVars, claim, recordVars, doorVars, loopVars, unadmitted>>

\* wait_for_sequence returns, and the read counts itself out.
DriverReturns(t) ==
  /\ step[t] = "reading"
  /\ step' = [step EXCEPT ![t] = "read"]
  /\ reads' = CountedOut(t)
  /\ \E answer \in Answers : DriverAnswers(answer) /\ got' = [got EXCEPT ![t] = answer]
  /\ UNCHANGED <<hasLoops, laneVars, boardVars, handed, claim, recordVars, doorVars, crossed, unadmitted>>

\* The read that was given a crossing asks no driver, and counts itself out.
CountOut(t) ==
  /\ step[t] = "given"
  /\ step' = [step EXCEPT ![t] = "read"]
  /\ reads' = CountedOut(t)
  /\ UNCHANGED <<hasLoops, laneVars, boardVars, handed, got, claim, recordVars, doorVars, loopVars,
                 unadmitted>>

\* wait_for_sequence raises: the read counts itself out, and its thread ends
\* there -- a worker that logs it, or a lane turn its runner guards.
DriverRaisesIn(t) ==
  /\ DriverRaises
  /\ step[t] = "reading"
  /\ step' = [step EXCEPT ![t] = "dead"]
  /\ reads' = CountedOut(t)
  /\ laneTurn' = IF t \in Ordinary THEN "idle" ELSE laneTurn
  /\ UNCHANGED <<hasLoops, pollReading, claimedAt, pollGot, boardVars, handed, got, claim, recordVars,
                 doorVars, loopVars, unadmitted>>

\* The fault: a worker that comes back records whoever answered first.
MayAnswerAlways(t) == TRUE
\* _Once.take on the worker's side.
MayAnswer(t) == claim[t] = "free"

\* The reader asks for the right to say what happened.  A worker whose
\* deadline answered first records nothing.
TakeClaim(t) ==
  /\ step[t] = "read"
  /\ \/ /\ MayAnswer(t)
        /\ claim' = [claim EXCEPT ![t] = "worker"]
        /\ step' = [step EXCEPT ![t] = "claimed"]
     \/ /\ ~MayAnswer(t)
        /\ step' = [step EXCEPT ![t] = "dropped"]
        /\ UNCHANGED claim
  /\ UNCHANGED <<hasLoops, laneVars, boardVars, reads, handed, got, recordVars, doorVars, loopVars,
                 unadmitted>>

\* The outcome is recorded, published, and its session recorded; the lane
\* thread's turn is over.
AnswerTransit(t) ==
  /\ step[t] = "claimed"
  /\ step' = [step EXCEPT ![t] = "answered"]
  /\ \E inWindow \in BOOLEAN :
       LET result == ResultOf(got[t], inWindow) IN
       /\ outcome' = [outcome EXCEPT ![t] = result]
       /\ session' = [session EXCEPT ![t] = SessionOf(result)]
       /\ Publish(result, t)
  /\ laneTurn' = IF t \in Ordinary THEN "idle" ELSE laneTurn
  /\ UNCHANGED <<hasLoops, pollReading, claimedAt, pollGot, reads, handed, got, claim, doorVars, loopVars,
                 unadmitted>>

------------------------------------------------------------------------------
\* The settle thread of an assisted transit (`AssistedVend._settle`).

\* The deadline passed and the worker is still alive.
DeadlinePassed(t) == step[t] \notin Finished

\* The fault: the count is released when the read is abandoned.
ReleasedAtDeadline(t) == IF step[t] \in Counted THEN reads - 1 ELSE reads
\* The count after a deadline: an abandoned read is still out.
ReadsAfterDeadline(t) == reads

\* The deadline passes with the worker still out and nobody's claim taken.
DeadlineClaims(t) ==
  /\ settle[t] = "joining"
  /\ DeadlinePassed(t)
  /\ claim[t] = "free"
  /\ claim' = [claim EXCEPT ![t] = "deadline"]
  /\ settle' = [settle EXCEPT ![t] = "timing_out"]
  /\ reads' = ReadsAfterDeadline(t)
  /\ UNCHANGED <<hasLoops, laneVars, boardVars, handed, step, got, recordVars, inProgress, decisionVars,
                 loopVars, unadmitted>>

\* transit_timed_out: unconfirmable, and no session.
DeadlineAnswers(t) ==
  /\ settle[t] = "timing_out"
  /\ settle' = [settle EXCEPT ![t] = "releasing"]
  /\ outcome' = [outcome EXCEPT ![t] = "unconfirmable"]
  /\ Publish("unconfirmable", t)
  /\ UNCHANGED <<hasLoops, laneVars, reads, handed, vendVars, session, inProgress, decisionVars, loopVars,
                 unadmitted>>

\* The worker ended, or the deadline passed with the worker's claim taken.
SettleJoined(t) ==
  /\ settle[t] = "joining"
  /\ step[t] \in Finished \/ claim[t] = "worker"
  /\ settle' = [settle EXCEPT ![t] = "releasing"]
  /\ UNCHANGED <<hasLoops, laneVars, boardVars, reads, handed, vendVars, recordVars, inProgress, decisionVars,
                 loopVars, unadmitted>>

\* The lane takes assisted vends again.
ReleaseRoute(t) ==
  /\ settle[t] = "releasing"
  /\ settle' = [settle EXCEPT ![t] = "done"]
  /\ inProgress' = FALSE
  /\ UNCHANGED <<hasLoops, laneVars, boardVars, reads, handed, vendVars, recordVars, decisionVars, loopVars,
                 unadmitted>>

------------------------------------------------------------------------------
\* The idle poll (`observe_closing_loops`).

\* _nothing_pending and _nothing_reading.
NothingPending == transitState # "pending"
NothingReading == reads = 0

\* The fault: the poll asks only whether a vend is pending.
BoardClearUncounted == NothingPending
BoardClear == NothingPending /\ NothingReading

\* Nothing pending, nothing reading, and the claim: one critical section.  A
\* poll that finds either stands down, and changes nothing.
PollClaims ==
  /\ hasLoops
  /\ laneTurn = "idle"
  /\ BoardClear
  /\ laneTurn' = "polling"
  /\ pollReading' = TRUE
  /\ claimedAt' = published
  /\ UNCHANGED <<hasLoops, pollGot, boardVars, reads, handed, vendVars, recordVars, doorVars, loopVars,
                 unadmitted>>

\* poll_sequence returns, outside the lock.
PollReturns ==
  /\ laneTurn = "polling"
  /\ laneTurn' = "polled"
  /\ \E answer \in Answers : DriverAnswers(answer) /\ pollGot' = answer
  /\ UNCHANGED <<hasLoops, pollReading, claimedAt, boardVars, reads, handed, vendVars, recordVars, doorVars,
                 crossed, unadmitted>>

\* poll_sequence raises: the claim is released and the lane's turn is over.
PollRaises ==
  /\ DriverRaises
  /\ laneTurn = "polling"
  /\ laneTurn' = "idle"
  /\ pollReading' = FALSE
  /\ UNCHANGED <<hasLoops, claimedAt, pollGot, boardVars, reads, handed, vendVars, recordVars, doorVars,
                 loopVars, unadmitted>>

\* The fault: nobody asks whether a vend began during the read.
VendBeganUnasked == FALSE
\* A transit was published while the poll's driver call was out.
VendBegan == published # claimedAt

\* The fault: a crossing is recorded although it is handed over.
LeftToRecordHandedOrNot(handedOver) == pollGot.says = "confirms" /\ Direction = "entry"
\* An entry lane records a crossing that would have confirmed a vend, unless
\* it is handed over; nothing, a reversal, or a crossing at an exit is not
\* recorded.
LeftToRecord(handedOver) == ~handedOver /\ pollGot.says = "confirms" /\ Direction = "entry"

\* The claim is released under the lock; what is left to record is recorded
\* after it.
ReleaseClaim(handedOver) ==
  /\ pollReading' = FALSE
  /\ IF LeftToRecord(handedOver)
     THEN laneTurn' = "recording" /\ UNCHANGED pollGot
     ELSE laneTurn' = "idle" /\ pollGot' = NoCrossing

\* A crossing read while a transit was published is handed to the transit
\* published last.
PollHandsOver ==
  /\ laneTurn = "polled"
  /\ pollGot.says # "nothing"
  /\ VendBegan
  /\ ReleaseClaim(TRUE)
  /\ handed' = {[answer |-> pollGot, at |-> at] : at \in transitSince}
  /\ UNCHANGED <<hasLoops, claimedAt, boardVars, reads, vendVars, recordVars, doorVars, loopVars,
                 unadmitted>>

\* Nothing is handed over.
PollKeeps ==
  /\ laneTurn = "polled"
  /\ pollGot.says = "nothing" \/ ~VendBegan
  /\ ReleaseClaim(FALSE)
  /\ UNCHANGED <<hasLoops, claimedAt, boardVars, reads, handed, vendVars, recordVars, doorVars, loopVars,
                 unadmitted>>

\* entry_unadmitted is recorded, with no lock held.
PollRecords ==
  /\ laneTurn = "recording"
  /\ unadmitted' = unadmitted \cup {pollGot.number}
  /\ laneTurn' = "idle"
  /\ pollGot' = NoCrossing
  /\ UNCHANGED <<hasLoops, pollReading, claimedAt, boardVars, reads, handed, vendVars, recordVars,
                 doorVars, loopVars>>

------------------------------------------------------------------------------
PollNext == PollClaims \/ PollReturns \/ PollRaises \/ PollHandsOver \/ PollKeeps \/ PollRecords

DoorNext ==
  \/ RefuseArrival
  \/ \E t \in Ordinary : AllowArrival(t) \/ OpenForRefused(t)
  \/ \E t \in Assisted : JudgeVend(t) \/ AcceptVend(t)
  \/ \E t \in Transits : BeginTransit(t)

ReadNext(t) ==
  \/ SkipRead(t) \/ CountIn(t) \/ DriverReturns(t) \/ CountOut(t)
  \/ DriverRaisesIn(t) \/ TakeClaim(t) \/ AnswerTransit(t)

SettleNext(t) ==
  DeadlineClaims(t) \/ DeadlineAnswers(t) \/ SettleJoined(t) \/ ReleaseRoute(t)

Next ==
  \/ Cross
  \/ PollNext
  \/ DoorNext
  \/ \E t \in Transits : ReadNext(t)
  \/ \E t \in Assisted : SettleNext(t)

Spec == Init /\ [][Next]_vars

\* A thread that can run does.  A driver call may never return: nothing is
\* assumed of DriverReturns and PollReturns here.
ThreadFairness ==
  /\ \A t \in Transits :
       /\ WF_vars(BeginTransit(t))
       /\ WF_vars(TakeClaim(t))
       /\ WF_vars(AnswerTransit(t))
  /\ \A t \in Assisted :
       /\ WF_vars(DeadlineClaims(t))
       /\ WF_vars(DeadlineAnswers(t))
       /\ WF_vars(SettleJoined(t))
       /\ WF_vars(ReleaseRoute(t))

\* Besides, driver calls come back, a poll's at last with an answer, and the
\* lane's idle turns go on.
DriverFairness ==
  /\ \A t \in Transits :
       /\ WF_vars(SkipRead(t)) /\ WF_vars(CountIn(t))
       /\ WF_vars(DriverReturns(t) \/ DriverRaisesIn(t))
       /\ WF_vars(CountOut(t))
  /\ WF_vars(PollClaims)
  /\ SF_vars(PollReturns)
  /\ WF_vars(PollHandsOver \/ PollKeeps)
  /\ WF_vars(PollRecords)

ThreadSpec == Spec /\ ThreadFairness
------------------------------------------------------------------------------
(* Properties *)

\* Every variable holds what the code keeps in it.
TypeOK ==
  /\ hasLoops \in BOOLEAN
  /\ laneTurn \in {"idle", "polling", "polled", "recording", "serving"}
  /\ pollReading \in BOOLEAN
  /\ claimedAt \in Nat
  /\ pollGot \in Answers
  /\ transitState \in States
  /\ transitSince \subseteq Stamps
  /\ published \in Nat
  /\ reads \in Nat
  /\ handed \subseteq Slots
  /\ step \in [Transits -> Steps]
  /\ got \in [Transits -> Answers]
  /\ claim \in [Transits -> {"free", "worker", "deadline"}]
  /\ settle \in [Assisted -> {"none", "joining", "timing_out", "releasing", "done"}]
  /\ outcome \in [Transits -> Outcomes]
  /\ session \in [Transits -> Sessions]
  /\ inProgress \in BOOLEAN
  /\ completable \in BOOLEAN
  /\ unclaimed \in BOOLEAN
  /\ crossed \in 0..MaxCrossings
  /\ taken \in 0..MaxCrossings
  /\ taken <= crossed
  /\ unadmitted \subseteq 0..MaxCrossings

\* The idle poll's driver call and a vend's never overlap: two readers of one
\* board would be a crossing consumed by the wrong one.  It holds although a
\* worker its deadline abandoned is still inside its call, although two doors
\* read at once, and although no lock is held across a driver call.
ReadsNeverOverlap ==
  laneTurn = "polling" => \A t \in Transits : step[t] \notin Counted

\* The count is right, whoever it is attributed to: no crossing of the loops is
\* recorded twice -- as two sessions, or as a session and as an entry nothing
\* admitted -- and a session the loops confirmed has a crossing behind it.
Confirmed(t) == step[t] = "answered" /\ outcome[t] = "confirmed"
CrossingRecordedOnce ==
  /\ \A t \in Transits : Confirmed(t) =>
       /\ got[t].number > 0
       /\ got[t].number \notin unadmitted
  /\ \A t, u \in Transits :
       Confirmed(t) /\ Confirmed(u) /\ got[t].number = got[u].number => t = u

\* One transit, one outcome: once the worker or the deadline has answered for
\* a transit, neither its outcome nor its session is written again, however
\* late the driver comes back.
OneOutcome ==
  [][\A t \in Transits : outcome[t] # "none" => UNCHANGED <<outcome[t], session[t]>>]_vars

\* While the published transit is pending, no poll takes a crossing for one
\* nothing admitted: neither a poll that claimed before the vend began, nor one
\* whose driver call was out while it was beginning.
PollTakesUnadmitted == laneTurn = "polled" /\ laneTurn' = "recording"
NoUnadmittedWhilePending ==
  [][PollTakesUnadmitted => transitState # "pending"]_vars

\* The stronger claim of the comment at `_nothing_pending`: from begin_transit
\* until its read counts itself in, a transit nothing has answered keeps the
\* poll from taking a crossing for its own -- with both doors in use.  The code
\* does not keep it: LoopBoardTwoDoors.cfg shows how (README, section 4).
VendBeginning(t) == step[t] = "begun" /\ claim[t] = "free"
NoUnadmittedWhileBeginning ==
  [][PollTakesUnadmitted => \A t \in Transits : ~VendBeginning(t)]_vars

\* When driver calls come back, no crossing stays unread: a count or a pending
\* transit nobody clears does not hold the poll off for ever -- but that of a
\* worker whose driver raised.
EveryCrossingRead ==
  DriverFairness =>
    \A n \in 1..MaxCrossings :
      crossed >= n ~> taken >= n \/ \E t \in Transits : step[t] = "dead"
==============================================================================

--------------------------- MODULE ExitCloseProofs ---------------------------
(***************************************************************************)
(* What holds of the close that follows an ask-again for any number of     *)
(* cases, covered QRs and restarts: it finds the case that was left open,  *)
(* and it carries a person's authority exactly when a person opened.       *)
(*                                                                         *)
(* For the first, the platform's cases are a chain (ChainInv), only the    *)
(* car's own case, or one before it, can still be superseded (PendingInv), *)
(* and so the close names the open case, or the one superseded under it    *)
(* with the event that names the next (OpenInv).  For the second, who      *)
(* opened is told by where the threads have got to (ClaimInv), and the     *)
(* authority is held for the case the close will name (AuthorityInv).      *)
(***************************************************************************)
EXTENDS ExitClose, TLAPS

USE ExitCloseAssumption DEF platform, memory, threads, outbox, LaneAt, LaneTo, LaneGoes,
  PersonAt, PersonGoes, DrainAt, LaneRests, PersonRests, DrainRests

PersonOpening == person.pc \in {"opens", "notes"}
LaneOpening   == lane.pc = "opens"
Asking        == lane.pc \in {"ask", "answered", "over"}

\* The type invariant, by who keeps what.
PlatformType ==
  /\ status \in [Cases -> {"none", "open", "superseded", "closed"}]
  /\ settled \subseteq Cases /\ late \subseteq Cases \ {MaxCases}
  /\ record \in Opt([exit : Cases \cup {0}, by : BOOLEAN])

MemoryType ==
  /\ case \in Cases \cup {0} /\ taken \subseteq Cases
  /\ retries \in 0..Retries /\ qrs \in 0..MaxQrs
  /\ asked \subseteq Cases \ {MaxCases} /\ follows \subseteq Cases \ {MaxCases}
  /\ letOutBy \in Opt(Cases)

ThreadsType ==
  /\ lane \in [pc : {"turn", "settled", "opens", "ask", "answered", "over"},
              of : Cases \cup {0}, got : {"none", "fresh", "unreachable", "refused"}]
  /\ person \in [pc : {"away", "waits", "claims", "opens", "notes"}, of : Cases \cup {0}]
  /\ crossing \in Opt(Cases \cup {0})

OutboxType ==
  /\ queue \in Opt(Closes)
  /\ drain \in [pc : {"waits", "sends", "follows"}, exit : Cases \cup {0}]

HistoryType ==
  opener \in {"nobody", "lane", "person"} /\ restarts \in 0..MaxRestarts

FlagType ==
  /\ completed \in BOOLEAN /\ idle \in BOOLEAN /\ retry \in BOOLEAN
  /\ slipped \in BOOLEAN /\ astray \in BOOLEAN /\ told \in BOOLEAN /\ silent \in BOOLEAN

TypeInv == PlatformType /\ MemoryType /\ ThreadsType /\ OutboxType /\ HistoryType /\ FlagType

\* What the lane asks for has a next case; what was answered is opened.
LanesInv ==
  /\ Asking => lane.of \in Cases \ {MaxCases}
  /\ lane.pc \in {"settled", "opens"} => lane.of # 0
  /\ lane.pc = "answered" /\ lane.got = "fresh" => status[lane.of + 1] # "none"
  /\ \A c \in follows : status[c + 1] # "none"

Unrecorded == crossing = {} /\ queue = {} /\ record = {}
NotTaken   == letOutBy = {} /\ taken = {} /\ follows = {}

\* One opens for the car, the lane or a person, and what is set only then.
ClaimInv ==
  /\ completed \/ restarts > 0 => case = 0
  /\ restarts > 0 => lane.pc = "turn" /\ person.pc = "away" /\ crossing = {} /\ NotTaken
  /\ ~completed /\ restarts = 0 => opener = "nobody" /\ NotTaken
  /\ PersonOpening \/ LaneOpening => completed
  /\ LaneOpening => opener = "nobody" /\ NotTaken /\ ~PersonOpening
  /\ person.pc = "opens" => opener = "nobody"
  /\ person.pc = "notes" => opener = "person"
  /\ PersonOpening => Unrecorded /\ letOutBy = {} /\ taken = {person.of} \ {0}
  /\ opener = "nobody" => Unrecorded
  /\ opener = "lane" => NotTaken /\ ~PersonOpening
  /\ crossing # {} => queue = {} /\ record = {}
  /\ drain.pc # "waits" => queue # {}

\* The case the close of case c will name.
Goes(c) == IF c \in follows THEN c + 1 ELSE c

\* The authority is held for the case the close will name.
AuthorityInv ==
  /\ follows # {} => lane.pc \notin {"ask", "answered"}
  /\ follows \subseteq taken
  /\ PersonOpening /\ ~slipped => follows = {}
  /\ opener = "person" =>
       \A c \in crossing : taken = {c} \ {0} /\ (c # 0 /\ ~slipped => letOutBy = {Goes(c)})
  /\ AuthorityKept

\* The case of the car at the exit, wherever it has got to.
Car == ({case} \cup crossing \cup (IF PersonOpening THEN {person.of} ELSE {})
        \cup (IF LaneOpening THEN {lane.of} ELSE {})) \ {0}

\* An ask-again of case c may still reach the platform.
Pending(c) == c \in late \/ (lane.pc \in {"ask", "answered"} /\ lane.of = c)

\* The platform has ended nothing itself and taken no close.
Undisturbed == ~astray /\ record = {}

\* Then its cases are a chain: superseded, one open, the others not opened.
ChainInv ==
  Undisturbed =>
  \A c \in Cases :
    /\ status[c] # "closed"
    /\ status[c] = "open" => \A d \in Cases : d > c => status[d] = "none"
    /\ status[c] = "superseded" => c # MaxCases /\ status[c + 1] # "none"

\* Case c is open; or it was asked again, and the next one is.
IsOpen(c, asks) ==
  \/ status[c] = "open"
  \/ asks /\ c # MaxCases /\ status[c] = "superseded" /\ status[c + 1] = "open"

\* Only the car's case is asked again, or an older one, and its event is noted.
PendingInv ==
  \A c \in Cases : Pending(c) =>
    /\ \A x \in Car : c <= x /\ (c = x => c \in asked)
    /\ \A e \in queue : e.exit # 0 => c <= e.exit /\ (c = e.exit => e.event = c + 1)

\* The car's case is open, and the close's.
OpenInv ==
  Undisturbed =>
    /\ \A x \in Car : IsOpen(x, x \in asked)
    /\ \A e \in queue : e.exit # 0 => IsOpen(e.exit, e.event = e.exit + 1)

\* The event of a case whose close goes to the next is noted for that close.
FollowInv == follows \subseteq asked \cup (Cases \ Car)

CaseInv == PendingInv /\ OpenInv /\ FollowInv

\* The drain names the close's case, or the one that took its place.
DrainInv ==
  \A e \in queue :
    /\ drain.pc = "sends" => \/ drain.exit = e.exit
                             \/ /\ e.exit # 0 /\ drain.exit = e.exit + 1 /\ e.event = e.exit + 1
                                /\ Undisturbed => status[e.exit] = "superseded"
    /\ drain.pc = "follows" => /\ drain.exit = e.exit /\ e.exit # 0 /\ record = {}
                               /\ Undisturbed => status[e.exit] = "superseded"

\* Who is told of a close that was refused, and why.
ToldInv == told => astray \/ silent

Inv ==
  TypeInv /\ LanesInv /\ ClaimInv /\ AuthorityInv /\ ChainInv /\ CaseInv /\ DrainInv
  /\ ToldInv

------------------------------------------------------------------------------
LEMMA SupersedeTyped ==
  ASSUME TypeInv, NEW c \in Cases, c # MaxCases, Supersede(c)
  PROVE  status' \in [Cases -> {"none", "open", "superseded", "closed"}]
<1>1. CASE status' = [status EXCEPT ![c] = "superseded", ![c + 1] = "open"]
  BY <1>1 DEF TypeInv, PlatformType
<1>2. CASE UNCHANGED status
  BY <1>2 DEF TypeInv, PlatformType
<1>3. QED BY <1>1, <1>2 DEF Supersede

LEMMA PlatformTyped ==
  ASSUME Inv, [Next]_vars
  PROVE  PlatformType'
<1>1. CASE Platform
  <2>1. PICK c \in Cases : Settles(c) \/ Ends(c) \/ Lands(c)
    BY <1>1 DEF Platform
  <2>2. CASE Settles(c)
    BY <2>2 DEF Settles, Inv, TypeInv, PlatformType
  <2>3. CASE Ends(c)
    BY <2>3 DEF Ends, Inv, TypeInv, PlatformType
  <2>4. CASE Lands(c)
    <3>1. c # MaxCases
      BY <2>4 DEF Lands, Inv, TypeInv, PlatformType
    <3>2. CASE Supersede(c)
      BY <2>4, <3>1, <3>2, SupersedeTyped DEF Lands, Inv, TypeInv, PlatformType
    <3>3. CASE UNCHANGED status
      BY <2>4, <3>3 DEF Lands, Inv, TypeInv, PlatformType
    <3>4. QED BY <2>4, <3>2, <3>3 DEF Lands
  <2>5. QED BY <2>1, <2>2, <2>3, <2>4
<1>2. CASE Asked
  <2>1. lane.of \in Cases /\ lane.of # MaxCases
    BY <1>2 DEF Asked, Inv, LanesInv, Asking
  <2>2. Supersede(lane.of) \/ UNCHANGED status
    BY <1>2 DEF Asked
  <2>3. status' \in [Cases -> {"none", "open", "superseded", "closed"}]
    BY <2>1, <2>2, SupersedeTyped DEF Inv, TypeInv, PlatformType
  <2>4. settled' = settled /\ record' = record /\ late' \in {late, late \cup {lane.of}}
    BY <1>2 DEF Asked
  <2>5. QED BY <2>1, <2>3, <2>4 DEF Inv, TypeInv, PlatformType
<1>3. CASE Sent
  <2>1. PICK e \in queue : Answer(e) \/ Unanswered(e)
    BY <1>3 DEF Sent
  <2>2. e.by \in BOOLEAN
    BY <2>1 DEF Inv, TypeInv, OutboxType, Opt, Closes
  <2>3. drain.exit \in Cases \cup {0}
    BY DEF Inv, TypeInv, OutboxType
  <2>4. CASE Takes(e, drain.exit) /\ UNCHANGED <<settled, late>>
    BY <2>2, <2>3, <2>4 DEF Takes, Inv, TypeInv, PlatformType, Opt
  <2>5. CASE UNCHANGED <<status, settled, record, late>>
    BY <2>5 DEF Inv, TypeInv, PlatformType
  <2>6. QED BY <2>1, <2>4, <2>5 DEF Answer, Delivered, Superseded, Terminal, OtherRefusal,
                                    Unanswered
<1>4. CASE ~(Platform \/ Asked \/ Sent)
  <2>1. UNCHANGED platform
    BY <1>4 DEF Next, Platform, Lane, Person, Drain, Step, LetOut, LaneOpens, Drop, AskAgain,
                Noted, NewCase, Repointed, NoNewCase, MayRetry, AskedAgain, PersonComes, Waited,
                WaitRunsOut, Claims, TooLate, PersonOpens, PersonNotes, Crosses, Recorded,
                Sends, Follows, Resolved, Followed, NotFollowed, NotSaid, TookItsPlace, Refused, Restart,
                vars, platform
  <2>2. QED BY <2>1 DEF Inv, TypeInv, PlatformType
<1>5. QED BY <1>1, <1>2, <1>3, <1>4

LEMMA MemoryTyped ==
  ASSUME Inv, [Next]_vars
  PROVE  MemoryType'
<1>1. CASE NewCase
  <2>1. lane.of \in Cases /\ lane.of # MaxCases /\ lane.of + 1 \in Cases
    BY <1>1 DEF NewCase, Inv, LanesInv, Asking, Cases
  <2>2. /\ case' \in {case, lane.of + 1} /\ asked' \in {asked, asked \ {lane.of}}
        /\ retries' \in {retries, 0} /\ qrs' = qrs /\ taken' = taken
        /\ follows' \in {follows, follows \cup {lane.of}} /\ letOutBy' \in {letOutBy, {lane.of + 1}}
    BY <1>1 DEF NewCase, Repointed
  <2>3. QED BY <2>1, <2>2 DEF Inv, TypeInv, MemoryType, Opt
<1>2. CASE Crosses
  <2>1. PICK c \in crossing : Recorded(c)
    BY <1>2 DEF Crosses
  <2>2. /\ asked' \subseteq asked /\ follows' \subseteq follows
        /\ \E to \in Nat : letOutBy' \in {letOutBy, letOutBy \ {to}}
    BY <2>1 DEF Recorded, Inv, TypeInv, ThreadsType, Opt, Cases
  <2>3. UNCHANGED <<case, taken, retries, qrs>>
    BY <1>2 DEF Crosses
  <2>4. QED BY <2>2, <2>3 DEF Inv, TypeInv, MemoryType, Opt
<1>3. CASE LetOut \/ Drop \/ AskedAgain \/ Claims
  BY <1>3 DEF LetOut, Drop, AskedAgain, Claims, Inv, TypeInv, MemoryType, Cases
<1>4. CASE AskAgain \/ NoNewCase
  <2>1. CASE AskAgain
    BY <2>1 DEF AskAgain, Noted, Inv, TypeInv, MemoryType, Cases
  <2>2. CASE NoNewCase
    <3>1. UNCHANGED <<case, taken, qrs, asked, follows, letOutBy>>
      BY <2>2 DEF NoNewCase
    <3>2. retries' = retries \/ (retries < Retries /\ retries' = retries + 1)
      BY <2>2 DEF NoNewCase, MayRetry
    <3>3. QED BY <3>1, <3>2 DEF Inv, TypeInv, MemoryType
  <2>3. QED BY <1>4, <2>1, <2>2
<1>5. CASE PersonNotes
  BY <1>5 DEF PersonNotes, Inv, TypeInv, MemoryType, ThreadsType, Opt
<1>6. CASE Restart
  BY <1>6 DEF Restart, Inv, TypeInv, MemoryType, Opt
<1>7. CASE ~(NewCase \/ Crosses \/ LetOut \/ Drop \/ AskedAgain \/ Claims \/ Restart
             \/ AskAgain \/ NoNewCase \/ PersonNotes)
  <2>1. UNCHANGED memory
    BY <1>7 DEF Next, Platform, Lane, Person, Drain, Platform, Settles, Ends, Lands, Supersede,
                Step, LaneOpens, Asked, PersonComes, Waited, WaitRunsOut, TooLate, PersonOpens,
                Sends, Sent, Answer, Delivered, Superseded, Terminal, OtherRefusal,
                Unanswered, Takes, Refused, ExitClosed, Follows, Resolved, Followed, NotFollowed, NotSaid, TookItsPlace, vars, platform
  <2>2. QED BY <2>1 DEF Inv, TypeInv, MemoryType
<1>8. QED BY <1>1, <1>2, <1>3, <1>4, <1>5, <1>6, <1>7

LEMMA ThreadsTyped ==
  ASSUME Inv, [Next]_vars
  PROVE  ThreadsType'
<1>1. CASE Step \/ LetOut \/ AskAgain \/ Asked \/ NewCase \/ NoNewCase \/ AskedAgain
  BY <1>1 DEF Step, LetOut, AskAgain, Noted, Asked, Supersede, NewCase, Repointed, NoNewCase,
              MayRetry, AskedAgain,
              Inv, TypeInv, MemoryType, ThreadsType, Cases
<1>2. CASE PersonComes \/ Waited \/ WaitRunsOut \/ Claims \/ TooLate \/ PersonOpens
  BY <1>2 DEF PersonComes, Waited, WaitRunsOut, Claims, TooLate, PersonOpens,
              Inv, TypeInv, MemoryType, ThreadsType
<1>3. CASE LaneOpens \/ PersonNotes \/ Crosses \/ Restart
  BY <1>3 DEF LaneOpens, PersonNotes, Crosses, Recorded, Restart, Inv, TypeInv, ThreadsType, Opt
<1>4. CASE Platform \/ Drop \/ Sends \/ Sent \/ Follows \/ UNCHANGED vars
  <2>1. UNCHANGED threads
    BY <1>4 DEF Platform, Settles, Ends, Lands, Supersede, Drop, Sends, Sent, Answer, Delivered,
                Superseded, Terminal, OtherRefusal, Unanswered, Takes, Refused, ExitClosed,
                Follows, Resolved, Followed, NotFollowed, NotSaid, TookItsPlace, vars, platform
  <2>2. QED BY <2>1 DEF Inv, TypeInv, ThreadsType
<1>5. QED BY <1>1, <1>2, <1>3, <1>4 DEF Next, Lane, Person, Drain

LEMMA OutboxTyped ==
  ASSUME Inv, [Next]_vars
  PROVE  OutboxType'
<1>1. CASE Crosses
  <2>1. PICK c \in crossing : Recorded(c)
    BY <1>1 DEF Crosses
  <2>2. c \in Cases \cup {0} /\ (c \in asked \cup follows => c + 1 \in Cases)
    BY <2>1 DEF Inv, TypeInv, MemoryType, ThreadsType, Opt, Cases
  <2>3. PICK to \in Cases \cup {0}, event \in Cases \cup {0}, by \in BOOLEAN :
          queue' = {[exit |-> to, event |-> event, by |-> by]}
    BY <2>1, <2>2 DEF Recorded
  <2>4. QED BY <1>1, <2>3 DEF Crosses, Inv, TypeInv, OutboxType, Opt, Closes
<1>2. CASE Sends \/ Sent \/ Follows \/ Restart
  BY <1>2 DEF Sends, Sent, Answer, Delivered, Superseded, Terminal, OtherRefusal, Unanswered,
              Takes, Refused, ExitClosed, Follows, Resolved, Followed, NotFollowed, NotSaid, TookItsPlace, Restart,
              Inv, TypeInv, OutboxType, Opt, Closes
<1>3. CASE ~(Crosses \/ Sends \/ Sent \/ Follows \/ Restart)
  <2>1. UNCHANGED <<queue, drain>>
    BY <1>3 DEF Next, Platform, Lane, Person, Drain, Platform, Settles, Ends, Lands, Supersede,
                Step, LetOut, LaneOpens, Drop, AskAgain, Noted, Asked, NewCase, Repointed,
                NoNewCase, MayRetry, AskedAgain, PersonComes, Waited, WaitRunsOut, Claims,
                TooLate, PersonOpens, PersonNotes, vars, platform
  <2>2. QED BY <2>1 DEF Inv, TypeInv, OutboxType
<1>4. QED BY <1>1, <1>2, <1>3

LEMMA HistoryTyped ==
  ASSUME Inv, [Next]_vars
  PROVE  HistoryType'
<1>1. CASE LaneOpens \/ PersonOpens \/ Restart
  BY <1>1 DEF LaneOpens, PersonOpens, Restart, Inv, TypeInv, HistoryType
<1>2. CASE ~(LaneOpens \/ PersonOpens \/ Restart)
  <2>1. UNCHANGED <<opener, restarts>>
    BY <1>2 DEF Next, Platform, Lane, Person, Drain, Platform, Settles, Ends, Lands, Supersede,
                Step, LetOut, Drop, AskAgain, Noted, Asked, NewCase, Repointed, NoNewCase,
                MayRetry, AskedAgain, PersonComes, Waited, WaitRunsOut, Claims, TooLate,
                PersonNotes, Crosses, Recorded, Sends, Sent, Answer, Delivered, Superseded,
                Terminal, OtherRefusal, Unanswered, Takes, Refused, ExitClosed, Follows,
                Resolved, Followed, NotFollowed, NotSaid, TookItsPlace, vars, platform
  <2>2. QED BY <2>1 DEF Inv, TypeInv, HistoryType
<1>3. QED BY <1>1, <1>2

LEMMA FlagsTyped ==
  ASSUME Inv, [Next]_vars
  PROVE  FlagType'
<1>1. CASE NoNewCase
  <2>1. UNCHANGED <<completed, idle, slipped, astray, told, silent>>
    BY <1>1 DEF NoNewCase
  <2>2. retry' = MayRetry \/ retry' = retry \/ retry' = FALSE
    BY <1>1 DEF NoNewCase
  <2>3. MayRetry \in BOOLEAN
    BY DEF MayRetry
  <2>4. QED BY <2>1, <2>2, <2>3 DEF Inv, TypeInv, FlagType
<1>2. CASE Platform \/ LetOut \/ AskAgain \/ NewCase \/ AskedAgain \/ Claims
  <2>1. told' = told /\ silent' = silent
    BY <1>2 DEF Platform, Settles, Ends, Lands, Supersede, LetOut, AskAgain, NewCase,
                AskedAgain, Claims
  <2>2. completed' \in BOOLEAN /\ idle' \in BOOLEAN
    BY <1>2 DEF Platform, Settles, Ends, Lands, Supersede, LetOut, AskAgain, NewCase,
                AskedAgain, Claims, Inv, TypeInv, FlagType
  <2>3. retry' \in BOOLEAN /\ slipped' \in BOOLEAN
    BY <1>2 DEF Platform, Settles, Ends, Lands, Supersede, LetOut, AskAgain, NewCase,
                AskedAgain, Claims, Inv, TypeInv, FlagType
  <2>4. astray' \in BOOLEAN
    BY <1>2 DEF Platform, Settles, Ends, Lands, Supersede, LetOut, AskAgain, NewCase,
                AskedAgain, Claims, Inv, TypeInv, FlagType
  <2>5. QED BY <2>1, <2>2, <2>3, <2>4 DEF Inv, TypeInv, FlagType
<1>3. CASE Sent \/ Follows \/ Restart
  BY <1>3 DEF Sent, Answer, Delivered, Superseded, Terminal, OtherRefusal, Unanswered, Takes,
              Refused, ExitClosed, Follows, Resolved, Followed, NotFollowed, NotSaid, TookItsPlace, Restart, Inv,
              TypeInv, FlagType
<1>4. CASE ~(NoNewCase \/ Platform \/ LetOut \/ AskAgain \/ NewCase \/ AskedAgain \/ Claims
             \/ Sent \/ Follows \/ Restart)
  <2>1. UNCHANGED <<completed, idle, retry, slipped, astray, told, silent>>
    BY <1>4 DEF Next, Platform, Lane, Person, Drain, Step, LaneOpens, Drop, Asked, Supersede,
                PersonComes, Waited, WaitRunsOut, TooLate, PersonOpens, PersonNotes, Crosses,
                Recorded, Sends, vars, platform
  <2>2. QED BY <2>1 DEF Inv, TypeInv, FlagType
<1>5. QED BY <1>1, <1>2, <1>3, <1>4

\* What is opened is not unopened.
LEMMA StaysOpened ==
  ASSUME Inv, [Next]_vars, NEW c \in Cases, status[c] # "none"
  PROVE  status'[c] # "none"
<1>1. CASE Platform
  <2>1. PICK d \in Cases : Settles(d) \/ Ends(d) \/ Lands(d)
    BY <1>1 DEF Platform
  <2>2. QED BY <2>1 DEF Settles, Ends, Lands, Supersede, Inv, TypeInv, PlatformType
<1>2. CASE Asked \/ Sent
  BY <1>2 DEF Asked, Supersede, Sent, Answer, Delivered, Superseded, Terminal, OtherRefusal,
              Unanswered, Takes, Refused, ExitClosed, Inv, TypeInv, PlatformType
<1>3. CASE ~(Platform \/ Asked \/ Sent)
  BY <1>3 DEF Next, Platform, Lane, Person, Drain, Step, LetOut, LaneOpens, Drop, AskAgain,
              Noted, NewCase, Repointed, NoNewCase, MayRetry, AskedAgain, PersonComes, Waited,
              WaitRunsOut, Claims, TooLate, PersonOpens, PersonNotes, Crosses, Recorded,
              Sends, Follows, Resolved, Followed, NotFollowed, NotSaid, TookItsPlace, Refused, Restart, vars,
              platform
<1>4. QED BY <1>1, <1>2, <1>3

LEMMA LanesStep ==
  ASSUME Inv, [Next]_vars
  PROVE  LanesInv'
<1>1. \A c \in Cases : status[c] # "none" => status'[c] # "none"
  BY StaysOpened
<1>2. CASE Asked
  <2>1. /\ lane.of \in Cases /\ lane.of # MaxCases /\ lane.of + 1 \in Cases
        /\ lane'.pc = "answered" /\ lane'.of = lane.of /\ UNCHANGED follows
    BY <1>2 DEF Asked, Inv, LanesInv, Asking, Cases
  <2>2. lane'.got = "fresh" => status'[lane.of + 1] # "none"
    <3>1. lane'.got = "fresh" => Supersede(lane.of)
      BY <1>2 DEF Asked
    <3>2. QED BY <2>1, <3>1 DEF Supersede, Inv, TypeInv, PlatformType
  <2>3. \A c \in follows' : status'[c + 1] # "none"
    BY <1>1, <2>1 DEF Inv, TypeInv, MemoryType, LanesInv, Cases
  <2>4. QED BY <2>1, <2>2, <2>3 DEF LanesInv, Asking
<1>3. CASE NewCase
  BY <1>3 DEF NewCase, Repointed, Inv, TypeInv, ThreadsType, LanesInv, Asking, Cases
<1>4. CASE Step \/ LetOut \/ LaneOpens \/ NoNewCase \/ AskedAgain
  BY <1>4 DEF Step, LetOut, LaneOpens, NoNewCase, MayRetry, AskedAgain,
              Inv, TypeInv, ThreadsType, LanesInv, Asking
<1>8. CASE AskAgain
  BY <1>8 DEF AskAgain, Noted, Inv, LanesInv, Asking, Cases
<1>5. CASE Crosses \/ Restart
  BY <1>5 DEF Crosses, Recorded, Restart, Inv, TypeInv, ThreadsType, LanesInv, Asking, Cases
<1>6. CASE ~(Asked \/ NewCase \/ Step \/ LetOut \/ LaneOpens \/ AskAgain \/ NoNewCase
             \/ AskedAgain \/ Crosses \/ Restart)
  <2>1. UNCHANGED <<lane, follows>>
    BY <1>6 DEF Next, Platform, Lane, Person, Drain, Platform, Settles, Ends, Lands, Supersede,
                Drop, PersonComes, Waited, WaitRunsOut, Claims, TooLate, PersonOpens,
                PersonNotes, Sends, Sent, Answer, Delivered, Superseded, Terminal,
                OtherRefusal, Unanswered, Takes, Refused, ExitClosed, Follows, Resolved, Followed,
                NotFollowed, NotSaid, TookItsPlace, vars, platform
  <2>2. QED BY <1>1, <2>1 DEF Inv, TypeInv, MemoryType, LanesInv, Asking, Cases
<1>7. QED BY <1>2, <1>3, <1>4, <1>5, <1>6, <1>8

\* What an ask-again the platform takes changes.
Supersedes(c) ==
  /\ c + 1 \in Cases /\ status[c] = "open" /\ status[c + 1] = "none"
  /\ status'[c] = "superseded" /\ status'[c + 1] = "open"
  /\ \A d \in Cases \ {c, c + 1} : status'[d] = status[d]

LEMMA SupersedeIs ==
  ASSUME TypeInv, NEW c \in Cases, c # MaxCases, Supersede(c)
  PROVE  UNCHANGED status \/ Supersedes(c)
<1>1. c + 1 \in Cases /\ c + 1 # c
  BY DEF Cases
<1>2. CASE /\ status[c] = "open" /\ status[c + 1] = "none"
           /\ status' = [status EXCEPT ![c] = "superseded", ![c + 1] = "open"]
  BY <1>1, <1>2 DEF Supersedes, TypeInv, PlatformType
<1>3. QED BY <1>2 DEF Supersede


LEMMA ClaimStep ==
  ASSUME Inv, [Next]_vars
  PROVE  ClaimInv'
<1> USE DEF ClaimInv, PersonOpening, LaneOpening, Unrecorded, NotTaken
<1>1. CASE Step \/ LetOut \/ LaneOpens \/ Drop
  BY <1>1 DEF Step, LetOut, LaneOpens, Drop, Inv, TypeInv, ThreadsType, HistoryType, LanesInv
<1>2. CASE AskAgain \/ Asked \/ NoNewCase \/ AskedAgain
  BY <1>2 DEF AskAgain, Noted, Asked, Supersede, NoNewCase, MayRetry, AskedAgain, Inv, TypeInv,
              ThreadsType, HistoryType
<1>3. CASE NewCase
  <2>1. /\ lane.of # 0 /\ lane.pc = "answered" /\ lane'.pc = "over"
        /\ UNCHANGED <<taken, person, crossing, opener, queue, record, drain, completed, restarts>>
    BY <1>3 DEF NewCase, Inv, TypeInv, ThreadsType, LanesInv, Asking, Cases
  <2>2. CASE case = lane.of /\ UNCHANGED <<follows, letOutBy>>
    BY <2>1, <2>2 DEF Inv
  <2>3. CASE case # lane.of /\ lane.of \in taken /\ letOutBy' = Repointed(lane.of) /\ UNCHANGED case
    BY <2>1, <2>3 DEF Inv, Repointed
  <2>4. CASE UNCHANGED <<case, follows, letOutBy>>
    BY <2>1, <2>4 DEF Inv
  <2>5. QED BY <1>3, <2>2, <2>3, <2>4 DEF NewCase
<1>4. CASE PersonComes \/ Waited \/ WaitRunsOut \/ TooLate \/ PersonOpens
  BY <1>4 DEF PersonComes, Waited, WaitRunsOut, TooLate, PersonOpens, Inv, TypeInv, ThreadsType,
              HistoryType
<1>5. CASE Claims
  BY <1>5 DEF Claims, Inv, TypeInv, ThreadsType, HistoryType
<1>6. CASE PersonNotes \/ Crosses
  BY <1>6 DEF PersonNotes, Crosses, Recorded, Inv, TypeInv, ThreadsType, HistoryType
<1>7. CASE Sends \/ Sent \/ Follows
  BY <1>7 DEF Sends, Sent, Answer, Delivered, Superseded, Terminal, OtherRefusal, Unanswered,
              Takes, Refused, ExitClosed, Follows, Resolved, Followed, NotFollowed, NotSaid, TookItsPlace, Inv,
              TypeInv, OutboxType, Opt
<1>8. CASE Restart
  BY <1>8 DEF Restart, Inv, TypeInv, HistoryType
<1>9. CASE Platform \/ UNCHANGED vars
  BY <1>9 DEF Platform, Settles, Ends, Lands, Supersede, vars, platform, Inv
<1>10. QED BY <1>1, <1>2, <1>3, <1>4, <1>5, <1>6, <1>7, <1>8, <1>9 DEF Next, Lane, Person, Drain

LEMMA AuthorityStep ==
  ASSUME Inv, [Next]_vars
  PROVE  AuthorityInv'
<1>1. CASE Step \/ LetOut \/ LaneOpens \/ Drop
  BY <1>1 DEF Step, LetOut, LaneOpens, Drop, Inv, TypeInv, ThreadsType, HistoryType, ClaimInv,
              AuthorityInv, AuthorityKept, PersonOpening, LaneOpening, Unrecorded, NotTaken, Goes
<1>2. CASE AskAgain \/ Asked \/ NoNewCase \/ AskedAgain
  BY <1>2 DEF AskAgain, Noted, Asked, Supersede, NoNewCase, MayRetry, AskedAgain, Inv, TypeInv,
              ThreadsType, HistoryType, ClaimInv, AuthorityInv, AuthorityKept, PersonOpening,
              LaneOpening, Unrecorded, NotTaken, Goes
<1>3. CASE NewCase
  <2>1. /\ lane.of \in Cases /\ lane.pc = "answered" /\ lane'.pc = "over" /\ follows = {}
        /\ UNCHANGED <<taken, person, crossing, opener, queue, record>>
    BY <1>3 DEF NewCase, Inv, TypeInv, ThreadsType, LanesInv, Asking, ClaimInv, AuthorityInv,
                AuthorityKept, PersonOpening, LaneOpening, Unrecorded, NotTaken, Goes
  <2>2. CASE UNCHANGED <<follows, letOutBy, slipped>>
    BY <2>1, <2>2 DEF Inv, ClaimInv, AuthorityInv, AuthorityKept, PersonOpening, LaneOpening,
                      Unrecorded, NotTaken, Goes
  <2>3. CASE /\ case # lane.of /\ lane.of \in taken /\ follows' = follows \cup {lane.of}
             /\ letOutBy' = Repointed(lane.of)
             /\ slipped' = (slipped \/ (person.of = lane.of /\ person.pc \in {"opens", "notes"}))
    <3>1. PersonOpening => slipped'
      BY <2>1, <2>3 DEF Inv, ClaimInv, AuthorityInv, AuthorityKept, PersonOpening, LaneOpening,
                        Unrecorded, NotTaken, Goes
    <3>2. slipped => slipped'
      BY <2>3
    <3>3. \A c \in crossing : c # 0 /\ ~slipped => letOutBy' = {c + 1} /\ c \in follows'
      <4>1. crossing # {} => opener = "person"
        BY <2>3 DEF Inv, TypeInv, HistoryType, ClaimInv, NotTaken, Unrecorded
      <4>2. \A c \in crossing : c # 0 /\ ~slipped => c = lane.of /\ letOutBy = {c}
        BY <2>1, <2>3, <4>1 DEF Inv, AuthorityInv, Goes
      <4>3. QED BY <2>3, <4>2 DEF Repointed
    <3>4. QED BY <2>1, <2>3, <3>1, <3>2, <3>3 DEF Inv, ClaimInv, AuthorityInv, AuthorityKept,
                                                  PersonOpening, LaneOpening, Unrecorded, NotTaken, Goes
  <2>4. QED BY <1>3, <2>2, <2>3 DEF NewCase
<1>4. CASE PersonComes \/ Waited \/ WaitRunsOut \/ TooLate \/ PersonOpens
  BY <1>4 DEF PersonComes, Waited, WaitRunsOut, TooLate, PersonOpens, Inv, TypeInv, ThreadsType,
              HistoryType, ClaimInv, AuthorityInv, AuthorityKept, PersonOpening, LaneOpening,
              Unrecorded, NotTaken, Goes
<1>5. CASE Claims
  BY <1>5 DEF Claims, Inv, TypeInv, ThreadsType, HistoryType, ClaimInv, AuthorityInv,
              AuthorityKept, PersonOpening, LaneOpening, Unrecorded, NotTaken, Goes
<1>6. CASE PersonNotes
  BY <1>6 DEF PersonNotes, Inv, TypeInv, ThreadsType, HistoryType, ClaimInv, AuthorityInv,
              AuthorityKept, PersonOpening, LaneOpening, Unrecorded, NotTaken, Goes
<1>11. CASE Crosses
  <2>1. PICK c \in crossing : Recorded(c)
    BY <1>11 DEF Crosses
  <2>2. /\ c \in Nat /\ record = {} /\ crossing' = {} /\ opener \in {"lane", "person"}
        /\ ~PersonOpening /\ ~PersonOpening'
        /\ UNCHANGED <<taken, lane, person, opener, slipped, record>>
    BY <1>11, <2>1 DEF Crosses, Inv, TypeInv, ThreadsType, HistoryType, Opt, Cases, ClaimInv,
                       AuthorityInv, AuthorityKept, PersonOpening, LaneOpening, Unrecorded,
                       NotTaken, Goes
  <2>3. follows' \subseteq follows /\ (letOutBy = {} => letOutBy' = {})
    BY <2>1 DEF Recorded
  <2>4. PICK event \in Nat, by \in BOOLEAN : /\ queue' = {[exit |-> Goes(c), event |-> event, by |-> by]}
                                             /\ by <=> (Goes(c) # 0 /\ Goes(c) \in letOutBy)
    <3>1. (Goes(c) # 0 /\ Goes(c) \in letOutBy) \in BOOLEAN
      OBVIOUS
    <3>2. (IF c \in asked THEN c + 1 ELSE 0) \in Nat
      BY <2>2
    <3>3. queue' = {[exit |-> Goes(c), event |-> IF c \in asked THEN c + 1 ELSE 0,
                     by |-> Goes(c) # 0 /\ Goes(c) \in letOutBy]}
      BY <2>1 DEF Recorded, Goes
    <3>4. QED BY <3>1, <3>2, <3>3, Zenon
  <2>5. Goes(c) # 0 /\ ~slipped => (Goes(c) \in letOutBy <=> opener = "person")
    <3>1. CASE opener = "lane"
      BY <3>1 DEF Inv, ClaimInv, AuthorityInv, AuthorityKept, PersonOpening, LaneOpening,
                  Unrecorded, NotTaken, Goes
    <3>2. CASE opener = "person"
      <4>1. c # 0 \/ Goes(c) = 0
        BY DEF Inv, TypeInv, MemoryType, Cases, ClaimInv, AuthorityInv, AuthorityKept,
               PersonOpening, LaneOpening, Unrecorded, NotTaken, Goes
      <4>2. c # 0 /\ ~slipped => letOutBy = {Goes(c)}
        BY <2>1, <3>2 DEF Inv, AuthorityInv
      <4>3. QED BY <3>2, <4>1, <4>2
    <3>3. QED BY <2>2, <3>1, <3>2
  <2>6. AuthorityKept'
    <3>1. record' = {}
      BY <2>2
    <3>2. \A r \in queue' : r = [exit |-> Goes(c), event |-> event, by |-> by]
      BY <2>4, Zenon
    <3>3. \A r \in queue' : r.exit = Goes(c) /\ r.by = by
      BY <3>2
    <3>4. Goes(c) # 0 /\ ~slipped' => (by <=> opener' = "person")
      <4>1. opener' = opener /\ slipped' = slipped
        BY <2>2
      <4>2. QED BY <2>4, <2>5, <4>1, Zenon
    <3>5. QED BY <3>1, <3>3, <3>4 DEF AuthorityKept
  <2>7. QED BY <2>2, <2>3, <2>6 DEF Inv, ClaimInv, AuthorityInv, AuthorityKept, PersonOpening,
                                    LaneOpening, Unrecorded, NotTaken, Goes
<1>7. CASE Sends \/ Sent \/ Follows
  BY <1>7 DEF Sends, Sent, Answer, Delivered, Superseded, Terminal, OtherRefusal, Unanswered,
              Takes, Refused, ExitClosed, Follows, Resolved, Followed, NotFollowed, NotSaid, TookItsPlace, Inv,
              TypeInv, OutboxType, DrainInv, Opt, ClaimInv, AuthorityInv, AuthorityKept,
              PersonOpening, LaneOpening, Unrecorded, NotTaken, Goes
<1>8. CASE Restart
  BY <1>8 DEF Restart, Inv, TypeInv, HistoryType, ClaimInv, AuthorityInv, AuthorityKept,
              PersonOpening, LaneOpening, Unrecorded, NotTaken, Goes
<1>9. CASE Platform \/ UNCHANGED vars
  BY <1>9 DEF Platform, Settles, Ends, Lands, Supersede, vars, platform, Inv, ClaimInv,
              AuthorityInv, AuthorityKept, PersonOpening, LaneOpening, Unrecorded, NotTaken, Goes
<1>10. QED BY <1>1, <1>2, <1>3, <1>4, <1>5, <1>6, <1>7, <1>8, <1>9, <1>11 DEF Next, Lane, Person,
                                                                              Drain

LEMMA ChainStep ==
  ASSUME Inv, [Next]_vars
  PROVE  ChainInv'
<1> USE DEF ChainInv, Undisturbed
<1>1. CASE Platform
  BY <1>1 DEF Platform, Settles, Ends, Lands, Supersede, Inv, TypeInv, PlatformType, Cases
<1>2. CASE Asked
  <2>1. lane.of \in Cases /\ lane.of # MaxCases /\ UNCHANGED <<record, astray>>
    BY <1>2 DEF Asked, Inv, LanesInv, Asking
  <2>2. CASE Supersede(lane.of)
    <3>1. CASE UNCHANGED status
      BY <2>1, <3>1 DEF Inv
    <3>2. CASE Supersedes(lane.of)
      BY <2>1, <3>2 DEF Inv, Supersedes, Cases
    <3>3. QED BY <2>1, <2>2, <3>1, <3>2, SupersedeIs DEF Inv
  <2>3. CASE UNCHANGED status
    BY <2>1, <2>3 DEF Inv
  <2>4. QED BY <1>2, <2>2, <2>3 DEF Asked
<1>3. CASE Sent
  <2>1. Undisturbed' => Undisturbed /\ UNCHANGED status
    BY <1>3 DEF Sent, Answer, Delivered, Superseded, Terminal, OtherRefusal, Unanswered, Takes,
                Refused, ExitClosed
  <2>2. QED BY <2>1 DEF Inv
<1>4. CASE ~(Platform \/ Asked \/ Sent)
  <2>1. UNCHANGED platform
    BY <1>4 DEF Next, Platform, Lane, Person, Drain, Step, LetOut, LaneOpens, Drop, AskAgain,
                Noted, NewCase, Repointed, NoNewCase, MayRetry, AskedAgain, PersonComes, Waited,
                WaitRunsOut, Claims, TooLate, PersonOpens, PersonNotes, Crosses, Recorded,
                Sends, Follows, Resolved, Followed, NotFollowed, NotSaid, TookItsPlace, Refused, Restart,
                vars, platform
  <2>2. QED BY <2>1 DEF Inv
<1>5. QED BY <1>1, <1>2, <1>3, <1>4

\* The car has one case.
LEMMA OneCase ==
  ASSUME Inv
  PROVE  /\ Car \subseteq Cases /\ \A x, y \in Car : x = y
         /\ queue # {} \/ record # {} => Car = {}
<1> USE DEF Inv, TypeInv, ThreadsType, MemoryType, HistoryType, ClaimInv, Car, PersonOpening,
            LaneOpening, Unrecorded, NotTaken, Opt
<1>1. Car \subseteq Cases
  OBVIOUS
<1>2. \A x, y \in Car : x = y
  OBVIOUS
<1>3. queue # {} \/ record # {} => Car = {}
  OBVIOUS
<1>4. QED BY <1>1, <1>2, <1>3

LEMMA StatusStep ==
  ASSUME Inv, status' = status \/ \E c \in Cases : Pending(c) /\ Supersedes(c),
         Car' \subseteq Car, asked' = asked, queue' = queue, Undisturbed' => Undisturbed
  PROVE  OpenInv'
<1>1. CASE status' = status
  BY <1>1 DEF Inv, CaseInv, OpenInv, IsOpen
<1>2. ASSUME NEW c \in Cases, Pending(c), Supersedes(c), Undisturbed'
      PROVE  /\ \A x \in Car' : IsOpen(x, x \in asked)'
             /\ \A e \in queue' : e.exit # 0 => IsOpen(e.exit, e.event = e.exit + 1)'
  <2>1. ASSUME NEW x \in Cases, NEW asks, IsOpen(x, asks), c <= x, c = x => asks
        PROVE  IsOpen(x, asks)'
    BY <1>2, <2>1 DEF Inv, ChainInv, IsOpen, Supersedes, Cases
  <2>2. Undisturbed
    BY <1>2
  <2>3. ASSUME NEW x \in Car' PROVE IsOpen(x, x \in asked)'
    <3>1. x \in Cases /\ IsOpen(x, x \in asked) /\ c <= x /\ (c = x => x \in asked)
      BY <1>2, <2>2, OneCase DEF Inv, CaseInv, OpenInv, PendingInv
    <3>2. QED BY <2>1, <3>1
  <2>4. ASSUME NEW e \in queue', e.exit # 0 PROVE IsOpen(e.exit, e.event = e.exit + 1)'
    <3>1. e.exit \in Cases
      BY <2>4 DEF Inv, TypeInv, OutboxType, Opt, Closes
    <3>2. IsOpen(e.exit, e.event = e.exit + 1) /\ c <= e.exit /\ (c = e.exit => e.event = e.exit + 1)
      BY <1>2, <2>2, <2>4 DEF Inv, CaseInv, OpenInv, PendingInv
    <3>3. QED BY <2>1, <3>1, <3>2
  <2>5. QED BY <2>3, <2>4
<1>3. QED BY <1>1, <1>2 DEF OpenInv

\* A step that asks nothing and records nothing keeps what the case and the
\* close go by, when the platform takes no ask-again in it.
LEMMA QuietStep ==
  ASSUME Inv, Car' \subseteq Car, UNCHANGED <<status, asked, follows>>, queue' \subseteq queue,
         \A c \in Cases : Pending(c)' => Pending(c), Undisturbed' => Undisturbed
  PROVE  CaseInv'
<1>1. PendingInv'
  BY DEF Inv, CaseInv, PendingInv
<1>2. OpenInv'
  BY DEF Inv, CaseInv, OpenInv, IsOpen
<1>3. FollowInv'
  BY DEF Inv, CaseInv, FollowInv
<1>4. QED BY <1>1, <1>2, <1>3 DEF CaseInv

LEMMA CaseStep ==
  ASSUME Inv, [Next]_vars
  PROVE  CaseInv'
<1>1. CASE Platform
  <2>1. PICK c \in Cases : Settles(c) \/ Ends(c) \/ Lands(c)
    BY <1>1 DEF Platform
  <2>2. /\ UNCHANGED <<asked, follows, queue, record>> /\ Car' = Car
        /\ late' \subseteq late /\ lane' = lane
    BY <2>1 DEF Settles, Ends, Lands, Car, PersonOpening, LaneOpening
  <2>3. \A d \in Cases : Pending(d)' => Pending(d)
    BY <2>2 DEF Pending
  <2>4. CASE Settles(c)
    BY <2>2, <2>3, <2>4, QuietStep DEF Settles, Undisturbed
  <2>5. CASE Ends(c)
    BY <2>2, <2>3, <2>5 DEF Ends, Inv, CaseInv, PendingInv, OpenInv, FollowInv, Undisturbed
  <2>6. CASE Lands(c)
    <3>1. c # MaxCases /\ Pending(c) /\ astray' = astray /\ (Supersede(c) \/ UNCHANGED status)
      BY <2>6 DEF Lands, Pending, Inv, TypeInv, PlatformType
    <3>2. status' = status \/ Supersedes(c)
      BY <3>1, SupersedeIs DEF Inv
    <3>3. OpenInv'
      BY <2>2, <3>1, <3>2, StatusStep DEF Undisturbed
    <3>4. QED BY <2>2, <2>3, <3>3 DEF Inv, CaseInv, PendingInv, FollowInv
  <2>7. QED BY <2>1, <2>4, <2>5, <2>6
<1>2. CASE Asked
  <2>1. lane.of \in Cases /\ lane.of # MaxCases /\ Pending(lane.of)
    BY <1>2 DEF Asked, Pending, Inv, LanesInv, Asking
  <2>2. /\ UNCHANGED <<asked, follows, queue, record, astray>> /\ Car' = Car
        /\ late' \subseteq late \cup {lane.of} /\ lane'.of = lane.of /\ lane.pc = "ask"
        /\ Supersede(lane.of) \/ UNCHANGED status
    BY <1>2 DEF Asked, Car, PersonOpening, LaneOpening
  <2>3. \A d \in Cases : Pending(d)' => Pending(d)
    BY <2>1, <2>2 DEF Pending
  <2>4. status' = status \/ Supersedes(lane.of)
    BY <2>1, <2>2, SupersedeIs DEF Inv
  <2>5. OpenInv'
    BY <2>1, <2>2, <2>4, StatusStep DEF Undisturbed
  <2>6. QED BY <2>2, <2>3, <2>5 DEF Inv, CaseInv, PendingInv, FollowInv
<1>3. CASE Sent
  <2>1. UNCHANGED <<asked, follows, late, lane>> /\ queue' \subseteq queue
    BY <1>3 DEF Sent, Answer, Delivered, Superseded, Terminal, OtherRefusal, Unanswered, Takes,
                Refused, ExitClosed
  <2>2. Undisturbed' => Undisturbed /\ UNCHANGED status
    BY <1>3 DEF Sent, Answer, Delivered, Superseded, Terminal, OtherRefusal, Unanswered, Takes,
                Refused, ExitClosed, Undisturbed
  <2>3. Car' = Car
    BY <1>3 DEF Sent, Car, PersonOpening, LaneOpening
  <2>4. QED BY <2>1, <2>2, <2>3 DEF Inv, CaseInv, PendingInv, OpenInv, FollowInv, Pending, IsOpen
<1>4. CASE AskAgain
  <2>1. /\ case \in Cases /\ Car = {case} /\ Car' = Car /\ queue = {}
        /\ UNCHANGED <<status, follows, queue, record, astray, late>>
        /\ asked' = asked \cup {case} /\ lane' = [pc |-> "ask", of |-> case, got |-> "none"]
    BY <1>4, OneCase DEF AskAgain, Noted, Car, PersonOpening, LaneOpening, Cases
  <2>2. PendingInv'
    <3>1. \A d \in Cases : Pending(d)' => Pending(d) \/ d = case
      BY <2>1 DEF Pending
    <3>2. QED BY <2>1, <3>1 DEF PendingInv, CaseInv, Inv, Cases
  <2>3. OpenInv' /\ FollowInv'
    BY <2>1 DEF OpenInv, FollowInv, CaseInv, Inv, IsOpen, Undisturbed
  <2>4. QED BY <2>2, <2>3 DEF CaseInv
<1>5. CASE NewCase
  <2>1. /\ lane.of \in Cases /\ lane.of + 1 \in Cases /\ lane.pc = "answered" /\ lane'.pc = "over"
        /\ status[lane.of + 1] # "none" /\ UNCHANGED <<status, queue, record, astray, late, person, crossing>>
    BY <1>5 DEF NewCase, Inv, TypeInv, ThreadsType, LanesInv, Asking, Cases
  <2>2. \A d \in Cases : Pending(d)' => Pending(d)
    BY <2>1 DEF Pending
  <2>3. CASE /\ case = lane.of /\ case' = lane.of + 1
             /\ asked' = asked \ {lane.of} /\ UNCHANGED follows
    <3>1. /\ case # 0 /\ ~PersonOpening /\ ~LaneOpening /\ crossing = {} /\ queue = {} /\ follows = {}
          /\ ~PersonOpening' /\ ~LaneOpening'
      BY <2>1, <2>3 DEF PersonOpening, LaneOpening, Cases, Inv, TypeInv, HistoryType, ClaimInv,
                        NotTaken, Unrecorded
    <3>5. Car = {case} /\ Car' = {case + 1}
      BY <2>1, <2>3, <3>1 DEF Car, Cases
    <3>2. PendingInv' /\ FollowInv'
      BY <2>1, <2>2, <2>3, <3>1, <3>5 DEF PendingInv, FollowInv, CaseInv, Inv, Cases
    <3>3. OpenInv'
      BY <2>1, <2>3, <3>1, <3>5 DEF OpenInv, CaseInv, Inv, IsOpen, Undisturbed, ChainInv, Cases
    <3>4. QED BY <3>2, <3>3 DEF CaseInv
  <2>4. CASE /\ case # lane.of /\ lane.of \in taken
             /\ follows' = follows \cup {lane.of} /\ UNCHANGED <<case, asked>>
    <3>1. Car' = Car
      BY <2>1, <2>4 DEF Car, PersonOpening, LaneOpening
    <3>2. lane.of \in asked \/ lane.of \notin Car
      BY <2>1 DEF Pending, PendingInv, CaseInv, Inv
    <3>3. QED BY <2>1, <2>2, <2>4, <3>1, <3>2 DEF PendingInv, OpenInv, FollowInv, CaseInv, Inv,
                                                  IsOpen, Undisturbed
  <2>5. CASE UNCHANGED <<case, asked, follows>>
    <3>1. Car' = Car
      BY <2>1, <2>5 DEF Car, PersonOpening, LaneOpening
    <3>2. QED BY <2>1, <2>2, <2>5, <3>1, QuietStep DEF Undisturbed
  <2>6. QED BY <1>5, <2>3, <2>4, <2>5 DEF NewCase
<1>6. CASE Crosses
  <2>1. PICK c \in crossing : Recorded(c)
    BY <1>6 DEF Crosses
  <2>2. /\ crossing' = {} /\ UNCHANGED <<status, record, astray, late, lane, person, case>>
        /\ asked' = asked \ {c} /\ follows' = follows \ {c}
    BY <1>6, <2>1 DEF Crosses, Recorded
  <2>3. \A e \in queue' : e.exit = Goes(c) /\ e.event = IF c \in asked THEN c + 1 ELSE 0
    BY <2>1 DEF Recorded, Goes
  <2>4. \A d \in Cases : Pending(d)' => Pending(d)
    BY <2>2 DEF Pending
  <2>5. Car' \subseteq Car /\ c \in Cases \cup {0} /\ (c # 0 => Car = {c})
    BY <2>2, OneCase DEF Car, PersonOpening, LaneOpening, Inv, TypeInv, ThreadsType, Opt
  <2>6. CASE c = 0
    <3>1. Goes(c) = 0 /\ c \notin asked /\ c \notin follows
      BY <2>6 DEF Goes, Inv, TypeInv, MemoryType, Cases
    <3>2. asked' = asked /\ follows' = follows
      BY <2>2, <3>1
    <3>3. QED BY <2>2, <2>3, <2>4, <2>5, <3>1, <3>2 DEF Inv, CaseInv, PendingInv, OpenInv,
                                                        FollowInv, IsOpen, Undisturbed
  <2>7. CASE c # 0
    <3>1. Car = {c} /\ Car' = {}
      BY <2>2, <2>5, <2>7 DEF Car, PersonOpening, LaneOpening, Inv, ClaimInv, HistoryType,
                              TypeInv, Unrecorded, NotTaken
    <3>2. c \in follows => c \in asked /\ status[c + 1] # "none"
      BY <3>1 DEF Inv, CaseInv, FollowInv, LanesInv
    <3>3. PendingInv'
      BY <2>2, <2>3, <2>4, <2>5, <2>7, <3>1, <3>2 DEF Inv, CaseInv, PendingInv, Goes, Cases
    <3>4. Undisturbed => IsOpen(c, c \in asked)
      BY <3>1 DEF Inv, CaseInv, OpenInv
    <3>5. Undisturbed /\ c \in follows => status[c + 1] = "open"
      BY <2>5, <2>7, <3>2, <3>4 DEF IsOpen, Inv, ChainInv, TypeInv, MemoryType, Cases
    <3>6. OpenInv'
      BY <2>2, <2>3, <3>1, <3>2, <3>4, <3>5 DEF OpenInv, Goes, IsOpen, Undisturbed
    <3>7. FollowInv'
      BY <2>2, <3>1 DEF FollowInv, Inv, CaseInv, TypeInv, MemoryType
    <3>8. QED BY <3>3, <3>6, <3>7 DEF CaseInv
  <2>8. QED BY <2>6, <2>7
<1>7. CASE Restart
  <2>1. /\ Car' = {} /\ asked' = {} /\ follows' = {} /\ UNCHANGED <<status, record, astray, late, queue>>
        /\ \A d \in Cases : Pending(d)' => Pending(d)
    BY <1>7 DEF Restart, Car, Pending, PersonOpening, LaneOpening
  <2>2. QED BY <2>1 DEF Inv, CaseInv, PendingInv, OpenInv, FollowInv, IsOpen, Undisturbed
<1>8. CASE Step \/ LetOut \/ LaneOpens \/ Drop \/ NoNewCase \/ AskedAgain
  <2>1. UNCHANGED <<platform, asked, follows, queue>>
    BY <1>8 DEF Step, LetOut, LaneOpens, Drop, NoNewCase, MayRetry, AskedAgain
  <2>2. Car' \subseteq Car
    BY <1>8 DEF Step, LetOut, LaneOpens, Drop, NoNewCase, MayRetry, AskedAgain, Car,
                PersonOpening, LaneOpening
  <2>3. \A d \in Cases : Pending(d)' => Pending(d)
    BY <1>8 DEF Step, LetOut, LaneOpens, Drop, NoNewCase, MayRetry, AskedAgain, Pending
  <2>4. QED BY <2>1, <2>2, <2>3, QuietStep DEF Undisturbed
<1>9. CASE PersonComes \/ Waited \/ WaitRunsOut \/ Claims \/ TooLate \/ PersonOpens \/ PersonNotes
  <2>1. UNCHANGED <<platform, asked, follows, queue, lane>>
    BY <1>9 DEF PersonComes, Waited, WaitRunsOut, Claims, TooLate, PersonOpens, PersonNotes
  <2>2. Car' \subseteq Car
    BY <1>9 DEF PersonComes, Waited, WaitRunsOut, Claims, TooLate, PersonOpens, PersonNotes, Car,
                PersonOpening, LaneOpening
  <2>3. QED BY <2>1, <2>2, QuietStep DEF Undisturbed, Pending
<1>10. CASE Sends \/ Follows \/ UNCHANGED vars
  <2>1. UNCHANGED <<platform, memory, lane, person, crossing>> /\ queue' \subseteq queue
    BY <1>10 DEF Sends, Follows, Resolved, Followed, NotFollowed, NotSaid, TookItsPlace, Refused, vars, platform
  <2>2. Car' = Car
    BY <2>1 DEF Car, PersonOpening, LaneOpening
  <2>3. QED BY <2>1, <2>2, QuietStep DEF Undisturbed, Pending
<1>11. QED BY <1>1, <1>2, <1>3, <1>4, <1>5, <1>6, <1>7, <1>8, <1>9, <1>10 DEF Next, Lane, Person,
                                                                              Drain

\* What was superseded stays so while nothing disturbs the chain.
LEMMA StaysSuperseded ==
  ASSUME Inv, [Next]_vars, Undisturbed', NEW c \in Cases, status[c] = "superseded"
  PROVE  status'[c] = "superseded"
<1>1. CASE Platform
  <2>1. PICK d \in Cases : Settles(d) \/ Ends(d) \/ Lands(d)
    BY <1>1 DEF Platform
  <2>2. CASE Lands(d)
    <3>1. d # MaxCases
      BY <2>2 DEF Lands, Inv, TypeInv, PlatformType
    <3>2. QED BY <2>2, <3>1, SupersedeIs DEF Lands, Supersedes, Inv, ChainInv, Undisturbed
  <2>3. CASE Settles(d) \/ Ends(d)
    BY <2>3 DEF Settles, Ends, Undisturbed
  <2>4. QED BY <2>1, <2>2, <2>3
<1>2. CASE Asked
  <2>1. lane.of \in Cases /\ lane.of # MaxCases /\ (Supersede(lane.of) \/ UNCHANGED status)
    BY <1>2 DEF Asked, Inv, LanesInv, Asking
  <2>2. QED BY <2>1, SupersedeIs DEF Supersedes, Inv
<1>3. CASE Sent
  BY <1>3 DEF Sent, Answer, Delivered, Superseded, Terminal, OtherRefusal, Unanswered, Takes,
              Refused, ExitClosed, Undisturbed
<1>4. CASE ~(Platform \/ Asked \/ Sent)
  BY <1>4 DEF Next, Platform, Lane, Person, Drain, Step, LetOut, LaneOpens, Drop, AskAgain,
              Noted, NewCase, Repointed, NoNewCase, MayRetry, AskedAgain, PersonComes, Waited,
              WaitRunsOut, Claims, TooLate, PersonOpens, PersonNotes, Crosses, Recorded,
              Sends, Follows, Resolved, Followed, NotFollowed, NotSaid, TookItsPlace, Refused, Restart, vars,
              platform
<1>5. QED BY <1>1, <1>2, <1>3, <1>4

LEMMA DrainStep ==
  ASSUME Inv, [Next]_vars
  PROVE  DrainInv' /\ ToldInv'
<1>1. Undisturbed' => Undisturbed
  BY DEF Next, Platform, Lane, Person, Drain, Platform, Settles, Ends, Lands, Supersede, Step,
         LetOut, LaneOpens, Drop, AskAgain, Noted, Asked, NewCase, Repointed, NoNewCase,
         MayRetry, AskedAgain, PersonComes, Waited, WaitRunsOut, Claims, TooLate, PersonOpens,
         PersonNotes, Crosses, Recorded, Sends, Sent, Answer, Delivered, Superseded,
         Terminal, OtherRefusal, Unanswered, Takes, Refused, ExitClosed, Follows,
         Resolved, Followed, NotFollowed, NotSaid, TookItsPlace, Restart, vars, platform, Undisturbed
<1>2. \A c \in Cases : Undisturbed' /\ status[c] = "superseded" => status'[c] = "superseded"
  BY StaysSuperseded
<1>3. \A e \in queue : e.exit \in Cases \cup {0} /\ e.event \in Cases \cup {0}
  BY DEF Inv, TypeInv, OutboxType, Opt, Closes
<1>4. CASE Sent
  <2>1. PICK e \in queue : Answer(e) \/ Unanswered(e)
    BY <1>4 DEF Sent
  <2>2. queue = {e}
    BY <2>1 DEF Inv, TypeInv, OutboxType, Opt
  <2>3. CASE Delivered(e) \/ Unanswered(e) \/ OtherRefusal(e)
    BY <1>4, <2>2, <2>3 DEF Sent, Delivered, Unanswered, OtherRefusal, Takes, Refused, Inv, DrainInv,
                            ToldInv
  <2>4. CASE Superseded(e)
    <3>1. /\ UNCHANGED <<status, settled, record, late, astray, queue, told>>
          /\ drain'.pc = "follows" /\ drain'.exit = e.exit /\ e.exit # 0 /\ record = {}
          /\ status[e.exit] # "open"
      BY <2>4 DEF Superseded, ExitClosed
    <3>2. Undisturbed => status[e.exit] = "superseded"
      BY <2>1, <3>1, <1>3 DEF Inv, CaseInv, OpenInv, IsOpen
    <3>3. QED BY <1>4, <2>2, <3>1, <3>2 DEF Sent, DrainInv, Inv, Undisturbed, ToldInv
  <2>5. CASE Terminal(e)
    <3>1. /\ UNCHANGED platform /\ record = {} /\ drain.exit # 0 /\ status[drain.exit] # "open"
          /\ e.event = 0 \/ drain.exit # e.exit
          /\ queue' = {} /\ told' = (e.exit # 0)
      BY <2>5 DEF Terminal, ExitClosed, Refused
    <3>2. e.exit # 0 => astray
      <4>1. SUFFICES ASSUME e.exit # 0, Undisturbed PROVE FALSE
        BY <3>1 DEF Undisturbed
      <4>2. e.exit \in Cases /\ IsOpen(e.exit, e.event = e.exit + 1)
        BY <1>3, <2>1, <4>1 DEF Inv, CaseInv, OpenInv
      <4>3. drain.exit = e.exit \/ (drain.exit = e.exit + 1 /\ e.event = e.exit + 1 /\ status[e.exit] = "superseded")
        BY <1>4, <2>1, <4>1 DEF Sent, Inv, DrainInv
      <4>4. QED BY <3>1, <4>2, <4>3 DEF IsOpen, Cases
    <3>3. QED BY <3>1, <3>2 DEF DrainInv, ToldInv
  <2>6. QED BY <2>1, <2>3, <2>4, <2>5 DEF Answer
<1>5. CASE Follows
  <2>1. CASE drain' = DrainRests /\ UNCHANGED <<queue, told, silent>>
    BY <1>5, <2>1 DEF Follows, Inv, DrainInv, ToldInv
  <2>2. ASSUME NEW e \in queue, Followed(e)
        PROVE  DrainInv' /\ ToldInv'
    <3>1. queue' = {e} /\ drain'.pc = "sends" /\ drain'.exit = e.exit + 1 /\ e.event = e.exit + 1
      BY <2>2 DEF Followed, TookItsPlace, Inv, TypeInv, OutboxType, Opt
    <3>2. e.exit # 0 /\ status[e.exit] = "superseded"
      BY <1>5, <2>2 DEF Follows, Followed, Inv, DrainInv
    <3>3. QED BY <1>5, <2>2, <3>1, <3>2 DEF Follows, Followed, DrainInv, Inv, Undisturbed, ToldInv
  <2>3. ASSUME NEW e \in queue, NotFollowed(e)
        PROVE  DrainInv' /\ ToldInv'
    <3>1. e.exit \in Cases /\ record = {} /\ (Undisturbed => status[e.exit] = "superseded")
      BY <1>3, <1>5, <2>3 DEF Follows, Inv, DrainInv
    <3>2. astray
      <4>1. SUFFICES ASSUME Undisturbed PROVE FALSE
        BY <3>1 DEF Undisturbed
      <4>2. IsOpen(e.exit, e.event = e.exit + 1)
        BY <2>3, <3>1, <4>1 DEF Inv, CaseInv, OpenInv, Cases
      <4>3. QED BY <2>3, <3>1, <4>1, <4>2 DEF NotFollowed, IsOpen
    <3>3. QED BY <1>5, <2>3, <3>2 DEF Follows, NotFollowed, Refused, DrainInv, ToldInv
  <2>4. ASSUME NEW e \in queue, NotSaid(e)
        PROVE  DrainInv' /\ ToldInv'
    BY <2>4 DEF NotSaid, Refused, DrainInv, ToldInv
  <2>5. QED BY <1>5, <2>1, <2>2, <2>3, <2>4 DEF Follows, Resolved
<1>6. CASE Sends
  BY <1>6 DEF Sends, Inv, TypeInv, OutboxType, Opt, DrainInv, ToldInv
<1>7. CASE Crosses
  <2>1. drain.pc = "waits" /\ UNCHANGED <<drain, told, astray, silent>>
    BY <1>7 DEF Crosses, Inv, ClaimInv
  <2>2. QED BY <2>1 DEF DrainInv, Inv, ToldInv
<1>8. CASE Restart
  BY <1>8 DEF Restart, Inv, DrainInv, ToldInv
<1>9. CASE ~(Sent \/ Follows \/ Sends \/ Crosses \/ Restart)
  <2>1. UNCHANGED <<record, queue, drain, told, silent>> /\ (astray => astray')
    BY <1>9 DEF Next, Platform, Lane, Person, Drain, Platform, Settles, Ends, Lands, Supersede,
                Step, LetOut, LaneOpens, Drop, AskAgain, Noted, Asked, NewCase, Repointed,
                NoNewCase, MayRetry, AskedAgain, PersonComes, Waited, WaitRunsOut, Claims,
                TooLate, PersonOpens, PersonNotes, vars, platform
  <2>2. QED BY <1>1, <1>2, <1>3, <2>1 DEF DrainInv, Inv, ToldInv
<1>10. QED BY <1>4, <1>5, <1>6, <1>7, <1>8, <1>9

LEMMA Initially == Init => Inv
<1> SUFFICES ASSUME Init PROVE Inv
  OBVIOUS
<1>1. 1 \in Cases /\ 1 # 0
  BY DEF Cases
<1>2. TypeInv
  <2>1. PlatformType /\ MemoryType
    BY <1>1 DEF Init, PlatformType, MemoryType, Opt
  <2>2. ThreadsType /\ OutboxType
    BY DEF Init, ThreadsType, OutboxType, Opt
  <2>3. HistoryType /\ FlagType
    <3>1. HistoryType
      BY DEF Init, HistoryType
    <3>2. FlagType
      BY DEF Init, FlagType
    <3>3. QED BY <3>1, <3>2
  <2>4. QED BY <2>1, <2>2, <2>3 DEF TypeInv
<1>3. LanesInv /\ ClaimInv /\ AuthorityInv /\ DrainInv
  BY DEF Init, LanesInv, Asking, ClaimInv, AuthorityInv, AuthorityKept, DrainInv,
         PersonOpening, LaneOpening, Unrecorded, NotTaken
<1>4. ChainInv
  BY <1>1 DEF Init, ChainInv, Cases
<1>5. Car = {1} /\ queue = {} /\ follows = {} /\ status[1] = "open" /\ \A c \in Cases : ~Pending(c)
  BY <1>1 DEF Init, Car, Pending, PersonOpening, LaneOpening
<1>6. CaseInv
  BY <1>5 DEF CaseInv, PendingInv, OpenInv, FollowInv, IsOpen
<1>7. ToldInv
  BY DEF Init, ToldInv
<1>8. QED BY <1>2, <1>3, <1>4, <1>6, <1>7 DEF Inv

LEMMA Invariance == Spec => []Inv
<1>1. Inv /\ [Next]_vars => Inv'
  <2> SUFFICES ASSUME Inv, [Next]_vars PROVE Inv'
    OBVIOUS
  <2>1. TypeInv'
    BY PlatformTyped, MemoryTyped, ThreadsTyped, OutboxTyped, HistoryTyped, FlagsTyped DEF TypeInv
  <2>2. QED BY <2>1, LanesStep, ClaimStep, AuthorityStep, ChainStep, CaseStep, DrainStep DEF Inv
<1>2. QED BY <1>1, Initially, PTL DEF Spec

\* However the ask-again, the person, the drain and a restart interleave, a
\* close is refused for good only when the platform itself ended the case,
\* refused the close, or would not say what became of the case: for any number
\* of cases, covered QRs and restarts.
THEOREM CloseReachesTheCase == Spec => []ReachesTheCase
<1>1. Inv => ReachesTheCase
  <2> SUFFICES ASSUME Inv PROVE ReachesTheCase
    OBVIOUS
  <2>1. TypeOK
    BY DEF TypeOK, Inv, TypeInv, PlatformType, MemoryType, ThreadsType, OutboxType, HistoryType,
           FlagType
  <2>2. QED BY <2>1 DEF Inv, ToldInv, ReachesTheCase
<1>2. QED BY <1>1, Invariance, PTL

\* The close of a case a person opened for carries the person's authority, and
\* no other does, whatever case it was re-pointed to: for any number of cases,
\* covered QRs and restarts.
THEOREM AuthorityFollows == Spec => []AuthorityKept
<1>1. Inv => AuthorityKept
  BY DEF Inv, AuthorityInv
<1>2. QED BY <1>1, Invariance, PTL
==============================================================================

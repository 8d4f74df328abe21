------------------------------ MODULE ReaderFees ------------------------------
(***************************************************************************)
(* The fees of an exit on its card reader, and the cancels that take them  *)
(* off again (src/src/lane_controller/exit_case.py, controller.py).        *)
(*                                                                         *)
(* The lane thread steps the case of the car at the exit and has the       *)
(* platform hand its fee to the reader.  A case it lets go of -- its car   *)
(* left, a new one arrived -- or that a person takes through the vend      *)
(* route has its payment's cancel queued (PendingCancels, kept in the      *)
(* outbox file), and the drain's thread asks the platform until it         *)
(* confirms.  While a cancel is owed, no other case's fee is handed over.  *)
(*                                                                         *)
(* Cars are numbered as they arrive, and a case is its car.  A case a QR   *)
(* has asked again (Opening) is not told apart from the one before it.     *)
(***************************************************************************)
EXTENDS Naturals, Sequences, FiniteSets

CONSTANTS
  Stored,       \* whether the lane keeps an outbox file
  MaxCars,      \* bound: how many cars arrive
  MaxRestarts   \* bound: how often the process stops and starts again

ASSUME FeesAssumption ==
  /\ Stored \in BOOLEAN
  /\ MaxCars \in Nat
  /\ MaxRestarts \in Nat

VARIABLES
  cars,       \* how many have arrived
  lane,       \* where the lane thread is
  exitCase,   \* _exit_case
  laneCase,   \* the case being stepped
  first,      \* whether that is its first step, before it is _exit_case
  feeHeld,    \* ExitCase.fee_held of it
  settledSeen,\* whether the step's last answer said it is settled
  payAnswer,  \* what the platform answers the /pay that is out
  left,       \* _left_on_reader
  sent,       \* the cases with a sent_at
  taken,      \* the cases with ExitCase.taken
  vend,       \* the case the vend route took and is opening for
  owed,       \* PendingCancels._pending
  asking,     \* the cancel the drain is asking
  askAnswer,  \* what the platform answers it
  jobs,       \* DiskWriter._jobs, those about cancels
  file,       \* the cancels table of the outbox file
  unkept,     \* the cancels owed whose write failed in this process
  reader,     \* external: the case whose fee is on the reader
  settled,    \* external: the cases the platform has settled
  late,       \* external: the cases with a /pay given up on that may still show
  refused,    \* the fee on the reader, if its cancel was refused outright: a person
              \* finishes it
  stranded,   \* that fee, if a restart found no cancel of it in the file, or its case's
              \* vend raised at the relay
  slipped,    \* that fee, if it came to the reader, or stayed, with the lane untold
  restarts

laneVars   == <<cars, lane, laneCase, first, feeHeld, settledSeen, payAnswer, left>>
caseVars   == <<exitCase, sent, taken>>
drainVars  == <<asking, askAnswer>>
diskVars   == <<jobs, file, unkept>>
platformVars == <<reader, settled, late>>
history    == <<refused, stranded, slipped, restarts>>
vars == <<laneVars, caseVars, vend, owed, drainVars, diskVars, platformVars, history>>

------------------------------------------------------------------------------
Cars      == 1..MaxCars
LaneSteps == {"idle", "arrived", "leaving", "asking", "paying", "stepped", "deciding", "gone"}

Job(op, cases) == [op |-> op, cases |-> cases]

Init ==
  /\ cars = 0
  /\ lane = "idle"
  /\ exitCase = {}
  /\ laneCase = {}
  /\ first = FALSE
  /\ feeHeld = FALSE
  /\ settledSeen = FALSE
  /\ payAnswer = "none"
  /\ left = {}
  /\ sent = {}
  /\ taken = {}
  /\ vend = {}
  /\ owed = {}
  /\ asking = {}
  /\ askAnswer = "none"
  /\ jobs = <<>>
  /\ file = {}
  /\ unkept = {}
  /\ reader = {}
  /\ settled = {}
  /\ late = {}
  /\ refused = {}
  /\ stranded = {}
  /\ slipped = {}
  /\ restarts = 0

\* The disk thread's queue with the cancels of `cases`, if there is a file.
Kept(cases) == IF Stored /\ cases # {} THEN Append(jobs, Job("add", cases)) ELSE jobs

\* The cancel out whose confirmation is on its way back.
Confirmed == IF askAnswer = "confirmed" THEN asking ELSE {}

\* PendingCancels.add: a cancel that is owed already is not added again -- also
\* one already confirmed, before a fee that is back on the reader now.
Queue(cases) ==
  /\ owed' = owed \cup cases
  /\ jobs' = Kept(cases \ owed)
  /\ slipped' = slipped \cup (cases \cap Confirmed \cap reader)

\* The case being stepped, until the step has looked whether a person took it.
BeingStepped == IF lane = "deciding" THEN laneCase \ taken ELSE laneCase
\* The cases the lane is to cancel, should a fee of theirs show.
Minded == ((exitCase \cup BeingStepped \cup left \cup vend) \cap sent) \cup (owed \ Confirmed)

------------------------------------------------------------------------------
\* The lane thread: arrivals, and cars that leave.

\* Of the cases dropped, the one whose fee was handed to the reader.
LeftOnReader(cases) == cases \cap sent

\* A new car: the waiting case is dropped, its cancel not queued yet.
Arrive ==
  /\ lane = "idle"
  /\ cars < MaxCars
  /\ cars' = cars + 1
  /\ lane' = "arrived"
  /\ exitCase' = {}
  /\ left' = left \cup LeftOnReader(exitCase)
  /\ UNCHANGED <<laneCase, first, feeHeld, settledSeen, payAnswer, sent, taken, vend, owed,
                 drainVars, diskVars, platformVars, history>>

\* The dropped case's cancel is queued: when its car left, on an idle turn,
\* or before the new car's case is opened.
FreeReader ==
  /\ lane = "idle" \/ lane = "arrived" \/ lane = "leaving"
  /\ left # {}
  /\ left' = {}
  /\ Queue(left)
  /\ lane' = IF lane = "leaving" THEN "idle" ELSE lane
  /\ UNCHANGED <<cars, laneCase, first, feeHeld, settledSeen, payAnswer, caseVars, vend, drainVars,
                 file, unkept, platformVars, refused, stranded, restarts>>

\* The arrival ends with no case: its car is settled here or refused, or the
\* camera or the engine raised before what was left could be queued.
NoCase ==
  /\ lane = "arrived"
  /\ lane' = "idle"
  /\ UNCHANGED <<cars, laneCase, first, feeHeld, settledSeen, payAnswer, left, caseVars, vend, owed,
                 drainVars, diskVars, platformVars, history>>

\* The fault: nobody asks what is still to come off the reader.
OthersUnasked(case) == {}
\* The cancels owed of other cases.
Others(case) == owed \ case

\* The step of `case` begins: whether its fee must wait is read once, now.
Step(case, isFirst) ==
  /\ lane' = "asking"
  /\ laneCase' = case
  /\ first' = isFirst
  /\ feeHeld' = (Others(case) # {})
  /\ settledSeen' = FALSE
  /\ UNCHANGED <<cars, payAnswer, left, caseVars, vend, owed, drainVars, diskVars, platformVars, history>>

\* The new car's case is opened on the platform.
NewCase == lane = "arrived" /\ left = {} /\ Step({cars}, TRUE)

\* An idle turn, with the waiting case's car on the loop.
StepCase == lane = "idle" /\ left = {} /\ exitCase # {} /\ Step(exitCase, FALSE)

\* The car left, or may have.
Leave ==
  /\ \/ lane = "idle" /\ exitCase # {}
     \/ lane = "gone"
  /\ left = {}
  /\ exitCase' = {}
  /\ left' = LeftOnReader(exitCase)
  /\ lane' = IF left' = {} THEN "idle" ELSE "leaving"
  /\ UNCHANGED <<cars, laneCase, first, feeHeld, settledSeen, payAnswer, sent, taken, vend, owed,
                 drainVars, diskVars, platformVars, history>>

------------------------------------------------------------------------------
\* One step of a case (`advance`, `_act`).

\* The platform says the case is settled.
SaysSettled ==
  /\ lane = "asking"
  /\ laneCase \subseteq settled
  /\ lane' = "stepped"
  /\ settledSeen' = TRUE
  /\ feeHeld' = FALSE
  /\ UNCHANGED <<cars, laneCase, first, payAnswer, left, caseVars, vend, owed, drainVars,
                 diskVars, platformVars, history>>

\* Not reached, refused, asked lately, or nothing to hand over now.
Waits ==
  /\ lane = "asking"
  /\ lane' = "stepped"
  /\ feeHeld' = FALSE
  /\ UNCHANGED <<cars, laneCase, first, settledSeen, payAnswer, left, caseVars, vend, owed,
                 drainVars, diskVars, platformVars, history>>

\* A payment is due, of a case nobody took, and no other fee is in its way.
HandOver ==
  /\ lane = "asking"
  /\ laneCase \cap (taken \cup settled) = {}
  /\ ~feeHeld
  /\ lane' = "paying"
  /\ feeHeld' = FALSE
  /\ UNCHANGED <<cars, laneCase, first, settledSeen, payAnswer, left, caseVars, vend, owed,
                 drainVars, diskVars, platformVars, history>>

\* External: the platform hands the fee to a reader that is free, or shows
\* it already; or it does not -- the reader busy, the case settled, refused.
PayReaches ==
  /\ lane = "paying"
  /\ payAnswer = "none"
  /\ \/ /\ laneCase \cap settled = {}
        /\ reader \subseteq laneCase
        /\ reader' = laneCase
        /\ payAnswer' = "sent"
     \/ payAnswer' \in {"sent", "refused"} /\ UNCHANGED reader
  /\ UNCHANGED <<cars, lane, laneCase, first, feeHeld, settledSeen, left, caseVars, vend, owed,
                 drainVars, diskVars, settled, late, history>>

\* sent_at is set: the fee reached the reader, or may have.
PayAnswered ==
  /\ lane = "paying"
  /\ payAnswer # "none"
  /\ lane' = "stepped"
  /\ payAnswer' = "none"
  /\ \/ /\ payAnswer = "sent"
        /\ sent' = sent \cup laneCase
        /\ slipped' = slipped \ laneCase
     \/ payAnswer = "refused" /\ UNCHANGED <<sent, slipped>>
  /\ settledSeen' \in {FALSE, laneCase \subseteq settled}
  /\ UNCHANGED <<cars, laneCase, first, feeHeld, left, exitCase, taken, vend, owed, drainVars, diskVars,
                 platformVars, refused, stranded, restarts>>

\* The platform is not reached in time, or its answer is lost: sent_at is as
\* it was.  A request not read yet may still be.
PayUnanswered ==
  /\ lane = "paying"
  /\ lane' = "stepped"
  /\ payAnswer' = "none"
  /\ late' = IF payAnswer = "none" THEN late \cup (laneCase \ settled) ELSE late
  /\ slipped' = slipped \cup ((laneCase \cap reader) \ sent)
  /\ UNCHANGED <<cars, laneCase, first, feeHeld, settledSeen, left, caseVars, vend, owed, drainVars,
                 diskVars, reader, settled, refused, stranded, restarts>>

\* External: a /pay the lane has given up on arrives after all.
PayLands(k) ==
  /\ k \in late
  /\ reader \subseteq {k}
  /\ reader' = {k}
  /\ late' = late \ {k}
  /\ slipped' = slipped \cup ({k} \ Minded)
  /\ UNCHANGED <<laneVars, caseVars, vend, owed, drainVars, diskVars, settled, refused, stranded, restarts>>

\* The fault: what a person took meanwhile is theirs to cancel.
TakenUnasked == {}
\* The case, if a person took it while its step was on the network.
TakenMeanwhile == laneCase \cap taken \cap sent

AfterStep ==
  /\ lane = "stepped"
  /\ lane' = "deciding"
  /\ Queue(TakenMeanwhile)
  /\ UNCHANGED <<cars, laneCase, first, feeHeld, settledSeen, payAnswer, left, caseVars, vend, drainVars,
                 file, unkept, platformVars, refused, stranded, restarts>>

\* The first step is over: the barrier opens on a settled case; any other is
\* the lane's waiting case, and if its car is gone it leaves.
FirstStepped ==
  /\ lane = "deciding"
  /\ first
  /\ laneCase' = {} /\ first' = FALSE /\ settledSeen' = FALSE
  /\ \/ settledSeen /\ lane' = "idle" /\ UNCHANGED exitCase
     \/ ~settledSeen /\ lane' = "idle" /\ exitCase' = laneCase
     \/ settledSeen /\ lane' = "gone" /\ exitCase' = laneCase
  /\ UNCHANGED <<cars, feeHeld, payAnswer, left, sent, taken, vend, owed, drainVars, diskVars,
                 platformVars, history>>

\* A later step: a settled case that nobody took opens, or leaves.
Stepped ==
  /\ lane = "deciding"
  /\ ~first
  /\ laneCase' = {} /\ first' = FALSE /\ settledSeen' = FALSE
  /\ \/ /\ ~settledSeen \/ exitCase # laneCase
        /\ lane' = "idle" /\ UNCHANGED exitCase
     \/ settledSeen /\ exitCase = laneCase /\ lane' = "idle" /\ exitCase' = {}
     \/ settledSeen /\ exitCase = laneCase /\ lane' = "gone" /\ UNCHANGED exitCase
  /\ UNCHANGED <<cars, feeHeld, payAnswer, left, sent, taken, vend, owed, drainVars, diskVars,
                 platformVars, history>>

------------------------------------------------------------------------------
\* A person, through the vend route (`complete_vend`), one at a time.

\* The waiting case is theirs, under the exit's lock.
Take ==
  /\ vend = {}
  /\ exitCase # {}
  /\ vend' = exitCase
  /\ taken' = taken \cup exitCase
  /\ exitCase' = {}
  /\ UNCHANGED <<laneVars, sent, owed, drainVars, diskVars, platformVars, history>>

\* The barrier opened, and the payment's cancel is queued.
VendCancels ==
  /\ vend # {}
  /\ vend' = {}
  /\ Queue(vend \cap sent)
  /\ UNCHANGED <<laneVars, caseVars, drainVars, file, unkept, platformVars, refused, stranded, restarts>>

\* The relay raises, and nothing after it is done.
VendRaises ==
  /\ vend # {}
  /\ vend' = {}
  /\ stranded' = stranded \cup (vend \cap reader)
  /\ UNCHANGED <<laneVars, caseVars, owed, drainVars, diskVars, platformVars, refused, slipped, restarts>>

------------------------------------------------------------------------------
\* The drain's thread (`retry_cancels`), one ask at a time.

\* A cancel that is due.
Ask(k) ==
  /\ asking = {}
  /\ k \in owed
  /\ asking' = {k}
  /\ UNCHANGED <<laneVars, caseVars, vend, owed, askAnswer, diskVars, platformVars, history>>

\* The fees of `cases` come off the reader, and nobody has to any more.
Off(cases) ==
  /\ reader' = reader \ cases
  /\ refused' = refused \ cases
  /\ stranded' = stranded \ cases
  /\ slipped' = slipped \ cases

\* External: the platform has the payment off the reader for good, or finds
\* none on it.
CancelConfirmed ==
  /\ asking # {}
  /\ askAnswer = "none"
  /\ askAnswer' = "confirmed"
  /\ Off(asking)
  /\ UNCHANGED <<laneVars, caseVars, vend, owed, asking, diskVars, settled, late, restarts>>

\* External: it refuses the cancel outright.
CancelRefused ==
  /\ asking # {}
  /\ askAnswer = "none"
  /\ askAnswer' = "refused"
  /\ UNCHANGED <<laneVars, caseVars, vend, owed, asking, diskVars, platformVars, history>>

\* The disk thread's queue with a cancel's removal, if there is a file.
Forgotten(cases) == IF Stored THEN Append(jobs, Job("remove", cases)) ELSE jobs

\* Confirmed or refused for good: it is never asked again (`settle`).
Settle ==
  /\ askAnswer # "none"
  /\ owed' = owed \ asking
  /\ jobs' = Forgotten(asking)
  /\ unkept' = unkept \ asking
  /\ asking' = {}
  /\ askAnswer' = "none"
  /\ refused' = IF askAnswer = "refused" THEN refused \cup (asking \cap reader) ELSE refused
  /\ UNCHANGED <<laneVars, caseVars, vend, file, platformVars, stranded, slipped, restarts>>

\* The fault: a cancel is asked once.
AskedOnce == owed \ asking
\* What is owed after an ask that failed.
OwedAfterFailure == owed

\* Not reached, its answer lost, rate limited, or a card being authorised.
AskFails ==
  /\ asking # {}
  /\ asking' = {}
  /\ askAnswer' = "none"
  /\ owed' = OwedAfterFailure
  /\ UNCHANGED <<laneVars, caseVars, vend, diskVars, platformVars, history>>

------------------------------------------------------------------------------
\* The disk thread.

DiskWrites ==
  /\ jobs # <<>>
  /\ jobs' = Tail(jobs)
  /\ file' = IF Head(jobs).op = "add" THEN file \cup Head(jobs).cases ELSE file \ Head(jobs).cases
  /\ UNCHANGED <<laneVars, caseVars, vend, owed, drainVars, unkept, platformVars, history>>

DiskFails ==
  /\ jobs # <<>>
  /\ jobs' = Tail(jobs)
  /\ unkept' = IF Head(jobs).op = "add" THEN unkept \cup (Head(jobs).cases \cap owed) ELSE unkept
  /\ UNCHANGED <<laneVars, caseVars, vend, owed, drainVars, file, platformVars, history>>

\* External: a card pays the fee on the reader, or a person decides the
\* case on the platform; its fee is off the reader.
PlatformSettles(k) ==
  /\ k \in (reader \cup laneCase \cup exitCase) \ settled
  /\ settled' = settled \cup {k}
  /\ late' = late \ {k}
  /\ Off({k})
  /\ UNCHANGED <<laneVars, caseVars, vend, owed, drainVars, diskVars, restarts>>

\* The cases of which something is known in memory: waiting, stepped, dropped
\* with no cancel queued yet, with a person, and those with a cancel owed.
InMemory == exitCase \cup laneCase \cup left \cup vend \cup owed

\* The process stops and starts: it owes the cancels in the file, due at once,
\* and knows nothing of any other case, the waiting one included.
Restart ==
  /\ restarts < MaxRestarts
  /\ restarts' = restarts + 1
  /\ lane' = "idle"
  /\ exitCase' = {} /\ laneCase' = {} /\ left' = {} /\ vend' = {}
  /\ sent' = {} /\ taken' = {}
  /\ first' = FALSE /\ feeHeld' = FALSE /\ settledSeen' = FALSE /\ payAnswer' = "none"
  /\ owed' = file
  /\ asking' = {} /\ askAnswer' = "none"
  /\ jobs' = <<>> /\ unkept' = {}
  /\ stranded' = stranded \cup ((reader \cap InMemory) \ file)
  /\ late' = IF lane = "paying" /\ payAnswer = "none" THEN late \cup (laneCase \ settled) ELSE late
  /\ UNCHANGED <<cars, file, reader, settled, refused, slipped>>

------------------------------------------------------------------------------
LaneNext ==
  \/ Arrive \/ FreeReader \/ NoCase \/ NewCase \/ StepCase \/ Leave
  \/ SaysSettled \/ Waits \/ HandOver \/ PayAnswered \/ PayUnanswered
  \/ AfterStep \/ FirstStepped \/ Stepped
VendNext  == Take \/ VendCancels \/ VendRaises
DrainNext == (\E k \in Cars : Ask(k)) \/ Settle \/ AskFails
DiskNext  == DiskWrites \/ DiskFails
PlatformNext ==
  \/ PayReaches \/ CancelConfirmed \/ CancelRefused
  \/ \E k \in Cars : PlatformSettles(k) \/ PayLands(k)

Next == LaneNext \/ VendNext \/ DrainNext \/ DiskNext \/ PlatformNext \/ Restart

Spec == Init /\ [][Next]_vars

\* What the lane thread does of itself, once a car has arrived or is gone.
LaneGoesOn ==
  \/ FreeReader \/ NoCase \/ NewCase \/ SaysSettled \/ Waits \/ HandOver
  \/ PayAnswered \/ PayUnanswered \/ AfterStep \/ FirstStepped \/ Stepped
  \/ lane = "gone" /\ Leave

\* Threads run and calls return; the platform confirms a cancel it is asked
\* again and again, and is heard.  Nothing is assumed of the disk.
FairSpec ==
  /\ Spec
  /\ WF_vars(LaneGoesOn)
  /\ WF_vars(VendCancels \/ VendRaises)
  /\ \A k \in Cars : SF_vars(Ask(k))
  /\ SF_vars(CancelConfirmed)
  /\ SF_vars(Settle)

------------------------------------------------------------------------------
(* Properties *)

\* Every variable holds what the code keeps in it; what is left on the
\* reader's account is one case, whose fee was handed over.
TypeOK ==
  /\ cars \in 0..MaxCars
  /\ lane \in LaneSteps
  /\ \A cases \in {exitCase, laneCase, left, vend, asking, reader} :
       cases \subseteq Cars /\ Cardinality(cases) <= 1
  /\ first \in BOOLEAN /\ feeHeld \in BOOLEAN /\ settledSeen \in BOOLEAN
  /\ payAnswer \in {"none", "sent", "refused"}
  /\ sent \subseteq Cars /\ taken \subseteq Cars
  /\ left \subseteq sent
  /\ owed \subseteq Cars
  /\ askAnswer \in {"none", "confirmed", "refused"}
  /\ asking \subseteq owed
  /\ \A i \in 1..Len(jobs) : jobs[i].op \in {"add", "remove"} /\ jobs[i].cases \subseteq Cars
  /\ file \subseteq Cars /\ unkept \subseteq Cars
  /\ settled \subseteq Cars /\ late \subseteq Cars
  /\ refused \subseteq Cars /\ stranded \subseteq Cars /\ slipped \subseteq Cars
  /\ restarts \in 0..MaxRestarts

\* With the disk thread idle, the file holds every cancel owed, but for a
\* write that failed: the process may stop then, and asks again.
DebtOnDisk ==
  Stored /\ jobs = <<>> => owed \subseteq file \cup unkept

\* The fee on the reader is the waiting car's, or somebody's to take off: its
\* cancel is owed or about to be queued, or the platform refused it to a
\* person's face.  However the car went -- it left, a new one arrived, a person
\* took the case before, while or after its fee was handed over -- and whatever
\* else fails, no other fee is there but those a restart found no cancel of and
\* those the lane was never told of or told of too late: the answer of its /pay
\* lost, or its /pay arriving with the cancel confirmed.  And with the disk idle what
\* is owed is on it.  (The type invariant is checked with it.)
FeeAccounted ==
  /\ TypeOK
  /\ reader \subseteq exitCase \cup laneCase \cup left \cup vend \cup owed
                       \cup refused \cup stranded \cup slipped
  /\ DebtOnDisk

\* What the module's docstring says of every case let go of: its payment is
\* taken off the reader.  The code keeps it only of the payments it hears of
\* in time (ReaderFeesLost.cfg).
EveryFeeTakenOff ==
  reader \subseteq exitCase \cup laneCase \cup left \cup vend \cup owed \cup refused \cup stranded

\* No fee is handed to the reader while the cancel of a case whose car left
\* is unconfirmed, in this process or before its restart.  (A case a person
\* takes may come to be owed during the step: `fee_held` is read before it.)
FeeWaits ==
  [][lane' = "paying" => owed \ laneCase \subseteq taken]_vars

\* A fee on the reader of a car that is no longer the exit's comes off, or a
\* person is told the platform refused it, however many asks fail: any fee but
\* those FeeAccounted excepts.
FeeComesOff ==
  \A k \in Cars :
    (k \in reader \ (exitCase \cup laneCase)) ~> (k \notin reader \/ k \in refused \cup stranded \cup slipped)
==============================================================================

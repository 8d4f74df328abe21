--------------------------- MODULE ReaderFeesProofs ---------------------------
(***************************************************************************)
(* What holds of the fees on the reader for any number of cars and of      *)
(* restarts: a fee there is somebody's to take off, what is owed is on the *)
(* disk or on its way to it, and a fee waits for the cancels of the cars   *)
(* before it.                                                              *)
(*                                                                         *)
(* That no fee is forgotten (FeeInv) needs that a case leaves the exit     *)
(* with its `sent_at` known, which only a /pay under way lacks; that the   *)
(* case of such a step is the waiting one, or a person has taken it        *)
(* (StepInv); and that the fee of a case the platform calls settled is off *)
(* the reader (PlatformInv).  Nothing is assumed of the platform's answers:*)
(* the fees the lane was not told of, or was told of too late, are         *)
(* `slipped`, and no others are (README, section 4).                       *)
(***************************************************************************)
EXTENDS ReaderFees, FiniteSetTheorems, SequenceTheorems, TLAPS

One(S) == S \subseteq Cars /\ \A a, b \in S : a = b

Jobs == [op : {"add", "remove"}, cases : SUBSET Cars]

TypeInv ==
  /\ cars \in 0..MaxCars /\ lane \in LaneSteps
  /\ One(exitCase) /\ One(laneCase) /\ One(left) /\ One(vend) /\ One(asking) /\ One(reader)
  /\ first \in BOOLEAN /\ feeHeld \in BOOLEAN /\ settledSeen \in BOOLEAN
  /\ payAnswer \in {"none", "sent", "refused"} /\ askAnswer \in {"none", "confirmed", "refused"}
  /\ sent \subseteq Cars /\ taken \subseteq Cars /\ left \subseteq sent
  /\ owed \subseteq Cars /\ asking \subseteq owed
  /\ jobs \in Seq(Jobs) /\ file \subseteq Cars /\ unkept \subseteq Cars
  /\ settled \subseteq Cars /\ late \subseteq Cars
  /\ refused \subseteq Cars /\ stranded \subseteq Cars /\ slipped \subseteq Cars
  /\ restarts \in 0..MaxRestarts

Stepping == lane \in {"asking", "paying", "stepped", "deciding"}

\* The case being stepped is a new car's, or the waiting one unless a person
\* has taken it; and nothing is left on the reader while it is.
StepInv ==
  /\ ~Stepping => laneCase = {}
  /\ left # {} => exitCase = {} /\ ~Stepping
  /\ lane = "arrived" => exitCase = {} /\ cars > 0
  /\ Stepping /\ first => exitCase = {}
  /\ Stepping /\ ~first => exitCase = laneCase \/ (exitCase = {} /\ laneCase \subseteq taken)
  /\ vend \subseteq taken
  /\ exitCase \cup laneCase \cup taken \subseteq 1..cars
  /\ lane = "arrived" => cars \notin taken
  /\ Stepping /\ first => laneCase \cap taken = {}
  /\ Stepping /\ settledSeen => laneCase \subseteq settled
  /\ payAnswer # "none" => lane = "paying"

\* A settled case has no fee on the reader and no /pay that may still show, and
\* an answer is of a cancel out.
PlatformInv ==
  /\ reader \cap settled = {} /\ late \cap settled = {}
  /\ askAnswer # "none" => asking # {}

\* A fee on the reader is minded, or the answer that it is there is under way.
FeeInv ==
  \A k \in reader :
    \/ k \in Minded \cup refused \cup stranded \cup slipped
    \/ k \in laneCase /\ lane = "paying" /\ payAnswer = "sent"

\* The queue of the disk thread ends with the cancel of k added.
Adds(i, k) == jobs[i].op = "add" /\ k \in jobs[i].cases
Drops(i, k) == jobs[i].op = "remove" /\ k \in jobs[i].cases

OnItsWay(k) ==
  /\ k \in file \/ \E i \in 1..Len(jobs) : Adds(i, k)
  /\ \A i \in 1..Len(jobs) : Drops(i, k) => \E j \in (i + 1)..Len(jobs) : Adds(j, k)

DebtInv == Stored => \A k \in owed : k \in unkept \/ OnItsWay(k)

\* While a fee may be handed over, or is, whatever else is owed was taken by a
\* person.
WaitInv == (lane = "asking" /\ ~feeHeld) \/ lane = "paying" => owed \ laneCase \subseteq taken

Inv == TypeInv /\ StepInv /\ PlatformInv /\ DebtInv /\ WaitInv

USE FeesAssumption

------------------------------------------------------------------------------
LEMMA OneCounts == \A S : One(S) => Cardinality(S) <= 1
<1> SUFFICES ASSUME NEW S, One(S) PROVE Cardinality(S) <= 1
  OBVIOUS
<1>1. CASE S = {}
  BY <1>1, FS_EmptySet
<1>2. CASE S # {}
  <2>1. PICK a \in S : TRUE
    BY <1>2
  <2>2. S = {a}
    BY <2>1 DEF One
  <2>3. QED BY <2>2, FS_Singleton
<1>3. QED BY <1>1, <1>2

LEMMA Initially == Init => Inv /\ FeeInv
<1> SUFFICES ASSUME Init PROVE Inv /\ FeeInv
  OBVIOUS
<1>1. TypeInv
  <2>1. /\ One({}) /\ cars \in 0..MaxCars /\ restarts \in 0..MaxRestarts /\ lane \in LaneSteps
        /\ jobs \in Seq(Jobs)
    BY DEF Init, One, LaneSteps
  <2>2. QED BY <2>1 DEF Init, TypeInv
<1>2. StepInv /\ PlatformInv /\ WaitInv /\ FeeInv
  BY DEF Init, StepInv, PlatformInv, WaitInv, FeeInv, Stepping
<1>3. DebtInv
  BY DEF Init, DebtInv
<1>4. QED BY <1>1, <1>2, <1>3 DEF Inv

\* What a queued cancel leaves: more is owed, and the jobs are jobs.
LEMMA QueueType ==
  ASSUME TypeInv, NEW cases, cases \subseteq Cars, Queue(cases)
  PROVE  owed' = owed \cup cases /\ owed' \subseteq Cars /\ jobs' \in Seq(Jobs)
<1>1. owed' = owed \cup cases /\ owed' \subseteq Cars
  BY DEF Queue, TypeInv
<1>2. Job("add", cases \ owed) \in Jobs
  BY DEF Job, Jobs
<1>3. QED BY <1>1, <1>2 DEF Queue, Kept, TypeInv

------------------------------------------------------------------------------
LEMMA TypeStep ==
  ASSUME Inv, [Next]_vars
  PROVE  TypeInv'
<1> USE DEF Inv, TypeInv, One, Cars, LaneSteps, laneVars, caseVars, drainVars, diskVars, platformVars, history
<1>1. CASE Arrive
  BY <1>1 DEF Arrive, LeftOnReader, StepInv
<1>2. CASE FreeReader
  <2>1. owed' = owed \cup left /\ owed' \subseteq Cars /\ jobs' \in Seq(Jobs)
    BY <1>2, QueueType DEF FreeReader
  <2>2. slipped' \subseteq Cars
    BY <1>2 DEF FreeReader, Queue, Confirmed
  <2>3. QED BY <1>2, <2>1, <2>2 DEF FreeReader
<1>3. CASE NoCase
  BY <1>3 DEF NoCase
<1>4. CASE NewCase \/ StepCase
  <2>1. laneCase' \in {{cars}, exitCase} /\ (laneCase' # exitCase => cars > 0)
    BY <1>4 DEF NewCase, StepCase, Step, StepInv
  <2>2. One(laneCase')
    BY <2>1
  <2>3. /\ lane' = "asking" /\ first' \in BOOLEAN /\ feeHeld' \in BOOLEAN /\ settledSeen' = FALSE
        /\ UNCHANGED <<cars, payAnswer, left, caseVars, vend, owed, drainVars, diskVars, platformVars, history>>
    BY <1>4 DEF NewCase, StepCase, Step
  <2>4. QED BY <2>2, <2>3
<1>5. CASE Leave
  BY <1>5 DEF Leave, LeftOnReader
<1>6. CASE SaysSettled \/ Waits \/ HandOver \/ PayUnanswered
  BY <1>6 DEF SaysSettled, Waits, HandOver, PayUnanswered
<1>7. CASE PayAnswered
  BY <1>7 DEF PayAnswered
<1>8. CASE AfterStep
  <2>1. TakenMeanwhile \subseteq Cars
    BY DEF TakenMeanwhile
  <2>2. owed' = owed \cup TakenMeanwhile /\ owed' \subseteq Cars /\ jobs' \in Seq(Jobs)
    BY <1>8, <2>1, QueueType DEF AfterStep
  <2>3. slipped' \subseteq Cars
    BY <1>8, <2>1 DEF AfterStep, Queue, Confirmed
  <2>4. QED BY <1>8, <2>2, <2>3 DEF AfterStep
<1>9. CASE FirstStepped \/ Stepped
  <2>1. lane' \in LaneSteps /\ exitCase' \in {{}, exitCase, laneCase} /\ laneCase' = {}
    BY <1>9 DEF FirstStepped, Stepped
  <2>2. first' = FALSE /\ settledSeen' = FALSE
        /\ UNCHANGED <<cars, feeHeld, payAnswer, left, sent, taken, vend, owed, asking, askAnswer, jobs,
                    file, unkept, reader, settled, late, refused, stranded, slipped, restarts>>
    BY <1>9 DEF FirstStepped, Stepped
  <2>3. QED BY <2>1, <2>2
<1>10. CASE Take \/ VendRaises
  <2>1. /\ vend' \in {exitCase, {}} /\ exitCase' \in {exitCase, {}} /\ taken' \in {taken, taken \cup exitCase}
        /\ stranded' \in {stranded, stranded \cup (vend \cap reader)}
    BY <1>10 DEF Take, VendRaises
  <2>2. UNCHANGED <<laneVars, sent, owed, drainVars, diskVars, platformVars, refused, slipped, restarts>>
    BY <1>10 DEF Take, VendRaises
  <2>3. QED BY <2>1, <2>2
<1>11. CASE VendCancels
  <2>1. owed' = owed \cup (vend \cap sent) /\ owed' \subseteq Cars /\ jobs' \in Seq(Jobs)
    BY <1>11, QueueType DEF VendCancels
  <2>2. slipped' \subseteq Cars
    BY <1>11 DEF VendCancels, Queue, Confirmed
  <2>3. QED BY <1>11, <2>1, <2>2 DEF VendCancels
<1>12. CASE \E k \in Cars : Ask(k)
  BY <1>12 DEF Ask
<1>13. CASE Settle
  <2>1. Job("remove", asking) \in Jobs
    BY DEF Job, Jobs
  <2>2. jobs' \in Seq(Jobs)
    BY <1>13, <2>1 DEF Settle, Forgotten
  <2>3. QED BY <1>13, <2>2 DEF Settle
<1>14. CASE AskFails
  BY <1>14 DEF AskFails, OwedAfterFailure
<1>15. CASE DiskWrites
  <2>1. jobs' \in Seq(Jobs) /\ Head(jobs) \in Jobs
    BY <1>15 DEF DiskWrites
  <2>2. QED BY <1>15, <2>1 DEF DiskWrites, Jobs
<1>16. CASE DiskFails
  <2>1. jobs' \in Seq(Jobs) /\ Head(jobs) \in Jobs
    BY <1>16 DEF DiskFails
  <2>2. QED BY <1>16, <2>1 DEF DiskFails, Jobs
<1>17. CASE PayReaches
  BY <1>17 DEF PayReaches
<1>18. CASE CancelConfirmed \/ CancelRefused
  BY <1>18 DEF CancelConfirmed, CancelRefused, Off
<1>19. CASE \E k \in Cars : PlatformSettles(k) \/ PayLands(k)
  <2>1. PICK k \in Cars : PlatformSettles(k) \/ PayLands(k)
    BY <1>19
  <2>2. /\ One(reader') /\ settled' \subseteq Cars /\ late' \subseteq Cars
        /\ slipped' \subseteq Cars /\ refused' \subseteq Cars /\ stranded' \subseteq Cars
    BY <2>1 DEF PlatformSettles, PayLands, Off
  <2>3. UNCHANGED <<laneVars, caseVars, vend, owed, drainVars, diskVars, restarts>>
    BY <2>1 DEF PlatformSettles, PayLands
  <2>4. QED BY <2>2, <2>3
<1>20. CASE Restart
  <2>1. One({}) /\ restarts' \in 0..MaxRestarts /\ stranded' \subseteq Cars /\ late' \subseteq Cars
    <3>1. restarts' \in 0..MaxRestarts
      BY <1>20 DEF Restart
    <3>2. stranded' \subseteq stranded \cup reader /\ late' \subseteq late \cup laneCase
      BY <1>20 DEF Restart
    <3>3. QED BY <3>1, <3>2
  <2>2. /\ lane' = "idle" /\ exitCase' = {} /\ laneCase' = {} /\ left' = {} /\ vend' = {} /\ asking' = {}
        /\ sent' = {} /\ taken' = {} /\ owed' = file /\ unkept' = {} /\ jobs' = <<>>
        /\ first' = FALSE /\ feeHeld' = FALSE /\ settledSeen' = FALSE /\ payAnswer' = "none" /\ askAnswer' = "none"
        /\ UNCHANGED <<cars, file, reader, settled, refused, slipped>>
    BY <1>20 DEF Restart
  <2>3. <<>> \in Seq(Jobs)
    OBVIOUS
  <2>4. QED BY <2>1, <2>2, <2>3
<1>21. CASE UNCHANGED vars
  BY <1>21 DEF vars
<1>22. QED
  BY <1>1, <1>2, <1>3, <1>4, <1>5, <1>6, <1>7, <1>8, <1>9, <1>10, <1>11, <1>12, <1>13, <1>14, <1>15, <1>16,
     <1>17, <1>18, <1>19, <1>20, <1>21 DEF Next, LaneNext, VendNext, DrainNext, DiskNext, PlatformNext
LEMMA StepStep ==
  ASSUME Inv, [Next]_vars
  PROVE  StepInv'
<1> USE DEF Inv, StepInv, Stepping, laneVars, caseVars, drainVars, diskVars, platformVars, history
<1>1. CASE Arrive
  <2>1. /\ lane = "idle" /\ lane' = "arrived" /\ cars' = cars + 1 /\ cars \in Nat
        /\ exitCase' = {} /\ laneCase' = {}
        /\ UNCHANGED <<vend, taken, settledSeen, payAnswer>>
    BY <1>1 DEF Arrive, TypeInv
  <2>2. taken \subseteq 1..cars' /\ cars' \notin taken /\ cars' > 0
    BY <2>1
  <2>3. QED BY <2>1, <2>2
<1>2. CASE FreeReader
  BY <1>2 DEF FreeReader
<1>3. CASE NoCase
  BY <1>3 DEF NoCase
<1>4. CASE NewCase
  <2>1. cars \in 1..cars
    BY <1>4 DEF NewCase, TypeInv
  <2>2. QED BY <1>4, <2>1 DEF NewCase, Step
<1>5. CASE StepCase
  BY <1>5 DEF StepCase, Step
<1>6. CASE Leave
  BY <1>6 DEF Leave
<1>7. CASE SaysSettled \/ Waits \/ HandOver \/ PayUnanswered
  BY <1>7 DEF SaysSettled, Waits, HandOver, PayUnanswered
<1>8. CASE PayAnswered
  BY <1>8 DEF PayAnswered
<1>9. CASE AfterStep
  BY <1>9 DEF AfterStep
<1>10. CASE FirstStepped
  BY <1>10 DEF FirstStepped
<1>11. CASE Stepped
  BY <1>11 DEF Stepped
<1>12. CASE Take
  BY <1>12 DEF Take
<1>13. CASE VendCancels \/ VendRaises
  BY <1>13 DEF VendCancels, VendRaises
<1>14. CASE (\E k \in Cars : Ask(k)) \/ Settle \/ AskFails
  BY <1>14 DEF Ask, Settle, AskFails
<1>15. CASE DiskWrites \/ DiskFails
  BY <1>15 DEF DiskWrites, DiskFails
<1>16. CASE PayReaches
  BY <1>16 DEF PayReaches
<1>17. CASE CancelConfirmed \/ CancelRefused
  BY <1>17 DEF CancelConfirmed, CancelRefused, Off
<1>18. CASE \E k \in Cars : PlatformSettles(k) \/ PayLands(k)
  BY <1>18 DEF PlatformSettles, PayLands, Off
<1>19. CASE Restart
  BY <1>19 DEF Restart
<1>20. CASE UNCHANGED vars
  BY <1>20 DEF vars
<1>21. QED
  BY <1>1, <1>2, <1>3, <1>4, <1>5, <1>6, <1>7, <1>8, <1>9, <1>10, <1>11, <1>12, <1>13, <1>14, <1>15, <1>16,
     <1>17, <1>18, <1>19, <1>20 DEF Next, LaneNext, VendNext, DrainNext, DiskNext, PlatformNext

\* The lane, the vend route and the disk thread leave to the platform and the
\* drain what is theirs, and give up on a /pay only of a case not settled.
LEMMA Theirs ==
  ASSUME LaneNext \/ VendNext \/ DiskNext
  PROVE  /\ UNCHANGED <<asking, askAnswer, reader, settled>>
         /\ late' \subseteq late \cup (laneCase \ settled)
<1> USE DEF laneVars, caseVars, drainVars, diskVars, platformVars, history
<1>1. CASE Arrive \/ FreeReader \/ NoCase \/ NewCase \/ StepCase \/ Leave
  BY <1>1 DEF Arrive, FreeReader, NoCase, NewCase, StepCase, Step, Leave
<1>2. CASE SaysSettled \/ Waits \/ HandOver \/ PayAnswered \/ PayUnanswered
  BY <1>2 DEF SaysSettled, Waits, HandOver, PayAnswered, PayUnanswered
<1>3. CASE AfterStep \/ FirstStepped \/ Stepped
  BY <1>3 DEF AfterStep, FirstStepped, Stepped
<1>4. CASE VendNext \/ DiskNext
  BY <1>4 DEF VendNext, DiskNext, Take, VendCancels, VendRaises, DiskWrites, DiskFails
<1>5. QED BY <1>1, <1>2, <1>3, <1>4 DEF LaneNext

LEMMA PlatformStep ==
  ASSUME Inv, [Next]_vars
  PROVE  PlatformInv'
<1> USE DEF Inv, PlatformInv
<1>1. CASE LaneNext \/ VendNext \/ DiskNext
  BY <1>1, Theirs
<1>2. CASE \E k \in Cars : Ask(k)
  BY <1>2 DEF Ask, platformVars
<1>3. CASE Settle \/ AskFails
  BY <1>3 DEF Settle, AskFails, platformVars
<1>4. CASE PayReaches
  BY <1>4 DEF PayReaches, drainVars
<1>5. CASE CancelConfirmed \/ CancelRefused
  BY <1>5 DEF CancelConfirmed, CancelRefused, Off, platformVars
<1>6. CASE \E k \in Cars : PlatformSettles(k) \/ PayLands(k)
  <2>1. PICK k \in Cars : PlatformSettles(k) \/ PayLands(k)
    BY <1>6
  <2>2. CASE PlatformSettles(k)
    BY <2>2 DEF PlatformSettles, Off, drainVars
  <2>3. CASE PayLands(k)
    BY <2>3 DEF PayLands, drainVars
  <2>4. QED BY <2>1, <2>2, <2>3
<1>7. CASE Restart
  BY <1>7 DEF Restart, platformVars
<1>8. CASE UNCHANGED vars
  BY <1>8 DEF vars, drainVars, platformVars
<1>9. QED
  BY <1>1, <1>2, <1>3, <1>4, <1>5, <1>6, <1>7, <1>8 DEF Next, DrainNext, PlatformNext

LEMMA WaitStep ==
  ASSUME Inv, [Next]_vars
  PROVE  WaitInv'
<1> USE DEF Inv, WaitInv, laneVars, caseVars, drainVars, diskVars, platformVars, history
<1>1. CASE Arrive \/ FreeReader \/ NoCase \/ Leave
  BY <1>1 DEF Arrive, FreeReader, NoCase, Leave
<1>2. CASE NewCase \/ StepCase
  BY <1>2 DEF NewCase, StepCase, Step, Others
<1>3. CASE SaysSettled \/ Waits \/ HandOver
  BY <1>3 DEF SaysSettled, Waits, HandOver
<1>4. CASE PayAnswered \/ PayUnanswered \/ AfterStep \/ FirstStepped \/ Stepped
  BY <1>4 DEF PayAnswered, PayUnanswered, AfterStep, FirstStepped, Stepped
<1>5. CASE Take
  BY <1>5 DEF Take
<1>6. CASE VendCancels
  BY <1>6 DEF VendCancels, Queue, StepInv
<1>7. CASE VendRaises
  BY <1>7 DEF VendRaises
<1>8. CASE (\E k \in Cars : Ask(k)) \/ Settle \/ AskFails
  BY <1>8 DEF Ask, Settle, AskFails, OwedAfterFailure
<1>9. CASE DiskNext
  BY <1>9 DEF DiskNext, DiskWrites, DiskFails
<1>10. CASE PlatformNext
  BY <1>10 DEF PlatformNext, PayReaches, CancelConfirmed, CancelRefused, PlatformSettles, PayLands
<1>11. CASE Restart
  BY <1>11 DEF Restart
<1>12. CASE UNCHANGED vars
  BY <1>12 DEF vars
<1>13. QED
  BY <1>1, <1>2, <1>3, <1>4, <1>5, <1>6, <1>7, <1>8, <1>9, <1>10, <1>11, <1>12 DEF Next, LaneNext, VendNext, DrainNext

\* A cancel added to the disk thread's queue is on its way, and so is what was.
LEMMA AddedIsOnItsWay ==
  ASSUME jobs \in Seq(Jobs), file' = file, NEW cases, cases \subseteq Cars,
         jobs' = Append(jobs, Job("add", cases)),
         NEW k, k \in cases \/ OnItsWay(k)
  PROVE  OnItsWay(k)'
<1> PICK n \in Nat : n = Len(jobs)
  OBVIOUS
<1>1. /\ Len(jobs') = n + 1
      /\ \A i \in 1..n : jobs'[i] = jobs[i]
      /\ jobs'[n + 1] = [op |-> "add", cases |-> cases]
  BY DEF Job
<1>2. /\ \A i \in 1..n : Adds(i, k)' <=> Adds(i, k)
      /\ \A i \in 1..n : Drops(i, k)' <=> Drops(i, k)
      /\ ~Drops(n + 1, k)'
      /\ k \in cases => Adds(n + 1, k)'
  BY <1>1 DEF Adds, Drops
<1>3. CASE k \in cases
  <2>1. n + 1 \in 1..Len(jobs')
    BY <1>1
  <2>2. \A i \in 1..Len(jobs') : Drops(i, k)' => n + 1 \in (i + 1)..Len(jobs')
    BY <1>1, <1>2
  <2>3. QED BY <1>2, <1>3, <2>1, <2>2 DEF OnItsWay
<1>4. CASE k \notin cases
  <2>1. k \in file \/ \E i \in 1..n : Adds(i, k)
    BY <1>4 DEF OnItsWay
  <2>2. \A i \in 1..n : Drops(i, k) => \E j \in (i + 1)..n : Adds(j, k)
    BY <1>4 DEF OnItsWay
  <2>3. k \in file' \/ \E i \in 1..Len(jobs') : Adds(i, k)'
    BY <1>1, <1>2, <2>1
  <2>4. \A i \in 1..Len(jobs') : Drops(i, k)' => \E j \in (i + 1)..Len(jobs') : Adds(j, k)'
    BY <1>1, <1>2, <2>2
  <2>5. QED BY <2>3, <2>4 DEF OnItsWay
<1>5. QED BY <1>3, <1>4

\* The removal of another cancel leaves it so.
LEMMA OthersRemoved ==
  ASSUME jobs \in Seq(Jobs), file' = file, NEW cases, cases \subseteq Cars,
         jobs' = Append(jobs, Job("remove", cases)),
         NEW k, k \notin cases, OnItsWay(k)
  PROVE  OnItsWay(k)'
<1> PICK n \in Nat : n = Len(jobs)
  OBVIOUS
<1>1. /\ Len(jobs') = n + 1
      /\ \A i \in 1..n : jobs'[i] = jobs[i]
      /\ jobs'[n + 1] = [op |-> "remove", cases |-> cases]
  BY DEF Job
<1>2. /\ \A i \in 1..n : Adds(i, k)' <=> Adds(i, k)
      /\ \A i \in 1..n : Drops(i, k)' <=> Drops(i, k)
      /\ ~Drops(n + 1, k)'
  BY <1>1 DEF Adds, Drops
<1>3. k \in file \/ \E i \in 1..n : Adds(i, k)
  BY DEF OnItsWay
<1>4. \A i \in 1..n : Drops(i, k) => \E j \in (i + 1)..n : Adds(j, k)
  BY DEF OnItsWay
<1>5. k \in file' \/ \E i \in 1..Len(jobs') : Adds(i, k)'
  BY <1>1, <1>2, <1>3
<1>6. \A i \in 1..Len(jobs') : Drops(i, k)' => \E j \in (i + 1)..Len(jobs') : Adds(j, k)'
  BY <1>1, <1>2, <1>4
<1>7. QED BY <1>5, <1>6 DEF OnItsWay

\* The disk thread does its first job: what was on its way still is, but for
\* an addition that fails.
LEMMA FirstJobDone ==
  ASSUME jobs \in Seq(Jobs), jobs # <<>>, jobs' = Tail(jobs),
         NEW k, OnItsWay(k),
         \/ file' = file /\ ~Adds(1, k)
         \/ file' = IF Head(jobs).op = "add" THEN file \cup Head(jobs).cases ELSE file \ Head(jobs).cases
  PROVE  OnItsWay(k)'
<1> DEFINE n == Len(jobs) - 1
<1>1. /\ n \in Nat /\ Len(jobs) = n + 1 /\ Len(jobs') = n
      /\ \A i \in 1..n : jobs'[i] = jobs[i + 1]
      /\ Head(jobs) = jobs[1] /\ jobs[1] \in Jobs
  <2>1. Len(jobs) \in Nat \ {0}
    OBVIOUS
  <2>2. QED BY <2>1
<1>2. /\ \A i \in 1..n : Adds(i, k)' <=> Adds(i + 1, k)
      /\ \A i \in 1..n : Drops(i, k)' <=> Drops(i + 1, k)
  BY <1>1 DEF Adds, Drops
<1> HIDE DEF n
<1>3. k \in file \/ \E i \in 1..(n + 1) : Adds(i, k)
  BY <1>1 DEF OnItsWay
<1>4. \A i \in 1..(n + 1) : Drops(i, k) => \E j \in (i + 1)..(n + 1) : Adds(j, k)
  BY <1>1 DEF OnItsWay
<1>5. \A i \in 1..Len(jobs') : Drops(i, k)' => \E j \in (i + 1)..Len(jobs') : Adds(j, k)'
  <2> SUFFICES ASSUME NEW i \in 1..n, Drops(i, k)' PROVE \E j \in (i + 1)..n : Adds(j, k)'
    BY <1>1
  <2>1. PICK j \in (i + 2)..(n + 1) : Adds(j, k)
    BY <1>1, <1>2, <1>4
  <2>2. j - 1 \in (i + 1)..n /\ j - 1 \in 1..n /\ (j - 1) + 1 = j
    BY <1>1, <2>1
  <2>3. Adds(j - 1, k)'
    BY <1>2, <2>1, <2>2
  <2>4. QED BY <2>2, <2>3
<1>6. k \in file' \/ \E i \in 1..Len(jobs') : Adds(i, k)'
  <2>1. CASE \E i \in 2..(n + 1) : Adds(i, k)
    <3>1. PICK i \in 2..(n + 1) : Adds(i, k)
      BY <2>1
    <3>2. i - 1 \in 1..n /\ (i - 1) + 1 = i
      BY <1>1, <3>1
    <3>3. QED BY <1>1, <1>2, <3>1, <3>2
  <2>2. CASE ~\E i \in 2..(n + 1) : Adds(i, k)
    <3>1. ~Drops(1, k)
      BY <1>1, <1>4, <2>2
    <3>2. k \in file \/ Adds(1, k)
      BY <1>1, <1>3, <2>2
    <3>3. k \in file'
      BY <1>1, <3>1, <3>2 DEF Adds, Drops, Jobs
    <3>4. QED BY <3>3
  <2>3. QED BY <2>1, <2>2
<1>7. QED BY <1>5, <1>6 DEF OnItsWay

\* Queueing a cancel keeps what is owed on its way to the disk.
LEMMA QueueDebt ==
  ASSUME Inv, NEW cases, cases \subseteq Cars, Queue(cases), UNCHANGED <<file, unkept>>
  PROVE  DebtInv'
<1>1. SUFFICES ASSUME Stored, NEW k \in owed' PROVE (k \in unkept \/ OnItsWay(k))'
  BY DEF DebtInv
<1>2. jobs \in Seq(Jobs) /\ cases \ owed \subseteq Cars
  BY DEF Inv, TypeInv
<1>3. k \in owed => k \in unkept \/ OnItsWay(k)
  BY <1>1 DEF Inv, DebtInv
<1>4. k \in owed \/ k \in cases \ owed
  BY <1>1 DEF Queue
<1>5. CASE cases \ owed = {}
  <2>1. jobs' = jobs /\ file' = file /\ unkept' = unkept
    BY <1>5 DEF Queue, Kept
  <2>2. QED BY <1>3, <1>4, <1>5, <2>1 DEF OnItsWay, Adds, Drops
<1>6. CASE cases \ owed # {}
  <2>1. jobs' = Append(jobs, Job("add", cases \ owed))
    BY <1>1, <1>6 DEF Queue, Kept
  <2>2. CASE k \in unkept
    BY <2>2
  <2>3. CASE k \in cases \ owed \/ OnItsWay(k)
    <3>1. OnItsWay(k)'
      BY <1>2, <2>1, <2>3, AddedIsOnItsWay
    <3>2. QED BY <3>1
  <2>4. QED BY <1>3, <1>4, <2>2, <2>3
<1>7. QED BY <1>5, <1>6

\* Nor does a step lose one that queues none and settles none.
LEMMA SameDebt ==
  ASSUME Inv, UNCHANGED <<owed, jobs, file, unkept>>
  PROVE  DebtInv'
BY DEF Inv, DebtInv, OnItsWay, Adds, Drops

LEMMA DebtStep ==
  ASSUME Inv, [Next]_vars
  PROVE  DebtInv'
<1> USE DEF laneVars, caseVars, drainVars, diskVars, platformVars, history
<1>1. CASE FreeReader
  BY <1>1, QueueDebt DEF FreeReader, Inv, TypeInv, One
<1>2. CASE AfterStep
  BY <1>2, QueueDebt DEF AfterStep, TakenMeanwhile, Inv, TypeInv, One
<1>3. CASE VendCancels
  BY <1>3, QueueDebt DEF VendCancels, Inv, TypeInv, One
<1>4. CASE Arrive \/ NoCase \/ NewCase \/ StepCase \/ Leave
  BY <1>4, SameDebt DEF Arrive, NoCase, NewCase, StepCase, Step, Leave
<1>5. CASE SaysSettled \/ Waits \/ HandOver \/ PayAnswered \/ PayUnanswered
  BY <1>5, SameDebt DEF SaysSettled, Waits, HandOver, PayAnswered, PayUnanswered
<1>6. CASE FirstStepped \/ Stepped \/ Take \/ VendRaises
  BY <1>6, SameDebt DEF FirstStepped, Stepped, Take, VendRaises
<1>7. CASE (\E k \in Cars : Ask(k)) \/ AskFails
  BY <1>7, SameDebt DEF Ask, AskFails, OwedAfterFailure
<1>8. CASE Settle
  <2>1. SUFFICES ASSUME Stored, NEW k \in owed' PROVE (k \in unkept \/ OnItsWay(k))'
    BY DEF DebtInv
  <2>2. /\ k \in owed /\ k \notin asking /\ file' = file /\ unkept' = unkept \ asking
        /\ jobs' = Append(jobs, Job("remove", asking))
    BY <1>8, <2>1 DEF Settle, Forgotten
  <2>3. jobs \in Seq(Jobs) /\ asking \subseteq Cars
    BY DEF Inv, TypeInv, One
  <2>4. CASE k \in unkept
    BY <2>2, <2>4
  <2>5. CASE OnItsWay(k)
    <3>1. OnItsWay(k)'
      BY <2>2, <2>3, <2>5, OthersRemoved
    <3>2. QED BY <3>1
  <2>6. QED BY <2>1, <2>2, <2>4, <2>5 DEF Inv, DebtInv
<1>9. CASE DiskWrites
  <2>1. SUFFICES ASSUME Stored, NEW k \in owed' PROVE (k \in unkept \/ OnItsWay(k))'
    BY DEF DebtInv
  <2>2. /\ owed' = owed /\ unkept' = unkept /\ jobs # <<>> /\ jobs' = Tail(jobs)
        /\ file' = IF Head(jobs).op = "add" THEN file \cup Head(jobs).cases ELSE file \ Head(jobs).cases
    BY <1>9 DEF DiskWrites
  <2>3. jobs \in Seq(Jobs) /\ (k \in unkept \/ OnItsWay(k))
    BY <2>1, <2>2 DEF Inv, TypeInv, DebtInv
  <2>4. CASE OnItsWay(k)
    <3>1. OnItsWay(k)'
      BY <2>2, <2>3, <2>4, FirstJobDone
    <3>2. QED BY <3>1
  <2>5. QED BY <2>2, <2>3, <2>4
<1>10. CASE DiskFails
  <2>1. SUFFICES ASSUME Stored, NEW k \in owed' PROVE (k \in unkept \/ OnItsWay(k))'
    BY DEF DebtInv
  <2>2. /\ owed' = owed /\ jobs # <<>> /\ jobs' = Tail(jobs) /\ file' = file
        /\ unkept' = IF Head(jobs).op = "add" THEN unkept \cup (Head(jobs).cases \cap owed) ELSE unkept
    BY <1>10 DEF DiskFails
  <2>3. jobs \in Seq(Jobs) /\ (k \in unkept \/ OnItsWay(k)) /\ Head(jobs) = jobs[1]
    BY <2>1, <2>2 DEF Inv, TypeInv, DebtInv
  <2>4. CASE k \in unkept \/ Adds(1, k)
    BY <2>1, <2>2, <2>3, <2>4 DEF Adds
  <2>5. CASE OnItsWay(k) /\ ~Adds(1, k)
    <3>1. OnItsWay(k)'
      BY <2>2, <2>3, <2>5, FirstJobDone
    <3>2. QED BY <3>1
  <2>6. QED BY <2>3, <2>4, <2>5
<1>11. CASE PlatformNext
  BY <1>11, SameDebt DEF PlatformNext, PayReaches, CancelConfirmed, CancelRefused, PlatformSettles, PayLands
<1>12. CASE Restart
  <2>1. owed' = file /\ file' = file /\ jobs' = <<>>
    BY <1>12 DEF Restart
  <2>2. QED BY <2>1 DEF DebtInv, OnItsWay
<1>13. CASE UNCHANGED vars
  BY <1>13, SameDebt DEF vars
<1>14. QED
  BY <1>1, <1>2, <1>3, <1>4, <1>5, <1>6, <1>7, <1>8, <1>9, <1>10, <1>11, <1>12, <1>13
  DEF Next, LaneNext, VendNext, DrainNext, DiskNext

------------------------------------------------------------------------------
\* Where a fee is kept in mind before a step, it is after: the lane's own steps.
LEMMA LaneMinds ==
  ASSUME Inv, FeeInv, LaneNext
  PROVE  FeeInv'
<1> USE DEF FeeInv, Minded, BeingStepped, Confirmed, Inv, StepInv, Stepping,
            laneVars, caseVars, drainVars, diskVars, platformVars, history
<1>1. CASE Arrive
  BY <1>1 DEF Arrive, LeftOnReader
<1>2. CASE FreeReader
  BY <1>2 DEF FreeReader, Queue
<1>3. CASE NoCase
  BY <1>3 DEF NoCase
<1>4. CASE NewCase \/ StepCase
  BY <1>4 DEF NewCase, StepCase, Step
<1>5. CASE Leave
  BY <1>5 DEF Leave, LeftOnReader
<1>6. CASE SaysSettled \/ Waits \/ HandOver
  BY <1>6 DEF SaysSettled, Waits, HandOver
<1>7. CASE PayAnswered
  BY <1>7 DEF PayAnswered
<1>8. CASE PayUnanswered
  BY <1>8 DEF PayUnanswered
<1>9. CASE AfterStep
  <2>1. /\ owed' = owed \cup TakenMeanwhile
        /\ slipped' = slipped \cup (TakenMeanwhile \cap Confirmed \cap reader)
        /\ TakenMeanwhile = laneCase \cap taken \cap sent
    BY <1>9 DEF AfterStep, Queue, TakenMeanwhile
  <2>2. /\ lane' = "deciding" /\ lane = "stepped"
        /\ UNCHANGED <<reader, left, sent, taken, vend, exitCase, laneCase, asking, askAnswer, refused, stranded>>
    BY <1>9 DEF AfterStep
  <2>3. QED BY <2>1, <2>2
<1>10. CASE FirstStepped
  <2>1. \A k \in reader : k \in laneCase => ~settledSeen
    BY <1>10 DEF FirstStepped, PlatformInv
  <2>2. QED BY <1>10, <2>1 DEF FirstStepped
<1>11. CASE Stepped
  <2>1. \A k \in reader : k \in laneCase => ~settledSeen
    BY <1>11 DEF Stepped, PlatformInv
  <2>2. QED BY <1>11, <2>1 DEF Stepped
<1>12. QED
  BY <1>1, <1>2, <1>3, <1>4, <1>5, <1>6, <1>7, <1>8, <1>9, <1>10, <1>11 DEF LaneNext

LEMMA FeeStep ==
  ASSUME Inv, FeeInv, [Next]_vars
  PROVE  FeeInv'
<1> USE DEF FeeInv, Minded, BeingStepped, Confirmed, Inv, laneVars, caseVars, drainVars, diskVars, platformVars,
            history
<1>1. CASE LaneNext
  BY <1>1, LaneMinds
<1>2. CASE Take
  BY <1>2 DEF Take, StepInv, Stepping
<1>3. CASE VendCancels
  BY <1>3 DEF VendCancels, Queue
<1>4. CASE VendRaises
  BY <1>4 DEF VendRaises
<1>5. CASE (\E k \in Cars : Ask(k)) \/ AskFails
  BY <1>5 DEF Ask, AskFails, OwedAfterFailure, PlatformInv
<1>6. CASE Settle
  BY <1>6 DEF Settle, PlatformInv, TypeInv
<1>7. CASE DiskNext
  BY <1>7 DEF DiskNext, DiskWrites, DiskFails
<1>8. CASE PayReaches
  BY <1>8 DEF PayReaches
<1>9. CASE CancelConfirmed \/ CancelRefused
  BY <1>9 DEF CancelConfirmed, CancelRefused, Off
<1>10. CASE \E k \in Cars : PlatformSettles(k) \/ PayLands(k)
  BY <1>10 DEF PlatformSettles, PayLands, Off
<1>11. CASE Restart
  BY <1>11 DEF Restart, InMemory
<1>12. CASE UNCHANGED vars
  BY <1>12 DEF vars
<1>13. QED
  BY <1>1, <1>2, <1>3, <1>4, <1>5, <1>6, <1>7, <1>8, <1>9, <1>10, <1>11, <1>12
  DEF Next, VendNext, DrainNext, PlatformNext

------------------------------------------------------------------------------
LEMMA Invariance == Spec => []Inv
<1>1. Inv /\ [Next]_vars => Inv'
  BY TypeStep, StepStep, PlatformStep, DebtStep, WaitStep DEF Inv
<1>2. Init => Inv
  BY Initially
<1>3. QED BY <1>1, <1>2, PTL DEF Spec

LEMMA Typed == Inv => TypeOK
<1> SUFFICES ASSUME Inv PROVE TypeOK
  OBVIOUS
<1>1. \A cases \in {exitCase, laneCase, left, vend, asking, reader} :
        cases \subseteq Cars /\ Cardinality(cases) <= 1
  BY OneCounts DEF Inv, TypeInv, One
<1>2. \A i \in 1..Len(jobs) : jobs[i].op \in {"add", "remove"} /\ jobs[i].cases \subseteq Cars
  <2>1. \A i \in 1..Len(jobs) : jobs[i] \in Jobs
    BY DEF Inv, TypeInv
  <2>2. QED BY <2>1 DEF Jobs
<1>3. QED BY <1>1, <1>2 DEF Inv, TypeInv, TypeOK

\* A fee on the reader is the waiting car's, or somebody's to take off, for any
\* number of cars, persons and restarts and whatever fails, but for the fees
\* FeeAccounted names; and what is owed is on the disk once its thread rests.
THEOREM NoFeeForgotten == Spec => []FeeAccounted
<1>1. Inv /\ FeeInv /\ [Next]_vars => FeeInv'
  BY FeeStep
<1>2. Init => FeeInv
  BY Initially
<1>3. Inv /\ FeeInv => FeeAccounted
  <2> SUFFICES ASSUME Inv, FeeInv PROVE FeeAccounted
    OBVIOUS
  <2>1. reader \subseteq exitCase \cup laneCase \cup left \cup vend \cup owed
                         \cup refused \cup stranded \cup slipped
    BY DEF FeeInv, Minded, BeingStepped
  <2>2. DebtOnDisk
    BY DEF Inv, TypeInv, DebtInv, DebtOnDisk, OnItsWay, Adds
  <2>3. QED BY <2>1, <2>2, Typed DEF FeeAccounted
<1>4. QED BY Invariance, <1>1, <1>2, <1>3, PTL DEF Spec

\* No fee is handed over while the cancel of a car that left is unconfirmed.
THEOREM FeesWait == Spec => FeeWaits
<1>1. Inv /\ Inv' /\ [Next]_vars => (lane' = "paying" => owed \ laneCase \subseteq taken) \/ UNCHANGED vars
  <2> SUFFICES ASSUME Inv, Next, lane' = "paying" PROVE owed \ laneCase \subseteq taken
    OBVIOUS
  <2> USE DEF Inv, WaitInv, laneVars
  <2>1. CASE LaneNext
    BY <2>1 DEF LaneNext, Arrive, FreeReader, NoCase, NewCase, StepCase, Step, Leave, SaysSettled, Waits, HandOver,
                PayAnswered, PayUnanswered, AfterStep, FirstStepped, Stepped
  <2>2. CASE VendNext \/ DrainNext \/ DiskNext
    BY <2>2 DEF VendNext, DrainNext, DiskNext, Take, VendCancels, VendRaises, Ask, Settle, AskFails, DiskWrites,
                DiskFails
  <2>3. CASE PlatformNext
    BY <2>3 DEF PlatformNext, PayReaches, CancelConfirmed, CancelRefused, PlatformSettles, PayLands
  <2>4. CASE Restart
    BY <2>4 DEF Restart
  <2>5. QED BY <2>1, <2>2, <2>3, <2>4 DEF Next
<1>2. QED BY Invariance, <1>1, PTL DEF Spec, FeeWaits
==============================================================================

--------------------------- MODULE LoopBoardProofs ---------------------------
(***************************************************************************)
(* Proofs about LoopBoard, for every number of transits and crossings.     *)
(* The inductive invariant is stated in parts: what the poll's claim and   *)
(* the count of reads mean (ClaimInv, LaneInv), who may still answer for a *)
(* transit (AnswerInv), where each crossing the driver reported is now     *)
(* (CrossingInv), and what the poll knows of the board (PublishedInv).     *)
(***************************************************************************)
EXTENDS LoopBoard, FiniteSetTheorems, TLAPS

Reading == {t \in Transits : step[t] \in Counted}

\* The claim is up exactly while the poll is out, no read is counted while it
\* is, and the count is the number of reads out.
ClaimInv ==
  /\ pollReading <=> laneTurn \in {"polling", "polled"}
  /\ pollReading => Reading = {}
  /\ reads = Cardinality(Reading)

\* The lane thread serves one transit of its own at a time, and while it does
\* it does nothing else.
Active == {"vended", "begun", "read", "claimed"} \cup Counted
LaneInv ==
  /\ \A t \in Ordinary : step[t] \in Active => laneTurn = "serving"
  /\ \A t, u \in Ordinary : step[t] \in Active /\ step[u] \in Active => t = u

\* An outcome is recorded by whoever took the claim, and only once it has; the
\* settle thread starts with the transit.
NotBegun == {"none", "judged", "vended"}
AnswerInv ==
  /\ \A t \in Transits :
       /\ step[t] \in {"claimed", "answered"} => claim[t] = "worker"
       /\ claim[t] = "worker" => step[t] \in {"claimed", "answered"}
       /\ step[t] = "claimed" => outcome[t] = "none"
       /\ outcome[t] # "none" => claim[t] # "free"
       /\ t \notin Assisted => claim[t] # "deadline"
  /\ \A t \in Assisted :
       /\ settle[t] = "timing_out" => claim[t] = "deadline" /\ outcome[t] = "none"
       /\ settle[t] \in {"none", "joining"} => claim[t] # "deadline"
       /\ step[t] \in NotBegun => settle[t] = "none"

\* A crossing the driver reported is in one place: with the read that got it,
\* with the poll, in the slot, or recorded as unadmitted.
Ungiven == {"none", "judged", "vended", "begun", "reading"}
CrossingInv ==
  /\ \A t \in Transits :
       /\ got[t].number <= taken
       /\ got[t].says # "nothing" => got[t].number > 0
       /\ step[t] \in Ungiven => got[t] = NoCrossing
       /\ got[t].number \notin unadmitted
       /\ got[t].number > 0 => got[t].number # pollGot.number
       /\ Confirmed(t) => got[t].says = "confirms"
  /\ \A t, u \in Transits :
       got[t].number > 0 /\ got[t].number = got[u].number => t = u
  /\ pollGot.number <= taken
  /\ pollGot.says # "nothing" => pollGot.number > 0
  /\ pollGot.number \notin unadmitted
  /\ laneTurn \notin {"polled", "recording"} => pollGot = NoCrossing
  /\ laneTurn = "recording" => pollGot.number \in 1..taken
  /\ \A h \in handed :
       /\ h.answer.number \in 1..taken
       /\ h.answer.number \notin unadmitted
       /\ h.answer.number # pollGot.number
       /\ \A t \in Transits : h.answer.number # got[t].number
  /\ \A n \in unadmitted : n \in 1..taken

\* While the poll is out, a pending transit was published after its claim.
PublishedInv ==
  /\ claimedAt <= published
  /\ laneTurn \in {"polling", "polled"} /\ published = claimedAt => transitState # "pending"

Inv == TypeOK /\ ClaimInv /\ LaneInv /\ AnswerInv /\ CrossingInv /\ PublishedInv

------------------------------------------------------------------------------
\* The definitions every step is made of.
USE DEF laneVars, boardVars, vendVars, recordVars, decisionVars, doorVars, loopVars

\* The cases of a step, each the action of one actor.
LEMMA StepCases ==
  ASSUME [Next]_vars
  PROVE  \/ Cross \/ RefuseArrival
         \/ \E t \in Ordinary : AllowArrival(t) \/ OpenForRefused(t)
         \/ \E t \in Assisted : JudgeVend(t) \/ AcceptVend(t)
         \/ \E t \in Transits : BeginTransit(t) \/ SkipRead(t) \/ CountIn(t)
         \/ \E t \in Transits : DriverReturns(t) \/ CountOut(t) \/ DriverRaisesIn(t)
         \/ \E t \in Transits : TakeClaim(t) \/ AnswerTransit(t)
         \/ \E t \in Assisted : DeadlineClaims(t) \/ DeadlineAnswers(t)
         \/ \E t \in Assisted : SettleJoined(t) \/ ReleaseRoute(t)
         \/ PollClaims \/ PollReturns \/ PollRaises \/ PollHandsOver \/ PollKeeps \/ PollRecords
         \/ UNCHANGED vars
  BY DEF Next, PollNext, DoorNext, ReadNext, SettleNext

\* What the loops made of a transit is an outcome, and a session action.
LEMMA ResultType ==
  ASSUME hasLoops \in BOOLEAN, NEW answer \in Answers, NEW inWindow \in BOOLEAN
  PROVE  /\ ResultOf(answer, inWindow) \in Outcomes \ {"none"}
         /\ SessionOf(ResultOf(answer, inWindow)) \in Sessions
         /\ ResultOf(answer, inWindow) = "confirmed" => answer.says = "confirms"
  BY DEF ResultOf, SessionOf, Outcomes, States, Sessions, Answers, Says

\* No crossing is an answer, and the driver's answers are answers.
LEMMA AnswerType ==
  /\ NoCrossing \in Answers
  /\ \A answer \in Answers : answer.number \in Nat /\ answer.number <= MaxCrossings
  BY BoardAssumption DEF Answers, NoCrossing, Says

\* The types hold at the start.
LEMMA TypeInit == Init => TypeOK
  <1> SUFFICES ASSUME Init PROVE TypeOK
    OBVIOUS
  <1>1. transitState \in States /\ transitSince \subseteq Stamps /\ handed \subseteq Slots
    BY DEF Init, States
  <1>2. /\ step \in [Transits -> Steps]
        /\ outcome \in [Transits -> Outcomes]
        /\ session \in [Transits -> Sessions]
    BY DEF Init, Steps, Outcomes, States, Sessions
  <1>3. got \in [Transits -> Answers] /\ pollGot \in Answers
    BY AnswerType DEF Init
  <1>4. crossed \in 0..MaxCrossings /\ taken \in 0..MaxCrossings /\ taken <= crossed
    BY BoardAssumption DEF Init
  <1>5. QED BY <1>1, <1>2, <1>3, <1>4 DEF Init, TypeOK

\* Every step keeps the types, provided the count covers the reads that end.
LEMMA TypeStep ==
  ASSUME TypeOK, [Next]_vars, \A t \in Transits : step[t] \in Counted => reads > 0
  PROVE  TypeOK'
  <1> USE BoardAssumption, AnswerType DEF TypeOK
  <1>1. CASE Cross
    BY <1>1 DEF Cross
  <1>2. CASE RefuseArrival
    BY <1>2 DEF RefuseArrival
  <1>3. ASSUME NEW t \in Ordinary, AllowArrival(t) \/ OpenForRefused(t)
        PROVE  TypeOK'
    BY <1>3 DEF AllowArrival, OpenForRefused, Steps
  <1>4. ASSUME NEW t \in Assisted, JudgeVend(t) \/ AcceptVend(t)
        PROVE  TypeOK'
    BY <1>4 DEF JudgeVend, AcceptVend, Steps
  <1>5. ASSUME NEW t \in Transits, BeginTransit(t)
        PROVE  TypeOK'
    <2>1. transitSince' \subseteq Stamps /\ transitState' \in States /\ published' \in Nat
      BY <1>5 DEF BeginTransit, Publish, Stamps, States
    <2>2. settle' \in [Assisted -> {"none", "joining", "timing_out", "releasing", "done"}]
      BY <1>5 DEF BeginTransit
    <2>3. QED BY <1>5, <2>1, <2>2 DEF BeginTransit, Steps
  <1>6. ASSUME NEW t \in Transits, SkipRead(t)
        PROVE  TypeOK'
    BY <1>6 DEF SkipRead, Steps
  <1>7. ASSUME NEW t \in Transits, CountIn(t)
        PROVE  TypeOK'
    <2>1. got' \in [Transits -> Answers] /\ handed' \subseteq Slots
      <3>1. CASE UNCHANGED <<handed, got>>
        BY <3>1
      <3>2. ASSUME NEW h \in HandedTo(t), got' = [got EXCEPT ![t] = h.answer], handed' = {}
            PROVE  got' \in [Transits -> Answers] /\ handed' \subseteq Slots
        <4>1. h.answer \in Answers
          BY DEF HandedTo, Slots
        <4>2. QED BY <3>2, <4>1
      <3>3. QED BY <1>7, <3>1, <3>2 DEF CountIn
    <2>2. step' \in [Transits -> Steps]
      BY <1>7 DEF CountIn, Steps, Counted
    <2>3. QED BY <1>7, <2>1, <2>2 DEF CountIn
  <1>8. ASSUME NEW t \in Transits, DriverReturns(t)
        PROVE  TypeOK'
    <2>1. reads > 0
      BY <1>8 DEF DriverReturns, Counted
    <2>2. got' \in [Transits -> Answers] /\ taken' \in 0..MaxCrossings /\ taken' <= crossed'
      BY <1>8 DEF DriverReturns, DriverAnswers
    <2>3. QED BY <1>8, <2>1, <2>2 DEF DriverReturns, CountedOut, Steps
  <1>9. ASSUME NEW t \in Transits, CountOut(t) \/ DriverRaisesIn(t)
        PROVE  TypeOK'
    <2>1. reads > 0
      BY <1>9 DEF CountOut, DriverRaisesIn, Counted
    <2>2. reads' \in Nat
      BY <1>9, <2>1 DEF CountOut, DriverRaisesIn, CountedOut
    <2>3. CASE CountOut(t)
      BY <2>2, <2>3 DEF CountOut, Steps
    <2>4. CASE DriverRaisesIn(t)
      BY <2>2, <2>4 DEF DriverRaisesIn, Steps, Finished
    <2>5. QED BY <1>9, <2>3, <2>4
  <1>10. ASSUME NEW t \in Transits, TakeClaim(t)
         PROVE  TypeOK'
    BY <1>10 DEF TakeClaim, Steps, Finished
  <1>11. ASSUME NEW t \in Transits, AnswerTransit(t)
         PROVE  TypeOK'
    <2>1. PICK inWindow \in BOOLEAN :
            /\ outcome' = [outcome EXCEPT ![t] = ResultOf(got[t], inWindow)]
            /\ session' = [session EXCEPT ![t] = SessionOf(ResultOf(got[t], inWindow))]
            /\ Publish(ResultOf(got[t], inWindow), t)
      BY <1>11 DEF AnswerTransit
    <2>2. /\ ResultOf(got[t], inWindow) \in Outcomes
          /\ SessionOf(ResultOf(got[t], inWindow)) \in Sessions
      BY ResultType
    <2>3. /\ outcome' \in [Transits -> Outcomes]
          /\ session' \in [Transits -> Sessions]
      BY <2>1, <2>2
    <2>4. transitSince' \subseteq Stamps /\ transitState' \in States /\ published' \in Nat
      BY <2>1, <2>2 DEF Publish, Stamps, Outcomes
    <2>5. QED BY <1>11, <2>3, <2>4 DEF AnswerTransit, Steps, Finished
  <1>12. ASSUME NEW t \in Assisted, DeadlineClaims(t)
         PROVE  TypeOK'
    BY <1>12 DEF DeadlineClaims, ReadsAfterDeadline, Transits
  <1>13. ASSUME NEW t \in Assisted, DeadlineAnswers(t)
         PROVE  TypeOK'
    <2>1. transitSince' \subseteq Stamps /\ transitState' \in States /\ published' \in Nat
      BY <1>13 DEF DeadlineAnswers, Publish, Stamps, States, Transits
    <2>2. outcome' \in [Transits -> Outcomes]
      BY <1>13 DEF DeadlineAnswers, Outcomes, States
    <2>3. QED BY <1>13, <2>1, <2>2 DEF DeadlineAnswers
  <1>14. ASSUME NEW t \in Assisted, SettleJoined(t) \/ ReleaseRoute(t)
         PROVE  TypeOK'
    BY <1>14 DEF SettleJoined, ReleaseRoute
  <1>15. CASE PollClaims \/ PollRaises
    BY <1>15 DEF PollClaims, PollRaises
  <1>16. CASE PollReturns
    <2>1. pollGot' \in Answers /\ taken' \in 0..MaxCrossings /\ taken' <= crossed'
      BY <1>16 DEF PollReturns, DriverAnswers
    <2>2. QED BY <1>16, <2>1 DEF PollReturns
  <1>17. CASE PollHandsOver \/ PollKeeps
    <2>1. handed' \subseteq Slots
      <3>1. CASE PollHandsOver
        BY <3>1 DEF PollHandsOver, Slots
      <3>2. CASE PollKeeps
        BY <3>2 DEF PollKeeps
      <3>3. QED BY <1>17, <3>1, <3>2
    <2>2. /\ laneTurn' \in {"recording", "idle"} /\ pollReading' = FALSE
          /\ pollGot' \in {pollGot, NoCrossing}
      <3>1. ReleaseClaim(TRUE) \/ ReleaseClaim(FALSE)
        BY <1>17 DEF PollHandsOver, PollKeeps
      <3>2. QED BY <3>1 DEF ReleaseClaim
    <2>3. QED BY <1>17, <2>1, <2>2 DEF PollHandsOver, PollKeeps
  <1>18. CASE PollRecords
    <2>1. pollGot.number \in 0..MaxCrossings
      OBVIOUS
    <2>2. unadmitted' \subseteq 0..MaxCrossings
      BY <1>18, <2>1 DEF PollRecords
    <2>3. QED BY <1>18, <2>2 DEF PollRecords
  <1>19. CASE UNCHANGED vars
    BY <1>19 DEF vars
  <1>20. QED
    BY <1>1, <1>2, <1>3, <1>4, <1>5, <1>6, <1>7, <1>8, <1>9, <1>10, <1>11, <1>12, <1>13, <1>14,
       <1>15, <1>16, <1>17, <1>18, <1>19, StepCases

------------------------------------------------------------------------------
\* The reads counted are finitely many, and one of them makes the count positive.
LEMMA ReadsFinite ==
  /\ IsFiniteSet(Reading)
  /\ IsFiniteSet(Reading')
  /\ ClaimInv => \A t \in Transits : step[t] \in Counted => reads > 0
  <1>1. IsFiniteSet(Transits)
    BY BoardAssumption, FS_Union DEF Transits
  <1>2. IsFiniteSet(Reading) /\ IsFiniteSet(Reading')
    BY <1>1, FS_Subset DEF Reading
  <1>3. ASSUME ClaimInv, NEW t \in Transits, step[t] \in Counted
        PROVE  reads > 0
    <2>1. Reading # {}
      BY <1>3 DEF Reading
    <2>2. Cardinality(Reading) \in Nat /\ Cardinality(Reading) # 0
      BY <1>2, <2>1, FS_EmptySet, FS_CardinalityType
    <2>3. QED BY <1>3, <2>2 DEF ClaimInv
  <1>4. QED BY <1>2, <1>3

\* A step that moves no read in or out keeps the count.
LEMMA CountKept ==
  ASSUME ClaimInv, reads' = reads, Reading' = Reading,
         pollReading' <=> laneTurn' \in {"polling", "polled"},
         pollReading' => pollReading
  PROVE  ClaimInv'
  BY DEF ClaimInv

\* A read that ends leaves the others counted.
LEMMA CountFalls ==
  ASSUME TypeOK, ClaimInv, NEW t \in Transits, step[t] \in Counted,
         NEW to, to \notin Counted, step' = [step EXCEPT ![t] = to], reads' = CountedOut(t),
         pollReading' = pollReading, pollReading <=> laneTurn' \in {"polling", "polled"}
  PROVE  ClaimInv'
  <1>1. t \in Reading /\ Reading' = Reading \ {t}
    BY DEF Reading, TypeOK
  <1>2. Cardinality(Reading') = Cardinality(Reading) - 1
    BY <1>1, ReadsFinite, FS_RemoveElement
  <1>3. QED BY <1>1, <1>2 DEF ClaimInv, CountedOut

\* Every step keeps the claim and the count right.
LEMMA ClaimStep ==
  ASSUME TypeOK, ClaimInv, LaneInv, [Next]_vars
  PROVE  ClaimInv'
  <1>1. CASE Cross \/ RefuseArrival
    BY <1>1, CountKept DEF Cross, RefuseArrival, ClaimInv, Reading
  <1>2. ASSUME NEW t \in Ordinary, AllowArrival(t) \/ OpenForRefused(t)
        PROVE  ClaimInv'
    <2>1. Reading' = Reading
      BY <1>2 DEF AllowArrival, OpenForRefused, Reading, Counted, TypeOK, Transits
    <2>2. QED BY <1>2, <2>1, CountKept DEF AllowArrival, OpenForRefused, ClaimInv
  <1>3. ASSUME NEW t \in Assisted, JudgeVend(t) \/ AcceptVend(t)
        PROVE  ClaimInv'
    <2>1. Reading' = Reading
      BY <1>3 DEF JudgeVend, AcceptVend, Reading, Counted, TypeOK, Transits
    <2>2. QED BY <1>3, <2>1, CountKept DEF JudgeVend, AcceptVend, ClaimInv
  <1>4. ASSUME NEW t \in Transits, BeginTransit(t) \/ SkipRead(t)
        PROVE  ClaimInv'
    <2>1. Reading' = Reading
      BY <1>4 DEF BeginTransit, SkipRead, Reading, Counted, TypeOK
    <2>2. QED BY <1>4, <2>1, CountKept DEF BeginTransit, SkipRead, ClaimInv
  <1>5. ASSUME NEW t \in Transits, CountIn(t)
        PROVE  ClaimInv'
    <2>1. t \notin Reading /\ Reading' = Reading \cup {t}
      BY <1>5 DEF CountIn, Reading, Counted, TypeOK
    <2>2. Cardinality(Reading') = Cardinality(Reading) + 1
      BY <2>1, ReadsFinite, FS_AddElement
    <2>3. QED BY <1>5, <2>2 DEF CountIn, ClaimInv
  <1>6. ASSUME NEW t \in Transits, DriverReturns(t)
        PROVE  ClaimInv'
    BY <1>6, CountFalls DEF DriverReturns, Counted, ClaimInv
  <1>7. ASSUME NEW t \in Transits, CountOut(t)
        PROVE  ClaimInv'
    BY <1>7, CountFalls DEF CountOut, Counted, ClaimInv
  <1>8. ASSUME NEW t \in Transits, DriverRaisesIn(t)
        PROVE  ClaimInv'
    <2>1. pollReading <=> laneTurn' \in {"polling", "polled"}
      BY <1>8 DEF DriverRaisesIn, ClaimInv, LaneInv, Active, Counted
    <2>2. QED BY <1>8, <2>1, CountFalls DEF DriverRaisesIn, Counted
  <1>9. ASSUME NEW t \in Transits, TakeClaim(t)
        PROVE  ClaimInv'
    <2>1. Reading' = Reading
      BY <1>9 DEF TakeClaim, Reading, Counted, TypeOK
    <2>2. QED BY <1>9, <2>1, CountKept DEF TakeClaim, ClaimInv
  <1>10. ASSUME NEW t \in Transits, AnswerTransit(t)
         PROVE  ClaimInv'
    <2>1. Reading' = Reading
      BY <1>10 DEF AnswerTransit, Reading, Counted, TypeOK
    <2>2. pollReading <=> laneTurn' \in {"polling", "polled"}
      BY <1>10 DEF AnswerTransit, ClaimInv, LaneInv, Active
    <2>3. QED BY <1>10, <2>1, <2>2, CountKept DEF AnswerTransit
  <1>11. ASSUME NEW t \in Assisted,
                DeadlineClaims(t) \/ DeadlineAnswers(t) \/ SettleJoined(t) \/ ReleaseRoute(t)
         PROVE  ClaimInv'
    <2>1. Reading' = Reading /\ reads' = reads
      BY <1>11
      DEF DeadlineClaims, DeadlineAnswers, SettleJoined, ReleaseRoute, Reading, ReadsAfterDeadline
    <2>2. QED
      BY <1>11, <2>1, CountKept
      DEF DeadlineClaims, DeadlineAnswers, SettleJoined, ReleaseRoute, ClaimInv
  <1>12. CASE PollClaims
    <2>1. Reading = {}
      BY <1>12, ReadsFinite, FS_EmptySet DEF PollClaims, BoardClear, NothingReading, ClaimInv
    <2>2. QED BY <1>12, <2>1 DEF PollClaims, ClaimInv, Reading
  <1>13. CASE PollReturns \/ PollRaises \/ PollHandsOver \/ PollKeeps \/ PollRecords
    <2>1. Reading' = Reading
      BY <1>13 DEF PollReturns, PollRaises, PollHandsOver, PollKeeps, PollRecords, Reading
    <2>2. reads' = reads
      BY <1>13 DEF PollReturns, PollRaises, PollHandsOver, PollKeeps, PollRecords
    <2>3. pollReading' => pollReading
      BY <1>13 DEF PollReturns, PollRaises, PollHandsOver, PollKeeps, PollRecords, ReleaseClaim
    <2>4. pollReading' <=> laneTurn' \in {"polling", "polled"}
      <3>1. CASE PollReturns \/ PollRaises \/ PollRecords
        BY <3>1 DEF PollReturns, PollRaises, PollRecords, ClaimInv
      <3>2. CASE PollHandsOver \/ PollKeeps
        <4>1. ReleaseClaim(TRUE) \/ ReleaseClaim(FALSE)
          BY <3>2 DEF PollHandsOver, PollKeeps
        <4>2. QED BY <4>1 DEF ReleaseClaim
      <3>3. QED BY <1>13, <3>1, <3>2
    <2>5. QED BY <2>1, <2>2, <2>3, <2>4, CountKept
  <1>14. CASE UNCHANGED vars
    BY <1>14, CountKept DEF vars, ClaimInv, Reading
  <1>15. QED
    BY <1>1, <1>2, <1>3, <1>4, <1>5, <1>6, <1>7, <1>8, <1>9, <1>10, <1>11, <1>12, <1>13, <1>14,
       StepCases

------------------------------------------------------------------------------
\* A transit whose reader goes on, or ends its lane turn, keeps the lane's turns
\* to one transit at a time.
LEMMA LaneKept ==
  ASSUME TypeOK, LaneInv, NEW t \in Transits, NEW to,
         step' = [step EXCEPT ![t] = to],
         t \in Ordinary /\ to \in Active => step[t] \in Active,
         \/ laneTurn' = laneTurn
         \/ t \in Ordinary /\ step[t] \in Active /\ to \notin Active
  PROVE  LaneInv'
  <1>1. \A u \in Transits : step'[u] = IF u = t THEN to ELSE step[u]
    BY DEF TypeOK
  <1>2. \A u \in Ordinary : step'[u] \in Active => step[u] \in Active
    BY <1>1 DEF Transits
  <1>3. \A u, w \in Ordinary : step'[u] \in Active /\ step'[w] \in Active => u = w
    BY <1>2 DEF LaneInv
  <1>4. \A u \in Ordinary : step'[u] \in Active => laneTurn' = "serving"
    <2>1. CASE laneTurn' = laneTurn
      BY <1>2, <2>1 DEF LaneInv
    <2>2. CASE t \in Ordinary /\ step[t] \in Active /\ to \notin Active
      BY <1>1, <1>2, <2>2 DEF LaneInv, Transits
    <2>3. QED BY <2>1, <2>2
  <1>5. QED BY <1>3, <1>4 DEF LaneInv, Active

\* No step gives the lane thread a second transit of its own, or ends its turn
\* with one still on the way.
LEMMA LaneStep ==
  ASSUME TypeOK, LaneInv, [Next]_vars
  PROVE  LaneInv'
  <1>1. CASE Cross \/ RefuseArrival
    BY <1>1 DEF Cross, RefuseArrival, LaneInv
  <1>2. ASSUME NEW t \in Ordinary, AllowArrival(t) \/ OpenForRefused(t)
        PROVE  LaneInv'
    BY <1>2 DEF AllowArrival, OpenForRefused, TypeOK, Transits, LaneInv
  <1>3. ASSUME NEW t \in Assisted, JudgeVend(t) \/ AcceptVend(t)
        PROVE  LaneInv'
    <2>1. t \in Transits /\ t \notin Ordinary
      BY BoardAssumption DEF Transits
    <2>2. QED BY <1>3, <2>1, LaneKept DEF JudgeVend, AcceptVend
  <1>4. ASSUME NEW t \in Transits, BeginTransit(t)
        PROVE  LaneInv'
    BY <1>4, LaneKept DEF BeginTransit, Active
  <1>5. ASSUME NEW t \in Transits, SkipRead(t)
        PROVE  LaneInv'
    BY <1>5, LaneKept DEF SkipRead, Active
  <1>6. ASSUME NEW t \in Transits, CountIn(t)
        PROVE  LaneInv'
    <2>1. step[t] \in Active /\ laneTurn' = laneTurn
      BY <1>6 DEF CountIn, Active
    <2>2. step' = [step EXCEPT ![t] = "reading"] \/ step' = [step EXCEPT ![t] = "given"]
      BY <1>6 DEF CountIn
    <2>3. QED BY <2>1, <2>2, LaneKept
  <1>7. ASSUME NEW t \in Transits, DriverReturns(t)
        PROVE  LaneInv'
    BY <1>7, LaneKept DEF DriverReturns, Active, Counted
  <1>8. ASSUME NEW t \in Transits, CountOut(t)
        PROVE  LaneInv'
    BY <1>8, LaneKept DEF CountOut, Active, Counted
  <1>9. ASSUME NEW t \in Transits, DriverRaisesIn(t)
        PROVE  LaneInv'
    <2>1. step[t] \in Active /\ "dead" \notin Active
      BY <1>9 DEF DriverRaisesIn, Active, Counted
    <2>2. QED BY <1>9, <2>1, LaneKept DEF DriverRaisesIn
  <1>10. ASSUME NEW t \in Transits, TakeClaim(t)
         PROVE  LaneInv'
    <2>1. step[t] \in Active /\ laneTurn' = laneTurn
      BY <1>10 DEF TakeClaim, Active
    <2>2. step' = [step EXCEPT ![t] = "claimed"] \/ step' = [step EXCEPT ![t] = "dropped"]
      BY <1>10 DEF TakeClaim
    <2>3. QED BY <2>1, <2>2, LaneKept
  <1>11. ASSUME NEW t \in Transits, AnswerTransit(t)
         PROVE  LaneInv'
    <2>1. step[t] \in Active /\ "answered" \notin Active
      BY <1>11 DEF AnswerTransit, Active, Counted
    <2>2. QED BY <1>11, <2>1, LaneKept DEF AnswerTransit
  <1>12. ASSUME NEW t \in Assisted,
                DeadlineClaims(t) \/ DeadlineAnswers(t) \/ SettleJoined(t) \/ ReleaseRoute(t)
         PROVE  LaneInv'
    BY <1>12 DEF DeadlineClaims, DeadlineAnswers, SettleJoined, ReleaseRoute, LaneInv
  <1>13. CASE PollClaims \/ PollReturns \/ PollRaises \/ PollHandsOver \/ PollKeeps
              \/ PollRecords
    BY <1>13
    DEF PollClaims, PollReturns, PollRaises, PollHandsOver, PollKeeps, PollRecords, ReleaseClaim,
        LaneInv
  <1>14. CASE UNCHANGED vars
    BY <1>14 DEF vars, LaneInv
  <1>15. QED
    BY <1>1, <1>2, <1>3, <1>4, <1>5, <1>6, <1>7, <1>8, <1>9, <1>10, <1>11, <1>12, <1>13, <1>14,
       StepCases

\* A reader that moves on without asking for the claim changes nothing of who
\* may answer.
LEMMA AnswerKept ==
  ASSUME TypeOK, AnswerInv, NEW t \in Transits, NEW to,
         step' = [step EXCEPT ![t] = to],
         step[t] \notin {"claimed", "answered"}, to \notin {"claimed", "answered"},
         to \in NotBegun => step[t] \in NotBegun,
         UNCHANGED <<claim, settle, outcome>>
  PROVE  AnswerInv'
  <1>1. \A u \in Transits : step'[u] = IF u = t THEN to ELSE step[u]
    BY DEF TypeOK
  <1>2. QED BY <1>1 DEF AnswerInv, Transits

\* Nobody answers for a transit without the claim, or twice.
LEMMA AnswerStep ==
  ASSUME TypeOK, AnswerInv, [Next]_vars
  PROVE  AnswerInv'
  <1>1. CASE Cross \/ RefuseArrival
    BY <1>1 DEF Cross, RefuseArrival, AnswerInv
  <1>2. ASSUME NEW t \in Ordinary, AllowArrival(t) \/ OpenForRefused(t)
        PROVE  AnswerInv'
    BY <1>2, AnswerKept DEF NotBegun, AllowArrival, OpenForRefused, Transits
  <1>3. ASSUME NEW t \in Assisted, JudgeVend(t) \/ AcceptVend(t)
        PROVE  AnswerInv'
    BY <1>3, AnswerKept DEF NotBegun, JudgeVend, AcceptVend, Transits
  <1>4. ASSUME NEW t \in Transits, BeginTransit(t)
        PROVE  AnswerInv'
    <2>1. \A u \in Assisted : settle'[u] = IF u = t THEN "joining" ELSE settle[u]
      BY <1>4 DEF BeginTransit
    <2>2. \A u \in Transits : step'[u] = IF u = t THEN "begun" ELSE step[u]
      BY <1>4 DEF BeginTransit, TypeOK
    <2>3. step[t] = "vended" /\ UNCHANGED <<claim, outcome>>
      BY <1>4 DEF BeginTransit
    <2>4. QED BY <2>1, <2>2, <2>3 DEF AnswerInv, Transits, NotBegun
  <1>5. ASSUME NEW t \in Transits, SkipRead(t) \/ CountOut(t)
        PROVE  AnswerInv'
    BY <1>5, AnswerKept DEF NotBegun, SkipRead, CountOut
  <1>6. ASSUME NEW t \in Transits, CountIn(t)
        PROVE  AnswerInv'
    <2>1. step' = [step EXCEPT ![t] = "reading"] \/ step' = [step EXCEPT ![t] = "given"]
      BY <1>6 DEF CountIn
    <2>2. QED BY <1>6, <2>1, AnswerKept DEF NotBegun, CountIn
  <1>7. ASSUME NEW t \in Transits, DriverReturns(t) \/ DriverRaisesIn(t)
        PROVE  AnswerInv'
    BY <1>7, AnswerKept DEF NotBegun, DriverReturns, DriverRaisesIn
  <1>8. ASSUME NEW t \in Transits, TakeClaim(t)
        PROVE  AnswerInv'
    <2>1. CASE MayAnswer(t)
      <3>1. \A u \in Transits : claim'[u] = IF u = t THEN "worker" ELSE claim[u]
        BY <1>8, <2>1 DEF TakeClaim, TypeOK
      <3>2. \A u \in Transits : step'[u] = IF u = t THEN "claimed" ELSE step[u]
        BY <1>8, <2>1 DEF TakeClaim, TypeOK
      <3>3. claim[t] = "free" /\ UNCHANGED <<settle, outcome>>
        BY <1>8, <2>1 DEF TakeClaim, MayAnswer
      <3>4. QED BY <3>1, <3>2, <3>3, <1>8 DEF TakeClaim, AnswerInv, Transits, NotBegun
    <2>2. CASE ~MayAnswer(t)
      BY <1>8, <2>2, AnswerKept DEF NotBegun, TakeClaim
    <2>3. QED BY <2>1, <2>2
  <1>9. ASSUME NEW t \in Transits, AnswerTransit(t)
        PROVE  AnswerInv'
    <2>1. claim[t] = "worker"
      BY <1>9 DEF AnswerTransit, AnswerInv
    <2>2. \A u \in Transits : u # t => step'[u] = step[u] /\ outcome'[u] = outcome[u]
      BY <1>9 DEF AnswerTransit, TypeOK
    <2>3. step'[t] = "answered"
      BY <1>9 DEF AnswerTransit, TypeOK
    <2>4. UNCHANGED <<claim, settle>>
      BY <1>9 DEF AnswerTransit
    <2>5. QED BY <2>1, <2>2, <2>3, <2>4 DEF AnswerInv, Transits, NotBegun
  <1>10. ASSUME NEW t \in Assisted, DeadlineClaims(t)
         PROVE  AnswerInv'
    <2>1. \A u \in Transits : claim'[u] = IF u = t THEN "deadline" ELSE claim[u]
      BY <1>10 DEF DeadlineClaims, TypeOK
    <2>2. \A u \in Assisted : settle'[u] = IF u = t THEN "timing_out" ELSE settle[u]
      BY <1>10 DEF DeadlineClaims, TypeOK
    <2>3. claim[t] = "free" /\ UNCHANGED <<step, outcome>>
      BY <1>10 DEF DeadlineClaims
    <2>4. /\ step[t] \notin NotBegun \cup {"claimed", "answered"}
          /\ outcome[t] = "none"
      BY <1>10, <2>3 DEF AnswerInv, Transits, DeadlineClaims
    <2>5. QED BY <2>1, <2>2, <2>3, <2>4 DEF AnswerInv, Transits, NotBegun
  <1>11. ASSUME NEW t \in Assisted, DeadlineAnswers(t)
         PROVE  AnswerInv'
    BY <1>11 DEF DeadlineAnswers, TypeOK, Transits, AnswerInv, NotBegun
  <1>12. ASSUME NEW t \in Assisted, SettleJoined(t) \/ ReleaseRoute(t)
         PROVE  AnswerInv'
    BY <1>12 DEF SettleJoined, ReleaseRoute, TypeOK, AnswerInv
  <1>13. CASE PollClaims \/ PollReturns \/ PollRaises \/ PollHandsOver \/ PollKeeps
              \/ PollRecords
    BY <1>13
    DEF PollClaims, PollReturns, PollRaises, PollHandsOver, PollKeeps, PollRecords, AnswerInv
  <1>14. CASE UNCHANGED vars
    BY <1>14 DEF vars, AnswerInv
  <1>15. QED
    BY <1>1, <1>2, <1>3, <1>4, <1>5, <1>6, <1>7, <1>8, <1>9, <1>10, <1>11, <1>12, <1>13, <1>14,
       StepCases

\* What the poll knows of the board survives every step.
LEMMA PublishedStep ==
  ASSUME TypeOK, PublishedInv, LaneInv, [Next]_vars
  PROVE  PublishedInv'
  <1> USE DEF PublishedInv
  <1>1. CASE Cross \/ RefuseArrival
    BY <1>1 DEF Cross, RefuseArrival
  <1>2. ASSUME NEW t \in Ordinary, AllowArrival(t) \/ OpenForRefused(t)
        PROVE  PublishedInv'
    BY <1>2 DEF AllowArrival, OpenForRefused
  <1>3. ASSUME NEW t \in Assisted, JudgeVend(t) \/ AcceptVend(t)
        PROVE  PublishedInv'
    BY <1>3 DEF JudgeVend, AcceptVend
  <1>4. ASSUME NEW t \in Transits, BeginTransit(t)
        PROVE  PublishedInv'
    BY <1>4 DEF BeginTransit, Publish, TypeOK
  <1>5. ASSUME NEW t \in Transits, SkipRead(t) \/ CountIn(t) \/ DriverReturns(t) \/ CountOut(t)
        PROVE  PublishedInv'
    BY <1>5 DEF SkipRead, CountIn, DriverReturns, CountOut
  <1>6. ASSUME NEW t \in Transits, DriverRaisesIn(t) \/ TakeClaim(t)
        PROVE  PublishedInv'
    BY <1>6 DEF DriverRaisesIn, TakeClaim
  <1>7. ASSUME NEW t \in Transits, AnswerTransit(t)
        PROVE  PublishedInv'
    BY <1>7 DEF AnswerTransit, Publish, TypeOK
  <1>8. ASSUME NEW t \in Assisted, DeadlineAnswers(t)
        PROVE  PublishedInv'
    BY <1>8 DEF DeadlineAnswers, Publish, TypeOK
  <1>9. ASSUME NEW t \in Assisted, DeadlineClaims(t) \/ SettleJoined(t) \/ ReleaseRoute(t)
        PROVE  PublishedInv'
    BY <1>9 DEF DeadlineClaims, SettleJoined, ReleaseRoute
  <1>10. CASE PollClaims
    BY <1>10 DEF PollClaims, BoardClear, NothingPending, TypeOK
  <1>11. CASE PollReturns \/ PollRaises \/ PollHandsOver \/ PollKeeps \/ PollRecords
    BY <1>11
    DEF PollReturns, PollRaises, PollHandsOver, PollKeeps, PollRecords, ReleaseClaim
  <1>12. CASE UNCHANGED vars
    BY <1>12 DEF vars
  <1>13. QED
    BY <1>1, <1>2, <1>3, <1>4, <1>5, <1>6, <1>7, <1>8, <1>9, <1>10, <1>11, <1>12, StepCases

\* A step that moves no crossing keeps each where it is.
LEMMA CrossingKept ==
  ASSUME CrossingInv, UNCHANGED <<got, pollGot, taken, handed, unadmitted>>,
         \A u \in Transits : step'[u] \in Ungiven => step[u] \in Ungiven,
         \A u \in Transits : Confirmed(u)' => got[u].says = "confirms",
         laneTurn' \notin {"polled", "recording"} => pollGot = NoCrossing,
         laneTurn' = "recording" => laneTurn = "recording"
  PROVE  CrossingInv'
  BY DEF CrossingInv

\* A read that comes by a crossing nobody else holds keeps the others apart.
LEMMA CrossingGot ==
  ASSUME TypeOK, CrossingInv, NEW t \in Transits, NEW answer \in Answers, NEW to,
         step' = [step EXCEPT ![t] = to], to \notin Ungiven \cup {"answered"},
         got' = [got EXCEPT ![t] = answer],
         taken <= taken', taken' \in Nat, answer.number <= taken',
         answer.says # "nothing" => answer.number > 0,
         \/ answer.number = 0
         \/ /\ \A u \in Transits : answer.number # got[u].number
            /\ answer.number \notin unadmitted
            /\ answer.number # pollGot.number
            /\ \A h \in handed' : h.answer.number # answer.number,
         handed' \subseteq handed, UNCHANGED <<pollGot, unadmitted, laneTurn, outcome>>
  PROVE  CrossingInv'
  <1>1. \A u \in Transits : step'[u] = IF u = t THEN to ELSE step[u]
    BY DEF TypeOK
  <1>2. \A u \in Transits : got'[u] = IF u = t THEN answer ELSE got[u]
    BY DEF TypeOK
  <1>3. /\ \A u \in Transits : got[u].number \in Nat
        /\ taken \in Nat /\ answer.number \in Nat /\ pollGot.number \in Nat
    BY AnswerType, BoardAssumption DEF TypeOK
  <1>4. 0 \notin unadmitted
    BY <1>3 DEF CrossingInv
  <1>5. \A u \in Transits :
          /\ got'[u].number <= taken'
          /\ got'[u].says # "nothing" => got'[u].number > 0
          /\ step'[u] \in Ungiven => got'[u] = NoCrossing
          /\ got'[u].number \notin unadmitted
          /\ got'[u].number > 0 => got'[u].number # pollGot.number
          /\ Confirmed(u)' => got'[u].says = "confirms"
    <2> TAKE u \in Transits
    <2>1. CASE u = t
      BY <1>1, <1>2, <1>3, <1>4, <2>1 DEF Confirmed
    <2>2. CASE u # t
      BY <1>1, <1>2, <1>3, <2>2 DEF Confirmed, CrossingInv
    <2>3. QED BY <2>1, <2>2
  <1>6. \A u, w \in Transits :
          got'[u].number > 0 /\ got'[u].number = got'[w].number => u = w
    BY <1>2, <1>3 DEF CrossingInv
  <1>7. \A h \in handed' :
          /\ h.answer.number \in 1..taken'
          /\ h.answer.number \notin unadmitted
          /\ h.answer.number # pollGot.number
          /\ \A u \in Transits : h.answer.number # got'[u].number
    BY <1>2, <1>3 DEF CrossingInv
  <1>8. pollGot.number <= taken' /\ \A n \in unadmitted : n \in 1..taken'
    BY <1>3 DEF CrossingInv
  <1>9. QED BY <1>5, <1>6, <1>7, <1>8 DEF CrossingInv

\* The steps of the doors and of the settle threads move no crossing.
LEMMA CrossingDoors ==
  ASSUME TypeOK, CrossingInv, AnswerInv
  PROVE  /\ Cross \/ RefuseArrival => CrossingInv'
         /\ \A t \in Ordinary : AllowArrival(t) \/ OpenForRefused(t) => CrossingInv'
         /\ \A t \in Assisted : JudgeVend(t) \/ AcceptVend(t) => CrossingInv'
         /\ \A t \in Transits : BeginTransit(t) => CrossingInv'
         /\ \A t \in Assisted : DeadlineClaims(t) \/ SettleJoined(t) \/ ReleaseRoute(t) => CrossingInv'
         /\ \A t \in Assisted : DeadlineAnswers(t) => CrossingInv'
         /\ UNCHANGED vars => CrossingInv'
  <1>1. Cross \/ RefuseArrival => CrossingInv'
    BY CrossingKept DEF Cross, RefuseArrival, CrossingInv, Confirmed
  <1>2. ASSUME NEW t \in Transits, NEW to \in Ungiven \cup {"claimed"},
               step' = [step EXCEPT ![t] = to], step[t] \in Ungiven,
               UNCHANGED <<got, pollGot, taken, handed, unadmitted, outcome>>,
               laneTurn' = laneTurn \/ (laneTurn = "idle" /\ laneTurn' = "serving")
        PROVE  CrossingInv'
    <2>1. \A u \in Transits : step'[u] = IF u = t THEN to ELSE step[u]
      BY <1>2 DEF TypeOK
    <2>2. \A u \in Transits : Confirmed(u)' => Confirmed(u)
      BY <1>2, <2>1 DEF Confirmed, Ungiven
    <2>3. QED BY <1>2, <2>1, <2>2, CrossingKept DEF CrossingInv
  <1>3. ASSUME NEW t \in Ordinary, AllowArrival(t) \/ OpenForRefused(t) PROVE CrossingInv'
    BY <1>2, <1>3 DEF AllowArrival, OpenForRefused, Ungiven, Transits
  <1>4. ASSUME NEW t \in Assisted, JudgeVend(t) \/ AcceptVend(t) PROVE CrossingInv'
    BY <1>2, <1>4 DEF JudgeVend, AcceptVend, Ungiven, Transits
  <1>5. ASSUME NEW t \in Transits, BeginTransit(t) PROVE CrossingInv'
    BY <1>2, <1>5 DEF BeginTransit, Ungiven
  <1>6. ASSUME NEW t \in Assisted, DeadlineClaims(t) \/ SettleJoined(t) \/ ReleaseRoute(t)
        PROVE  CrossingInv'
    BY <1>6, CrossingKept
    DEF DeadlineClaims, SettleJoined, ReleaseRoute, CrossingInv, Confirmed
  <1>7. ASSUME NEW t \in Assisted, DeadlineAnswers(t) PROVE CrossingInv'
    <2>1. \A u \in Transits : Confirmed(u)' => Confirmed(u)
      BY <1>7 DEF DeadlineAnswers, Confirmed, TypeOK
    <2>2. QED BY <1>7, <2>1, CrossingKept DEF DeadlineAnswers, CrossingInv
  <1>8. UNCHANGED vars => CrossingInv'
    BY CrossingKept DEF vars, CrossingInv, Confirmed
  <1>9. QED BY <1>1, <1>3, <1>4, <1>5, <1>6, <1>7, <1>8

\* A reading thread that gets no crossing leaves each where it is.
LEMMA CrossingReader ==
  ASSUME TypeOK, CrossingInv, LaneInv, NEW t \in Transits,
         SkipRead(t) \/ CountOut(t) \/ DriverRaisesIn(t) \/ TakeClaim(t) \/ AnswerTransit(t)
  PROVE  CrossingInv'
  <1>1. ASSUME NEW to \in {"read", "dead", "claimed", "dropped", "answered"},
               step' = [step EXCEPT ![t] = to],
               to = "answered" /\ outcome'[t] = "confirmed" => got[t].says = "confirms",
               \A u \in Transits : u # t => outcome'[u] = outcome[u],
               UNCHANGED <<got, pollGot, taken, handed, unadmitted>>,
               laneTurn' = laneTurn \/ (laneTurn = "serving" /\ laneTurn' = "idle")
        PROVE  CrossingInv'
    <2>1. \A u \in Transits : step'[u] = IF u = t THEN to ELSE step[u]
      BY <1>1 DEF TypeOK
    <2>2. \A u \in Transits : Confirmed(u)' => got[u].says = "confirms"
      BY <1>1, <2>1 DEF Confirmed, CrossingInv
    <2>3. \A u \in Transits : step'[u] \in Ungiven => step[u] \in Ungiven
      BY <1>1, <2>1 DEF Ungiven
    <2>4. /\ laneTurn' \notin {"polled", "recording"} => pollGot = NoCrossing
          /\ laneTurn' = "recording" => laneTurn = "recording"
      BY <1>1 DEF CrossingInv
    <2>5. QED BY <1>1, <2>2, <2>3, <2>4, CrossingKept
  <1>2. CASE SkipRead(t)
    BY <1>1, <1>2 DEF SkipRead
  <1>3. CASE CountOut(t)
    BY <1>1, <1>3 DEF CountOut
  <1>4. CASE DriverRaisesIn(t)
    <2>1. laneTurn' = laneTurn \/ (laneTurn = "serving" /\ laneTurn' = "idle")
      BY <1>4 DEF DriverRaisesIn, LaneInv, Active, Counted
    <2>2. QED BY <1>1, <1>4, <2>1 DEF DriverRaisesIn
  <1>5. CASE TakeClaim(t)
    <2>1. step' = [step EXCEPT ![t] = "claimed"] \/ step' = [step EXCEPT ![t] = "dropped"]
      BY <1>5 DEF TakeClaim
    <2>2. QED BY <1>1, <1>5, <2>1 DEF TakeClaim
  <1>6. CASE AnswerTransit(t)
    <2>1. PICK inWindow \in BOOLEAN : outcome' = [outcome EXCEPT ![t] = ResultOf(got[t], inWindow)]
      BY <1>6 DEF AnswerTransit
    <2>2. outcome'[t] = "confirmed" => got[t].says = "confirms"
      BY <2>1, ResultType DEF TypeOK
    <2>3. \A u \in Transits : u # t => outcome'[u] = outcome[u]
      BY <2>1 DEF TypeOK
    <2>4. laneTurn' = laneTurn \/ (laneTurn = "serving" /\ laneTurn' = "idle")
      BY <1>6 DEF AnswerTransit, LaneInv, Active
    <2>5. QED BY <1>1, <1>6, <2>2, <2>3, <2>4 DEF AnswerTransit
  <1>7. QED BY <1>2, <1>3, <1>4, <1>5, <1>6

\* The poll moves its crossing to the record or to the slot, never to both.
LEMMA CrossingPoll ==
  ASSUME TypeOK, CrossingInv, PollNext
  PROVE  CrossingInv'
  <1>1. /\ \A u \in Transits : got[u].number \in Nat
        /\ taken \in Nat /\ pollGot.number \in Nat
        /\ \A h \in handed : h.answer.number \in Nat
    BY AnswerType, BoardAssumption DEF TypeOK, Slots
  <1>2. CASE PollClaims \/ PollRaises
    BY <1>2, CrossingKept DEF PollClaims, PollRaises, CrossingInv, Confirmed
  <1>3. CASE PollReturns
    <2>1. PICK answer \in Answers : DriverAnswers(answer) /\ pollGot' = answer
      BY <1>3 DEF PollReturns
    <2>2. UNCHANGED <<step, got, handed, unadmitted, outcome>> /\ laneTurn' = "polled"
      BY <1>3 DEF PollReturns
    <2>3. CASE answer.number = taken + 1 /\ taken' = taken + 1
      BY <1>1, <2>1, <2>2, <2>3 DEF CrossingInv, Confirmed
    <2>4. CASE answer = NoCrossing /\ UNCHANGED taken
      BY <1>1, <2>1, <2>2, <2>4 DEF CrossingInv, Confirmed, NoCrossing
    <2>5. QED BY <2>1, <2>3, <2>4 DEF DriverAnswers
  <1>4. CASE PollHandsOver
    <2>1. pollGot.number \in 1..taken
      BY <1>1, <1>4 DEF PollHandsOver, CrossingInv
    <2>2. \A h \in handed' : h.answer = pollGot
      BY <1>4 DEF PollHandsOver
    <2>3. /\ laneTurn' = "idle" /\ pollGot' = NoCrossing
          /\ NoCrossing.number = 0 /\ NoCrossing.says = "nothing"
      BY <1>4 DEF PollHandsOver, ReleaseClaim, LeftToRecord, NoCrossing
    <2>4. UNCHANGED <<step, got, taken, unadmitted, outcome>>
      BY <1>4 DEF PollHandsOver
    <2>5. QED BY <1>1, <2>1, <2>2, <2>3, <2>4 DEF CrossingInv, Confirmed
  <1>5. CASE PollKeeps
    <2>1. UNCHANGED <<step, got, taken, handed, unadmitted, outcome>>
      BY <1>5 DEF PollKeeps
    <2>2. CASE laneTurn' = "recording" /\ pollGot' = pollGot /\ pollGot.says = "confirms"
      BY <1>1, <2>1, <2>2 DEF CrossingInv, Confirmed
    <2>3. CASE laneTurn' = "idle" /\ pollGot' = NoCrossing
      BY <1>1, <2>1, <2>3 DEF CrossingInv, Confirmed, NoCrossing
    <2>4. QED BY <1>5, <2>2, <2>3 DEF PollKeeps, ReleaseClaim, LeftToRecord
  <1>6. CASE PollRecords
    <2>1. /\ unadmitted' = unadmitted \cup {pollGot.number}
          /\ pollGot.number \in 1..taken
      BY <1>6 DEF PollRecords, CrossingInv
    <2>2. /\ laneTurn' = "idle" /\ pollGot' = NoCrossing
          /\ NoCrossing.number = 0 /\ NoCrossing.says = "nothing"
      BY <1>6 DEF PollRecords, NoCrossing
    <2>3. UNCHANGED <<step, got, taken, handed, outcome>>
      BY <1>6 DEF PollRecords
    <2>4. QED BY <1>1, <2>1, <2>2, <2>3 DEF CrossingInv, Confirmed
  <1>7. QED BY <1>2, <1>3, <1>4, <1>5, <1>6 DEF PollNext

\* Every step keeps each reported crossing in one place.
LEMMA CrossingStep ==
  ASSUME TypeOK, CrossingInv, LaneInv, AnswerInv, [Next]_vars
  PROVE  CrossingInv'
  <1>1. ASSUME NEW t \in Transits, CountIn(t)
        PROVE  CrossingInv'
    <2>1. CASE step' = [step EXCEPT ![t] = "reading"] /\ UNCHANGED <<handed, got>>
      <3>1. \A u \in Transits : step'[u] = IF u = t THEN "reading" ELSE step[u]
        BY <2>1 DEF TypeOK
      <3>2. step[t] = "begun" /\ UNCHANGED <<pollGot, taken, unadmitted, outcome, laneTurn>>
        BY <1>1 DEF CountIn
      <3>3. \A u \in Transits : Confirmed(u)' => got[u].says = "confirms"
        BY <3>1, <3>2 DEF Confirmed, CrossingInv
      <3>4. QED BY <2>1, <3>1, <3>2, <3>3, CrossingKept DEF CrossingInv, Ungiven
    <2>2. ASSUME NEW h \in HandedTo(t), step' = [step EXCEPT ![t] = "given"],
                 got' = [got EXCEPT ![t] = h.answer], handed' = {}
          PROVE  CrossingInv'
      <3>1. h \in handed /\ h.answer \in Answers
        BY DEF HandedTo, TypeOK, Slots
      <3>2. taken' = taken /\ taken \in Nat /\ h.answer.number \in 1..taken
        BY <1>1, <3>1, BoardAssumption DEF CountIn, CrossingInv, TypeOK
      <3>3. /\ \A u \in Transits : h.answer.number # got[u].number
            /\ h.answer.number \notin unadmitted
            /\ h.answer.number # pollGot.number
        BY <3>1 DEF CrossingInv
      <3>4. UNCHANGED <<pollGot, unadmitted, laneTurn, outcome>>
        BY <1>1 DEF CountIn
      <3>5. "given" \notin Ungiven \cup {"answered"}
        BY DEF Ungiven
      <3>6. /\ taken <= taken' /\ taken' \in Nat /\ h.answer.number <= taken'
            /\ h.answer.number > 0 /\ handed' \subseteq handed
        BY <2>2, <3>2
      <3>7. QED BY <2>2, <3>1, <3>3, <3>4, <3>5, <3>6, CrossingGot
    <2>3. QED BY <1>1, <2>1, <2>2 DEF CountIn
  <1>2. ASSUME NEW t \in Transits, DriverReturns(t)
        PROVE  CrossingInv'
    <2>1. PICK answer \in Answers : DriverAnswers(answer) /\ got' = [got EXCEPT ![t] = answer]
      BY <1>2 DEF DriverReturns
    <2>2. /\ step' = [step EXCEPT ![t] = "read"] /\ "read" \notin Ungiven \cup {"answered"}
          /\ UNCHANGED <<pollGot, unadmitted, laneTurn, outcome, handed>>
      BY <1>2 DEF DriverReturns, Ungiven
    <2>3. taken \in Nat
      BY BoardAssumption DEF TypeOK
    <2>4. CASE answer.number = taken + 1 /\ taken' = taken + 1
      <3>1. /\ \A u \in Transits : got[u].number < answer.number
            /\ pollGot.number < answer.number
            /\ \A n \in unadmitted : n < answer.number
            /\ \A h \in handed : h.answer.number < answer.number
        <4>1. /\ \A u \in Transits : got[u].number \in Nat
              /\ pollGot.number \in Nat
          BY AnswerType DEF TypeOK
        <4>2. QED BY <2>3, <2>4, <4>1 DEF CrossingInv
      <3>2. taken <= taken' /\ taken' \in Nat /\ answer.number <= taken' /\ answer.number > 0
        BY <2>3, <2>4
      <3>3. /\ \A u \in Transits : answer.number # got[u].number
            /\ answer.number \notin unadmitted
            /\ answer.number # pollGot.number
            /\ \A h \in handed' : h.answer.number # answer.number
        BY <2>2, <2>3, <2>4, <3>1
      <3>4. handed' \subseteq handed
        BY <2>2
      <3>5. QED BY <2>1, <2>2, <3>2, <3>3, <3>4, CrossingGot
    <2>5. CASE answer = NoCrossing /\ UNCHANGED taken
      <3>1. /\ answer.number = 0 /\ answer.says = "nothing"
            /\ taken <= taken' /\ taken' \in Nat /\ answer.number <= taken'
            /\ handed' \subseteq handed
        BY <2>2, <2>3, <2>5 DEF NoCrossing
      <3>2. QED BY <2>1, <2>2, <3>1, CrossingGot
    <2>6. QED BY <2>1, <2>4, <2>5 DEF DriverAnswers
  <1>3. ASSUME NEW t \in Transits,
               SkipRead(t) \/ CountOut(t) \/ DriverRaisesIn(t) \/ TakeClaim(t) \/ AnswerTransit(t)
        PROVE  CrossingInv'
    BY <1>3, CrossingReader
  <1>4. CASE PollNext
    BY <1>4, CrossingPoll
  <1>5. QED BY <1>1, <1>2, <1>3, <1>4, CrossingDoors, StepCases DEF PollNext

------------------------------------------------------------------------------
\* The parts hold together at the start and after every step.
LEMMA Inductive == Spec => []Inv
  <1>1. Init => Inv
    <2> SUFFICES ASSUME Init PROVE Inv
      OBVIOUS
    <2>1. ClaimInv
      <3>1. Reading = {}
        BY DEF Init, Reading, Counted
      <3>2. QED BY <3>1, FS_EmptySet DEF Init, ClaimInv
    <2>2. LaneInv
      BY DEF Init, LaneInv, Active, Counted, Transits
    <2>3. AnswerInv
      BY DEF Init, AnswerInv, Transits
    <2>4. CrossingInv
      BY DEF Init, CrossingInv, Confirmed, NoCrossing
    <2>5. PublishedInv
      BY DEF Init, PublishedInv
    <2>6. QED BY <2>1, <2>2, <2>3, <2>4, <2>5, TypeInit DEF Inv
  <1>2. Inv /\ [Next]_vars => Inv'
    <2> SUFFICES ASSUME Inv, [Next]_vars PROVE Inv'
      OBVIOUS
    <2>1. TypeOK'
      BY ReadsFinite, TypeStep DEF Inv
    <2>2. QED
      BY <2>1, ClaimStep, LaneStep, AnswerStep, CrossingStep, PublishedStep DEF Inv
  <1>3. QED BY <1>1, <1>2, PTL DEF Spec

\* Whatever the threads and the driver do, every variable keeps its type: the
\* count of reads never goes below zero, and nothing is counted out twice.
THEOREM TypeCorrect == Spec => []TypeOK
  <1>1. Inv => TypeOK
    BY DEF Inv
  <1>2. QED BY <1>1, Inductive, PTL

\* The idle poll and a vend's read are never inside the loop driver together,
\* for any number of vends of either door and any number of abandoned workers.
THEOREM PollExcludesReads == Spec => []ReadsNeverOverlap
  <1>1. Inv => ReadsNeverOverlap
    BY DEF Inv, ClaimInv, Reading, ReadsNeverOverlap
  <1>2. QED BY <1>1, Inductive, PTL

\* A crossing the loops completed is recorded once at most, and a confirmed
\* session has one behind it.
THEOREM CountIsRight == Spec => []CrossingRecordedOnce
  <1>1. Inv => CrossingRecordedOnce
    <2> SUFFICES ASSUME Inv PROVE CrossingRecordedOnce
      OBVIOUS
    <2>1. \A t \in Transits : Confirmed(t) => got[t].number > 0 /\ got[t].number \notin unadmitted
      BY DEF Inv, CrossingInv
    <2>2. QED BY <2>1 DEF Inv, CrossingInv, CrossingRecordedOnce
  <1>2. QED BY <1>1, Inductive, PTL

\* Once a transit is answered, nothing writes its outcome or its session again:
\* the claim was taken, and a worker that comes back after its deadline drops
\* what it saw.
THEOREM OneOutcomePerTransit == Spec => OneOutcome
  <1>1. ASSUME Inv, [Next]_vars, NEW t \in Transits, outcome[t] # "none"
        PROVE  UNCHANGED <<outcome[t], session[t]>>
    <2>1. ASSUME NEW u \in Transits, AnswerTransit(u)
          PROVE  UNCHANGED <<outcome[t], session[t]>>
      <3>1. t # u
        BY <1>1, <2>1 DEF Inv, AnswerInv, AnswerTransit
      <3>2. QED BY <2>1, <3>1 DEF AnswerTransit, Inv, TypeOK
    <2>2. ASSUME NEW u \in Assisted, DeadlineAnswers(u)
          PROVE  UNCHANGED <<outcome[t], session[t]>>
      <3>1. t # u
        BY <1>1, <2>2 DEF Inv, AnswerInv, DeadlineAnswers
      <3>2. QED BY <2>2, <3>1 DEF DeadlineAnswers, Inv, TypeOK
    <2>3. CASE UNCHANGED recordVars
      BY <2>3
    <2>4. UNCHANGED recordVars \/ (\E u \in Transits : AnswerTransit(u))
            \/ (\E u \in Assisted : DeadlineAnswers(u))
      BY <1>1, StepCases
      DEF Cross, RefuseArrival, AllowArrival, OpenForRefused, JudgeVend, AcceptVend, BeginTransit,
          SkipRead, CountIn, DriverReturns, CountOut, DriverRaisesIn, TakeClaim, DeadlineClaims,
          SettleJoined, ReleaseRoute, PollClaims, PollReturns, PollRaises, PollHandsOver, PollKeeps,
          PollRecords, vars
    <2>5. QED BY <2>1, <2>2, <2>3, <2>4
  <1>2. Inv /\ [Next]_vars =>
          [\A t \in Transits : outcome[t] # "none" => UNCHANGED <<outcome[t], session[t]>>]_vars
    BY <1>1
  <1>3. QED BY <1>2, Inductive, PTL DEF Spec, OneOutcome

\* No poll takes a crossing for an unadmitted one while the published transit is
\* pending: one that claimed before it was published has seen the publication.
THEOREM PendingHoldsThePollOff == Spec => NoUnadmittedWhilePending
  <1>1. ASSUME Inv, [Next]_vars, PollTakesUnadmitted
        PROVE  transitState # "pending"
    <2>1. laneTurn = "polled" /\ laneTurn' = "recording"
      BY <1>1 DEF PollTakesUnadmitted
    <2>2. PollHandsOver \/ PollKeeps
      BY <1>1, <2>1, StepCases
      DEF Cross, RefuseArrival, AllowArrival, OpenForRefused, JudgeVend, AcceptVend, BeginTransit,
          SkipRead, CountIn, DriverReturns, CountOut, DriverRaisesIn, TakeClaim, AnswerTransit,
          DeadlineClaims, DeadlineAnswers, SettleJoined, ReleaseRoute, PollClaims, PollReturns,
          PollRaises, PollRecords, vars
    <2>3. PollKeeps /\ pollGot.says = "confirms"
      BY <2>1, <2>2 DEF PollHandsOver, PollKeeps, ReleaseClaim, LeftToRecord
    <2>4. published = claimedAt
      BY <2>3 DEF PollKeeps, VendBegan
    <2>5. QED BY <1>1, <2>1, <2>4 DEF Inv, PublishedInv
  <1>2. Inv /\ [Next]_vars => [PollTakesUnadmitted => transitState # "pending"]_vars
    BY <1>1
  <1>3. QED BY <1>2, Inductive, PTL DEF Spec, NoUnadmittedWhilePending
==============================================================================

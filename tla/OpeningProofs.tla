--------------------------- MODULE OpeningProofs ---------------------------
(***************************************************************************)
(* What holds of the opening of the barrier for any calls, keys, QRs and   *)
(* number of arrivals: a case ends once, a decision is claimed once, the   *)
(* lane opens only for the car at the lane, and a key vends once.          *)
(*                                                                         *)
(* None of it is inductive alone.  That the lane lets out only who nobody  *)
(* claimed needs that a case is still waiting only while its decision is   *)
(* unclaimed (ClaimInv); that a case ends once, that the cars to come have *)
(* none ended (EndInv); that its car is the one at the lane, where the     *)
(* lane thread has got to (CaseInv); and that a key vends once, that a     *)
(* call holds the route from its check of the key to its answer (RouteInv).*)
(***************************************************************************)
EXTENDS Opening, FiniteSetTheorems, TLAPS

\* A set of at most one element.
Alone(S) == \A x, y \in S : x = y

\* The type invariant, without what it counts.
TypeInv ==
  /\ direction \in {"entry", "exit"}
  /\ lane \in LaneSteps
  /\ arriving \in Verdicts
  /\ laneCase \subseteq Cases
  /\ scanned \subseteq QRs
  /\ last \in [number : Decisions, verdict : Verdicts]
  /\ completed \in BOOLEAN
  /\ exitCase \subseteq Cases
  /\ qrUsed \subseteq QRs
  /\ qrWaiting \subseteq QRs
  /\ inProgress \in BOOLEAN
  /\ held \subseteq Keys
  /\ call \in [Calls -> CallSteps]
  /\ request \in [Calls -> SUBSET Requests]
  /\ ended \in [Decisions -> SUBSET (Calls \cup {"lane", "left"})]
  /\ claimants \subseteq Calls \cup {"lane", "qr"}

\* The decision a waiting case is of: the next, while it is not published.
Current == IF lane = "deciding" THEN last.number + 1 ELSE last.number

\* Where the lane thread is says whose case is waiting, and whose it has in hand.
CaseInv ==
  /\ Alone(exitCase) /\ Alone(laneCase)
  /\ laneCase # {} <=> lane \in {"stepping", "opening", "asking"}
  /\ lane \in {"settling", "deciding"} => last.number < MaxDecisions
  /\ lane = "settling" => exitCase = {}
  /\ \A k \in exitCase : k.car = Current
  /\ \A k \in laneCase : k.car = last.number

\* A case that waits has not ended, and none of a car to come has.
EndInv ==
  /\ \A k \in exitCase : ended[k.car] = {}
  /\ \A n \in Decisions : n > Current => ended[n] = {}
  /\ \A n \in Decisions : Alone(ended[n])

\* A case was asked again for QRs that acted on it, each once.
AskInv ==
  /\ \A k \in exitCase : k.ask <= Cardinality(qrUsed)
  /\ lane \in {"scanning", "covered", "asking"} => scanned # {}
  /\ lane = "asking" => scanned \cap qrUsed = {}

\* A decision claimed is completed, and its case waits no more.
ClaimInv ==
  /\ claimants \ {"qr"} # {} => completed
  /\ exitCase # {} /\ lane \notin {"settling", "deciding", "published"} => claimants \subseteq {"qr"}
  /\ Alone(claimants \ {"qr"})

\* One call at a time has the route, and of the calls that had it no two carry
\* one key: a key is held from the first's answer.
HasRoute == {"waiting", "claimed", "opened", "consumed", "answered"}
RouteInv ==
  /\ \A c \in Calls : call[c] \in HasRoute => inProgress
  /\ \A c, d \in Calls : call[c] \in HasRoute /\ call[d] \in HasRoute => c = d
  /\ \A c \in Calls : \A r \in request[c] :
       /\ call[c] \in {"answered", "done"} => r.key \in held
       /\ call[c] \in HasRoute \ {"answered"} => r.key \notin held
  /\ \A c, d \in Calls :
       call[c] \in HasRoute \cup {"done"} /\ call[d] \in HasRoute \cup {"done"} /\ c # d =>
         \A r \in request[c], s \in request[d] : r.key # s.key

Inv == TypeInv /\ CaseInv /\ EndInv /\ AskInv /\ ClaimInv /\ RouteInv

USE OpeningAssumption

------------------------------------------------------------------------------
\* What a set of at most one element counts.
LEMMA AloneCounts ==
  ASSUME NEW S, Alone(S)
  PROVE  IsFiniteSet(S) /\ Cardinality(S) \in 0..1
<1>1. CASE S = {}
  BY <1>1, FS_EmptySet
<1>2. CASE S # {}
  <2>1. PICK x \in S : TRUE
    BY <1>2
  <2>2. S = {x}
    BY <2>1 DEF Alone
  <2>3. QED BY <2>2, FS_Singleton
<1>3. QED BY <1>1, <1>2

\* The QRs that acted on the case are at most all, and count one more with another.
LEMMA UsedCounts ==
  ASSUME TypeInv
  PROVE  /\ IsFiniteSet(qrUsed) /\ Cardinality(qrUsed) \in Nat
         /\ \A used \in SUBSET QRs : qrUsed \subseteq used =>
              /\ Cardinality(used) \in Nat /\ Cardinality(qrUsed) <= Cardinality(used)
              /\ Cardinality(used) <= Cardinality(QRs)
              /\ used # qrUsed => Cardinality(qrUsed) + 1 <= Cardinality(used)
<1>1. \A used \in SUBSET QRs : IsFiniteSet(used) /\ Cardinality(used) \in Nat
                               /\ Cardinality(used) <= Cardinality(QRs)
  BY FS_Subset, FS_CardinalityType
<1>2. ASSUME NEW used \in SUBSET QRs, qrUsed \subseteq used
      PROVE  /\ Cardinality(qrUsed) <= Cardinality(used)
             /\ used # qrUsed => Cardinality(qrUsed) < Cardinality(used)
  BY <1>1, <1>2, FS_Subset DEF TypeInv
<1>3. QED BY <1>1, <1>2, FS_CardinalityType DEF TypeInv

LEMMA Initially == Init => Inv
<1>1. SUFFICES ASSUME Init PROVE Inv
  OBVIOUS
<1>2. TypeInv
  <2>1. NoVerdict \in Verdicts
    BY DEF NoVerdict, Verdicts, Outcomes
  <2>2. /\ arriving \in Verdicts
        /\ last \in [number : Decisions, verdict : Verdicts]
    BY <1>1, <2>1 DEF Init, Decisions
  <2>3. /\ call \in [Calls -> CallSteps]
        /\ request \in [Calls -> SUBSET Requests]
        /\ ended \in [Decisions -> SUBSET (Calls \cup {"lane", "left"})]
    BY <1>1 DEF Init, CallSteps
  <2>4. QED BY <1>1, <2>2, <2>3 DEF Init, TypeInv, LaneSteps
<1>3. CaseInv /\ EndInv /\ AskInv /\ ClaimInv
  BY <1>1 DEF Init, CaseInv, EndInv, AskInv, ClaimInv, Alone, Decisions
<1>4. RouteInv
  BY <1>1 DEF Init, RouteInv, HasRoute
<1>5. QED BY <1>2, <1>3, <1>4 DEF Inv

\* Ending a case keeps what has ended in its type.
LEMMA EndedType ==
  ASSUME TypeInv, NEW cases, NEW who \in Calls \cup {"lane", "left"}
  PROVE  Ended(cases, who) \in [Decisions -> SUBSET (Calls \cup {"lane", "left"})]
BY DEF Ended, TypeInv

LEMMA TypeStep ==
  ASSUME Inv, [Next]_vars
  PROVE  TypeInv'
<1> USE DEF TypeInv, vars, laneVars, caseVars, routeVars, history
<1>1. CASE Arrive
  <2>1. ended' \in [Decisions -> SUBSET (Calls \cup {"lane", "left"})]
    BY <1>1, EndedType DEF Arrive, Inv
  <2>2. QED BY <1>1, <2>1 DEF Arrive, Inv, Dropped, LaneSteps
<1>2. CASE Settle
  <2>1. CASE UNCHANGED caseVars
    BY <1>2, <2>1 DEF Settle, Inv, LaneSteps
  <2>2. CASE exitCase' = {[car |-> last.number + 1, ask |-> 0]} /\ qrUsed' = {} /\ qrWaiting' = {}
    <3>1. Cardinality(QRs) \in Nat /\ last.number + 1 \in Decisions
      BY <1>2, FS_CardinalityType DEF Settle, Inv, CaseInv, Decisions
    <3>2. exitCase' \subseteq Cases
      BY <2>2, <3>1 DEF Cases
    <3>3. QED BY <1>2, <2>2, <3>2 DEF Settle, Inv, LaneSteps
  <2>3. QED BY <1>2, <2>1, <2>2 DEF Settle
<1>3. CASE Publish
  <2>1. last' \in [number : Decisions, verdict : Verdicts]
    BY <1>3 DEF Publish, Inv, CaseInv, Decisions
  <2>2. QED BY <1>3, <2>1 DEF Publish, Inv, LaneSteps
<1>4. CASE Reset \/ Admit
  <2>1. NoVerdict \in Verdicts
    BY DEF NoVerdict, Verdicts, Outcomes
  <2>2. QED BY <1>4, <2>1 DEF Reset, Admit, Inv, LaneSteps
<1>5. CASE Leave
  <2>1. ended' \in [Decisions -> SUBSET (Calls \cup {"lane", "left"})]
    BY <1>5, EndedType DEF Leave, Inv
  <2>2. QED BY <1>5, <2>1 DEF Leave, Inv
<1>6. CASE StepCase \/ CaseWaits \/ OpenForCase
  BY <1>6 DEF StepCase, CaseWaits, OpenForCase, Inv, LaneSteps
<1>7. CASE LetOut
  <2>1. ended' \in [Decisions -> SUBSET (Calls \cup {"lane", "left"})]
    BY <1>7, EndedType DEF LetOut, Inv
  <2>2. QED BY <1>7, <2>1 DEF LetOut, Inv, LaneSteps
<1>8. ASSUME NEW q \in QRs, ScanQr(q)
      PROVE  TypeInv'
  BY <1>8 DEF ScanQr, Inv, LaneSteps
<1>9. CASE QrFails \/ QrCovered \/ QrOpens \/ QrConsumes
  BY <1>9 DEF QrFails, QrCovered, QrOpens, QrConsumes, Inv, LaneSteps
<1>10. CASE NoCaseToAsk \/ TellCovered \/ AskAgain
  BY <1>10 DEF NoCaseToAsk, TellCovered, AskAgain, Inv, LaneSteps
<1>11. CASE AskedAgain
  <2>1. CASE exitCase = laneCase
    <3>1. scanned # {} /\ qrUsed \cup scanned \in SUBSET QRs /\ qrUsed \cup scanned # qrUsed
      BY <1>11 DEF AskedAgain, Inv, AskInv
    <3>2. Cardinality(qrUsed) + 1 <= Cardinality(QRs) /\ Cardinality(qrUsed) \in Nat /\ Cardinality(QRs) \in Nat
      <4>1. Cardinality(qrUsed \cup scanned) \in Nat /\ Cardinality(qrUsed) + 1 <= Cardinality(qrUsed \cup scanned)
            /\ Cardinality(qrUsed \cup scanned) <= Cardinality(QRs)
        BY <3>1, UsedCounts DEF Inv
      <4>2. QED BY <4>1, UsedCounts, FS_CardinalityType DEF Inv
    <3>3. exitCase' \subseteq Cases
      <4>1. ASSUME NEW k \in laneCase
            PROVE  Again(k) \in Cases
        <5>1. k \in Cases /\ k.ask <= Cardinality(qrUsed)
          BY <2>1, <4>1 DEF Inv, AskInv
        <5>2. k.ask + 1 \in 0..Cardinality(QRs)
          BY <5>1, <3>2 DEF Cases
        <5>3. QED BY <5>1, <5>2 DEF Cases, Again
      <4>2. QED BY <1>11, <2>1, <4>1 DEF AskedAgain
    <3>4. QED BY <1>11, <2>1, <3>1, <3>3 DEF AskedAgain, Inv, LaneSteps
  <2>2. CASE exitCase # laneCase
    BY <1>11, <2>2 DEF AskedAgain, Inv, LaneSteps
  <2>3. QED BY <2>1, <2>2
<1>12. CASE AskFails
  BY <1>12 DEF AskFails, Inv, LaneSteps
<1>13. ASSUME NEW c \in Calls, Present(c)
       PROVE  TypeInv'
  <2>1. PICK authority \in Authorities, key \in Keys :
          /\ request' = [request EXCEPT ![c] =
               {[decision |-> last.number, authority |-> authority, key |-> key]}]
          /\ call' = [call EXCEPT ![c] = IF key \in held THEN "replayed" ELSE "named"]
    BY <1>13 DEF Present
  <2>2. {[decision |-> last.number, authority |-> authority, key |-> key]} \in SUBSET Requests
    BY DEF Requests, Inv
  <2>3. request' \in [Calls -> SUBSET Requests] /\ call' \in [Calls -> CallSteps]
    BY <2>1, <2>2 DEF CallSteps, Inv
  <2>4. QED BY <1>13, <2>3 DEF Present, Inv
<1>14. ASSUME NEW c \in Calls, Judge(c) \/ RefuseCall(c) \/ TakeLane(c) \/ ClaimRefused(c) \/ Open(c)
                                \/ RelayFails(c) \/ Consume(c) \/ Release(c)
       PROVE  TypeInv'
  <2>1. call' \in [Calls -> CallSteps]
    BY <1>14 DEF Judge, RefuseCall, TakeLane, ClaimRefused, Open, RelayFails, Consume, Release, CallSteps, Inv
  <2>2. QED
    BY <1>14, <2>1 DEF Judge, RefuseCall, TakeLane, ClaimRefused, Open, RelayFails, Consume, Release, Inv
<1>15. ASSUME NEW c \in Calls, Claim(c)
       PROVE  TypeInv'
  <2>1. ended' \in [Decisions -> SUBSET (Calls \cup {"lane", "left"})]
    BY <1>15, EndedType DEF Claim, Inv
  <2>2. call' \in [Calls -> CallSteps]
    BY <1>15 DEF Claim, CallSteps, Inv
  <2>3. QED BY <1>15, <2>1, <2>2 DEF Claim, Inv
<1>16. ASSUME NEW c \in Calls, Answer(c)
       PROVE  TypeInv'
  <2>1. {r.key : r \in request[c]} \subseteq Keys
    BY DEF Requests, Inv
  <2>2. call' \in [Calls -> CallSteps]
    BY <1>16 DEF Answer, CallSteps, Inv
  <2>3. QED BY <1>16, <2>1, <2>2 DEF Answer, Inv
<1>17. CASE UNCHANGED vars
  BY <1>17 DEF Inv
<1>18. QED
  BY <1>1, <1>2, <1>3, <1>4, <1>5, <1>6, <1>7, <1>8, <1>9, <1>10, <1>11, <1>12, <1>13, <1>14, <1>15, <1>16, <1>17
  DEF Next, ArrivalNext, CaseNext, QrNext, CallNext

\* A call moves nothing of the lane's but the case it claims.
LEMMA CallMoves ==
  ASSUME NEW c \in Calls, CallNext(c)
  PROVE  /\ UNCHANGED <<lane, laneCase, scanned, last, qrUsed, qrWaiting>>
         /\ \/ exitCase' = {} /\ Claim(c)
            \/ UNCHANGED <<exitCase, ended, claimants>>
BY DEF CallNext, Present, Judge, RefuseCall, TakeLane, Claim, ClaimRefused, Open, RelayFails, Consume, Answer,
       Release, laneVars, caseVars, history

LEMMA CaseStep ==
  ASSUME Inv, [Next]_vars
  PROVE  CaseInv'
<1> USE DEF CaseInv, Current, Alone, laneVars, caseVars
<1>1. last.number \in Nat /\ MaxDecisions \in Nat
  BY DEF Inv, TypeInv, Decisions
<1>2. CASE Arrive \/ Reset \/ Admit
  BY <1>1, <1>2 DEF Arrive, Reset, Admit, Dropped, Inv
<1>3. CASE Settle
  <2>1. CASE UNCHANGED caseVars
    BY <1>1, <1>3, <2>1 DEF Settle, Inv
  <2>2. CASE exitCase' = {[car |-> last.number + 1, ask |-> 0]}
    BY <1>1, <1>3, <2>2 DEF Settle, Inv
  <2>3. QED BY <1>3, <2>1, <2>2 DEF Settle
<1>4. CASE Publish
  <2>1. last'.number = last.number + 1
    BY <1>4 DEF Publish
  <2>2. QED BY <1>1, <1>4, <2>1 DEF Publish, Inv
<1>5. CASE Leave \/ StepCase \/ CaseWaits \/ LetOut \/ OpenForCase
  BY <1>1, <1>5 DEF Leave, StepCase, CaseWaits, LetOut, OpenForCase, Inv
<1>6. ASSUME NEW q \in QRs, ScanQr(q)
      PROVE  CaseInv'
  BY <1>1, <1>6 DEF ScanQr, Inv
<1>7. CASE QrFails \/ QrCovered \/ QrOpens \/ QrConsumes \/ NoCaseToAsk \/ TellCovered \/ AskAgain \/ AskFails
  BY <1>1, <1>7 DEF QrFails, QrCovered, QrOpens, QrConsumes, NoCaseToAsk, TellCovered, AskAgain, AskFails, Inv
<1>8. CASE AskedAgain
  <2>1. CASE exitCase = laneCase
    <3>1. /\ lane = "asking" /\ lane' \in {"stepping", "idle"} /\ last' = last
          /\ exitCase' = {Again(k) : k \in laneCase}
          /\ \/ lane' = "stepping" /\ laneCase' = exitCase'
             \/ lane' = "idle" /\ laneCase' = {}
      BY <1>8, <2>1 DEF AskedAgain
    <3>2. \A k \in exitCase' : k.car = last.number
      <4>1. \A k \in laneCase : Again(k).car = last.number
        BY DEF Inv, TypeInv, Cases, Again
      <4>2. QED BY <3>1, <4>1
    <3>3. Alone(exitCase') /\ (exitCase' # {} <=> laneCase # {})
      BY <3>1 DEF Inv
    <3>4. QED BY <3>1, <3>2, <3>3 DEF Inv
  <2>2. CASE exitCase # laneCase
    BY <1>1, <1>8, <2>2 DEF AskedAgain, Inv
  <2>3. QED BY <2>1, <2>2
<1>9. ASSUME NEW c \in Calls, CallNext(c)
      PROVE  CaseInv'
  BY <1>1, <1>9, CallMoves DEF Inv
<1>10. CASE UNCHANGED vars
  BY <1>10 DEF vars, Inv
<1>11. QED
  BY <1>2, <1>3, <1>4, <1>5, <1>6, <1>7, <1>8, <1>9, <1>10 DEF Next, ArrivalNext, CaseNext, QrNext

\* Ending the case that waits, of a car none ended for, leaves one end.
LEMMA EndedOnce ==
  ASSUME Inv, NEW cases \in SUBSET exitCase, NEW who
  PROVE  /\ \A n \in Decisions : Ended(cases, who)[n] = IF \E k \in cases : k.car = n THEN {who} ELSE ended[n]
         /\ \A n \in Decisions : Alone(Ended(cases, who)[n])
         /\ \A n \in Decisions : n > Current => Ended(cases, who)[n] = {}
<1>1. \A n \in Decisions : (\E k \in cases : k.car = n) => ended[n] = {} /\ n = Current
  BY DEF Inv, EndInv, CaseInv
<1>2. \A n \in Decisions : Ended(cases, who)[n] = IF \E k \in cases : k.car = n THEN {who} ELSE ended[n]
  BY <1>1 DEF Ended
<1>3. \A n \in Decisions : Alone(Ended(cases, who)[n])
  BY <1>2 DEF Inv, EndInv, Alone
<1>4. \A n \in Decisions : n > Current => Ended(cases, who)[n] = {}
  <2>1. Current \in Nat
    BY DEF Inv, TypeInv, Current, Decisions
  <2>2. ASSUME NEW n \in Decisions, n > Current
        PROVE  Ended(cases, who)[n] = {}
    <3>1. ~ \E k \in cases : k.car = n
      BY <1>1, <2>1, <2>2 DEF Decisions
    <3>2. QED BY <1>2, <2>2, <3>1 DEF Inv, EndInv
  <2>3. QED BY <2>2
<1>5. QED BY <1>2, <1>3, <1>4

LEMMA EndStep ==
  ASSUME Inv, [Next]_vars
  PROVE  EndInv'
<1> USE DEF Alone
<1>1. last.number \in Nat /\ MaxDecisions \in Nat
  BY DEF Inv, TypeInv, Decisions
<1>2. ASSUME exitCase' = {}, NEW who, NEW cases \in SUBSET exitCase, ended' = Ended(cases, who), Current' = Current
      PROVE  EndInv'
  <2>1. \A n \in Decisions : Alone(Ended(cases, who)[n]) /\ (n > Current => Ended(cases, who)[n] = {})
    BY EndedOnce
  <2>2. QED BY <1>2, <2>1 DEF EndInv
<1>3. CASE Arrive
  BY <1>2, <1>3 DEF Arrive, Dropped, Current, Inv
<1>4. CASE Settle
  <2>1. ended' = ended /\ Current' = last.number + 1 /\ Current = last.number
    BY <1>4 DEF Settle, Current, history
  <2>2. \A n \in Decisions : n > last.number => ended[n] = {}
    BY <2>1 DEF Inv, EndInv
  <2>3. \A k \in exitCase' : k.car = last.number + 1
    BY <1>4 DEF Settle, Inv, CaseInv, caseVars
  <2>4. last.number + 1 \in Decisions
    BY <1>1, <1>4 DEF Settle, Inv, CaseInv, Decisions
  <2>5. \A n \in Decisions : n > last.number + 1 => n > last.number
    BY <1>1 DEF Decisions
  <2>6. QED BY <1>1, <2>1, <2>2, <2>3, <2>4, <2>5 DEF Inv, EndInv
<1>5. CASE Publish
  <2>1. ended' = ended /\ Current' = Current /\ exitCase' = exitCase
    BY <1>5 DEF Publish, Current, history, caseVars
  <2>2. QED BY <2>1 DEF Inv, EndInv
<1>6. CASE Leave
  BY <1>2, <1>6 DEF Leave, Current, Inv, laneVars
<1>7. CASE LetOut
  <2>1. laneCase \subseteq exitCase /\ Current' = Current
    BY <1>7 DEF LetOut, StillWaiting, Current
  <2>2. QED BY <1>2, <1>7, <2>1 DEF LetOut
<1>8. CASE AskedAgain
  <2>1. ended' = ended /\ Current' = Current
    BY <1>8 DEF AskedAgain, Current, history
  <2>2. \A k \in exitCase' : \E j \in exitCase : k.car = j.car
    <3>1. \A k \in exitCase : Again(k).car = k.car
      BY DEF Inv, TypeInv, Cases, Again
    <3>2. QED BY <1>8, <3>1 DEF AskedAgain, caseVars
  <2>3. QED BY <2>1, <2>2 DEF Inv, EndInv
<1>9. CASE \/ Reset \/ Admit \/ StepCase \/ CaseWaits \/ OpenForCase \/ QrFails \/ QrCovered \/ QrOpens \/ QrConsumes
           \/ NoCaseToAsk \/ TellCovered \/ AskAgain \/ AskFails \/ \E q \in QRs : ScanQr(q)
  <2>1. exitCase' = exitCase /\ ended' = ended /\ Current' = Current
    BY <1>9 DEF Reset, Admit, StepCase, CaseWaits, OpenForCase, QrFails, QrCovered, QrOpens, QrConsumes,
                NoCaseToAsk, TellCovered, AskAgain, AskFails, ScanQr, Current, history, caseVars
  <2>2. QED BY <2>1 DEF Inv, EndInv
<1>10. ASSUME NEW c \in Calls, CallNext(c)
       PROVE  EndInv'
  <2>1. Current' = Current
    BY <1>10, CallMoves DEF Current
  <2>2. CASE Claim(c)
    BY <1>2, <2>1, <2>2 DEF Claim
  <2>3. CASE UNCHANGED <<exitCase, ended>>
    BY <2>1, <2>3 DEF Inv, EndInv
  <2>4. QED BY <1>10, <2>2, <2>3, CallMoves
<1>11. CASE UNCHANGED vars
  BY <1>11 DEF vars, Inv, EndInv, Current, laneVars, caseVars, history
<1>12. QED
  BY <1>3, <1>4, <1>5, <1>6, <1>7, <1>8, <1>9, <1>10, <1>11 DEF Next, ArrivalNext, CaseNext, QrNext

LEMMA AskStep ==
  ASSUME Inv, [Next]_vars
  PROVE  AskInv'
<1> USE DEF laneVars, caseVars
<1>1. Cardinality(qrUsed) \in Nat
  BY UsedCounts DEF Inv
<1>2. CASE exitCase' = {}
  <2>1. CASE Arrive \/ Leave \/ LetOut
    BY <1>2, <2>1 DEF Arrive, Leave, LetOut, Inv, AskInv
  <2>2. CASE Settle
    BY <1>2, <2>2 DEF Settle, AskInv
  <2>3. CASE AskedAgain
    BY <1>2, <2>3 DEF AskedAgain, AskInv
  <2>4. CASE AskFails \/ TellCovered
    BY <1>2, <2>4 DEF AskFails, TellCovered, AskInv
  <2>5. CASE \/ Publish \/ Reset \/ Admit \/ StepCase \/ CaseWaits \/ OpenForCase \/ QrFails \/ QrCovered \/ QrOpens
             \/ QrConsumes \/ NoCaseToAsk \/ AskAgain \/ \E q \in QRs : ScanQr(q)
    BY <1>2, <2>5 DEF Publish, Reset, Admit, StepCase, CaseWaits, OpenForCase, QrFails, QrCovered, QrOpens,
                      QrConsumes, NoCaseToAsk, AskAgain, Unused, ScanQr, Inv, AskInv
  <2>6. ASSUME NEW c \in Calls, CallNext(c)
        PROVE  AskInv'
    BY <1>2, <2>6, CallMoves DEF Inv, AskInv
  <2>7. CASE UNCHANGED vars
    BY <2>7 DEF vars, Inv, AskInv
  <2>8. QED BY <2>1, <2>2, <2>3, <2>4, <2>5, <2>6, <2>7 DEF Next, ArrivalNext, CaseNext, QrNext
<1>3. CASE exitCase' # {}
  <2>1. CASE Settle
    <3>1. CASE UNCHANGED caseVars
      BY <2>1, <3>1 DEF Settle, Inv, AskInv
    <3>2. CASE exitCase' = {[car |-> last.number + 1, ask |-> 0]} /\ qrUsed' = {}
      <4>1. Cardinality(qrUsed') = 0
        BY <3>2, FS_EmptySet
      <4>2. QED BY <2>1, <3>2, <4>1 DEF Settle, AskInv
    <3>3. QED BY <2>1, <3>1, <3>2 DEF Settle
  <2>2. CASE AskedAgain
    <3>1. CASE exitCase = laneCase
      <4>1. qrUsed' = qrUsed \cup scanned /\ exitCase' = {Again(k) : k \in exitCase} /\ lane' \in {"stepping", "idle"}
        BY <2>2, <3>1 DEF AskedAgain
      <4>2. qrUsed \cup scanned \in SUBSET QRs /\ qrUsed \cup scanned # qrUsed
        BY <2>2 DEF AskedAgain, Inv, TypeInv, AskInv
      <4>3. Cardinality(qrUsed) + 1 <= Cardinality(qrUsed') /\ Cardinality(qrUsed') \in Nat
        BY <4>1, <4>2, UsedCounts DEF Inv
      <4>4. \A k \in exitCase : Again(k).ask = k.ask + 1 /\ k.ask \in Nat /\ k.ask <= Cardinality(qrUsed)
        BY DEF Inv, TypeInv, AskInv, Cases, Again
      <4>5. \A k \in exitCase : Again(k).ask <= Cardinality(qrUsed')
        BY <1>1, <4>3, <4>4
      <4>6. \A k \in exitCase' : k.ask <= Cardinality(qrUsed')
        BY <4>1, <4>5
      <4>7. QED BY <4>1, <4>6 DEF AskInv
    <3>2. CASE exitCase # laneCase
      BY <2>2, <3>2 DEF AskedAgain, Inv, AskInv
    <3>3. QED BY <3>1, <3>2
  <2>3. CASE AskFails \/ TellCovered
    <3>1. /\ qrUsed' \in {qrUsed, qrUsed \cup scanned}
          /\ exitCase' = exitCase /\ lane' = "idle"
      BY <2>3 DEF AskFails, TellCovered
    <3>2. qrUsed \cup scanned \in SUBSET QRs
      BY DEF Inv, TypeInv
    <3>3. Cardinality(qrUsed) <= Cardinality(qrUsed') /\ Cardinality(qrUsed') \in Nat
      BY <1>1, <3>1, <3>2, UsedCounts DEF Inv
    <3>4. \A k \in exitCase : k.ask \in Nat /\ k.ask <= Cardinality(qrUsed)
      BY DEF Inv, TypeInv, AskInv, Cases
    <3>5. QED BY <1>1, <3>1, <3>3, <3>4 DEF AskInv
  <2>4. CASE \/ Publish \/ Reset \/ Admit \/ StepCase \/ CaseWaits \/ OpenForCase \/ QrFails \/ QrCovered \/ QrOpens
             \/ QrConsumes \/ NoCaseToAsk \/ AskAgain \/ \E q \in QRs : ScanQr(q)
    BY <2>4 DEF Publish, Reset, Admit, StepCase, CaseWaits, OpenForCase, QrFails, QrCovered, QrOpens,
                QrConsumes, NoCaseToAsk, AskAgain, Unused, ScanQr, Inv, AskInv
  <2>5. ASSUME NEW c \in Calls, CallNext(c)
        PROVE  AskInv'
    BY <1>3, <2>5, CallMoves DEF Inv, AskInv
  <2>6. CASE UNCHANGED vars
    BY <2>6 DEF vars, Inv, AskInv
  <2>7. QED
    BY <1>3, <2>1, <2>2, <2>3, <2>4, <2>5, <2>6
    DEF Next, ArrivalNext, CaseNext, QrNext, Arrive, Dropped, Leave, LetOut
<1>4. QED BY <1>2, <1>3

LEMMA ClaimStep ==
  ASSUME Inv, [Next]_vars
  PROVE  ClaimInv'
<1> USE DEF Alone, laneVars, caseVars, history
<1>1. CASE Arrive \/ Settle \/ Publish \/ Reset \/ Admit
  BY <1>1 DEF Arrive, Settle, Publish, Reset, Admit, Inv, ClaimInv
<1>2. CASE Leave \/ StepCase \/ CaseWaits \/ OpenForCase
  BY <1>2 DEF Leave, StepCase, CaseWaits, OpenForCase, Inv, ClaimInv
<1>3. CASE LetOut
  <2>1. exitCase # {} /\ claimants \subseteq {"qr"}
    BY <1>3 DEF LetOut, StillWaiting, Inv, CaseInv, ClaimInv
  <2>2. QED BY <1>3, <2>1 DEF LetOut, ClaimInv
<1>4. ASSUME NEW q \in QRs, ScanQr(q)
      PROVE  ClaimInv'
  BY <1>4 DEF ScanQr, Inv, ClaimInv
<1>5. CASE QrFails \/ QrCovered \/ QrOpens \/ QrConsumes \/ NoCaseToAsk \/ TellCovered \/ AskAgain \/ AskFails
  BY <1>5 DEF QrFails, QrCovered, QrOpens, QrConsumes, NoCaseToAsk, TellCovered, AskAgain, AskFails, Inv, ClaimInv
<1>6. CASE AskedAgain
  <2>1. /\ lane = "asking" /\ lane' \in {"stepping", "idle"} /\ UNCHANGED <<completed, claimants>>
        /\ exitCase' # {} => exitCase # {}
    <3>1. CASE exitCase = laneCase
      BY <1>6, <3>1 DEF AskedAgain
    <3>2. CASE exitCase # laneCase
      BY <1>6, <3>2 DEF AskedAgain
    <3>3. QED BY <3>1, <3>2
  <2>2. QED BY <2>1 DEF Inv, ClaimInv
<1>7. ASSUME NEW c \in Calls, CallNext(c)
      PROVE  ClaimInv'
  <2>1. CASE Claim(c)
    <3>1. claimants \ {"qr"} = {}
      BY <2>1 DEF Claim, Claimable, Inv, ClaimInv
    <3>2. QED BY <2>1, <3>1 DEF Claim, ClaimInv
  <2>2. CASE UNCHANGED <<exitCase, ended, claimants>>
    <3>1. completed => completed'
      BY <1>7, <2>2 DEF CallNext, Present, Judge, RefuseCall, TakeLane, Claim, ClaimRefused, Open, RelayFails,
                        Consume, Answer, Release
    <3>2. lane' = lane
      BY <1>7, CallMoves
    <3>3. QED BY <2>2, <3>1, <3>2 DEF Inv, ClaimInv
  <2>3. QED BY <1>7, <2>1, <2>2, CallMoves
<1>8. CASE UNCHANGED vars
  BY <1>8 DEF vars, Inv, ClaimInv
<1>9. QED
  BY <1>1, <1>2, <1>3, <1>4, <1>5, <1>6, <1>7, <1>8 DEF Next, ArrivalNext, CaseNext, QrNext

LEMMA RouteStep ==
  ASSUME Inv, [Next]_vars
  PROVE  RouteInv'
<1> USE DEF RouteInv, HasRoute
<1>1. CASE ArrivalNext \/ CaseNext \/ QrNext \/ UNCHANGED vars
  <2>1. UNCHANGED routeVars
    BY <1>1 DEF ArrivalNext, Arrive, Settle, Publish, Reset, Admit, CaseNext, Leave, StepCase, CaseWaits, LetOut,
                OpenForCase, QrNext, ScanQr, QrFails, QrCovered, QrOpens, QrConsumes, NoCaseToAsk, TellCovered,
                AskAgain, AskedAgain, AskFails, vars
  <2>2. QED BY <2>1 DEF routeVars, Inv
<1>2. ASSUME NEW c \in Calls, Present(c)
      PROVE  RouteInv'
  <2>1. /\ call[c] = "new" /\ call'[c] \in {"replayed", "named"}
        /\ \A d \in Calls \ {c} : call'[d] = call[d] /\ request'[d] = request[d]
        /\ inProgress' = inProgress /\ held' = held
    BY <1>2 DEF Present, Inv, TypeInv
  <2>2. QED BY <2>1 DEF Inv
<1>3. ASSUME NEW c \in Calls, Judge(c) \/ RefuseCall(c)
      PROVE  RouteInv'
  <2>1. /\ call'[c] \in {"judged", "refused"}
        /\ \A d \in Calls \ {c} : call'[d] = call[d]
        /\ request' = request /\ inProgress' = inProgress /\ held' = held
    BY <1>3 DEF Judge, RefuseCall, Inv, TypeInv
  <2>2. QED BY <2>1 DEF Inv
<1>4. ASSUME NEW c \in Calls, TakeLane(c)
      PROVE  RouteInv'
  <2>1. /\ \A d \in Calls \ {c} : call'[d] = call[d]
        /\ request' = request /\ held' = held
        /\ \/ call'[c] \in {"refused", "replayed"} /\ inProgress' = inProgress
           \/ /\ call'[c] = "waiting" /\ inProgress' /\ ~inProgress
              /\ \A r \in request[c] : r.key \notin held
    BY <1>4 DEF TakeLane, Answered, Inv, TypeInv
  <2>2. QED BY <2>1 DEF Inv
<1>5. ASSUME NEW c \in Calls, Claim(c) \/ Open(c) \/ Consume(c)
      PROVE  RouteInv'
  <2>1. /\ call[c] \in {"waiting", "claimed", "opened"} /\ call'[c] \in {"claimed", "opened", "consumed"}
        /\ \A d \in Calls \ {c} : call'[d] = call[d]
        /\ request' = request /\ inProgress' = inProgress /\ held' = held
    BY <1>5 DEF Claim, Open, Consume, Inv, TypeInv
  <2>2. QED BY <2>1 DEF Inv
<1>6. ASSUME NEW c \in Calls, ClaimRefused(c) \/ RelayFails(c)
      PROVE  RouteInv'
  <2>1. /\ call[c] \in {"waiting", "claimed"} /\ call'[c] \in {"refused", "failed"}
        /\ \A d \in Calls \ {c} : call'[d] = call[d]
        /\ request' = request /\ held' = held
    BY <1>6 DEF ClaimRefused, RelayFails, Inv, TypeInv
  <2>2. QED BY <2>1 DEF Inv
<1>7. ASSUME NEW c \in Calls, Answer(c)
      PROVE  RouteInv'
  <2>1. /\ call[c] = "consumed" /\ call'[c] = "answered"
        /\ \A d \in Calls \ {c} : call'[d] = call[d]
        /\ request' = request /\ inProgress' = inProgress /\ held' = held \cup {r.key : r \in request[c]}
    BY <1>7 DEF Answer, Inv, TypeInv
  <2>2. \A d \in Calls \ {c} : call[d] \notin HasRoute
    BY <2>1 DEF Inv
  <2>3. QED BY <2>1, <2>2 DEF Inv
<1>8. ASSUME NEW c \in Calls, Release(c)
      PROVE  RouteInv'
  <2>1. /\ call[c] = "answered" /\ call'[c] = "done"
        /\ \A d \in Calls \ {c} : call'[d] = call[d]
        /\ request' = request /\ held' = held
    BY <1>8 DEF Release, Inv, TypeInv
  <2>2. QED BY <2>1 DEF Inv
<1>9. QED
  BY <1>1, <1>2, <1>3, <1>4, <1>5, <1>6, <1>7, <1>8 DEF Next, CallNext

------------------------------------------------------------------------------
LEMMA Invariance == Spec => []Inv
<1>1. Inv /\ [Next]_vars => Inv'
  BY TypeStep, CaseStep, EndStep, AskStep, ClaimStep, RouteStep DEF Inv
<1>2. QED BY Initially, <1>1, PTL DEF Spec

\* A car's exit case ends once -- opened for by the lane, taken by a person, or
\* left -- for any calls and QRs; and every variable keeps its type.
THEOREM CaseEndsOnceForAll == Spec => []CaseEndsOnce
<1>1. Inv => CaseEndsOnce
  <2>1. SUFFICES ASSUME Inv PROVE CaseEndsOnce
    OBVIOUS
  <2>2. Cardinality(laneCase) <= 1 /\ Cardinality(exitCase) <= 1
    BY <2>1, AloneCounts DEF Inv, CaseInv
  <2>3. TypeOK
    BY <2>1, <2>2 DEF Inv, TypeInv, TypeOK
  <2>4. \A n \in Decisions : Cardinality(ended[n]) <= 1
    BY <2>1, AloneCounts DEF Inv, EndInv
  <2>5. QED BY <2>3, <2>4 DEF CaseEndsOnce
<1>2. QED BY Invariance, <1>1, PTL

\* Between two resets of the completed decision it is claimed under the lock once.
THEOREM OneClaimForAll == Spec => []OneClaim
<1>1. Inv => OneClaim
  BY AloneCounts DEF Inv, ClaimInv, OneClaim
<1>2. QED BY Invariance, <1>1, PTL

\* The lane opens on an exit case only for the car it last decided.
THEOREM OpensForItsCar == Spec => []OpensForTheCarAtTheLane
<1>1. Inv => OpensForTheCarAtTheLane
  BY DEF Inv, CaseInv, OpensForTheCarAtTheLane
<1>2. QED BY Invariance, <1>1, PTL

\* Of any calls that carry one Idempotency-Key one opens at most.
THEOREM KeyVendsOnceForAll == Spec => []KeyVendsOnce
<1>1. Inv => KeyVendsOnce
  BY DEF Inv, RouteInv, HasRoute, KeyVendsOnce, Vended
<1>2. QED BY Invariance, <1>1, PTL
==============================================================================

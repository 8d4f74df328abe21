------------------------------- MODULE Opening -------------------------------
(***************************************************************************)
(* Who opens the barrier, and for which decision                           *)
(* (src/src/lane_controller/controller.py, vend.py).                       *)
(*                                                                         *)
(* The lane thread decides every arrival and opens for the cars it admits. *)
(* A car it refuses is a case that three others may open for: the lane     *)
(* thread itself, once the car's exit case is settled by the platform; a   *)
(* registration QR (which at an exit opens nothing, and asks the exit case *)
(* again); and a person, through the vend route, on threads of its own.    *)
(* `last_decision_completed_at` and `_exit_case` are what they contend for:*)
(* `_exit_lock` guards the claims, and not the checks made before them.    *)
(*                                                                         *)
(* Every action is one critical section, one call that leaves the process  *)
(* (the platform, the relay) or one unlocked stretch of one thread.  What  *)
(* the platform answers, and what the loops read, is any of the outcomes   *)
(* the code tells apart.                                                   *)
(***************************************************************************)
EXTENDS Naturals, FiniteSets

CONSTANTS
  Calls,        \* calls of POST /v1/lane/vend
  Keys,         \* their Idempotency-Keys
  QRs,          \* registration QRs a driver may scan
  RelayRaises,  \* whether the relay's driver may raise
  MaxDecisions  \* bound: how many arrivals are decided

ASSUME OpeningAssumption ==
  /\ IsFiniteSet(Calls)
  /\ IsFiniteSet(QRs)
  /\ RelayRaises \in BOOLEAN
  /\ MaxDecisions \in Nat
  /\ Calls \cap {"lane", "qr", "left"} = {}

VARIABLES
  direction,   \* config.direction; set once
  lane,        \* where the lane thread is
  arriving,    \* the decision of the arrival being handled
  laneCase,    \* the case the lane thread is asking the platform about
  scanned,     \* the QR the lane thread is presenting
  last,        \* last_decision with last_decision_at, as the decision's number
  completed,   \* last_decision_completed_at is not None
  exitCase,    \* _exit_case
  qrUsed,      \* ExitCase.qr_used
  qrWaiting,   \* ExitCase.qr_waiting
  inProgress,  \* AssistedVend._in_progress
  held,        \* the keys of AssistedVend._answers
  call,        \* where each call of the route is
  request,     \* the decision, authority and key each call names
  ended,       \* how each car's exit case ended: who took it from _exit_case
  claimants    \* who completed the decision since it was last reset

laneVars  == <<lane, arriving, laneCase, scanned>>
caseVars  == <<exitCase, qrUsed, qrWaiting>>
routeVars == <<inProgress, held, call, request>>
history   == <<ended, claimants>>
vars == <<direction, laneVars, last, completed, caseVars, routeVars, history>>

------------------------------------------------------------------------------
Decisions == 0..MaxDecisions
Outcomes  == {"allow", "deny", "fallback", "no_vehicle"}
\* A decision, and whether a QR may open the refusal (`qr_may_open`).
Verdicts  == [outcome : Outcomes, qr : BOOLEAN]
NoVerdict == [outcome |-> "no_vehicle", qr |-> FALSE]

\* An exit case: the car it is for, and how often it was asked again.
Cases == [car : Decisions, ask : 0..Cardinality(QRs)]

\* human_open_now, and every authority that overrides no rule.
Authorities == {"human_open_now", "human_open_and_flag"}
Requests  == [decision : Decisions, authority : Authorities, key : Keys]

LaneSteps == {"idle", "settling", "deciding", "published", "admitting", "stepping", "opening",
              "scanning", "covered", "asking", "qr_opening", "qr_opened"}
CallSteps == {"new", "named", "judged", "waiting", "claimed", "opened", "consumed", "answered",
              "done", "refused", "replayed", "failed"}

\* Which decisions a QR may be presented for.
QrMayOpen(verdict) ==
  IF direction = "exit" THEN verdict.outcome = "fallback" /\ verdict.qr
  ELSE verdict.outcome \in {"deny", "fallback"} /\ verdict.qr

\* Which outcomes a person may complete, and on which authority.
MayComplete(outcome, authority) ==
  /\ outcome # "allow"
  /\ outcome = "deny" => authority = "human_open_now"

\* The car of each case in the set `cases` had its case ended by `who`.
Ended(cases, who) ==
  [n \in Decisions |-> IF \E k \in cases : k.car = n THEN ended[n] \cup {who} ELSE ended[n]]

Init ==
  /\ direction \in {"entry", "exit"}
  /\ lane = "idle"
  /\ arriving = NoVerdict
  /\ laneCase = {}
  /\ scanned = {}
  /\ last = [number |-> 0, verdict |-> NoVerdict]
  /\ completed = FALSE
  /\ exitCase = {}
  /\ qrUsed = {}
  /\ qrWaiting = {}
  /\ inProgress = FALSE
  /\ held = {}
  /\ call = [c \in Calls |-> "new"]
  /\ request = [c \in Calls |-> {}]
  /\ ended = [n \in Decisions |-> {}]
  /\ claimants = {}

------------------------------------------------------------------------------
\* An arrival (`handle_arrival`).

\* The fault: the last car's case is left waiting.
DropNothing == exitCase
\* What is left of the waiting case once the lane has dropped it.
Dropped == {}

\* A new car: the last one left with its case unsettled.  The lane then
\* takes its pictures, decides, and at an exit asks the platform.
Arrive ==
  /\ lane = "idle"
  /\ last.number < MaxDecisions
  /\ lane' = "settling"
  /\ exitCase' = Dropped
  /\ ended' = Ended(exitCase, "left")
  /\ UNCHANGED <<direction, arriving, laneCase, scanned, last, completed, qrUsed, qrWaiting, routeVars,
                 claimants>>

\* The verdict, not yet published.  At an exit a car that is not settled is
\* a fallback with a waiting case, stored first; a case settled on its first
\* answer is never stored.
Settle ==
  /\ lane = "settling"
  /\ lane' = "deciding"
  /\ arriving' \in Verdicts
  /\ \/ UNCHANGED caseVars
     \/ /\ direction = "exit"
        /\ arriving'.outcome = "fallback"
        /\ exitCase' = {[car |-> last.number + 1, ask |-> 0]}
        /\ qrUsed' = {}
        /\ qrWaiting' = {}
  /\ UNCHANGED <<direction, laneCase, scanned, last, completed, routeVars, history>>

\* last_decision and last_decision_at, with no lock.
Publish ==
  /\ lane = "deciding"
  /\ lane' = "published"
  /\ last' = [number |-> last.number + 1, verdict |-> arriving]
  /\ UNCHANGED <<direction, arriving, laneCase, scanned, completed, caseVars, routeVars, history>>

\* last_decision_completed_at = None, with no lock: a new case, that nothing
\* has completed.
Reset ==
  /\ lane = "published"
  /\ lane' = IF last.verdict.outcome = "allow" THEN "admitting" ELSE "idle"
  /\ arriving' = NoVerdict
  /\ completed' = FALSE
  /\ claimants' = {}
  /\ UNCHANGED <<direction, laneCase, scanned, last, caseVars, routeVars, ended>>

\* The relay is pulsed for a car that is admitted; if it raises, the turn is
\* over all the same.
Admit ==
  /\ lane = "admitting"
  /\ lane' = "idle"
  /\ UNCHANGED <<direction, arriving, laneCase, scanned, last, completed, caseVars, routeVars, history>>

------------------------------------------------------------------------------
\* The waiting exit case, on the lane's idle turns.

\* The car left, or may have: its case is dropped and a person is told.  A
\* case settled on its first answer whose car left is dropped while deciding.
Leave ==
  /\ lane \in {"idle", "deciding"}
  /\ exitCase # {}
  /\ exitCase' = {}
  /\ ended' = Ended(exitCase, "left")
  /\ UNCHANGED <<direction, laneVars, last, completed, qrUsed, qrWaiting, routeVars, claimants>>

\* The platform is asked about the case.
StepCase ==
  /\ lane = "idle"
  /\ exitCase # {}
  /\ lane' = "stepping"
  /\ laneCase' = exitCase
  /\ UNCHANGED <<direction, arriving, scanned, last, completed, caseVars, routeVars, history>>

\* Not settled, refused or unanswered: the case waits.
CaseWaits ==
  /\ lane = "stepping"
  /\ lane' = "idle"
  /\ laneCase' = {}
  /\ UNCHANGED <<direction, arriving, scanned, last, completed, caseVars, routeVars, history>>

\* The fault: a settled case opens whoever has taken it.
StillWaitingUnasked == TRUE
\* The case the platform settled is still the one waiting.
StillWaiting == exitCase = laneCase

\* Settled, and its car still there: under the lock the case is taken and
\* the decision completed, unless a person took the case first.
LetOut ==
  /\ lane = "stepping"
  /\ StillWaiting
  /\ lane' = "opening"
  /\ exitCase' = {}
  /\ completed' = TRUE
  /\ ended' = Ended(laneCase, "lane")
  /\ claimants' = claimants \cup {"lane"}
  /\ UNCHANGED <<direction, arriving, laneCase, scanned, last, qrUsed, qrWaiting, routeVars>>

\* The relay, and the turn is over.
OpenForCase ==
  /\ lane = "opening"
  /\ lane' = "idle"
  /\ laneCase' = {}
  /\ UNCHANGED <<direction, arriving, scanned, last, completed, caseVars, routeVars, history>>

------------------------------------------------------------------------------
\* A registration QR (`observe_qr`), on the lane's idle turns.

\* A scan is presented for the car last refused, if nobody completed it.
ScanQr(q) ==
  /\ lane = "idle"
  /\ last.number > 0
  /\ QrMayOpen(last.verdict)
  /\ ~completed
  /\ lane' = "scanning"
  /\ scanned' = {q}
  /\ UNCHANGED <<direction, arriving, laneCase, last, completed, caseVars, routeVars, history>>

\* Not covered, not answered, or the car gone: nothing opens.
QrFails ==
  /\ lane = "scanning"
  /\ lane' = "idle"
  /\ scanned' = {}
  /\ UNCHANGED <<direction, arriving, laneCase, last, completed, caseVars, routeVars, history>>

\* Covered, and still nobody completed the decision.
QrCovered ==
  /\ lane = "scanning"
  /\ ~completed
  /\ lane' = IF direction = "exit" THEN "covered" ELSE "qr_opening"
  /\ UNCHANGED <<direction, arriving, laneCase, scanned, last, completed, caseVars, routeVars, history>>

\* At an entry: the relay, and then the decision is completed, with no lock.
\* A relay that raises ends the turn, and nothing is completed.
QrOpens ==
  /\ lane = "qr_opening"
  /\ \/ lane' = "qr_opened" /\ UNCHANGED scanned
     \/ RelayRaises /\ lane' = "idle" /\ scanned' = {}
  /\ UNCHANGED <<direction, arriving, laneCase, last, completed, caseVars, routeVars, history>>

QrConsumes ==
  /\ lane = "qr_opened"
  /\ lane' = "idle"
  /\ scanned' = {}
  /\ completed' = TRUE
  /\ claimants' = claimants \cup {"qr"}
  /\ UNCHANGED <<direction, arriving, laneCase, last, caseVars, routeVars, ended>>

\* At an exit the QR settles nothing here: the waiting case, if any, is to
\* be asked again -- unless it is paid, or this QR already acted on it.
NoCaseToAsk ==
  /\ lane = "covered"
  /\ lane' = "idle"
  /\ scanned' = {}
  /\ UNCHANGED <<direction, arriving, laneCase, last, completed, caseVars, routeVars, history>>

\* A case that names no stay is not asked again; a person is told, once.
TellCovered ==
  /\ lane = "covered"
  /\ exitCase # {}
  /\ scanned \cap qrUsed = {}
  /\ lane' = "idle"
  /\ scanned' = {}
  /\ qrUsed' = qrUsed \cup scanned
  /\ UNCHANGED <<direction, arriving, laneCase, last, completed, exitCase, qrWaiting, routeVars, history>>

\* This QR has not acted on the case yet.
Unused(qr) == qr \cap qrUsed = {}

\* A covered QR, or one whose ask-again the platform could not take before,
\* has the case opened again on the platform, as the same stay.
AskAgain ==
  /\ exitCase # {}
  /\ \/ lane = "covered" /\ scanned' = scanned
     \/ lane = "idle" /\ qrWaiting # {} /\ scanned' = qrWaiting
  /\ Unused(scanned')
  /\ lane' = "asking"
  /\ laneCase' = exitCase
  /\ UNCHANGED <<direction, arriving, last, completed, caseVars, routeVars, history>>

\* The case `k`, opened once more as the same stay.
Again(k) == [k EXCEPT !.ask = @ + 1]

\* The platform opened the new case: it is the car's, if the old one still
\* is.  It is stepped at once, unless a person waits to open.
AskedAgain ==
  /\ lane = "asking"
  /\ scanned' = {}
  /\ IF exitCase = laneCase
     THEN /\ exitCase' = {Again(k) : k \in laneCase}
          /\ qrUsed' = qrUsed \cup scanned
          /\ qrWaiting' = {}
          /\ \/ lane' = "stepping" /\ laneCase' = exitCase'
             \/ lane' = "idle" /\ laneCase' = {}
     ELSE /\ lane' = "idle"
          /\ laneCase' = {}
          /\ UNCHANGED caseVars
  /\ UNCHANGED <<direction, arriving, last, completed, routeVars, history>>

\* The platform refused, or was not reached: the old case stays.
AskFails ==
  /\ lane = "asking"
  /\ lane' = "idle"
  /\ laneCase' = {}
  /\ scanned' = {}
  /\ \/ qrUsed' = qrUsed \cup scanned /\ qrWaiting' = {}
     \/ qrWaiting' \in {scanned, {}} /\ UNCHANGED qrUsed
  /\ UNCHANGED <<direction, arriving, last, completed, exitCase, routeVars, history>>

------------------------------------------------------------------------------
\* A person, through the vend route (`AssistedVend.complete`).

\* A call names the decision the lane has published.  One that carries a key
\* the route has answered is a replay, before anything is judged.
Present(c) ==
  /\ call[c] = "new"
  /\ last.number > 0
  /\ \E authority \in Authorities, key \in Keys :
       /\ request' = [request EXCEPT ![c] =
            {[decision |-> last.number, authority |-> authority, key |-> key]}]
       /\ call' = [call EXCEPT ![c] = IF key \in held THEN "replayed" ELSE "named"]
  /\ UNCHANGED <<direction, laneVars, last, completed, caseVars, inProgress, held, history>>

\* The case is judged on what the lane publishes by now, with no lock: a
\* case nobody completed, of an outcome this authority may complete.
Judge(c) ==
  /\ call[c] = "named"
  /\ ~completed
  /\ \A r \in request[c] : MayComplete(last.verdict.outcome, r.authority)
  /\ call' = [call EXCEPT ![c] = "judged"]
  /\ UNCHANGED <<direction, laneVars, last, completed, caseVars, inProgress, held, request, history>>

\* Any of the refusals of `_refuse`.
RefuseCall(c) ==
  /\ call[c] = "named"
  /\ call' = [call EXCEPT ![c] = "refused"]
  /\ UNCHANGED <<direction, laneVars, last, completed, caseVars, inProgress, held, request, history>>

\* The fault: only the check before the judging looks for the key.
AnsweredOnce(c) == FALSE
\* The call's key has been answered by now, whoever answered it.
Answered(c) == \E r \in request[c] : r.key \in held

\* Under the route's lock: busy, a replay after all, or the lane is taken.
\* The call then waits for a QR's ask-again on the network, or no longer.
TakeLane(c) ==
  /\ call[c] = "judged"
  /\ \/ /\ inProgress
        /\ call' = [call EXCEPT ![c] = "refused"]
        /\ UNCHANGED inProgress
     \/ /\ ~inProgress
        /\ Answered(c)
        /\ call' = [call EXCEPT ![c] = "replayed"]
        /\ UNCHANGED inProgress
     \/ /\ ~inProgress
        /\ ~Answered(c)
        /\ call' = [call EXCEPT ![c] = "waiting"]
        /\ inProgress' = TRUE
  /\ UNCHANGED <<direction, laneVars, last, completed, caseVars, held, request, history>>

\* The fault: the check made while judging is good enough.
ClaimableUnasked == TRUE
\* Nothing completed the decision since it was judged.
Claimable == ~completed

\* The decision is claimed under the exit's lock, and the waiting case with
\* it: whichever decision and case are the lane's by now.
Claim(c) ==
  /\ call[c] = "waiting"
  /\ Claimable
  /\ call' = [call EXCEPT ![c] = "claimed"]
  /\ completed' = TRUE
  /\ exitCase' = {}
  /\ ended' = Ended(exitCase, c)
  /\ claimants' = claimants \cup {c}
  /\ UNCHANGED <<direction, laneVars, last, qrUsed, qrWaiting, inProgress, held, request>>

\* Something completed it since: nothing moves, and the lane is given back.
ClaimRefused(c) ==
  /\ call[c] = "waiting"
  /\ ~Claimable
  /\ call' = [call EXCEPT ![c] = "refused"]
  /\ inProgress' = FALSE
  /\ UNCHANGED <<direction, laneVars, last, completed, caseVars, held, request, history>>

\* The relay.
Open(c) ==
  /\ call[c] = "claimed"
  /\ call' = [call EXCEPT ![c] = "opened"]
  /\ UNCHANGED <<direction, laneVars, last, completed, caseVars, inProgress, held, request, history>>

\* The relay raises: the lane is given back, and the decision stays claimed.
RelayFails(c) ==
  /\ RelayRaises
  /\ call[c] = "claimed"
  /\ call' = [call EXCEPT ![c] = "failed"]
  /\ inProgress' = FALSE
  /\ UNCHANGED <<direction, laneVars, last, completed, caseVars, held, request, history>>

\* last_decision_completed_at = at, beside the relay's pulse, with no lock.
Consume(c) ==
  /\ call[c] = "opened"
  /\ call' = [call EXCEPT ![c] = "consumed"]
  /\ completed' = TRUE
  /\ UNCHANGED <<direction, laneVars, last, caseVars, inProgress, held, request, history>>

\* The answer is held under the call's key, and given.
Answer(c) ==
  /\ call[c] = "consumed"
  /\ call' = [call EXCEPT ![c] = "answered"]
  /\ held' = held \cup {r.key : r \in request[c]}
  /\ UNCHANGED <<direction, laneVars, last, completed, caseVars, inProgress, request, history>>

\* The settle thread is done with the transit (LoopBoard).
Release(c) ==
  /\ call[c] = "answered"
  /\ call' = [call EXCEPT ![c] = "done"]
  /\ inProgress' = FALSE
  /\ UNCHANGED <<direction, laneVars, last, completed, caseVars, held, request, history>>

------------------------------------------------------------------------------
ArrivalNext == Arrive \/ Settle \/ Publish \/ Reset \/ Admit
CaseNext    == Leave \/ StepCase \/ CaseWaits \/ LetOut \/ OpenForCase
QrNext ==
  \/ \E q \in QRs : ScanQr(q)
  \/ QrFails \/ QrCovered \/ QrOpens \/ QrConsumes
  \/ NoCaseToAsk \/ TellCovered \/ AskAgain \/ AskedAgain \/ AskFails
CallNext(c) ==
  \/ Present(c) \/ Judge(c) \/ RefuseCall(c) \/ TakeLane(c)
  \/ Claim(c) \/ ClaimRefused(c) \/ Open(c) \/ RelayFails(c)
  \/ Consume(c) \/ Answer(c) \/ Release(c)

Next == ArrivalNext \/ CaseNext \/ QrNext \/ \E c \in Calls : CallNext(c)

Spec == Init /\ [][Next]_vars
------------------------------------------------------------------------------
(* Properties *)

\* Every variable holds what the code keeps in it: one waiting case at most,
\* asked again at most once for each QR.
TypeOK ==
  /\ direction \in {"entry", "exit"}
  /\ lane \in LaneSteps
  /\ arriving \in Verdicts
  /\ laneCase \subseteq Cases /\ Cardinality(laneCase) <= 1
  /\ scanned \subseteq QRs
  /\ last \in [number : Decisions, verdict : Verdicts]
  /\ completed \in BOOLEAN
  /\ exitCase \subseteq Cases /\ Cardinality(exitCase) <= 1
  /\ qrUsed \subseteq QRs
  /\ qrWaiting \subseteq QRs
  /\ inProgress \in BOOLEAN
  /\ held \subseteq Keys
  /\ call \in [Calls -> CallSteps]
  /\ \A c \in Calls : request[c] \subseteq Requests
  /\ \A n \in Decisions : ended[n] \subseteq Calls \cup {"lane", "left"}
  /\ claimants \subseteq Calls \cup {"lane", "qr"}

\* A car's exit case ends once: the lane opens for it, or a person takes it, or
\* its car left and nothing opens -- however often a QR has had it asked again
\* meanwhile, and whatever the platform answers after.  (The type invariant is
\* checked with it.)
CaseEndsOnce ==
  /\ TypeOK
  /\ \A n \in Decisions : Cardinality(ended[n]) <= 1

\* Between two resets of `last_decision_completed_at` it is claimed under the
\* lock once, by one call or by the lane.  (A QR at an entry completes it with
\* no lock: the residual stated at `observe_qr`.)
OneClaim == Cardinality(claimants \ {"qr"}) <= 1

\* The lane opens on an exit case only for the car it last decided: never on
\* the case of a car that was there before.
OpensForTheCarAtTheLane == lane = "opening" => \A k \in laneCase : k.car = last.number

\* One Idempotency-Key moves the relay once: of two calls that carry one key,
\* one opens at most, whatever arrives between them.
Vended(c) == call[c] \in {"opened", "consumed", "answered", "done"}
KeyVendsOnce ==
  \A c, d \in Calls : Vended(c) /\ Vended(d) /\ c # d =>
    \A r \in request[c], s \in request[d] : r.key # s.key

\* docs/CONTRACT.md: no authority but `human_open_now` overrides a rule.
NoOtherAuthorityOverrides ==
  [][\A c \in Calls : call[c] = "waiting" /\ call'[c] = "claimed" /\ last.verdict.outcome = "deny" =>
       \A r \in request[c] : r.authority = "human_open_now"]_vars

\* The comment at complete_vend's second write: nothing can consume a decision
\* without vending.  A published decision that reads completed was claimed since it
\* was reset, or a call that names it has vended.  The code does not keep it:
\* OpeningConsumed.cfg shows how (README, section 4).
CompletedMeansVended ==
  lane # "published" /\ completed /\ claimants = {} =>
    \E c \in Calls : Vended(c) /\ \E r \in request[c] : r.decision = last.number
==============================================================================

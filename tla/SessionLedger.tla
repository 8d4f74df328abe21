---------------------------- MODULE SessionLedger ----------------------------
(***************************************************************************)
(* What the outbox promises of the session actions -- the stay opens and   *)
(* closes that move money (src/src/lane_controller/events.py, durable.py). *)
(*                                                                         *)
(* An action is held in memory from the moment it is recorded, kept once   *)
(* the disk has it, and settled once the platform has taken or refused it. *)
(* Only a restart loses one, and only one the disk did not have yet.       *)
(***************************************************************************)
CONSTANT Actions

VARIABLE status

Statuses == {"none", "held", "kept", "settled", "lost"}

TypeOK == status \in [Actions -> Statuses]

Init == status = [n \in Actions |-> "none"]

\* The lane records a session action.
Record(n) ==
  /\ status[n] = "none"
  /\ status' = [status EXCEPT ![n] = "held"]

\* The disk has it.
Keep(n) ==
  /\ status[n] = "held"
  /\ status' = [status EXCEPT ![n] = "kept"]

\* The platform took it, or refused it for good.
Settle(n) ==
  /\ status[n] \in {"held", "kept"}
  /\ status' = [status EXCEPT ![n] = "settled"]

\* The process stops and starts again: what only memory held is gone.
Restart ==
  status' = [n \in Actions |-> IF status[n] = "held" THEN "lost" ELSE status[n]]

Next ==
  \/ \E n \in Actions : Record(n) \/ Keep(n) \/ Settle(n)
  \/ Restart

Spec == Init /\ [][Next]_status
==============================================================================

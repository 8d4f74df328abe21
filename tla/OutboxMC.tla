------------------------------- MODULE OutboxMC -------------------------------
(* Model values for the outbox. *)
EXTENDS Outbox

CONSTANTS r1, r2

TwoRecorders == {r1, r2}
==============================================================================

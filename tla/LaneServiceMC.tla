----------------------------- MODULE LaneServiceMC -----------------------------
(* Two vehicles for the page that shows a decision, one for the others. *)
EXTENDS LaneService

Vehicles == [events |-> 1, state |-> 2, health |-> 1]
================================================================================

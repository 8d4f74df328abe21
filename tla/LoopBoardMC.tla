---------------------------- MODULE LoopBoardMC -----------------------------
(* Model values for the loop board.  A timestamp is only ever compared with
   another, so each transit is its own. *)
EXTENDS LoopBoard, TLC

CONSTANTS a1, a2, o1

OneAssisted == {a1}
TwoAssisted == {a1, a2}
OneOrdinary == {o1}
ClockStamps == [t \in {a1, a2, o1} |-> t]
AssistedSymmetry == Permutations(TwoAssisted)
==============================================================================

----------------------------- MODULE ReaderFeesMC -----------------------------
(* The reader's fees, for TLC: cars and cancels are numbers, so the bounds are
   all it needs. *)
EXTENDS ReaderFees
==============================================================================

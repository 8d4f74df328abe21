------------------------------ MODULE OpeningMC ------------------------------
(* Model values for the opening of the barrier. *)
EXTENDS Opening

CONSTANTS c1, c2, k1, q1

TwoCalls == {c1, c2}
OneCall  == {c1}
OneKey   == {k1}
OneQr    == {q1}
==============================================================================

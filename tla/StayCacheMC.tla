------------------------------ MODULE StayCacheMC ------------------------------
(* One car that comes to this exit, and one that does not. *)
EXTENDS StayCache

MCStays == 1..2
MCCarOf == <<"a", "b">>
================================================================================

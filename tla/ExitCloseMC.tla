------------------------------ MODULE ExitCloseMC ------------------------------
(* The instance TLC checks: ExitClose.cfg.                                  *)
EXTENDS ExitClose
================================================================================

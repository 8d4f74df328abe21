---------------------------- MODULE DecisionCacheMC ----------------------------
(* Answers of the platform, for TLC: a pass-only garage stated both ways, one
   that takes transients and one that has not said. *)
EXTENDS DecisionCache

Answer(rule, default, transient, register, closed) ==
  [rule |-> rule, default |-> default, transient |-> transient, register |-> register,
   closed |-> closed]

Garages ==
  {Answer("none", "allow", "no", "covers", "open"),
   Answer("deny", "none", "yes", "unavailable", "unsaid"),
   Answer("allow", "deny", "yes", "other", "full"),
   Answer("deny", "allow", "unsaid", "covers", "everyone")}

FastReads == {"full"}
==============================================================================

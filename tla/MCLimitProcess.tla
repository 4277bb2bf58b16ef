---------------------------- MODULE MCLimitProcess ----------------------------
(* LimitProcess for TLC: a target t and processes a and b that it may fork, *)
(* of which b may be a stranger instead that runs from the start.           *)
EXTENDS LimitProcess

CONSTANTS t, a, b, init

(* A setting without strangers, and one with all of them.                   *)
Alone(F) == [beside |-> {}, faults |-> F]
Beside(F) == [beside |-> Strangers, faults |-> F]

(* A family of three that may be orphaned, of which one may be seen during  *)
(* an execve; a family of two and a stranger under all the further faults   *)
(* together, and under those that some property still survives.             *)
MCSettings ==
  {Alone({"orphan", "exec"}),
   Beside(Faults),
   Beside({"orphan", "opendir", "abort"}),
   Beside({"orphan", "abort", "age"})}

(* No faults but those of the system.                                       *)
MCPlain == {Alone(Faults)}
==============================================================================

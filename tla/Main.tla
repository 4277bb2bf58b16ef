--------------------------------- MODULE Main ---------------------------------
(***************************************************************************)
(* main() of src/src/cpulimit.c from its start: it reads the command line, *)
(* and then goes on in command mode or to the search that SearchLoop       *)
(* describes, or exits.                                                    *)
(***************************************************************************)
EXTENDS Options, CommandMode

mainVars == <<optionVars, vars>>

MainInit == OptionsInit /\ Init

(* if (command_mode), and the exit after a refusal.  What was read of the  *)
(* options is not looked at again, but for the limit and -i.               *)
Dispatch ==
  /\ step = "accepted"
  /\ step' = IF command_mode THEN "command" ELSE "search"
  /\ given' = <<>>
  /\ UNCHANGED <<targetVars, limitVars, flagVars, command_mode>>

Parsing == (ReadOptions \/ Dispatch) /\ UNCHANGED vars

(* A step of command mode.                                                 *)
InCommandMode(A) == step = "command" /\ A /\ UNCHANGED optionVars

(* What becomes of a search is described by SearchLoop.                    *)
Elsewhere == step \in {"refused", "usage", "search"} /\ UNCHANGED mainVars

MainNext == Parsing \/ InCommandMode(Next) \/ Elsewhere

(* The fairness of CommandMode, once it has begun.                         *)
MainSpec ==
  /\ MainInit /\ [][MainNext]_mainVars
  /\ WF_mainVars(InCommandMode(ForkCommand \/ ForkLimiter \/ WaitCommand \/ WaitLimiter))
  /\ SF_mainVars(InCommandMode(Deliver))
  /\ WF_mainVars(InCommandMode(LimiterContinues))
  /\ SF_mainVars(InCommandMode(LimiterLeaves))

------------------------------------------------------------------------------
(* The variables of the command line and of command mode have their types. *)
MainTypeOK == OptionsTypeOK /\ TypeOK
===============================================================================

------------------------------- MODULE Limiting -------------------------------
(***************************************************************************)
(* What limit_process() promises of the one process it is given: it stops  *)
(* and continues it, and returns only if it was asked to or the process is *)
(* dead, and never leaves it stopped.  LimitProcess implements this; the   *)
(* modules that call limit_process() are built on it.                      *)
(***************************************************************************)

VARIABLES
  target,    (* "running", "stopped" or "ended"                            *)
  quit,      (* quit_flag of the process that limits                       *)
  limiting   (* limit_process() has not returned                           *)

limitingVars == <<target, quit, limiting>>

Init ==
  /\ target = "running"
  /\ quit = FALSE
  /\ limiting = TRUE

(* kill(pid, SIGSTOP) in the loop.                                         *)
Stop ==
  /\ limiting
  /\ target = "running"
  /\ target' = "stopped"
  /\ UNCHANGED <<quit, limiting>>

(* kill(pid, SIGCONT) in the loop or after it.                             *)
Continue ==
  /\ limiting
  /\ target = "stopped"
  /\ target' = "running"
  /\ UNCHANGED <<quit, limiting>>

(* Mutant: the target is not continued on the way out.                     *)
LeaveStopped ==
  /\ limiting
  /\ quit \/ target = "ended"
  /\ limiting' = FALSE
  /\ UNCHANGED <<target, quit>>

(* limit_process() returns.                                                *)
Leave ==
  /\ limiting
  /\ target # "stopped"
  /\ quit \/ target = "ended"
  /\ limiting' = FALSE
  /\ UNCHANGED <<target, quit>>

(* sig_handler()                                                           *)
Quit ==
  /\ limiting
  /\ ~quit
  /\ quit' = TRUE
  /\ UNCHANGED <<target, limiting>>

(* The target ends, by itself or killed while it is stopped.               *)
End ==
  /\ target # "ended"
  /\ target' = "ended"
  /\ UNCHANGED <<quit, limiting>>

Next == Stop \/ Continue \/ Leave \/ Quit \/ End

Spec == Init /\ [][Next]_limitingVars

(* The target is not left stopped for ever, and what allows the return     *)
(* again and again brings it about.                                        *)
Fairness == WF_limitingVars(Continue) /\ SF_limitingVars(Leave)

FairSpec == Spec /\ Fairness
=============================================================================

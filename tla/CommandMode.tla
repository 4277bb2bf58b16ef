----------------------------- MODULE CommandMode -----------------------------
(***************************************************************************)
(* Command mode of main() in src/src/cpulimit.c: cpulimit forks a child    *)
(* that becomes the command, forks a limiter that runs limit_process() on  *)
(* it, and waits for both to report the status of the command.  Signals    *)
(* reach each of the three on its own: those of the terminal in any order, *)
(* those of kill(1) one of them.                                           *)
(***************************************************************************)
EXTENDS Naturals

CONSTANTS
  Codes,          (* exit codes of the command                             *)
  MaxSignals      (* bound on the SIGINTs and SIGTERMs each process gets   *)

Unset == "unset"
Killed == "killed"

ASSUME CommandModeAssumption ==
  /\ Unset \notin Codes
  /\ MaxSignals \in Nat

VARIABLES
  parent,    (* what the first process does                                *)
  status,    (* status_process: the wait status, or that it was never set  *)
  exitCode,  (* what the parent reports when it exits                      *)
  program,   (* the image of the child: cpulimit until execve              *)
  ending,    (* how the child ended                                        *)
  pending,   (* a fatal signal waits for the command                       *)
  target,    (* the child as limit_process() sees it                       *)
  quit,      (* quit_flag of the limiter                                   *)
  limiting,  (* the limiter is in limit_process()                          *)
  signals    (* history: how often each process was signalled              *)

Limiter == INSTANCE Limiting

child == <<program, ending, pending>>
vars == <<parent, status, exitCode, child, target, quit, limiting, signals>>

Endings == Codes \cup {Killed}
Parties == {"parent", "limiter", "command"}

TypeOK ==
  /\ parent \in {"fork command", "fork limiter", "wait command", "wait limiter",
                 "exited", "gave up"}
  /\ status \in Endings \cup {Unset}
  /\ exitCode \in Endings \cup {Unset}
  /\ program \in {"none", "cpulimit", "execve", "command"}
  /\ ending \in Endings \cup {Unset}
  /\ pending \in BOOLEAN
  /\ target \in {"running", "stopped", "ended"}
  /\ quit \in BOOLEAN
  /\ limiting \in BOOLEAN
  /\ signals \in [Parties -> 0 .. MaxSignals]

Init ==
  /\ parent = "fork command"
  /\ status = Unset
  /\ exitCode = Unset
  /\ program = "none"
  /\ ending = Unset
  /\ pending = FALSE
  /\ Limiter!Init
  /\ signals = [x \in Parties |-> 0]

LimiterForked == parent \in {"wait command", "wait limiter", "exited"}

------------------------------------------------------------------------------
(* The parent.                                                             *)

ForkCommand ==
  /\ parent = "fork command"
  /\ parent' = "fork limiter"
  /\ program' = "cpulimit"
  /\ UNCHANGED <<status, exitCode, ending, pending, target, quit, limiting, signals>>

(* The limiter starts with the quit_flag of the parent.                    *)
ForkLimiter ==
  /\ parent = "fork limiter"
  /\ parent' = "wait command"
  /\ quit' = (signals["parent"] > 0)
  /\ UNCHANGED <<status, exitCode, child, target, limiting, signals>>

(* Either fork() < 0: exit(EXIT_FAILURE).  The command, if it has begun,   *)
(* goes on.                                                                *)
GiveUp ==
  /\ parent \in {"fork command", "fork limiter"}
  /\ parent' = "gave up"
  /\ UNCHANGED <<status, exitCode, child, target, quit, limiting, signals>>

(* waitpid(child, &status_process, 0)                                      *)
WaitCommand ==
  /\ parent = "wait command"
  /\ target = "ended"
  /\ status' = ending
  /\ parent' = "wait limiter"
  /\ UNCHANGED <<exitCode, child, target, quit, limiting, signals>>

(* What is reported for a wait status: it is used even if it is not set,   *)
(* and then may be anything.                                               *)
Reported(s) == IF s = Unset THEN Endings ELSE {s}

(* Mutant: the parent does not wait for the limiter.                       *)
WaitLimiterNoHang ==
  /\ parent = "wait limiter"
  /\ exitCode' \in Reported(status)
  /\ parent' = "exited"
  /\ UNCHANGED <<status, child, target, quit, limiting, signals>>

(* waitpid(limiter, &status_limiter, 0), and the exit.                     *)
WaitLimiter ==
  /\ parent = "wait limiter"
  /\ ~limiting
  /\ exitCode' \in Reported(status)
  /\ parent' = "exited"
  /\ UNCHANGED <<status, child, target, quit, limiting, signals>>

(* sa_flags = 0: the handler returns into a waitpid() that fails with      *)
(* EINTR.  Neither call's result is looked at.                             *)
SignalParent ==
  /\ signals["parent"] < MaxSignals
  /\ signals' = [signals EXCEPT !["parent"] = @ + 1]
  /\ \/ /\ parent = "wait command" /\ target # "ended"
        /\ parent' = "wait limiter"
        /\ UNCHANGED exitCode
     \/ /\ parent = "wait limiter" /\ limiting
        /\ parent' = "exited"
        /\ exitCode' \in Reported(status)
     \/ (* not blocked, or not yet: only quit_flag is set                 *)
        /\ parent \notin {"exited", "gave up"}
        /\ UNCHANGED <<parent, exitCode>>
  /\ UNCHANGED <<status, child, target, quit, limiting>>

------------------------------------------------------------------------------
(* The child.  It takes a step only while it is not stopped.               *)

(* execvp() begins, and its end: the handlers of cpulimit are gone.        *)
Exec ==
  /\ target = "running"
  /\ \/ program = "cpulimit" /\ program' = "execve"
     \/ program = "execve" /\ program' = "command"
  /\ UNCHANGED <<parent, status, exitCode, ending, pending, target, quit,
                 limiting, signals>>

(* The command exits, or execvp() fails and exit(ret) ends the child.      *)
Finish ==
  /\ target = "running"
  /\ program \in {"command", "execve"}
  /\ Limiter!End
  /\ ending' \in Codes
  /\ UNCHANGED <<parent, status, exitCode, program, pending, signals>>

(* SIGKILL from somebody, which a stopped process obeys as well.           *)
Kill ==
  /\ program # "none"
  /\ Limiter!End
  /\ ending' = Killed
  /\ UNCHANGED <<parent, status, exitCode, program, pending, signals>>

(* Before execve the child has the handler of cpulimit, which only sets a  *)
(* flag that the command will never see; afterwards the signal is fatal.   *)
(* One that comes during execve finds the one or the other.                *)
SignalCommand ==
  /\ program # "none" /\ target # "ended"
  /\ signals["command"] < MaxSignals
  /\ signals' = [signals EXCEPT !["command"] = @ + 1]
  /\ \/ program # "cpulimit" /\ pending' = TRUE
     \/ program # "command" /\ UNCHANGED pending
  /\ UNCHANGED <<parent, status, exitCode, program, ending, target, quit, limiting>>

(* A fatal signal takes effect when the command is not stopped.            *)
Deliver ==
  /\ pending
  /\ program = "command"
  /\ target = "running"
  /\ Limiter!End
  /\ ending' = Killed
  /\ UNCHANGED <<parent, status, exitCode, program, pending, signals>>

------------------------------------------------------------------------------
(* The limiter: limit_process(child) as Limiting describes it.             *)

LimiterContinues ==
  LimiterForked /\ Limiter!Continue /\ UNCHANGED <<parent, status, exitCode, child, signals>>

LimiterStops ==
  LimiterForked /\ Limiter!Stop /\ UNCHANGED <<parent, status, exitCode, child, signals>>

LimiterLeaves ==
  LimiterForked /\ Limiter!Leave /\ UNCHANGED <<parent, status, exitCode, child, signals>>

(* The command line of the child is empty while it is in execve: the       *)
(* limiter takes it for gone.                                              *)
LimiterMisses ==
  /\ LimiterForked /\ limiting
  /\ program = "execve" /\ target = "running"
  /\ limiting' = FALSE
  /\ UNCHANGED <<parent, status, exitCode, child, target, quit, signals>>

(* sig_handler() in the limiter.                                           *)
SignalLimiter ==
  /\ LimiterForked
  /\ signals["limiter"] < MaxSignals
  /\ signals' = [signals EXCEPT !["limiter"] = @ + 1]
  /\ Limiter!Quit
  /\ UNCHANGED <<parent, status, exitCode, child>>

------------------------------------------------------------------------------
Over ==
  /\ parent \in {"exited", "gave up"}
  /\ program = "none" \/ target = "ended"
  /\ LimiterForked => ~limiting
  /\ UNCHANGED vars

Next ==
  \/ ForkCommand \/ ForkLimiter \/ GiveUp \/ WaitCommand \/ WaitLimiter
  \/ SignalParent
  \/ Exec \/ Finish \/ Kill \/ SignalCommand \/ Deliver
  \/ LimiterContinues \/ LimiterStops \/ LimiterLeaves \/ LimiterMisses
  \/ SignalLimiter
  \/ Over

Spec == Init /\ [][Next]_vars

(* The parent's system calls return, a signal that is not held back is     *)
(* delivered, and the limiter is as fair as Limiting says.  The command    *)
(* owes nothing.                                                           *)
FairSpec ==
  /\ Spec
  /\ WF_vars(ForkCommand \/ ForkLimiter \/ WaitCommand \/ WaitLimiter)
  /\ SF_vars(Deliver)
  /\ WF_vars(LimiterContinues)
  /\ SF_vars(LimiterLeaves)

------------------------------------------------------------------------------
(* "Wait for both child and limiter processes to complete": when the       *)
(* parent has exited, they have.                                           *)
WaitsForBoth == parent = "exited" => target = "ended" /\ ~limiting

(* A parent that got no signal exits after both, and reports how the       *)
(* command ended, whatever was sent to the two others.                     *)
UndisturbedReports ==
  parent = "exited" /\ signals["parent"] = 0 =>
    WaitsForBoth /\ exitCode = ending

(* Once the limiter and the command, after its execve, were sent an        *)
(* interrupt, all three end, whether or not the parent got it too: the     *)
(* pending signal is not kept from a stopped command.                      *)
InterruptEndsAll ==
  (pending /\ program = "command" /\ quit)
    ~> (parent = "exited" /\ target = "ended" /\ ~limiting)
=============================================================================

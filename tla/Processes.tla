------------------------------ MODULE Processes ------------------------------
(***************************************************************************)
(* The operating system as cpulimit sees it: a tree of processes that      *)
(* fork, exit, are reaped by their parents, and are stopped and continued  *)
(* by signals.  Nothing of this is code of the repository; it is modelled  *)
(* from how src/ uses it: kill(2), the stat and cmdline files of /proc,    *)
(* the parent links that getppid_of() follows.                             *)
(***************************************************************************)

CONSTANTS
  Pids,       (* process identifiers                                        *)
  Target,     (* the process that cpulimit was asked to limit               *)
  Strangers,  (* processes that may run beside the target, not below it     *)
  Foreign,    (* processes cpulimit may not signal: kill(2) gives EPERM     *)
  InitPid,    (* process 1, the parent of orphans                           *)
  Self,       (* cpulimit; a member of Pids if it runs below the target,    *)
              (* as when it limits the shell that it was started from       *)
  Faults      (* what the environment may do besides fork, exit and reap    *)

(* "orphan"   a process may exit while it still has children               *)
(* "headless" the first thread of a process may end before the others      *)
(* "exec"     /proc/<pid>/cmdline may be empty because the process is in   *)
(*            the middle of execve                                         *)
(* "opendir"  opendir("/proc") may fail                                    *)
(* "abort"    a call whose failure the code answers with exit() may fail   *)
(* "age"      the inode of /proc/<pid>, made when it was first looked up,  *)
(*            may be older than that of an ancestor: is_child_of() then    *)
(*            denies the relation                                          *)
(* "reuse"    the pid of a reaped process may be given to a new one        *)
FaultKinds == {"orphan", "headless", "exec", "opendir", "abort", "age",
               "reuse"}

ASSUME ProcessesAssumption ==
  /\ Target \in Pids
  /\ Strangers \subseteq Pids \ {Target}
  /\ Foreign \subseteq Pids \ {Target}
  /\ InitPid \notin Pids
  /\ Self \notin Strangers \cup {Target}
  /\ Faults \subseteq FaultKinds

VARIABLES
  state,     (* state[p]: where the process p is in its life               *)
  parent,    (* parent[p]: the ppid field of /proc/<p>/stat                *)
  headless,  (* processes that go on without their first thread: the stat  *)
             (* file shows Z and the cmdline file is empty                 *)
  kin        (* history: pids whose present holder was started by the      *)
             (* target or by one of its kin                                *)

osVars == <<state, parent, headless, kin>>

States == {"unborn", "running", "stopped", "zombie", "reaped"}

OSTypeOK ==
  /\ state \in [Pids -> States]
  /\ parent \in [Pids -> Pids \cup {InitPid}]
  /\ headless \in SUBSET Pids
  /\ kin \in SUBSET Pids

(* At the start the target and the processes of beside run; whatever else  *)
(* the target consists of, it forks before cpulimit looks for the first    *)
(* time.                                                                   *)
OSInit(beside) ==
  /\ state = [p \in Pids |->
                IF p \in {Target, Self} \cup beside THEN "running" ELSE "unborn"]
  /\ parent = [p \in Pids |-> IF p = Self THEN Target ELSE InitPid]
  /\ headless = {}
  /\ kin = {Target, Self} \cap Pids

Live(p) == state[p] \in {"running", "stopped"}

(* A zombie still has its directory in /proc.                              *)
Exists(p) == Live(p) \/ state[p] = "zombie"

------------------------------------------------------------------------------
(* What the limiter may ask of the system.                                 *)

(* read_process_info() succeeds: neither ENOENT nor state Z, X or x, and   *)
(* the command line is not empty.                                          *)
Readable(p) == Live(p) /\ p \notin headless

(* kill(p, sig) = 0.  A zombie can be signalled, to no effect.             *)
Signallable(p) == Exists(p) /\ p \notin Foreign

Continued(p) ==
  [state EXCEPT ![p] = IF @ = "stopped" THEN "running" ELSE @]

Stopped(p) ==
  [state EXCEPT ![p] = IF @ = "running" THEN "stopped" ELSE @]

(* The processes below r: the least set that holds each existing child of  *)
(* r and of its own members.                                               *)
ClosedBelow(r, S) ==
  \A q \in Pids : Exists(q) /\ parent[q] \in S \cup {r} => q \in S

Below(r) == {q \in Pids : \A S \in SUBSET Pids : ClosedBelow(r, S) => q \in S}

Descendants == Below(Target)

------------------------------------------------------------------------------
(* What processes do on their own.  What cpulimit does is not described    *)
(* here, and nobody kills it.                                              *)

Fork(p, c) ==
  /\ p # Self
  /\ state[p] = "running"
  /\ \/ state[c] = "unborn"
     \/ "reuse" \in Faults /\ state[c] = "reaped"
  /\ state' = [state EXCEPT ![c] = "running"]
  /\ parent' = [parent EXCEPT ![c] = p]
  /\ kin' = IF p \in kin THEN kin \cup {c} ELSE kin \ {c}
  /\ UNCHANGED headless

(* A process ends, by itself or killed while it is stopped.  Its children  *)
(* become children of process 1.                                           *)
Exit(p) ==
  /\ p # Self
  /\ Live(p)
  /\ \/ "orphan" \in Faults
     \/ \A q \in Pids : Exists(q) => parent[q] # p
  /\ state' = [state EXCEPT ![p] = "zombie"]
  /\ parent' = [q \in Pids |-> IF Exists(q) /\ parent[q] = p
                               THEN InitPid ELSE parent[q]]
  /\ headless' = headless \ {p}
  /\ UNCHANGED kin

(* The pid of a reaped process has no parent and is nobody's kin.          *)
Reap(p) ==
  /\ state[p] = "zombie"
  /\ state' = [state EXCEPT ![p] = "reaped"]
  /\ parent' = [parent EXCEPT ![p] = InitPid]
  /\ kin' = kin \ {p}
  /\ UNCHANGED headless

LeaderExit(p) ==
  /\ "headless" \in Faults
  /\ p # Self
  /\ p \notin headless
  /\ state[p] = "running"
  /\ headless' = headless \cup {p}
  /\ UNCHANGED <<state, parent, kin>>
==============================================================================

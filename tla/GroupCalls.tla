------------------------------ MODULE GroupCalls ------------------------------
(***************************************************************************)
(* The struct process_group between limit_process() and process_group.c,   *)
(* as the pids that are known and those that are listed, and the order in  *)
(* which it is used: a scan fills the list it has emptied, loops go over   *)
(* the list when no scan does, and only a loop forgets anybody.            *)
(* LimitProcess, ProcessGroup and ProcessTable all implement this, each    *)
(* with the data of its own: pids, descriptors, and nodes with pointers.   *)
(***************************************************************************)
CONSTANT Pids

VARIABLES
  phase,   (* "scan", "walk", "idle" between the two, "closed" by          *)
           (* close_process_group(), or "failed": the program has exited   *)
  known,   (* the pids in proctable                                        *)
  listed,  (* the pids in proclist                                         *)
  due      (* those that the loop over proclist has yet to come to         *)

callVars == <<phase, known, listed, due>>

Init == phase = "idle" /\ known = {} /\ listed = {} /\ due = {}

(* update_process_group() begins: the list is emptied, not the table.      *)
BeginScan ==
  /\ phase = "idle"
  /\ phase' = "scan"
  /\ listed' = {}
  /\ UNCHANGED <<known, due>>

(* A member is found, for the first time in this scan.                     *)
Enter(p) ==
  /\ phase = "scan"
  /\ p \notin listed
  /\ known' = known \cup {p}
  /\ listed' = listed \cup {p}
  /\ UNCHANGED <<phase, due>>

EndScan ==
  /\ phase = "scan"
  /\ phase' = "idle"
  /\ UNCHANGED <<known, listed, due>>

(* A loop begins, right after a scan, after another loop or later.         *)
BeginWalk ==
  /\ phase \in {"scan", "idle", "walk"}
  /\ due = {}
  /\ phase' = "walk"
  /\ due' = listed
  /\ UNCHANGED <<known, listed>>

(* kill() has succeeded, or its result is not looked at.                   *)
Signalled(p) ==
  /\ phase = "walk"
  /\ p \in due
  /\ due' = due \ {p}
  /\ UNCHANGED <<phase, known, listed>>

(* kill() has failed: p leaves the list and the table in the same turn.    *)
Dropped(p) ==
  /\ phase = "walk"
  /\ p \in due
  /\ due' = due \ {p}
  /\ listed' = listed \ {p}
  /\ known' = known \ {p}
  /\ UNCHANGED phase

(* A loop ends when it has come to everybody.                              *)
EndWalk ==
  /\ phase = "walk"
  /\ due = {}
  /\ phase' = "idle"
  /\ UNCHANGED <<known, listed, due>>

(* close_process_group()                                                   *)
Close ==
  /\ phase = "idle"
  /\ phase' = "closed"
  /\ known' = {}
  /\ listed' = {}
  /\ UNCHANGED due

(* The program exits, for want of memory, a clock or /proc: between two    *)
(* calls or in a scan,                                                     *)
Fail ==
  /\ phase \in {"idle", "scan"}
  /\ phase' = "failed"
  /\ UNCHANGED <<known, listed, due>>

(* with a new member in the table only,                                    *)
FailEntering(p) ==
  /\ phase = "scan"
  /\ p \notin listed
  /\ phase' = "failed"
  /\ known' = known \cup {p}
  /\ UNCHANGED <<listed, due>>

(* or with the node of one that could not be signalled out of the list     *)
(* and its entry still in the table.  It never exits with a node that has  *)
(* no entry.                                                               *)
FailDropping(p) ==
  /\ phase = "walk"
  /\ p \in due
  /\ phase' = "failed"
  /\ due' = due \ {p}
  /\ listed' = listed \ {p}
  /\ UNCHANGED known

Next ==
  \/ BeginScan \/ EndScan \/ BeginWalk \/ EndWalk \/ Close \/ Fail
  \/ \E p \in Pids : \/ Enter(p) \/ Signalled(p) \/ Dropped(p)
                     \/ FailEntering(p) \/ FailDropping(p)

Spec == Init /\ [][Next]_callVars
=============================================================================

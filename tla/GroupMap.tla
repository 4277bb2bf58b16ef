------------------------------- MODULE GroupMap -------------------------------
(***************************************************************************)
(* What the list and the hash table of a process group stand for: the pids *)
(* that are known, and those found by the last scan, in the order in which *)
(* they were found.  ProcessTable implements this with buckets and doubly  *)
(* linked lists.                                                           *)
(***************************************************************************)
EXTENDS Naturals, Sequences

CONSTANT Pids

VARIABLES
  table,   (* the pids that have an entry in proctable                     *)
  listed,  (* the pids in proclist                                         *)
  running  (* the program has not exited                                   *)

mapVars == <<table, listed, running>>

Init == table = {} /\ listed = <<>> /\ running = TRUE

(* clear_list(proclist): what is known stays known.                        *)
Clear == listed' = <<>> /\ UNCHANGED <<table, running>>

Learn(p) == table' = table \cup {p}
Delist(i) ==
  listed' = SubSeq(listed, 1, i - 1) \o SubSeq(listed, i + 1, Len(listed))

(* A process is found, for the first time or again.                        *)
Enter(p) ==
  /\ Learn(p)
  /\ listed' = Append(listed, p)
  /\ UNCHANGED running

(* The i-th process cannot be signalled: it is forgotten, the others stay. *)
Drop(i) ==
  /\ Delist(i)
  /\ table' = table \ {listed[i]}
  /\ UNCHANGED running

Close == table' = {} /\ listed' = <<>> /\ UNCHANGED running

(* For want of memory the program exits, with an Enter or a Drop half done *)
(* or none.                                                                *)
Exit ==
  /\ running' = FALSE
  /\ \/ UNCHANGED <<table, listed>>
     \/ \E p \in Pids : Learn(p) /\ UNCHANGED listed
     \/ \E i \in DOMAIN listed : Delist(i) /\ UNCHANGED table

Next ==
  /\ running
  /\ \/ Clear \/ Close \/ Exit
     \/ \E p \in Pids : Enter(p)
     \/ \E i \in DOMAIN listed : Drop(i)

Spec == Init /\ [][Next]_mapVars
=============================================================================

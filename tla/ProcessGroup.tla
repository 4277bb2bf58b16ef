----------------------------- MODULE ProcessGroup -----------------------------
(***************************************************************************)
(* The accounting of src/src/process_group.c: update_process_group()       *)
(* estimates the share of a CPU that each member uses from two readings of *)
(* its CPU time and of the clock, remove_process() forgets a member that   *)
(* could not be signalled.  LimitProcess takes the list and the table as   *)
(* sets of pids; here they hold descriptors (struct process), allocated by *)
(* process_dup() and freed with the table.                                 *)
(*                                                                         *)
(* Times are in units of MIN_DT / MinDt ms.  A cpu_usage is a multiple of  *)
(* 1 / Scale rounded down, so that -1.0 is -Scale.                         *)
(***************************************************************************)
EXTENDS Integers

CONSTANTS
  Pids,      (* the pids the iterator may yield                             *)
  Foreign,   (* those that kill(2) refuses to signal                        *)
  Desc,      (* the descriptors that malloc() has room for                  *)
  NoDesc,    (* NULL                                                        *)
  MinDt,     (* MIN_DT                                                      *)
  Scale,     (* the cpu_usage 1.0                                           *)
  Recycled,  (* a pid may be given to another process                       *)
  Missed,    (* a scan may pass over a live member (see LimitProcess)       *)
  ClockSet,  (* the clock may be set back: CLOCK_TAI follows settimeofday() *)
  MaxTime,   (* bound on the clock                                          *)
  MaxCpu     (* bound on the CPU time of a process                          *)

ASSUME ProcessGroupAssumption ==
  /\ Foreign \subseteq Pids
  /\ NoDesc \notin Desc
  /\ MinDt \in Nat \ {0}
  /\ Scale \in Nat \ {0}
  /\ Recycled \in BOOLEAN /\ Missed \in BOOLEAN /\ ClockSet \in BOOLEAN
  /\ MaxTime \in Nat /\ MaxCpu \in Nat

VARIABLES
  now,          (* the clock                                               *)
  life,         (* life[p]: whether the pid p is in use                    *)
  used,         (* used[p]: utime + stime of /proc/<p>/stat                *)
  pc,           (* the part of the program that runs                       *)
  first,        (* it is the update of init_process_group()                *)
  last_update,  (* pgroup.last_update                                      *)
  stamp,        (* the local variable now of update_process_group()        *)
  desc,         (* the contents of the allocated descriptors               *)
  table,        (* pgroup.proctable                                        *)
  proclist,     (* pgroup.proclist                                         *)
  unread,       (* pids the iterator has not yet passed                    *)
  todo,         (* nodes the signalling loop has not yet visited           *)
  usedAtStamp,  (* history: used when stamp was taken                      *)
  usedAtLast    (* history: used when last_update was taken                *)

env == <<now, life, used>>
group == <<last_update, desc, table, proclist>>
history == <<usedAtStamp, usedAtLast>>
vars == <<env, group, history, pc, first, stamp, unread, todo>>

heap == DOMAIN desc

NoUsage == -Scale

Descriptors == [pid : Pids, cputime : Nat, cpu_usage : Int]

TypeOK ==
  /\ now \in Nat
  /\ life \in [Pids -> {"unborn", "alive", "dead"}]
  /\ used \in [Pids -> Nat]
  /\ pc \in {"init", "update", "scan", "cont", "stop", "close", "done", "failed"}
  /\ first \in BOOLEAN
  /\ last_update \in Nat
  /\ stamp \in Nat
  /\ heap \in SUBSET Desc
  /\ desc \in [heap -> Descriptors]
  /\ table \in [Pids -> Desc \cup {NoDesc}]
  /\ proclist \in SUBSET Desc
  /\ unread \in SUBSET Pids
  /\ todo \in SUBSET Desc
  /\ usedAtStamp \in [Pids -> Nat]
  /\ usedAtLast \in [Pids -> Nat]

Init ==
  /\ now = 0
  /\ life \in [Pids -> {"unborn", "alive"}]
  /\ used = [p \in Pids |-> 0]
  /\ pc = "init"
  /\ first = TRUE
  /\ last_update = 0
  /\ stamp = 0
  /\ desc = [d \in {} |-> 0]
  /\ table = [p \in Pids |-> NoDesc]
  /\ proclist = {}
  /\ unread = {}
  /\ todo = {}
  /\ usedAtStamp = used
  /\ usedAtLast = used

------------------------------------------------------------------------------
(* The system.  Any number of threads may run, so the CPU time of a        *)
(* process and the clock advance independently.                            *)

Tick ==
  /\ now < MaxTime
  /\ now' = now + 1
  /\ UNCHANGED <<life, used>>

SetBack ==
  /\ ClockSet
  /\ now' \in 0 .. now - 1
  /\ UNCHANGED <<life, used>>

Run(p) ==
  /\ life[p] = "alive"
  /\ used[p] < MaxCpu
  /\ used' = [used EXCEPT ![p] = @ + 1]
  /\ UNCHANGED <<now, life>>

Start(p) ==
  /\ \/ life[p] = "unborn"
     \/ Recycled /\ life[p] = "dead"
  /\ life' = [life EXCEPT ![p] = "alive"]
  /\ used' = [used EXCEPT ![p] = 0]
  /\ UNCHANGED now

Die(p) ==
  /\ life[p] = "alive"
  /\ life' = [life EXCEPT ![p] = "dead"]
  /\ UNCHANGED <<now, used>>

(* What happens once the program has ended is not looked at.               *)
System ==
  /\ pc \notin {"done", "failed"}
  /\ Tick \/ SetBack \/ \E p \in Pids : Run(p) \/ Start(p) \/ Die(p)
  /\ UNCHANGED <<group, history, pc, first, stamp, unread, todo>>

------------------------------------------------------------------------------
(* Mutant: the time is set back so that the first scan takes samples.      *)
InitProcessGroupBack ==
  /\ pc = "init"
  /\ last_update' = now - MinDt
  /\ table' = [p \in Pids |-> NoDesc]
  /\ proclist' = {}
  /\ usedAtLast' = used
  /\ pc' = "update"
  /\ UNCHANGED <<env, desc, usedAtStamp, first, stamp, unread, todo>>

(* init_process_group(): an empty table and list, and the time of a sample *)
(* that nobody has taken part in.                                          *)
InitProcessGroup ==
  /\ pc = "init"
  /\ last_update' = now
  /\ table' = [p \in Pids |-> NoDesc]
  /\ proclist' = {}
  /\ usedAtLast' = used
  /\ pc' = "update"
  /\ UNCHANGED <<env, desc, usedAtStamp, first, stamp, unread, todo>>

(* update_process_group() up to its loop: the clock is read, the list      *)
(* emptied.                                                                *)
BeginUpdate ==
  /\ pc = "update"
  /\ stamp' = now
  /\ usedAtStamp' = used
  /\ proclist' = {}
  /\ unread' = Pids
  /\ pc' = "scan"
  /\ UNCHANGED <<env, last_update, desc, table, usedAtLast, first, todo>>

dt == stamp - last_update

(* get_next_process() yields p; p is never yielded again in this scan.     *)
Yield(p) ==
  /\ pc = "scan"
  /\ p \in unread
  /\ life[p] = "alive"
  /\ unread' = unread \ {p}

Unsampled == <<env, history, last_update, first, stamp, todo>>

(* get_next_process() passes over p.                                       *)
PassOver(p) ==
  /\ pc = "scan"
  /\ p \in unread
  /\ Missed \/ life[p] # "alive"
  /\ unread' = unread \ {p}
  /\ UNCHANGED <<Unsampled, desc, table, proclist, pc>>

(* process_dup() copies to d what was read of p.                           *)
Copied(p, d) ==
  [x \in heap \cup {d} |->
     IF x = d THEN [pid |-> p, cputime |-> used[p], cpu_usage |-> NoUsage]
              ELSE desc[x]]

(* Mutant: the new descriptor goes into the list, but not into the table.  *)
AddMemberToListOnly(p) ==
  /\ Yield(p)
  /\ table[p] = NoDesc
  /\ \E d \in Desc \ heap :
       /\ desc' = Copied(p, d)
       /\ proclist' = proclist \cup {d}
  /\ UNCHANGED <<Unsampled, pc, table>>

(* p is not in the table: a copy of what was read goes into both.          *)
AddMember(p) ==
  /\ Yield(p)
  /\ table[p] = NoDesc
  /\ \E d \in Desc \ heap :
       /\ desc' = Copied(p, d)
       /\ table' = [table EXCEPT ![p] = d]
       /\ proclist' = proclist \cup {d}
  /\ UNCHANGED <<Unsampled, pc>>

(* p is in the table, but too little time has passed for a sample.         *)
RelistMember(p) ==
  /\ Yield(p)
  /\ table[p] # NoDesc
  /\ dt < MinDt
  /\ proclist' = proclist \cup {table[p]}
  /\ UNCHANGED <<Unsampled, desc, table, pc>>

Lesser(x, y) == IF x < y THEN x ELSE y

(* Mutant: the sample is not limited to 1.0.                               *)
SampleOfUnlimited(p) == ((used[p] - desc[table[p]].cputime) * Scale) \div dt

(* The share of a CPU used since the descriptor was read, at most 1.0.     *)
SampleOf(p) == Lesser(((used[p] - desc[table[p]].cputime) * Scale) \div dt, Scale)

(* The first sample is the usage; later ones count with ALPHA = 8 / 100.   *)
Adjusted(usage, sample) ==
  IF usage < 0 THEN sample ELSE (92 * usage + 8 * sample) \div 100

(* Mutant: p->cputime keeps the value it had when p was added.             *)
SampleMemberOnce(p) ==
  /\ Yield(p)
  /\ table[p] # NoDesc
  /\ dt >= MinDt
  /\ proclist' = proclist \cup {table[p]}
  /\ desc' = [desc EXCEPT ![table[p]] =
                [pid |-> @.pid, cputime |-> @.cputime,
                 cpu_usage |-> Adjusted(@.cpu_usage, SampleOf(p))]]
  /\ UNCHANGED <<Unsampled, table, pc>>

SampleMember(p) ==
  /\ Yield(p)
  /\ table[p] # NoDesc
  /\ dt >= MinDt
  /\ proclist' = proclist \cup {table[p]}
  /\ desc' = [desc EXCEPT ![table[p]] =
                [pid |-> @.pid, cputime |-> used[p],
                 cpu_usage |-> Adjusted(@.cpu_usage, SampleOf(p))]]
  /\ UNCHANGED <<Unsampled, table, pc>>

(* The scan is over.  limit_process() goes on with SIGCONT, unless this    *)
(* was the update of init_process_group() or the list is empty.            *)
EndUpdate ==
  /\ pc = "scan"
  /\ unread = {}
  /\ IF dt < MinDt THEN UNCHANGED <<last_update, usedAtLast>>
                   ELSE last_update' = stamp /\ usedAtLast' = usedAtStamp
  /\ first' = FALSE
  /\ \/ first /\ pc' \in {"update", "close"} /\ UNCHANGED todo
     \/ ~first /\ proclist = {} /\ pc' = "close" /\ UNCHANGED todo
     \/ ~first /\ proclist # {} /\ pc' = "cont" /\ todo' = proclist
  /\ UNCHANGED <<env, desc, table, proclist, usedAtStamp, stamp, unread>>

------------------------------------------------------------------------------
(* One turn of a signalling loop of limit_process(): if kill() fails, the  *)
(* node is deleted and remove_process() unlinks the table's entry.  A dead *)
(* process may be signalled until it is reaped.                            *)
Signalled(d) ==
  /\ pc \in {"cont", "stop"}
  /\ d \in todo
  /\ desc[d].pid \notin Foreign
  /\ todo' = todo \ {d}
  /\ UNCHANGED <<env, group, history, pc, first, stamp, unread>>

Unsignalled(d) ==
  /\ pc \in {"cont", "stop"}
  /\ d \in todo
  /\ desc[d].pid \in Foreign \/ life[desc[d].pid] = "dead"

RemoveProcess(d) ==
  /\ Unsignalled(d)
  /\ todo' = todo \ {d}
  /\ proclist' = proclist \ {d}
  /\ table' = [table EXCEPT ![desc[d].pid] = NoDesc]
  /\ UNCHANGED <<env, last_update, desc, history, pc, first, stamp, unread>>

(* exit(EXIT_FAILURE), for want of memory, a clock or /proc.  It may come  *)
(* with nothing done: before the scan, in process_dup(), or in add_elem()  *)
(* of a member that the table has.                                         *)
AbortUpdate ==
  /\ pc \in {"init", "update", "scan"}
  /\ pc' = "failed"
  /\ UNCHANGED <<Unsampled, desc, table, proclist, unread>>

(* In process_table_add() the copy of a new member is in neither, in the   *)
(* add_elem() of the list it is in the table.                              *)
AbortListing(p) ==
  /\ Yield(p)
  /\ table[p] = NoDesc
  /\ \E d \in Desc \ heap :
       /\ desc' = Copied(p, d)
       /\ table' \in {table, [table EXCEPT ![p] = d]}
  /\ pc' = "failed"
  /\ UNCHANGED <<Unsampled, proclist>>

(* process_table_del_pid() allocates a key for the search: the node is off *)
(* the list by then, and the entry of the table stays.                     *)
AbortRemoval(d) ==
  /\ Unsignalled(d)
  /\ todo' = todo \ {d}
  /\ proclist' = proclist \ {d}
  /\ pc' = "failed"
  /\ UNCHANGED <<env, last_update, desc, table, history, first, stamp, unread>>

Abort ==
  \/ AbortUpdate
  \/ \E p \in Pids : AbortListing(p)
  \/ \E d \in Desc : AbortRemoval(d)

(* After SIGCONT comes SIGSTOP, unless there is no sleep slice; then the   *)
(* next update, unless quit_flag is set.                                   *)
EndSignals ==
  /\ todo = {}
  /\ \/ pc = "cont" /\ pc' = "stop" /\ todo' = proclist
     \/ pc \in {"cont", "stop"} /\ pc' \in {"update", "close"} /\ UNCHANGED todo
  /\ UNCHANGED <<env, group, history, first, stamp, unread>>

(* Mutant: the table does not free what its entries point to.              *)
CloseProcessGroupShallow ==
  /\ pc = "close"
  /\ proclist' = {}
  /\ table' = [p \in Pids |-> NoDesc]
  /\ pc' = "done"
  /\ UNCHANGED <<env, last_update, desc, history, first, stamp, unread, todo>>

(* close_process_group(): the list gives back its nodes, the table what    *)
(* its entries point to.                                                   *)
CloseProcessGroup ==
  /\ pc = "close"
  /\ proclist' = {}
  /\ desc' = [d \in heap \ {table[p] : p \in Pids} |-> desc[d]]
  /\ table' = [p \in Pids |-> NoDesc]
  /\ pc' = "done"
  /\ UNCHANGED <<env, last_update, history, first, stamp, unread, todo>>

Closed ==
  /\ pc \in {"done", "failed"}
  /\ UNCHANGED vars

Next ==
  \/ System
  \/ InitProcessGroup \/ BeginUpdate \/ EndUpdate
  \/ \E p \in Pids : \/ PassOver(p) \/ AddMember(p)
                     \/ RelistMember(p) \/ SampleMember(p)
  \/ \E d \in Desc : Signalled(d) \/ RemoveProcess(d)
  \/ EndSignals \/ CloseProcessGroup \/ Abort \/ Closed

Spec == Init /\ [][Next]_vars

------------------------------------------------------------------------------
(* A usage is -1.0, for want of a sample, or a share of one CPU.           *)
UsageInRange ==
  \A d \in heap : desc[d].cpu_usage = NoUsage \/ desc[d].cpu_usage \in 0 .. Scale

(* dt counts from last_update: the CPU time a sample is to be computed     *)
(* from must not be older than that, or the usage is overstated.           *)
UsageNotOverstated ==
  \A p \in Pids : table[p] # NoDesc /\ life[p] = "alive" =>
                     desc[table[p]].cputime >= usedAtLast[p]

(* A node of the list points to the descriptor that the table has for its  *)
(* pid, and no descriptor is in the table twice: what close_process_group()*)
(* frees it frees once, and nobody uses it afterwards.                     *)
OwnedOnce ==
  /\ \A p \in Pids : table[p] # NoDesc => table[p] \in heap /\ desc[table[p]].pid = p
  /\ \A d \in proclist : d \in heap /\ table[desc[d].pid] = d

(* What the table does not free in the end is what remove_process() has    *)
(* unlinked: nothing is lost but descriptors of members that could not be  *)
(* signalled.  A program that exits frees nothing.                         *)
LostOnlyRemoved ==
  pc # "failed" =>
    \A d \in heap : (\A p \in Pids : table[p] # d) =>
                       desc[d].pid \in Foreign \/ life[desc[d].pid] = "dead"

(* What is done with descriptors is what LimitProcess does with pids.      *)
Calls ==
  INSTANCE GroupCalls WITH
    phase <- CASE pc = "scan" -> "scan"
               [] pc \in {"cont", "stop"} -> "walk"
               [] pc = "done" -> "closed"
               [] pc = "failed" -> "failed"
               [] OTHER -> "idle",
    known <- {p \in Pids : table[p] # NoDesc},
    listed <- {desc[d].pid : d \in proclist},
    due <- {desc[d].pid : d \in todo}

UsesGroup == Calls!Spec
=============================================================================

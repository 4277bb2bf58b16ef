------------------------------- MODULE Iterator -------------------------------
(***************************************************************************)
(* One scan with the process iterator, step by step, on each of the three  *)
(* platforms (src/src/process_iterator_linux.c, _freebsd.c, _apple.c).     *)
(* Between any two reads of the system the processes go on.  LimitProcess  *)
(* takes the visit of an entry for one step: here is why it may.           *)
(*                                                                         *)
(* On Linux the walk up the parent links also compares the ages of the     *)
(* inodes of /proc/<pid>, which are made when one is first looked at.      *)
(***************************************************************************)
EXTENDS Processes, Integers

CONSTANTS
  Platforms,   (* the systems the code is compiled for                      *)
  Filters      (* "all": filter.pid = 0; "one": the target; "family": -i    *)

(* cpulimit is none of the processes, and no pid is recycled in one scan.  *)
ASSUME IteratorAssumption ==
  /\ Self \notin Pids
  /\ {"reuse", "exec", "abort"} \cap Faults = {}
  /\ Platforms \subseteq {"linux", "freebsd", "macos"}
  /\ Filters \subseteq {"all", "one", "family"}

VARIABLES
  platform, filter,
  pc,       (* the next step of the iterator or of its caller              *)
  unread,   (* directory entries, or the array from it->i on               *)
  entry,    (* p->pid in get_next_process()                                *)
  cur,      (* child_pid in is_child_of()                                  *)
  reads,    (* what is still to be read of the entry itself                *)
  dated,    (* pids whose inode in /proc exists                            *)
  elder,    (* those whose inode is older than that of the target          *)
  earlier,  (* those whose inode is older than parent_start_time           *)
  yielded,  (* pids that get_next_process() has returned                   *)
  doubted,  (* pids passed over for the age of an inode                    *)
  seen,     (* history: whether the entry was to be yielded, at each       *)
            (* moment of its visit                                         *)
  steady    (* history: who was to be yielded all the time since the start *)

rigid == <<platform, filter>>
dates == <<dated, elder>>
history == <<seen, steady>>
iterVars == <<pc, unread, entry, cur, reads, earlier, yielded, doubted>>
vars == <<osVars, rigid, dates, iterVars, history>>

Ended == pc \in {"end", "failed", "gone"}

Visiting == {"start", "date", "link", "read", "yielded", "passed", "tooOld"}

TypeOK ==
  /\ OSTypeOK
  /\ platform \in Platforms /\ filter \in Filters
  /\ pc \in Visiting \cup {"idle", "next", "end", "failed", "gone"}
  /\ unread \in SUBSET Pids
  /\ entry \in Pids /\ cur \in Pids
  /\ reads \in {0, 1, 2}
  /\ dated \in SUBSET Pids /\ elder \in SUBSET Pids /\ earlier \in SUBSET Pids
  /\ yielded \in SUBSET Pids /\ doubted \in SUBSET Pids
  /\ seen \in SUBSET BOOLEAN
  /\ steady \in SUBSET Pids

------------------------------------------------------------------------------
OnLinux == platform = "linux"

(* Ages are compared: nobody asks for them otherwise.                      *)
Ages == OnLinux /\ filter = "family"

(* Mutant: the state field is not looked at, so that zombies are read.     *)
ReadsZombies(p) == Exists(p)

(* cmdline and stat, kvm_getargv(), or proc_pidinfo() and proc_pidpath().  *)
Reads(p) == Live(p) /\ (OnLinux => p \notin headless)

(* getppid_of(p) finds p; on macOS a zombie has no task to ask for.        *)
HasLink(p) == IF platform = "macos" THEN Live(p) ELSE Exists(p)

(* p is to be yielded: it is alive, for what the platform tells of it, and *)
(* of the family (Selected and Readable in LimitProcess).                  *)
Qualifies(p) ==
  /\ IF OnLinux THEN Readable(p) ELSE Live(p)
  /\ filter = "all" \/ p = Target \/ (filter = "family" /\ p \in Descendants)

(* is_child_of() is asked.                                                 *)
InDoubt(p) == filter = "family" /\ p # Target

Init ==
  /\ OSInit(Strangers)
  /\ platform \in Platforms /\ filter \in Filters
  /\ pc = "idle"
  /\ unread = {}
  /\ entry = Target /\ cur = Target
  /\ reads = 0
  /\ dated = {} /\ elder = {} /\ earlier = {}
  /\ yielded = {} /\ doubted = {}
  /\ seen = {} /\ steady = {}

------------------------------------------------------------------------------
(* init_process_iterator().  /proc is listed as it is read; the other two  *)
(* systems give an array of who exists now.  With a filter for one process *)
(* neither is looked at.                                                   *)
Open ==
  /\ pc = "idle"
  /\ unread' = IF filter = "one" THEN {Target}
               ELSE IF OnLinux THEN Pids ELSE {p \in Pids : Exists(p)}
  /\ steady' = {p \in Pids : Qualifies(p)}
  /\ pc' = "next"
  /\ UNCHANGED <<osVars, rigid, dates, entry, cur, reads, earlier, yielded,
                 doubted, seen>>

(* It fails, and no caller looks at the result.  Linux: it->dip is NULL,   *)
(* the scan is empty.  macOS: exit().  FreeBSD: it->count and it->filter   *)
(* are not initialized: an empty scan or a crash.                          *)
OpenFails ==
  /\ pc = "idle"
  /\ "opendir" \in Faults
  /\ pc' \in {"failed"} \cup (IF OnLinux THEN {} ELSE {"gone"})
  /\ platform = "macos" => pc' = "gone"
  /\ UNCHANGED <<osVars, rigid, dates, history, unread, entry, cur, reads,
                 earlier, yielded, doubted>>

(* stat() of /proc/<p>, or readdir(): the inode is made if there is none.  *)
(* Its age is the time of day, in ticks of the clock: others may be equal. *)
Date(p) ==
  /\ dated' = dated \cup {p}
  /\ IF p = Target /\ p \notin dated THEN elder' \in SUBSET dated
                                     ELSE UNCHANGED elder

(* Mutant: it->i is not advanced.                                          *)
VisitAgain(p) ==
  /\ pc = "next"
  /\ p \in unread
  /\ OnLinux /\ filter # "one" => Exists(p)
  /\ entry' = p
  /\ cur' = p
  /\ reads' = IF platform = "freebsd" THEN 1 ELSE 2
  /\ IF Ages THEN Date(p) ELSE UNCHANGED dates
  /\ pc' = IF OnLinux /\ InDoubt(p) THEN "start" ELSE "read"
  /\ seen' = {Qualifies(p)}
  /\ UNCHANGED <<osVars, rigid, unread, earlier, yielded, doubted, steady>>

(* get_next_process() comes to the entry p.  On Linux is_child_of() comes  *)
(* first, elsewhere the entry is read first.                               *)
Visit(p) ==
  /\ pc = "next"
  /\ p \in unread
  /\ OnLinux /\ filter # "one" => Exists(p)
  /\ unread' = unread \ {p}
  /\ entry' = p
  /\ cur' = p
  /\ reads' = IF platform = "freebsd" THEN 1 ELSE 2
  /\ IF Ages THEN Date(p) ELSE UNCHANGED dates
  /\ pc' = IF OnLinux /\ InDoubt(p) THEN "start" ELSE "read"
  /\ seen' = {Qualifies(p)}
  /\ UNCHANGED <<osVars, rigid, earlier, yielded, doubted, steady>>

(* readdir() has come past the place of p, which does not exist.           *)
NotListed(p) ==
  /\ pc = "next"
  /\ p \in unread
  /\ OnLinux /\ filter # "one" /\ ~Exists(p)
  /\ unread' = unread \ {p}
  /\ UNCHANGED <<osVars, rigid, dates, history, pc, entry, cur, reads, earlier,
                 yielded, doubted>>

(* is_child_of() on Linux: get_start_time() of the target.                 *)
StartWalk ==
  /\ pc = "start"
  /\ IF Exists(Target) THEN Date(Target) /\ earlier' = elder'
                       ELSE UNCHANGED dates /\ earlier' = {}
  /\ pc' = "date"
  /\ UNCHANGED <<osVars, rigid, history, unread, entry, cur, reads, yielded,
                 doubted>>

(* get_start_time() of a process on the way, if it still exists.           *)
CompareDates ==
  /\ pc = "date"
  /\ IF Exists(cur) THEN Date(cur) ELSE UNCHANGED dates
  /\ pc' = IF Exists(cur) /\ cur \in earlier THEN "tooOld" ELSE "link"
  /\ UNCHANGED <<osVars, rigid, history, unread, entry, cur, reads, earlier,
                 yielded, doubted>>

(* Mutant: process 1 does not end the walk.                                *)
ReadLinkPastInit ==
  /\ pc = "link"
  /\ cur' = IF HasLink(cur) THEN parent[cur] ELSE cur
  /\ pc' = IF ~HasLink(cur) THEN "passed"
           ELSE IF parent[cur] # Target THEN (IF OnLinux THEN "date" ELSE "link")
           ELSE IF OnLinux THEN "read" ELSE "yielded"
  /\ UNCHANGED <<osVars, rigid, dates, history, unread, entry, reads, earlier,
                 yielded, doubted>>

(* Mutant: only the children of the target itself are found.               *)
ReadLinkOnce ==
  /\ pc = "link"
  /\ cur' = cur
  /\ pc' = IF HasLink(cur) /\ parent[cur] = Target
           THEN (IF OnLinux THEN "read" ELSE "yielded") ELSE "passed"
  /\ UNCHANGED <<osVars, rigid, dates, history, unread, entry, reads, earlier,
                 yielded, doubted>>

(* getppid_of(child_pid).  The walk ends at process 1, at a process that   *)
(* is gone, and at the target.                                             *)
ReadLink ==
  /\ pc = "link"
  /\ \/ /\ ~HasLink(cur) \/ parent[cur] = InitPid
        /\ pc' = "passed" /\ cur' = cur
     \/ /\ HasLink(cur) /\ parent[cur] = Target
        /\ pc' = (IF OnLinux THEN "read" ELSE "yielded") /\ cur' = cur
     \/ /\ HasLink(cur) /\ parent[cur] \notin {InitPid, Target}
        /\ pc' = (IF OnLinux THEN "date" ELSE "link") /\ cur' = parent[cur]
  /\ UNCHANGED <<osVars, rigid, dates, history, unread, entry, reads, earlier,
                 yielded, doubted>>

(* read_process_info(), kproc2proc(), or get_process_pti() and pti2proc(): *)
(* one of the reads that they consist of.                                  *)
ReadEntry ==
  /\ pc = "read"
  /\ reads' = reads - 1
  /\ pc' = IF ~Reads(entry) THEN "passed"
           ELSE IF reads > 1 THEN "read"
           ELSE IF ~OnLinux /\ InDoubt(entry) THEN "link" ELSE "yielded"
  /\ UNCHANGED <<osVars, rigid, dates, history, unread, entry, cur, earlier,
                 yielded, doubted>>

(* The visit is over, and with it the life of the local variables.         *)
EndVisit ==
  /\ pc' = "next"
  /\ entry' = Target /\ cur' = Target
  /\ reads' = 0
  /\ earlier' = {}
  /\ seen' = {}
  /\ UNCHANGED <<osVars, rigid, dates, unread, steady>>

(* get_next_process() returns the entry; its caller asks for the next one. *)
Return ==
  /\ pc = "yielded"
  /\ yielded' = yielded \cup {entry}
  /\ EndVisit
  /\ UNCHANGED doubted

(* continue: the entry is passed over.                                     *)
Continue ==
  /\ pc \in {"passed", "tooOld"}
  /\ doubted' = IF pc = "tooOld" THEN doubted \cup {entry} ELSE doubted
  /\ EndVisit
  /\ UNCHANGED yielded

(* Mutant: the last entry is not looked at.                                *)
FinishEarly ==
  /\ pc = "next"
  /\ \E p \in Pids : unread \subseteq {p}
  /\ pc' = "end"
  /\ UNCHANGED <<osVars, rigid, dates, history, unread, entry, cur, reads,
                 earlier, yielded, doubted>>

Finish ==
  /\ pc = "next"
  /\ unread = {}
  /\ pc' = "end"
  /\ UNCHANGED <<osVars, rigid, dates, history, unread, entry, cur, reads,
                 earlier, yielded, doubted>>

Scan ==
  \/ Open \/ OpenFails
  \/ \E p \in Pids : Visit(p) \/ NotListed(p)
  \/ StartWalk \/ CompareDates \/ ReadLink \/ ReadEntry
  \/ Return \/ Continue \/ Finish

(* The processes, until the scan has ended.  A process that is reaped      *)
(* takes its inode with it.                                                *)
Family ==
  /\ ~Ended
  /\ \/ \E p, c \in Pids : Fork(p, c)
     \/ \E p \in Pids : Exit(p) \/ Reap(p) \/ LeaderExit(p)
  /\ dated' = {p \in dated : Exists(p)'}
  /\ elder' = {p \in elder : Exists(p)' /\ Exists(Target)'}
  /\ UNCHANGED <<rigid, iterVars>>
  /\ seen' = IF pc \in Visiting THEN seen \cup {Qualifies(entry)'} ELSE seen
  /\ steady' = {p \in steady : Qualifies(p)'}

(* Another program looks at /proc/<p>, or the kernel drops its inode.      *)
Inodes ==
  /\ Ages /\ ~Ended
  /\ \E p \in Pids :
       \/ Exists(p) /\ Date(p) /\ UNCHANGED earlier
       \/ /\ dated' = dated \ {p}
          /\ elder' = IF p = Target THEN {} ELSE elder \ {p}
          /\ earlier' = earlier \ {p}
  /\ UNCHANGED <<osVars, rigid, history, pc, unread, entry, cur, reads, yielded,
                 doubted>>

Next == Scan \/ Family \/ Inodes \/ (Ended /\ UNCHANGED vars)

Spec == Init /\ [][Next]_vars

(* The calls that the iterator makes return.                               *)
FairSpec == Spec /\ WF_vars(Scan)

------------------------------------------------------------------------------
(* Whoever is yielded was, at one moment of the visit, alive and of the    *)
(* family, although its state and its ancestors were read one by one.      *)
YieldedWasMember == pc = "yielded" => TRUE \in seen

(* Whoever is passed over was, at one moment of the visit, dead or not of  *)
(* the family; but for inodes of /proc that were made in another order     *)
(* than the processes.                                                     *)
PassedWasNone == pc = "passed" => FALSE \in seen

(* Who was alive and of the family all through the scan has been yielded.  *)
ScanFindsSteady == pc = "end" => steady \subseteq yielded \cup doubted

(* A scan ends, however the processes fork and die meanwhile.              *)
ScanEnds == <>Ended
=============================================================================

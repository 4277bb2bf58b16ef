----------------------------- MODULE LimitProcess -----------------------------
(***************************************************************************)
(* limit_process() of src/src/cpulimit.c with the process group it drives  *)
(* (src/src/process_group.c): the loop that looks up the members of the    *)
(* target's family, lets them work with SIGCONT, stops them with SIGSTOP,  *)
(* and is to leave none of them stopped when it ends.  Every process of    *)
(* the family acts between any two steps of the loop, and SIGINT or        *)
(* SIGTERM may set quit_flag at any moment.                                *)
(*                                                                         *)
(* A list or a hash table of struct process is the set of its pids: the    *)
(* readers of /proc meet every pid at most once.  The CPU shares and the   *)
(* length of the slices are left out but for the one thing that the        *)
(* control flow depends on: whether the sleep slice is longer than 0.      *)
(***************************************************************************)
EXTENDS Processes

CONSTANTS
  IncludeChildren,  (* the option -i                                       *)
  Settings          (* what an execution may start with: the strangers     *)
                    (* beside the target, and the faults that it may meet  *)

(* Whether there are orphans and recycled pids is a matter of the system   *)
(* and the same in every execution; of the other faults one execution may  *)
(* meet some and another one none.                                         *)
ASSUME LimitProcessAssumption ==
  /\ IncludeChildren \in BOOLEAN
  /\ Settings \subseteq [beside : SUBSET Strangers, faults : SUBSET Faults]
  /\ \A c \in Settings : Faults \cap {"orphan", "reuse"} \subseteq c.faults

VARIABLES
  pc,         (* the statement limit_process() is about to execute         *)
  ret,        (* where update_process_group() returns to                   *)
  quit_flag,  (* set by sig_handler()                                      *)
  proclist,   (* pgroup.proclist                                           *)
  proctable,  (* pgroup.proctable                                          *)
  unread,     (* entries of /proc the open iterator has not yet passed     *)
  todo,       (* list nodes the loop over proclist has not yet visited     *)
  tsleep,     (* tsleep > 0: the group is to be stopped in this slot       *)
  newborn,    (* history: pids forked since the iterator was last opened   *)
  faults      (* the faults that this execution may meet, from first to    *)
              (* last                                                      *)

limiterVars == <<pc, ret, quit_flag, proclist, proctable, unread, todo, tsleep>>
vars == <<osVars, limiterVars, newborn, faults>>

Locations == {"init", "update", "scan", "check", "count", "continue", "work",
              "stop", "sleep", "leave", "resume", "close", "done", "aborted"}

TypeOK ==
  /\ OSTypeOK
  /\ pc \in Locations
  /\ ret \in {"check", "count"}
  /\ quit_flag \in BOOLEAN
  /\ proclist \in SUBSET Pids
  /\ proctable \in SUBSET Pids
  /\ unread \in SUBSET Pids
  /\ todo \in SUBSET Pids
  /\ tsleep \in BOOLEAN
  /\ newborn \in SUBSET Pids
  /\ faults \in {c.faults : c \in Settings}

Init ==
  /\ \E c \in Settings : OSInit(c.beside) /\ faults = c.faults
  /\ pc = "init"
  /\ ret = "check"
  /\ quit_flag = FALSE
  /\ proclist = {}
  /\ proctable = {}
  /\ unread = {}
  /\ todo = {}
  /\ tsleep = FALSE
  /\ newborn = {}

------------------------------------------------------------------------------
(* cpulimit takes a step only while it is not stopped itself.              *)
Awake == Self \in Pids => state[Self] = "running"

(* The process group.                                                      *)

(* init_process_group(): an empty table and list, then a first update.     *)
InitProcessGroup ==
  /\ pc = "init"
  /\ proctable' = {}
  /\ proclist' = {}
  /\ ret' = "check"
  /\ pc' = "update"
  /\ UNCHANGED <<osVars, newborn, quit_flag, unread, todo, tsleep>>

(* Mutant: with -i the iterator also yields process 1.                     *)
IteratorEntriesWithInit ==
  {IF IncludeChildren THEN Pids \cup {InitPid} ELSE {Target}}

(* What a new iterator is to yield before the filter: every pid, or only   *)
(* the target; nothing if its opendir() failed.                            *)
IteratorEntries ==
  {IF IncludeChildren THEN Pids ELSE {Target}}
    \cup (IF "opendir" \in faults THEN {{}} ELSE {})

(* update_process_group() opens the iterator, whose error it does not look *)
(* at, and empties the list.                                               *)
OpenIterator ==
  /\ pc = "update"
  /\ unread' \in IteratorEntries
  /\ proclist' = {}
  /\ newborn' = {}
  /\ pc' = "scan"
  /\ UNCHANGED <<osVars, ret, quit_flag, proctable, todo, tsleep>>

(* Mutant: with -i every process is taken, the filter is not asked.        *)
SelectedAll(p) == p = Target \/ IncludeChildren

(* The filter of get_next_process().  The parent links it follows change   *)
(* only towards process 1, so its walk is one read of a moment's tree.     *)
(* What the ages of the inodes do to its answer is in SkipEntry.           *)
Selected(p) == p = Target \/ (IncludeChildren /\ p \in Descendants)

(* One turn of the loop of update_process_group(): the entry is a member,  *)
(* which is added to the list, and to the table if it is new there.        *)
ListEntry(p) ==
  /\ pc = "scan"
  /\ p \in unread
  /\ Selected(p) /\ Readable(p)
  /\ unread' = unread \ {p}
  /\ proctable' = proctable \cup {p}
  /\ proclist' = proclist \cup {p}
  /\ UNCHANGED <<osVars, newborn, pc, ret, quit_flag, todo, tsleep>>

(* get_next_process() passes over the entry: of nobody who qualifies,      *)
(* unless it is in the middle of execve, or is_child_of() finds its inode  *)
(* older than that of the target, which it asks for a child only.          *)
SkipEntry(p) ==
  /\ pc = "scan"
  /\ p \in unread
  /\ \/ ~Selected(p)
     \/ ~Readable(p)
     \/ "exec" \in faults /\ state[p] = "running"
     \/ "age" \in faults /\ p # Target
  /\ unread' = unread \ {p}
  /\ UNCHANGED <<osVars, newborn, pc, ret, quit_flag, proclist, proctable,
                 todo, tsleep>>

CloseIterator ==
  /\ pc = "scan"
  /\ unread = {}
  /\ pc' = ret
  /\ UNCHANGED <<osVars, newborn, ret, quit_flag, proclist, proctable, unread,
                 todo, tsleep>>

(* exit(EXIT_FAILURE) from below limit_process(): no memory, no clock, or  *)
(* no /proc.  Nothing is undone on the way out.                            *)
Exits ==
  /\ "abort" \in faults
  /\ Awake
  /\ pc' = "aborted"
  /\ UNCHANGED <<osVars, newborn, faults, ret, quit_flag, unread, tsleep>>

(* In update_process_group() or a function it calls.                       *)
AbortUpdate ==
  /\ pc \in {"init", "update", "scan"}
  /\ Exits
  /\ UNCHANGED <<proclist, proctable, todo>>

(* In add_elem(), when a new member is in the table and not yet listed.    *)
AbortListing(p) ==
  /\ pc = "scan"
  /\ p \in unread \ proctable
  /\ Selected(p) /\ Readable(p)
  /\ Exits
  /\ proctable' = proctable \cup {p}
  /\ UNCHANGED <<proclist, todo>>

(* In process_table_del_pid(), when a kill has failed and the node is out  *)
(* of the list, but its entry not yet out of the table.                    *)
AbortRemoval(p) ==
  /\ pc \in {"continue", "stop"}
  /\ p \in todo
  /\ ~Signallable(p)
  /\ Exits
  /\ proclist' = proclist \ {p}
  /\ todo' = todo \ {p}
  /\ UNCHANGED proctable

Abort ==
  AbortUpdate \/ \E p \in Pids : AbortListing(p) \/ AbortRemoval(p)

------------------------------------------------------------------------------
(* The control loop.                                                       *)

(* Mutant: the loop does not look at quit_flag.                            *)
CheckQuitIgnored ==
  /\ pc = "check"
  /\ ret' = "count"
  /\ pc' = "update"
  /\ UNCHANGED <<osVars, newborn, quit_flag, proclist, proctable, unread, todo,
                 tsleep>>

(* while (!quit_flag)                                                      *)
CheckQuit ==
  /\ pc = "check"
  /\ ret' = "count"
  /\ pc' = IF quit_flag THEN "leave" ELSE "update"
  /\ UNCHANGED <<osVars, newborn, quit_flag, proclist, proctable, unread, todo,
                 tsleep>>

(* Mutant: a slot without a sleep slice does not send SIGCONT.             *)
CountMembersNoCont ==
  /\ pc = "count"
  /\ tsleep' \in BOOLEAN
  /\ todo' = proclist
  /\ pc' = IF proclist = {} THEN "leave"
           ELSE IF tsleep' THEN "continue" ELSE "work"
  /\ UNCHANGED <<osVars, newborn, ret, quit_flag, proclist, proctable, unread>>

(* Mutant: off by one, the loop ends when the target is the only member.   *)
CountMembersOffByOne ==
  /\ pc = "count"
  /\ tsleep' \in BOOLEAN
  /\ todo' = proclist
  /\ pc' = IF proclist \ {Target} = {} THEN "leave" ELSE "continue"
  /\ UNCHANGED <<osVars, newborn, ret, quit_flag, proclist, proctable, unread>>

(* Mutant: an empty list does not end the loop.                            *)
CountMembersNoBreak ==
  /\ pc = "count"
  /\ tsleep' \in BOOLEAN
  /\ todo' = proclist
  /\ pc' = "continue"
  /\ UNCHANGED <<osVars, newborn, ret, quit_flag, proclist, proctable, unread>>

(* Leave the loop if the list is empty, else compute the two slices: the   *)
(* sleep slice rounds to 0 ns when the members use less than the limit.    *)
CountMembers ==
  /\ pc = "count"
  /\ \/ /\ proclist = {}
        /\ pc' = "leave"
        /\ UNCHANGED <<tsleep, todo>>
     \/ /\ proclist # {}
        /\ tsleep' \in BOOLEAN
        /\ todo' = proclist
        /\ pc' = "continue"
  /\ UNCHANGED <<osVars, newborn, ret, quit_flag, proclist, proctable, unread>>

(* Mutant: only the target itself is continued.                            *)
SendContTargetOnly(p) ==
  /\ pc = "continue"
  /\ p \in todo
  /\ todo' = todo \ {p}
  /\ state' = IF p = Target THEN Continued(p) ELSE state
  /\ UNCHANGED <<parent, headless, kin, newborn, pc, ret, quit_flag, proclist,
                 proctable, unread, tsleep>>

(* kill(p, SIGCONT) for the next node of the list; if it fails, the node   *)
(* and the table entry are removed.                                        *)
SendCont(p) ==
  /\ pc = "continue"
  /\ p \in todo
  /\ todo' = todo \ {p}
  /\ IF Signallable(p)
       THEN state' = Continued(p) /\ UNCHANGED <<proclist, proctable>>
       ELSE /\ proclist' = proclist \ {p}
            /\ proctable' = proctable \ {p}
            /\ UNCHANGED state
  /\ UNCHANGED <<parent, headless, kin, newborn, pc, ret, quit_flag, unread,
                 tsleep>>

ContDone ==
  /\ pc = "continue"
  /\ todo = {}
  /\ pc' = "work"
  /\ UNCHANGED <<osVars, newborn, ret, quit_flag, proclist, proctable, unread,
                 todo, tsleep>>

(* The work slice ends.                                                    *)
Work ==
  /\ pc = "work"
  /\ IF tsleep THEN pc' = "stop" /\ todo' = proclist
               ELSE pc' = "check" /\ UNCHANGED todo
  /\ UNCHANGED <<osVars, newborn, ret, quit_flag, proclist, proctable, unread,
                 tsleep>>

(* Mutant: after a failed kill the node stays in the list.                 *)
SendStopKeepsNode(p) ==
  /\ pc = "stop"
  /\ p \in todo
  /\ todo' = todo \ {p}
  /\ IF Signallable(p)
       THEN state' = Stopped(p) /\ UNCHANGED proctable
       ELSE proctable' = proctable \ {p} /\ UNCHANGED state
  /\ UNCHANGED <<parent, headless, kin, newborn, pc, ret, quit_flag, proclist,
                 unread, tsleep>>

(* kill(p, SIGSTOP) likewise.                                              *)
SendStop(p) ==
  /\ pc = "stop"
  /\ p \in todo
  /\ todo' = todo \ {p}
  /\ IF Signallable(p)
       THEN state' = Stopped(p) /\ UNCHANGED <<proclist, proctable>>
       ELSE /\ proclist' = proclist \ {p}
            /\ proctable' = proctable \ {p}
            /\ UNCHANGED state
  /\ UNCHANGED <<parent, headless, kin, newborn, pc, ret, quit_flag, unread,
                 tsleep>>

(* Mutant: the loop may end before it has seen the whole list.             *)
StopDoneEarly ==
  /\ pc = "stop"
  /\ pc' = "sleep"
  /\ UNCHANGED <<osVars, newborn, ret, quit_flag, proclist, proctable, unread,
                 todo, tsleep>>

(* Every node of the list has been visited.                                *)
StopDone ==
  /\ pc = "stop"
  /\ todo = {}
  /\ pc' = "sleep"
  /\ UNCHANGED <<osVars, newborn, ret, quit_flag, proclist, proctable, unread,
                 todo, tsleep>>

(* The sleep slice ends.                                                   *)
Sleep ==
  /\ pc = "sleep"
  /\ pc' = "check"
  /\ UNCHANGED <<osVars, newborn, ret, quit_flag, proclist, proctable, unread,
                 todo, tsleep>>

(* Mutant: the members are not continued on the way out.                   *)
LeaveLoopSilently ==
  /\ pc = "leave"
  /\ pc' = "close"
  /\ UNCHANGED <<osVars, newborn, ret, quit_flag, proclist, proctable, unread,
                 todo, tsleep>>

(* After the loop: only if quit_flag is set are the members continued.     *)
LeaveLoop ==
  /\ pc = "leave"
  /\ IF quit_flag THEN pc' = "resume" /\ todo' = proclist
                  ELSE pc' = "close" /\ UNCHANGED todo
  /\ UNCHANGED <<osVars, newborn, ret, quit_flag, proclist, proctable, unread,
                 tsleep>>

(* kill(p, SIGCONT), whose result is not looked at.                        *)
ResumeMember(p) ==
  /\ pc = "resume"
  /\ p \in todo
  /\ todo' = todo \ {p}
  /\ IF Signallable(p) THEN state' = Continued(p) ELSE UNCHANGED state
  /\ UNCHANGED <<parent, headless, kin, newborn, pc, ret, quit_flag, proclist,
                 proctable, unread, tsleep>>

ResumeDone ==
  /\ pc = "resume"
  /\ todo = {}
  /\ pc' = "close"
  /\ UNCHANGED <<osVars, newborn, ret, quit_flag, proclist, proctable, unread,
                 todo, tsleep>>

CloseProcessGroup ==
  /\ pc = "close"
  /\ proclist' = {}
  /\ proctable' = {}
  /\ pc' = "done"
  /\ UNCHANGED <<osVars, newborn, ret, quit_flag, unread, todo, tsleep>>

------------------------------------------------------------------------------
(* sig_handler(), up to the last point where limit_process() reads the flag. *)
Signal ==
  /\ Awake
  /\ pc \notin {"resume", "close", "done", "aborted"}
  /\ ~quit_flag
  /\ quit_flag' = TRUE
  /\ UNCHANGED <<osVars, newborn, faults, pc, ret, proclist, proctable, unread,
                 todo, tsleep>>

Returned ==
  /\ pc \in {"done", "aborted"}
  /\ UNCHANGED vars

Limiter ==
  /\ Awake
  /\ UNCHANGED faults
  /\ \/ InitProcessGroup \/ OpenIterator \/ CloseIterator
     \/ \E p \in Pids : ListEntry(p) \/ SkipEntry(p)
     \/ CheckQuit \/ CountMembers
     \/ \E p \in Pids : SendCont(p) \/ SendStop(p) \/ ResumeMember(p)
     \/ ContDone \/ Work \/ StopDone \/ Sleep
     \/ LeaveLoop \/ ResumeDone \/ CloseProcessGroup

Family ==
  /\ UNCHANGED <<limiterVars, faults>>
  /\ \/ \E p, c \in Pids : Fork(p, c) /\ newborn' = newborn \cup {c}
     \/ \E p \in Pids : (Exit(p) \/ Reap(p)) /\ UNCHANGED newborn
     \/ /\ "headless" \in faults
        /\ \E p \in Pids : LeaderExit(p)
        /\ UNCHANGED newborn

Next == Limiter \/ Abort \/ Signal \/ Family \/ Returned

Spec == Init /\ [][Next]_vars

(* The limiter is a process that the system schedules, and its sleeps end: *)
(* a slot is at most half a second long.  Nothing is assumed of the others. *)
FairSpec == Spec /\ WF_vars(Limiter)

------------------------------------------------------------------------------
(* Safety.  What a fault of the system breaks, no limiter can promise: a   *)
(* property names the faults that the execution must be spared.            *)
Spared(F) == F \cap faults = {}

(* limit_process() never returns, by a signal or because nobody is left,   *)
(* nor begins a work slice, while a process that then is of the family is  *)
(* stopped: unless a scan passes over those who are.                       *)
FamilyResumed ==
  Spared({"headless", "opendir", "age"}) /\ pc \in {"work", "done"} =>
    \A p \in Pids : Selected(p) => state[p] # "stopped"

(* After the return the same of every process, whatever it was when it was *)
(* stopped.                                                                *)
AllResumedAtExit == pc = "done" => \A p \in Pids : state[p] # "stopped"

(* What the code itself says of the way out: on SIGINT and SIGTERM it      *)
(* resumes all processes before it exits.                                  *)
QuitResumesAll ==
  pc = "done" /\ quit_flag => \A p \in Pids : state[p] # "stopped"

(* The sleep slice holds the whole family: a process of it that runs then  *)
(* was born after the members of this slot were looked up, unless a scan   *)
(* passes over one that runs.                                              *)
SleepSliceCovers ==
  Spared({"exec", "headless", "age"}) /\ pc = "sleep" =>
    \A p \in Pids : /\ state[p] = "running"
                    /\ Selected(p)
                    /\ p \notin Foreign
                    => p \in newborn

(* Only kin of the target are ever stopped, wherever their parents went.   *)
OnlyKinStopped == \A p \in Pids : state[p] = "stopped" => p \in kin

(* Whatever a scan may be hindered by from finding the target.             *)
Seeing == Spared({"exec", "headless", "opendir", "reuse"})

(* Without a quit signal, limiting ends only when the family is dead: if   *)
(* nothing hides the target.                                               *)
LeavesOnlyTheDead ==
  Seeing /\ pc \in {"close", "done"} /\ ~quit_flag =>
    \A p \in Pids : Live(p) => ~Selected(p)

------------------------------------------------------------------------------
(* Liveness.                                                               *)

(* A quit signal ends limit_process(), whatever the processes do.          *)
QuitEnds == quit_flag ~> pc \in {"done", "aborted"}

(* The death of every kin of the target ends limit_process().              *)
DeathEnds ==
  (\A p \in kin : ~Live(p)) ~> (pc \in {"done", "aborted"})

(* A stopped process does not stay so: it is continued, or it dies, unless *)
(* the death of its parent takes it out of the family.  Scans must not     *)
(* pass over it, and the limiter must not exit half way.                   *)
StoppedIsContinued ==
  \A p \in Pids :
    Spared({"headless", "opendir", "age", "abort"}) /\ state[p] = "stopped"
      ~> (state[p] # "stopped" \/ ~Selected(p))

------------------------------------------------------------------------------
(* What the callers of limit_process() rely on, in an execution in which   *)
(* nothing hides the target.                                               *)

Promise ==
  INSTANCE Limiting WITH
    target <- IF ~Seeing THEN "running"
              ELSE IF Live(Target) THEN state[Target] ELSE "ended",
    quit <- Seeing /\ quit_flag,
    limiting <- Seeing => pc # "done"

(* limit_process() is one that stops and continues the target, and returns *)
(* in the end, when it may, without leaving the target stopped, or else    *)
(* the program exits.                                                      *)
KeepsPromise == Promise!Spec /\ (<>(pc = "aborted") \/ Promise!Fairness)

------------------------------------------------------------------------------
(* What is done with the process group.                                    *)

Calls ==
  INSTANCE GroupCalls WITH
    phase <- CASE pc = "scan" -> "scan"
               [] pc \in {"continue", "stop", "resume"} -> "walk"
               [] pc = "done" -> "closed"
               [] pc = "aborted" -> "failed"
               [] OTHER -> "idle",
    known <- proctable,
    listed <- proclist,
    due <- todo

(* No member is listed twice in one scan; each loop comes to every listed  *)
(* member, and to each once; a node and the table's entry for it, which    *)
(* share one struct process, go together, and only when a kill has failed; *)
(* no member comes or goes in between, whatever the family does.  The one  *)
(* way to come between the two is to exit: then the node is the one that   *)
(* is missing.                                                             *)
UsesGroup == Calls!Spec
=============================================================================

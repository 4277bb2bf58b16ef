------------------------------ MODULE SearchLoop ------------------------------
(***************************************************************************)
(* main() of src/src/cpulimit.c with -p or -e: the loop that looks for the *)
(* process, limits it, and looks again every two seconds unless it is lazy.*)
(* A search by name reads /proc while processes come, go and change their  *)
(* program, and is to find the topmost process that runs FILE.  A call of  *)
(* limit_process() is what Limiting says of it.                            *)
(***************************************************************************)
EXTENDS Processes

CONSTANT NoPid   (* the pid -1 of a search that has found nothing yet      *)

(* /proc can be opened and shows every live process: what happens if not   *)
(* is described in LimitProcess.                                           *)
ASSUME SearchLoopAssumption ==
  /\ NoPid \notin Pids
  /\ Faults \subseteq {"orphan", "abort", "age", "reuse"}

VARIABLES
  pc,         (* the statement main() is about to execute                  *)
  by_name,    (* the target was given with -e, not with -p                 *)
  lazy,       (* the option -z, which -p implies                           *)
  quit_flag,  (* set by sig_handler()                                      *)
  pid,        (* the best match of find_process_by_name() so far           *)
  match,      (* the entry it has just read                                *)
  unread,     (* entries of /proc it has not yet passed                    *)
  ret,        (* the process to limit, NoPid for 0 and negative pids       *)
  named,      (* processes that run FILE now                               *)
  compared,   (* history: the matches of the last search                   *)
  doubted,    (* history: those of them that is_child_of() has denied to   *)
              (* be above the best match because of the age of an inode,   *)
              (* up to the end of the search                               *)
  steady      (* history: processes that could be found all through it     *)

searchVars ==
  <<pc, by_name, lazy, quit_flag, pid, match, unread, ret, compared, doubted>>
vars == <<osVars, searchVars, named, steady>>

(* p runs FILE and may be limited.                                         *)
Matches(p) == p \in named /\ Readable(p) /\ p \notin Foreign

(* There is a match to compare when it comes to that, and a process to     *)
(* limit that is not cpulimit.                                             *)
Located ==
  /\ pc = "compare" => match \in Pids
  /\ pc = "limit" => ret \in Pids \ {Self}

TypeOK ==
  /\ OSTypeOK
  /\ Located
  /\ pc \in {"test", "search", "scan", "compare", "probe", "found", "limit",
             "decide", "pause", "exited"}
  /\ by_name \in BOOLEAN /\ lazy \in BOOLEAN /\ quit_flag \in BOOLEAN
  /\ pid \in Pids \cup {NoPid}
  /\ match \in Pids \cup {NoPid}
  /\ unread \in SUBSET Pids
  /\ ret \in Pids \cup {NoPid}
  /\ named \in SUBSET Pids
  /\ compared \in SUBSET Pids
  /\ doubted \in SUBSET compared
  /\ steady \in SUBSET Pids

(* The options leave exactly one of name and pid.  A number read for -p    *)
(* makes the search lazy, even one of an invalid -p beside -e.             *)
Init ==
  /\ OSInit(Strangers)
  /\ pc = "test"
  /\ by_name \in BOOLEAN
  /\ lazy \in {TRUE, ~by_name}
  /\ quit_flag = FALSE
  /\ pid = NoPid
  /\ match = NoPid
  /\ unread = {}
  /\ ret = NoPid
  /\ named \in SUBSET {p \in Pids : Live(p)}
  /\ compared = {}
  /\ doubted = {}
  /\ steady = {}

options == <<by_name, lazy>>

------------------------------------------------------------------------------
(* The search.                                                             *)

(* while (!quit_flag)                                                      *)
Test ==
  /\ pc = "test"
  /\ pc' = IF quit_flag THEN "exited" ELSE "search"
  /\ UNCHANGED <<osVars, options, quit_flag, pid, match, unread, ret, named,
                 compared, doubted, steady>>

(* find_process_by_pid(): kill(pid, 0)                                     *)
FindByPid ==
  /\ pc = "search"
  /\ ~by_name
  /\ ret' = IF Signallable(Target) THEN Target ELSE NoPid
  /\ pc' = "found"
  /\ UNCHANGED <<osVars, options, quit_flag, pid, match, unread, named,
                 compared, doubted, steady>>

(* Mutant: pid keeps the match of the last search.                         *)
BeginScanNoReset ==
  /\ pc = "search"
  /\ by_name
  /\ unread' = Pids
  /\ compared' = {}
  /\ doubted' = {}
  /\ steady' = {p \in Pids : Matches(p)}
  /\ pc' = "scan"
  /\ UNCHANGED <<osVars, options, quit_flag, pid, match, ret, named>>

(* find_process_by_name() up to its loop.                                  *)
BeginScan ==
  /\ pc = "search"
  /\ by_name
  /\ pid' = NoPid
  /\ unread' = Pids
  /\ compared' = {}
  /\ doubted' = {}
  /\ steady' = {p \in Pids : Matches(p)}
  /\ pc' = "scan"
  /\ UNCHANGED <<osVars, options, quit_flag, match, ret, named>>

(* The next entry is that of a process that runs FILE.                     *)
ReadMatch(p) ==
  /\ pc = "scan"
  /\ p \in unread
  /\ Readable(p) /\ p \in named
  /\ unread' = unread \ {p}
  /\ match' = p
  /\ pc' = "compare"
  /\ UNCHANGED <<osVars, options, quit_flag, pid, ret, named,
                 compared, doubted, steady>>

(* The next entry cannot be read or is that of another program.            *)
PassOver(p) ==
  /\ pc = "scan"
  /\ p \in unread
  /\ ~Readable(p) \/ p \notin named
  /\ unread' = unread \ {p}
  /\ UNCHANGED <<osVars, options, pc, quit_flag, pid, match, ret, named,
                 compared, doubted, steady>>

(* Mutant: the first match is kept.                                        *)
CompareKeepsFirst ==
  /\ pc = "compare"
  /\ pid' = IF pid = NoPid THEN match ELSE pid
  /\ compared' = compared \cup {match}
  /\ pc' = "scan"
  /\ UNCHANGED <<osVars, options, quit_flag, match, unread, ret, named, doubted,
                 steady>>

(* if (pid < 0 || is_child_of(pid, proc->pid)), when the one or the other  *)
(* may have ended since they were read.  An inode of /proc is made when it *)
(* is first looked up: if the child was met before its parent, or the      *)
(* parent's inode was dropped from the cache meanwhile, the child seems    *)
(* the older one and is kept.                                              *)
Compare ==
  /\ pc = "compare"
  /\ \/ /\ pid = NoPid \/ pid \in Below(match)
        /\ pid' = match
        /\ UNCHANGED doubted
     \/ /\ pid # NoPid /\ pid \notin Below(match)
        /\ UNCHANGED <<pid, doubted>>
     \/ /\ "age" \in Faults
        /\ pid \in Below(match)
        /\ doubted' = doubted \cup {match}
        /\ UNCHANGED pid
  /\ compared' = compared \cup {match}
  /\ pc' = "scan"
  /\ UNCHANGED <<osVars, options, quit_flag, match, unread, ret, named, steady>>

EndScan ==
  /\ pc = "scan"
  /\ unread = {}
  /\ pc' = "probe"
  /\ UNCHANGED <<osVars, options, quit_flag, pid, match, unread, ret, named,
                 compared, doubted, steady>>

(* find_process_by_pid() of the match, if there is one.                    *)
Probe ==
  /\ pc = "probe"
  /\ ret' = IF pid # NoPid /\ Signallable(pid) THEN pid ELSE NoPid
  /\ doubted' = {}
  /\ pc' = "found"
  /\ UNCHANGED <<osVars, options, quit_flag, pid, match, unread, named,
                 compared, steady>>

(* exit(EXIT_FAILURE) from within the search or from limit_process().      *)
Abort ==
  /\ "abort" \in Faults
  /\ pc \in {"search", "scan", "limit"}
  /\ pc' = "exited"
  /\ UNCHANGED <<osVars, options, quit_flag, pid, match, unread, ret, named,
                 compared, doubted, steady>>

------------------------------------------------------------------------------
(* Limiting.                                                               *)

(* Mutant: the result of the search is not looked at.                      *)
FoundUntested ==
  /\ pc = "found"
  /\ pc' = IF ret = Self THEN "exited" ELSE "limit"
  /\ UNCHANGED <<osVars, options, quit_flag, pid, match, unread, ret, named,
                 compared, doubted, steady>>

(* if (ret > 0): cpulimit refuses to limit itself.                         *)
Found ==
  /\ pc = "found"
  /\ pc' = IF ret = NoPid THEN "decide"
           ELSE IF ret = Self THEN "exited" ELSE "limit"
  /\ UNCHANGED <<osVars, options, quit_flag, pid, match, unread, ret, named,
                 compared, doubted, steady>>

(* limit_process(ret)                                                      *)
Limit ==
  INSTANCE Limiting WITH
    target <- IF ret \in Pids /\ Live(ret) THEN state[ret] ELSE "ended",
    quit <- quit_flag,
    limiting <- pc = "limit"

LimitStops ==
  /\ pc = "limit"
  /\ state' = Stopped(ret)
  /\ UNCHANGED <<parent, headless, kin, searchVars, named, steady>>
  /\ Limit!Stop

LimitContinues ==
  /\ pc = "limit"
  /\ state' = Continued(ret)
  /\ UNCHANGED <<parent, headless, kin, searchVars, named, steady>>
  /\ Limit!Continue

(* Mutant: only the end of the target ends limit_process().                *)
LimitReturnsOnEnd ==
  /\ pc = "limit"
  /\ ~Live(ret)
  /\ pc' = "decide"
  /\ UNCHANGED <<osVars, options, quit_flag, pid, match, unread, ret, named,
                 compared, doubted, steady>>

LimitReturns ==
  /\ pc = "limit"
  /\ pc' = "decide"
  /\ UNCHANGED <<osVars, options, quit_flag, pid, match, unread, ret, named,
                 compared, doubted, steady>>
  /\ Limit!Leave

(* if (lazy || quit_flag) break                                            *)
Decide ==
  /\ pc = "decide"
  /\ pc' = IF lazy \/ quit_flag THEN "exited" ELSE "pause"
  /\ UNCHANGED <<osVars, options, quit_flag, pid, match, unread, ret, named,
                 compared, doubted, steady>>

(* sleep_timespec() of two seconds, less if a signal comes.                *)
Pause ==
  /\ pc = "pause"
  /\ pc' = "test"
  /\ UNCHANGED <<osVars, options, quit_flag, pid, match, unread, ret, named,
                 compared, doubted, steady>>

(* sig_handler()                                                           *)
Signal ==
  /\ pc # "exited"
  /\ ~quit_flag
  /\ quit_flag' = TRUE
  /\ UNCHANGED <<osVars, options, pc, pid, match, unread, ret, named,
                 compared, doubted, steady>>

------------------------------------------------------------------------------
(* The others.  A child runs the program of its parent until it calls      *)
(* execve(2).                                                              *)
Family ==
  /\ UNCHANGED searchVars
  /\ \/ \E p, c \in Pids :
          /\ Fork(p, c)
          /\ named' = IF p \in named THEN named \cup {c} ELSE named \ {c}
     \/ \E p \in Pids : (Exit(p) \/ Reap(p)) /\ UNCHANGED named
     \/ \E p \in Pids \ {Self} :
          /\ state[p] = "running"
          /\ named' \in {named \cup {p}, named \ {p}}
          /\ UNCHANGED osVars
  /\ steady' = {p \in steady : Matches(p)'}

Over == pc = "exited" /\ UNCHANGED vars

Search ==
  \/ Test \/ FindByPid \/ BeginScan \/ EndScan \/ Probe \/ Compare
  \/ \E p \in Pids : ReadMatch(p) \/ PassOver(p)
  \/ Found \/ Decide \/ Pause

Next ==
  \/ Search \/ LimitStops \/ LimitContinues \/ LimitReturns
  \/ Abort \/ Signal \/ Family \/ Over

Spec == Init /\ [][Next]_vars

(* main() is scheduled and its pause ends; limit_process() is as fair as   *)
(* Limiting says.  The other processes owe nothing.                        *)
FairSpec ==
  Spec /\ WF_vars(Search) /\ WF_vars(LimitContinues) /\ SF_vars(LimitReturns)

------------------------------------------------------------------------------
(* A search ends with the topmost match: the process it settles on is not  *)
(* below any other that it has compared, though the tree changed meanwhile.*)
(* Only those that an inode too young has denied to be above the best      *)
(* match of that moment are no better for having been compared: what is    *)
(* below one of the others gives way to it all the same.                   *)
ResultTopmost ==
  pc = "probe" => \A q \in compared \ doubted : pid \notin Below(q)

(* SIGINT and SIGTERM end cpulimit, wherever they come.                    *)
QuitEnds == quit_flag ~> pc = "exited"

(* p is the one process that runs FILE, and it may be limited.             *)
OnlyMatch(p) ==
  /\ Matches(p) /\ p # Self
  /\ \A q \in Pids \ {p} : q \in named => ~Exists(q)

(* While there is a single match to be limited, cpulimit limits it, or one *)
(* that it took for a match before, unless it has ended: what earlier      *)
(* searches found is not in its way.                                       *)
MatchIsLimited ==
  by_name => \A p \in Pids :
    <>[]OnlyMatch(p) => []<>(pc \in {"limit", "exited"})

(* A search that comes back with nothing has met no process that could be  *)
(* found all through it, unless it had settled on another one that then    *)
(* ended or never could be limited.                                        *)
FindsSteady ==
  pc \in {"found", "decide"} /\ by_name /\ ret = NoPid /\ steady # {} =>
    pid \in compared /\ ~Signallable(pid)
=============================================================================

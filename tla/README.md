# A TLA+ model of cpulimit

cpulimit holds a process, or a process with everything below it, under a share
of the CPU. It does so from the outside: it looks the processes up in `/proc`,
lets them run for a slice of time with SIGCONT, stops them for another with
SIGSTOP, and looks them up again. While it does, the processes fork, exec, die,
are reaped and lose their parents, and cpulimit itself may be interrupted at any
moment. It must then leave nobody stopped. The modules in this directory say
what the program does between any two of these events, and TLC and TLAPS check
what follows.

Paths are those of the repository, below `src/`.

## The system

| Component | State | Operations | Interacts through |
|---|---|---|---|
| Options (`src/cpulimit.c`, `main` 343-488) | the target, `limit`, `lazy`, `include_children` | one pass over the arguments, then the tests on the result | chooses command mode or the search loop |
| Search loop (`main` 569-621) | `quit_flag`, `lazy`, `pid` | search, limit, pause of 2 s | calls the search and `limit_process()` |
| Search (`src/process_group.c` 44-92) | the best match so far | `find_process_by_pid`, `find_process_by_name` | reads the iterator, asks for kinship, `kill(pid, 0)` |
| Command mode (`main` 501-567) | two children and their wait statuses | two forks, execvp, two `waitpid` | the limiter is a process of its own that calls `limit_process()` |
| Control loop (`limit_process` 165-328) | `pgroup`, `workingrate`, the slices | look up, estimate, continue, sleep, stop, sleep, resume on the way out | `kill`, the process group |
| Controller (`limit_process` 209-245, `get_dynamic_time_slot`) | `workingrate`, a static time slot | the lengths of the slices | reads `cpu_usage` |
| Process group (`src/process_group.c` 94-223) | `proclist`, `proctable`, `last_update` | init, update, remove, close | list, table and iterator |
| Iterator (`src/process_iterator_*.c`, one for each platform) | the open directory or snapshot | init, next, close; `is_child_of` | the operating system |
| List, hash table (`src/list.c`, `src/process_table.c`) | nodes, heads, counts; buckets | add, locate, delete, clear, destroy | share the `struct process` of a member |
| Signal handlers | `quit_flag` | `sig_handler`, `quit_handler` | interrupt sleeps and `waitpid` |

The program has no threads and takes no locks. What makes it hard is that its
actions are kill(2) and its knowledge is `/proc`, both of which concern other
processes that go on meanwhile:

* a look-up is a walk, and the tree changes during the walk;
* a pid that was looked up may be dead, reaped, or somebody else when it is
  signalled;
* who is stopped cannot look after himself, so every way out of the loop has to
  continue all that were stopped, and those alone are known that the last
  look-up returned;
* list and table are changed during traversals, and share what they point to;
* signals arrive between any two statements, and interrupt the waits of the
  parent in command mode;
* with `-i`, cpulimit may be one of the processes it limits.

What makes each component correct:

* control loop: nobody is left stopped; only kin of the target are stopped; the
  sleep slice holds the whole family; it ends on a signal or with the family,
  and for no other reason;
* process group: every usage is -1 or a share of a CPU, computed from CPU time
  and wall-clock time of the same interval; each descriptor has one owner;
* list and table: they are a sequence and a map, whatever was deleted where;
* search: the topmost match; nothing that was there all the time is overlooked;
* command mode: the parent waits for both children and reports the command's
  status; an interrupt ends all three;
* controller: rate, slot and slices stay in their ranges, the feedback has the
  right sign, and a busy family comes to use what the limit says;
* iterator: whoever is yielded was a member, whoever is passed over was none, at
  one moment of the visit; a scan ends;
* options: a command line is accepted, and acted on, as its last options say.

`PROJECT.json` lists the hazards one by one, each at its line and with the
properties aimed at it.

## The modules

| Module | Models | Used by |
|---|---|---|
| `Processes` | the operating system: a tree of processes, `kill`, `/proc` | `LimitProcess`, `SearchLoop`, `Iterator` |
| `LimitProcess` | `limit_process()` with membership of list and table | `MCLimitProcess` |
| `Limiting` | the promise of `limit_process()` about the one process it is given | refined by `LimitProcess`, instantiated by `CommandMode` and `SearchLoop` |
| `Controller` | the working rate, the time slot, the slices, and the usage that comes of them | |
| `Iterator` | one scan, read by read, on Linux, FreeBSD and macOS | `MCIterator` |
| `ProcessGroup` | usage accounting and ownership of the descriptors | `MCProcessGroup` |
| `ProcessTable` | `list.c` and `process_table.c` with pointers and buckets | `MCProcessTable` |
| `GroupMap` | a sequence and a set of pids | refined by `ProcessTable` |
| `GroupCalls` | two sets of pids, and in which order the program uses them | refined by `LimitProcess`, `ProcessGroup` and `ProcessTable` |
| `SearchLoop` | the search loop of `main()`, search by pid and by name | |
| `Options` | the command line of `main()` | `Main` |
| `CommandMode` | command mode of `main()`: command, limiter, parent | `Main` |
| `Main` | `Options`, then `CommandMode` | `MCMain` |
| `ProcessesProofs`, `LimitProcessProofs`, `ControllerProofs`, `IteratorProofs`, `ProcessGroupProofs`, `SearchLoopProofs`, `ProcessTableProofs`, `MainProofs` | the proofs | |

### Processes

`state[p]` is where a process is in its life, `parent[p]` the ppid of its stat
file. A process forks, exits, and is reaped by its parent. On exit its children
go to process 1. `Below(r)` is what `is_child_of()` finds by following ppid
links, given as the least set closed under the child relation: so it can be
reasoned about without recursion. `kin` is a history variable: the pids whose
present holder was started by the target or by one of its kin, orphaned or not.

Everything that is not an everyday event is a member of the constant `Faults`,
so that each property and each theorem says under which it holds:

| Fault | Meaning |
|---|---|
| `orphan` | a process exits while it has children |
| `headless` | the first thread ends before the others, so that `/proc/<pid>/stat` shows Z |
| `exec` | the command line is empty because the process is in the middle of execve |
| `opendir` | `opendir("/proc")` fails; the code ignores it |
| `abort` | a call fails whose failure is answered with `exit()` |
| `age` | an inode of `/proc` looks older than that of an ancestor, and `is_child_of()` denies the relation |
| `reuse` | the pid of a reaped process goes to a new one |

`Foreign` is the set of processes that answer EPERM. `Self` is cpulimit; if it
is a member of `Pids`, it runs below the target.

### LimitProcess

`pc` names the statement that comes next. `InitProcessGroup`, `OpenIterator`,
one `ListEntry(p)` or `SkipEntry(p)` for each entry of `/proc`, and
`CloseIterator` are a call of `update_process_group()`; `ret` says which of its
two callers it returns to. `CheckQuit` is the loop's condition, `CountMembers`
the test for an empty list and the choice of the slices, `SendCont(p)`,
`SendStop(p)` and `ResumeMember(p)` are one turn of the three loops over the
list, with the removal from list and table when `kill` fails. The two sleeps are
`Work` and `Sleep`. Between any two of these the family acts (`Family`) and the
signal handler may run (`Signal`).

The program may also exit at once, for want of memory, a clock or `/proc` (`Abort`):
in `update_process_group()`, which may leave a new member in the table that is not
listed (`AbortListing`), and, since `process_table_del_pid()` allocates a key for
its search, in a turn of the two loops whose `kill` has failed, when the node is
off the list and the entry still in the table (`AbortRemoval`).

`orphan` and `reuse` are the same in every execution of a run. Of the other faults
one execution may meet some and another one none: `Settings` lists what an execution
may start with, and the variable `faults` keeps it. A property that some faults
break names them (`Spared`), and speaks of the executions that do not meet them; the
others hold in all.

Abstractions: list and table are sets of pids, as a walk through `/proc` yields
each pid once, and the order in which members are signalled is left open, which
covers every order; that nodes and pointers amount to such sets is what `GroupCalls`
is for. The lengths
of the slices are left out but for whether the sleep slice is empty (`tsleep`),
which decides whether the group is stopped at all; `Controller` has them. The CPU
shares are in `ProcessGroup`. That the visit of an entry, `ListEntry(p)` or
`SkipEntry(p)`, is one step is what `Iterator` looks into. What the ages of inodes
may do to that visit is the fault `age` of `SkipEntry`: it passes over any member but
the target, which is not compared with anybody.

### Limiting

The abstract specification: a target that runs, is stopped or has ended, and a
limiter that may stop and continue it, and that returns only if it was asked to
or the target has ended, never leaving it stopped. Fairness: a stopped target is
continued, and a limiter that again and again may return does. Two callers are
built on it instead of on the loop itself, which keeps their state small.

### Controller

One step, `Turn`, is one turn of the loop: the usage after the update, the new
rate, the new slot. `TimeSlots` is `get_dynamic_time_slot()`, with any load of
`Loads`; `twork` and `tsleep` are the slices after `nsec2timespec()`. The usage of
the next sample is computed from the slices of this slot (`BusySample`), so that
the model is a closed loop. The turns differ in the usage: of members that use
whatever they get (`BusyTurn`), of members that are less busy (`IdleTurn`), not
measured since `dt < MIN_DT` (`StaleTurn`), or none yet since all members are new
(`RenewedTurn`).

Doubles are fixed-point numbers, rounded down: 1.0 is `Scale`, and EPSILON is 1.
`MaxSlot * Ns < Scale` makes EPSILON what it is in the program, a rate at which
the work slice is less than one unit of time. The members of the family are
alike, and each has the same number of busy threads. Three things about the
program that the model keeps:

* a sample is cut to one CPU, so that of a member with several busy threads no
  more than one is seen; `Measurable` in `Settles` excludes the families which
  for this reason are never found above their limit;
* every comparison with nan is false, so that `MIN` takes `1 - EPSILON`: with
  `-l nan` the family is hardly limited;
* a turn without a sample multiplies the rate again by the same ratio; it goes
  the right way (`NeverRewardsExcess`), but on to the end of the range, and
  `Settles` says that it comes back from there when there are samples again.

The band in `Settles` (`Rounding`) is an artefact of rounding down, which
stops the moving average short of the sample.

### Iterator

`Open` is `init_process_iterator()`: a snapshot on FreeBSD and macOS, on Linux an
open directory, in which a process that is born later may or may not still come.
`Visit(p)` takes an entry; then `StartWalk`, `CompareDates` and `ReadLink` are the
reads of `is_child_of()`, and `ReadEntry` those of `read_process_info()`,
`kproc2proc()`, or `get_process_pti()` and `pti2proc()`, in the order of the
platform. Between any two of them the family acts. `seen` records whether the
entry was to be yielded at each moment of its visit, so that the properties can
say "at one moment".

This is what lets the other modules take a visit for one step: the answer is one
that a single look, at some moment between the first and the last read, would
have given. There is one exception, on Linux: `is_child_of()` takes the
ctime of `/proc/<pid>` for the start of the process, but that inode is made when
somebody first looks at it, and again after it was evicted (`Date`, `Inodes`). An
entry that fails the comparison for this reason ends in `tooOld` and is in
`doubted`. The exception is a fault of its own, `age`, in the two modules that call
`is_child_of()`: in `LimitProcess`, which does so with `-i`, and in `SearchLoop`,
which does so with or without it. In `ProcessGroup` it is one reason for a member to be
missed (`Missed`).

A failed `init_process_iterator()` is `OpenFails`. No caller looks at its result:
on Linux the scan is then empty, on macOS the function exits itself, on FreeBSD
`count` and `filter` are not initialized, and the model has both an empty scan
and a crash. `close_process_iterator()` frees memory and closes the directory,
which is not state of the model.

### ProcessGroup

Here `proclist` and `table` hold descriptors, `struct process`, which
`process_dup()` allocates. `SampleMember` is the computation of `cpu_usage` from
the CPU time used since the last reading and from `dt`; the smoothing factor is
kept as a mean in integers. Times are in units of `MIN_DT / MinDt`, usages in
multiples of `1 / Scale`. The clock may be set back (`ClockSet`), a scan may miss
a live member (`Missed`), and a pid may be given to another process
(`Recycled`). The program may run out of memory wherever it allocates some (`Abort`):
a descriptor is then copied and in neither table nor list, or in the table alone, or
off the list and still in the table.

### ProcessTable and GroupMap

The heap has list nodes with `data`, `previous` and `next`, and for each list
`first`, `last` and `count`. `AddElem`, `Unlink`, `DeleteNode`, `LocateNode` and
`ClearLists` are the functions of `list.c`, operators from heap to heap;
`TableFind` and `TableDel` those of `process_table.c`. The actions are the calls
that the program makes: a scan that empties `proclist` and fills it again
(`BeginUpdate`, `Enter`), loops over it that save the successor and may take the
node out (`BeginWalk`, `Signalled`, `NotSignalled`), and the close. An element is
known by its pid, which is the first field of `struct process` and the key of
`memcmp`. Freed nodes lose their contents, so that a use after free is seen. An exit
for want of memory (`AbortUpdate`, `AbortListing`, `AbortRemoval`) leaves what
the call has done until then: a bucket with a list and no node, a node in the bucket
and none in `proclist`, or a node off `proclist` and one left in the bucket.
`GroupMap` is what all this stands for; its `Exit` is an update done half or not at all.

### GroupCalls

Three modules have a process group: `LimitProcess` as sets of pids, `ProcessGroup` as
sets of descriptors, `ProcessTable` as nodes with pointers. `GroupCalls` is what they
have in common: which pids are known, which are listed, to which a loop has yet to come,
and whether a scan, a loop or neither goes on. A scan empties the list and enters
nobody twice; a loop comes to everybody who was listed when it began, once; only a loop
forgets anybody, and then in list and table at once; nothing changes in between. The
program may exit between two calls or in a scan (`Fail`), and also half way through
one of these two changes (`FailEntering`, `FailDropping`), but never with a node in the
list that the table knows nothing of. Each of
the three implements it (`UsesGroup` in each), which joins them: `limit_process()` asks
for nothing else than this, and the pointers deliver it.

### SearchLoop

`Test` to `Pause` are the statements of the loop. A search by name is taken apart
into one step for each entry of `/proc` (`ReadMatch`, `PassOver`), one for each
comparison (`Compare`) and the final `kill(pid, 0)` (`Probe`). A comparison may be
decided by the age of an inode: the child may have been read before its parent, as
after pids have wrapped around, and its inode is then the older one. It is kept, and
the parent is in `doubted`: `ResultTopmost` says that nobody else can be above the
result. Others fork, exit,
are reaped and change their program in between; `named` is who runs FILE now.
`limit_process()` is `Limiting`, whose target is the process that was found.
How two names are compared is left out: that a name matches is a property of the
process. That `limit_process()` also stops the members below the one it is given is left
out: a stopped process does nothing, and nobody is obliged to do anything here.

### Options and Main

Each option is an action of `Options`; `given` records what was read, so that
`AcceptedAsGiven` and `ActsAsGiven` can compare what `main()` does with what the
command line says; both speak of pids that fit into a `pid_t`, and the first of limits
other than nan, which `LimitInRange` is about. Only numbers count of an argument: `number` is what `strtol` or
`strtod` reads, `whole` whether that is all of it. A number may be negative, since
only a hyphen at the very beginning of an argument is refused and the two
functions skip blanks. `PidOf` is the conversion to `pid_t`, which keeps the lower
bits: a number that is too large may be accepted as another pid. `pid` stays what
a `-p` has left there also if the argument was refused as a number, which is how
a search by name may become lazy. `PidMaxUnknown` is a `get_pid_max()` that cannot
read its file: every pid is then refused. On FreeBSD and macOS that function
returns the largest number of processes, which pids may exceed; this is one of
the values of `PidMax`.

`Main` goes on from there to `CommandMode`. The other way leads to the search
loop; `SearchLoop` starts in every state in which it may arrive there, and by
`ActsAsGiven` a search by pid is lazy, as `SearchLoop` has it.

### CommandMode

The command starts as a copy of cpulimit, whose signal handler it has until its
execve (`program`); a fatal signal is then `pending` until it is delivered, which
a stopped process does not prevent it from being. The limiter is `Limiting`, plus
`LimiterMisses` for a look-up in the middle of the execve. The parent's
`waitpid` returns when the child has ended or when a signal comes. Either of the two
forks may fail (`GiveUp`), and the parent exits at once, with or without a command.

## What TLC checks

| Run | Question | Result |
|---|---|---|
| `limit_process` | With every fault but a recycled pid: are strangers ever stopped, are list and table used in order, does the loop end? | `OnlyKinStopped`, `UsesGroup`, `QuitEnds`, `DeathEnds` hold |
| | In executions without the faults that each property names, with orphans: is anybody below the target stopped in a work slice, after the return, or for ever; does the sleep slice hold everybody; does limiting end too early; is it `Limiting`? | no: `FamilyResumed`, `StoppedIsContinued`; `SleepSliceCovers`, `LeavesOnlyTheDead`, `KeepsPromise` hold |
| `orphan_left_stopped` | Does a quit signal resume all processes? | no, see below |
| `limiter_stopped` | Does the loop end on a signal if cpulimit is in the group? | no, see below |
| `group_accounts` | Are usages shares of a CPU, samples of one interval, descriptors owned once; what is lost? | `UsageInRange`, `UsageNotOverstated`, `OwnedOnce`, `LostOnlyRemoved` hold without recycled pids and missed members |
| `group_reuse` | Is a usage in range when a pid is recycled? | no, see below |
| `table` | Do lists and buckets implement a sequence and a set, and do loops reach every member once? | `WellLinked`, `OnceInTable`, `WalksAll`, `KeepsMap` hold |
| `search` | Is the result topmost, is anything overlooked, does the loop end, is a lasting match limited? | `ResultTopmost`, `FindsSteady`, `QuitEnds`, `MatchIsLimited` hold |
| `command_mode` | Which command lines are accepted, and what is done? Does an undisturbed parent wait and report, does an interrupt end all three? | `AcceptedAsGiven`, `ActsAsGiven`, `UndisturbedReports`, `InterruptEndsAll` hold |
| `command_eintr` | Does the parent always wait for both? | no, see below |
| `nan_limit` | Is an accepted limit in the range that the program states? | no, see below |
| `controller` | Do rate and slices stay in range, is the feedback negative, does a busy family settle at the limit, can it starve? | `SlicesFillSlot`, `NeverRewardsExcess`, `Settles`, `RunsAgain` hold |
| `iterator` | Is whoever is yielded a member, whoever is passed over none, is anybody missed, does a scan end? | `YieldedWasMember`, `PassedWasNone`, `ScanFindsSteady`, `ScanEnds` hold on all three platforms |

Every passing run also checks the type invariant of its module (`MainTypeOK` in
`command_mode`). Deadlock is checked in all passing runs: a program that has ended
stutters by an action of its own (`Returned`, `Closed`, `Ended`, `Over`).

### Bounds

* Three processes: a target, a child, and a grandchild, sibling or stranger. A
  chain of three is the least in which a process in the middle can die and leave
  another behind, and in which a stopped parent keeps a zombie unreaped. No pid
  is used twice in the runs that pass, so a run has finitely many forks; slots go
  on without bound.
* `limit_process` starts in one of four settings (`MCSettings`): three members, one of
  which may be seen in the middle of an execve; two and a stranger under all faults
  together; two and a stranger under `opendir` and `abort`; and under `abort` and `age`.
  `FamilyResumed` and `StoppedIsContinued`, which must be spared most, are about the
  executions of the first; each of the others has one that meets all the faults it
  survives. One member answers EPERM. The run has
  351,457 states.
* `search` has the same three, inodes of any age, exits, and no bound on the number of
  searches (1,010,678 states).
* `group_accounts`: the clock goes to 2 and CPU time to 2 (`MaxTime`, `MaxCpu`),
  with `MinDt = 1`, so that updates come too early, in time, and after the clock
  was set back; two descriptors, of which each member may have had one, and one member
  may lose one to a failed `kill` and be added again. Memory may run out at any
  allocation. `Scale = 2` has one share between 0 and 1 (5,661,486 states). That these values do not matter is proved.
* `table`: three pids in two buckets, with room for each to be in the table
  and in the list. A list of three has a first, a middle and a last node, two
  colliding pids have a bucket of two (33,665 states). That these numbers do not matter is proved.
* `command_mode`: up to three options (`MaxOptions`), which is one to be replaced,
  one that replaces it, and another; a `pid_t` of four bits (`PidHalf = 8`) with
  numbers in and above its range, and a largest pid of 6; limits below, in and
  above the range, and nan. Then two exit codes and up to two signals for each
  process (`MaxSignals`), as each `waitpid` can be interrupted once. That the
  number of options does not matter is proved.
* `controller`: hundredths of a CPU; limits of 0, 75 % and 150 %, one or two
  members with one or two threads each, so that a limit is below, within and above
  what can be measured; a load that shrinks the slot, keeps it, and drives it to
  its maximum. There is no bound on the number of turns.
* `iterator`: the same three processes as above, all of which may be born, die and
  be orphaned during one scan. `ProcessTable` and `LimitProcess` cover what happens
  from scan to scan.

### Fairness

The limiter, `main()` and the parent are processes that the system schedules,
and their sleeps end: weak fairness. Nothing is assumed of the family: it need
not exit, fork or reap. In the modules built on `Limiting`, its fairness is
assumed of the limiter (weak for continuing, strong for returning); `limit_process`
checks that the loop provides it. It does not when cpulimit is a member of the
group, which `limiter_stopped` shows, and it may not when the target cannot be
looked up or signalled. In `CommandMode` a pending signal is delivered in the end (strong
fairness, as it can be delivered whenever the command is running). `Main` assumes
the same once command mode has begun, and nothing of the options. In `Iterator` the
calls to the system return (weak fairness of `Scan`); in `Controller` the slices
end. Whether its members stay busy, or the clock is not set back for ever, is not
fairness but a premise of `Settles` and `RunsAgain`.

## What TLC refutes

Each of these runs checks one property that a comment or a test of the repository
states, and TLC finds a behaviour of the code that breaks it.

* **An orphan stays stopped** (`orphan_left_stopped`, `src/cpulimit.c:319`). A
  child is stopped, its parent is killed, the child goes to process 1 and is no
  longer found below the target. The next look-up does not list it, so that no
  SIGCONT is sent to it, in the loop or on the way out.
* **A usage below -1** (`group_reuse`, `src/process_group.c:198`). The table keeps
  entries of dead processes. A new process with the pid of an old one is
  measured against the CPU time of the old one.
* **The parent leaves early** (`command_eintr`, `src/cpulimit.c:546`). The signal
  handlers are installed without SA_RESTART and the results of `waitpid` are not
  looked at.
* **cpulimit stops itself** (`limiter_stopped`, `src/cpulimit.c:295`). With `-i` and
  a target that cpulimit was started from, it is below the target, and nothing
  excludes it from the group.
* **A limit of nan** (`nan_limit`, `src/cpulimit.c:474`). `limit < 0 || limit > NCPU` is
  false of nan, which `strtod` reads from `-l nan`; by the message of line 476 and the
  usage text the limit must be in the range. The controller then hardly limits anybody
  (see Controller).

More weaknesses came up as assumptions that the properties need, and are
listed with the hazards: a live target whose first thread has ended, or that is in the middle
of an execve, is taken for dead; a member that one scan missed is measured over
two intervals and divided by one; a search by name comes back with nothing if its
best match dies before the final `kill(pid, 0)`, although another match lives; a
descriptor that `remove_process()` takes out of the table is never freed (by
`LostOnlyRemoved`, nothing else is lost); a child may be passed over for the age of
an inode, in a look-up and in a search; an exit for want of memory leaves members
stopped; a pid that is too large for a `pid_t` is taken for another one; on FreeBSD `is_child_of()` answers -1, which counts as yes, when it
cannot open kvm.

## What is proved

For every set of processes, with and without `-i`, and every value of the other
constants that the named assumptions of the modules allow:

| Theorem | Under | Inductive invariant |
|---|---|---|
| `TypeCorrect` | every fault | `Sound`: types, and no process has a dead parent |
| `FamilyNeverLeftStopped` | `Seen`: neither `headless`, `opendir` nor `age` | `Resumable` |
| `NobodyLeftStopped` | `Calm`: besides, with `-i` nobody is orphaned and no pid recycled | `Resumable` with `Together` |
| `StrangersRun` | no recycled pids | `Kinship` |
| `SleepSliceHolds` | neither `exec`, `headless` nor `age` | `SlotHeld` |
| `OnlyDeathEnds` | `Seeing`: no `exec`, `headless`, `opendir`, `reuse` | `TargetSeen` |
| `TableOwnsList` | every fault | itself: what is listed is in the table |
| `LimitProcessUsesGroup`, `AccountingUsesGroup`, `TableUsesGroup` | every fault; everything; two nodes for each pid; each with exits at every allocation | `InOrder` of each of the three modules |
| `LimitProcessImplementsLimiting` | `Seeing` | `TargetHeld`, and a step of the loop maps to a step of `Limiting` or none |
| `GroupTypeCorrect`, `NobodyFreedTwice` | everything | `Owned` |
| `UsageIsShare` | no recycled pids | `Measured` |
| `UsageNeverOverstated` | besides, no missed members | `Counted` |
| `OnlyRemovedAreLost` | no recycled pids | `Accounted` |
| `ControllerTypeCorrect`, `SlotIsFilled`, `ExcessNeverRewarded` | every limit, load, family size and resolution | `Steady`: types, and a limit of 0 keeps the rate at EPSILON |
| `IteratorTypeCorrect`, `YieldedRightly`, `PassedRightly` | no recycled pids within one scan, neither `exec` nor `abort`, cpulimit not in the tree | `Sought` |
| `SteadyFound` | the same | `Steadfast` with `Sought` |
| `SearchTypes` | every fault of the search | `Sound` of `SearchLoopProofs` |
| `SearchFindsTopmost` | no recycled pids; but for matches that the age of an inode has denied | `TopInv` |
| `SearchMissesNothingElse` | no recycled pids | `FindInv` with `TopInv` |
| `TableTypeCorrect`, `ListsWellLinked`, `EachOnceInTable`, `LoopWalksAll` | any `HashSize`, two nodes for each pid | `IInv` of `ProcessTableProofs` |
| `TableImplementsMap` | the same | `IInv`, and each call maps to a step of `GroupMap` or none |
| `UndisturbedParentWaits`, `CommandModeTypeCorrect` | everything | `Waited`; `TypeOK` itself |
| `MainWaits`, `MainTypeCorrect` | every command line | the two above: a behaviour of `Main` is one of `CommandMode` |
| `AcceptsAsGiven`, `DoesAsGiven` | any number of options, any width of `pid_t`; a pid that fits into it; for the first, no limit of nan | `Tracks` |

`ProcessesProofs` has the facts about the tree that these rest on: `Below(r)` is
itself closed and the least such set, it is transitive, empty for the dead, grows
and shrinks with the child relation; then what a signal, a fork, an exit and a
reaping do to it.

* *Nobody left stopped.* That all run at the end is not inductive. `Resumable`
  says, for each statement of the loop, where a stopped process is to be found
  (`Located`): before the look-up it is selected by the iterator; during it, it is
  still unread or already listed; from then on it is listed; in the loops that
  continue it is still to be visited. The fork, exit and reaping lemmas show that
  a live member stays selected; this is what an orphan breaks.
* *Kinship.* Kin is closed under the child relation of existing processes, so
  what is selected is kin when it is listed; it may be dead when it is signalled,
  but then, without recycled pids, nothing else has its pid.
* *Sleep slice.* Each selected, signallable process that was born before the scan
  is owed a place: still unread, listed, still to be visited, or stopped.
* *Accounting.* Not the usage but the reading is inductive: the CPU time in a
  descriptor is at most what its process has used, and at least what it had used
  at `last_update`. The arithmetic is in lemmas over constants.
* *What is lost.* `Accounted` follows each descriptor outside the table back to the
  kill that failed, and that fails only for the dead and for those who answer
  EPERM.
* *Controller.* The lemmas are about one product and one quotient of naturals each:
  that a ratio of at most 1 does not raise what it is applied to, and that the
  clamp keeps order. The slices add up because what the two divisions cut off is
  less than two units.
* *Iterator.* `Upwards` is the heart of `Sought`. The walk stands at `cur`; if `cur` is
  below the target now, then the entry was at some moment, since it was below each
  process that the walk came through when it did; and unless the entry once was
  not of the family, it is still below `cur`. A death hands the children of the
  dead to process 1, which takes whoever hangs on them out of the family, and this
  is then recorded in `seen`. `Steadfast` adds where a process that is of the family
  all the time is to be found during the scan.
* *Options.* `Tracks` ties each variable to the last option of its kind in `given`.
* *Search.* The best match is below none of the others that were compared, at
  every moment and not only when it was compared: what a fork adds below anybody
  is a process that was not born before. Taking a match above the best one keeps
  this by transitivity, and because nobody is its own ancestor. A match that the age of
  an inode has denied drops out of the statement for the rest of the search.
* *Pointers.* A walk along `next` or `previous` is cut out of a recursive function, so
  that its meaning would need induction; instead the walks are compared with a
  sequence that is already there. `Shaped(h, s)` says of a heap and one sequence of
  nodes for each list that the pointers string exactly these sequences, that they are
  injective and disjoint, and that together they are the nodes in use. A walk that
  meets such a sequence in its first node meets it in all: there is no least place
  where it does not (`Least`, the least-number principle, takes the place of
  induction; `WalkMeets`). `AddElem`, `DeleteNode` and `ClearLists` each keep a
  heap in shape and append to, take one out of, or empty a sequence, one lemma
  for each of them (`AddedShaped`, `DeletedShaped`, `ClearedShaped`). From then on only
  `Contents` is spoken of. `IInv` says that every heap is in shape (`WellMade`), that
  buckets hold each pid once and their own (`Sorted`), that buckets never allocated are
  empty (`OnlyMade`), that during a scan what is listed is no longer unread (`Unlisted`),
  and that in a loop what is due is what is listed from `node` on (`Ahead`). That
  two nodes for each pid are enough, so that a free one is left whenever one is wanted,
  is proved by counting: with each pid at most once in
  `proclist` and once in the table, a node in use is a pid and one of two
  places (`RoomForOneMore`). Whether `malloc` gives it out is left open (`AbortUpdate`,
  `AbortListing`).
* *Refinement of GroupMap.* `BeginUpdate` is its `Clear`, `Enter(p)` its `Enter(p)`,
  `NotSignalled` its `Drop(i)` where `i` is the place of `node` in `proclist`, `Close` its
  `Close`, the exits its `Exit`; a `TableFind` that fails adds, one that finds leaves the set as it is,
  and the cursor moves unseen.
* *Use of the group.* That a scan enters nobody twice needs that what is listed is not
  unread; that a loop begins anew only when the last one is through, that `todo`
  or `due` is empty outside the loops. For descriptors, `OwnedOnce` says that no
  two listed ones have the same pid, so that taking one off the list takes its pid off.
  For pointers the lemmas of `TableImplementsMap` say what becomes of the sets.
* *Command mode.* While the parent has got no signal, a `waitpid` has returned only
  because its child had ended.

Only model-checked: all liveness (`QuitEnds` in both modules, `DeathEnds`,
`StoppedIsContinued`, `MatchIsLimited`, `InterruptEndsAll`, `Settles`, `RunsAgain`,
`ScanEnds`, and the fairness of `Limiting` in `KeepsPromise`), which is out of the
prover's reach. Every invariant and every other action property that a passing run
checks is a theorem.

## What is not modelled

* The texts: the arguments of options, the parsing of stat files, the comparison of
  names, output, and `-v`.
* In `Controller`: a family whose members differ in how busy they are, and the
  precision of doubles.
* `is_child_of()` and `getppid_of()` of FreeBSD as calls of their own, which open kvm
  anew and are used by the search alone; `SearchLoop` has Linux.
* `increase_priority()`, which nothing depends on, and `get_ncpu()`, which is a
  constant.
* The accessors of `list.c` and `process_table.c` that nobody calls.
* The tests, the test programs and the build files.

## Plan

Done: `Processes` and `LimitProcess`, the heart of the program; `Limiting` and
`CommandMode`; `ProcessGroup`; `SearchLoop`; `ProcessTable`; `Controller`; `Iterator`;
`Options` and `Main`; `GroupCalls`, which joins the three views of a process group; a
proof of every safety property that a run shows to hold.

What could still be added:

1. *Composition.* `LimitProcess` over `Controller`, so that `tsleep` is computed and not
   chosen. Both outcomes occur in `Controller`, so that no property of
   `LimitProcess` would become stronger.
2. *Search on FreeBSD and macOS*, with the answers their `is_child_of()` may give.

## Running

    tlc -workers 4 -config limit_process.cfg MCLimitProcess.tla
    tlapm LimitProcessProofs.tla

Each `.cfg` is for the module that `PROJECT.json` names with it. The longest run,
`search`, takes three minutes with two workers, and the others less than two; the
proofs take some ten minutes together.

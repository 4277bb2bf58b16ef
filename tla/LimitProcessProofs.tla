-------------------------- MODULE LimitProcessProofs --------------------------
(***************************************************************************)
(* Proofs of the safety properties of LimitProcess, for every set of       *)
(* processes, with and without -i, each under the faults it survives.      *)
(***************************************************************************)
EXTENDS LimitProcess, ProcessesProofs

(* The three signalling actions, as far as they change the system.         *)
LEMMA SignalStep ==
  ASSUME TypeOK, NEW p \in Pids, SendCont(p) \/ SendStop(p) \/ ResumeMember(p)
  PROVE  /\ ParentsLive => ParentsLive'
         /\ Descendants' = Descendants
         /\ \A q \in Pids : Live(q)' = Live(q) /\ Exists(q)' = Exists(q)
         /\ state' \in [Pids -> States]
<1>1. OSTypeOK /\ UNCHANGED parent
  BY DEF TypeOK, SendCont, SendStop, ResumeMember
<1>2. state' = Continued(p) \/ state' = Stopped(p) \/ state' = state
  BY DEF SendCont, SendStop, ResumeMember
<1> QED
  BY <1>1, <1>2, SignalTree

(* An exit on the way leaves the system alone and drops at most a node.    *)
LEMMA AbortStep ==
  ASSUME Abort
  PROVE  /\ UNCHANGED <<osVars, newborn, faults, ret, quit_flag, unread, tsleep>>
         /\ pc' = "aborted" /\ "abort" \in faults
         /\ proclist' \subseteq proclist
         /\ todo' \subseteq todo
         /\ proctable' \in {proctable} \cup {proctable \cup {p} : p \in Pids}
BY DEF Abort, AbortUpdate, AbortListing, AbortRemoval, Exits

(* Which faults are met does not change.                                   *)
LEMMA FaultsRigid ==
  ASSUME [Next]_vars
  PROVE  /\ faults' = faults
         /\ \A F \in SUBSET FaultKinds : Spared(F)' = Spared(F)
BY AbortStep DEF Next, Limiter, Signal, Family, Returned, vars, Spared

(* What is true of the system in general is in each execution.             *)
LEMMA SystemFaults ==
  ASSUME TypeOK
  PROVE  Faults \cap {"orphan", "reuse"} \subseteq faults
BY LimitProcessAssumption DEF LimitProcessAssumption, TypeOK

------------------------------------------------------------------------------
(* Every variable keeps its type, and no process ever has a dead parent.   *)
Sound == TypeOK /\ ParentsLive

LEMMA SoundInit == Init => Sound
<1> SUFFICES ASSUME Init PROVE Sound
  OBVIOUS
<1> PICK c \in Settings : OSInit(c.beside) /\ faults = c.faults
  BY DEF Init
<1>1. OSTypeOK
  BY ProcessesAssumption DEF OSInit, OSTypeOK, States, ProcessesAssumption
<1>2. ParentsLive
  <2>1. \A q \in Pids : parent[q] \in Pids => parent[q] = Target
    BY ProcessesAssumption DEF OSInit, ProcessesAssumption
  <2>2. Live(Target)
    BY ProcessesAssumption DEF OSInit, ProcessesAssumption, Live
  <2> QED
    BY <2>1, <2>2 DEF ParentsLive
<1> QED
  BY <1>1, <1>2 DEF Init, Sound, TypeOK, Locations

LEMMA SoundStep == Sound /\ [Next]_vars => Sound'
<1> SUFFICES ASSUME Sound, [Next]_vars
             PROVE  Sound'
  OBVIOUS
<1> USE DEF Sound
<1>0. faults' = faults
  BY FaultsRigid
<1>1. ASSUME UNCHANGED osVars
      PROVE  OSTypeOK' /\ ParentsLive'
  BY <1>1 DEF osVars, TypeOK, OSTypeOK, ParentsLive, Live, Exists
<1>2. CASE \E p \in Pids : SendCont(p) \/ SendStop(p) \/ ResumeMember(p)
  <2> PICK p \in Pids : SendCont(p) \/ SendStop(p) \/ ResumeMember(p)
    BY <1>2
  <2>1. ParentsLive' /\ state' \in [Pids -> States]
    BY SignalStep
  <2>2. TypeOK'
    BY <1>0, <2>1
    DEF TypeOK, OSTypeOK, SendCont, SendStop, ResumeMember, Locations
  <2> QED
    BY <2>1, <2>2
<1>3. CASE Family
  <2>1. newborn' \in SUBSET Pids /\ UNCHANGED limiterVars
    BY <1>3 DEF Family, TypeOK
  <2>2. OSTypeOK' /\ ParentsLive'
    <3>1. ASSUME NEW p \in Pids, NEW c \in Pids, Fork(p, c)
          PROVE  OSTypeOK' /\ ParentsLive'
      BY <3>1, ForkTree DEF TypeOK
    <3>2. ASSUME NEW p \in Pids, Exit(p)
          PROVE  OSTypeOK' /\ ParentsLive'
      BY <3>2, ExitTree DEF TypeOK
    <3>3. ASSUME NEW p \in Pids, Reap(p)
          PROVE  OSTypeOK' /\ ParentsLive'
      BY <3>3, ReapTree DEF TypeOK
    <3>4. ASSUME NEW p \in Pids, LeaderExit(p)
          PROVE  OSTypeOK' /\ ParentsLive'
      BY <3>4 DEF LeaderExit, TypeOK, OSTypeOK, ParentsLive, Live, Exists
    <3> QED
      BY <1>3, <3>1, <3>2, <3>3, <3>4 DEF Family
  <2> QED
    BY <1>0, <2>1, <2>2 DEF TypeOK, limiterVars
<1>4. CASE InitProcessGroup
  BY <1>0, <1>1, <1>4 DEF InitProcessGroup, TypeOK, Locations
<1>5. CASE OpenIterator
  BY <1>0, <1>1, <1>5, ProcessesAssumption
  DEF OpenIterator, IteratorEntries, TypeOK, Locations, ProcessesAssumption
<1>6. CASE \E p \in Pids : ListEntry(p) \/ SkipEntry(p)
  BY <1>0, <1>1, <1>6 DEF ListEntry, SkipEntry, TypeOK, Locations
<1>7. CASE CloseIterator \/ Abort \/ CheckQuit
  BY <1>0, <1>1, <1>7, AbortStep DEF CloseIterator, CheckQuit, TypeOK, Locations
<1>8. CASE CountMembers
  BY <1>0, <1>1, <1>8 DEF CountMembers, TypeOK, Locations
<1>9. CASE ContDone \/ Work \/ StopDone \/ Sleep
  BY <1>0, <1>1, <1>9 DEF ContDone, Work, StopDone, Sleep, TypeOK, Locations
<1>10. CASE LeaveLoop \/ ResumeDone \/ CloseProcessGroup
  BY <1>0, <1>1, <1>10
  DEF LeaveLoop, ResumeDone, CloseProcessGroup, TypeOK, Locations
<1>11. CASE Signal
  BY <1>0, <1>1, <1>11 DEF Signal, TypeOK
<1>12. CASE UNCHANGED vars
  BY <1>0, <1>1, <1>12 DEF vars, limiterVars, TypeOK
<1> QED
  BY <1>2, <1>3, <1>4, <1>5, <1>6, <1>7, <1>8, <1>9, <1>10, <1>11, <1>12
  DEF Next, Limiter, Returned

THEOREM SoundAlways == Spec => []Sound
<1> QED
  BY SoundInit, SoundStep, PTL DEF Spec

(* Type correctness of the limiter and of the system below it.             *)
THEOREM TypeCorrect == Spec => []TypeOK
<1>1. Sound => TypeOK
  BY DEF Sound
<1> QED
  BY SoundAlways, <1>1, PTL
(* No list node outlives its entry in the table, which owns the struct     *)
(* process both point to: remove_process() is never called for a node that *)
(* stays, and the two grow together.                                       *)
THEOREM TableOwnsList == Spec => [](proclist \subseteq proctable)
<1>1. Init => proclist \subseteq proctable
  BY DEF Init
<1>2. proclist \subseteq proctable /\ [Next]_vars
        => (proclist \subseteq proctable)'
  BY AbortStep
  DEF Next, Limiter, Family, Returned, Signal,
         InitProcessGroup, OpenIterator, CloseIterator, ListEntry, SkipEntry,
         CheckQuit, CountMembers, SendCont, SendStop, ResumeMember, ContDone,
         Work, StopDone, Sleep, LeaveLoop, ResumeDone, CloseProcessGroup,
         vars, limiterVars
<1> QED
  BY <1>1, <1>2, PTL DEF Spec

------------------------------------------------------------------------------
(* Who can be left behind stopped.  Whatever the processes of the family   *)
(* do, none that still is below the target, as long as /proc can be        *)
(* opened, no process goes on without its first thread, and no inode seems *)
(* older than its process.                                                 *)
Seen == Spared({"headless", "opendir", "age"})

(* Where a stopped process is at each statement of the loop: what will see *)
(* to it that a SIGCONT reaches it.                                        *)
Located(p) ==
  /\ pc = "scan" => p \in unread \cup proclist
  /\ pc \in {"check", "count", "stop", "sleep", "leave"} => p \in proclist
  /\ pc \in {"continue", "resume"} => p \in todo
  /\ pc \notin {"init", "work", "close", "done"}

StoppedLocated ==
  \A p \in Pids : state[p] = "stopped" /\ Selected(p) =>
                     p \notin Foreign /\ Located(p)

(* The loop is left without a signal only when nobody is listed.           *)
LeavesEmpty == pc = "leave" /\ ~quit_flag => proclist = {}

(* In the loops that signal, who is to be visited is still in the list.    *)
VisitsListed == pc \in {"continue", "stop", "resume"} => todo \subseteq proclist

Resumable ==
  /\ Sound
  /\ headless = {}
  /\ VisitsListed
  /\ StoppedLocated
  /\ LeavesEmpty

LEMMA ResumableInit == Init => Resumable
BY SoundInit
DEF Init, OSInit, Resumable, VisitsListed, StoppedLocated, LeavesEmpty

(* What the processes do neither stops one nor brings a stopped one into   *)
(* the family, so each stopped one stays where the limiter will look for   *)
(* it.                                                                     *)
LEMMA ResumableFamily ==
  ASSUME Seen, Resumable, Family
  PROVE  Resumable'
<1> USE DEF Resumable
<1>1. Sound'
  BY SoundStep DEF Next
<1>2. TypeOK /\ OSTypeOK /\ ParentsLive /\ UNCHANGED limiterVars
  BY DEF Sound, TypeOK, Family
<1>3. ASSUME headless' = {},
             NEW c \in Pids,
             \A q \in Pids \ {c} :
               state'[q] = state[q] /\ (Selected(q)' => Selected(q)),
             state'[c] # "stopped"
      PROVE  Resumable'
  <2>1. StoppedLocated'
    BY <1>2, <1>3 DEF StoppedLocated, Located, limiterVars
  <2> QED
    BY <1>1, <1>2, <1>3, <2>1 DEF VisitsListed, LeavesEmpty, limiterVars
<1>4. ASSUME NEW p \in Pids, NEW c \in Pids, Fork(p, c)
      PROVE  Resumable'
  <2>1. \A q \in Pids \ {c} : Selected(q)' => Selected(q)
    BY <1>2, <1>4, ForkTree DEF Selected
  <2> QED
    BY <1>2, <1>3, <1>4, <2>1, ForkTree DEF Fork
<1>5. ASSUME NEW p \in Pids, Exit(p)
      PROVE  Resumable'
  <2>1. \A q \in Pids : Selected(q)' => Selected(q)
    BY <1>2, <1>5, ExitTree DEF Selected
  <2> QED
    BY <1>2, <1>3, <1>5, <2>1, ExitTree DEF Exit
<1>6. ASSUME NEW p \in Pids, Reap(p)
      PROVE  Resumable'
  <2>1. \A q \in Pids : Selected(q)' => Selected(q)
    BY <1>2, <1>6, ReapTree DEF Selected
  <2> QED
    BY <1>2, <1>3, <1>6, <2>1, ReapTree DEF Reap
<1>7. "headless" \notin faults
  BY DEF Seen, Spared
<1> QED
  BY <1>4, <1>5, <1>6, <1>7 DEF Family

(* A step of the limiter hands each stopped process on to the set in which *)
(* the next statements look for it, or continues it.                       *)
LEMMA ResumableLimiter ==
  ASSUME Seen, Resumable, Limiter \/ Abort \/ Signal \/ UNCHANGED vars
  PROVE  Resumable'
<1> USE DEF Resumable, VisitsListed
<1>1. Sound'
  BY SoundStep DEF Next
<1>2. TypeOK
  BY DEF Sound
<1>3. ASSUME UNCHANGED osVars
      PROVE  /\ \A p \in Pids : Selected(p)' = Selected(p)
             /\ headless' = {} /\ state' = state
  BY <1>3 DEF osVars, Selected, Descendants, Below, ClosedBelow, Exists, Live
<1>5. CASE InitProcessGroup
  BY <1>1, <1>3, <1>5
  DEF InitProcessGroup, StoppedLocated, Located, LeavesEmpty
<1>6. CASE OpenIterator
  <2>1. unread' = IF IncludeChildren THEN Pids ELSE {Target}
    BY <1>6 DEF OpenIterator, IteratorEntries, Seen, Spared
  <2>2. StoppedLocated'
    BY <1>3, <1>6, <2>1
    DEF OpenIterator, StoppedLocated, Located, Selected
  <2> QED
    BY <1>1, <1>3, <1>6, <2>2 DEF OpenIterator, LeavesEmpty
<1>7. CASE \E p \in Pids : ListEntry(p)
  <2> PICK p \in Pids : ListEntry(p)
    BY <1>7
  <2>1. StoppedLocated'
    BY <1>3 DEF ListEntry, StoppedLocated, Located
  <2> QED
    BY <1>1, <1>3, <2>1 DEF ListEntry, LeavesEmpty
<1>8. CASE \E p \in Pids : SkipEntry(p)
  <2> PICK p \in Pids : SkipEntry(p)
    BY <1>8
  <2>1. StoppedLocated'
    BY <1>3
    DEF SkipEntry, StoppedLocated, Located, Readable, Live, Seen, Spared
  <2> QED
    BY <1>1, <1>3, <2>1 DEF SkipEntry, LeavesEmpty
<1>9. CASE CloseIterator
  BY <1>1, <1>2, <1>3, <1>9
  DEF CloseIterator, StoppedLocated, Located, LeavesEmpty, TypeOK
<1>10. CASE Abort \/ Signal
  BY <1>1, <1>3, <1>10, AbortStep
  DEF Signal, StoppedLocated, Located, LeavesEmpty
<1>11. CASE CheckQuit
  BY <1>1, <1>3, <1>11
  DEF CheckQuit, StoppedLocated, Located, LeavesEmpty
<1>12. CASE CountMembers
  BY <1>1, <1>3, <1>12
  DEF CountMembers, StoppedLocated, Located, LeavesEmpty
<1>13. CASE ContDone \/ StopDone \/ ResumeDone \/ Sleep
  BY <1>1, <1>3, <1>13
  DEF ContDone, StopDone, ResumeDone, Sleep, StoppedLocated, Located,
      LeavesEmpty
<1>14. CASE Work
  BY <1>1, <1>3, <1>14 DEF Work, StoppedLocated, Located, LeavesEmpty
<1>15. CASE LeaveLoop
  BY <1>1, <1>3, <1>15
  DEF LeaveLoop, StoppedLocated, Located, LeavesEmpty
<1>16. CASE CloseProcessGroup
  BY <1>1, <1>3, <1>16
  DEF CloseProcessGroup, StoppedLocated, Located, LeavesEmpty
<1>17. ASSUME NEW p \in Pids, SendCont(p) \/ SendStop(p) \/ ResumeMember(p)
       PROVE  Resumable'
  <2>1. /\ \A q \in Pids : Selected(q)' = Selected(q)
        /\ headless' = {} /\ pc' = pc /\ quit_flag' = quit_flag
        /\ pc \in {"continue", "stop", "resume"} /\ p \in todo
        /\ todo' = todo \ {p} /\ unread' = unread
    BY <1>2, <1>17, SignalStep DEF Selected, SendCont, SendStop, ResumeMember
  <2>2. \/ Signallable(p) /\ proclist' = proclist
        \/ ~Signallable(p) /\ proclist' = proclist \ {p} /\ state' = state
        \/ ~Signallable(p) /\ proclist' = proclist /\ state' = state
    BY <1>17 DEF SendCont, SendStop, ResumeMember
  <2>3. \A q \in Pids : q # p => state'[q] = state[q]
    BY <1>2, <1>17
    DEF SendCont, SendStop, ResumeMember, Continued, Stopped, TypeOK, OSTypeOK
  <2>4. StoppedLocated'
    <3> SUFFICES ASSUME NEW q \in Pids, state'[q] = "stopped", Selected(q)
                 PROVE  q \notin Foreign /\ Located(q)'
      BY <2>1 DEF StoppedLocated
    <3>1. CASE q # p
      BY <2>1, <2>2, <2>3, <3>1 DEF StoppedLocated, Located
    <3>2. CASE q = p /\ SendStop(p)
      <4>1. Signallable(p)
        BY <1>2, <2>2, <3>2
        DEF SendStop, StoppedLocated, Signallable, Exists, Live
      <4>2. pc = "stop" /\ p \in proclist /\ proclist' = proclist
        BY <2>1, <3>2, <4>1 DEF SendStop
      <4> QED
        BY <2>1, <3>2, <4>1, <4>2 DEF Signallable, Located
    <3>3. CASE q = p /\ (SendCont(p) \/ ResumeMember(p))
      BY <1>2, <3>3
      DEF SendCont, ResumeMember, Continued, StoppedLocated, Signallable,
          Exists, Live, TypeOK, OSTypeOK
    <3> QED
      BY <1>17, <3>1, <3>2, <3>3
  <2> QED
    BY <1>1, <2>1, <2>2, <2>4 DEF LeavesEmpty
<1>18. CASE UNCHANGED vars
  BY <1>1, <1>3, <1>18
  DEF vars, limiterVars, StoppedLocated, Located, LeavesEmpty
<1> QED
  BY <1>5, <1>6, <1>7, <1>8, <1>9, <1>10, <1>11, <1>12, <1>13, <1>14, <1>15,
     <1>16, <1>17, <1>18
  DEF Limiter

LEMMA ResumableStep == Seen /\ Resumable /\ [Next]_vars => Resumable'
BY ResumableFamily, ResumableLimiter DEF Next, Returned

(* Orphans or not, recycled pids or not: limit_process() returns, by a     *)
(* signal or because nobody is left, with no process stopped that is below *)
(* the target then, and no work slice begins with such a process stopped.  *)
THEOREM FamilyNeverLeftStopped == Spec => []FamilyResumed
<1>1. (Seen => Resumable) => FamilyResumed
  BY DEF Seen, Resumable, StoppedLocated, Located, FamilyResumed
<1>2. (Seen => Resumable) /\ [Next]_vars => (Seen => Resumable)'
  BY ResumableStep, FaultsRigid DEF Seen, Spared
<1>3. Init => (Seen => Resumable)
  BY ResumableInit
<1> QED
  BY <1>1, <1>2, <1>3, PTL DEF Spec

------------------------------------------------------------------------------
(* When, besides, nobody is left behind at all: if with -i no process      *)
(* leaves the tree below the target alive, be it as an orphan or by giving *)
(* its pid to a stranger, who is listed or stopped stays selected.         *)
Calm == Seen /\ (IncludeChildren => Spared({"orphan", "reuse"}))

ListedSelected ==
  \A p \in proclist : /\ Live(p) => Selected(p)
                      /\ state[p] # "unborn"
                      /\ IncludeChildren \/ p = Target

StoppedSelected == \A p \in Pids : state[p] = "stopped" => Selected(p)

Together == ListedSelected /\ StoppedSelected

LEMMA TogetherStep ==
  ASSUME Calm, Resumable, Together, [Next]_vars
  PROVE  Together'
<1> USE DEF Together
<1>1. TypeOK /\ OSTypeOK /\ ParentsLive
  BY DEF Resumable, Sound, TypeOK
<1>0. /\ "headless" \notin faults
      /\ IncludeChildren => "orphan" \notin Faults /\ "reuse" \notin Faults
  BY <1>1, SystemFaults DEF Calm, Seen, Spared
<1>2. ASSUME NEW p \in Pids, SendCont(p) \/ SendStop(p) \/ ResumeMember(p)
      PROVE  Together'
  <2>1. /\ \A q \in Pids : Selected(q)' = Selected(q) /\ Live(q)' = Live(q)
        /\ proclist' \subseteq proclist
        /\ p \in todo /\ pc \in {"continue", "stop", "resume"}
    BY <1>1, <1>2, SignalStep DEF Selected, SendCont, SendStop, ResumeMember
  <2>2. \A q \in Pids : /\ q # p => state'[q] = state[q]
                        /\ state'[q] = "unborn" <=> state[q] = "unborn"
                        /\ state'[q] = "stopped" => Live(q)
    BY <1>1, <1>2
    DEF SendCont, SendStop, ResumeMember, Continued, Stopped, TypeOK, OSTypeOK,
        Live
  <2>3. p \in proclist
    BY <2>1 DEF Resumable, VisitsListed
  <2> QED
    BY <1>1, <2>1, <2>2, <2>3 DEF ListedSelected, StoppedSelected, TypeOK
<1>3. ASSUME UNCHANGED osVars,
             \/ proclist' \subseteq proclist
             \/ \E p \in Pids : ListEntry(p)
      PROVE  Together'
  <2>1. /\ \A p \in Pids : Selected(p)' = Selected(p) /\ Live(p)' = Live(p)
        /\ state' = state
    BY <1>3 DEF osVars, Selected, Descendants, Below, ClosedBelow, Exists, Live
  <2>2. ListedSelected'
    BY <1>1, <1>3, <2>1
    DEF ListEntry, ListedSelected, Selected, Readable, Live, TypeOK
  <2> QED
    BY <2>1, <2>2 DEF StoppedSelected
<1>4. CASE Family
  <2>1. proclist' = proclist
    BY <1>4 DEF Family, limiterVars
  <2>2. ASSUME NEW c \in Pids,
               \A q \in Pids \ {c} :
                 state'[q] = state[q] /\ (Selected(q) => Selected(q)'),
               state'[c] # "stopped" /\ state'[c] # "unborn",
               Live(c)' => state[c] = "unborn" \/ ~IncludeChildren
        PROVE  Together'
    <3>1. ListedSelected'
      <4> SUFFICES ASSUME NEW p \in proclist
                   PROVE  /\ Live(p)' => Selected(p)'
                          /\ state'[p] # "unborn"
                          /\ IncludeChildren \/ p = Target
        BY <2>1 DEF ListedSelected
      <4>1. p \in Pids
        BY <1>1 DEF TypeOK
      <4>2. CASE p = c
        BY <2>2, <4>1, <4>2 DEF ListedSelected, Selected
      <4>3. CASE p # c
        BY <2>2, <4>1, <4>3 DEF ListedSelected, Live
      <4> QED
        BY <4>2, <4>3
    <3> QED
      BY <2>2, <3>1 DEF StoppedSelected
  <2>3. ASSUME NEW p \in Pids, NEW c \in Pids, Fork(p, c)
        PROVE  Together'
    <3>1. \A q \in Pids \ {c} : Selected(q) => Selected(q)'
      BY <1>1, <2>3, ForkTree DEF Selected
    <3> QED
      BY <1>0, <1>1, <2>2, <2>3, <3>1, ForkTree
  <2>4. ASSUME NEW p \in Pids, Exit(p)
        PROVE  Together'
    <3>1. \A q \in Pids \ {p} : Selected(q) => Selected(q)'
      BY <1>0, <1>1, <2>4, ExitTree DEF Selected
    <3> QED
      BY <1>1, <2>2, <2>4, <3>1, ExitTree DEF Live
  <2>5. ASSUME NEW p \in Pids, Reap(p)
        PROVE  Together'
    <3>1. \A q \in Pids \ {p} : Selected(q) => Selected(q)'
      BY <1>1, <2>5, ReapTree DEF Selected
    <3> QED
      BY <1>1, <2>2, <2>5, <3>1, ReapTree DEF Live
  <2> QED
    BY <1>0, <1>4, <2>3, <2>4, <2>5 DEF Family
<1> QED
  BY <1>2, <1>3, <1>4, AbortStep
  DEF Next, Limiter, Returned, Signal, InitProcessGroup, OpenIterator,
      CloseIterator, SkipEntry, ListEntry, CheckQuit, CountMembers, ContDone,
      Work, StopDone, Sleep, LeaveLoop, ResumeDone, CloseProcessGroup, vars,
      limiterVars

(* In a calm execution limit_process() returns with nobody left stopped:   *)
(* what the comment at the end of the code says of a quit signal, and the  *)
(* same of the death of the family.                                        *)
THEOREM NobodyLeftStopped ==
  Spec => [](Calm => AllResumedAtExit /\ QuitResumesAll)
<1> DEFINE Inv == Calm => Resumable /\ Together
<1>1. Init => Inv
  BY ResumableInit DEF Init, OSInit, Together, ListedSelected, StoppedSelected
<1>2. Inv /\ [Next]_vars => Inv'
  BY ResumableStep, TogetherStep, FaultsRigid DEF Calm, Seen, Spared
<1>3. Inv => (Calm => AllResumedAtExit /\ QuitResumesAll)
  BY DEF Resumable, StoppedLocated, Located, Together, StoppedSelected,
         AllResumedAtExit, QuitResumesAll
<1> HIDE DEF Inv
<1> QED
  BY <1>1, <1>2, <1>3, PTL DEF Spec

------------------------------------------------------------------------------
(* Who can be stopped.  As long as no pid is recycled the family is kin of *)
(* the target, and a listed process stays kin until it is reaped.          *)
KinClosed == \A q \in Pids : Exists(q) /\ parent[q] \in kin => q \in kin

TargetIsKin ==
  state[Target] # "unborn" /\ (Exists(Target) => Target \in kin)

ListedKin ==
  \A p \in proclist : state[p] # "unborn" /\ (Exists(p) => p \in kin)

Kinship ==
  /\ Sound
  /\ KinClosed
  /\ TargetIsKin
  /\ ListedKin
  /\ pc \in {"continue", "stop", "resume"} => todo \subseteq proclist
  /\ OnlyKinStopped

LEMMA KinshipInit == Init => Kinship
BY SoundInit, ProcessesAssumption
DEF Init, OSInit, Kinship, KinClosed, TargetIsKin, ListedKin, OnlyKinStopped,
    Exists, Live, ProcessesAssumption

(* The selected processes are kin: kin is closed under the child relation. *)
LEMMA SelectedAreKin ==
  ASSUME Kinship, NEW p \in Pids, Selected(p), Exists(p)
  PROVE  p \in kin
<1> USE DEF Kinship
<1>1. CASE p = Target
  BY <1>1 DEF TargetIsKin
<1>2. CASE p \in Descendants
  <2>1. Live(Target)
    BY <1>2, DescendantsNeedTarget DEF Sound
  <2>2. ClosedBelow(Target, kin)
    BY <2>1 DEF ClosedBelow, KinClosed, TargetIsKin, Exists
  <2> QED
    BY <1>2, <2>2, BelowLeast DEF Descendants, Sound, TypeOK, OSTypeOK
<1> QED
  BY <1>1, <1>2 DEF Selected

LEMMA KinshipStep ==
  "reuse" \notin Faults /\ Kinship /\ [Next]_vars => Kinship'
<1> SUFFICES ASSUME "reuse" \notin Faults, Kinship, [Next]_vars
             PROVE  Kinship'
  OBVIOUS
<1> USE DEF Kinship
<1>1. Sound'
  BY SoundStep
<1>2. TypeOK /\ OSTypeOK /\ ParentsLive
  BY DEF Sound, TypeOK
<1>3. CASE Family
  <2>1. UNCHANGED limiterVars
    BY <1>3 DEF Family
  <2>2. ASSUME NEW p \in Pids, NEW c \in Pids, Fork(p, c)
        PROVE  Kinship'
    <3>1. /\ \A q \in Pids \ {c} : state'[q] = state[q] /\ parent'[q] = parent[q]
          /\ state[c] = "unborn" /\ state'[c] = "running" /\ parent'[c] = p
          /\ kin' = IF p \in kin THEN kin \cup {c} ELSE kin \ {c}
          /\ state[p] = "running" /\ p # c
      BY <1>2, <2>2, ForkTree DEF Fork, OSTypeOK
    <3>2. KinClosed'
      <4> SUFFICES ASSUME NEW q \in Pids, Exists(q)', parent'[q] \in kin'
                   PROVE  q \in kin'
        BY DEF KinClosed
      <4>1. CASE q = c
        BY <3>1, <4>1
      <4>2. CASE q # c
        <5>1. Exists(q) /\ parent'[q] = parent[q]
          BY <3>1, <4>2 DEF Exists, Live
        <5>2. parent[q] # c
          BY <1>2, <3>1, <5>1 DEF ParentsLive, Live
        <5> QED
          BY <3>1, <4>2, <5>1, <5>2 DEF KinClosed
      <4> QED
        BY <4>1, <4>2
    <3>3. TargetIsKin' /\ OnlyKinStopped'
      BY <3>1, ProcessesAssumption
      DEF TargetIsKin, OnlyKinStopped, Exists, Live, ProcessesAssumption
    <3>4. ListedKin'
      BY <1>2, <2>1, <3>1 DEF ListedKin, limiterVars, TypeOK, Exists, Live
    <3> QED
      BY <1>1, <2>1, <3>2, <3>3, <3>4 DEF limiterVars
  <2>3. ASSUME NEW p \in Pids, Exit(p)
        PROVE  Kinship'
    <3>1. /\ \A q \in Pids \ {p} : state'[q] = state[q]
          /\ Live(p) /\ state'[p] = "zombie" /\ kin' = kin
          /\ \A q \in Pids : parent'[q] = parent[q] \/ parent'[q] = InitPid
      BY <1>2, <2>3, ExitTree DEF Exit, OSTypeOK
    <3>2. InitPid \notin kin
      BY <1>2, ProcessesAssumption DEF OSTypeOK, ProcessesAssumption
    <3>3. KinClosed'
      BY <3>1, <3>2 DEF KinClosed, Exists, Live
    <3>4. TargetIsKin' /\ OnlyKinStopped'
      BY <3>1, ProcessesAssumption
      DEF TargetIsKin, OnlyKinStopped, Exists, Live, ProcessesAssumption
    <3>5. ListedKin'
      BY <1>2, <2>1, <3>1 DEF ListedKin, limiterVars, TypeOK, Exists, Live
    <3> QED
      BY <1>1, <2>1, <3>3, <3>4, <3>5 DEF limiterVars
  <2>4. ASSUME NEW p \in Pids, Reap(p)
        PROVE  Kinship'
    <3>1. /\ \A q \in Pids \ {p} : state'[q] = state[q] /\ parent'[q] = parent[q]
          /\ state'[p] = "reaped" /\ kin' = kin \ {p}
      BY <1>2, <2>4, ReapTree DEF Reap, OSTypeOK
    <3>2. KinClosed'
      BY <3>1 DEF KinClosed, Exists, Live
    <3>3. TargetIsKin' /\ OnlyKinStopped'
      BY <3>1, ProcessesAssumption
      DEF TargetIsKin, OnlyKinStopped, Exists, Live, ProcessesAssumption
    <3>4. ListedKin'
      BY <1>2, <2>1, <3>1 DEF ListedKin, limiterVars, TypeOK, Exists, Live
    <3> QED
      BY <1>1, <2>1, <3>2, <3>3, <3>4 DEF limiterVars
  <2>5. ASSUME NEW p \in Pids, LeaderExit(p)
        PROVE  Kinship'
    BY <1>1, <2>1, <2>5
    DEF LeaderExit, KinClosed, TargetIsKin, ListedKin, OnlyKinStopped, Exists,
        Live, limiterVars
  <2> QED
    BY <1>3, <2>2, <2>3, <2>4, <2>5 DEF Family
<1>4. ASSUME NEW p \in Pids, SendCont(p) \/ SendStop(p) \/ ResumeMember(p)
      PROVE  Kinship'
  <2>1. /\ \A q \in Pids : Exists(q)' = Exists(q)
        /\ \A q \in Pids : q # p => state'[q] = state[q]
        /\ \A q \in Pids : state'[q] = "unborn" <=> state[q] = "unborn"
        /\ UNCHANGED <<parent, kin, pc>>
        /\ proclist' = proclist \/ proclist' = proclist \ {p}
        /\ p \in todo /\ todo' = todo \ {p}
        /\ pc \in {"continue", "stop", "resume"}
    BY <1>2, <1>4, SignalStep
    DEF SendCont, SendStop, ResumeMember, Continued, Stopped, OSTypeOK
  <2>2. state'[p] = "stopped" => Exists(p)
    BY <2>1 DEF Exists, Live
  <2>3. OnlyKinStopped'
    BY <2>1, <2>2 DEF OnlyKinStopped, ListedKin
  <2>4. KinClosed' /\ TargetIsKin'
    BY <2>1, ProcessesAssumption
    DEF KinClosed, TargetIsKin, ProcessesAssumption
  <2>5. ListedKin'
    BY <1>2, <2>1 DEF ListedKin, TypeOK
  <2> QED
    BY <1>1, <2>1, <2>3, <2>4, <2>5
<1>5. ASSUME UNCHANGED osVars
      PROVE  KinClosed' /\ TargetIsKin' /\ OnlyKinStopped'
  BY <1>5 DEF osVars, KinClosed, TargetIsKin, OnlyKinStopped, Exists, Live
<1>6. ASSUME UNCHANGED osVars, proclist' \subseteq proclist
      PROVE  ListedKin'
  BY <1>6 DEF osVars, ListedKin, Exists, Live
<1>7. ASSUME NEW p \in Pids, ListEntry(p)
      PROVE  Kinship'
  <2>1. p \in kin /\ state[p] # "unborn"
    BY <1>7, SelectedAreKin DEF ListEntry, Readable, Exists, Live
  <2>2. ListedKin'
    BY <1>7, <2>1 DEF ListEntry, osVars, ListedKin, Exists, Live
  <2> QED
    BY <1>1, <1>5, <1>7, <2>2 DEF ListEntry
<1>8. ASSUME NEW p \in Pids, SkipEntry(p)
      PROVE  Kinship'
  BY <1>1, <1>5, <1>6, <1>8 DEF SkipEntry
<1>9. CASE InitProcessGroup \/ OpenIterator \/ CloseIterator \/ Abort \/ Signal
  BY <1>1, <1>2, <1>5, <1>6, <1>9, AbortStep
  DEF InitProcessGroup, OpenIterator, CloseIterator, Signal, TypeOK
<1>10. CASE CheckQuit \/ CountMembers \/ ContDone \/ Work \/ StopDone \/ Sleep
  BY <1>1, <1>5, <1>6, <1>10
  DEF CheckQuit, CountMembers, ContDone, Work, StopDone, Sleep
<1>11. CASE LeaveLoop \/ ResumeDone \/ CloseProcessGroup
  BY <1>1, <1>5, <1>6, <1>11 DEF LeaveLoop, ResumeDone, CloseProcessGroup
<1>12. CASE UNCHANGED vars
  BY <1>1, <1>5, <1>6, <1>12 DEF vars, limiterVars
<1> QED
  BY <1>3, <1>4, <1>7, <1>8, <1>9, <1>10, <1>11, <1>12
  DEF Next, Limiter, Returned

(* Unless a pid is recycled, only processes that the target or one of its  *)
(* kin started are ever stopped, whatever else goes wrong.                 *)
THEOREM StrangersRun ==
  ASSUME "reuse" \notin Faults
  PROVE  Spec => []OnlyKinStopped
<1>1. Kinship /\ [Next]_vars => Kinship'
  BY KinshipStep
<1>2. Kinship => OnlyKinStopped
  BY DEF Kinship
<1> QED
  BY KinshipInit, <1>1, <1>2, PTL DEF Spec
------------------------------------------------------------------------------
(* Whom the sleep slice holds.  A process that the slot owes a SIGSTOP:    *)
Owed(p) == Live(p) /\ Selected(p) /\ p \notin Foreign /\ p \notin newborn

(* is found by the scan, unless it saw nothing at all, stays in the list,  *)
(* and at the end of the stopping loop is stopped.                         *)
Held(p) ==
  /\ pc = "scan" => p \in unread \cup proclist \/ unread \cup proclist = {}
  /\ pc = "count" => p \in proclist \/ proclist = {}
  /\ pc \in {"continue", "work", "stop"} => p \in proclist
  /\ pc = "stop" => p \in todo \/ state[p] = "stopped"
  /\ pc = "sleep" => state[p] = "stopped"

SlotHeld ==
  /\ Sound
  /\ headless = {}
  /\ \A p \in Pids : Owed(p) => Held(p)

Showing == Spared({"exec", "headless", "age"})

LEMMA SlotHeldInit == Init => SlotHeld
BY SoundInit DEF Init, OSInit, SlotHeld, Held

LEMMA SlotHeldStep == Showing /\ SlotHeld /\ [Next]_vars => SlotHeld'
<1> SUFFICES ASSUME Showing, SlotHeld, [Next]_vars
             PROVE  SlotHeld'
  OBVIOUS
<1> USE DEF SlotHeld
<1>1. Sound'
  BY SoundStep
<1>2. TypeOK /\ OSTypeOK /\ ParentsLive
  BY DEF Sound, TypeOK
<1>3. CASE Family
  <2>1. UNCHANGED limiterVars
    BY <1>3 DEF Family
  <2>2. ASSUME headless' = {}, newborn \subseteq newborn',
               NEW c \in Pids, c \in newborn' \/ ~Live(c)',
               \A q \in Pids \ {c} : state'[q] = state[q],
               Descendants' \subseteq Descendants \cup newborn'
        PROVE  SlotHeld'
    <3> SUFFICES ASSUME NEW p \in Pids, Owed(p)'
                 PROVE  Held(p)'
      BY <1>1, <2>2
    <3>1. p # c /\ state'[p] = state[p]
      BY <2>2 DEF Owed
    <3>2. Owed(p)
      BY <2>2, <3>1 DEF Owed, Live, Selected
    <3> QED
      BY <2>1, <3>1, <3>2 DEF Held, limiterVars
  <2>3. ASSUME NEW p \in Pids, NEW c \in Pids,
               Fork(p, c), newborn' = newborn \cup {c}
        PROVE  SlotHeld'
    BY <1>2, <2>2, <2>3, ForkTree DEF Fork
  <2>4. ASSUME NEW p \in Pids, Exit(p), UNCHANGED newborn
        PROVE  SlotHeld'
    BY <1>2, <2>2, <2>4, ExitTree DEF Exit, Live
  <2>5. ASSUME NEW p \in Pids, Reap(p), UNCHANGED newborn
        PROVE  SlotHeld'
    BY <1>2, <2>2, <2>5, ReapTree DEF Reap, Live
  <2>6. "headless" \notin faults
    BY DEF Showing, Spared
  <2> QED
    BY <1>3, <2>3, <2>4, <2>5, <2>6 DEF Family
<1>4. ASSUME NEW p \in Pids, SendCont(p) \/ SendStop(p) \/ ResumeMember(p)
      PROVE  SlotHeld'
  <2>1. /\ \A q \in Pids : Selected(q)' = Selected(q) /\ Live(q)' = Live(q)
        /\ \A q \in Pids : q # p => state'[q] = state[q]
        /\ UNCHANGED <<headless, newborn, pc>>
        /\ todo' = todo \ {p}
    BY <1>2, <1>4, SignalStep
    DEF Selected, SendCont, SendStop, ResumeMember, Continued, Stopped, OSTypeOK
  <2> SUFFICES ASSUME NEW q \in Pids, Owed(q)'
               PROVE  Held(q)'
    BY <1>1, <2>1
  <2>2. Owed(q) /\ Held(q) /\ Signallable(q)
    BY <2>1 DEF Owed, Signallable, Exists
  <2>3. CASE q # p
    BY <1>4, <2>1, <2>2, <2>3
    DEF Held, SendCont, SendStop, ResumeMember
  <2>4. CASE q = p /\ SendStop(p)
    <3>1. state'[p] = "stopped" /\ proclist' = proclist /\ pc = "stop"
      BY <1>2, <2>2, <2>4
      DEF Owed, Live, SendStop, Stopped, OSTypeOK
    <3> QED
      BY <2>1, <2>2, <2>4, <3>1 DEF Held
  <2>5. CASE q = p /\ (SendCont(p) \/ ResumeMember(p))
    BY <2>1, <2>2, <2>5 DEF Held, SendCont, ResumeMember
  <2> QED
    BY <1>4, <2>3, <2>4, <2>5
<1>5. ASSUME UNCHANGED osVars
      PROVE  /\ headless' = {} /\ state' = state
             /\ \A p \in Pids : /\ Live(p)' = Live(p)
                                /\ Selected(p)' = Selected(p)
                                /\ UNCHANGED newborn => (Owed(p)' <=> Owed(p))
  BY <1>5 DEF osVars, Selected, Descendants, Below, ClosedBelow, Exists, Live, Owed
<1>6. CASE OpenIterator
  <2>1. \/ unread' = {} /\ proclist' = {}
        \/ \A p \in Pids : Selected(p) => p \in unread'
    BY <1>6 DEF OpenIterator, IteratorEntries, Selected
  <2> QED
    BY <1>1, <1>5, <1>6, <2>1 DEF OpenIterator, Held, Owed
<1>7. ASSUME NEW p \in Pids, ListEntry(p)
      PROVE  SlotHeld'
  BY <1>1, <1>5, <1>7 DEF ListEntry, Held
<1>8. ASSUME NEW p \in Pids, SkipEntry(p)
      PROVE  SlotHeld'
  <2>1. ~Owed(p)
    BY <1>8 DEF SkipEntry, Readable, Owed, Showing, Spared
  <2>2. /\ pc = "scan" /\ pc' = pc /\ p \in unread /\ unread' = unread \ {p}
        /\ UNCHANGED <<osVars, newborn, proclist>>
    BY <1>8 DEF SkipEntry
  <2> QED
    BY <1>1, <1>5, <2>1, <2>2 DEF Held
<1>9. CASE CloseIterator \/ Abort \/ CheckQuit \/ CountMembers
  BY <1>1, <1>2, <1>5, <1>9, AbortStep
  DEF CloseIterator, CheckQuit, CountMembers, Held, TypeOK
<1>10. CASE ContDone \/ Work \/ StopDone \/ Sleep
  BY <1>1, <1>5, <1>10 DEF ContDone, Work, StopDone, Sleep, Held
<1>11. CASE InitProcessGroup \/ LeaveLoop \/ ResumeDone \/ CloseProcessGroup
  BY <1>1, <1>5, <1>11
  DEF InitProcessGroup, LeaveLoop, ResumeDone, CloseProcessGroup, Held
<1>12. CASE Signal \/ UNCHANGED vars
  BY <1>1, <1>5, <1>12 DEF Signal, vars, limiterVars, Held
<1> QED
  BY <1>3, <1>4, <1>6, <1>7, <1>8, <1>9, <1>10, <1>11, <1>12
  DEF Next, Limiter, Returned

(* As long as /proc shows every live process as such, a member escapes the *)
(* sleep slice only if it was forked after the scan of the slot had begun: *)
(* orphans, recycled pids and failing calls do not change that.            *)
THEOREM SleepSliceHolds == Spec => []SleepSliceCovers
<1>1. (Showing => SlotHeld) /\ [Next]_vars => (Showing => SlotHeld)'
  BY SlotHeldStep, FaultsRigid DEF Showing, Spared
<1>2. (Showing => SlotHeld) => SleepSliceCovers
  BY DEF Showing, SlotHeld, SleepSliceCovers, Owed, Held, Live
<1>3. Init => (Showing => SlotHeld)
  BY SlotHeldInit
<1> QED
  BY <1>1, <1>2, <1>3, PTL DEF Spec

------------------------------------------------------------------------------
(* When limiting ends by itself.  The target alone decides: while it lives *)
(* the scan finds it, and without it nobody is selected.                   *)
TargetSeen ==
  /\ Sound
  /\ headless = {}
  /\ state[Target] # "unborn"
  /\ Live(Target) =>
       /\ pc = "scan" => Target \in unread \cup proclist
       /\ pc = "count" => Target \in proclist
       /\ pc \in {"leave", "resume", "close", "done"} => quit_flag

LEMMA TargetSeenInit == Init => TargetSeen
BY SoundInit, ProcessesAssumption
DEF Init, OSInit, TargetSeen, ProcessesAssumption

LEMMA TargetSeenStep == Seeing /\ TargetSeen /\ [Next]_vars => TargetSeen'
<1> SUFFICES ASSUME Seeing, TargetSeen, [Next]_vars
             PROVE  TargetSeen'
  OBVIOUS
<1> USE ProcessesAssumption DEF TargetSeen, ProcessesAssumption
<1>1. Sound'
  BY SoundStep
<1>2. TypeOK /\ OSTypeOK /\ ParentsLive
  BY DEF Sound, TypeOK
<1>0. /\ "headless" \notin faults /\ "exec" \notin faults
      /\ "opendir" \notin faults /\ "reuse" \notin Faults
  BY <1>2, SystemFaults DEF Seeing, Spared
<1>3. CASE Family
  <2>1. UNCHANGED limiterVars
    BY <1>3 DEF Family
  <2>2. headless' = {}
    BY <1>0, <1>3 DEF Family, Fork, Exit, Reap
  <2>3. ASSUME NEW p \in Pids, NEW c \in Pids, Fork(p, c)
        PROVE  state'[Target] = state[Target]
    BY <1>0, <1>2, <2>3, ForkTree
  <2>4. ASSUME NEW p \in Pids, Exit(p) \/ Reap(p)
        PROVE  \/ state'[Target] = state[Target]
               \/ state'[Target] \in {"zombie", "reaped"}
    BY <1>2, <2>4, ExitTree, ReapTree
  <2>5. (Live(Target)' => Live(Target)) /\ state'[Target] # "unborn"
    BY <1>0, <1>3, <2>3, <2>4 DEF Family, Live
  <2> QED
    BY <1>1, <2>1, <2>2, <2>5 DEF limiterVars
<1>4. ASSUME NEW p \in Pids, SendCont(p) \/ SendStop(p) \/ ResumeMember(p)
      PROVE  TargetSeen'
  <2>1. Live(Target)' = Live(Target) /\ state'[Target] # "unborn"
    BY <1>2, <1>4, SignalStep
    DEF SendCont, SendStop, ResumeMember, Continued, Stopped, OSTypeOK
  <2> QED
    BY <1>1, <1>4, <2>1 DEF SendCont, SendStop, ResumeMember
<1>5. ASSUME UNCHANGED osVars
      PROVE  /\ Live(Target)' = Live(Target)
             /\ state' = state /\ headless' = {}
  BY <1>5 DEF osVars, Live
<1>6. CASE OpenIterator
  BY <1>0, <1>1, <1>5, <1>6 DEF OpenIterator, IteratorEntries
<1>7. ASSUME NEW p \in Pids, ListEntry(p)
      PROVE  TargetSeen'
  BY <1>1, <1>5, <1>7 DEF ListEntry
<1>8. ASSUME NEW p \in Pids, SkipEntry(p)
      PROVE  TargetSeen'
  BY <1>0, <1>1, <1>5, <1>8 DEF SkipEntry, Selected, Readable
<1>9. CASE CloseIterator \/ Abort \/ CheckQuit \/ CountMembers
  BY <1>1, <1>2, <1>5, <1>9, AbortStep
  DEF CloseIterator, CheckQuit, CountMembers, TypeOK
<1>10. CASE ContDone \/ Work \/ StopDone \/ Sleep
  BY <1>1, <1>5, <1>10 DEF ContDone, Work, StopDone, Sleep
<1>11. CASE InitProcessGroup \/ LeaveLoop \/ ResumeDone \/ CloseProcessGroup
  BY <1>1, <1>5, <1>11
  DEF InitProcessGroup, LeaveLoop, ResumeDone, CloseProcessGroup
<1>12. CASE Signal \/ UNCHANGED vars
  BY <1>1, <1>5, <1>12 DEF Signal, vars, limiterVars
<1> QED
  BY <1>3, <1>4, <1>6, <1>7, <1>8, <1>9, <1>10, <1>11, <1>12
  DEF Next, Limiter, Returned

(* As long as /proc can be read and shows every live process as such,      *)
(* limiting does not end without a signal while somebody of the family     *)
(* lives, orphans and members that cannot be signalled notwithstanding.    *)
THEOREM OnlyDeathEnds == Spec => []LeavesOnlyTheDead
<1>1. (Seeing => TargetSeen) /\ [Next]_vars => (Seeing => TargetSeen)'
  BY TargetSeenStep, FaultsRigid DEF Seeing, Spared
<1>2. (Seeing => TargetSeen) => LeavesOnlyTheDead
  BY DescendantsNeedTarget
  DEF TargetSeen, Sound, LeavesOnlyTheDead, Selected
<1>3. Init => (Seeing => TargetSeen)
  BY TargetSeenInit
<1> QED
  BY <1>1, <1>2, <1>3, PTL DEF Spec

------------------------------------------------------------------------------
(* limit_process() keeps its promise about the target.  What becomes of    *)
(* the others does not matter for it: the scan asks for the target by pid. *)
TargetHeld ==
  /\ TargetSeen
  /\ state[Target] = "stopped" => Located(Target)
  /\ pc \in {"continue", "stop", "resume"} => todo \subseteq proclist
  /\ pc = "leave" /\ ~quit_flag => proclist = {}

LEMMA TargetHeldInit == Init => TargetHeld
BY TargetSeenInit, ProcessesAssumption
DEF Init, OSInit, TargetHeld, ProcessesAssumption

LEMMA TargetHeldStep == Seeing /\ TargetHeld /\ [Next]_vars => TargetHeld'
<1> SUFFICES ASSUME Seeing, TargetHeld, [Next]_vars
             PROVE  TargetHeld'
  OBVIOUS
<1> USE ProcessesAssumption DEF TargetHeld, ProcessesAssumption
<1>1. TargetSeen'
  BY TargetSeenStep
<1>2. TypeOK /\ OSTypeOK /\ ParentsLive /\ headless = {}
  BY DEF TargetSeen, Sound, TypeOK
<1>0. /\ "headless" \notin faults /\ "exec" \notin faults
      /\ "opendir" \notin faults /\ "reuse" \notin Faults
  BY <1>2, SystemFaults DEF Seeing, Spared
<1>3. CASE Family
  <2>1. UNCHANGED limiterVars
    BY <1>3 DEF Family
  <2>2. ASSUME NEW p \in Pids, NEW c \in Pids, Fork(p, c)
        PROVE  state'[Target] = state[Target]
    BY <1>0, <1>2, <2>2, ForkTree DEF TargetSeen
  <2>3. ASSUME NEW p \in Pids, Exit(p) \/ Reap(p)
        PROVE  \/ state'[Target] = state[Target]
               \/ state'[Target] \in {"zombie", "reaped"}
    BY <1>2, <2>3, ExitTree, ReapTree
  <2>4. \/ state'[Target] = state[Target]
        \/ state'[Target] \in {"zombie", "reaped"}
    BY <1>0, <1>3, <2>2, <2>3 DEF Family
  <2> QED
    BY <1>1, <2>1, <2>4 DEF limiterVars, Located, Live
<1>4. ASSUME NEW p \in Pids, SendCont(p) \/ SendStop(p) \/ ResumeMember(p)
      PROVE  TargetHeld'
  <2>1. /\ pc' = pc /\ pc \in {"continue", "stop", "resume"}
        /\ p \in todo /\ todo' = todo \ {p} /\ unread' = unread
        /\ quit_flag' = quit_flag
        /\ \/ proclist' = proclist
           \/ ~Signallable(p) /\ proclist' = proclist \ {p}
    BY <1>4 DEF SendCont, SendStop, ResumeMember
  <2>5. p # Target \/ ~Signallable(p) => state'[Target] = state[Target]
    <3>1. CASE Signallable(p)
      BY <1>2, <1>4, <3>1
      DEF SendCont, SendStop, ResumeMember, Continued, Stopped, OSTypeOK
    <3>2. CASE ~Signallable(p)
      BY <1>4, <3>2 DEF SendCont, SendStop, ResumeMember
    <3> QED
      BY <3>1, <3>2
  <2>2. state[Target] = "stopped" => Signallable(Target)
    BY DEF Signallable, Exists, Live
  <2>3. CASE SendStop(p)
    <3>1. pc = "stop" /\ (Signallable(p) => proclist' = proclist)
      BY <2>3 DEF SendStop
    <3> QED
      BY <1>1, <2>1, <2>2, <2>5, <3>1 DEF Located
  <2>4. CASE SendCont(p) \/ ResumeMember(p)
    <3>1. p = Target /\ Signallable(p) => state'[Target] # "stopped"
      BY <1>2, <2>4 DEF SendCont, ResumeMember, Continued, OSTypeOK
    <3>2. pc \in {"continue", "resume"}
      BY <2>4 DEF SendCont, ResumeMember
    <3> QED
      BY <1>1, <2>1, <2>2, <2>5, <3>1, <3>2 DEF Located
  <2> QED
    BY <1>4, <2>3, <2>4
<1>5. ASSUME UNCHANGED osVars
      PROVE  Live(Target)' = Live(Target) /\ state' = state
  BY <1>5 DEF osVars, Live
<1>6. CASE OpenIterator
  BY <1>0, <1>1, <1>5, <1>6 DEF OpenIterator, IteratorEntries, Located
<1>7. ASSUME NEW p \in Pids, ListEntry(p)
      PROVE  TargetHeld'
  BY <1>1, <1>5, <1>7 DEF ListEntry, Located
<1>8. ASSUME NEW p \in Pids, SkipEntry(p)
      PROVE  TargetHeld'
  BY <1>0, <1>1, <1>2, <1>5, <1>8
  DEF SkipEntry, Selected, Readable, Live, Located
<1>9. CASE CloseIterator \/ Abort \/ CheckQuit \/ CountMembers
  BY <1>1, <1>2, <1>5, <1>9, AbortStep
  DEF CloseIterator, CheckQuit, CountMembers, Located, TypeOK
<1>10. CASE ContDone \/ Work \/ StopDone \/ Sleep
  BY <1>1, <1>5, <1>10 DEF ContDone, Work, StopDone, Sleep, Located
<1>11. CASE InitProcessGroup \/ LeaveLoop \/ ResumeDone
  BY <1>1, <1>5, <1>11
  DEF InitProcessGroup, LeaveLoop, ResumeDone, Located
<1>12. CASE CloseProcessGroup
  BY <1>1, <1>5, <1>12
  DEF CloseProcessGroup, Located, TargetSeen, Live
<1>13. CASE Signal \/ UNCHANGED vars
  BY <1>1, <1>5, <1>13 DEF Signal, vars, limiterVars, Located
<1> QED
  BY <1>3, <1>4, <1>6, <1>7, <1>8, <1>9, <1>10, <1>11, <1>12, <1>13
  DEF Next, Limiter, Returned

(* A step of limit_process() and its surroundings is a step of Limiting or *)
(* changes nothing that Limiting speaks of.                                *)
LEMMA PromiseStep ==
  ASSUME Seeing, TargetHeld, TargetHeld', [Next]_vars
  PROVE  [Promise!Next]_(Promise!limitingVars)
<1> USE ProcessesAssumption DEF TargetHeld, ProcessesAssumption
<1> USE DEF Promise!Next, Promise!limitingVars, Promise!Stop, Promise!Continue,
            Promise!Leave, Promise!Quit, Promise!End
<1> Seeing'
  BY FaultsRigid DEF Seeing, Spared
<1>1. TypeOK /\ OSTypeOK /\ ParentsLive
  BY DEF TargetSeen, Sound, TypeOK
<1>0. "headless" \notin faults /\ "reuse" \notin Faults
  BY <1>1, SystemFaults DEF Seeing, Spared
<1>2. CASE Family
  <2>1. UNCHANGED limiterVars
    BY <1>2 DEF Family
  <2>2. ASSUME NEW p \in Pids, NEW c \in Pids, Fork(p, c)
        PROVE  state'[Target] = state[Target]
    BY <1>1, <1>0, <2>2, ForkTree DEF TargetSeen
  <2>3. ASSUME NEW p \in Pids, Exit(p) \/ Reap(p)
        PROVE  \/ state'[Target] = state[Target]
               \/ state'[Target] \in {"zombie", "reaped"}
    BY <1>1, <2>3, ExitTree, ReapTree
  <2>4. \/ state'[Target] = state[Target]
        \/ state'[Target] \in {"zombie", "reaped"}
    BY <1>0, <1>2, <2>2, <2>3 DEF Family
  <2> QED
    BY <2>1, <2>4 DEF limiterVars, Live
<1>3. ASSUME NEW p \in Pids, SendCont(p) \/ SendStop(p) \/ ResumeMember(p)
      PROVE  [Promise!Next]_(Promise!limitingVars)
  <2>1. /\ pc' = pc /\ pc # "done" /\ quit_flag' = quit_flag
        /\ \/ state'[Target] = state[Target]
           \/ state[Target] = "stopped" /\ state'[Target] = "running"
           \/ state[Target] = "running" /\ state'[Target] = "stopped"
    BY <1>1, <1>3
    DEF SendCont, SendStop, ResumeMember, Continued, Stopped, OSTypeOK
  <2> QED
    BY <2>1 DEF Live
<1>4. CASE Signal
  BY <1>4 DEF Signal, osVars, Live
<1>5. CASE CloseProcessGroup
  BY <1>5 DEF CloseProcessGroup, osVars, Live, Located, TargetSeen
<1>6. ASSUME UNCHANGED <<osVars, quit_flag>>, pc = "done" <=> pc' = "done"
      PROVE  UNCHANGED Promise!limitingVars
  BY <1>6 DEF osVars, Live
<1>7. CASE InitProcessGroup \/ OpenIterator \/ CheckQuit \/ CountMembers
  BY <1>6, <1>7 DEF InitProcessGroup, OpenIterator, CheckQuit, CountMembers
<1>12. CASE Abort
  <2>1. pc # "done"
    BY <1>12 DEF Abort, AbortUpdate, AbortListing, AbortRemoval
  <2> QED
    BY <1>6, <1>12, <2>1, AbortStep
<1>8. CASE CloseIterator
  BY <1>1, <1>6, <1>8 DEF CloseIterator, TypeOK
<1>9. ASSUME NEW p \in Pids, ListEntry(p) \/ SkipEntry(p)
      PROVE  [Promise!Next]_(Promise!limitingVars)
  BY <1>6, <1>9 DEF ListEntry, SkipEntry
<1>10. CASE ContDone \/ Work \/ StopDone \/ Sleep \/ LeaveLoop \/ ResumeDone
  BY <1>6, <1>10 DEF ContDone, Work, StopDone, Sleep, LeaveLoop, ResumeDone
<1>11. CASE UNCHANGED vars
  BY <1>6, <1>11 DEF vars, limiterVars
<1> QED
  BY <1>2, <1>3, <1>4, <1>5, <1>7, <1>8, <1>9, <1>10, <1>11, <1>12
  DEF Next, Limiter, Returned

(* As long as the target can be seen, limit_process() implements Limiting: *)
(* whatever the other processes of its family do, be they orphaned or out  *)
(* of reach of kill(2), and even if the program exits half way.            *)
THEOREM LimitProcessImplementsLimiting == Spec => Promise!Spec
<1> DEFINE Inv == Seeing => TargetHeld
<1>1. Init => Promise!Init
  BY ProcessesAssumption
  DEF Init, OSInit, Promise!Init, Live, ProcessesAssumption
<1>2. Inv /\ [Next]_vars => Inv'
  BY TargetHeldStep, FaultsRigid DEF Seeing, Spared
<1>3. Inv /\ Inv' /\ [Next]_vars => [Promise!Next]_(Promise!limitingVars)
  <2> SUFFICES ASSUME Inv, Inv', [Next]_vars
               PROVE  [Promise!Next]_(Promise!limitingVars)
    OBVIOUS
  <2>1. Seeing' = Seeing
    BY FaultsRigid DEF Seeing, Spared
  <2>2. CASE ~Seeing
    BY <2>1, <2>2 DEF Promise!limitingVars
  <2> QED
    BY <2>1, <2>2, PromiseStep
<1>4. Init => Inv
  BY TargetHeldInit
<1> HIDE DEF Inv
<1> QED
  BY <1>1, <1>2, <1>3, <1>4, PTL DEF Spec, Promise!Spec
------------------------------------------------------------------------------
(* Where limit_process() stands in the use of its process group: nobody is *)
(* both listed and still unread, and no loop is left before its end but by *)
(* an exit.                                                                *)
InOrder ==
  /\ pc = "init" => proclist = {} /\ proctable = {}
  /\ pc = "scan" => unread \cap proclist = {}
  /\ pc \notin {"continue", "stop", "resume", "aborted"} => todo = {}
  /\ ret \in {"check", "count"}

LEMMA InOrderStep == InOrder /\ [Next]_vars => InOrder'
<1> SUFFICES ASSUME InOrder, [Next]_vars
             PROVE  InOrder'
  OBVIOUS
<1> USE DEF InOrder
<1>1. CASE InitProcessGroup \/ OpenIterator \/ CloseIterator \/ Abort
  BY <1>1, AbortStep DEF InitProcessGroup, OpenIterator, CloseIterator
<1>2. ASSUME NEW p \in Pids, ListEntry(p) \/ SkipEntry(p)
      PROVE  InOrder'
  BY <1>2 DEF ListEntry, SkipEntry
<1>3. CASE CheckQuit \/ CountMembers \/ ContDone \/ Work \/ StopDone \/ Sleep
  BY <1>3 DEF CheckQuit, CountMembers, ContDone, Work, StopDone, Sleep
<1>4. ASSUME NEW p \in Pids, SendCont(p) \/ SendStop(p) \/ ResumeMember(p)
      PROVE  InOrder'
  BY <1>4 DEF SendCont, SendStop, ResumeMember
<1>5. CASE LeaveLoop \/ ResumeDone \/ CloseProcessGroup
  BY <1>5 DEF LeaveLoop, ResumeDone, CloseProcessGroup
<1>6. CASE Signal \/ Family \/ UNCHANGED vars
  BY <1>6 DEF Signal, Family, limiterVars, vars
<1> QED
  BY <1>1, <1>2, <1>3, <1>4, <1>5, <1>6 DEF Next, Limiter, Returned

(* Every statement that touches the process group is a step of GroupCalls, *)
(* and nothing else that happens changes it.                               *)
LEMMA CallsStep ==
  ASSUME InOrder, [Next]_vars
  PROVE  [Calls!Next]_(Calls!callVars)
<1> USE DEF InOrder, Calls!Next, Calls!callVars
<1>1. CASE OpenIterator
  <2>1. Calls!BeginScan
    BY <1>1 DEF OpenIterator, Calls!BeginScan
  <2> QED
    BY <2>1
<1>2. ASSUME NEW p \in Pids, ListEntry(p)
      PROVE  [Calls!Next]_(Calls!callVars)
  <2>1. Calls!Enter(p)
    BY <1>2 DEF ListEntry, Calls!Enter
  <2> QED
    BY <2>1
<1>3. CASE CloseIterator
  <2>1. Calls!EndScan
    BY <1>3 DEF CloseIterator, Calls!EndScan
  <2> QED
    BY <2>1
<1>4. ASSUME pc' \in {"continue", "stop", "resume"},
             CountMembers \/ Work \/ LeaveLoop
      PROVE  [Calls!Next]_(Calls!callVars)
  <2>1. Calls!BeginWalk
    BY <1>4 DEF CountMembers, Work, LeaveLoop, Calls!BeginWalk
  <2> QED
    BY <2>1
<1>5. ASSUME NEW p \in Pids, SendCont(p) \/ SendStop(p) \/ ResumeMember(p)
      PROVE  [Calls!Next]_(Calls!callVars)
  <2>1. Calls!Signalled(p) \/ Calls!Dropped(p)
    BY <1>5 DEF SendCont, SendStop, ResumeMember, Calls!Signalled, Calls!Dropped
  <2> QED
    BY <2>1
<1>6. CASE ContDone \/ StopDone \/ ResumeDone
  <2>1. Calls!EndWalk
    BY <1>6 DEF ContDone, StopDone, ResumeDone, Calls!EndWalk
  <2> QED
    BY <2>1
<1>7. CASE CloseProcessGroup
  <2>1. Calls!Close
    BY <1>7 DEF CloseProcessGroup, Calls!Close
  <2> QED
    BY <2>1
<1>8. CASE InitProcessGroup
  BY <1>8 DEF InitProcessGroup
<1>12. CASE AbortUpdate
  <2>1. Calls!Fail
    BY <1>12 DEF AbortUpdate, Exits, Calls!Fail
  <2> QED
    BY <2>1
<1>13. ASSUME NEW p \in Pids, AbortListing(p)
       PROVE  [Calls!Next]_(Calls!callVars)
  <2>1. Calls!FailEntering(p)
    BY <1>13 DEF AbortListing, Exits, Calls!FailEntering
  <2> QED
    BY <2>1
<1>14. ASSUME NEW p \in Pids, AbortRemoval(p)
       PROVE  [Calls!Next]_(Calls!callVars)
  <2>1. Calls!FailDropping(p)
    BY <1>14 DEF AbortRemoval, Exits, Calls!FailDropping
  <2> QED
    BY <2>1
<1>9. ASSUME pc' \notin {"continue", "stop", "resume"},
             CountMembers \/ Work \/ LeaveLoop
      PROVE  UNCHANGED Calls!callVars
  BY <1>9 DEF CountMembers, Work, LeaveLoop
<1>10. CASE CheckQuit \/ Sleep \/ \E p \in Pids : SkipEntry(p)
  BY <1>10 DEF CheckQuit, Sleep, SkipEntry
<1>11. CASE Signal \/ Family \/ UNCHANGED vars
  BY <1>11 DEF Signal, Family, limiterVars, vars
<1> QED
  BY <1>1, <1>2, <1>3, <1>4, <1>5, <1>6, <1>7, <1>8, <1>9, <1>10, <1>11,
     <1>12, <1>13, <1>14
  DEF Next, Limiter, Returned, Abort

(* Under every fault limit_process() uses its process group as GroupCalls  *)
(* says: no member twice in one scan, each listed member once in each      *)
(* loop, and out of list and table at once or not at all, but for the one  *)
(* whose removal ends the program: that one is out of the list.            *)
THEOREM LimitProcessUsesGroup == Spec => UsesGroup
<1>1. Init => InOrder /\ Calls!Init
  BY DEF Init, InOrder, Calls!Init
<1> QED
  BY <1>1, InOrderStep, CallsStep, PTL DEF Spec, UsesGroup, Calls!Spec
=============================================================================

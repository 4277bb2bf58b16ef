--------------------------- MODULE SearchLoopProofs ---------------------------
(***************************************************************************)
(* Proofs about the search by name: for every set of processes, however    *)
(* the tree changes while /proc is read, as long as no pid is recycled.    *)
(***************************************************************************)
EXTENDS SearchLoop, ProcessesProofs

(* Nobody is its own ancestor.                                             *)
Acyclic == \A r \in Pids : r \notin Below(r)

(* The processes the search has met have been born.                        *)
Met == (({pid, match} \cap Pids) \cup compared)
Born == \A q \in Met : state[q] # "unborn"

(* There is a best match as soon as anything was compared.                 *)
Settled == (pid = NoPid /\ compared = {}) \/ pid \in compared

(* All through the search the best match is not below any other, unless    *)
(* the age of an inode has denied it.                                      *)
Searching == pc \in {"scan", "compare", "probe"}
Topmost == Searching => \A q \in compared \ doubted : pid \notin Below(q)

(* A step of a process or a signal.  It makes no process that was born     *)
(* before a descendant of anybody, unless the pid is recycled.             *)
TreeStep ==
  \/ \E p, c \in Pids : Fork(p, c)
  \/ \E p \in Pids : Exit(p) \/ Reap(p)
  \/ \E p \in Pids : /\ UNCHANGED <<parent, headless, kin>>
                     /\ state' = Continued(p) \/ state' = Stopped(p)
  \/ UNCHANGED osVars

LEMMA StepIsTreeStep ==
  ASSUME TypeOK, [Next]_vars
  PROVE  TreeStep
<1>1. CASE Family
  BY <1>1 DEF Family, TreeStep
<1>2. CASE LimitStops \/ LimitContinues
  <2>1. ret \in Pids
    BY <1>2 DEF LimitStops, LimitContinues, Limit!Stop, Limit!Continue
  <2> QED
    BY <1>2, <2>1 DEF LimitStops, LimitContinues, TreeStep
<1>3. CASE UNCHANGED vars
  BY <1>3 DEF vars, TreeStep
<1>4. CASE Search \/ LimitReturns \/ Abort \/ Signal \/ Over
  BY <1>4 DEF Search, Test, FindByPid, BeginScan, EndScan, Probe, Compare,
              ReadMatch, PassOver, Found, Decide, Pause, LimitReturns, Abort,
              Signal, Over, vars, TreeStep
<1> QED
  BY <1>1, <1>2, <1>3, <1>4 DEF Next

LEMMA TreeKept ==
  ASSUME OSTypeOK, ParentsLive, Acyclic, TreeStep
  PROVE  /\ OSTypeOK' /\ ParentsLive' /\ Acyclic'
         /\ \A q \in Pids : state[q] # "unborn" => state'[q] # "unborn"
         /\ "reuse" \notin Faults =>
              \A q \in Pids : state[q] # "unborn" =>
                /\ \A r \in Pids : q \notin Below(r) => q \notin Below(r)'
                /\ ~Exists(q) => ~Exists(q)'
<1>1. CASE \E p, c \in Pids : Fork(p, c)
  <2> PICK p \in Pids, c \in Pids : Fork(p, c)
    BY <1>1
  <2>1. /\ OSTypeOK' /\ ParentsLive'
        /\ \A r \in Pids : Below(r)' \subseteq Below(r) \cup {c}
        /\ \A q \in Pids \ {c} : state'[q] = state[q]
        /\ state[c] \in {"unborn", "reaped"} /\ state'[c] = "running"
        /\ "reuse" \notin Faults => state[c] = "unborn"
    BY ForkTree
  <2>2. c \notin Below(c)'
    <3>1. \A q \in Pids : Exists(q)' => parent'[q] # c
      <4> SUFFICES ASSUME NEW q \in Pids, Exists(q)', parent'[q] = c
                   PROVE  FALSE
        OBVIOUS
      <4>1. p # c /\ (q = c => parent'[q] = p) /\ (q # c => parent'[q] = parent[q])
        BY <2>1 DEF Fork, OSTypeOK
      <4>2. q # c /\ Exists(q) /\ parent[q] = c
        BY <4>1, <2>1 DEF Exists, Live
      <4> QED
        BY <4>2, <2>1 DEF ParentsLive, Live
    <3>2. ClosedBelow(c, {})'
      BY <3>1 DEF ClosedBelow
    <3> QED
      BY <3>2 DEF Below, ClosedBelow
  <2>3. Acyclic'
    BY <2>1, <2>2 DEF Acyclic
  <2> QED
    BY <2>1, <2>3 DEF Exists, Live
<1>2. CASE \E p \in Pids : Exit(p)
  <2> PICK p \in Pids : Exit(p)
    BY <1>2
  <2> QED
    BY ExitTree DEF Acyclic, Exists, Live
<1>3. CASE \E p \in Pids : Reap(p)
  <2> PICK p \in Pids : Reap(p)
    BY <1>3
  <2> QED
    BY ReapTree DEF Acyclic, Exists, Live
<1>4. CASE \E p \in Pids : /\ UNCHANGED <<parent, headless, kin>>
                           /\ state' = Continued(p) \/ state' = Stopped(p)
  <2> PICK p \in Pids : /\ UNCHANGED <<parent, headless, kin>>
                        /\ state' = Continued(p) \/ state' = Stopped(p)
    BY <1>4
  <2>1. /\ ParentsLive' /\ state' \in [Pids -> States]
        /\ \A r \in Pids : Below(r)' = Below(r)
        /\ \A q \in Pids : Exists(q)' = Exists(q)
    BY SignalTree
  <2>2. \A q \in Pids : state[q] # "unborn" => state'[q] # "unborn"
    BY DEF Continued, Stopped, OSTypeOK
  <2>3. OSTypeOK'
    BY <2>1 DEF OSTypeOK
  <2> QED
    BY <2>1, <2>2, <2>3 DEF Acyclic
<1>5. CASE UNCHANGED osVars
  BY <1>5 DEF osVars, OSTypeOK, ParentsLive, Acyclic, Below, ClosedBelow,
              Exists, Live
<1> QED
  BY <1>1, <1>2, <1>3, <1>4, <1>5 DEF TreeStep

------------------------------------------------------------------------------
(* Every variable keeps its type; nobody's parent is dead and nobody is    *)
(* its own ancestor.                                                       *)
Sound == TypeOK /\ ParentsLive /\ Acyclic

LEMMA SoundInit == Init => Sound
<1> SUFFICES ASSUME Init PROVE Sound
  OBVIOUS
<1> USE ProcessesAssumption DEF ProcessesAssumption
<1>1. TypeOK
  BY DEF Init, OSInit, TypeOK, Located, OSTypeOK, States
<1>2. /\ Live(Target)
      /\ \A q \in Pids : parent[q] = IF q = Self THEN Target ELSE InitPid
      /\ Self # Target
  BY DEF Init, OSInit, Live
<1>3. ParentsLive
  BY <1>2 DEF ParentsLive
<1>4. ASSUME NEW r \in Pids
      PROVE  r \notin Below(r)
  <2>1. CASE r = Target
    <3>1. ClosedBelow(r, Pids \ {r})
      BY <1>2, <2>1 DEF ClosedBelow
    <3> QED
      BY <3>1, BelowLeast
  <2>2. CASE r # Target
    <3>1. ClosedBelow(r, {})
      BY <1>2, <2>2 DEF ClosedBelow
    <3> QED
      BY <3>1, BelowLeast
  <2> QED
    BY <2>1, <2>2
<1> QED
  BY <1>1, <1>3, <1>4 DEF Sound, Acyclic

LEMMA SoundStep == Sound /\ [Next]_vars => Sound'
<1> SUFFICES ASSUME Sound, [Next]_vars
             PROVE  Sound'
  OBVIOUS
<1> USE DEF Sound
<1>1. TreeStep
  BY StepIsTreeStep
<1>2. OSTypeOK' /\ ParentsLive' /\ Acyclic'
  BY <1>1, TreeKept DEF TypeOK
<1>3. Located'
  BY DEF Located, TypeOK, Next, Search, Test, FindByPid, BeginScan, ReadMatch, PassOver,
         Compare, EndScan, Probe, Found, Decide, Pause, LimitStops,
         LimitContinues, LimitReturns, Abort, Signal, Family, Over, vars,
         searchVars
<1>4. CASE Search
  <2>1. ASSUME UNCHANGED <<pid, match, compared, unread, steady>>,
               doubted' \in {doubted, {}},
               Test \/ FindByPid \/ EndScan \/ Probe \/ Found \/ Decide \/ Pause
        PROVE  TypeOK'
    BY <1>2, <1>3, <2>1, ProcessesAssumption
    DEF TypeOK, Test, FindByPid, EndScan, Probe, Found, Decide, Pause, options,
        ProcessesAssumption
  <2>2. CASE BeginScan
    BY <1>2, <1>3, <2>2 DEF TypeOK, BeginScan, options
  <2>3. CASE \E p \in Pids : ReadMatch(p) \/ PassOver(p)
    BY <1>2, <1>3, <2>3 DEF TypeOK, ReadMatch, PassOver, options
  <2>4. CASE Compare
    <3>1. pid' \in Pids \cup {NoPid}
      BY <2>4 DEF TypeOK, Located, Compare
    <3>2. compared' \in SUBSET Pids /\ doubted' \in SUBSET compared'
      BY <2>4 DEF TypeOK, Located, Compare
    <3> QED
      BY <1>2, <1>3, <2>4, <3>1, <3>2 DEF TypeOK, Compare, options
  <2> QED
    BY <1>2, <1>3, <1>4, <2>1, <2>2, <2>3, <2>4
    DEF Search, Test, FindByPid, EndScan, Probe, Found, Decide, Pause
<1>5. CASE LimitStops \/ LimitContinues
  BY <1>2, <1>3, <1>5 DEF TypeOK, LimitStops, LimitContinues, searchVars
<1>6. CASE LimitReturns \/ Abort \/ Signal
  BY <1>2, <1>3, <1>6 DEF TypeOK, LimitReturns, Abort, Signal, options
<1>7. CASE Family
  BY <1>2, <1>3, <1>7 DEF TypeOK, Family, searchVars
<1>8. CASE UNCHANGED vars \/ Over
  BY <1>2, <1>3, <1>8 DEF TypeOK, Over, vars, searchVars
<1> QED
  BY <1>2, <1>3, <1>4, <1>5, <1>6, <1>7, <1>8 DEF Next

(* Every variable keeps its type.                                          *)
THEOREM SearchTypes == Spec => []TypeOK
<1>1. Sound => TypeOK
  BY DEF Sound
<1> QED
  BY <1>1, SoundInit, SoundStep, PTL DEF Spec

------------------------------------------------------------------------------
(* What a search has settled on, when pids are not recycled.               *)
TopInv == Settled /\ Born /\ Topmost

LEMMA TopInit == Init => TopInv
BY SearchLoopAssumption
DEF Init, TopInv, Settled, Born, Topmost, Met, Searching, SearchLoopAssumption

LEMMA TopStep ==
  ASSUME "reuse" \notin Faults, Sound, TopInv, [Next]_vars
  PROVE  TopInv'
<1> USE DEF Sound, TopInv
<1>1. TreeStep
  BY StepIsTreeStep
<1>2. /\ \A q \in Pids : state[q] # "unborn" => state'[q] # "unborn"
      /\ \A q \in Pids : state[q] # "unborn" =>
           \A r \in Pids : q \notin Below(r) => q \notin Below(r)'
  BY <1>1, TreeKept DEF TypeOK
<1>3. /\ pid \in Pids \cup {NoPid} /\ match \in Pids \cup {NoPid}
      /\ NoPid \notin Pids /\ compared \in SUBSET Pids
  BY SearchLoopAssumption DEF TypeOK, SearchLoopAssumption
<1>4. \A q \in Pids : Below(q) \subseteq Pids /\ Below(q)' \subseteq Pids
  BY DEF Below
<1>5. ASSUME UNCHANGED <<pid, match, compared>>,
             Searching' => Searching /\ UNCHANGED doubted
      PROVE  TopInv'
  BY <1>2, <1>3, <1>4, <1>5 DEF Settled, Born, Topmost, Met
<1>6. CASE Compare
  <2>1. UNCHANGED osVars
    BY <1>6 DEF Compare
  <2>2. \A q \in Pids : Below(q)' = Below(q)
    BY <2>1 DEF osVars, Below, ClosedBelow, Exists, Live
  <2>3. match \in Pids
    BY <1>6 DEF Compare, TypeOK, Located
  <2>4. Settled' /\ Born'
    <3>1. pid' = match \/ (pid' = pid /\ pid # NoPid)
      BY <1>3, <1>4, <1>6, <2>3 DEF Compare
    <3>2. compared' = compared \cup {match} /\ match' = match
      BY <1>6 DEF Compare
    <3> QED
      BY <1>2, <1>3, <2>3, <3>1, <3>2 DEF Settled, Born, Met
  <2>5. match \notin Below(match)
    BY <2>3 DEF Acyclic
  <2>6. CASE pid = NoPid
    <3>1. pid' = match /\ compared' = {match}
      BY <1>3, <1>4, <1>6, <2>3, <2>6 DEF Compare, Settled
    <3> QED
      BY <2>2, <2>3, <2>4, <2>5, <3>1 DEF Topmost
  <2>7. CASE pid # NoPid /\ pid \in Below(match)
    <3>0. \A q \in compared \ doubted : pid \notin Below(q)
      BY <1>6 DEF Compare, Topmost, Searching
    <3>1. \A q \in compared \ doubted : match \notin Below(q)
      BY <2>7, <3>0, BelowTransitive
    <3>2. \/ pid' = match /\ doubted' = doubted
          \/ pid' = pid /\ doubted' = doubted \cup {match}
      BY <1>6, <2>7 DEF Compare
    <3>3. compared' = compared \cup {match}
      BY <1>6 DEF Compare
    <3>4. Topmost'
      BY <1>3, <2>2, <2>3, <2>5, <3>0, <3>1, <3>2, <3>3 DEF Topmost
    <3> QED
      BY <2>4, <3>4
  <2>8. CASE pid # NoPid /\ pid \notin Below(match)
    BY <1>3, <1>6, <2>2, <2>3, <2>4, <2>8 DEF Compare, Topmost, Searching
  <2> QED
    BY <2>6, <2>7, <2>8
<1>7. CASE BeginScan
  BY <1>2, <1>3, <1>7 DEF BeginScan, Settled, Born, Topmost, Met
<1>8. CASE \E p \in Pids : ReadMatch(p)
  BY <1>2, <1>3, <1>4, <1>8
  DEF ReadMatch, Readable, Live, Settled, Born, Topmost, Met, Searching
<1>9. CASE \E p \in Pids : PassOver(p)
  BY <1>5, <1>9 DEF PassOver, Searching
<1>10. CASE Test \/ FindByPid \/ EndScan \/ Probe \/ Found \/ Decide \/ Pause
  BY <1>5, <1>10
  DEF Test, FindByPid, EndScan, Probe, Found, Decide, Pause, Searching
<1>11. CASE LimitStops \/ LimitContinues \/ LimitReturns \/ Abort \/ Signal
  BY <1>5, <1>11
  DEF LimitStops, LimitContinues, LimitReturns, Abort, Signal, searchVars,
      Searching
<1>12. CASE Family \/ Over \/ UNCHANGED vars
  BY <1>5, <1>12 DEF Family, Over, vars, searchVars, Searching
<1> QED
  BY <1>6, <1>7, <1>8, <1>9, <1>10, <1>11, <1>12 DEF Next, Search

(* Without recycled pids, a search ends with a process that is below none  *)
(* of the others it has compared, though each comparison was made with the *)
(* tree as it was at that moment; but for those whose comparison the age   *)
(* of an inode has decided.                                                *)
THEOREM SearchFindsTopmost ==
  ASSUME "reuse" \notin Faults
  PROVE  Spec => []ResultTopmost
<1>1. Sound /\ TopInv /\ [Next]_vars => TopInv'
  BY TopStep
<1>2. TopInv => ResultTopmost
  BY DEF TopInv, Topmost, Searching, ResultTopmost
<1> QED
  BY <1>1, <1>2, TopInit, SoundInit, SoundStep, PTL DEF Spec

------------------------------------------------------------------------------
(* What a search has not overlooked.  While it reads, a process that could *)
(* be found all the time is still to be read, being compared, or compared. *)
SteadyMatch == \A p \in steady : Matches(p)

Passed ==
  /\ pc \in {"scan", "compare"} =>
       steady \subseteq
         unread \cup compared \cup (IF pc = "compare" THEN {match} ELSE {})
  /\ pc \in {"probe", "found"} /\ by_name => steady \subseteq compared
  /\ pc = "decide" /\ by_name => steady \subseteq compared
  /\ pc = "limit" => ret # NoPid /\ (by_name => steady \subseteq compared)

(* It comes back with nothing only if there is nothing to be signalled.    *)
Lost ==
  pc \in {"found", "decide"} /\ by_name /\ ret = NoPid =>
    pid = NoPid \/ ~Signallable(pid)

FindInv == SteadyMatch /\ Passed /\ Lost

LEMMA FindInit == Init => FindInv
BY DEF Init, FindInv, SteadyMatch, Passed, Lost

LEMMA FindStep ==
  ASSUME "reuse" \notin Faults, Sound, TopInv, FindInv, [Next]_vars
  PROVE  FindInv'
<1> USE DEF Sound, TopInv, FindInv
<1>1. TreeStep
  BY StepIsTreeStep
<1>2. \A q \in Pids : state[q] # "unborn" /\ ~Exists(q) => ~Exists(q)'
  BY <1>1, TreeKept DEF TypeOK
<1>3. pid \in Pids => state[pid] # "unborn"
  BY DEF Born, Met
<1>4. ASSUME UNCHANGED <<osVars, named, steady>>
      PROVE  SteadyMatch'
  BY <1>4 DEF osVars, SteadyMatch, Matches, Readable, Live
<1>5. CASE BeginScan
  BY <1>5 DEF BeginScan, SteadyMatch, Passed, Lost, Matches, Readable, Live,
              osVars
<1>6. CASE \E p \in Pids : ReadMatch(p) \/ PassOver(p)
  BY <1>4, <1>6 DEF ReadMatch, PassOver, SteadyMatch, Passed, Lost, Matches
<1>7. CASE Compare
  BY <1>4, <1>7 DEF Compare, Passed, Lost
<1>8. CASE EndScan \/ Probe
  <2>1. CASE EndScan
    BY <1>4, <2>1 DEF EndScan, Passed, Lost
  <2>2. CASE Probe
    <3>1. Passed'
      BY <2>2 DEF Probe, Passed, options
    <3>2. Lost'
      BY <2>2 DEF Probe, Lost, options, Signallable, Exists, Live, osVars
    <3> QED
      BY <1>4, <2>2, <3>1, <3>2 DEF Probe
  <2> QED
    BY <1>8, <2>1, <2>2
<1>9. CASE Test \/ FindByPid \/ Found \/ Decide \/ Pause
  BY <1>4, <1>9 DEF Test, FindByPid, Found, Decide, Pause, Passed, Lost, options,
                    Signallable, Exists, Live, osVars
<1>10. CASE LimitReturns \/ Abort \/ Signal
  BY <1>4, <1>10 DEF LimitReturns, Abort, Signal, Passed, Lost, options,
                     Signallable, Exists, Live, osVars
<1>11. CASE LimitStops \/ LimitContinues
  <2>1. SteadyMatch'
    BY <1>11 DEF LimitStops, LimitContinues, SteadyMatch, Matches, Readable,
                 Live, Stopped, Continued, TypeOK, OSTypeOK
  <2> QED
    BY <1>11, <2>1 DEF LimitStops, LimitContinues, searchVars, Passed, Lost
<1>12. CASE Family
  <2>1. steady' \subseteq steady /\ UNCHANGED searchVars
    BY <1>12 DEF Family
  <2>2. SteadyMatch'
    BY <1>12 DEF Family, SteadyMatch
  <2>3. Passed'
    BY <2>1 DEF searchVars, Passed
  <2>4. Lost'
    BY <1>2, <1>3, <2>1 DEF searchVars, Lost, Signallable, TypeOK
  <2> QED
    BY <2>2, <2>3, <2>4
<1>13. CASE Over \/ UNCHANGED vars
  BY <1>4, <1>13 DEF Over, vars, searchVars, Passed, Lost, Signallable, Exists,
                     Live, osVars
<1> QED
  BY <1>5, <1>6, <1>7, <1>8, <1>9, <1>10, <1>11, <1>12, <1>13 DEF Next, Search

(* Without recycled pids, a search that comes back with nothing although   *)
(* some process could be found all through it had settled on another match *)
(* that can no longer be signalled.                                        *)
THEOREM SearchMissesNothingElse ==
  ASSUME "reuse" \notin Faults
  PROVE  Spec => []FindsSteady
<1>1. Sound /\ TopInv /\ [Next]_vars => TopInv'
  BY TopStep
<1>2. Sound /\ TopInv /\ FindInv /\ [Next]_vars => FindInv'
  BY FindStep
<1>3. Sound /\ TopInv /\ FindInv => FindsSteady
  BY SearchLoopAssumption
  DEF TopInv, Settled, FindInv, Passed, Lost, FindsSteady, Sound, TypeOK,
      SearchLoopAssumption
<1> QED
  BY <1>1, <1>2, <1>3, TopInit, FindInit, SoundInit, SoundStep, PTL DEF Spec
===============================================================================

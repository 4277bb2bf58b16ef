--------------------------- MODULE ProcessesProofs ---------------------------
(***************************************************************************)
(* What a step of the system does to the tree below the target: the facts  *)
(* on Processes that the proofs about the limiter rest on.                 *)
(***************************************************************************)
EXTENDS Processes, TLAPS

(* Nobody's parent is dead: an exit hands the children to process 1.       *)
ParentsLive ==
  \A q \in Pids : Exists(q) /\ parent[q] \in Pids => Live(parent[q])

------------------------------------------------------------------------------
(* Below(r) is closed under the child relation, so it is the least closed  *)
(* set and not only below each of them.                                    *)
LEMMA BelowClosed ==
  ASSUME NEW r
  PROVE  ClosedBelow(r, Below(r))
<1> SUFFICES ASSUME NEW q \in Pids,
                    Exists(q), parent[q] \in Below(r) \cup {r}
             PROVE  q \in Below(r)
  BY DEF ClosedBelow
<1> SUFFICES ASSUME NEW S \in SUBSET Pids, ClosedBelow(r, S)
             PROVE  q \in S
  BY DEF Below
<1>1. parent[q] \in S \cup {r}
  BY DEF Below
<1> QED
  BY <1>1 DEF ClosedBelow

(* The processes below r lie in every closed set.                          *)
LEMMA BelowLeast ==
  ASSUME NEW r, NEW S \in SUBSET Pids, ClosedBelow(r, S)
  PROVE  Below(r) \subseteq S
BY DEF Below

(* Nobody is below a process that is not alive.                            *)
LEMMA BelowNeedsLive ==
  ASSUME ParentsLive, NEW r \in Pids, ~Live(r)
  PROVE  Below(r) = {}
<1>1. ClosedBelow(r, {})
  BY DEF ClosedBelow, ParentsLive
<1> QED
  BY <1>1, BelowLeast

LEMMA DescendantsNeedTarget ==
  ASSUME ParentsLive, ~Live(Target)
  PROVE  Descendants = {}
BY BelowNeedsLive, ProcessesAssumption DEF Descendants, ProcessesAssumption

(* What is below a process below r is below r.                             *)
LEMMA BelowTransitive ==
  ASSUME NEW r, NEW p \in Below(r)
  PROVE  Below(p) \subseteq Below(r)
<1>1. Below(r) \in SUBSET Pids
  BY DEF Below
<1>2. ClosedBelow(p, Below(r))
  BY BelowClosed DEF ClosedBelow
<1> QED
  BY <1>1, <1>2, BelowLeast

(* If every process that exists keeps its parent, everybody below r stays  *)
(* there.                                                                  *)
LEMMA BelowGrows ==
  ASSUME NEW r,
         \A q \in Pids : Exists(q) => Exists(q)' /\ parent'[q] = parent[q]
  PROVE  Below(r) \subseteq Below(r)'
<1> SUFFICES ASSUME NEW x \in Below(r), NEW S \in SUBSET Pids,
                    ClosedBelow(r, S)'
             PROVE  x \in S
  BY DEF Below, ClosedBelow, Exists, Live
<1>1. ClosedBelow(r, S)
  BY DEF ClosedBelow, Exists, Live
<1> QED
  BY <1>1 DEF Below

(* If nobody comes to exist or gets a new parent other than process 1, no  *)
(* one comes to be below r.                                                *)
LEMMA BelowShrinks ==
  ASSUME NEW r \in Pids,
         \A q \in Pids : Exists(q)' /\ parent'[q] \in Pids =>
                           Exists(q) /\ parent'[q] = parent[q]
  PROVE  Below(r)' \subseteq Below(r)
<1>1. ClosedBelow(r, Below(r))
  BY BelowClosed
<1>2. \A q \in Pids : Exists(q)' /\ parent'[q] \in Below(r) \cup {r}
                        => q \in Below(r)
  BY <1>1 DEF ClosedBelow, Below
<1> SUFFICES ASSUME NEW x \in Below(r)'
             PROVE  x \in Below(r)
  OBVIOUS
<1>3. \A S \in SUBSET Pids :
        (\A q \in Pids : Exists(q)' /\ parent'[q] \in S \cup {r} => q \in S)
          => x \in S
  BY DEF Below, ClosedBelow, Exists, Live
<1>4. Below(r) \in SUBSET Pids
  BY DEF Below
<1> QED
  BY <1>2, <1>3, <1>4
------------------------------------------------------------------------------
(* A signal stops or continues a process and changes nothing of the tree.  *)
LEMMA SignalTree ==
  ASSUME OSTypeOK, NEW p \in Pids, UNCHANGED parent,
         state' = Continued(p) \/ state' = Stopped(p) \/ state' = state
  PROVE  /\ ParentsLive => ParentsLive'
         /\ \A r \in Pids : Below(r)' = Below(r)
         /\ Descendants' = Descendants
         /\ \A q \in Pids : Live(q)' = Live(q) /\ Exists(q)' = Exists(q)
         /\ state' \in [Pids -> States]
<1>1. /\ \A q \in Pids : Live(q)' = Live(q) /\ Exists(q)' = Exists(q)
      /\ state' \in [Pids -> States]
  BY DEF OSTypeOK, States, Continued, Stopped, Live, Exists
<1>2. ParentsLive => ParentsLive'
  BY <1>1 DEF ParentsLive
<1>3. ASSUME NEW r \in Pids
      PROVE  Below(r)' = Below(r)
  <2>1. Below(r) \subseteq Below(r)'
    BY <1>1, BelowGrows
  <2>2. Below(r)' \subseteq Below(r)
    BY <1>1, BelowShrinks
  <2> QED
    BY <2>1, <2>2
<1>4. Descendants' = Descendants
  BY <1>3, ProcessesAssumption DEF Descendants, ProcessesAssumption
<1> QED
  BY <1>1, <1>2, <1>3, <1>4

(* A fork adds at most the child to the processes below r.                    *)
LEMMA ForkTree ==
  ASSUME OSTypeOK, ParentsLive, NEW p \in Pids, NEW c \in Pids, Fork(p, c)
  PROVE  /\ OSTypeOK'
         /\ ParentsLive'
         /\ \A r \in Pids : /\ Below(r) \subseteq Below(r)'
                            /\ Below(r)' \subseteq Below(r) \cup {c}
         /\ Descendants \subseteq Descendants'
         /\ Descendants' \subseteq Descendants \cup {c}
         /\ \A q \in Pids \ {c} : state'[q] = state[q]
         /\ state[c] \in {"unborn", "reaped"} /\ state'[c] = "running"
         /\ "reuse" \notin Faults => state[c] = "unborn"
<1>1. /\ \A q \in Pids \ {c} : state'[q] = state[q] /\ parent'[q] = parent[q]
      /\ state[c] \in {"unborn", "reaped"} /\ state'[c] = "running"
      /\ "reuse" \notin Faults => state[c] = "unborn"
      /\ parent'[c] = p /\ state[p] = "running" /\ p # c
  BY DEF OSTypeOK, Fork
<1>2. OSTypeOK'
  BY DEF OSTypeOK, Fork, States
<1>3. ParentsLive'
  BY <1>1 DEF ParentsLive, Live, Exists
<1>4. ASSUME NEW r \in Pids
      PROVE  Below(r) \subseteq Below(r)'
  BY <1>1, BelowGrows DEF Live, Exists
<1>5. ASSUME NEW r \in Pids
      PROVE  Below(r)' \subseteq Below(r) \cup {c}
  <2>1. \A q \in Pids : /\ Exists(q)'
                        /\ parent'[q] \in (Below(r) \cup {c}) \cup {r}
                        => q \in Below(r) \cup {c}
    <3> SUFFICES ASSUME NEW q \in Pids, q # c, Exists(q)',
                        parent'[q] \in (Below(r) \cup {c}) \cup {r}
                 PROVE  q \in Below(r)
      OBVIOUS
    <3>1. Exists(q) /\ parent'[q] = parent[q]
      BY <1>1 DEF Exists, Live
    <3>2. parent[q] # c
      BY <1>1, <3>1 DEF ParentsLive, Live
    <3> QED
      BY <3>1, <3>2, BelowClosed DEF ClosedBelow
  <2>2. \A x \in Below(r)', S \in SUBSET Pids :
          (\A q \in Pids : Exists(q)' /\ parent'[q] \in S \cup {r} => q \in S)
            => x \in S
    BY DEF Below, ClosedBelow, Exists, Live
  <2>3. Below(r) \cup {c} \in SUBSET Pids
    BY DEF Below
  <2> QED
    BY <2>1, <2>2, <2>3
<1>6. Descendants \subseteq Descendants' /\ Descendants' \subseteq Descendants \cup {c}
  BY <1>4, <1>5, ProcessesAssumption DEF Descendants, ProcessesAssumption
<1> QED
  BY <1>1, <1>2, <1>3, <1>4, <1>5, <1>6

(* An exit makes nobody a descendant; only orphans stop being one.         *)
LEMMA ExitTree ==
  ASSUME OSTypeOK, ParentsLive, NEW p \in Pids, Exit(p)
  PROVE  /\ OSTypeOK'
         /\ ParentsLive'
         /\ \A r \in Pids : Below(r)' \subseteq Below(r)
         /\ Descendants' \subseteq Descendants
         /\ "orphan" \notin Faults => Descendants \subseteq Descendants'
         /\ \A q \in Pids \ {p} : state'[q] = state[q]
         /\ Live(p) /\ state'[p] = "zombie"
<1>1. /\ \A q \in Pids \ {p} : state'[q] = state[q]
      /\ Live(p) /\ state'[p] = "zombie"
      /\ \A q \in Pids : parent'[q] = IF Exists(q) /\ parent[q] = p
                                      THEN InitPid ELSE parent[q]
  BY DEF OSTypeOK, Exit
<1>2. \A q \in Pids : Exists(q)' = Exists(q)
  BY <1>1 DEF Exists, Live
<1>3. OSTypeOK'
  BY DEF OSTypeOK, Exit, States
<1>4. ParentsLive'
  BY <1>1, <1>2, ProcessesAssumption
  DEF ParentsLive, Live, ProcessesAssumption
<1>5. \A r \in Pids : Below(r)' \subseteq Below(r)
  BY <1>1, <1>2, BelowShrinks, ProcessesAssumption DEF ProcessesAssumption
<1>6. Descendants' \subseteq Descendants
  BY <1>5, ProcessesAssumption DEF Descendants, ProcessesAssumption
<1>7. ASSUME "orphan" \notin Faults
      PROVE  Descendants \subseteq Descendants'
  <2>1. \A q \in Pids : Exists(q) => parent[q] # p
    BY <1>7 DEF Exit
  <2> QED
    BY <1>1, <1>2, <2>1, BelowGrows DEF Descendants
<1> QED
  BY <1>1, <1>3, <1>4, <1>5, <1>6, <1>7

(* Reaping a zombie takes nobody but it from the descendants: it has no    *)
(* children any more.                                                      *)
LEMMA ReapTree ==
  ASSUME OSTypeOK, ParentsLive, NEW p \in Pids, Reap(p)
  PROVE  /\ OSTypeOK'
         /\ ParentsLive'
         /\ \A r \in Pids : Below(r)' \subseteq Below(r)
         /\ Descendants' \subseteq Descendants
         /\ Descendants \subseteq Descendants' \cup {p}
         /\ \A q \in Pids \ {p} : state'[q] = state[q]
         /\ state[p] = "zombie" /\ state'[p] = "reaped"
<1>1. /\ \A q \in Pids \ {p} : state'[q] = state[q] /\ parent'[q] = parent[q]
      /\ state[p] = "zombie" /\ state'[p] = "reaped" /\ parent'[p] = InitPid
  BY DEF OSTypeOK, Reap
<1>2. OSTypeOK'
  BY DEF OSTypeOK, Reap, States
<1>3. ParentsLive'
  BY <1>1 DEF ParentsLive, Live, Exists
<1>4. \A r \in Pids : Below(r)' \subseteq Below(r)
  BY <1>1, BelowShrinks, ProcessesAssumption
  DEF Live, Exists, ProcessesAssumption
<1>5. Descendants' \subseteq Descendants
  BY <1>4, ProcessesAssumption DEF Descendants, ProcessesAssumption
<1>6. Descendants \subseteq Descendants' \cup {p}
  <2> SUFFICES ASSUME NEW x \in Descendants, x # p, NEW S \in SUBSET Pids,
                      ClosedBelow(Target, S)'
               PROVE  x \in S
    BY DEF Descendants, Below, ClosedBelow, Exists, Live
  <2>1. ClosedBelow(Target, S \cup {p})
    BY <1>1 DEF ClosedBelow, ParentsLive, Exists, Live
  <2>2. S \cup {p} \in SUBSET Pids
    OBVIOUS
  <2> QED
    BY <2>1, <2>2 DEF Descendants, Below
<1> QED
  BY <1>1, <1>2, <1>3, <1>4, <1>5, <1>6
=============================================================================

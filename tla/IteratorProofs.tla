---------------------------- MODULE IteratorProofs ----------------------------
(***************************************************************************)
(* Proofs about the process iterator, for every set of processes, on every *)
(* platform: its answers, pieced together from many reads, are right at    *)
(* one moment.                                                             *)
(***************************************************************************)
EXTENDS Iterator, ProcessesProofs

(* Trees.                                                                  *)

(* Whoever is below r exists, and its parent is r or below r.              *)
LEMMA BelowUp ==
  ASSUME NEW r, NEW q \in Below(r)
  PROVE  q \in Pids /\ Exists(q) /\ parent[q] \in Below(r) \cup {r}
<1> DEFINE S == {x \in Pids : /\ x \in Below(r)
                              /\ Exists(x)
                              /\ parent[x] \in Below(r) \cup {r}}
<1>1. ClosedBelow(r, Below(r))
  BY BelowClosed
<1>2. ClosedBelow(r, S)
  BY <1>1 DEF ClosedBelow
<1> QED
  BY <1>2, BelowLeast

(* Two processes that are not below one another have nobody in common.     *)
LEMMA BelowDisjoint ==
  ASSUME NEW r \in Pids, NEW c \in Pids,
         c \notin Below(r) \cup {r}, r \notin Below(c)
  PROVE  Below(r) \cap Below(c) = {}
<1> DEFINE S == {x \in Pids : x \in Below(r) /\ x \notin Below(c)}
<1>1. ASSUME NEW x \in Pids, Exists(x), parent[x] \in S \cup {r}
      PROVE  x \in S
  <2>1. x \in Below(r)
    BY <1>1, BelowClosed DEF ClosedBelow
  <2>2. x \notin Below(c)
    <3>1. x \in Below(c) => parent[x] \in Below(c) \cup {c}
      BY BelowUp
    <3> QED
      BY <1>1, <3>1
  <2> QED
    BY <2>1, <2>2
<1>2. ClosedBelow(r, S)
  BY <1>1 DEF ClosedBelow
<1> QED
  BY <1>2, BelowLeast

LEMMA BelowIsClosed == \A r \in Pids : ClosedBelow(r, Below(r))
BY BelowClosed

LEMMA BelowIsClosedNext == (\A r \in Pids : ClosedBelow(r, Below(r)))'
BY BelowIsClosed, PTL

(* If processes only get process 1 for a new parent, then who still is     *)
(* below r still is below those between, which were on the path to r.      *)
LEMMA PathKept ==
  ASSUME NEW r \in Pids, NEW c \in Pids, r \notin Below(c),
         \A x \in Pids : Exists(x) /\ Exists(x)' /\ parent'[x] \in Pids =>
                           parent'[x] = parent[x]
  PROVE  \A x \in Below(r)' : x \in Below(c) => x \in Below(c)'
<1> DEFINE S == {x \in Pids : x \in Below(r)' /\ (x \in Below(c) => x \in Below(c)')}
<1>1. /\ \A q \in Pids : Exists(q)' /\ parent'[q] \in Below(r)' \cup {r}
                           => q \in Below(r)'
      /\ \A q \in Pids : Exists(q)' /\ parent'[q] \in Below(c)' \cup {c}
                           => q \in Below(c)'
  BY BelowIsClosedNext DEF ClosedBelow
<1>2. ASSUME NEW x \in Pids, Exists(x)', parent'[x] \in S \cup {r}
      PROVE  x \in S
  <2>1. x \in Below(r)'
    BY <1>1, <1>2
  <2>2. ASSUME x \in Below(c)
        PROVE  x \in Below(c)'
    <3>1. Exists(x) /\ parent[x] \in Below(c) \cup {c}
      BY <2>2, BelowUp
    <3>2. parent'[x] = parent[x]
      BY <1>2, <3>1
    <3> QED
      BY <1>1, <1>2, <3>1, <3>2
  <2> QED
    BY <2>1, <2>2
<1>3. \A x \in Below(r)' : x \in S
  <2> SUFFICES ASSUME NEW x \in Below(r)'
               PROVE  x \in S
    OBVIOUS
  <2>1. \A Z \in SUBSET Pids :
          (\A q \in Pids : Exists(q)' /\ parent'[q] \in Z \cup {r} => q \in Z)
            => x \in Z
    BY DEF Below, ClosedBelow
  <2>2. S \in SUBSET Pids
    OBVIOUS
  <2> HIDE DEF S
  <2> QED
    BY <1>2, <2>1, <2>2
<1> QED
  BY <1>3

------------------------------------------------------------------------------
(* What the processes may do while a scan goes on.                         *)

Lives ==
  \/ \E p, c \in Pids : Fork(p, c)
  \/ \E p \in Pids : Exit(p) \/ Reap(p) \/ LeaderExit(p)

Rooted ==
  /\ ParentsLive
  /\ parent[Target] = InitPid /\ state[Target] # "unborn"

(* Who has been born stays born, never comes to be below the target again, *)
(* never comes to be readable again, and gets no new parent but process 1. *)
LEMMA LivesStep ==
  ASSUME OSTypeOK, Rooted, Lives, UNCHANGED rigid
  PROVE  /\ OSTypeOK' /\ Rooted'
         /\ \A x \in Pids : state[x] # "unborn" =>
              /\ state'[x] # "unborn"
              /\ Reads(x)' => Reads(x)
              /\ x \in Descendants' => x \in Descendants
         /\ \A x \in Pids : Exists(x) /\ Exists(x)' /\ parent'[x] \in Pids =>
              parent'[x] = parent[x]
<1> DEFINE Goal == /\ OSTypeOK' /\ Rooted'
                   /\ \A x \in Pids : state[x] # "unborn" =>
                        /\ state'[x] # "unborn"
                        /\ Reads(x)' => Reads(x)
                        /\ x \in Descendants' => x \in Descendants
                   /\ \A x \in Pids :
                        Exists(x) /\ Exists(x)' /\ parent'[x] \in Pids =>
                          parent'[x] = parent[x]
<1>0. /\ "reuse" \notin Faults /\ Target \in Pids /\ InitPid \notin Pids
      /\ ParentsLive
      /\ platform' = platform
  BY IteratorAssumption, ProcessesAssumption
  DEF IteratorAssumption, ProcessesAssumption, rigid, Rooted
<1>1. ASSUME NEW p \in Pids, NEW c \in Pids, Fork(p, c)
      PROVE  Goal
  <2>1. /\ OSTypeOK' /\ ParentsLive'
        /\ Descendants' \subseteq Descendants \cup {c}
        /\ state[c] = "unborn" /\ state'[c] = "running"
        /\ \A q \in Pids \ {c} : state'[q] = state[q]
    BY <1>0, <1>1, ForkTree
  <2>2. headless' = headless /\ \A q \in Pids \ {c} : parent'[q] = parent[q]
    BY <1>1 DEF Fork, OSTypeOK
  <2>3. Rooted'
    BY <1>0, <2>1, <2>2 DEF Rooted
  <2> QED
    BY <1>0, <2>1, <2>2, <2>3 DEF Reads, OnLinux, Live, Exists
<1>2. ASSUME NEW p \in Pids, Exit(p)
      PROVE  Goal
  <2>1. /\ OSTypeOK' /\ ParentsLive'
        /\ Descendants' \subseteq Descendants
        /\ Live(p) /\ state'[p] = "zombie"
        /\ \A q \in Pids \ {p} : state'[q] = state[q]
    BY <1>0, <1>2, ExitTree
  <2>2. /\ headless' = headless \ {p}
        /\ \A q \in Pids : parent'[q] \in {InitPid, parent[q]}
    BY <1>2 DEF Exit, OSTypeOK
  <2>3. Rooted'
    BY <1>0, <2>1, <2>2 DEF Rooted
  <2> QED
    BY <1>0, <2>1, <2>2, <2>3 DEF Reads, OnLinux, Live, Exists
<1>3. ASSUME NEW p \in Pids, Reap(p)
      PROVE  Goal
  <2>1. /\ OSTypeOK' /\ ParentsLive'
        /\ Descendants' \subseteq Descendants
        /\ state[p] = "zombie" /\ state'[p] = "reaped"
        /\ \A q \in Pids \ {p} : state'[q] = state[q]
    BY <1>0, <1>3, ReapTree
  <2>2. /\ headless' = headless
        /\ \A q \in Pids : parent'[q] \in {InitPid, parent[q]}
    BY <1>3 DEF Reap, OSTypeOK
  <2>3. Rooted'
    BY <1>0, <2>1, <2>2 DEF Rooted
  <2> QED
    BY <1>0, <2>1, <2>2, <2>3 DEF Reads, OnLinux, Live, Exists
<1>4. ASSUME NEW p \in Pids, LeaderExit(p)
      PROVE  Goal
  <2>1. state' = state /\ parent' = parent /\ headless' = headless \cup {p}
        /\ kin' = kin
    BY <1>4 DEF LeaderExit
  <2>2. OSTypeOK' /\ Rooted'
    BY <2>1 DEF OSTypeOK, Rooted, ParentsLive, Live, Exists
  <2>3. Descendants' = Descendants
    BY <2>1 DEF Descendants, Below, ClosedBelow, Exists, Live
  <2> QED
    BY <1>0, <2>1, <2>2, <2>3 DEF Reads, OnLinux, Live, Exists
<1> HIDE DEF Goal
<1>5. Goal
  BY <1>1, <1>2, <1>3, <1>4 DEF Lives
<1> QED
  BY <1>5 DEF Goal

(* The iterator itself changes nothing of the system.                      *)
LEMMA ScanSame ==
  ASSUME UNCHANGED <<osVars, rigid>>
  PROVE  /\ OSTypeOK => OSTypeOK'
         /\ Rooted => Rooted'
         /\ \A x : Below(x)' = Below(x)
         /\ Descendants' = Descendants
         /\ \A x : Reads(x)' = Reads(x) /\ Qualifies(x)' = Qualifies(x)
         /\ \A x : InDoubt(x)' = InDoubt(x) /\ state'[x] = state[x]
         /\ OnLinux' = OnLinux
<1>1. /\ state' = state /\ parent' = parent /\ headless' = headless
      /\ kin' = kin /\ platform' = platform /\ filter' = filter
  BY DEF osVars, rigid
<1>2. OSTypeOK => OSTypeOK'
  BY <1>1 DEF OSTypeOK
<1>3. Rooted => Rooted'
  BY <1>1 DEF Rooted, ParentsLive, Exists, Live
<1>4. \A x : Below(x)' = Below(x)
  BY <1>1 DEF Below, ClosedBelow, Exists, Live
<1>5. Descendants' = Descendants
  BY <1>4 DEF Descendants
<1>6. \A x : /\ Reads(x)' = Reads(x)
             /\ InDoubt(x)' = InDoubt(x)
             /\ Qualifies(x)' = Qualifies(x)
  BY <1>1, <1>5 DEF Reads, OnLinux, Live, InDoubt, Qualifies, Readable
<1>7. OnLinux' = OnLinux
  BY <1>1 DEF OnLinux
<1> QED
  BY <1>1, <1>2, <1>3, <1>4, <1>5, <1>6, <1>7

LEMMA QualifiesIsBoolean == \A x : Qualifies(x) \in BOOLEAN
BY DEF Qualifies, Readable, Live

LEMMA QualifiesIsBooleanNext == (\A x : Qualifies(x) \in BOOLEAN)'
BY QualifiesIsBoolean, PTL

------------------------------------------------------------------------------
(* The invariant: what the steps of a visit have found out so far.         *)

Walking == pc \in {"start", "date", "link"}

(* What is said now of the entry is among what was said during the visit.  *)
Current == pc \in Visiting => Qualifies(entry) \in seen

OneOnly == filter = "one" => unread \subseteq {Target} /\ entry = Target

(* The walk has come to cur.  If that is below the target, so was the      *)
(* entry at some moment; and if it always was, then the walk did not lose  *)
(* the path that leads from the entry to the target.                       *)
Upwards ==
  /\ InDoubt(entry) /\ cur # Target
  /\ state[cur] # "unborn" /\ state[entry] # "unborn"
  /\ OnLinux => reads \in {1, 2}
  /\ cur \in Descendants /\ (OnLinux => Reads(entry)) => TRUE \in seen
  /\ FALSE \in seen \/ entry = cur \/ entry \in Below(cur)

Reading ==
  /\ reads \in {1, 2}
  /\ ~OnLinux => cur = entry
  /\ OnLinux /\ InDoubt(entry) =>
       state[entry] # "unborn" /\ (Reads(entry) => TRUE \in seen)

Found ==
  /\ Rooted
  /\ Current /\ OneOnly
  /\ Walking => Upwards
  /\ pc = "read" => Reading
  /\ YieldedWasMember /\ PassedWasNone

Sought == TypeOK /\ Found

LEMMA SoughtInit == Init => Sought
<1> SUFFICES ASSUME Init
             PROVE  Sought
  OBVIOUS
<1> USE ProcessesAssumption DEF ProcessesAssumption
<1>1. TypeOK
  BY DEF Init, OSInit, TypeOK, OSTypeOK, States
<1>2. Rooted
  BY IteratorAssumption
  DEF Init, OSInit, Rooted, ParentsLive, IteratorAssumption
<1>3. /\ Current /\ OneOnly /\ (Walking => Upwards)
      /\ (pc = "read" => Reading) /\ YieldedWasMember /\ PassedWasNone
  BY DEF Init, Current, Visiting, OneOnly, Walking, YieldedWasMember, PassedWasNone
<1> QED
  BY <1>1, <1>2, <1>3 DEF Sought, Found

(* The steps of the iterator keep the types; so do the others.             *)
LEMMA TypeScan ==
  ASSUME Sought, Scan
  PROVE  TypeOK'
<1> USE ProcessesAssumption DEF ProcessesAssumption, Sought, Found
<1>1. ASSUME UNCHANGED <<osVars, rigid>>
      PROVE  OSTypeOK' /\ platform' \in Platforms /\ filter' \in Filters
  BY <1>1, ScanSame DEF TypeOK, rigid
<1>2. ASSUME NEW p, Date(p), p \in Pids
      PROVE  dated' \in SUBSET Pids /\ elder' \in SUBSET Pids
  BY <1>2 DEF Date, TypeOK
<1>3. CASE Open
  BY <1>1, <1>3 DEF Open, TypeOK, dates, Visiting
<1>4. CASE OpenFails
  BY <1>1, <1>4 DEF OpenFails, TypeOK, dates, history
<1>5. ASSUME NEW p \in Pids, Visit(p)
      PROVE  TypeOK'
  <2>1. dated' \in SUBSET Pids /\ elder' \in SUBSET Pids
    BY <1>2, <1>5 DEF Visit, dates, TypeOK
  <2> QED
    BY <1>1, <1>5, <2>1, QualifiesIsBoolean DEF Visit, TypeOK, Visiting
<1>6. ASSUME NEW p \in Pids, NotListed(p)
      PROVE  TypeOK'
  BY <1>1, <1>6 DEF NotListed, TypeOK, dates, history
<1>7. CASE StartWalk
  <2>1. /\ dated' \in SUBSET Pids /\ elder' \in SUBSET Pids
        /\ earlier' \in SUBSET Pids
    BY <1>2, <1>7 DEF StartWalk, dates, TypeOK
  <2> QED
    BY <1>1, <1>7, <2>1 DEF StartWalk, TypeOK, history, Visiting
<1>8. CASE CompareDates
  <2>1. dated' \in SUBSET Pids /\ elder' \in SUBSET Pids
    BY <1>2, <1>8 DEF CompareDates, dates, TypeOK
  <2> QED
    BY <1>1, <1>8, <2>1 DEF CompareDates, TypeOK, history, Visiting
<1>9. CASE ReadLink
  <2>1. cur' \in Pids
    BY <1>9 DEF ReadLink, TypeOK, OSTypeOK
  <2> QED
    BY <1>1, <1>9, <2>1 DEF ReadLink, TypeOK, dates, history, Visiting
<1>10. CASE ReadEntry
  <2>1. reads' \in {0, 1, 2}
    BY <1>10 DEF ReadEntry, Reading
  <2> QED
    BY <1>1, <1>10, <2>1 DEF ReadEntry, TypeOK, dates, history, Visiting
<1>11. CASE Return
  BY <1>1, <1>11 DEF Return, EndVisit, TypeOK, dates
<1>12. CASE Continue
  BY <1>1, <1>12 DEF Continue, EndVisit, TypeOK, dates
<1>13. CASE Finish
  BY <1>1, <1>13 DEF Finish, TypeOK, dates, history
<1> QED
  BY <1>3, <1>4, <1>5, <1>6, <1>7, <1>8, <1>9, <1>10, <1>11, <1>12, <1>13
  DEF Scan

(* Between two visits nothing is claimed.                                  *)
LEMMA FoundBetween ==
  ASSUME Sought, UNCHANGED <<osVars, rigid>>,
         pc' \in {"idle", "next", "end", "failed", "gone"}, OneOnly'
  PROVE  Found'
<1>1. Rooted'
  BY ScanSame DEF Sought, Found
<1> QED
  BY <1>1 DEF Found, Current, Walking, Visiting, YieldedWasMember, PassedWasNone

(* An entry says of itself whether it is to be yielded, or is below the    *)
(* target now.                                                             *)
LEMMA QualifiesInDoubt ==
  ASSUME NEW p, InDoubt(p)
  PROVE  Qualifies(p) <=> Reads(p) /\ p \in Descendants
BY DEF InDoubt, Qualifies, Reads, Readable, OnLinux

LEMMA QualifiesNoDoubt ==
  ASSUME NEW p, ~InDoubt(p), filter = "one" => p = Target,
         filter \in {"all", "one", "family"}
  PROVE  Qualifies(p) <=> Reads(p)
BY DEF InDoubt, Qualifies, Reads, Readable, OnLinux

(* What has been seen, if the truth of now is among it.                    *)
LEMMA SeenNow ==
  ASSUME NEW Q \in BOOLEAN, NEW S, Q \in S
  PROVE  (TRUE \in S \/ ~Q) /\ (FALSE \in S \/ Q)
<1>1. CASE Q
  BY <1>1, Q = TRUE
<1>2. CASE ~Q
  BY <1>2, Q = FALSE
<1> QED
  BY <1>1, <1>2

LEMMA CurrentSeen ==
  ASSUME Sought, pc \in Visiting
  PROVE  /\ Qualifies(entry) => TRUE \in seen
         /\ ~Qualifies(entry) => FALSE \in seen
<1>1. Qualifies(entry) \in seen
  BY DEF Sought, Found, Current
<1> QED
  BY <1>1, SeenNow, QualifiesIsBoolean

(* The visit begins.                                                       *)
LEMMA FoundVisit ==
  ASSUME Sought, NEW p \in Pids, Visit(p)
  PROVE  Found'
<1>0. UNCHANGED <<osVars, rigid>> /\ filter' = filter
  BY DEF Visit, rigid
<1>1. /\ Rooted' /\ Descendants' = Descendants /\ OnLinux' = OnLinux
      /\ Reads(p)' = Reads(p) /\ Qualifies(p)' = Qualifies(p)
      /\ InDoubt(p)' = InDoubt(p) /\ state'[p] = state[p]
  BY <1>0, ScanSame DEF Sought, Found
<1>2. entry' = p /\ cur' = p /\ seen' = {Qualifies(p)} /\ reads' \in {1, 2}
  BY DEF Visit
<1>3. Current'
  BY <1>1, <1>2 DEF Current
<1>4. OneOnly'
  BY <1>0, <1>2 DEF Visit, OneOnly, Sought, Found
<1>5. pc' \in {"start", "read"} /\ (pc' = "start" => OnLinux /\ InDoubt(p))
      /\ (OnLinux /\ InDoubt(p) => pc' = "start")
  BY DEF Visit
<1>6. Walking' => Upwards'
  <2> SUFFICES ASSUME Walking'
               PROVE  Upwards'
    OBVIOUS
  <2>1. pc' = "start" /\ InDoubt(p) /\ OnLinux
    BY <1>5 DEF Walking
  <2>2. Exists(p)
    BY <2>1 DEF Visit, InDoubt
  <2>3. state[p] # "unborn" /\ p # Target
    BY <2>1, <2>2 DEF Exists, Live, InDoubt
  <2>4. p \in Descendants /\ Reads(p) => TRUE \in seen'
    BY <1>2, <2>1, QualifiesInDoubt, QualifiesIsBoolean, SeenNow
  <2> QED
    BY <1>1, <1>2, <2>1, <2>3, <2>4 DEF Upwards
<1>7. pc' = "read" => Reading'
  BY <1>1, <1>2, <1>5 DEF Reading
<1> QED
  BY <1>1, <1>3, <1>4, <1>5, <1>6, <1>7 DEF Found, YieldedWasMember, PassedWasNone

(* The ages are compared: only the step on the way changes.                *)
LEMMA FoundDates ==
  ASSUME Sought, StartWalk \/ CompareDates
  PROVE  Found'
<1>0. /\ UNCHANGED <<osVars, rigid>> /\ filter' = filter
      /\ entry' = entry /\ cur' = cur /\ seen' = seen /\ reads' = reads
      /\ unread' = unread
      /\ Walking /\ pc \in Visiting
      /\ pc' \in {"date", "link", "tooOld"}
  BY DEF StartWalk, CompareDates, rigid, history, Walking, Visiting
<1>1. Rooted' /\ Current' /\ OneOnly'
  BY <1>0, ScanSame DEF Sought, Found, Current, OneOnly
<1>2. /\ Descendants' = Descendants /\ OnLinux' = OnLinux
      /\ Below(cur)' = Below(cur)
      /\ Reads(entry)' = Reads(entry) /\ InDoubt(entry)' = InDoubt(entry)
      /\ state' = state
  BY <1>0, ScanSame DEF osVars
<1>3. Upwards'
  BY <1>0, <1>2 DEF Sought, Found, Upwards
<1> QED
  BY <1>0, <1>1, <1>3 DEF Found, YieldedWasMember, PassedWasNone

(* The target is below nobody; who is a child of process 1 is below nobody *)
(* either, and who is below it is not below the target.                    *)
LEMMA OutsideTree ==
  ASSUME Rooted, NEW c \in Pids, c # Target
  PROVE  /\ Target \notin Below(c)
         /\ parent[c] = InitPid => Descendants \cap (Below(c) \cup {c}) = {}
<1> USE ProcessesAssumption DEF ProcessesAssumption
<1>1. \A r \in Pids : Target \notin Below(r)
  BY BelowUp DEF Rooted, Below
<1>2. ASSUME parent[c] = InitPid
      PROVE  Descendants \cap (Below(c) \cup {c}) = {}
  <2>1. c \notin Below(Target)
    BY <1>2, BelowUp DEF Below
  <2>2. Below(Target) \cap Below(c) = {}
    BY <1>1, <2>1, BelowDisjoint
  <2> QED
    BY <2>1, <2>2 DEF Descendants
<1> QED
  BY <1>1, <1>2

(* The walk ends without the target, and the entry was not always below it.*)
LEMMA WalkEndsRightly ==
  ASSUME Sought, pc = "link", ~HasLink(cur) \/ parent[cur] = InitPid
  PROVE  FALSE \in seen
<1> SUFFICES ASSUME FALSE \notin seen
             PROVE  FALSE
  OBVIOUS
<1>1. /\ InDoubt(entry) /\ cur # Target /\ cur \in Pids /\ Rooted
      /\ entry = cur \/ entry \in Below(cur)
  BY DEF Sought, Found, Walking, Upwards, TypeOK
<1>2. Reads(entry) /\ entry \in Descendants
  BY <1>1, CurrentSeen, QualifiesInDoubt DEF Visiting
<1>3. Live(cur)
  <2>1. CASE entry = cur
    BY <1>2, <2>1 DEF Reads
  <2>2. CASE entry \in Below(cur)
    BY <1>1, <2>2, BelowNeedsLive DEF Rooted
  <2> QED
    BY <1>1, <2>1, <2>2
<1>4. HasLink(cur)
  BY <1>3 DEF HasLink, Exists
<1>5. parent[cur] = InitPid
  BY <1>4
<1> QED
  BY <1>1, <1>2, <1>5, OutsideTree

LEMMA FoundReadLink ==
  ASSUME Sought, ReadLink
  PROVE  Found'
<1> USE ProcessesAssumption DEF ProcessesAssumption
<1>0. /\ UNCHANGED <<osVars, rigid>> /\ filter' = filter
      /\ entry' = entry /\ seen' = seen /\ reads' = reads /\ unread' = unread
      /\ pc = "link" /\ pc \in Visiting /\ Walking
  BY DEF ReadLink, rigid, history, Visiting, Walking
<1>1. Rooted' /\ Current' /\ OneOnly'
  BY <1>0, ScanSame DEF Sought, Found, Current, OneOnly
<1>2. /\ Descendants' = Descendants /\ OnLinux' = OnLinux
      /\ \A x : Below(x)' = Below(x)
      /\ Reads(entry)' = Reads(entry) /\ InDoubt(entry)' = InDoubt(entry)
      /\ state' = state
  BY <1>0, ScanSame DEF osVars
<1>3. Upwards /\ Rooted /\ entry \in Pids /\ cur \in Pids /\ OSTypeOK
  BY <1>0 DEF Sought, Found, TypeOK
<1>4. ClosedBelow(Target, Descendants)
  BY BelowClosed DEF Descendants
<1>5. CASE pc' = "passed" /\ (~HasLink(cur) \/ parent[cur] = InitPid)
  BY <1>0, <1>1, <1>5, WalkEndsRightly
  DEF Found, Walking, YieldedWasMember, PassedWasNone
<1>6. CASE /\ HasLink(cur) /\ parent[cur] = Target
           /\ pc' = (IF OnLinux THEN "read" ELSE "yielded") /\ cur' = cur
  <2>1. cur \in Descendants
    BY <1>3, <1>4, <1>6 DEF ClosedBelow, HasLink, Exists
  <2>2. (OnLinux => Reads(entry)) => TRUE \in seen
    BY <1>3, <2>1 DEF Upwards
  <2>3. pc' = "read" => Reading'
    BY <1>0, <1>2, <1>3, <1>6, <2>2 DEF Reading, Upwards
  <2>4. pc' = "yielded" => TRUE \in seen'
    BY <1>0, <1>6, <2>2
  <2> QED
    BY <1>1, <1>6, <2>3, <2>4 DEF Found, Walking, YieldedWasMember, PassedWasNone
<1>7. CASE /\ HasLink(cur) /\ parent[cur] \notin {InitPid, Target}
           /\ pc' = (IF OnLinux THEN "date" ELSE "link") /\ cur' = parent[cur]
  <2>1. Exists(cur) /\ parent[cur] \in Pids /\ parent[cur] # Target
    BY <1>3, <1>7 DEF HasLink, Exists, OSTypeOK
  <2>2. state[parent[cur]] # "unborn"
    BY <1>3, <2>1 DEF Rooted, ParentsLive, Live
  <2>3. parent[cur] \in Descendants => cur \in Descendants
    BY <1>3, <1>4, <2>1 DEF ClosedBelow
  <2>4. cur \in Below(parent[cur])
    BY <1>3, <2>1, BelowClosed DEF ClosedBelow
  <2>5. Below(cur) \subseteq Below(parent[cur])
    BY <2>4, BelowTransitive
  <2>6. FALSE \in seen \/ entry \in Below(parent[cur])
    BY <1>3, <2>4, <2>5 DEF Upwards
  <2>7. Upwards'
    BY <1>0, <1>2, <1>3, <1>7, <2>1, <2>2, <2>3, <2>6 DEF Upwards
  <2> QED
    BY <1>1, <1>7, <2>7 DEF Found, YieldedWasMember, PassedWasNone
<1> QED
  BY <1>5, <1>6, <1>7 DEF ReadLink

LEMMA FoundReadEntry ==
  ASSUME Sought, ReadEntry
  PROVE  Found'
<1>0. /\ UNCHANGED <<osVars, rigid>> /\ filter' = filter
      /\ entry' = entry /\ cur' = cur /\ seen' = seen /\ unread' = unread
      /\ pc = "read" /\ pc \in Visiting /\ reads' = reads - 1
  BY DEF ReadEntry, rigid, history, Visiting
<1>1. Rooted' /\ Current' /\ OneOnly'
  BY <1>0, ScanSame DEF Sought, Found, Current, OneOnly
<1>2. /\ Descendants' = Descendants /\ OnLinux' = OnLinux
      /\ \A x : Below(x)' = Below(x)
      /\ Reads(entry)' = Reads(entry) /\ InDoubt(entry)' = InDoubt(entry)
      /\ state' = state
  BY <1>0, ScanSame DEF osVars
<1>3. /\ Reading /\ Rooted /\ entry \in Pids /\ OneOnly
      /\ filter \in {"all", "one", "family"} /\ reads \in {1, 2}
  BY <1>0, IteratorAssumption
  DEF Sought, Found, TypeOK, IteratorAssumption, Reading
<1>4. CASE ~Reads(entry) /\ pc' = "passed"
  <2>1. ~Qualifies(entry)
    BY <1>4 DEF Qualifies, Reads, Readable, OnLinux
  <2>2. FALSE \in seen
    BY <1>0, <2>1, CurrentSeen
  <2> QED
    BY <1>0, <1>1, <1>4, <2>2
    DEF Found, Walking, YieldedWasMember, PassedWasNone
<1>5. CASE Reads(entry) /\ reads > 1 /\ pc' = "read"
  <2>1. reads' = 1
    BY <1>0, <1>3, <1>5
  <2>2. Reading'
    BY <1>0, <1>2, <1>3, <2>1 DEF Reading
  <2> QED
    BY <1>1, <1>5, <2>2 DEF Found, Walking, YieldedWasMember, PassedWasNone
<1>6. CASE Reads(entry) /\ ~OnLinux /\ InDoubt(entry) /\ pc' = "link"
  <2>1. cur = entry /\ entry # Target /\ state[entry] # "unborn"
    BY <1>3, <1>6 DEF Reading, InDoubt, Reads, Live
  <2>2. entry \in Descendants => TRUE \in seen
    BY <1>0, <1>6, CurrentSeen, QualifiesInDoubt
  <2>3. Upwards'
    BY <1>0, <1>2, <1>6, <2>1, <2>2 DEF Upwards
  <2> QED
    BY <1>1, <1>6, <2>3 DEF Found, YieldedWasMember, PassedWasNone
<1>7. CASE Reads(entry) /\ (OnLinux \/ ~InDoubt(entry)) /\ pc' = "yielded"
  <2>1. TRUE \in seen
    <3>1. CASE InDoubt(entry)
      BY <1>3, <1>7, <3>1 DEF Reading
    <3>2. CASE ~InDoubt(entry)
      BY <1>0, <1>3, <1>7, <3>2, CurrentSeen, QualifiesNoDoubt DEF OneOnly
    <3> QED
      BY <3>1, <3>2
  <2> QED
    BY <1>0, <1>1, <1>7, <2>1
    DEF Found, Walking, YieldedWasMember, PassedWasNone
<1> QED
  BY <1>4, <1>5, <1>6, <1>7 DEF ReadEntry

(* The processes go on.                                                    *)
LEMMA FoundFamily ==
  ASSUME Sought, Family
  PROVE  OSTypeOK' /\ Found'
<1> USE ProcessesAssumption DEF ProcessesAssumption
<1>0. /\ Lives /\ UNCHANGED rigid /\ filter' = filter /\ OnLinux' = OnLinux
      /\ pc' = pc /\ unread' = unread /\ reads' = reads
      /\ entry' = entry /\ cur' = cur /\ entry \in Pids /\ cur \in Pids
      /\ InDoubt(entry)' = InDoubt(entry)
      /\ OSTypeOK /\ Rooted
  BY DEF Family, Lives, rigid, iterVars, Sought, Found, TypeOK, OnLinux, InDoubt
<1>1. /\ OSTypeOK' /\ Rooted'
      /\ \A x \in {entry, cur} : state[x] # "unborn" =>
           /\ state'[x] # "unborn"
           /\ Reads(x)' => Reads(x)
           /\ x \in Descendants' => x \in Descendants
      /\ \A x \in Pids : Exists(x) /\ Exists(x)' /\ parent'[x] \in Pids =>
           parent'[x] = parent[x]
  BY <1>0, LivesStep
<1>2. pc \in Visiting => seen' = seen \cup {Qualifies(entry)'}
  BY DEF Family
<1>3. Current' /\ OneOnly'
  BY <1>0, <1>2 DEF Sought, Found, Current, OneOnly
<1>4. ASSUME Walking
      PROVE  Upwards'
  <2>1. Upwards /\ pc \in Visiting
    BY <1>4 DEF Sought, Found, Walking, Visiting
  <2>2. cur \in Descendants' /\ (OnLinux' => Reads(entry)') => TRUE \in seen'
    BY <1>0, <1>1, <1>2, <2>1 DEF Upwards
  <2>3. FALSE \in seen' \/ entry = cur \/ entry \in Below(cur)'
    <3> SUFFICES ASSUME FALSE \notin seen', entry # cur
                 PROVE  entry \in Below(cur)'
      OBVIOUS
    <3>1. entry \in Below(cur) /\ Target \notin Below(cur)
      BY <1>0, <1>2, <2>1, OutsideTree DEF Upwards
    <3>2. Qualifies(entry)'
      BY <1>2, <2>1, QualifiesIsBooleanNext, <1>0
    <3>3. entry \in Below(Target)'
      BY <1>0, <2>1, <3>2 DEF Upwards, InDoubt, Qualifies, Descendants
    <3> QED
      BY <1>0, <1>1, <3>1, <3>3, PathKept
  <2> QED
    BY <1>0, <1>1, <2>1, <2>2, <2>3 DEF Upwards
<1>5. ASSUME pc = "read"
      PROVE  Reading'
  <2>1. Reading /\ pc \in Visiting
    BY <1>5 DEF Sought, Found, Visiting
  <2> QED
    BY <1>0, <1>1, <1>2, <2>1 DEF Reading
<1>6. YieldedWasMember' /\ PassedWasNone'
  BY <1>0, <1>2 DEF Sought, Found, YieldedWasMember, PassedWasNone, Visiting
<1> QED
  BY <1>0, <1>1, <1>3, <1>4, <1>5, <1>6 DEF Found, Walking

(* Other programs look at the directories of /proc.                        *)
LEMMA FoundInodes ==
  ASSUME Sought, Inodes
  PROVE  Sought'
<1>0. /\ UNCHANGED <<osVars, rigid>> /\ filter' = filter
      /\ platform' = platform /\ steady' = steady
      /\ entry' = entry /\ cur' = cur /\ seen' = seen /\ reads' = reads
      /\ unread' = unread /\ pc' = pc /\ yielded' = yielded
      /\ doubted' = doubted
      /\ entry \in Pids /\ cur \in Pids
  BY DEF Inodes, rigid, history, Sought, TypeOK
<1>1. /\ dated' \in SUBSET Pids /\ elder' \in SUBSET Pids
      /\ earlier' \in SUBSET Pids
  BY DEF Inodes, Date, Sought, TypeOK
<1>2. OSTypeOK' /\ Rooted'
  BY <1>0, ScanSame DEF Sought, Found, TypeOK
<1>3. TypeOK'
  BY <1>0, <1>1, <1>2 DEF Sought, TypeOK, Visiting
<1>4. /\ Descendants' = Descendants /\ OnLinux' = OnLinux
      /\ Below(cur)' = Below(cur) /\ state' = state
      /\ Reads(entry)' = Reads(entry) /\ InDoubt(entry)' = InDoubt(entry)
      /\ Qualifies(entry)' = Qualifies(entry)
  BY <1>0, ScanSame DEF osVars
<1>5. Current' /\ OneOnly' /\ YieldedWasMember' /\ PassedWasNone'
  BY <1>0, <1>4
  DEF Sought, Found, Current, OneOnly, YieldedWasMember, PassedWasNone
<1>6. (Walking' => Upwards') /\ (pc' = "read" => Reading')
  BY <1>0, <1>4 DEF Sought, Found, Walking, Upwards, Reading
<1> QED
  BY <1>2, <1>3, <1>5, <1>6 DEF Sought, Found

LEMMA SoughtStep == Sought /\ [Next]_vars => Sought'
<1> USE ProcessesAssumption DEF ProcessesAssumption
<1> SUFFICES ASSUME Sought, [Next]_vars
             PROVE  Sought'
  OBVIOUS
<1>1. CASE Scan
  <2>1. TypeOK'
    BY <1>1, TypeScan
  <2>0. OneOnly
    BY DEF Sought, Found
  <2>2. ASSUME Open \/ OpenFails \/ Finish \/ \E p \in Pids : NotListed(p)
        PROVE  Found'
    <3>1. UNCHANGED <<osVars, rigid>>
      BY <2>2 DEF Open, OpenFails, Finish, NotListed
    <3>2. pc' \in {"idle", "next", "end", "failed", "gone"}
      BY <2>2 DEF Open, OpenFails, Finish, NotListed
    <3>3. filter' = filter /\ entry' = entry
          /\ (unread' \subseteq unread \/ (filter = "one" => unread' = {Target}))
      BY <2>2 DEF Open, OpenFails, Finish, NotListed, rigid
    <3>4. OneOnly'
      BY <2>0, <3>3 DEF OneOnly
    <3> QED
      BY <3>1, <3>2, <3>4, FoundBetween
  <2>3. ASSUME Return \/ Continue
        PROVE  Found'
    <3>1. /\ UNCHANGED <<osVars, rigid>> /\ pc' = "next"
          /\ filter' = filter /\ unread' = unread /\ entry' = Target
      BY <2>3 DEF Return, Continue, EndVisit, rigid
    <3>2. OneOnly'
      BY <2>0, <3>1 DEF OneOnly
    <3> QED
      BY <3>1, <3>2, FoundBetween
  <2>4. Found'
    BY <1>1, <2>2, <2>3, FoundVisit, FoundDates, FoundReadLink,
       FoundReadEntry DEF Scan
  <2> QED
    BY <2>1, <2>4 DEF Sought
<1>2. CASE Family
  <2>1. OSTypeOK' /\ Found'
    BY <1>2, FoundFamily
  <2>2. /\ UNCHANGED <<rigid, iterVars>>
        /\ dated' \subseteq dated /\ elder' \subseteq elder
    BY <1>2 DEF Family
  <2>3. seen' \in SUBSET BOOLEAN /\ steady' \in SUBSET Pids
    BY <1>2, QualifiesIsBooleanNext DEF Family, Sought, TypeOK
  <2>4. TypeOK'
    BY <2>1, <2>2, <2>3 DEF Sought, TypeOK, rigid, iterVars, Visiting
  <2> QED
    BY <2>1, <2>4 DEF Sought
<1>3. CASE Inodes
  BY <1>3, FoundInodes
<1>4. CASE UNCHANGED vars
  <2>1. /\ UNCHANGED <<osVars, rigid>> /\ filter' = filter
        /\ platform' = platform /\ steady' = steady
        /\ entry' = entry /\ cur' = cur /\ seen' = seen /\ reads' = reads
        /\ unread' = unread /\ pc' = pc /\ yielded' = yielded
        /\ doubted' = doubted /\ dated' = dated /\ elder' = elder
        /\ earlier' = earlier
    BY <1>4 DEF vars, rigid, iterVars, dates, history
  <2>2. OSTypeOK' /\ Rooted' /\ TypeOK'
    BY <2>1, ScanSame DEF Sought, Found, TypeOK, Visiting
  <2>3. /\ Descendants' = Descendants /\ OnLinux' = OnLinux
        /\ Below(cur)' = Below(cur) /\ state' = state
        /\ Reads(entry)' = Reads(entry) /\ InDoubt(entry)' = InDoubt(entry)
        /\ Qualifies(entry)' = Qualifies(entry)
    BY <2>1, ScanSame DEF osVars
  <2>4. Current' /\ OneOnly' /\ YieldedWasMember' /\ PassedWasNone'
    BY <2>1, <2>3
    DEF Sought, Found, Current, OneOnly, YieldedWasMember, PassedWasNone
  <2>5. (Walking' => Upwards') /\ (pc' = "read" => Reading')
    BY <2>1, <2>3 DEF Sought, Found, Walking, Upwards, Reading
  <2> QED
    BY <2>2, <2>4, <2>5 DEF Sought, Found
<1> QED
  BY <1>1, <1>2, <1>3, <1>4 DEF Next

LEMMA AlwaysSought == Spec => []Sought
BY SoughtInit, SoughtStep, PTL DEF Spec

------------------------------------------------------------------------------
(* The variables of the scan keep their types.                             *)
THEOREM IteratorTypeCorrect == Spec => []TypeOK
<1>1. Sought => TypeOK
  BY DEF Sought
<1> QED
  BY <1>1, AlwaysSought, PTL

(* Whoever get_next_process() returns was alive and of the family at one   *)
(* moment of its visit, on every platform, whatever the processes did      *)
(* between the reads.                                                      *)
THEOREM YieldedRightly == Spec => []YieldedWasMember
<1>1. Sought => YieldedWasMember
  BY DEF Sought, Found
<1> QED
  BY <1>1, AlwaysSought, PTL

(* Whoever it passes over, but for the age of an inode, was dead or not of *)
(* the family at one moment of its visit.                                  *)
THEOREM PassedRightly == Spec => []PassedWasNone
<1>1. Sought => PassedWasNone
  BY DEF Sought, Found
<1> QED
  BY <1>1, AlwaysSought, PTL

------------------------------------------------------------------------------
(* Who was of the family all the time is where the scan will find it: not  *)
(* yet read, at the entry, or done with.                                   *)
Whereabouts ==
  unread \cup yielded \cup doubted \cup (IF pc \in Visiting THEN {entry} ELSE {})

Steadfast ==
  /\ \A p \in steady : Qualifies(p)
  /\ pc \in Visiting /\ entry \in steady => FALSE \notin seen
  /\ pc \notin {"idle", "failed", "gone"} => steady \subseteq Whereabouts
  /\ pc = "end" => unread = {}

LEMMA QualifiedExists ==
  \A p : Qualifies(p) => Exists(p) /\ (filter = "one" => p = Target)
BY DEF Qualifies, Readable, Live, Exists

(* While a visit goes on, nothing else happens to unread, yielded, doubted *)
(* and steady.                                                             *)
LEMMA SteadfastOn ==
  ASSUME Steadfast, UNCHANGED <<osVars, rigid, history>>,
         entry' = entry, unread' = unread, yielded' = yielded,
         doubted' = doubted, pc \in Visiting <=> pc' \in Visiting,
         pc \in {"idle", "failed", "gone"} <=> pc' \in {"idle", "failed", "gone"},
         pc' = "end" => unread' = {}
  PROVE  Steadfast'
<1>1. steady' = steady /\ seen' = seen
  BY DEF history
<1>2. \A x : Qualifies(x)' = Qualifies(x)
  BY ScanSame
<1>3. Whereabouts' = Whereabouts
  BY DEF Whereabouts
<1> QED
  BY <1>1, <1>2, <1>3 DEF Steadfast

LEMMA SteadfastScan ==
  ASSUME Sought, Steadfast, Scan
  PROVE  Steadfast'
<1>1. TypeOK /\ PassedWasNone
  BY DEF Sought, Found
<1>2. ASSUME UNCHANGED <<osVars, rigid>>
      PROVE  \A x : Qualifies(x)' = Qualifies(x)
  BY <1>2, ScanSame
<1>3. CASE Open
  <2>1. \A q \in steady' : Qualifies(q)' /\ q \in unread'
    BY <1>2, <1>3, QualifiedExists DEF Open
  <2>2. pc' \notin Visiting /\ pc' # "end"
    BY <1>3 DEF Open, Visiting
  <2> QED
    BY <2>1, <2>2 DEF Steadfast, Whereabouts
<1>4. CASE OpenFails
  <2>1. UNCHANGED <<osVars, rigid>> /\ steady' = steady
    BY <1>4 DEF OpenFails, history
  <2>2. pc' \in {"failed", "gone"}
    BY <1>4 DEF OpenFails
  <2> QED
    BY <1>2, <2>1, <2>2 DEF Steadfast, Visiting
<1>5. ASSUME NEW p \in Pids, Visit(p)
      PROVE  Steadfast'
  <2>1. /\ UNCHANGED <<osVars, rigid>> /\ steady' = steady
        /\ pc = "next" /\ pc' \in Visiting
        /\ unread' = unread \ {p} /\ entry' = p
        /\ yielded' = yielded /\ doubted' = doubted
        /\ seen' = {Qualifies(p)}
    BY <1>5 DEF Visit, Visiting
  <2>2. \A q \in steady : Qualifies(q) /\ q \in unread \cup yielded \cup doubted
    BY <2>1 DEF Steadfast, Whereabouts, Visiting
  <2>3. p \in steady => FALSE \notin seen'
    BY <2>1, <2>2
  <2>4. steady' \subseteq Whereabouts'
    BY <2>1, <2>2 DEF Whereabouts
  <2> QED
    BY <1>2, <2>1, <2>2, <2>3, <2>4 DEF Steadfast, Visiting
<1>6. ASSUME NEW p \in Pids, NotListed(p)
      PROVE  Steadfast'
  <2>1. /\ UNCHANGED <<osVars, rigid>> /\ steady' = steady
        /\ pc = "next" /\ pc' = pc /\ ~Exists(p)
        /\ unread' = unread \ {p} /\ yielded' = yielded /\ doubted' = doubted
    BY <1>6 DEF NotListed, history
  <2>2. p \notin steady
    BY <2>1, QualifiedExists DEF Steadfast
  <2> QED
    BY <1>2, <2>1, <2>2 DEF Steadfast, Whereabouts, Visiting
<1>7. CASE StartWalk \/ CompareDates \/ ReadLink \/ ReadEntry
  <2>1. /\ UNCHANGED <<osVars, rigid, history>>
        /\ entry' = entry /\ unread' = unread /\ yielded' = yielded
        /\ doubted' = doubted
        /\ pc \in Visiting /\ pc' \in Visiting
    BY <1>7 DEF StartWalk, CompareDates, ReadLink, ReadEntry, Visiting
  <2> QED
    BY <2>1, SteadfastOn DEF Visiting
<1>8. CASE Return \/ Continue
  <2>1. /\ UNCHANGED <<osVars, rigid>> /\ steady' = steady
        /\ pc \in Visiting /\ pc' = "next" /\ unread' = unread
        /\ yielded \subseteq yielded' /\ doubted \subseteq doubted'
    BY <1>8 DEF Return, Continue, EndVisit, Visiting
  <2>2. entry \in steady => entry \in yielded' \cup doubted'
    BY <1>1, <1>8, <2>1 DEF Return, Continue, Steadfast, PassedWasNone
  <2>3. steady \subseteq unread \cup yielded \cup doubted \cup {entry}
    BY <2>1 DEF Steadfast, Whereabouts, Visiting
  <2>4. pc' \notin Visiting
    BY <2>1 DEF Visiting
  <2>5. steady' \subseteq Whereabouts'
    BY <2>1, <2>2, <2>3 DEF Whereabouts
  <2> QED
    BY <1>2, <2>1, <2>4, <2>5 DEF Steadfast
<1>9. CASE Finish
  <2>1. /\ UNCHANGED <<osVars, rigid, history>>
        /\ entry' = entry /\ unread' = unread /\ yielded' = yielded
        /\ doubted' = doubted /\ pc = "next" /\ pc' = "end" /\ unread = {}
    BY <1>9 DEF Finish
  <2> QED
    BY <2>1, SteadfastOn DEF Visiting
<1> QED
  BY <1>3, <1>4, <1>5, <1>6, <1>7, <1>8, <1>9 DEF Scan

LEMMA SteadfastStep == Sought /\ Steadfast /\ [Next]_vars => Steadfast'
<1> SUFFICES ASSUME Sought, Steadfast, [Next]_vars
             PROVE  Steadfast'
  OBVIOUS
<1>1. CASE Scan
  BY <1>1, SteadfastScan
<1>2. CASE Family
  <2>1. /\ pc' = pc /\ entry' = entry /\ Whereabouts' = Whereabouts
        /\ unread' = unread
        /\ steady' = {q \in steady : Qualifies(q)'}
        /\ pc \in Visiting => seen' = seen \cup {Qualifies(entry)'}
    BY <1>2 DEF Family, iterVars, Whereabouts
  <2>2. entry' \in steady' => Qualifies(entry)'
    BY <2>1
  <2> QED
    BY <2>1, <2>2 DEF Steadfast
<1>3. CASE Inodes \/ UNCHANGED vars
  <2>1. /\ UNCHANGED <<osVars, rigid, history>>
        /\ entry' = entry /\ unread' = unread /\ yielded' = yielded
        /\ doubted' = doubted /\ pc' = pc
    BY <1>3 DEF Inodes, vars, iterVars
  <2> QED
    BY <2>1, SteadfastOn DEF Steadfast
<1> QED
  BY <1>1, <1>2, <1>3 DEF Next

(* Nobody who is alive and of the family from the opening of the scan to   *)
(* its end is missed, but for the age of an inode.                         *)
THEOREM SteadyFound == Spec => []ScanFindsSteady
<1>1. Init => Steadfast
  BY DEF Init, Steadfast, Visiting
<1>2. Steadfast /\ Sought => ScanFindsSteady
  <2> SUFFICES ASSUME Steadfast, Sought, pc = "end"
               PROVE  steady \subseteq yielded \cup doubted
    BY DEF ScanFindsSteady
  <2> QED
    BY DEF Steadfast, Whereabouts, Visiting
<1> QED
  BY <1>1, <1>2, AlwaysSought, SteadfastStep, PTL DEF Spec
=============================================================================

-------------------------- MODULE ProcessTableProofs --------------------------
(***************************************************************************)
(* Proofs about the linked lists and the hash table of ProcessTable, for   *)
(* any pids, any number of buckets and any heap that has two nodes for     *)
(* each pid.                                                               *)
(* A list is first read off the heap as a sequence of nodes (Shaped); each *)
(* operation of list.c does to that sequence what its name says; and the   *)
(* calls are reasoned about on the sequences alone.  Where a walk along    *)
(* the pointers has to be followed to its end, the least step at which it  *)
(* would go wrong is looked at (Least, StepsMeet).                         *)
(***************************************************************************)
EXTENDS ProcessTable, FiniteSetTheorems, FunctionTheorems, SequenceTheorems,
        WellFoundedInduction, TLAPS

------------------------------------------------------------------------------
(* Walks along pointers.                                                   *)

(* A set of numbers has a least element.                                   *)
LEMMA Least ==
  ASSUME NEW T \in SUBSET Nat, T # {}
  PROVE  \E x \in T : \A y \in T : x <= y
<1> DEFINE R == {ss \in Nat \X Nat : ss[1] < ss[2]}
<1>0. IsWellFoundedOn(R, Nat)
  BY NatLessThanWellFounded DEF OpToRel
<1> HIDE DEF R
<1>1. PICK x \in T : \A y \in T : <<y, x>> \notin R
  BY <1>0, WFMin
<1>2. \A y \in T : ~ (y < x)
  BY <1>1 DEF R
<1>3. QED
  BY <1>2

LEMMA Counted == \A n \in Nat : IsFiniteSet(1 .. n) /\ Cardinality(1 .. n) = n
BY FS_Interval

LEMMA NodesCounted == Cardinality(Nodes) \in Nat
BY ProcessTableAssumption, FS_CardinalityType

(* The links lead from n along s and no further.                           *)
Strung(s, n, link) ==
  /\ n = IF Len(s) = 0 THEN Null ELSE s[1]
  /\ \A i \in 1 .. Len(s) : link[s[i]] = IF i = Len(s) THEN Null ELSE s[i + 1]

(* at is what is met from n on along the links.                            *)
Follows(at, n, link, K) ==
  \A i \in 1 .. K :
    at[i] = IF i = 1 THEN n ELSE IF at[i - 1] = Null THEN Null ELSE link[at[i - 1]]

(* What follows from the first node of s along the links is s, then Null:  *)
(* the least place at which it were not would be preceded by one at which  *)
(* it is.                                                                  *)
LEMMA StepsMeet ==
  ASSUME NEW s \in Seq(Nodes), NEW n, NEW link, NEW K \in Nat, NEW at,
         Strung(s, n, link), Follows(at, n, link, K), Len(s) < K
  PROVE  \A i \in 1 .. K : at[i] = IF i <= Len(s) THEN s[i] ELSE Null
<1> DEFINE F(i) == IF i <= Len(s) THEN s[i] ELSE Null
           T == {i \in 1 .. K : at[i] # F(i)}
<1> SUFFICES ASSUME T # {}
             PROVE  FALSE
  OBVIOUS
<1>0. Len(s) \in Nat /\ \A i \in 1 .. Len(s) : s[i] # Null
  BY ProcessTableAssumption
<1>1. T \in SUBSET Nat
  OBVIOUS
<1> HIDE DEF T
<1>2. PICK x \in T : \A y \in T : x <= y
  BY <1>1, Least
<1>3. x \in 1 .. K /\ at[x] # F(x)
  BY <1>2 DEF T
<1>4. x # 1
  BY <1>0, <1>3 DEF Strung, Follows
<1>5. x - 1 \in 1 .. K /\ x - 1 \notin T
  BY <1>2, <1>3, <1>4
<1>6. at[x - 1] = F(x - 1)
  BY <1>5 DEF T
<1> QED
  BY <1>0, <1>3, <1>4, <1>5, <1>6 DEF Strung, Follows

(* A walk meets the nodes that are strung, in their order.                 *)
LEMMA WalkMeets ==
  ASSUME NEW s \in Seq(Nodes), NEW n, NEW link,
         Len(s) <= Cardinality(Nodes),
         Strung(s, n, link)
  PROVE  WalkFrom(n, link) = s
<1>0. PICK K : K = Cardinality(Nodes) + 1
  OBVIOUS
<1>1. /\ K \in Nat /\ Len(s) < K /\ Len(s) \in Nat
      /\ \A i \in 1 .. Len(s) : s[i] \in Nodes /\ s[i] # Null
  BY <1>0, NodesCounted, ProcessTableAssumption
<1>2. PICK at :
        /\ WalkFrom(n, link) = SubSeq(at, 1, Cardinality({i \in DOMAIN at : at[i] # Null}))
        /\ DOMAIN at = 1 .. K
        /\ Follows(at, n, link, K)
  <2> DEFINE at[i \in 1 .. Cardinality(Nodes) + 1] ==
               IF i = 1 THEN n ELSE IF at[i - 1] = Null THEN Null ELSE link[at[i - 1]]
             F == [i \in 1 .. K |-> IF i <= Len(s) THEN s[i] ELSE Null]
             Step(f) == [i \in 1 .. K |->
               IF i = 1 THEN n ELSE IF f[i - 1] = Null THEN Null ELSE link[f[i - 1]]]
  <2>1. WalkFrom(n, link) = SubSeq(at, 1, Cardinality({i \in DOMAIN at : at[i] # Null}))
    BY DEF WalkFrom
  <2>2. F = Step(F)
    BY <1>1 DEF Strung
  <2>3. \E f : f = Step(f)
    BY <2>2
  <2>4. at = Step(at)
    BY <1>0, <2>3
  <2> HIDE DEF at
  <2>5. DOMAIN at = 1 .. K
    BY <2>4
  <2>6. Follows(at, n, link, K)
    BY <2>4 DEF Follows
  <2> QED
    BY <2>1, <2>5, <2>6, Zenon
<1>3. \A i \in 1 .. K : at[i] = IF i <= Len(s) THEN s[i] ELSE Null
  BY <1>1, <1>2, StepsMeet
<1>4. \A i \in 1 .. K : at[i] # Null <=> i \in 1 .. Len(s)
  BY <1>1, <1>3
<1>5. 1 .. Len(s) \subseteq 1 .. K
  BY <1>1
<1>6. {i \in DOMAIN at : at[i] # Null} = 1 .. Len(s)
  BY <1>2, <1>4, <1>5, Zenon
<1>7. Cardinality(1 .. Len(s)) = Len(s)
  BY <1>1, Counted
<1>8. \A i \in 1 .. Len(s) : at[i] = s[i]
  BY <1>1, <1>3, <1>5
<1>9. /\ SubSeq(at, 1, Len(s)) \in Seq(Nodes)
      /\ Len(SubSeq(at, 1, Len(s))) = Len(s)
      /\ \A i \in 1 .. Len(s) : SubSeq(at, 1, Len(s))[i] = s[i]
  <2>1. \A i \in 1 .. Len(s) : at[i] \in Nodes
    BY <1>1, <1>8
  <2> QED
    BY <1>1, <1>8, <2>1, SubSeqProperties
<1> QED
  BY <1>2, <1>6, <1>7, <1>9, SeqEqual

StrungBack(s, n, link) ==
  /\ n = IF Len(s) = 0 THEN Null ELSE s[Len(s)]
  /\ \A i \in 1 .. Len(s) : link[s[i]] = IF i = 1 THEN Null ELSE s[i - 1]

(* No node is twice in the lists.                                          *)
Apart(s) ==
  \A l, m \in Lists : \A i \in 1 .. Len(s[l]), j \in 1 .. Len(s[m]) :
    s[l][i] = s[m][j] => l = m /\ i = j

(* The nodes in use are those of the lists.                                *)
Accounts(N, s) ==
  /\ \A l \in Lists : \A i \in 1 .. Len(s[l]) : s[l][i] \in N
  /\ \A n \in N : \E l \in Lists : \E i \in 1 .. Len(s[l]) : n = s[l][i]

(* The heap holds the lists of nodes s.                                    *)
Shaped(h, s) ==
  /\ h \in Heaps(Nat)
  /\ s \in [Lists -> Seq(Nodes)]
  /\ \A l \in Lists : /\ h.count[l] = Len(s[l])
                      /\ Strung(s[l], h.first[l], h.next)
                      /\ StrungBack(s[l], h.last[l], h.previous)
  /\ Apart(s)
  /\ Accounts(h.used, s)

(* g is h with a node n that holds p at the end of the list l.             *)
Added(g, h, l, p, n) ==
  /\ n \in Nodes /\ n \notin h.used
  /\ g \in Heaps(Nat)
  /\ g.used = h.used \cup {n}
  /\ g.data = [h.data EXCEPT ![n] = p]
  /\ g.previous = [h.previous EXCEPT ![n] = h.last[l]]
  /\ g.next = [m \in Nodes |-> IF m = n THEN Null
                              ELSE IF h.count[l] # 0 /\ m = h.last[l] THEN n
                              ELSE h.next[m]]
  /\ g.first = IF h.count[l] = 0 THEN [h.first EXCEPT ![l] = n] ELSE h.first
  /\ g.last = [h.last EXCEPT ![l] = n]
  /\ g.count = [h.count EXCEPT ![l] = @ + 1]

(* add_elem() takes a node that is free, if there is one.                  *)
LEMMA AddElemAdds ==
  ASSUME NEW h \in Heaps(Nat), NEW l \in Lists, NEW p \in Pids, h.used # Nodes
  PROVE  Added(AddElem(h, l, p), h, l, p, Fresh(h))
<1> DEFINE n == Fresh(h)
           g == AddElem(h, l, p)
<1>1. n \in Nodes /\ n \notin h.used
  BY DEF Fresh, Heaps
<1> HIDE DEF n
<1>2. /\ g.used = h.used \cup {n}
      /\ g.data = [h.data EXCEPT ![n] = p]
      /\ g.previous = [h.previous EXCEPT ![n] = h.last[l]]
      /\ g.next = [m \in Nodes |-> IF m = n THEN Null
                              ELSE IF h.count[l] # 0 /\ m = h.last[l] THEN n
                              ELSE h.next[m]]
      /\ g.first = IF h.count[l] = 0 THEN [h.first EXCEPT ![l] = n] ELSE h.first
      /\ g.last = [h.last EXCEPT ![l] = n]
      /\ g.count = [h.count EXCEPT ![l] = @ + 1]
  BY DEF AddElem, n, Heaps
<1>3. g \in Heaps(Nat)
  <2>1. g.used \in SUBSET Nodes /\ g.data \in [Nodes -> Pids \cup {Null}]
    BY <1>1, <1>2 DEF Heaps
  <2>2. g.previous \in [Nodes -> Links]
    <3>1. h.last[l] \in Links /\ h.previous \in [Nodes -> Links]
      BY DEF Heaps
    <3> QED
      BY <1>2, <3>1
  <2>3. g.next \in [Nodes -> Links]
    <3>1. n \in Links /\ Null \in Links /\ h.next \in [Nodes -> Links]
      BY <1>1 DEF Heaps, Links
    <3>2. \A m \in Nodes : g.next[m] \in Links
      BY <1>2, <3>1
    <3> QED
      BY <1>2, <3>2
  <2>4. g.first \in [Lists -> Links] /\ g.last \in [Lists -> Links]
    BY <1>1, <1>2 DEF Heaps, Links
  <2>5. g.count \in [Lists -> Nat]
    BY <1>1, <1>2 DEF Heaps
  <2>6. g = [used |-> g.used, data |-> g.data, previous |-> g.previous, next |-> g.next,
             first |-> g.first, last |-> g.last, count |-> g.count]
    BY DEF AddElem
  <2> HIDE DEF g
  <2> QED
    BY <2>1, <2>2, <2>3, <2>4, <2>5, <2>6 DEF Heaps
<1> HIDE DEF g
<1>5. Added(g, h, l, p, n)
  BY <1>1, <1>2, <1>3 DEF Added
<1> QED
  BY <1>5 DEF g, n

(* t is s with n at the end of the list l.                                 *)
Longer(t, s, l, n) ==
  /\ t \in [Lists -> Seq(Nodes)]
  /\ \A m \in Lists \ {l} : t[m] = s[m]
  /\ Len(t[l]) = Len(s[l]) + 1
  /\ \A i \in 1 .. Len(s[l]) : t[l][i] = s[l][i]
  /\ t[l][Len(s[l]) + 1] = n

(* Appending to one list leaves the others as they are.                    *)
LEMMA AppendIsLonger ==
  ASSUME NEW s \in [Lists -> Seq(Nodes)], NEW l \in Lists, NEW n \in Nodes
  PROVE  Longer([s EXCEPT ![l] = Append(@, n)], s, l, n)
<1>1. s[l] \in Seq(Nodes)
  OBVIOUS
<1>2. Append(s[l], n) \in Seq(Nodes)
  BY <1>1, AppendProperties
<1>3. [s EXCEPT ![l] = Append(@, n)][l] = Append(s[l], n)
  OBVIOUS
<1> QED
  BY <1>1, <1>2, <1>3, AppendProperties DEF Longer

(* What stands where in the longer lists.                                  *)
LEMMA LongerHas ==
  ASSUME NEW s \in [Lists -> Seq(Nodes)], NEW l \in Lists, NEW n, NEW t, Longer(t, s, l, n),
         NEW m \in Lists, NEW i \in 1 .. Len(t[m])
  PROVE  \/ m = l /\ i = Len(s[l]) + 1 /\ t[m][i] = n
         \/ i \in 1 .. Len(s[m]) /\ t[m][i] = s[m][i]
BY DEF Longer

(* A node that was not in use makes no node occur twice.                   *)
LEMMA LongerApart ==
  ASSUME NEW s \in [Lists -> Seq(Nodes)], NEW l \in Lists, NEW n, NEW t, Longer(t, s, l, n),
         NEW N, Accounts(N, s), Apart(s), n \notin N
  PROVE  Apart(t) /\ Accounts(N \cup {n}, t)
<1>1. \A m \in Lists : \A i \in 1 .. Len(s[m]) : s[m][i] \in N /\ s[m][i] # n
  BY DEF Accounts
<1>2. Apart(t)
  <2>1. \A m \in Lists : \A i \in 1 .. Len(t[m]) :
          \/ m = l /\ i = Len(s[l]) + 1 /\ t[m][i] = n
          \/ i \in 1 .. Len(s[m]) /\ t[m][i] = s[m][i]
    BY LongerHas
  <2> SUFFICES ASSUME NEW k \in Lists, NEW m \in Lists,
                      NEW i \in 1 .. Len(t[k]), NEW j \in 1 .. Len(t[m]), t[k][i] = t[m][j]
               PROVE  k = m /\ i = j
    BY DEF Apart
  <2>2. \/ k = l /\ i = Len(s[l]) + 1 /\ t[k][i] = n
        \/ i \in 1 .. Len(s[k]) /\ t[k][i] = s[k][i]
    BY <2>1
  <2>3. \/ m = l /\ j = Len(s[l]) + 1 /\ t[m][j] = n
        \/ j \in 1 .. Len(s[m]) /\ t[m][j] = s[m][j]
    BY <2>1
  <2> QED
    BY <1>1, <2>2, <2>3 DEF Apart
<1>3. \A m \in Lists : \A i \in 1 .. Len(t[m]) : t[m][i] \in N \cup {n}
  BY <1>1, LongerHas
<1>4. \A m \in Lists : \A i \in 1 .. Len(s[m]) : i \in 1 .. Len(t[m]) /\ t[m][i] = s[m][i]
  <2> TAKE m \in Lists
  <2>1. CASE m = l
    BY <2>1 DEF Longer
  <2>2. CASE m # l
    BY <2>2 DEF Longer
  <2> QED
    BY <2>1, <2>2
<1>5. Len(s[l]) + 1 \in 1 .. Len(t[l]) /\ t[l][Len(s[l]) + 1] = n
  BY DEF Longer
<1>6. \A x \in N : \E m \in Lists : \E i \in 1 .. Len(t[m]) : x = t[m][i]
  <2> TAKE x \in N
  <2>1. PICK m \in Lists : \E i \in 1 .. Len(s[m]) : x = s[m][i]
    BY DEF Accounts
  <2>2. PICK i \in 1 .. Len(s[m]) : x = s[m][i]
    BY <2>1
  <2>3. i \in 1 .. Len(t[m]) /\ x = t[m][i]
    BY <1>4, <2>2
  <2> QED
    BY <2>3
<1>7. Accounts(N \cup {n}, t)
  BY <1>3, <1>5, <1>6 DEF Accounts
<1> QED
  BY <1>2, <1>7

(* After add_elem() the node is the last of its list, from both ends.      *)
LEMMA AddedShaped ==
  ASSUME NEW h, NEW s, Shaped(h, s), NEW l \in Lists, NEW p \in Pids,
         NEW g, NEW n, Added(g, h, l, p, n)
  PROVE  Shaped(g, [s EXCEPT ![l] = Append(@, n)])
<1> DEFINE t == [s EXCEPT ![l] = Append(@, n)]
<1>1. h \in Heaps(Nat) /\ s \in [Lists -> Seq(Nodes)] /\ Apart(s) /\ Accounts(h.used, s)
  BY DEF Shaped
<1>2. n \in Nodes /\ n \notin h.used /\ g \in Heaps(Nat) /\ g.used = h.used \cup {n}
  BY DEF Added
<1>3. Longer(t, s, l, n)
  BY <1>1, <1>2, AppendIsLonger
<1> HIDE DEF t
<1>4. t \in [Lists -> Seq(Nodes)]
  BY <1>3 DEF Longer
<1>5. Apart(t) /\ Accounts(g.used, t)
  <2>1. Apart(t) /\ Accounts(h.used \cup {n}, t)
    BY <1>1, <1>2, <1>3, LongerApart
  <2> QED
    BY <1>2, <2>1
<1>6. \A m \in Lists : \A i \in 1 .. Len(s[m]) : s[m][i] \in Nodes /\ s[m][i] # n
  BY <1>1, <1>2 DEF Accounts
<1>7. h.count[l] = Len(s[l]) /\ Len(s[l]) \in Nat
  BY <1>1 DEF Shaped
<1>8. h.count[l] # 0 => Len(s[l]) \in 1 .. Len(s[l]) /\ h.last[l] = s[l][Len(s[l])]
  BY <1>1, <1>7 DEF Shaped, StrungBack
<1>9. \A m \in Lists : \A i \in 1 .. Len(s[m]) :
        /\ g.previous[s[m][i]] = h.previous[s[m][i]]
        /\ m # l \/ i # Len(s[l]) => g.next[s[m][i]] = h.next[s[m][i]]
        /\ m = l /\ i = Len(s[l]) => g.next[s[m][i]] = n
  <2> TAKE m \in Lists
  <2> TAKE i \in 1 .. Len(s[m])
  <2>1. s[m][i] \in Nodes /\ s[m][i] # n
    BY <1>6
  <2>2. g.previous[s[m][i]] = h.previous[s[m][i]]
    BY <1>1, <2>1 DEF Added, Heaps
  <2>3. g.next[s[m][i]] = IF h.count[l] # 0 /\ s[m][i] = h.last[l] THEN n ELSE h.next[s[m][i]]
    BY <2>1 DEF Added
  <2>4. m # l \/ i # Len(s[l]) => ~(h.count[l] # 0 /\ s[m][i] = h.last[l])
    BY <1>1, <1>8 DEF Apart
  <2> QED
    BY <1>7, <1>8, <2>2, <2>3, <2>4
<1>10. ASSUME NEW m \in Lists, m # l
       PROVE  /\ g.count[m] = Len(t[m])
              /\ Strung(t[m], g.first[m], g.next)
              /\ StrungBack(t[m], g.last[m], g.previous)
  <2>1. t[m] = s[m]
    BY <1>3, <1>10 DEF Longer
  <2>2. /\ g.count[m] = h.count[m] /\ g.first[m] = h.first[m] /\ g.last[m] = h.last[m]
    BY <1>1, <1>10 DEF Added, Heaps
  <2>3. \A i \in 1 .. Len(s[m]) : /\ g.next[s[m][i]] = h.next[s[m][i]]
                                  /\ g.previous[s[m][i]] = h.previous[s[m][i]]
    BY <1>9, <1>10
  <2> QED
    BY <2>1, <2>2, <2>3 DEF Shaped, Strung, StrungBack
<1>11. /\ g.count[l] = Len(t[l])
       /\ Strung(t[l], g.first[l], g.next)
       /\ StrungBack(t[l], g.last[l], g.previous)
  <2>1. /\ Len(t[l]) = Len(s[l]) + 1
        /\ \A i \in 1 .. Len(s[l]) : t[l][i] = s[l][i]
        /\ t[l][Len(s[l]) + 1] = n
    BY <1>3 DEF Longer
  <2>2. /\ g.count[l] = h.count[l] + 1
        /\ g.first[l] = IF h.count[l] = 0 THEN n ELSE h.first[l]
        /\ g.last[l] = n
        /\ g.next[n] = Null
        /\ g.previous[n] = h.last[l]
    BY <1>1, <1>2 DEF Added, Heaps
  <2>3. Strung(s[l], h.first[l], h.next) /\ StrungBack(s[l], h.last[l], h.previous)
    BY DEF Shaped
  <2>4. PICK k \in Nat : k = Len(s[l])
    BY <1>7
  <2>5. /\ \A i \in 1 .. k + 1 : i \in 1 .. k \/ i = k + 1
        /\ \A i \in 1 .. k : i # k => i + 1 \in 1 .. k
        /\ \A i \in 1 .. k : i # 1 => i - 1 \in 1 .. k
        /\ k # 0 => 1 \in 1 .. k /\ k \in 1 .. k
        /\ k + 1 # 0
    OBVIOUS
  <2>6. Strung(t[l], g.first[l], g.next)
    <3>1. g.first[l] = t[l][1]
      BY <1>7, <2>1, <2>2, <2>3, <2>4, <2>5 DEF Strung
    <3>2. ASSUME NEW i \in 1 .. k
          PROVE  g.next[t[l][i]] = t[l][i + 1]
      <4>1. t[l][i] = s[l][i]
        BY <2>1, <2>4
      <4>2. CASE i = k
        BY <1>9, <2>1, <2>4, <4>1, <4>2
      <4>3. CASE i # k
        <5>1. t[l][i + 1] = s[l][i + 1] /\ h.next[s[l][i]] = s[l][i + 1]
          BY <2>1, <2>3, <2>4, <2>5, <4>3 DEF Strung
        <5> QED
          BY <1>9, <2>4, <4>1, <4>3, <5>1
      <4> QED
        BY <4>2, <4>3
    <3> QED
      BY <2>1, <2>2, <2>4, <2>5, <3>1, <3>2 DEF Strung
  <2>7. StrungBack(t[l], g.last[l], g.previous)
    <3>1. g.previous[n] = IF k + 1 = 1 THEN Null ELSE t[l][k]
      BY <2>1, <2>2, <2>3, <2>4, <2>5 DEF StrungBack
    <3>2. ASSUME NEW i \in 1 .. k
          PROVE  g.previous[t[l][i]] = IF i = 1 THEN Null ELSE t[l][i - 1]
      <4>1. t[l][i] = s[l][i] /\ g.previous[s[l][i]] = h.previous[s[l][i]]
        BY <1>9, <2>1, <2>4
      <4>2. h.previous[s[l][i]] = IF i = 1 THEN Null ELSE s[l][i - 1]
        BY <2>3, <2>4 DEF StrungBack
      <4>3. i # 1 => t[l][i - 1] = s[l][i - 1]
        BY <2>1, <2>4, <2>5
      <4> QED
        BY <4>1, <4>2, <4>3
    <3>3. (k + 1) - 1 = k
      OBVIOUS
    <3> QED
      BY <2>1, <2>2, <2>4, <2>5, <3>1, <3>2, <3>3 DEF StrungBack
  <2> QED
    BY <1>7, <2>1, <2>2, <2>6, <2>7
<1> QED
  BY <1>2, <1>4, <1>5, <1>10, <1>11 DEF Shaped, t

(* g is h without the node n of the list l.                                *)
Deleted(g, h, l, n) ==
  /\ g \in Heaps(Nat)
  /\ g.used = h.used \ {n}
  /\ \A m \in Nodes : g.data[m] = IF m = n THEN Null ELSE h.data[m]
  /\ \A m \in Nodes \ {n} :
       /\ g.next[m] = IF m = h.previous[n] THEN h.next[n] ELSE h.next[m]
       /\ g.previous[m] = IF m = h.next[n] THEN h.previous[n] ELSE h.previous[m]
  /\ g.first = [h.first EXCEPT ![l] = IF n = @ THEN h.next[n] ELSE @]
  /\ g.last = [h.last EXCEPT ![l] = IF n = @ THEN h.previous[n] ELSE @]
  /\ g.count = [h.count EXCEPT ![l] = @ - 1]

(* free() touches the nodes that it frees and no list head.                *)
LEMMA FreedFields ==
  ASSUME NEW h \in Heaps(Nat), NEW N
  PROVE  /\ Freed(h, N) \in Heaps(Nat)
         /\ Freed(h, N).used = h.used \ N
         /\ Freed(h, N).data = [n \in Nodes |-> IF n \in N THEN Null ELSE h.data[n]]
         /\ Freed(h, N).previous = [n \in Nodes |-> IF n \in N THEN Null ELSE h.previous[n]]
         /\ Freed(h, N).next = [n \in Nodes |-> IF n \in N THEN Null ELSE h.next[n]]
         /\ Freed(h, N).first = h.first
         /\ Freed(h, N).last = h.last
         /\ Freed(h, N).count = h.count
BY DEF Freed, Heaps, Links

(* Unlinking a node moves pointers only.                                   *)
LEMMA UnlinkFields ==
  ASSUME NEW h \in Heaps(Nat), NEW l \in Lists, NEW n \in Nodes
  PROVE  /\ Unlink(h, l, n) \in Heaps(Nat)
         /\ Unlink(h, l, n).used = h.used
         /\ Unlink(h, l, n).data = h.data
         /\ Unlink(h, l, n).count = h.count
<1>1. CASE h.count[l] = 1
  BY <1>1 DEF Unlink, Heaps, Links
<1>2. CASE h.count[l] # 1 /\ n = h.first[l]
  BY <1>2 DEF Unlink, Heaps, Links
<1>3. CASE h.count[l] # 1 /\ n # h.first[l] /\ n = h.last[l]
  BY <1>3 DEF Unlink, Heaps, Links
<1>4. CASE h.count[l] # 1 /\ n # h.first[l] /\ n # h.last[l]
  BY <1>4 DEF Unlink, Heaps, Links
<1> QED
  BY <1>1, <1>2, <1>3, <1>4

(* What stands beside the i-th node of the list l.                         *)
LEMMA Neighbours ==
  ASSUME NEW h, NEW s, Shaped(h, s), NEW l \in Lists, NEW i \in 1 .. Len(s[l])
  PROVE  LET n == s[l][i]
         IN  /\ Len(s[l]) \in Nat /\ h.count[l] = Len(s[l]) /\ n \in Nodes
             /\ h.next[n] = IF i = Len(s[l]) THEN Null ELSE s[l][i + 1]
             /\ h.previous[n] = IF i = 1 THEN Null ELSE s[l][i - 1]
             /\ n = h.first[l] <=> i = 1
             /\ n = h.last[l] <=> i = Len(s[l])
             /\ i # Len(s[l]) => h.next[n] \in Nodes \ {n}
             /\ i # 1 => h.previous[n] \in Nodes \ {n}
<1>1. s[l] \in Seq(Nodes) /\ Len(s[l]) \in Nat
  BY DEF Shaped
<1>2. \A j \in 1 .. Len(s[l]) : s[l][j] \in Nodes /\ (s[l][j] = s[l][i] => j = i)
  BY <1>1 DEF Shaped, Apart
<1>3. Strung(s[l], h.first[l], h.next) /\ StrungBack(s[l], h.last[l], h.previous)
      /\ h.count[l] = Len(s[l])
  BY DEF Shaped
<1>4. h.first[l] = s[l][1] /\ h.last[l] = s[l][Len(s[l])]
  BY <1>1, <1>3 DEF Strung, StrungBack
<1>5. 1 \in 1 .. Len(s[l]) /\ Len(s[l]) \in 1 .. Len(s[l])
  BY <1>1
<1>6. i # Len(s[l]) => i + 1 \in 1 .. Len(s[l]) /\ i + 1 # i
  BY <1>1
<1>7. i # 1 => i - 1 \in 1 .. Len(s[l]) /\ i - 1 # i
  BY <1>1
<1>8. /\ h.next[s[l][i]] = IF i = Len(s[l]) THEN Null ELSE s[l][i + 1]
      /\ h.previous[s[l][i]] = IF i = 1 THEN Null ELSE s[l][i - 1]
  BY <1>3 DEF Strung, StrungBack
<1>9. /\ s[l][i] = h.first[l] <=> i = 1
      /\ s[l][i] = h.last[l] <=> i = Len(s[l])
  BY <1>2, <1>4, <1>5
<1>10. /\ i # Len(s[l]) => h.next[s[l][i]] \in Nodes \ {s[l][i]}
       /\ i # 1 => h.previous[s[l][i]] \in Nodes \ {s[l][i]}
  BY <1>2, <1>6, <1>7, <1>8
<1> QED
  BY <1>1, <1>2, <1>3, <1>8, <1>9, <1>10

(* Whichever of its four branches delete_node() takes, it makes the        *)
(* neighbours of the node point past it.                                   *)
LEMMA DeleteNodeDeletes ==
  ASSUME NEW h, NEW s, Shaped(h, s), NEW l \in Lists, NEW i \in 1 .. Len(s[l])
  PROVE  Deleted(DeleteNode(h, l, s[l][i]), h, l, s[l][i])
<1>0. PICK n : n = s[l][i]
  OBVIOUS
<1>1. /\ Len(s[l]) \in Nat /\ h.count[l] = Len(s[l]) /\ n \in Nodes
      /\ h.next[n] = IF i = Len(s[l]) THEN Null ELSE s[l][i + 1]
      /\ h.previous[n] = IF i = 1 THEN Null ELSE s[l][i - 1]
      /\ n = h.first[l] <=> i = 1
      /\ n = h.last[l] <=> i = Len(s[l])
      /\ i # Len(s[l]) => h.next[n] \in Nodes \ {n}
      /\ i # 1 => h.previous[n] \in Nodes \ {n}
  BY <1>0, Neighbours
<1>2. PICK u : u = Unlink(h, l, n)
  OBVIOUS
<1>3. h \in Heaps(Nat) /\ Null \notin Nodes
  BY ProcessTableAssumption DEF Shaped
<1>4. u \in Heaps(Nat) /\ u.used = h.used /\ u.data = h.data /\ u.count = h.count
  BY <1>1, <1>2, <1>3, UnlinkFields
<1>5. /\ \A m \in Nodes \ {n} :
           /\ u.next[m] = IF m = h.previous[n] THEN h.next[n] ELSE h.next[m]
           /\ u.previous[m] = IF m = h.next[n] THEN h.previous[n] ELSE h.previous[m]
      /\ u.first = [h.first EXCEPT ![l] = IF n = @ THEN h.next[n] ELSE @]
      /\ u.last = [h.last EXCEPT ![l] = IF n = @ THEN h.previous[n] ELSE @]
  <2>1. CASE h.count[l] = 1
    BY <1>1, <1>2, <1>3, <2>1 DEF Unlink, Heaps
  <2>2. CASE h.count[l] # 1 /\ n = h.first[l]
    BY <1>1, <1>2, <1>3, <2>2 DEF Unlink, Heaps
  <2>3. CASE h.count[l] # 1 /\ n # h.first[l] /\ n = h.last[l]
    BY <1>1, <1>2, <1>3, <2>3 DEF Unlink, Heaps
  <2>4. CASE h.count[l] # 1 /\ n # h.first[l] /\ n # h.last[l]
    BY <1>1, <1>2, <1>3, <2>4 DEF Unlink, Heaps
  <2> QED
    BY <2>1, <2>2, <2>3, <2>4
<1>6. PICK v : v = [u EXCEPT !.count[l] = @ - 1]
  OBVIOUS
<1>7. /\ v \in Heaps(Nat) /\ v.used = h.used /\ v.data = h.data
      /\ v.next = u.next /\ v.previous = u.previous
      /\ v.first = u.first /\ v.last = u.last
      /\ v.count = [h.count EXCEPT ![l] = @ - 1]
  <2>1. h.count[l] - 1 \in Nat
    BY <1>1
  <2> QED
    BY <1>4, <1>6, <2>1 DEF Heaps
<1>8. DeleteNode(h, l, n) = Freed(v, {n})
  BY <1>2, <1>6 DEF DeleteNode
<1>9. Deleted(Freed(v, {n}), h, l, n)
  <2>1. PICK g : g = Freed(v, {n})
    OBVIOUS
  <2>2. /\ g \in Heaps(Nat)
        /\ g.used = v.used \ {n}
        /\ g.data = [m \in Nodes |-> IF m \in {n} THEN Null ELSE v.data[m]]
        /\ g.previous = [m \in Nodes |-> IF m \in {n} THEN Null ELSE v.previous[m]]
        /\ g.next = [m \in Nodes |-> IF m \in {n} THEN Null ELSE v.next[m]]
        /\ g.first = v.first /\ g.last = v.last /\ g.count = v.count
    BY <1>7, <2>1, FreedFields
  <2>3. Deleted(g, h, l, n)
    BY <1>5, <1>7, <2>2 DEF Deleted
  <2> QED
    BY <2>1, <2>3
<1> QED
  BY <1>0, <1>8, <1>9

(* t is s without the i-th node of the list l.                             *)
Shorter(t, s, l, i) ==
  /\ t \in [Lists -> Seq(Nodes)]
  /\ \A m \in Lists \ {l} : t[m] = s[m]
  /\ Len(t[l]) = Len(s[l]) - 1
  /\ \A j \in 1 .. Len(s[l]) - 1 : t[l][j] = IF j < i THEN s[l][j] ELSE s[l][j + 1]

(* The sequence without its i-th element.                                  *)
LEMMA RemoveAtRemoves ==
  ASSUME NEW S, NEW s \in Seq(S), NEW i \in 1 .. Len(s)
  PROVE  /\ RemoveAt(s, i) \in Seq(S)
         /\ Len(RemoveAt(s, i)) = Len(s) - 1
         /\ \A j \in 1 .. Len(s) - 1 : RemoveAt(s, i)[j] = IF j < i THEN s[j] ELSE s[j + 1]
<1> DEFINE a == SubSeq(s, 1, i - 1)
           b == SubSeq(s, i + 1, Len(s))
<1>1. Len(s) \in Nat /\ \A j \in 1 .. Len(s) : s[j] \in S
  OBVIOUS
<1>2. /\ a \in Seq(S) /\ Len(a) = i - 1
      /\ \A j \in 1 .. i - 1 : a[j] = s[j]
  <2>1. 1 \in Int /\ i - 1 \in Int /\ \A j \in 1 .. i - 1 : s[j] \in S
    BY <1>1
  <2> QED
    BY <2>1, SubSeqProperties
<1>3. /\ b \in Seq(S) /\ Len(b) = Len(s) - i
      /\ \A j \in 1 .. Len(s) - i : b[j] = s[j + i]
  <2>1. i + 1 \in Int /\ Len(s) \in Int /\ \A j \in i + 1 .. Len(s) : s[j] \in S
    BY <1>1
  <2> QED
    BY <1>1, <2>1, SubSeqProperties
<1> HIDE DEF a, b
<1>4. /\ a \o b \in Seq(S)
      /\ Len(a \o b) = Len(a) + Len(b)
      /\ \A j \in 1 .. Len(a) + Len(b) : (a \o b)[j] = IF j <= Len(a) THEN a[j] ELSE b[j - Len(a)]
  BY <1>2, <1>3, ConcatProperties
<1>5. \A j \in 1 .. Len(s) - 1 : (a \o b)[j] = IF j < i THEN s[j] ELSE s[j + 1]
  <2> TAKE j \in 1 .. Len(s) - 1
  <2>1. CASE j < i
    BY <1>1, <1>2, <1>3, <1>4, <2>1
  <2>2. CASE ~(j < i)
    <3>1. j - (i - 1) \in 1 .. Len(s) - i /\ (j - (i - 1)) + i = j + 1
      BY <1>1, <2>2
    <3>2. b[j - (i - 1)] = s[j + 1]
      BY <1>3, <3>1
    <3> QED
      BY <1>1, <1>2, <1>3, <1>4, <2>2, <3>1, <3>2
  <2> QED
    BY <2>1, <2>2
<1>6. RemoveAt(s, i) = a \o b
  BY DEF RemoveAt, a, b
<1> QED
  BY <1>1, <1>2, <1>3, <1>4, <1>5, <1>6

(* Removing from one list leaves the others as they are.                   *)
LEMMA RemoveIsShorter ==
  ASSUME NEW s \in [Lists -> Seq(Nodes)], NEW l \in Lists, NEW i \in 1 .. Len(s[l])
  PROVE  Shorter([s EXCEPT ![l] = RemoveAt(@, i)], s, l, i)
<1>1. s[l] \in Seq(Nodes)
  OBVIOUS
<1>2. /\ RemoveAt(s[l], i) \in Seq(Nodes)
      /\ Len(RemoveAt(s[l], i)) = Len(s[l]) - 1
      /\ \A j \in 1 .. Len(s[l]) - 1 :
           RemoveAt(s[l], i)[j] = IF j < i THEN s[l][j] ELSE s[l][j + 1]
  BY <1>1, RemoveAtRemoves
<1>3. [s EXCEPT ![l] = RemoveAt(@, i)][l] = RemoveAt(s[l], i)
  OBVIOUS
<1> QED
  BY <1>1, <1>2, <1>3 DEF Shorter

(* Where the nodes of t were in s, and those of s are in t.                *)
LEMMA ShorterHas ==
  ASSUME NEW s \in [Lists -> Seq(Nodes)], NEW l \in Lists, NEW i \in 1 .. Len(s[l]),
         NEW t, Shorter(t, s, l, i)
  PROVE  /\ \A j \in 1 .. Len(t[l]) :
              IF j < i THEN j \in 1 .. Len(s[l]) /\ t[l][j] = s[l][j]
                       ELSE j + 1 \in 1 .. Len(s[l]) /\ t[l][j] = s[l][j + 1]
         /\ \A j \in 1 .. Len(s[l]) :
              /\ j < i => j \in 1 .. Len(t[l]) /\ s[l][j] = t[l][j]
              /\ j > i => j - 1 \in 1 .. Len(t[l]) /\ s[l][j] = t[l][j - 1]
BY DEF Shorter

(* What stands in the shorter lists stood in the longer ones.              *)
LEMMA ShorterApart ==
  ASSUME NEW s \in [Lists -> Seq(Nodes)], NEW l \in Lists, NEW i \in 1 .. Len(s[l]),
         NEW t, Shorter(t, s, l, i), NEW N, Accounts(N, s), Apart(s)
  PROVE  Apart(t) /\ Accounts(N \ {s[l][i]}, t)
<1>1. \A m \in Lists : \A j \in 1 .. Len(t[m]) :
        \E k \in 1 .. Len(s[m]) : /\ t[m][j] = s[m][k]
                                  /\ k = IF m = l /\ j >= i THEN j + 1 ELSE j
  <2> TAKE m \in Lists
  <2>1. CASE m = l
    BY <2>1, ShorterHas
  <2>2. CASE m # l
    BY <2>2 DEF Shorter
  <2> QED
    BY <2>1, <2>2
<1>2. Apart(t)
  <2> SUFFICES ASSUME NEW k \in Lists, NEW m \in Lists,
                      NEW a \in 1 .. Len(t[k]), NEW b \in 1 .. Len(t[m]), t[k][a] = t[m][b]
               PROVE  k = m /\ a = b
    BY DEF Apart
  <2>1. PICK x \in 1 .. Len(s[k]) : /\ t[k][a] = s[k][x]
                                    /\ x = IF k = l /\ a >= i THEN a + 1 ELSE a
    BY <1>1
  <2>2. PICK y \in 1 .. Len(s[m]) : /\ t[m][b] = s[m][y]
                                    /\ y = IF m = l /\ b >= i THEN b + 1 ELSE b
    BY <1>1
  <2>3. s[k][x] = s[m][y]
    BY <2>1, <2>2
  <2>4. k = m /\ x = y
    BY <2>3 DEF Apart
  <2> QED
    BY <2>1, <2>2, <2>4
<1>3. \A m \in Lists : \A j \in 1 .. Len(t[m]) : t[m][j] \in N \ {s[l][i]}
  <2> TAKE m \in Lists
  <2> TAKE j \in 1 .. Len(t[m])
  <2>1. PICK k \in 1 .. Len(s[m]) : /\ t[m][j] = s[m][k]
                                    /\ k = IF m = l /\ j >= i THEN j + 1 ELSE j
    BY <1>1
  <2>2. s[m][k] \in N
    BY DEF Accounts
  <2>3. m # l \/ k # i
    BY <2>1
  <2> QED
    BY <2>1, <2>2, <2>3 DEF Apart
<1>4. \A x \in N \ {s[l][i]} : \E m \in Lists : \E j \in 1 .. Len(t[m]) : x = t[m][j]
  <2> TAKE x \in N \ {s[l][i]}
  <2>1. PICK m \in Lists : \E j \in 1 .. Len(s[m]) : x = s[m][j]
    BY DEF Accounts
  <2>2. PICK j \in 1 .. Len(s[m]) : x = s[m][j]
    BY <2>1
  <2>3. CASE m # l
    BY <2>2, <2>3 DEF Shorter
  <2>4. CASE m = l
    <3>1. j # i
      BY <2>2, <2>4
    <3>2. CASE j < i
      BY <2>2, <2>4, <3>2, ShorterHas
    <3>3. CASE j > i
      BY <2>2, <2>4, <3>3, ShorterHas
    <3> QED
      BY <3>1, <3>2, <3>3
  <2> QED
    BY <2>3, <2>4
<1> QED
  BY <1>2, <1>3, <1>4 DEF Accounts

(* After delete_node() the list is what it was without the node, from both *)
(* ends.                                                                   *)
LEMMA DeletedShaped ==
  ASSUME NEW h, NEW s, Shaped(h, s), NEW l \in Lists, NEW i \in 1 .. Len(s[l]),
         NEW g, Deleted(g, h, l, s[l][i])
  PROVE  Shaped(g, [s EXCEPT ![l] = RemoveAt(@, i)])
<1> DEFINE t == [s EXCEPT ![l] = RemoveAt(@, i)]
<1>0. PICK n : n = s[l][i]
  OBVIOUS
<1>1. h \in Heaps(Nat) /\ s \in [Lists -> Seq(Nodes)] /\ Apart(s) /\ Accounts(h.used, s)
  BY DEF Shaped
<1>2. Shorter(t, s, l, i)
  BY <1>1, RemoveIsShorter
<1> HIDE DEF t
<1>3. t \in [Lists -> Seq(Nodes)]
  BY <1>2 DEF Shorter
<1>4. Apart(t) /\ Accounts(g.used, t)
  <2>1. g.used = h.used \ {s[l][i]}
    BY DEF Deleted
  <2>2. Apart(t) /\ Accounts(h.used \ {s[l][i]}, t)
    BY <1>1, <1>2, ShorterApart
  <2> QED
    BY <2>1, <2>2
<1>5. /\ Len(s[l]) \in Nat /\ h.count[l] = Len(s[l]) /\ n \in Nodes
      /\ h.next[n] = IF i = Len(s[l]) THEN Null ELSE s[l][i + 1]
      /\ h.previous[n] = IF i = 1 THEN Null ELSE s[l][i - 1]
      /\ n = h.first[l] <=> i = 1
      /\ n = h.last[l] <=> i = Len(s[l])
  BY <1>0, Neighbours
<1>6. /\ \A m \in Nodes \ {n} :
           /\ g.next[m] = IF m = h.previous[n] THEN h.next[n] ELSE h.next[m]
           /\ g.previous[m] = IF m = h.next[n] THEN h.previous[n] ELSE h.previous[m]
      /\ g.first = [h.first EXCEPT ![l] = IF n = @ THEN h.next[n] ELSE @]
      /\ g.last = [h.last EXCEPT ![l] = IF n = @ THEN h.previous[n] ELSE @]
      /\ g.count = [h.count EXCEPT ![l] = @ - 1]
      /\ g \in Heaps(Nat)
  BY <1>0 DEF Deleted
<1>7. Null \notin Nodes
  BY ProcessTableAssumption
<1>8. \A m \in Lists : \A j \in 1 .. Len(s[m]) :
        (m # l \/ j # i) =>
          /\ s[m][j] \in Nodes \ {n}
          /\ s[m][j] = h.previous[n] <=> m = l /\ j = i - 1
          /\ s[m][j] = h.next[n] <=> m = l /\ j = i + 1
  <2> TAKE m \in Lists
  <2> TAKE j \in 1 .. Len(s[m])
  <2> HAVE m # l \/ j # i
  <2>1. s[m][j] \in Nodes \ {n}
    BY <1>0, <1>1 DEF Apart
  <2>2. s[m][j] = h.previous[n] <=> m = l /\ j = i - 1
    <3>1. CASE i = 1
      BY <1>5, <1>7, <2>1, <3>1
    <3>2. CASE i # 1
      <4>1. i - 1 \in 1 .. Len(s[l])
        BY <1>5, <3>2
      <4> QED
        BY <1>1, <1>5, <3>2, <4>1 DEF Apart
    <3> QED
      BY <3>1, <3>2
  <2>3. s[m][j] = h.next[n] <=> m = l /\ j = i + 1
    <3>1. CASE i = Len(s[l])
      BY <1>5, <1>7, <2>1, <3>1
    <3>2. CASE i # Len(s[l])
      <4>1. i + 1 \in 1 .. Len(s[l])
        BY <1>5, <3>2
      <4> QED
        BY <1>1, <1>5, <3>2, <4>1 DEF Apart
    <3> QED
      BY <3>1, <3>2
  <2> QED
    BY <2>1, <2>2, <2>3
<1>9. ASSUME NEW m \in Lists, m # l
      PROVE  /\ g.count[m] = Len(t[m])
             /\ Strung(t[m], g.first[m], g.next)
             /\ StrungBack(t[m], g.last[m], g.previous)
  <2>1. t[m] = s[m]
    BY <1>2, <1>9 DEF Shorter
  <2>2. /\ g.count[m] = h.count[m] /\ g.first[m] = h.first[m] /\ g.last[m] = h.last[m]
    BY <1>1, <1>6, <1>9 DEF Heaps
  <2>3. \A j \in 1 .. Len(s[m]) : /\ g.next[s[m][j]] = h.next[s[m][j]]
                                  /\ g.previous[s[m][j]] = h.previous[s[m][j]]
    BY <1>6, <1>8, <1>9
  <2> QED
    BY <2>1, <2>2, <2>3 DEF Shaped, Strung, StrungBack
<1>10. /\ g.count[l] = Len(t[l])
       /\ Strung(t[l], g.first[l], g.next)
       /\ StrungBack(t[l], g.last[l], g.previous)
  <2>1. /\ Len(t[l]) = Len(s[l]) - 1
        /\ \A j \in 1 .. Len(s[l]) - 1 : t[l][j] = IF j < i THEN s[l][j] ELSE s[l][j + 1]
    BY <1>2 DEF Shorter
  <2>2. /\ g.count[l] = h.count[l] - 1
        /\ g.first[l] = IF i = 1 THEN h.next[n] ELSE h.first[l]
        /\ g.last[l] = IF i = Len(s[l]) THEN h.previous[n] ELSE h.last[l]
    BY <1>1, <1>5, <1>6 DEF Heaps
  <2>3. Strung(s[l], h.first[l], h.next) /\ StrungBack(s[l], h.last[l], h.previous)
    BY DEF Shaped
  <2>4. \A j \in 1 .. Len(s[l]) : j # i =>
          /\ g.next[s[l][j]] = IF j = i - 1 THEN h.next[n] ELSE h.next[s[l][j]]
          /\ g.previous[s[l][j]] = IF j = i + 1 THEN h.previous[n] ELSE h.previous[s[l][j]]
    BY <1>6, <1>8
  <2>5. Strung(t[l], g.first[l], g.next)
    <3>1. g.first[l] = IF Len(t[l]) = 0 THEN Null ELSE t[l][1]
      <4>1. CASE i = 1
        <5>1. CASE Len(s[l]) = 1
          BY <1>5, <2>1, <2>2, <4>1, <5>1
        <5>2. CASE Len(s[l]) # 1
          <6>1. PICK k \in Nat : k = Len(s[l])
            BY <1>5
          <6>2. k # 1 /\ 1 <= k
            BY <5>2, <6>1
          <6>3. 1 \in 1 .. k - 1 /\ k - 1 # 0
            BY <6>2
          <6>4. ~(1 < i) /\ i # k
            BY <4>1, <6>2
          <6>5. t[l][1] = s[l][2]
            BY <2>1, <6>1, <6>3, <6>4
          <6> QED
            BY <1>5, <2>1, <2>2, <4>1, <6>1, <6>3, <6>5
        <5> QED
          BY <5>1, <5>2
      <4>2. CASE i # 1
        <5>1. 1 \in 1 .. Len(s[l]) - 1 /\ t[l][1] = s[l][1]
          BY <1>5, <2>1, <4>2
        <5> QED
          BY <1>5, <2>1, <2>2, <2>3, <4>2, <5>1 DEF Strung
      <4> QED
        BY <4>1, <4>2
    <3>2. ASSUME NEW j \in 1 .. Len(t[l])
          PROVE  g.next[t[l][j]] = IF j = Len(t[l]) THEN Null ELSE t[l][j + 1]
      <4>1. PICK k \in Nat : k = Len(s[l]) /\ Len(t[l]) = k - 1 /\ i \in 1 .. k /\ j \in 1 .. k - 1
        BY <1>5, <2>1
      <4>2. CASE j < i - 1
        <5>1. /\ j \in 1 .. k /\ j < i /\ j # i /\ j # i - 1 /\ j # k /\ j # k - 1
              /\ j + 1 \in 1 .. k - 1 /\ j + 1 < i
          BY <4>1, <4>2
        <5>2. t[l][j] = s[l][j] /\ t[l][j + 1] = s[l][j + 1]
          BY <2>1, <4>1, <5>1
        <5>3. g.next[s[l][j]] = h.next[s[l][j]]
          BY <2>4, <4>1, <5>1
        <5> QED
          BY <2>3, <4>1, <5>1, <5>2, <5>3 DEF Strung
      <4>3. CASE j = i - 1
        <5>1. /\ j \in 1 .. k /\ j < i /\ j # i /\ (j = k - 1 <=> i = k) /\ j + 1 = i
              /\ (i # k => i \in 1 .. k - 1) /\ ~(i < i)
          BY <4>1, <4>3
        <5>2. t[l][j] = s[l][j] /\ (i # k => t[l][i] = s[l][i + 1])
          BY <2>1, <4>1, <5>1
        <5>3. g.next[s[l][j]] = h.next[n]
          BY <2>4, <4>1, <4>3, <5>1
        <5> QED
          BY <1>5, <4>1, <5>1, <5>2, <5>3
      <4>4. CASE j > i - 1
        <5>1. /\ ~(j < i) /\ j + 1 \in 1 .. k /\ j + 1 # i /\ j + 1 # i - 1
              /\ (j = k - 1 <=> j + 1 = k)
              /\ (j # k - 1 => j + 1 \in 1 .. k - 1 /\ ~(j + 1 < i))
          BY <4>1, <4>4
        <5>2. /\ t[l][j] = s[l][j + 1]
              /\ j # k - 1 => t[l][j + 1] = s[l][(j + 1) + 1]
          BY <2>1, <4>1, <5>1
        <5>3. g.next[s[l][j + 1]] = h.next[s[l][j + 1]]
          BY <2>4, <4>1, <5>1
        <5>4. h.next[s[l][j + 1]] = IF j + 1 = k THEN Null ELSE s[l][(j + 1) + 1]
          BY <2>3, <4>1, <5>1 DEF Strung
        <5> QED
          BY <4>1, <5>1, <5>2, <5>3, <5>4
      <4> QED
        BY <4>1, <4>2, <4>3, <4>4
    <3> QED
      BY <3>1, <3>2 DEF Strung
  <2>6. StrungBack(t[l], g.last[l], g.previous)
    <3>1. g.last[l] = IF Len(t[l]) = 0 THEN Null ELSE t[l][Len(t[l])]
      <4>1. CASE i = Len(s[l])
        <5>1. CASE i = 1
          BY <1>5, <2>1, <2>2, <4>1, <5>1
        <5>2. CASE i # 1
          <6>1. i - 1 \in 1 .. Len(s[l]) - 1 /\ i - 1 < i /\ i - 1 # 0
            BY <1>5, <5>2
          <6>2. t[l][i - 1] = s[l][i - 1]
            BY <2>1, <6>1
          <6>3. Len(t[l]) = i - 1
            BY <2>1, <4>1
          <6> QED
            BY <1>5, <2>2, <4>1, <5>2, <6>1, <6>2, <6>3
        <5> QED
          BY <5>1, <5>2
      <4>2. CASE i # Len(s[l])
        <5>1. /\ Len(t[l]) \in 1 .. Len(s[l]) - 1 /\ ~(Len(t[l]) < i) /\ Len(t[l]) + 1 = Len(s[l])
              /\ Len(t[l]) # 0 /\ Len(s[l]) # 0
          BY <1>5, <2>1, <4>2
        <5>2. t[l][Len(t[l])] = s[l][Len(s[l])]
          BY <2>1, <5>1
        <5> QED
          BY <2>2, <2>3, <4>2, <5>1, <5>2 DEF StrungBack
      <4> QED
        BY <4>1, <4>2
    <3>2. ASSUME NEW j \in 1 .. Len(t[l])
          PROVE  g.previous[t[l][j]] = IF j = 1 THEN Null ELSE t[l][j - 1]
      <4>1. PICK k \in Nat : k = Len(s[l]) /\ Len(t[l]) = k - 1 /\ i \in 1 .. k /\ j \in 1 .. k - 1
        BY <1>5, <2>1
      <4>2. CASE j < i
        <5>1. /\ j \in 1 .. k /\ j # i /\ j # i + 1
              /\ (j # 1 => j - 1 \in 1 .. k - 1 /\ j - 1 < i)
          BY <4>1, <4>2
        <5>2. t[l][j] = s[l][j] /\ (j # 1 => t[l][j - 1] = s[l][j - 1])
          BY <2>1, <4>1, <4>2, <5>1
        <5>3. g.previous[s[l][j]] = h.previous[s[l][j]]
          BY <2>4, <4>1, <5>1
        <5> QED
          BY <2>3, <4>1, <5>1, <5>2, <5>3 DEF StrungBack
      <4>3. CASE j = i
        <5>1. /\ ~(j < i) /\ j + 1 \in 1 .. k /\ j + 1 # i /\ j + 1 = i + 1
              /\ (j # 1 => j - 1 \in 1 .. k - 1 /\ j - 1 < i)
          BY <4>1, <4>3
        <5>2. t[l][j] = s[l][j + 1] /\ (j # 1 => t[l][j - 1] = s[l][j - 1])
          BY <2>1, <4>1, <5>1
        <5>3. g.previous[s[l][j + 1]] = h.previous[n]
          BY <2>4, <4>1, <5>1
        <5> QED
          BY <1>5, <4>1, <4>3, <5>2, <5>3
      <4>4. CASE j > i
        <5>1. /\ ~(j < i) /\ j + 1 \in 1 .. k /\ j + 1 # i /\ j + 1 # i + 1 /\ j + 1 # 1 /\ j # 1
              /\ (j + 1) - 1 = j /\ j - 1 \in 1 .. k - 1 /\ ~(j - 1 < i) /\ (j - 1) + 1 = j
          <6>1. j \in Int /\ i \in Int /\ 1 <= i /\ i < j /\ j <= k - 1
            BY <4>1, <4>4
          <6>2. j + 1 \in 1 .. k /\ j - 1 \in 1 .. k - 1
            BY <6>1
          <6> QED
            BY <6>1, <6>2
        <5>2. t[l][j] = s[l][j + 1] /\ t[l][j - 1] = s[l][j]
          BY <2>1, <4>1, <5>1
        <5>3. g.previous[s[l][j + 1]] = h.previous[s[l][j + 1]]
          BY <2>4, <4>1, <5>1
        <5>4. h.previous[s[l][j + 1]] = s[l][j]
          BY <2>3, <4>1, <5>1 DEF StrungBack
        <5> QED
          BY <5>1, <5>2, <5>3, <5>4
      <4> QED
        BY <4>1, <4>2, <4>3, <4>4
    <3> QED
      BY <3>1, <3>2 DEF StrungBack
  <2> QED
    BY <1>5, <2>1, <2>2, <2>5, <2>6
<1> QED
  BY <1>3, <1>4, <1>6, <1>9, <1>10 DEF Shaped, t

(* Emptying the lists of L.                                                *)
Cleared(g, h, s, L) ==
  /\ g \in Heaps(Nat)
  /\ g.used = h.used \ UNION {Range(s[l]) : l \in L}
  /\ \A n \in g.used : /\ g.data[n] = h.data[n]
                       /\ g.next[n] = h.next[n] /\ g.previous[n] = h.previous[n]
  /\ g.first = [l \in Lists |-> IF l \in L THEN Null ELSE h.first[l]]
  /\ g.last = [l \in Lists |-> IF l \in L THEN Null ELSE h.last[l]]
  /\ g.count = [l \in Lists |-> IF l \in L THEN 0 ELSE h.count[l]]

(* The lists are no longer than there are nodes.                           *)
LEMMA ListsFit ==
  ASSUME NEW h, NEW s, Shaped(h, s), NEW l \in Lists
  PROVE  Len(s[l]) \in Nat /\ Len(s[l]) <= Cardinality(Nodes)
<1>1. s[l] \in Seq(Nodes) /\ Len(s[l]) \in Nat /\ s[l] \in [1 .. Len(s[l]) -> Nodes]
  BY DEF Shaped
<1>2. \A i, j \in 1 .. Len(s[l]) : s[l][i] = s[l][j] => i = j
  BY DEF Shaped, Apart
<1>3. s[l] \in Injection(1 .. Len(s[l]), Nodes)
  BY <1>1, <1>2, Fun_IsInj
<1>4. Cardinality(1 .. Len(s[l])) <= Cardinality(Nodes)
  BY <1>3, FS_Injection, ProcessTableAssumption
<1> QED
  BY <1>1, <1>4, Counted

(* The walks along a list meet its nodes.                                  *)
LEMMA WalksRead ==
  ASSUME NEW h, NEW s, Shaped(h, s), NEW l \in Lists
  PROVE  Forward(h, l) = s[l] /\ Backward(h, l) = Reverse(s[l])
<1>1. s[l] \in Seq(Nodes) /\ Len(s[l]) \in Nat /\ Len(s[l]) <= Cardinality(Nodes)
  BY ListsFit DEF Shaped
<1>2. Strung(s[l], h.first[l], h.next) /\ StrungBack(s[l], h.last[l], h.previous)
  BY DEF Shaped
<1>3. /\ Reverse(s[l]) \in Seq(Nodes) /\ Len(Reverse(s[l])) = Len(s[l])
      /\ \A i \in 1 .. Len(s[l]) : Reverse(s[l])[i] = s[l][Len(s[l]) - i + 1]
  BY <1>1 DEF Reverse
<1>4. Strung(Reverse(s[l]), h.last[l], h.previous)
  <2>1. h.last[l] = IF Len(s[l]) = 0 THEN Null ELSE Reverse(s[l])[1]
    BY <1>1, <1>2, <1>3 DEF StrungBack
  <2>2. ASSUME NEW i \in 1 .. Len(s[l])
        PROVE  h.previous[Reverse(s[l])[i]] =
                 IF i = Len(s[l]) THEN Null ELSE Reverse(s[l])[i + 1]
    <3>1. Len(s[l]) - i + 1 \in 1 .. Len(s[l]) /\ (Len(s[l]) - i + 1 = 1 <=> i = Len(s[l]))
      BY <1>1
    <3>2. i # Len(s[l]) => /\ i + 1 \in 1 .. Len(s[l])
                           /\ Len(s[l]) - (i + 1) + 1 = (Len(s[l]) - i + 1) - 1
      BY <1>1
    <3> QED
      BY <1>2, <1>3, <3>1, <3>2 DEF StrungBack
  <2> QED
    BY <1>3, <2>1, <2>2 DEF Strung
<1> QED
  BY <1>1, <1>2, <1>3, <1>4, WalkMeets DEF Forward, Backward

(* clear_list() frees the nodes that the walk along the list meets.        *)
LEMMA ClearListsClears ==
  ASSUME NEW h, NEW s, Shaped(h, s), NEW L \in SUBSET Lists
  PROVE  Cleared(ClearLists(h, L), h, s, L)
<1>1. h \in Heaps(Nat)
  BY DEF Shaped
<1>2. PICK N : N = UNION {Range(s[l]) : l \in L}
  OBVIOUS
<1>3. UNION {Range(Forward(h, l)) : l \in L} = N
  BY <1>2, WalksRead
<1>4. PICK f : f = Freed(h, N)
  OBVIOUS
<1>5. /\ f \in Heaps(Nat)
      /\ f.used = h.used \ N
      /\ f.data = [n \in Nodes |-> IF n \in N THEN Null ELSE h.data[n]]
      /\ f.previous = [n \in Nodes |-> IF n \in N THEN Null ELSE h.previous[n]]
      /\ f.next = [n \in Nodes |-> IF n \in N THEN Null ELSE h.next[n]]
      /\ f.first = h.first /\ f.last = h.last /\ f.count = h.count
  BY <1>1, <1>4, FreedFields
<1>6. PICK g : g = [f EXCEPT
                      !.first = [l \in Lists |-> IF l \in L THEN Null ELSE @[l]],
                      !.last = [l \in Lists |-> IF l \in L THEN Null ELSE @[l]],
                      !.count = [l \in Lists |-> IF l \in L THEN 0 ELSE @[l]]]
  OBVIOUS
<1>7. g = ClearLists(h, L)
  BY <1>3, <1>4, <1>6 DEF ClearLists
<1>8. /\ g \in Heaps(Nat)
      /\ g.used = f.used /\ g.data = f.data /\ g.next = f.next /\ g.previous = f.previous
      /\ g.first = [l \in Lists |-> IF l \in L THEN Null ELSE f.first[l]]
      /\ g.last = [l \in Lists |-> IF l \in L THEN Null ELSE f.last[l]]
      /\ g.count = [l \in Lists |-> IF l \in L THEN 0 ELSE f.count[l]]
  BY <1>5, <1>6 DEF Heaps, Links
<1>9. Cleared(g, h, s, L)
  BY <1>1, <1>2, <1>5, <1>8 DEF Cleared, Heaps
<1> QED
  BY <1>7, <1>9

(* After clear_list() the lists are empty, the others are as they were.    *)
LEMMA ClearedShaped ==
  ASSUME NEW h, NEW s, Shaped(h, s), NEW L \in SUBSET Lists, NEW g, Cleared(g, h, s, L)
  PROVE  Shaped(g, [l \in Lists |-> IF l \in L THEN <<>> ELSE s[l]])
<1> DEFINE t == [l \in Lists |-> IF l \in L THEN <<>> ELSE s[l]]
<1>1. s \in [Lists -> Seq(Nodes)] /\ Apart(s) /\ Accounts(h.used, s) /\ h \in Heaps(Nat)
  BY DEF Shaped
<1>2. t \in [Lists -> Seq(Nodes)]
  BY <1>1
<1>3. /\ \A l \in L : l \in Lists /\ t[l] = <<>> /\ Len(t[l]) = 0
      /\ \A l \in Lists : l \notin L => t[l] = s[l]
  OBVIOUS
<1> HIDE DEF t
<1>4. g \in Heaps(Nat) /\ g.used = h.used \ UNION {Range(s[l]) : l \in L}
  BY DEF Cleared
<1>5. \A l \in Lists : \A i \in 1 .. Len(t[l]) :
        l \notin L /\ t[l] = s[l] /\ i \in 1 .. Len(s[l])
  BY <1>3
<1>6. Apart(t)
  BY <1>1, <1>5 DEF Apart
<1>7. \A l \in Lists : Range(s[l]) = {s[l][i] : i \in 1 .. Len(s[l])}
  BY <1>1, RangeEquality
<1>8. Accounts(g.used, t)
  <2>1. ASSUME NEW l \in Lists, NEW i \in 1 .. Len(t[l])
        PROVE  t[l][i] \in g.used
    <3>1. l \notin L /\ t[l] = s[l] /\ i \in 1 .. Len(s[l])
      BY <1>5
    <3>2. s[l][i] \in h.used
      BY <1>1, <3>1 DEF Accounts
    <3>3. \A m \in L : s[l][i] \notin Range(s[m])
      BY <1>1, <1>7, <3>1 DEF Apart
    <3> QED
      BY <1>4, <3>1, <3>2, <3>3
  <2>2. ASSUME NEW n \in g.used
        PROVE  \E l \in Lists : \E i \in 1 .. Len(t[l]) : n = t[l][i]
    <3>1. PICK l \in Lists : \E i \in 1 .. Len(s[l]) : n = s[l][i]
      BY <1>1, <1>4 DEF Accounts
    <3>2. PICK i \in 1 .. Len(s[l]) : n = s[l][i]
      BY <3>1
    <3>3. n \in Range(s[l])
      BY <1>7, <3>2
    <3>4. l \notin L
      BY <1>4, <3>3
    <3> QED
      BY <1>3, <3>2, <3>4
  <2> QED
    BY <2>1, <2>2 DEF Accounts
<1>9. ASSUME NEW l \in Lists
      PROVE  /\ g.count[l] = Len(t[l])
             /\ Strung(t[l], g.first[l], g.next)
             /\ StrungBack(t[l], g.last[l], g.previous)
  <2>1. CASE l \in L
    <3>1. g.count[l] = 0 /\ g.first[l] = Null /\ g.last[l] = Null
      BY <2>1 DEF Cleared
    <3> QED
      BY <1>3, <2>1, <3>1 DEF Strung, StrungBack
  <2>2. CASE l \notin L
    <3>1. g.count[l] = h.count[l] /\ g.first[l] = h.first[l] /\ g.last[l] = h.last[l]
      BY <2>2 DEF Cleared
    <3>2. t[l] = s[l]
      BY <1>3, <2>2
    <3>3. \A i \in 1 .. Len(s[l]) : s[l][i] \in g.used
      BY <1>8, <3>2 DEF Accounts
    <3>4. \A i \in 1 .. Len(s[l]) : /\ g.next[s[l][i]] = h.next[s[l][i]]
                                    /\ g.previous[s[l][i]] = h.previous[s[l][i]]
      BY <3>3 DEF Cleared
    <3> QED
      BY <3>1, <3>2, <3>4 DEF Shaped, Strung, StrungBack
  <2> QED
    BY <2>1, <2>2
<1>10. Shaped(g, t)
  BY <1>2, <1>4, <1>6, <1>8, <1>9 DEF Shaped
<1> QED
  BY <1>10 DEF t

------------------------------------------------------------------------------
(* The lists as they are read.                                             *)
Chains(h) == [l \in Lists |-> Forward(h, l)]

(* A heap that consists of its lists, each node of which holds a pid.      *)
WellMade(h) == Shaped(h, Chains(h)) /\ \A n \in h.used : h.data[n] \in Pids

(* The shape of a heap is what walks along its lists read.                 *)
LEMMA ShapeIsRead ==
  ASSUME NEW h, NEW s, Shaped(h, s)
  PROVE  s = Chains(h)
BY WalksRead DEF Chains, Shaped

(* What is read from a list: nodes in use, and a pid in each.              *)
LEMMA WellMadeReads ==
  ASSUME NEW h, WellMade(h), NEW l \in Lists
  PROVE  /\ Forward(h, l) \in Seq(Nodes) /\ Chains(h)[l] = Forward(h, l)
         /\ Len(Forward(h, l)) \in Nat /\ h.count[l] = Len(Forward(h, l))
         /\ Contents(h, l) \in Seq(Pids)
         /\ Len(Contents(h, l)) = Len(Forward(h, l))
         /\ DOMAIN Contents(h, l) = 1 .. Len(Forward(h, l))
         /\ \A i \in 1 .. Len(Forward(h, l)) :
              /\ Forward(h, l)[i] \in h.used
              /\ Contents(h, l)[i] = h.data[Forward(h, l)[i]]
              /\ Contents(h, l)[i] \in Pids
<1>1. /\ Forward(h, l) \in Seq(Nodes) /\ Chains(h)[l] = Forward(h, l)
      /\ h.count[l] = Len(Forward(h, l))
  BY DEF WellMade, Shaped, Chains
<1>2. Len(Forward(h, l)) \in Nat /\ DOMAIN Forward(h, l) = 1 .. Len(Forward(h, l))
  BY <1>1
<1>3. \A i \in 1 .. Len(Forward(h, l)) : Forward(h, l)[i] \in h.used
  BY <1>1 DEF WellMade, Shaped, Accounts
<1>4. \A i \in 1 .. Len(Forward(h, l)) : h.data[Forward(h, l)[i]] \in Pids
  BY <1>3 DEF WellMade
<1>5. Contents(h, l) = [i \in 1 .. Len(Forward(h, l)) |-> h.data[Forward(h, l)[i]]]
  BY <1>2 DEF Contents
<1>6. Contents(h, l) \in [1 .. Len(Forward(h, l)) -> Pids]
  BY <1>4, <1>5
<1>7. Contents(h, l) \in Seq(Pids) /\ Len(Contents(h, l)) = Len(Forward(h, l))
  BY <1>2, <1>6
<1> QED
  BY <1>1, <1>2, <1>3, <1>4, <1>5, <1>7

(* What the operations do to the pids that are read.                       *)
Entered(g, h, l, p) ==
  \A m \in Lists :
    Contents(g, m) = IF m = l THEN Append(Contents(h, m), p) ELSE Contents(h, m)

Removed(g, h, l, i) ==
  \A m \in Lists :
    /\ Forward(g, m) = IF m = l THEN RemoveAt(Forward(h, m), i) ELSE Forward(h, m)
    /\ Contents(g, m) = IF m = l THEN RemoveAt(Contents(h, m), i) ELSE Contents(h, m)

Emptied(g, h, L) ==
  \A m \in Lists : Contents(g, m) = IF m \in L THEN <<>> ELSE Contents(h, m)

(* add_elem() puts the pid at the end of its list.                         *)
LEMMA AddElemEnters ==
  ASSUME NEW h, WellMade(h), NEW l \in Lists, NEW p \in Pids, h.used # Nodes
  PROVE  WellMade(AddElem(h, l, p)) /\ Entered(AddElem(h, l, p), h, l, p)
<1>0. PICK g, n : g = AddElem(h, l, p) /\ n = Fresh(h)
  OBVIOUS
<1>1. Shaped(h, Chains(h)) /\ h \in Heaps(Nat)
  BY DEF WellMade, Shaped
<1>2. Added(g, h, l, p, n)
  BY <1>0, <1>1, AddElemAdds
<1>3. PICK t : t = [Chains(h) EXCEPT ![l] = Append(@, n)]
  OBVIOUS
<1>4. Shaped(g, t)
  BY <1>1, <1>2, <1>3, AddedShaped
<1>5. Chains(g) = t
  BY <1>4, ShapeIsRead
<1>6. n \in Nodes /\ n \notin h.used /\ g.used = h.used \cup {n}
      /\ g.data[n] = p /\ \A m \in h.used : g.data[m] = h.data[m]
  BY <1>1, <1>2 DEF Added, Heaps
<1>7. WellMade(g)
  BY <1>4, <1>5, <1>6 DEF WellMade
<1>8. Longer(t, Chains(h), l, n)
  BY <1>1, <1>3, <1>6, AppendIsLonger DEF Shaped
<1>9. Entered(g, h, l, p)
  <2> SUFFICES ASSUME NEW m \in Lists
               PROVE  Contents(g, m) = IF m = l THEN Append(Contents(h, m), p) ELSE Contents(h, m)
    BY DEF Entered
  <2>1. /\ Forward(g, m) = t[m] /\ Chains(h)[m] = Forward(h, m)
        /\ Len(Forward(h, m)) \in Nat
        /\ Contents(g, m) \in Seq(Pids) /\ Len(Contents(g, m)) = Len(t[m])
        /\ \A i \in 1 .. Len(t[m]) : Contents(g, m)[i] = g.data[t[m][i]]
        /\ Contents(h, m) \in Seq(Pids) /\ Len(Contents(h, m)) = Len(Forward(h, m))
        /\ \A i \in 1 .. Len(Forward(h, m)) : /\ Forward(h, m)[i] \in h.used
                                              /\ Contents(h, m)[i] = h.data[Forward(h, m)[i]]
    BY <1>5, <1>7, WellMadeReads
  <2>2. CASE m # l
    <3>1. t[m] = Forward(h, m)
      BY <1>8, <2>1, <2>2 DEF Longer
    <3>2. \A i \in 1 .. Len(t[m]) : Contents(g, m)[i] = Contents(h, m)[i]
      BY <1>6, <2>1, <3>1
    <3> QED
      BY <2>1, <2>2, <3>1, <3>2, SeqEqual
  <2>3. CASE m = l
    <3>1. /\ Len(t[m]) = Len(Forward(h, m)) + 1
          /\ \A i \in 1 .. Len(Forward(h, m)) : t[m][i] = Forward(h, m)[i]
          /\ t[m][Len(Forward(h, m)) + 1] = n
      BY <1>8, <2>1, <2>3 DEF Longer
    <3>2. PICK c : c = Append(Contents(h, m), p)
      OBVIOUS
    <3>3. /\ c \in Seq(Pids) /\ Len(c) = Len(t[m])
          /\ \A i \in 1 .. Len(Forward(h, m)) : c[i] = Contents(h, m)[i]
          /\ c[Len(Forward(h, m)) + 1] = p
      BY <2>1, <3>1, <3>2, AppendProperties
    <3>4. ASSUME NEW i \in 1 .. Len(t[m])
          PROVE  Contents(g, m)[i] = c[i]
      <4>1. i \in 1 .. Len(Forward(h, m)) \/ i = Len(Forward(h, m)) + 1
        BY <2>1, <3>1
      <4> QED
        BY <1>6, <2>1, <3>1, <3>3, <4>1
    <3> QED
      BY <2>1, <2>3, <3>2, <3>3, <3>4, SeqEqual
  <2> QED
    BY <2>2, <2>3
<1> QED
  BY <1>0, <1>7, <1>9

(* delete_node() takes the pid of its node out of the list.                *)
LEMMA DeleteNodeRemoves ==
  ASSUME NEW h, WellMade(h), NEW l \in Lists, NEW i \in 1 .. Len(Forward(h, l))
  PROVE  /\ WellMade(DeleteNode(h, l, Forward(h, l)[i]))
         /\ Removed(DeleteNode(h, l, Forward(h, l)[i]), h, l, i)
<1>0. PICK g, n : g = DeleteNode(h, l, n) /\ n = Forward(h, l)[i]
  OBVIOUS
<1>1. Shaped(h, Chains(h)) /\ h \in Heaps(Nat) /\ Chains(h)[l] = Forward(h, l)
  BY DEF WellMade, Shaped, Chains
<1>2. Deleted(g, h, l, n)
  BY <1>0, <1>1, DeleteNodeDeletes
<1>3. PICK t : t = [Chains(h) EXCEPT ![l] = RemoveAt(@, i)]
  OBVIOUS
<1>4. Shaped(g, t)
  BY <1>0, <1>1, <1>2, <1>3, DeletedShaped
<1>5. Chains(g) = t
  BY <1>4, ShapeIsRead
<1>6. g.used = h.used \ {n} /\ \A m \in g.used : g.data[m] = h.data[m]
  BY <1>1, <1>2 DEF Deleted, Heaps
<1>7. WellMade(g)
  BY <1>4, <1>5, <1>6 DEF WellMade
<1>8. Removed(g, h, l, i)
  <2> SUFFICES ASSUME NEW m \in Lists
               PROVE  /\ Forward(g, m) =
                           IF m = l THEN RemoveAt(Forward(h, m), i) ELSE Forward(h, m)
                      /\ Contents(g, m) =
                           IF m = l THEN RemoveAt(Contents(h, m), i) ELSE Contents(h, m)
    BY DEF Removed
  <2>1. /\ Forward(g, m) = t[m] /\ Chains(h)[m] = Forward(h, m)
        /\ Forward(h, m) \in Seq(Nodes)
        /\ Len(Forward(h, m)) \in Nat
        /\ Contents(g, m) \in Seq(Pids) /\ Len(Contents(g, m)) = Len(t[m])
        /\ \A j \in 1 .. Len(t[m]) : /\ t[m][j] \in g.used
                                     /\ Contents(g, m)[j] = g.data[t[m][j]]
        /\ Contents(h, m) \in Seq(Pids) /\ Len(Contents(h, m)) = Len(Forward(h, m))
        /\ \A j \in 1 .. Len(Forward(h, m)) : Contents(h, m)[j] = h.data[Forward(h, m)[j]]
    BY <1>5, <1>7, WellMadeReads
  <2>2. Chains(h) \in [Lists -> Seq(Nodes)]
    BY <1>1 DEF Shaped
  <2>3. CASE m # l
    <3>1. t[m] = Forward(h, m)
      BY <1>3, <2>1, <2>2, <2>3
    <3>2. \A j \in 1 .. Len(t[m]) : Contents(g, m)[j] = Contents(h, m)[j]
      BY <1>6, <2>1, <3>1
    <3> QED
      BY <2>1, <2>3, <3>1, <3>2, SeqEqual
  <2>4. CASE m = l
    <3>1. t[m] = RemoveAt(Forward(h, m), i)
      BY <1>3, <2>1, <2>2, <2>4
    <3>2. PICK u, c : /\ u = RemoveAt(Forward(h, m), i) /\ c = RemoveAt(Contents(h, m), i)
                      /\ i \in 1 .. Len(Forward(h, m)) /\ i \in 1 .. Len(Contents(h, m))
      BY <2>1, <2>4
    <3>3. /\ Len(u) = Len(Forward(h, m)) - 1
          /\ \A j \in 1 .. Len(Forward(h, m)) - 1 :
               u[j] = IF j < i THEN Forward(h, m)[j] ELSE Forward(h, m)[j + 1]
      BY <2>1, <3>2, RemoveAtRemoves
    <3>4. /\ c \in Seq(Pids) /\ Len(c) = Len(Contents(h, m)) - 1
          /\ \A j \in 1 .. Len(Contents(h, m)) - 1 :
               c[j] = IF j < i THEN Contents(h, m)[j] ELSE Contents(h, m)[j + 1]
      <4>1. Contents(h, m) \in Seq(Pids)
        BY <2>1
      <4> QED
        BY <3>2, <4>1, RemoveAtRemoves
    <3>5. ASSUME NEW j \in 1 .. Len(t[m])
          PROVE  Contents(g, m)[j] = c[j]
      <4>1. Contents(g, m)[j] = h.data[t[m][j]]
        BY <1>6, <2>1
      <4>2. t[m] = u /\ Len(t[m]) = Len(Forward(h, m)) - 1
        BY <3>1, <3>2, <3>3
      <4>3. PICK k \in Nat : k = Len(Forward(h, m)) /\ k = Len(Contents(h, m)) /\ Len(t[m]) = k - 1
        BY <2>1, <4>2
      <4>4. j \in 1 .. k - 1 /\ j \in 1 .. k /\ j + 1 \in 1 .. k
        BY <4>3
      <4>5. /\ t[m][j] = IF j < i THEN Forward(h, m)[j] ELSE Forward(h, m)[j + 1]
            /\ c[j] = IF j < i THEN Contents(h, m)[j] ELSE Contents(h, m)[j + 1]
        BY <3>3, <3>4, <4>2, <4>3, <4>4
      <4>6. /\ Contents(h, m)[j] = h.data[Forward(h, m)[j]]
            /\ Contents(h, m)[j + 1] = h.data[Forward(h, m)[j + 1]]
        BY <2>1, <4>3, <4>4
      <4> QED
        BY <4>1, <4>5, <4>6
    <3>6. Len(c) = Len(t[m])
      BY <2>1, <3>1, <3>2, <3>3, <3>4
    <3>7. Contents(g, m) = c
      BY <2>1, <3>4, <3>5, <3>6, SeqEqual
    <3> QED
      BY <2>1, <2>4, <3>1, <3>2, <3>7
  <2> QED
    BY <2>3, <2>4
<1> QED
  BY <1>0, <1>7, <1>8

(* clear_list() empties the lists that it is called for.                   *)
LEMMA ClearListsEmpties ==
  ASSUME NEW h, WellMade(h), NEW L \in SUBSET Lists
  PROVE  WellMade(ClearLists(h, L)) /\ Emptied(ClearLists(h, L), h, L)
<1>0. PICK g : g = ClearLists(h, L)
  OBVIOUS
<1>1. Shaped(h, Chains(h)) /\ h \in Heaps(Nat)
  BY DEF WellMade, Shaped
<1>2. Cleared(g, h, Chains(h), L)
  BY <1>0, <1>1, ClearListsClears
<1>3. PICK t : t = [l \in Lists |-> IF l \in L THEN <<>> ELSE Chains(h)[l]]
  OBVIOUS
<1>4. Shaped(g, t)
  BY <1>1, <1>2, <1>3, ClearedShaped
<1>5. Chains(g) = t
  BY <1>4, ShapeIsRead
<1>6. g.used \subseteq h.used /\ \A m \in g.used : g.data[m] = h.data[m]
  BY <1>2 DEF Cleared
<1>7. WellMade(g)
  BY <1>4, <1>5, <1>6 DEF WellMade
<1>8. Emptied(g, h, L)
  <2> SUFFICES ASSUME NEW m \in Lists
               PROVE  Contents(g, m) = IF m \in L THEN <<>> ELSE Contents(h, m)
    BY DEF Emptied
  <2>1. /\ Forward(g, m) = t[m] /\ Chains(h)[m] = Forward(h, m)
        /\ Contents(g, m) \in Seq(Pids) /\ Len(Contents(g, m)) = Len(t[m])
        /\ \A i \in 1 .. Len(t[m]) : t[m][i] \in g.used /\ Contents(g, m)[i] = g.data[t[m][i]]
        /\ Contents(h, m) \in Seq(Pids) /\ Len(Contents(h, m)) = Len(Forward(h, m))
        /\ \A i \in 1 .. Len(Forward(h, m)) : Contents(h, m)[i] = h.data[Forward(h, m)[i]]
    BY <1>5, <1>7, WellMadeReads
  <2>2. CASE m \notin L
    <3>1. t[m] = Forward(h, m)
      BY <1>3, <2>1, <2>2
    <3>2. \A i \in 1 .. Len(t[m]) : Contents(g, m)[i] = Contents(h, m)[i]
      BY <1>6, <2>1, <3>1
    <3> QED
      BY <2>1, <2>2, <3>1, <3>2, SeqEqual
  <2>3. CASE m \in L
    <3>1. Len(t[m]) = 0
      BY <1>3, <2>3
    <3> QED
      BY <2>1, <2>3, <3>1, EmptySeq
  <2> QED
    BY <2>2, <2>3
<1> QED
  BY <1>0, <1>7, <1>8

(* xlocate_node() finds a node that holds p if the list has one.           *)
LEMMA LocateNodeLocates ==
  ASSUME NEW h, WellMade(h), NEW l \in Lists, NEW p
  PROVE  \/ /\ LocateNode(h, l, p) = Null
            /\ p \notin Range(Contents(h, l))
         \/ \E i \in 1 .. Len(Forward(h, l)) :
              /\ LocateNode(h, l, p) = Forward(h, l)[i]
              /\ LocateNode(h, l, p) # Null
              /\ Contents(h, l)[i] = p
<1> DEFINE I == {i \in 1 .. Len(Forward(h, l)) : h.data[Forward(h, l)[i]] = p}
           k == IF I # {} THEN Min(I) ELSE 0
<1>1. LocateNode(h, l, p) = IF k = 0 THEN Null ELSE Forward(h, l)[k]
  BY DEF LocateNode, SelectInSeq
<1>2. /\ Len(Forward(h, l)) \in Nat /\ Forward(h, l) \in Seq(Nodes)
      /\ Contents(h, l) \in Seq(Pids) /\ Len(Contents(h, l)) = Len(Forward(h, l))
      /\ \A i \in 1 .. Len(Forward(h, l)) : Contents(h, l)[i] = h.data[Forward(h, l)[i]]
  BY WellMadeReads
<1>3. CASE I = {}
  <2>1. \A i \in 1 .. Len(Contents(h, l)) : Contents(h, l)[i] # p
    BY <1>2, <1>3
  <2>2. p \notin Range(Contents(h, l))
    BY <1>2, <2>1, RangeEquality
  <2> QED
    BY <1>1, <1>3, <2>2
<1>4. CASE I # {}
  <2>1. I \in SUBSET Nat
    BY <1>2
  <2> HIDE DEF I
  <2>2. \E x \in I : \A y \in I : x <= y
    BY <1>4, <2>1, Least
  <2>3. Min(I) \in I
    BY <2>2 DEF Min
  <2>4. k \in 1 .. Len(Forward(h, l)) /\ h.data[Forward(h, l)[k]] = p
    BY <1>4, <2>3 DEF I
  <2>5. k # 0 /\ Forward(h, l)[k] # Null
    BY <1>2, <2>4, ProcessTableAssumption
  <2> QED
    BY <1>1, <1>2, <2>4, <2>5
<1> QED
  BY <1>3, <1>4

------------------------------------------------------------------------------
(* The inductive invariant, in parts.                                      *)

Typed ==
  /\ pc \in {"update", "walk", "done", "closed", "failed"}
  /\ made \in SUBSET Buckets
  /\ unread \in SUBSET Pids
  /\ node \in Links
  /\ due \in SUBSET Pids

(* No pid is twice in a list, and each is in the bucket it hashes to.      *)
Sorted(h) ==
  /\ \A l \in Lists : IsInjective(Contents(h, l))
  /\ \A l \in Buckets : \A p \in Range(Contents(h, l)) : ProcHash(p) = l

(* A bucket that was never used is empty.                                  *)
OnlyMade(h, M) == \A l \in Buckets \ M : Contents(h, l) = <<>>

(* The pids in the table.                                                  *)
Tabled(h) == UNION {Range(Contents(h, l)) : l \in Buckets}

(* What the scan has yet to find is not listed.                            *)
Unlisted == pc = "update" => Range(Contents(heap, ProcList)) \cap unread = {}

(* The loop is at n, and owes a signal to n and to those behind it.        *)
Ahead(h, n, D) ==
  IF n = Null THEN D = {}
  ELSE \E i \in 1 .. Len(Forward(h, ProcList)) :
         /\ n = Forward(h, ProcList)[i]
         /\ D = {Contents(h, ProcList)[j] : j \in i .. Len(Forward(h, ProcList))}

IInv ==
  /\ Typed
  /\ WellMade(heap)
  /\ Sorted(heap)
  /\ OnlyMade(heap, made)
  /\ Unlisted
  /\ pc = "walk" => Ahead(heap, node, due)
  /\ pc = "closed" => heap.used = {}

------------------------------------------------------------------------------
(* Lists of pids.                                                          *)
LEMMA HashIsBucket == \A p \in Pids : ProcHash(p) \in Buckets /\ ProcHash(p) \in Lists
<1> SUFFICES ASSUME NEW p \in Pids
             PROVE  ProcHash(p) \in Buckets
  BY DEF Lists
<1>1. p \in Nat /\ HashSize \in Nat \ {0}
  BY ProcessTableAssumption
<1> QED
  BY <1>1 DEF ProcHash, Buckets

(* proclist is none of the buckets.                                        *)
LEMMA ListsApart == Buckets \subseteq Lists /\ ProcList \in Lists /\ ProcList \notin Buckets
<1>1. HashSize \in Nat
  BY ProcessTableAssumption
<1> QED
  BY <1>1 DEF Lists, Buckets, ProcList

(* Every node in use stands somewhere in one of the lists.                 *)
LEMMA UsedIsListed ==
  ASSUME NEW h, WellMade(h), NEW n \in h.used
  PROVE  \E l \in Lists : \E i \in 1 .. Len(Contents(h, l)) :
           n = Forward(h, l)[i] /\ h.data[n] = Contents(h, l)[i]
<1>1. Accounts(h.used, Chains(h))
  BY DEF WellMade, Shaped
<1>2. PICK l \in Lists : \E i \in 1 .. Len(Chains(h)[l]) : n = Chains(h)[l][i]
  BY <1>1 DEF Accounts
<1>3. PICK i \in 1 .. Len(Chains(h)[l]) : n = Chains(h)[l][i]
  BY <1>2
<1>4. /\ Chains(h)[l] = Forward(h, l) /\ Len(Contents(h, l)) = Len(Forward(h, l))
      /\ \A j \in 1 .. Len(Forward(h, l)) : Contents(h, l)[j] = h.data[Forward(h, l)[j]]
  BY WellMadeReads
<1> QED
  BY <1>3, <1>4

(* A pid stands in at most two places: in proclist and in its bucket.      *)
LEMMA OnePlaceEach ==
  ASSUME NEW h, WellMade(h), Sorted(h), NEW l \in Lists, NEW m \in Lists,
         l = ProcList <=> m = ProcList,
         NEW i \in 1 .. Len(Contents(h, l)), NEW j \in 1 .. Len(Contents(h, m)),
         Contents(h, l)[i] = Contents(h, m)[j]
  PROVE  l = m /\ i = j
<1>1. /\ Contents(h, l) \in Seq(Pids) /\ DOMAIN Contents(h, l) = 1 .. Len(Contents(h, l))
      /\ Contents(h, m) \in Seq(Pids) /\ DOMAIN Contents(h, m) = 1 .. Len(Contents(h, m))
  BY WellMadeReads
<1>2. /\ Contents(h, l)[i] \in Range(Contents(h, l))
      /\ Contents(h, l)[i] \in Range(Contents(h, m))
  BY <1>1, RangeEquality
<1>3. l # ProcList => /\ l = ProcHash(Contents(h, l)[i])
                      /\ m = ProcHash(Contents(h, l)[i])
  BY <1>2 DEF Sorted, Lists
<1>4. l = m
  BY <1>3
<1>5. IsInjective(Contents(h, l))
  BY DEF Sorted
<1> QED
  BY <1>1, <1>4, <1>5 DEF IsInjective

(* There is a free node for a pid that is not yet in the list.             *)
LEMMA RoomForOneMore ==
  ASSUME NEW h, WellMade(h), Sorted(h), NEW p \in Pids,
         NEW l \in {ProcHash(p), ProcList}, p \notin Range(Contents(h, l))
  PROVE  h.used # Nodes
<1> SUFFICES ASSUME h.used = Nodes
             PROVE  FALSE
  OBVIOUS
<1> DEFINE Side(k) == IF k = ProcList THEN 2 ELSE 1
           At(n, k, i) == /\ k \in Lists /\ i \in 1 .. Len(Contents(h, k))
                          /\ n = Forward(h, k)[i] /\ h.data[n] = Contents(h, k)[i]
           place == [n \in Nodes |->
             CHOOSE k \in Lists : \E i \in 1 .. Len(Contents(h, k)) : At(n, k, i)]
           f == [n \in Nodes |-> <<h.data[n], Side(place[n])>>]
<1>1. ASSUME NEW n \in Nodes
      PROVE  /\ place[n] \in Lists
             /\ \E i \in 1 .. Len(Contents(h, place[n])) : At(n, place[n], i)
  <2>1. \E k \in Lists : \E i \in 1 .. Len(Contents(h, k)) : At(n, k, i)
    BY UsedIsListed
  <2> HIDE DEF At
  <2> QED
    BY <2>1
<1> HIDE DEF place, At
<1>2. f \in [Nodes -> Pids \X (1 .. 2)]
  <2>1. \A n \in Nodes : h.data[n] \in Pids
    BY DEF WellMade
  <2>2. \A n \in Nodes : Side(place[n]) \in 1 .. 2
    OBVIOUS
  <2> HIDE DEF Side
  <2> QED
    BY <2>1, <2>2
<1>3. ASSUME NEW n \in Nodes, NEW m \in Nodes, f[n] = f[m]
      PROVE  n = m
  <2>1. h.data[n] = h.data[m] /\ (place[n] = ProcList <=> place[m] = ProcList)
    BY <1>3
  <2>2. PICK i \in 1 .. Len(Contents(h, place[n])) : At(n, place[n], i)
    BY <1>1
  <2>3. PICK j \in 1 .. Len(Contents(h, place[m])) : At(m, place[m], j)
    BY <1>1
  <2>4. place[n] \in Lists /\ place[m] \in Lists
        /\ Contents(h, place[n])[i] = Contents(h, place[m])[j]
    BY <2>1, <2>2, <2>3 DEF At
  <2>5. place[n] = place[m] /\ i = j
    BY <2>1, <2>4, OnePlaceEach
  <2> QED
    BY <2>2, <2>3, <2>5 DEF At
<1>4. \A n \in Nodes : f[n] # <<p, Side(l)>>
  <2> SUFFICES ASSUME NEW n \in Nodes, f[n] = <<p, Side(l)>>
               PROVE  FALSE
    OBVIOUS
  <2>1. h.data[n] = p /\ (place[n] = ProcList <=> l = ProcList)
    OBVIOUS
  <2>2. PICK i \in 1 .. Len(Contents(h, place[n])) : At(n, place[n], i)
    BY <1>1
  <2>3. place[n] \in Lists /\ Contents(h, place[n]) \in Seq(Pids)
        /\ Contents(h, place[n])[i] = p
    BY <2>1, <2>2, WellMadeReads DEF At
  <2>4. p \in Range(Contents(h, place[n]))
    BY <2>3, RangeEquality
  <2>5. place[n] # ProcList => place[n] = ProcHash(p)
    BY <2>3, <2>4 DEF Sorted, Lists
  <2> QED
    BY <2>1, <2>4, <2>5, HashIsBucket, ListsApart
<1>5. Side(l) \in 1 .. 2
  OBVIOUS
<1> HIDE DEF f, Side
<1>6. f \in Injection(Nodes, Pids \X (1 .. 2))
  BY <1>2, <1>3, Fun_IsInj
<1>7. f \notin Surjection(Nodes, Pids \X (1 .. 2))
  BY <1>4, <1>5 DEF Surjection
<1>8. /\ IsFiniteSet(1 .. 2) /\ Cardinality(1 .. 2) = 2
      /\ IsFiniteSet(Pids) /\ Cardinality(Pids) \in Nat
  BY Counted, FS_CardinalityType, ProcessTableAssumption
<1>9. /\ IsFiniteSet(Pids \X (1 .. 2))
      /\ Cardinality(Pids \X (1 .. 2)) = Cardinality(Pids) * 2
  BY <1>8, FS_Product
<1>10. /\ Cardinality(Nodes) <= Cardinality(Pids) * 2
       /\ Cardinality(Nodes) # Cardinality(Pids) * 2
  BY <1>6, <1>7, <1>9, FS_Injection
<1>11. Cardinality(Nodes) \in Nat /\ Cardinality(Nodes) >= 2 * Cardinality(Pids)
  BY NodesCounted, ProcessTableAssumption
<1> QED
  BY <1>8, <1>10, <1>11

(* Adding a pid that the list does not have keeps the lists sorted.        *)
LEMMA EnteredSorted ==
  ASSUME NEW h, WellMade(h), Sorted(h), NEW g, NEW p \in Pids,
         NEW l \in {ProcHash(p), ProcList}, Entered(g, h, l, p),
         p \notin Range(Contents(h, l))
  PROVE  /\ Sorted(g)
         /\ Range(Contents(g, l)) = Range(Contents(h, l)) \cup {p}
<1>1. l \in Lists
  BY HashIsBucket, ListsApart
<1>2. PICK c : c = Contents(h, l)
  OBVIOUS
<1>3. c \in Seq(Pids) /\ Contents(g, l) = Append(c, p) /\ IsInjective(c) /\ p \notin Range(c)
  BY <1>1, <1>2, WellMadeReads DEF Entered, Sorted
<1>4. PICK d : d = Append(c, p)
  OBVIOUS
<1>5. PICK k \in Nat : k = Len(c)
  BY <1>3
<1>6. /\ d \in Seq(Pids) /\ Len(d) = k + 1 /\ d[k + 1] = p
      /\ \A i \in 1 .. k : d[i] = c[i]
      /\ DOMAIN d = 1 .. k + 1 /\ DOMAIN c = 1 .. k
  BY <1>3, <1>4, <1>5, AppendProperties
<1>7. \A i \in 1 .. k : c[i] # p
  BY <1>3, <1>5, RangeEquality
<1>8. IsInjective(d)
  <2>1. \A i \in 1 .. k + 1 : i \in 1 .. k \/ i = k + 1
    OBVIOUS
  <2>2. \A i, j \in 1 .. k : c[i] = c[j] => i = j
    BY <1>3, <1>6 DEF IsInjective
  <2> QED
    BY <1>6, <1>7, <2>1, <2>2 DEF IsInjective
<1>9. Range(d) = Range(c) \cup {p}
  <2>1. Range(d) = {d[i] : i \in 1 .. k + 1} /\ Range(c) = {c[i] : i \in 1 .. k}
    BY <1>3, <1>5, <1>6, RangeEquality
  <2>2. \A i \in 1 .. k : i \in 1 .. k + 1
    OBVIOUS
  <2>3. \A i \in 1 .. k + 1 : i \in 1 .. k \/ i = k + 1
    OBVIOUS
  <2>4. k + 1 \in 1 .. k + 1
    OBVIOUS
  <2> QED
    BY <1>6, <2>1, <2>2, <2>3, <2>4
<1>10. \A m \in Lists \ {l} : Contents(g, m) = Contents(h, m)
  BY DEF Entered
<1>11. Contents(g, l) = d
  BY <1>3, <1>4
<1>12. ASSUME NEW m \in Buckets, NEW q \in Range(Contents(g, m))
       PROVE  ProcHash(q) = m
  <2>1. CASE m = l
    <3>1. l = ProcHash(p)
      BY <2>1, ListsApart
    <3> QED
      BY <1>2, <1>9, <1>11, <2>1, <3>1 DEF Sorted
  <2>2. CASE m # l
    BY <1>10, <2>2, ListsApart DEF Sorted
  <2> QED
    BY <2>1, <2>2
<1> QED
  BY <1>2, <1>8, <1>9, <1>10, <1>11, <1>12 DEF Sorted

(* Taking a pid out keeps the lists sorted, and it is gone.                *)
LEMMA RemovedSorted ==
  ASSUME NEW h, WellMade(h), Sorted(h), NEW g, NEW l \in Lists, NEW i, Removed(g, h, l, i),
         i \in 1 .. Len(Contents(h, l))
  PROVE  /\ Sorted(g)
         /\ Range(Contents(g, l)) = Range(Contents(h, l)) \ {Contents(h, l)[i]}
<1>1. PICK c : c = Contents(h, l)
  OBVIOUS
<1>2. c \in Seq(Pids) /\ Contents(g, l) = RemoveAt(c, i) /\ IsInjective(c) /\ i \in 1 .. Len(c)
  BY <1>1, WellMadeReads DEF Removed, Sorted
<1>3. PICK d : d = RemoveAt(c, i)
  OBVIOUS
<1>4. PICK k \in Nat : k = Len(c)
  BY <1>2
<1>5. /\ d \in Seq(Pids) /\ Len(d) = Len(c) - 1
      /\ \A j \in 1 .. Len(c) - 1 : d[j] = IF j < i THEN c[j] ELSE c[j + 1]
  BY <1>2, <1>3, RemoveAtRemoves
<1>6. /\ DOMAIN d = 1 .. k - 1 /\ DOMAIN c = 1 .. k /\ i \in 1 .. k
      /\ \A j \in 1 .. k - 1 : d[j] = IF j < i THEN c[j] ELSE c[j + 1]
  BY <1>2, <1>4, <1>5
<1>7. \A j, m \in 1 .. k : c[j] = c[m] => j = m
  BY <1>2, <1>6 DEF IsInjective
<1>8. \A j \in 1 .. k - 1 : j \in 1 .. k /\ j + 1 \in 1 .. k
  OBVIOUS
<1>9. IsInjective(d)
  <2> SUFFICES ASSUME NEW j \in 1 .. k - 1, NEW m \in 1 .. k - 1, d[j] = d[m]
               PROVE  j = m
    BY <1>6 DEF IsInjective
  <2>1. PICK x, y \in 1 .. k : /\ x = IF j < i THEN j ELSE j + 1
                               /\ y = IF m < i THEN m ELSE m + 1
    BY <1>8
  <2>2. c[x] = d[j] /\ c[y] = d[m]
    BY <1>6, <2>1
  <2>3. x = y
    BY <1>7, <2>2
  <2> QED
    BY <1>6, <2>1, <2>3
<1>10. Range(d) = Range(c) \ {c[i]}
  <2>1. Range(d) = {d[j] : j \in 1 .. k - 1} /\ Range(c) = {c[j] : j \in 1 .. k}
    BY <1>6 DEF Range
  <2>2. ASSUME NEW j \in 1 .. k - 1
        PROVE  d[j] \in Range(c) \ {c[i]}
    BY <1>6, <1>7, <1>8, <2>1
  <2>3. ASSUME NEW j \in 1 .. k, c[j] # c[i]
        PROVE  c[j] \in Range(d)
    <3>1. CASE j < i
      <4>1. j \in 1 .. k - 1
        BY <1>6, <3>1
      <4> QED
        BY <1>6, <2>1, <3>1, <4>1
    <3>2. CASE ~(j < i)
      <4>1. j - 1 \in 1 .. k - 1 /\ ~(j - 1 < i) /\ (j - 1) + 1 = j
        BY <1>6, <2>3, <3>2
      <4> QED
        BY <1>6, <2>1, <4>1
    <3> QED
      BY <3>1, <3>2
  <2> QED
    BY <2>1, <2>2, <2>3
<1>11. /\ \A m \in Lists \ {l} : Contents(g, m) = Contents(h, m)
       /\ Contents(g, l) = d
  BY <1>2, <1>3 DEF Removed
<1>12. \A m \in Lists : Range(Contents(g, m)) \subseteq Range(Contents(h, m))
  BY <1>1, <1>10, <1>11
<1> QED
  BY <1>1, <1>9, <1>10, <1>11, <1>12, ListsApart DEF Sorted

(* So does emptying lists.                                                 *)
LEMMA EmptiedSorted ==
  ASSUME NEW h, WellMade(h), Sorted(h), NEW g, NEW L \in SUBSET Lists, Emptied(g, h, L)
  PROVE  Sorted(g)
<1>1. IsInjective(<<>>) /\ Range(<<>>) = {}
  BY DEF IsInjective, Range
<1> QED
  BY <1>1, ListsApart DEF Sorted, Emptied

------------------------------------------------------------------------------
(* process_table_find() and process_table_del().                           *)
LEMMA TableFinds ==
  ASSUME WellMade(heap), OnlyMade(heap, made), NEW p \in Pids
  PROVE  TableFind(p) <=> p \in Range(Contents(heap, ProcHash(p)))
<1>1. ProcHash(p) \in Lists /\ ProcHash(p) \in Buckets
  BY HashIsBucket
<1>2. Contents(heap, ProcHash(p)) \in Seq(Pids)
      /\ Len(Contents(heap, ProcHash(p))) = Len(Forward(heap, ProcHash(p)))
  BY <1>1, WellMadeReads
<1>3. Range(Contents(heap, ProcHash(p))) =
        {Contents(heap, ProcHash(p))[i] : i \in 1 .. Len(Contents(heap, ProcHash(p)))}
  BY <1>2, RangeEquality
<1>4. LocateNode(heap, ProcHash(p), p) # Null <=> p \in Range(Contents(heap, ProcHash(p)))
  BY <1>1, <1>2, <1>3, LocateNodeLocates
<1>5. ProcHash(p) \notin made => p \notin Range(Contents(heap, ProcHash(p)))
  BY <1>1, <1>3 DEF OnlyMade
<1> QED
  BY <1>4, <1>5 DEF TableFind

(* process_table_del() takes the pid out of the table, if it is there, and *)
(* leaves proclist alone.                                                  *)
LEMMA TableDelDeletes ==
  ASSUME NEW h, WellMade(h), Sorted(h), OnlyMade(h, made), NEW p \in Pids
  PROVE  /\ WellMade(TableDel(h, p))
         /\ Sorted(TableDel(h, p))
         /\ OnlyMade(TableDel(h, p), made)
         /\ Forward(TableDel(h, p), ProcList) = Forward(h, ProcList)
         /\ Contents(TableDel(h, p), ProcList) = Contents(h, ProcList)
         /\ Tabled(TableDel(h, p)) = Tabled(h) \ {p}
<1>1. PICK b, n : b = ProcHash(p) /\ n = LocateNode(h, b, p)
  OBVIOUS
<1>2. b \in Lists /\ b \in Buckets /\ b # ProcList /\ ProcList \in Lists
  BY <1>1, HashIsBucket, ListsApart
<1>3. \A l \in Buckets : l # b => p \notin Range(Contents(h, l))
  BY <1>1 DEF Sorted
<1>4. \/ n = Null /\ p \notin Range(Contents(h, b))
      \/ \E i \in 1 .. Len(Forward(h, b)) :
           n = Forward(h, b)[i] /\ n # Null /\ Contents(h, b)[i] = p
  BY <1>1, <1>2, LocateNodeLocates
<1>5. CASE b \notin made \/ n = Null
  <2>1. TableDel(h, p) = h
    BY <1>1, <1>5 DEF TableDel
  <2>2. p \notin Range(Contents(h, b))
    <3>1. CASE b \notin made
      <4>1. Range(<<>>) = {}
        BY DEF Range
      <4> QED
        BY <1>2, <3>1, <4>1 DEF OnlyMade
    <3>2. CASE n = Null
      BY <1>4, <3>2
    <3> QED
      BY <1>5, <3>1, <3>2
  <2>3. p \notin Tabled(h)
    BY <1>3, <2>2 DEF Tabled
  <2> QED
    BY <2>1, <2>3
<1>6. CASE b \in made /\ n # Null
  <2>1. PICK i \in 1 .. Len(Forward(h, b)) : n = Forward(h, b)[i] /\ Contents(h, b)[i] = p
    BY <1>4, <1>6
  <2>2. PICK g : g = TableDel(h, p) /\ g = DeleteNode(h, b, Forward(h, b)[i])
    BY <1>1, <1>6, <2>1 DEF TableDel
  <2>3. WellMade(g) /\ Removed(g, h, b, i)
    BY <1>2, <2>2, DeleteNodeRemoves
  <2>4. i \in 1 .. Len(Contents(h, b))
    BY <1>2, <2>1, WellMadeReads
  <2>5. Sorted(g) /\ Range(Contents(g, b)) = Range(Contents(h, b)) \ {p}
    <3>1. Sorted(g)
      BY <1>2, <2>3, <2>4, RemovedSorted
    <3>2. Range(Contents(g, b)) = Range(Contents(h, b)) \ {Contents(h, b)[i]}
      BY <1>2, <2>3, <2>4, RemovedSorted
    <3> QED
      BY <2>1, <3>1, <3>2
  <2>6. \A l \in Lists : l # b => Contents(g, l) = Contents(h, l) /\ Forward(g, l) = Forward(h, l)
    BY <2>3 DEF Removed
  <2>7. OnlyMade(g, made)
    BY <1>6, <2>6, ListsApart DEF OnlyMade
  <2>8. \A l \in Buckets : Range(Contents(g, l)) = Range(Contents(h, l)) \ {p}
    BY <1>3, <2>5, <2>6, ListsApart
  <2>9. Tabled(g) = Tabled(h) \ {p}
    BY <2>8 DEF Tabled
  <2> QED
    BY <1>2, <2>2, <2>3, <2>5, <2>6, <2>7, <2>9
<1> QED
  BY <1>5, <1>6

------------------------------------------------------------------------------
(* What each call does to the pids, and that it keeps the invariant.       *)

(* Before the first call all lists are empty.                              *)
LEMMA EmptyHeapIsMade ==
  /\ WellMade(EmptyHeap)
  /\ \A l \in Lists : Contents(EmptyHeap, l) = <<>>
<1>1. PICK h, s : h = EmptyHeap /\ s = [l \in Lists |-> <<>>]
  OBVIOUS
<1>2. h \in Heaps(Nat) /\ h.used = {}
  BY <1>1 DEF EmptyHeap, Heaps, Links
<1>3. /\ s \in [Lists -> Seq(Nodes)]
      /\ \A l \in Lists : s[l] = <<>> /\ Len(s[l]) = 0
  BY <1>1
<1>4. \A l \in Lists : h.count[l] = 0 /\ h.first[l] = Null /\ h.last[l] = Null
  BY <1>1 DEF EmptyHeap
<1>5. \A l \in Lists : /\ h.count[l] = Len(s[l])
                       /\ Strung(s[l], h.first[l], h.next)
                       /\ StrungBack(s[l], h.last[l], h.previous)
  BY <1>3, <1>4 DEF Strung, StrungBack
<1>6. Apart(s) /\ Accounts(h.used, s)
  BY <1>2, <1>3 DEF Apart, Accounts
<1>7. Shaped(h, s)
  BY <1>2, <1>3, <1>5, <1>6 DEF Shaped
<1>8. s = Chains(h)
  BY <1>7, ShapeIsRead
<1>9. WellMade(h)
  BY <1>2, <1>7, <1>8 DEF WellMade
<1>10. ASSUME NEW l \in Lists
       PROVE  Contents(h, l) = <<>>
  <2>1. Contents(h, l) \in Seq(Pids) /\ Len(Contents(h, l)) = 0
    BY <1>3, <1>8, <1>9, WellMadeReads
  <2> QED
    BY <2>1, EmptySeq
<1> QED
  BY <1>1, <1>9, <1>10

(* The invariant holds at first.                                           *)
LEMMA InitHolds == Init => IInv /\ Contents(heap, ProcList) = <<>> /\ Tabled(heap) = {}
<1> SUFFICES ASSUME Init
             PROVE  IInv /\ Contents(heap, ProcList) = <<>> /\ Tabled(heap) = {}
  OBVIOUS
<1>1. WellMade(heap) /\ \A l \in Lists : Contents(heap, l) = <<>>
  BY EmptyHeapIsMade DEF Init
<1>2. IsInjective(<<>>) /\ Range(<<>>) = {}
  BY DEF IsInjective, Range
<1>3. Sorted(heap) /\ OnlyMade(heap, made) /\ Tabled(heap) = {}
  BY <1>1, <1>2, ListsApart DEF Sorted, OnlyMade, Tabled
<1>4. Typed /\ Unlisted /\ pc # "walk" /\ pc # "closed"
  BY DEF Init, Typed, Unlisted, Links
<1> QED
  BY <1>1, <1>3, <1>4, ListsApart DEF IInv

(* clear_list(proclist): the table stays.                                  *)
LEMMA BeginUpdateKeeps ==
  ASSUME IInv, NEW M \in SUBSET Pids, BeginUpdate(M)
  PROVE  /\ IInv'
         /\ Contents(heap', ProcList) = <<>>
         /\ Tabled(heap') = Tabled(heap)
<1>1. heap' = ClearLists(heap, {ProcList}) /\ made' = made
  BY DEF BeginUpdate
<1>2. WellMade(heap) /\ Sorted(heap) /\ OnlyMade(heap, made)
  BY DEF IInv
<1>3. WellMade(heap') /\ Emptied(heap', heap, {ProcList})
  BY <1>1, <1>2, ListsApart, ClearListsEmpties
<1>4. Sorted(heap')
  BY <1>2, <1>3, ListsApart, EmptiedSorted
<1>5. /\ Contents(heap', ProcList) = <<>>
      /\ \A l \in Buckets : Contents(heap', l) = Contents(heap, l)
  BY <1>3, ListsApart DEF Emptied
<1>6. OnlyMade(heap', made') /\ Tabled(heap') = Tabled(heap)
  BY <1>1, <1>2, <1>5 DEF OnlyMade, Tabled
<1>7. Range(<<>>) = {}
  BY DEF Range
<1>8. Typed' /\ Unlisted' /\ pc' # "walk" /\ pc' # "closed"
  BY <1>5, <1>7 DEF IInv, Typed, Unlisted, BeginUpdate
<1> QED
  BY <1>3, <1>4, <1>5, <1>6, <1>8 DEF IInv

(* The pid is in the table and at the end of proclist: there is room for   *)
(* both nodes.                                                             *)
LEMMA EnterKeeps ==
  ASSUME IInv, NEW p \in Pids, Enter(p)
  PROVE  /\ IInv'
         /\ Contents(heap', ProcList) = Append(Contents(heap, ProcList), p)
         /\ p \notin Range(Contents(heap, ProcList))
         /\ Range(Contents(heap', ProcList)) = Range(Contents(heap, ProcList)) \cup {p}
         /\ Tabled(heap') = Tabled(heap) \cup {p}
<1>1. PICK b, h : /\ b = ProcHash(p)
                  /\ h = IF TableFind(p) THEN heap ELSE AddElem(heap, b, p)
                  /\ heap' = AddElem(h, ProcList, p)
  BY DEF Enter
<1>2. WellMade(heap) /\ Sorted(heap) /\ OnlyMade(heap, made)
  BY DEF IInv
<1>3. b \in Lists /\ b \in Buckets /\ b # ProcList /\ ProcList \in Lists
  BY <1>1, HashIsBucket, ListsApart
<1>4. p \notin Range(Contents(heap, ProcList))
  BY DEF IInv, Unlisted, Enter
<1>5. /\ WellMade(h) /\ Sorted(h)
      /\ \A l \in Lists : l # b => Contents(h, l) = Contents(heap, l)
      /\ Range(Contents(h, b)) = Range(Contents(heap, b)) \cup {p}
  <2>1. CASE TableFind(p)
    <3>1. h = heap /\ p \in Range(Contents(heap, b))
      BY <1>1, <1>2, <2>1, TableFinds
    <3> QED
      BY <1>2, <3>1
  <2>2. CASE ~TableFind(p)
    <3>1. h = AddElem(heap, b, p) /\ p \notin Range(Contents(heap, b))
      BY <1>1, <1>2, <2>2, TableFinds
    <3>2. heap.used # Nodes
      BY <1>1, <1>2, <3>1, RoomForOneMore
    <3>3. WellMade(h) /\ Entered(h, heap, b, p)
      BY <1>2, <1>3, <3>1, <3>2, AddElemEnters
    <3>4. Sorted(h) /\ Range(Contents(h, b)) = Range(Contents(heap, b)) \cup {p}
      BY <1>1, <1>2, <3>1, <3>3, EnteredSorted
    <3> QED
      BY <3>3, <3>4 DEF Entered
  <2> QED
    BY <2>1, <2>2
<1>6. Contents(h, ProcList) = Contents(heap, ProcList)
  BY <1>3, <1>5
<1>7. h.used # Nodes
  BY <1>4, <1>5, <1>6, RoomForOneMore
<1>8. WellMade(heap') /\ Entered(heap', h, ProcList, p)
  BY <1>1, <1>3, <1>5, <1>7, AddElemEnters
<1>9. /\ Sorted(heap')
      /\ Range(Contents(heap', ProcList)) = Range(Contents(heap, ProcList)) \cup {p}
  BY <1>4, <1>5, <1>6, <1>8, EnteredSorted
<1>10. /\ Contents(heap', ProcList) = Append(Contents(heap, ProcList), p)
       /\ \A l \in Buckets : Contents(heap', l) = Contents(h, l)
  BY <1>3, <1>6, <1>8, ListsApart DEF Entered
<1>11. OnlyMade(heap', made')
  BY <1>1, <1>2, <1>5, <1>10, ListsApart DEF OnlyMade, Enter
<1>12. Tabled(heap') = Tabled(heap) \cup {p}
  <2>1. \A l \in Buckets : Range(Contents(heap', l)) =
          IF l = b THEN Range(Contents(heap, l)) \cup {p} ELSE Range(Contents(heap, l))
    BY <1>5, <1>10, ListsApart
  <2> QED
    BY <1>3, <2>1 DEF Tabled
<1>13. Typed'
  BY <1>3, HashIsBucket DEF IInv, Typed, Enter
<1>14. Unlisted' /\ pc' # "walk" /\ pc' # "closed"
  BY <1>9 DEF IInv, Unlisted, Enter
<1> QED
  BY <1>4, <1>8, <1>9, <1>10, <1>11, <1>12, <1>13, <1>14 DEF IInv

(* The loop begins at the first node.                                      *)
LEMMA BeginWalkKeeps ==
  ASSUME IInv, BeginWalk
  PROVE  IInv'
<1>1. heap' = heap /\ made' = made /\ unread' = unread /\ pc' = "walk"
      /\ node' = heap.first[ProcList]
      /\ due' = {heap.data[n] : n \in Range(Forward(heap, ProcList))}
  BY DEF BeginWalk
<1>2. WellMade(heap) /\ Sorted(heap) /\ OnlyMade(heap, made) /\ Typed
  BY DEF IInv
<1>3. PICK f, c : f = Forward(heap, ProcList) /\ c = Contents(heap, ProcList)
  OBVIOUS
<1>4. /\ f \in Seq(Nodes) /\ Len(f) \in Nat /\ c \in Seq(Pids) /\ Len(c) = Len(f)
      /\ \A i \in 1 .. Len(f) : c[i] = heap.data[f[i]]
      /\ Chains(heap)[ProcList] = f
  BY <1>2, <1>3, ListsApart, WellMadeReads
<1>5. Strung(f, heap.first[ProcList], heap.next)
  BY <1>2, <1>4, ListsApart DEF WellMade, Shaped
<1>6. Range(f) = {f[i] : i \in 1 .. Len(f)}
  BY <1>4, RangeEquality
<1>7. due' = {c[j] : j \in 1 .. Len(f)}
  BY <1>1, <1>3, <1>4, <1>6
<1>8. node' = IF Len(f) = 0 THEN Null ELSE f[1]
  BY <1>1, <1>5 DEF Strung
<1>9. CASE Len(f) = 0
  <2>1. node' = Null /\ due' = {}
    BY <1>7, <1>8, <1>9
  <2>2. Ahead(heap, Null, {})
    BY DEF Ahead
  <2>3. Typed'
    BY <1>1, <1>2, <2>1 DEF Typed, Links
  <2> QED
    BY <1>1, <1>2, <2>1, <2>2, <2>3 DEF IInv, Unlisted
<1>10. CASE Len(f) # 0
  <2>1. 1 \in 1 .. Len(f) /\ node' = f[1] /\ f[1] \in Nodes /\ f[1] # Null
    BY <1>4, <1>8, <1>10, ProcessTableAssumption
  <2>2. Ahead(heap, node', due')
    BY <1>3, <1>7, <2>1 DEF Ahead
  <2>3. due' \in SUBSET Pids
    BY <1>4, <1>7
  <2>4. Typed'
    BY <1>1, <1>2, <2>1, <2>3 DEF Typed, Links
  <2> QED
    BY <1>1, <1>2, <2>2, <2>4 DEF IInv, Unlisted
<1> QED
  BY <1>9, <1>10

(* The loop is at the i-th node, and what remains after this turn.         *)
Turning(i) ==
  /\ node = Forward(heap, ProcList)[i]
  /\ i \in 1 .. Len(Contents(heap, ProcList))
  /\ heap.data[node] = Contents(heap, ProcList)[i]
  /\ heap.data[node] \in due
  /\ heap.next[node] = IF i = Len(Forward(heap, ProcList)) THEN Null
                       ELSE Forward(heap, ProcList)[i + 1]
  /\ heap.next[node] \in Links
  /\ due \ {heap.data[node]} =
       {Contents(heap, ProcList)[j] : j \in i + 1 .. Len(Forward(heap, ProcList))}

(* As long as there is a node the loop stands at one of the list.          *)
LEMMA Turn ==
  ASSUME IInv, pc = "walk", node # Null
  PROVE  \E i \in 1 .. Len(Forward(heap, ProcList)) : Turning(i)
<1>1. WellMade(heap) /\ Sorted(heap) /\ Ahead(heap, node, due)
  BY DEF IInv
<1>2. PICK f, c : f = Forward(heap, ProcList) /\ c = Contents(heap, ProcList)
  OBVIOUS
<1>3. /\ f \in Seq(Nodes) /\ Len(f) \in Nat /\ c \in Seq(Pids) /\ Len(c) = Len(f)
      /\ DOMAIN c = 1 .. Len(f)
      /\ \A i \in 1 .. Len(f) : c[i] = heap.data[f[i]]
      /\ Chains(heap)[ProcList] = f
  BY <1>1, <1>2, ListsApart, WellMadeReads
<1>4. Strung(f, heap.first[ProcList], heap.next)
  BY <1>1, <1>3, ListsApart DEF WellMade, Shaped
<1>5. PICK i \in 1 .. Len(f) : node = f[i] /\ due = {c[j] : j \in i .. Len(f)}
  BY <1>1, <1>2 DEF Ahead
<1>6. PICK k \in Nat : k = Len(f)
  BY <1>3
<1>7. \A j, m \in 1 .. k : c[j] = c[m] => j = m
  BY <1>1, <1>2, <1>3, <1>6, ListsApart DEF Sorted, IsInjective
<1>8. heap.data[node] = c[i]
  BY <1>3, <1>5
<1>9. due \ {c[i]} = {c[j] : j \in i + 1 .. k}
  <2>1. \A j \in i + 1 .. k : j \in i .. k /\ j \in 1 .. k /\ j # i
    BY <1>5, <1>6
  <2>2. \A j \in i .. k : j = i \/ j \in i + 1 .. k
    BY <1>5, <1>6
  <2>3. i \in 1 .. k /\ due = {c[j] : j \in i .. k}
    BY <1>5, <1>6
  <2> QED
    BY <1>7, <2>1, <2>2, <2>3
<1>10. heap.next[node] = IF i = k THEN Null ELSE f[i + 1]
  BY <1>4, <1>5, <1>6 DEF Strung
<1>11. heap.next[node] \in Links
  <2>1. i # k => i + 1 \in 1 .. Len(f)
    BY <1>5, <1>6
  <2>2. i # k => f[i + 1] \in Nodes
    BY <1>3, <2>1
  <2> QED
    BY <1>10, <2>2 DEF Links
<1>12. c[i] \in due
  <2>1. i \in i .. Len(f)
    BY <1>3, <1>5
  <2> QED
    BY <1>5, <2>1
<1>13. i \in 1 .. Len(c) /\ due \ {heap.data[node]} = {c[j] : j \in i + 1 .. Len(f)}
  BY <1>3, <1>5, <1>6, <1>8, <1>9
<1>14. heap.data[node] \in due
       /\ heap.next[node] = IF i = Len(f) THEN Null ELSE f[i + 1]
  BY <1>6, <1>8, <1>10, <1>12
<1>15. Turning(i)
  BY <1>2, <1>5, <1>8, <1>11, <1>13, <1>14 DEF Turning
<1> QED
  BY <1>2, <1>15

(* One more has got its signal.                                            *)
LEMMA SignalledKeeps ==
  ASSUME IInv, Signalled
  PROVE  IInv'
<1>1. /\ heap' = heap /\ made' = made /\ unread' = unread /\ pc = "walk" /\ pc' = "walk"
      /\ node # Null /\ node' = heap.next[node] /\ due' = due \ {heap.data[node]}
  BY DEF Signalled
<1>2. WellMade(heap) /\ Sorted(heap) /\ OnlyMade(heap, made) /\ Typed
  BY DEF IInv
<1>3. PICK f, c : f = Forward(heap, ProcList) /\ c = Contents(heap, ProcList)
  OBVIOUS
<1>4. PICK i \in 1 .. Len(f) :
        /\ node' = IF i = Len(f) THEN Null ELSE f[i + 1]
        /\ node' \in Links
        /\ due' = {c[j] : j \in i + 1 .. Len(f)}
  BY <1>1, <1>3, Turn DEF Turning
<1>5. Len(f) \in Nat /\ f \in Seq(Nodes)
  BY <1>2, <1>3, ListsApart, WellMadeReads
<1>6. Ahead(heap, node', due')
  <2>1. CASE i = Len(f)
    <3>1. node' = Null /\ due' = {}
      BY <1>4, <1>5, <2>1
    <3> QED
      BY <3>1 DEF Ahead
  <2>2. CASE i # Len(f)
    <3>1. i + 1 \in 1 .. Len(f)
      BY <1>4, <1>5, <2>2
    <3>2. node' = f[i + 1] /\ node' # Null
      BY <1>4, <1>5, <2>2, <3>1, ProcessTableAssumption
    <3> QED
      BY <1>3, <1>4, <3>1, <3>2 DEF Ahead
  <2> QED
    BY <2>1, <2>2
<1>7. Typed'
  BY <1>1, <1>2, <1>4 DEF Typed
<1> QED
  BY <1>1, <1>2, <1>6, <1>7 DEF IInv, Unlisted

(* The node goes, and so does the entry of the table; node->next, which    *)
(* was read before, is in the list still.                                  *)
LEMMA NotSignalledKeeps ==
  ASSUME IInv, NotSignalled
  PROVE  /\ IInv'
         /\ \E i \in 1 .. Len(Contents(heap, ProcList)) :
              /\ Contents(heap', ProcList) = RemoveAt(Contents(heap, ProcList), i)
              /\ Tabled(heap') = Tabled(heap) \ {Contents(heap, ProcList)[i]}
              /\ Range(Contents(heap', ProcList)) =
                   Range(Contents(heap, ProcList)) \ {Contents(heap, ProcList)[i]}
              /\ heap.data[node] = Contents(heap, ProcList)[i]
<1>1. /\ made' = made /\ unread' = unread /\ pc = "walk" /\ pc' = "walk"
      /\ node # Null /\ node' = heap.next[node] /\ due' = due \ {heap.data[node]}
      /\ heap' = TableDel(DeleteNode(heap, ProcList, node), heap.data[node])
  BY DEF NotSignalled
<1>2. WellMade(heap) /\ Sorted(heap) /\ OnlyMade(heap, made) /\ Typed
  BY DEF IInv
<1>3. PICK f, c, p : /\ f = Forward(heap, ProcList) /\ c = Contents(heap, ProcList)
                     /\ p = heap.data[node]
  OBVIOUS
<1>4. PICK i \in 1 .. Len(f) :
        /\ node = f[i] /\ i \in 1 .. Len(c) /\ p = c[i]
        /\ node' = IF i = Len(f) THEN Null ELSE f[i + 1]
        /\ node' \in Links
        /\ due' = {c[j] : j \in i + 1 .. Len(f)}
  BY <1>1, <1>3, Turn DEF Turning
<1>5. /\ Len(f) \in Nat /\ f \in Seq(Nodes) /\ Len(c) = Len(f) /\ c \in Seq(Pids) /\ p \in Pids
  BY <1>2, <1>3, <1>4, ListsApart, WellMadeReads
<1>6. PICK g : g = DeleteNode(heap, ProcList, node)
  OBVIOUS
<1>7. WellMade(g) /\ Removed(g, heap, ProcList, i)
  BY <1>2, <1>3, <1>4, <1>6, ListsApart, DeleteNodeRemoves
<1>8. /\ Forward(g, ProcList) = RemoveAt(f, i) /\ Contents(g, ProcList) = RemoveAt(c, i)
      /\ \A l \in Buckets : Contents(g, l) = Contents(heap, l)
  BY <1>3, <1>7, ListsApart DEF Removed
<1>9. Sorted(g) /\ Range(Contents(g, ProcList)) = Range(c) \ {c[i]}
  <2>1. ProcList \in Lists /\ i \in 1 .. Len(Contents(heap, ProcList))
    BY <1>3, <1>4, ListsApart
  <2>2. /\ Sorted(g)
        /\ Range(Contents(g, ProcList)) =
             Range(Contents(heap, ProcList)) \ {Contents(heap, ProcList)[i]}
    BY <1>2, <1>7, <2>1, RemovedSorted
  <2> QED
    BY <1>3, <2>2
<1>10. OnlyMade(g, made) /\ Tabled(g) = Tabled(heap)
  BY <1>2, <1>8 DEF OnlyMade, Tabled
<1>11. heap' = TableDel(g, p)
  BY <1>1, <1>3, <1>6
<1>12. /\ WellMade(heap') /\ Sorted(heap') /\ OnlyMade(heap', made')
       /\ Forward(heap', ProcList) = RemoveAt(f, i)
       /\ Contents(heap', ProcList) = RemoveAt(c, i)
       /\ Tabled(heap') = Tabled(heap) \ {c[i]}
  BY <1>1, <1>4, <1>5, <1>7, <1>8, <1>9, <1>10, <1>11, TableDelDeletes
<1>13. PICK u, v : u = RemoveAt(f, i) /\ v = RemoveAt(c, i)
  OBVIOUS
<1>14. PICK k \in Nat : k = Len(f) /\ k = Len(c)
  BY <1>5
<1>15. /\ Len(u) = k - 1 /\ \A j \in 1 .. k - 1 : u[j] = IF j < i THEN f[j] ELSE f[j + 1]
  BY <1>4, <1>5, <1>13, <1>14, RemoveAtRemoves
<1>16. \A j \in 1 .. k - 1 : v[j] = IF j < i THEN c[j] ELSE c[j + 1]
  BY <1>4, <1>5, <1>13, <1>14, RemoveAtRemoves
<1>17. Ahead(heap', node', due')
  <2>1. CASE i = k
    <3>1. node' = Null /\ due' = {}
      BY <1>4, <1>14, <2>1
    <3> QED
      BY <3>1 DEF Ahead
  <2>2. CASE i # k
    <3>1. i \in 1 .. k - 1 /\ i + 1 \in 1 .. k /\ i \in Nat
      BY <1>4, <1>14, <2>2
    <3>2. node' = f[i + 1] /\ node' # Null /\ u[i] = f[i + 1]
      BY <1>4, <1>5, <1>14, <1>15, <2>2, <3>1, ProcessTableAssumption
    <3>3. due' = {v[j] : j \in i .. k - 1}
      <4>1. \A j \in i .. k - 1 : j \in 1 .. k - 1 /\ ~(j < i) /\ j + 1 \in i + 1 .. k
        BY <3>1
      <4>2. \A j \in i .. k - 1 : v[j] = c[j + 1]
        BY <1>16, <4>1
      <4>3. \A j \in i + 1 .. k : j - 1 \in i .. k - 1 /\ (j - 1) + 1 = j
        BY <3>1
      <4>4. due' = {c[j] : j \in i + 1 .. k}
        BY <1>4, <1>14
      <4> QED
        BY <4>1, <4>2, <4>3, <4>4
    <3>4. /\ Len(Forward(heap', ProcList)) = k - 1
          /\ node' = Forward(heap', ProcList)[i]
          /\ Contents(heap', ProcList) = v
      BY <1>12, <1>13, <1>15, <3>2
    <3> QED
      BY <3>1, <3>2, <3>3, <3>4 DEF Ahead
  <2> QED
    BY <2>1, <2>2
<1>18. Typed'
  BY <1>1, <1>2, <1>4 DEF Typed
<1>19. IInv'
  BY <1>1, <1>12, <1>17, <1>18 DEF IInv, Unlisted
<1> QED
  BY <1>3, <1>4, <1>8, <1>9, <1>12, <1>19

(* All nodes are freed, since the buckets never made are empty.            *)
LEMMA CloseKeeps ==
  ASSUME IInv, Close
  PROVE  /\ IInv'
         /\ Contents(heap', ProcList) = <<>>
         /\ Tabled(heap') = {}
<1>1. heap' = ClearLists(heap, made \cup {ProcList}) /\ made' = {} /\ pc' = "closed"
  BY DEF Close
<1>2. WellMade(heap) /\ Sorted(heap) /\ OnlyMade(heap, made) /\ made \in SUBSET Buckets
  BY DEF IInv, Typed
<1>3. made \cup {ProcList} \in SUBSET Lists
  BY <1>2, ListsApart
<1>4. WellMade(heap') /\ Emptied(heap', heap, made \cup {ProcList})
  BY <1>1, <1>2, <1>3, ClearListsEmpties
<1>5. \A l \in Lists : Contents(heap', l) = <<>>
  BY <1>2, <1>4 DEF Emptied, OnlyMade, Lists
<1>6. IsInjective(<<>>) /\ Range(<<>>) = {}
  BY DEF IsInjective, Range
<1>7. Sorted(heap') /\ OnlyMade(heap', made') /\ Tabled(heap') = {}
  BY <1>5, <1>6, ListsApart DEF Sorted, OnlyMade, Tabled
<1>8. heap'.used = {}
  <2>1. Len(<<>>) = 0
    OBVIOUS
  <2>2. \A l \in Lists : 1 .. Len(Contents(heap', l)) = {}
    BY <1>5, <2>1
  <2> QED
    BY <1>4, <2>2, UsedIsListed
<1>9. Typed' /\ Unlisted' /\ pc' # "walk"
  BY <1>1 DEF IInv, Typed, Unlisted, Close
<1> QED
  BY <1>4, <1>5, <1>7, <1>8, <1>9, ListsApart DEF IInv

(* An exit during a scan may leave a pid in the table alone.               *)
LEMMA AbortListingKeeps ==
  ASSUME IInv, NEW p \in Pids, AbortListing(p)
  PROVE  /\ IInv'
         /\ Contents(heap', ProcList) = Contents(heap, ProcList)
         /\ p \notin Range(Contents(heap, ProcList))
         /\ Tabled(heap') \in {Tabled(heap), Tabled(heap) \cup {p}}
<1>1. PICK b : b = ProcHash(p)
  OBVIOUS
<1>2. /\ heap' \in {heap, AddElem(heap, b, p)} /\ ~TableFind(p)
      /\ made' = made \cup {b} /\ pc' = "failed"
  BY <1>1 DEF AbortListing
<1>3. WellMade(heap) /\ Sorted(heap) /\ OnlyMade(heap, made)
  BY DEF IInv
<1>4. b \in Lists /\ b \in Buckets /\ b # ProcList /\ ProcList \in Lists
  BY <1>1, HashIsBucket, ListsApart
<1>5. Typed' /\ Unlisted'
  BY <1>2, <1>4 DEF IInv, Typed, Unlisted, AbortListing
<1>6. p \notin Range(Contents(heap, ProcList))
  BY DEF IInv, Unlisted, AbortListing
<1>7. CASE heap' = heap
  <2>1. OnlyMade(heap', made')
    BY <1>2, <1>3, <1>7 DEF OnlyMade
  <2> QED
    BY <1>2, <1>3, <1>5, <1>6, <1>7, <2>1 DEF IInv
<1>8. CASE heap' = AddElem(heap, b, p)
  <2>1. p \notin Range(Contents(heap, b))
    BY <1>1, <1>2, <1>3, TableFinds
  <2>2. heap.used # Nodes
    BY <1>1, <1>3, <2>1, RoomForOneMore
  <2>3. WellMade(heap') /\ Entered(heap', heap, b, p)
    BY <1>3, <1>4, <1>8, <2>2, AddElemEnters
  <2>4. /\ Sorted(heap')
        /\ Range(Contents(heap', b)) = Range(Contents(heap, b)) \cup {p}
    BY <1>1, <1>3, <2>1, <2>3, EnteredSorted
  <2>5. \A l \in Lists : l # b => Contents(heap', l) = Contents(heap, l)
    BY <2>3 DEF Entered
  <2>6. OnlyMade(heap', made')
    BY <1>2, <1>3, <2>5, ListsApart DEF OnlyMade
  <2>7. Tabled(heap') = Tabled(heap) \cup {p}
    <3>1. \A l \in Buckets : Range(Contents(heap', l)) =
            IF l = b THEN Range(Contents(heap, l)) \cup {p} ELSE Range(Contents(heap, l))
      BY <2>4, <2>5, ListsApart
    <3> QED
      BY <1>4, <3>1 DEF Tabled
  <2> QED
    BY <1>2, <1>4, <1>5, <1>6, <2>3, <2>4, <2>5, <2>6, <2>7 DEF IInv
<1> QED
  BY <1>2, <1>7, <1>8

(* One in a loop leaves the entry of the table behind the node.            *)
LEMMA AbortRemovalKeeps ==
  ASSUME IInv, AbortRemoval
  PROVE  /\ IInv'
         /\ \E i \in 1 .. Len(Contents(heap, ProcList)) :
              /\ Contents(heap', ProcList) = RemoveAt(Contents(heap, ProcList), i)
              /\ Tabled(heap') = Tabled(heap)
              /\ Range(Contents(heap', ProcList)) =
                   Range(Contents(heap, ProcList)) \ {Contents(heap, ProcList)[i]}
              /\ heap.data[node] = Contents(heap, ProcList)[i]
<1>1. /\ made' = made /\ pc = "walk" /\ pc' = "failed" /\ node # Null
      /\ unread' = unread /\ node' = node /\ due' = due \ {heap.data[node]}
      /\ heap' = DeleteNode(heap, ProcList, node)
  BY DEF AbortRemoval
<1>2. WellMade(heap) /\ Sorted(heap) /\ OnlyMade(heap, made) /\ Typed
  BY DEF IInv
<1>3. PICK i \in 1 .. Len(Forward(heap, ProcList)) :
        /\ node = Forward(heap, ProcList)[i]
        /\ i \in 1 .. Len(Contents(heap, ProcList))
        /\ heap.data[node] = Contents(heap, ProcList)[i]
  BY <1>1, Turn DEF Turning
<1>4. WellMade(heap') /\ Removed(heap', heap, ProcList, i)
  BY <1>1, <1>2, <1>3, ListsApart, DeleteNodeRemoves
<1>5. /\ Contents(heap', ProcList) = RemoveAt(Contents(heap, ProcList), i)
      /\ \A l \in Buckets : Contents(heap', l) = Contents(heap, l)
  BY <1>4, ListsApart DEF Removed
<1>6. /\ Sorted(heap')
      /\ Range(Contents(heap', ProcList)) =
           Range(Contents(heap, ProcList)) \ {Contents(heap, ProcList)[i]}
  <2>1. ProcList \in Lists /\ i \in 1 .. Len(Contents(heap, ProcList))
    BY <1>3, ListsApart
  <2>2. PICK g : g = DeleteNode(heap, ProcList, node)
    OBVIOUS
  <2>3. WellMade(g) /\ Removed(g, heap, ProcList, i)
    BY <1>2, <1>3, <2>1, <2>2, DeleteNodeRemoves
  <2>4. /\ Sorted(g)
        /\ Range(Contents(g, ProcList)) =
             Range(Contents(heap, ProcList)) \ {Contents(heap, ProcList)[i]}
    BY <1>2, <2>1, <2>3, RemovedSorted
  <2>5. heap' = g
    BY <1>1, <2>2
  <2> QED
    BY <2>4, <2>5
<1>7. OnlyMade(heap', made') /\ Tabled(heap') = Tabled(heap)
  BY <1>1, <1>2, <1>5 DEF OnlyMade, Tabled
<1>8. Typed' /\ Unlisted'
  BY <1>1, <1>2 DEF Typed, Unlisted
<1>9. IInv'
  BY <1>1, <1>4, <1>6, <1>7, <1>8 DEF IInv
<1> QED
  BY <1>3, <1>5, <1>6, <1>7, <1>9

(* No step breaks the invariant.                                           *)
LEMMA StepHolds == IInv /\ [Next]_vars => IInv'
<1> SUFFICES ASSUME IInv, [Next]_vars
             PROVE  IInv'
  OBVIOUS
<1>1. CASE \E M \in SUBSET Pids : BeginUpdate(M)
  BY <1>1, BeginUpdateKeeps
<1>2. CASE \E p \in Pids : Enter(p)
  BY <1>2, EnterKeeps
<1>3. CASE BeginWalk
  BY <1>3, BeginWalkKeeps
<1>4. CASE Signalled
  BY <1>4, SignalledKeeps
<1>5. CASE NotSignalled
  BY <1>5, NotSignalledKeeps
<1>6. CASE EndWalk
  BY <1>6 DEF IInv, EndWalk, Typed, Unlisted
<1>7. CASE Close
  BY <1>7, CloseKeeps
<1>8. CASE AbortUpdate
  BY <1>8 DEF IInv, AbortUpdate, Typed, Unlisted
<1>9. CASE \E p \in Pids : AbortListing(p)
  BY <1>9, AbortListingKeeps
<1>10. CASE AbortRemoval
  BY <1>10, AbortRemovalKeeps
<1>11. CASE Ended \/ UNCHANGED vars
  BY <1>11 DEF IInv, Ended, vars, Typed, Unlisted
<1> QED
  BY <1>1, <1>2, <1>3, <1>4, <1>5, <1>6, <1>7, <1>8, <1>9, <1>10, <1>11 DEF Next

LEMMA Invariant == Spec => []IInv
BY InitHolds, StepHolds, PTL DEF Spec

(* The invariant is as strong as what it is for.                           *)
LEMMA InvariantTypes == IInv => TypeOK
<1> SUFFICES ASSUME IInv
             PROVE  TypeOK
  OBVIOUS
<1>1. WellMade(heap) /\ Shaped(heap, Chains(heap)) /\ heap \in Heaps(Nat)
  BY DEF IInv, WellMade, Shaped
<1>2. Cardinality(Nodes) \in Nat
  BY NodesCounted
<1>3. \A l \in Lists : heap.count[l] \in 0 .. Cardinality(Nodes)
  <2> TAKE l \in Lists
  <2>1. Len(Chains(heap)[l]) \in Nat /\ Len(Chains(heap)[l]) <= Cardinality(Nodes)
    BY <1>1, ListsFit
  <2> QED
    BY <1>1, <1>2, <2>1 DEF Shaped
<1>4. heap \in Heaps(0 .. Cardinality(Nodes))
  BY <1>1, <1>3 DEF Heaps
<1>5. pc = "walk" /\ node # Null => node \in heap.used
  BY <1>1, ListsApart, WellMadeReads DEF IInv, Ahead
<1> QED
  BY <1>4, <1>5 DEF IInv, Typed, TypeOK

LEMMA InvariantLinks == IInv => WellLinked
<1> SUFFICES ASSUME IInv
             PROVE  WellLinked
  OBVIOUS
<1>1. WellMade(heap) /\ Shaped(heap, Chains(heap)) /\ OnlyMade(heap, made)
  BY DEF IInv, WellMade
<1>2. ASSUME NEW l \in Lists
      PROVE  /\ Chains(heap)[l] = Forward(heap, l)
             /\ Backward(heap, l) = Reverse(Forward(heap, l))
             /\ Len(Forward(heap, l)) = heap.count[l]
             /\ heap.count[l] > 0 /\ l \in Buckets => l \in made
             /\ Range(Forward(heap, l)) = {Forward(heap, l)[i] : i \in 1 .. Len(Forward(heap, l))}
  <2>1. /\ Chains(heap)[l] = Forward(heap, l) /\ Forward(heap, l) \in Seq(Nodes)
        /\ Len(Forward(heap, l)) = heap.count[l] /\ Len(Forward(heap, l)) \in Nat
        /\ Len(Contents(heap, l)) = Len(Forward(heap, l))
    BY <1>1, WellMadeReads
  <2>2. Backward(heap, l) = Reverse(Forward(heap, l))
    BY <1>1, <2>1, WalksRead
  <2>3. heap.count[l] > 0 /\ l \in Buckets => l \in made
    <3>1. Len(<<>>) = 0
      OBVIOUS
    <3> QED
      BY <1>1, <2>1, <3>1 DEF OnlyMade
  <2> QED
    BY <2>1, <2>2, <2>3, RangeEquality
<1>3. heap.used = UNION {Range(Forward(heap, l)) : l \in Lists}
  <2>1. Accounts(heap.used, Chains(heap))
    BY <1>1 DEF Shaped
  <2>2. \A l \in Lists : Range(Forward(heap, l)) \subseteq heap.used
    BY <1>2, <2>1 DEF Accounts
  <2>3. ASSUME NEW n \in heap.used
        PROVE  \E l \in Lists : n \in Range(Forward(heap, l))
    <3>1. PICK l \in Lists : \E i \in 1 .. Len(Chains(heap)[l]) : n = Chains(heap)[l][i]
      BY <2>1 DEF Accounts
    <3> QED
      BY <1>2, <3>1
  <2> QED
    BY <2>2, <2>3
<1>4. ASSUME NEW l \in Lists, NEW m \in Lists, l # m
      PROVE  Range(Forward(heap, l)) \cap Range(Forward(heap, m)) = {}
  BY <1>1, <1>2, <1>4 DEF Shaped, Apart
<1> QED
  BY <1>2, <1>3, <1>4 DEF IInv, WellLinked

LEMMA InvariantWalks == IInv => WalksAll
BY Turn DEF IInv, WalksAll, Ahead, Turning

(* The pointers point at nodes or are NULL, the counters never exceed the  *)
(* number of nodes, and the node at which a loop over proclist stands is   *)
(* never one that was freed.                                               *)
THEOREM TableTypeCorrect == Spec => []TypeOK
BY Invariant, InvariantTypes, PTL

(* Whatever was added, deleted while it was being traversed, or cleared:   *)
(* every list reads the same from both ends, is as long as its counter     *)
(* says, shares no node with another, and no node is lost; after           *)
(* close_process_group() none is left.                                     *)
THEOREM ListsWellLinked == Spec => []WellLinked
BY Invariant, InvariantLinks, PTL

(* No pid is ever in the table twice, or in a bucket in which              *)
(* process_table_find() does not look for it.                              *)
THEOREM EachOnceInTable == Spec => []OnceInTable
<1>1. IInv => OnceInTable
  BY ListsApart DEF IInv, Sorted, OnceInTable
<1> QED
  BY <1>1, Invariant, PTL

(* A loop over proclist reaches every process that was listed when it      *)
(* began, though delete_node() takes nodes out under it.                   *)
THEOREM LoopWalksAll == Spec => []WalksAll
BY Invariant, InvariantWalks, PTL

(* Lists and buckets are a set of known pids and a sequence of listed      *)
(* ones, changed as GroupMap says: every step is one of its steps or a     *)
(* stutter.                                                                *)
THEOREM TableImplementsMap == Spec => KeepsMap
<1>1. Init => Map!Init
  BY InitHolds DEF Init, Map!Init, Tabled
<1>2. IInv /\ [Next]_vars => [Map!Next]_(Map!mapVars)
  <2> SUFFICES ASSUME IInv, [Next]_vars
               PROVE  [Map!Next]_(Map!mapVars)
    OBVIOUS
  <2>1. ASSUME NEW M \in SUBSET Pids, BeginUpdate(M)
        PROVE  pc # "failed" /\ Map!Clear
    BY <2>1, BeginUpdateKeeps DEF BeginUpdate, Map!Clear, Tabled
  <2>2. ASSUME NEW p \in Pids, Enter(p)
        PROVE  pc # "failed" /\ Map!Enter(p)
    BY <2>2, EnterKeeps DEF Enter, Map!Enter, Map!Learn, Tabled
  <2>3. ASSUME NotSignalled
        PROVE  pc # "failed" /\ \E i \in DOMAIN Contents(heap, ProcList) : Map!Drop(i)
    <3>1. PICK i \in 1 .. Len(Contents(heap, ProcList)) :
            /\ Contents(heap', ProcList) = RemoveAt(Contents(heap, ProcList), i)
            /\ Tabled(heap') = Tabled(heap) \ {Contents(heap, ProcList)[i]}
      BY <2>3, NotSignalledKeeps
    <3>2. Map!Drop(i)
      BY <2>3, <3>1 DEF NotSignalled, Map!Drop, Map!Delist, Tabled, RemoveAt
    <3>3. DOMAIN Contents(heap, ProcList) = 1 .. Len(Contents(heap, ProcList))
      BY ListsApart, WellMadeReads DEF IInv
    <3> QED
      BY <2>3, <3>1, <3>2, <3>3 DEF NotSignalled
  <2>4. ASSUME Close
        PROVE  pc # "failed" /\ Map!Close
    BY <2>4, CloseKeeps DEF Close, Map!Close, Tabled
  <2>5. CASE BeginWalk \/ Signalled \/ EndWalk \/ Ended \/ UNCHANGED vars
    <3>1. heap' = heap /\ (pc' # "failed" <=> pc # "failed")
      BY <2>5 DEF BeginWalk, Signalled, EndWalk, Ended, vars
    <3> QED
      BY <3>1 DEF Map!mapVars
  <2>6. CASE AbortUpdate
    <3>1. heap' = heap /\ pc' = "failed" /\ pc # "failed"
      BY <2>6 DEF AbortUpdate
    <3>2. Map!Exit
      BY <3>1 DEF Map!Exit
    <3> QED
      BY <3>1, <3>2 DEF Map!Next
  <2>7. ASSUME NEW p \in Pids, AbortListing(p)
        PROVE  Map!Next
    <3>1. /\ Contents(heap', ProcList) = Contents(heap, ProcList)
          /\ Tabled(heap') \in {Tabled(heap), Tabled(heap) \cup {p}}
          /\ pc' = "failed" /\ pc # "failed"
      BY <2>7, AbortListingKeeps DEF AbortListing
    <3>2. Map!Exit
      BY <3>1 DEF Map!Exit, Map!Learn, Tabled
    <3> QED
      BY <3>1, <3>2 DEF Map!Next
  <2>8. CASE AbortRemoval
    <3>1. PICK i \in 1 .. Len(Contents(heap, ProcList)) :
            /\ Contents(heap', ProcList) = RemoveAt(Contents(heap, ProcList), i)
            /\ Tabled(heap') = Tabled(heap)
      BY <2>8, AbortRemovalKeeps
    <3>2. DOMAIN Contents(heap, ProcList) = 1 .. Len(Contents(heap, ProcList))
      BY ListsApart, WellMadeReads DEF IInv
    <3>3. pc' = "failed" /\ pc # "failed"
      BY <2>8 DEF AbortRemoval
    <3>4. Map!Exit
      BY <3>1, <3>2, <3>3 DEF Map!Exit, Map!Delist, Tabled, RemoveAt
    <3> QED
      BY <3>3, <3>4 DEF Map!Next
  <2> QED
    BY <2>1, <2>2, <2>3, <2>4, <2>5, <2>6, <2>7, <2>8 DEF Next, Map!Next
<1> QED
  BY <1>1, <1>2, Invariant, PTL DEF Spec, KeepsMap, Map!Spec

------------------------------------------------------------------------------
(* The invariant, and that a loop is not left before it has come to        *)
(* everybody.                                                              *)
InOrder == IInv /\ (pc \notin {"walk", "failed"} => due = {})

LEMMA InOrderStep == InOrder /\ [Next]_vars => InOrder'
<1> SUFFICES ASSUME InOrder, [Next]_vars
             PROVE  InOrder'
  OBVIOUS
<1> USE DEF InOrder
<1>1. IInv'
  BY StepHolds
<1>2. ASSUME NEW M \in SUBSET Pids, BeginUpdate(M)
      PROVE  InOrder'
  BY <1>1, <1>2 DEF BeginUpdate
<1>3. ASSUME NEW p \in Pids, Enter(p)
      PROVE  InOrder'
  BY <1>1, <1>3 DEF Enter
<1>4. CASE BeginWalk \/ Signalled \/ NotSignalled
  BY <1>1, <1>4 DEF BeginWalk, Signalled, NotSignalled
<1>5. CASE EndWalk
  BY <1>1, <1>5 DEF EndWalk, IInv, Ahead
<1>6. CASE Close \/ Ended \/ UNCHANGED vars
  BY <1>1, <1>6 DEF Close, Ended, vars
<1>7. CASE AbortUpdate \/ (\E p \in Pids : AbortListing(p)) \/ AbortRemoval
  BY <1>1, <1>7 DEF AbortUpdate, AbortListing, AbortRemoval
<1> QED
  BY <1>2, <1>3, <1>4, <1>5, <1>6, <1>7 DEF Next

(* What a loop is to come to is what is listed.                            *)
LEMMA WalkOwesAll ==
  ASSUME WellMade(heap)
  PROVE  {heap.data[n] : n \in Range(Forward(heap, ProcList))}
           = Range(Contents(heap, ProcList))
<1>1. PICK f, c : f = Forward(heap, ProcList) /\ c = Contents(heap, ProcList)
  OBVIOUS
<1>2. /\ f \in Seq(Nodes) /\ Len(f) \in Nat /\ c \in Seq(Pids) /\ Len(c) = Len(f)
      /\ \A i \in 1 .. Len(f) : c[i] = heap.data[f[i]]
  BY <1>1, ListsApart, WellMadeReads
<1>3. /\ Range(f) = {f[i] : i \in 1 .. Len(f)}
      /\ Range(c) = {c[i] : i \in 1 .. Len(f)}
  BY <1>2, RangeEquality
<1> QED
  BY <1>1, <1>2, <1>3

(* Every call is a step of GroupCalls or changes nothing that it speaks of. *)
LEMMA CallsStep ==
  ASSUME InOrder, [Next]_vars
  PROVE  [Calls!Next]_(Calls!callVars)
<1> USE DEF InOrder, Calls!Next, Calls!callVars
<1>1. ASSUME NEW M \in SUBSET Pids, BeginUpdate(M)
      PROVE  [Calls!Next]_(Calls!callVars)
  <2>1. Range(<<>>) = {}
    BY DEF Range
  <2>2. /\ Range(Contents(heap', ProcList)) = {}
        /\ Tabled(heap') = Tabled(heap)
    BY <1>1, <2>1, BeginUpdateKeeps
  <2>3. Calls!BeginScan
    BY <1>1, <2>2 DEF BeginUpdate, Tabled, Calls!BeginScan
  <2> QED
    BY <2>3
<1>2. ASSUME NEW p \in Pids, Enter(p)
      PROVE  [Calls!Next]_(Calls!callVars)
  <2>1. Calls!Enter(p)
    BY <1>2, EnterKeeps DEF Enter, Tabled, Calls!Enter
  <2> QED
    BY <2>1
<1>3. CASE BeginWalk
  <2>1. due' = Range(Contents(heap, ProcList))
    BY <1>3, WalkOwesAll DEF BeginWalk, IInv
  <2>2. Calls!BeginWalk
    BY <1>3, <2>1 DEF BeginWalk, Calls!BeginWalk
  <2> QED
    BY <2>2
<1>4. CASE Signalled
  <2>1. heap.data[node] \in due /\ due \subseteq Pids
    BY <1>4, Turn DEF Signalled, Turning, IInv, Typed
  <2>2. Calls!Signalled(heap.data[node])
    BY <1>4, <2>1 DEF Signalled, Calls!Signalled
  <2> QED
    BY <2>1, <2>2
<1>5. CASE NotSignalled
  <2>1. heap.data[node] \in due /\ due \subseteq Pids
    BY <1>5, Turn DEF NotSignalled, Turning, IInv, Typed
  <2>2. /\ Tabled(heap') = Tabled(heap) \ {heap.data[node]}
        /\ Range(Contents(heap', ProcList)) =
             Range(Contents(heap, ProcList)) \ {heap.data[node]}
    BY <1>5, NotSignalledKeeps
  <2>3. Calls!Dropped(heap.data[node])
    BY <1>5, <2>1, <2>2 DEF NotSignalled, Tabled, Calls!Dropped
  <2> QED
    BY <2>1, <2>3
<1>6. CASE EndWalk
  <2>1. due = {}
    BY <1>6 DEF EndWalk, IInv, Ahead
  <2>2. Calls!EndWalk
    BY <1>6, <2>1 DEF EndWalk, Calls!EndWalk
  <2> QED
    BY <2>2
<1>7. CASE Close
  <2>1. Range(<<>>) = {}
    BY DEF Range
  <2>2. Range(Contents(heap', ProcList)) = {} /\ Tabled(heap') = {}
    BY <1>7, <2>1, CloseKeeps
  <2>3. Calls!Close
    BY <1>7, <2>2 DEF Close, Tabled, Calls!Close
  <2> QED
    BY <2>3
<1>8. CASE AbortUpdate
  <2>1. Calls!Fail
    BY <1>8 DEF AbortUpdate, Calls!Fail
  <2> QED
    BY <2>1
<1>9. ASSUME NEW p \in Pids, AbortListing(p)
      PROVE  [Calls!Next]_(Calls!callVars)
  <2>1. /\ Contents(heap', ProcList) = Contents(heap, ProcList)
        /\ p \notin Range(Contents(heap, ProcList))
        /\ Tabled(heap') \in {Tabled(heap), Tabled(heap) \cup {p}}
    BY <1>9, AbortListingKeeps
  <2>2. CASE Tabled(heap') = Tabled(heap)
    <3>1. Calls!Fail
      BY <1>9, <2>1, <2>2 DEF AbortListing, Tabled, Calls!Fail
    <3> QED
      BY <3>1
  <2>3. CASE Tabled(heap') = Tabled(heap) \cup {p}
    <3>1. Calls!FailEntering(p)
      BY <1>9, <2>1, <2>3 DEF AbortListing, Tabled, Calls!FailEntering
    <3> QED
      BY <3>1
  <2> QED
    BY <2>1, <2>2, <2>3
<1>10. CASE AbortRemoval
  <2>1. heap.data[node] \in due /\ due \subseteq Pids
    BY <1>10, Turn DEF AbortRemoval, Turning, IInv, Typed
  <2>2. /\ Tabled(heap') = Tabled(heap)
        /\ Range(Contents(heap', ProcList)) =
             Range(Contents(heap, ProcList)) \ {heap.data[node]}
    BY <1>10, AbortRemovalKeeps
  <2>3. Calls!FailDropping(heap.data[node])
    BY <1>10, <2>1, <2>2 DEF AbortRemoval, Tabled, Calls!FailDropping
  <2> QED
    BY <2>1, <2>3
<1>11. CASE Ended \/ UNCHANGED vars
  BY <1>11 DEF Ended, vars
<1> QED
  BY <1>1, <1>2, <1>3, <1>4, <1>5, <1>6, <1>7, <1>8, <1>9, <1>10, <1>11 DEF Next

(* The nodes, pointers and buckets offer limit_process() what it takes the *)
(* group for: two sets of pids, the listed ones being those that a loop    *)
(* comes to, whatever it deletes on its way.                               *)
THEOREM TableUsesGroup == Spec => UsesGroup
<1>1. Init => InOrder /\ Calls!Init
  <2>1. Range(<<>>) = {}
    BY DEF Range
  <2> QED
    BY <2>1, InitHolds DEF Init, InOrder, Tabled, Calls!Init
<1> QED
  BY <1>1, InOrderStep, CallsStep, PTL DEF Spec, UsesGroup, Calls!Spec
==============================================================================

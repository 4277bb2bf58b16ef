-------------------------- MODULE ProcessGroupProofs --------------------------
(***************************************************************************)
(* Proofs about the accounting of ProcessGroup, for any number of pids and *)
(* descriptors, any MIN_DT and any resolution of the usage.                *)
(***************************************************************************)
EXTENDS ProcessGroup, TLAPS

(* What a step of the system leaves alone.                                 *)
Program == <<group, history, pc, first, stamp, unread, todo>>

LEMMA TypeInit == Init => TypeOK
BY ProcessGroupAssumption
DEF Init, TypeOK, heap, Descriptors, ProcessGroupAssumption

(* The usage is an integer, whatever the sample.                           *)
LEMMA AdjustedInt ==
  ASSUME TypeOK, NEW p \in Pids, table[p] # NoDesc, table[p] \in heap, dt >= MinDt
  PROVE  SampleOf(p) \in Int /\ Adjusted(desc[table[p]].cpu_usage, SampleOf(p)) \in Int
<1>1. dt \in Nat \ {0} /\ used[p] - desc[table[p]].cputime \in Int
  BY ProcessGroupAssumption DEF TypeOK, dt, Descriptors, ProcessGroupAssumption
<1>2. ((used[p] - desc[table[p]].cputime) * Scale) \div dt \in Int
  BY <1>1, ProcessGroupAssumption DEF ProcessGroupAssumption
<1>3. SampleOf(p) \in Int
  BY <1>2, ProcessGroupAssumption DEF SampleOf, Lesser, ProcessGroupAssumption
<1>4. desc[table[p]].cpu_usage \in Int
  BY DEF TypeOK, Descriptors
<1> QED
  BY <1>3, <1>4 DEF Adjusted

(* The variables keep their types, and the table and the list own the same *)
(* descriptors: each is in the table once, under its pid.                  *)
Owned ==
  /\ TypeOK
  /\ OwnedOnce
  /\ pc \in {"cont", "stop"} => todo \subseteq proclist

LEMMA OwnedInit == Init => Owned
BY TypeInit DEF Init, Owned, OwnedOnce

LEMMA OwnedStep == Owned /\ [Next]_vars => Owned'
<1> SUFFICES ASSUME Owned, [Next]_vars
             PROVE  Owned'
  OBVIOUS
<1> USE DEF Owned
<1>1. CASE System
  <2>1. UNCHANGED Program /\ TypeOK'
    BY <1>1, ProcessGroupAssumption
    DEF System, Tick, SetBack, Run, Start, Die, group, history, Program, TypeOK,
        heap, ProcessGroupAssumption
  <2> QED
    BY <2>1 DEF Program, group, OwnedOnce, heap
<1>2. CASE InitProcessGroup
  BY <1>2, ProcessGroupAssumption
  DEF InitProcessGroup, env, TypeOK, OwnedOnce, heap
<1>3. CASE BeginUpdate
  BY <1>3 DEF BeginUpdate, env, TypeOK, OwnedOnce, heap
<1>4. ASSUME NEW p \in Pids, PassOver(p)
      PROVE  Owned'
  BY <1>4 DEF PassOver, Unsampled, env, history, TypeOK, OwnedOnce, heap
<1>5. ASSUME NEW p \in Pids, AddMember(p)
      PROVE  Owned'
  <2> PICK d \in Desc \ heap :
        /\ desc' = [x \in heap \cup {d} |->
                      IF x = d THEN [pid |-> p, cputime |-> used[p],
                                     cpu_usage |-> NoUsage]
                               ELSE desc[x]]
        /\ table' = [table EXCEPT ![p] = d]
        /\ proclist' = proclist \cup {d}
    BY <1>5 DEF AddMember, Copied
  <2>1. heap' = heap \cup {d} /\ NoUsage \in Int
    BY ProcessGroupAssumption DEF heap, NoUsage, ProcessGroupAssumption
  <2>2. TypeOK'
    <3>1. desc' \in [heap' -> Descriptors]
      BY <2>1 DEF TypeOK, Descriptors
    <3> QED
      BY <1>5, <2>1, <3>1
      DEF AddMember, Yield, Unsampled, env, history, TypeOK
  <2>3. OwnedOnce'
    BY <1>5, <2>1, ProcessGroupAssumption
    DEF AddMember, OwnedOnce, TypeOK, ProcessGroupAssumption
  <2> QED
    BY <1>5, <2>2, <2>3 DEF AddMember, Yield
<1>6. ASSUME NEW p \in Pids, RelistMember(p)
      PROVE  Owned'
  <2>1. OwnedOnce'
    BY <1>6 DEF RelistMember, OwnedOnce, heap
  <2> QED
    BY <1>6, <2>1
    DEF RelistMember, Yield, Unsampled, env, history, TypeOK, heap,
        OwnedOnce
<1>7. ASSUME NEW p \in Pids, SampleMember(p)
      PROVE  Owned'
  <2>1. table[p] \in heap /\ desc[table[p]].pid = p
    BY <1>7 DEF SampleMember, OwnedOnce
  <2>2. Adjusted(desc[table[p]].cpu_usage, SampleOf(p)) \in Int
    BY <1>7, <2>1, AdjustedInt DEF SampleMember
  <2>3. /\ heap' = heap
        /\ desc' \in [heap' -> Descriptors]
        /\ \A d \in heap : desc'[d].pid = desc[d].pid
    BY <1>7, <2>1, <2>2 DEF SampleMember, TypeOK, heap, Descriptors
  <2>4. TypeOK'
    BY <1>7, <2>1, <2>3
    DEF SampleMember, Yield, Unsampled, env, history, TypeOK
  <2>5. OwnedOnce'
    BY <1>7, <2>1, <2>3 DEF SampleMember, OwnedOnce
  <2> QED
    BY <1>7, <2>4, <2>5 DEF SampleMember, Yield
<1>8. CASE EndUpdate
  <2>1. TypeOK'
    BY <1>8 DEF EndUpdate, env, TypeOK, heap
  <2> QED
    BY <1>8, <2>1 DEF EndUpdate, OwnedOnce, heap
<1>9. ASSUME NEW d \in Desc, Signalled(d)
      PROVE  Owned'
  BY <1>9 DEF Signalled, env, group, history, TypeOK, OwnedOnce, heap
<1>10. ASSUME NEW d \in Desc, RemoveProcess(d)
       PROVE  Owned'
  <2>1. TypeOK'
    BY <1>10 DEF RemoveProcess, Unsignalled, env, history, TypeOK, heap
  <2>2. OwnedOnce'
    BY <1>10 DEF RemoveProcess, Unsignalled, OwnedOnce, TypeOK, heap
  <2> QED
    BY <1>10, <2>1, <2>2 DEF RemoveProcess, Unsignalled
<1>11. CASE EndSignals
  BY <1>11 DEF EndSignals, env, group, history, TypeOK, OwnedOnce, heap
<1>12. CASE CloseProcessGroup
  <2>1. heap' = heap \ {table[p] : p \in Pids}
    BY <1>12 DEF CloseProcessGroup, heap
  <2>2. TypeOK'
    BY <1>12, <2>1 DEF CloseProcessGroup, env, history, TypeOK
  <2> QED
    BY <1>12, <2>2 DEF CloseProcessGroup, OwnedOnce
<1>13. CASE AbortUpdate
  BY <1>13 DEF AbortUpdate, Unsampled, env, history, TypeOK, OwnedOnce, heap
<1>14. ASSUME NEW p \in Pids, AbortListing(p)
       PROVE  Owned'
  <2>0. PICK d \in Desc \ heap :
        /\ desc' = [x \in heap \cup {d} |->
                      IF x = d THEN [pid |-> p, cputime |-> used[p],
                                     cpu_usage |-> NoUsage]
                               ELSE desc[x]]
        /\ table' \in {table, [table EXCEPT ![p] = d]}
    BY <1>14 DEF AbortListing, Copied
  <2>1. /\ heap' = heap \cup {d} /\ NoUsage \in Int
        /\ proclist' = proclist
    BY <1>14, <2>0, ProcessGroupAssumption
    DEF AbortListing, heap, NoUsage, ProcessGroupAssumption
  <2>2. TypeOK'
    <3>1. desc' \in [heap' -> Descriptors]
      BY <2>0, <2>1 DEF TypeOK, Descriptors
    <3>2. table' \in [Pids -> Desc \cup {NoDesc}]
      BY <2>0 DEF TypeOK
    <3> QED
      BY <1>14, <2>1, <3>1, <3>2
      DEF AbortListing, Yield, Unsampled, env, history, TypeOK
  <2>3. OwnedOnce'
    <3>1. CASE table' = table
      BY <2>0, <2>1, <3>1 DEF OwnedOnce
    <3>2. CASE table' = [table EXCEPT ![p] = d]
      BY <1>14, <2>0, <2>1, <3>2, ProcessGroupAssumption
      DEF AbortListing, OwnedOnce, TypeOK, ProcessGroupAssumption
    <3> QED
      BY <2>0, <3>1, <3>2
  <2> QED
    BY <1>14, <2>2, <2>3 DEF AbortListing
<1>15. ASSUME NEW d \in Desc, AbortRemoval(d)
       PROVE  Owned'
  BY <1>15
  DEF AbortRemoval, Unsignalled, env, history, TypeOK, OwnedOnce, heap
<1>16. CASE UNCHANGED vars
  BY <1>16 DEF vars, env, group, history, TypeOK, OwnedOnce, heap
<1> QED
  BY <1>1, <1>2, <1>3, <1>4, <1>5, <1>6, <1>7, <1>8, <1>9, <1>10, <1>11,
     <1>12, <1>13, <1>14, <1>15, <1>16
  DEF Next, Abort, Closed

(* Type correctness of the accounting.                                     *)
THEOREM GroupTypeCorrect == Spec => []TypeOK
<1>1. Owned => TypeOK
  BY DEF Owned
<1> QED
  BY OwnedInit, OwnedStep, <1>1, PTL DEF Spec

(* Under every fault, each listed descriptor is allocated and is the one   *)
(* the table has for its pid, and none is in the table twice.              *)
THEOREM NobodyFreedTwice == Spec => []OwnedOnce
<1>1. Owned => OwnedOnce
  BY DEF Owned
<1> QED
  BY OwnedInit, OwnedStep, <1>1, PTL DEF Spec

------------------------------------------------------------------------------
(* Without recycled pids: an entry of the table was read from the process  *)
(* that still has the pid, whose CPU time has only grown since.            *)
ReadEarlier ==
  \A p \in Pids : table[p] # NoDesc =>
                     life[p] # "unborn" /\ desc[table[p]].cputime <= used[p]

Measured ==
  /\ Owned
  /\ ReadEarlier
  /\ UsageInRange

(* A sample of CPU time that grew over a time that passed is a share, and  *)
(* so is the mean of two shares.                                           *)
LEMMA SampleIsShare ==
  ASSUME Measured, NEW p \in Pids, table[p] # NoDesc, dt >= MinDt
  PROVE  /\ SampleOf(p) \in 0 .. Scale
         /\ Adjusted(desc[table[p]].cpu_usage, SampleOf(p)) \in 0 .. Scale
<1> USE ProcessGroupAssumption DEF ProcessGroupAssumption, Measured, Owned
<1>1. table[p] \in heap
  BY DEF OwnedOnce
<1>2. dt \in Nat \ {0} /\ used[p] - desc[table[p]].cputime \in Nat
  BY <1>1 DEF TypeOK, dt, Descriptors, ReadEarlier
<1> DEFINE x == (used[p] - desc[table[p]].cputime) * Scale
<1>3. x \in Nat
  BY <1>2
<1> HIDE DEF x
<1>4. x \div dt \in Nat
  BY <1>2, <1>3
<1>5. SampleOf(p) \in 0 .. Scale
  BY <1>4 DEF SampleOf, Lesser, x
<1>6. desc[table[p]].cpu_usage = NoUsage \/ desc[table[p]].cpu_usage \in 0 .. Scale
  BY <1>1 DEF UsageInRange
<1> QED
  BY <1>5, <1>6 DEF Adjusted, NoUsage

LEMMA MeasuredInit == Init => Measured
BY OwnedInit DEF Init, Measured, ReadEarlier, UsageInRange, heap

LEMMA MeasuredStep == ~Recycled /\ Measured /\ [Next]_vars => Measured'
<1> SUFFICES ASSUME ~Recycled, Measured, [Next]_vars
             PROVE  Measured'
  OBVIOUS
<1> USE DEF Measured
<1>1. Owned'
  BY OwnedStep
<1>2. TypeOK /\ OwnedOnce
  BY DEF Owned
<1>3. CASE System
  <2>1. UsageInRange'
    BY <1>3 DEF System, group, UsageInRange, heap
  <2>2. ReadEarlier'
    <3>1. \A p \in Pids : table[p] # NoDesc => desc[table[p]].cputime \in Nat
      BY <1>2 DEF TypeOK, OwnedOnce, Descriptors
    <3> QED
      BY <1>2, <1>3, <3>1
      DEF System, Tick, SetBack, Run, Start, Die, group, ReadEarlier, TypeOK
  <2> QED
    BY <1>1, <2>1, <2>2
<1>4. CASE InitProcessGroup
  BY <1>1, <1>4
  DEF InitProcessGroup, env, ReadEarlier, UsageInRange, heap
<1>5. ASSUME NEW p \in Pids, AddMember(p)
      PROVE  Measured'
  <2> PICK d \in Desc \ heap :
        /\ desc' = [x \in heap \cup {d} |->
                      IF x = d THEN [pid |-> p, cputime |-> used[p],
                                     cpu_usage |-> NoUsage]
                               ELSE desc[x]]
        /\ table' = [table EXCEPT ![p] = d]
    BY <1>5 DEF AddMember, Copied
  <2>1. heap' = heap \cup {d} /\ life[p] = "alive" /\ UNCHANGED env
    BY <1>5 DEF AddMember, Yield, Unsampled, heap
  <2>2. UsageInRange'
    BY <2>1, ProcessGroupAssumption
    DEF UsageInRange, NoUsage, ProcessGroupAssumption
  <2>3. ReadEarlier'
    BY <1>2, <2>1 DEF ReadEarlier, env, TypeOK, OwnedOnce
  <2> QED
    BY <1>1, <2>2, <2>3
<1>6. ASSUME NEW p \in Pids, SampleMember(p)
      PROVE  Measured'
  <2>1. /\ table[p] \in heap /\ table' = table /\ heap' = heap /\ UNCHANGED env
        /\ \A d \in heap \ {table[p]} : desc'[d] = desc[d]
        /\ desc'[table[p]].cputime = used[p]
        /\ desc'[table[p]].cpu_usage =
             Adjusted(desc[table[p]].cpu_usage, SampleOf(p))
    BY <1>2, <1>6 DEF SampleMember, OwnedOnce, Unsampled, heap, TypeOK
  <2>2. UsageInRange'
    BY <1>6, <2>1, SampleIsShare
    DEF SampleMember, UsageInRange, NoUsage
  <2>3. ReadEarlier'
    BY <1>2, <2>1 DEF ReadEarlier, env, TypeOK, OwnedOnce
  <2> QED
    BY <1>1, <2>2, <2>3
<1>7. ASSUME NEW d \in Desc, RemoveProcess(d)
      PROVE  Measured'
  <2>1. \A p \in Pids : table'[p] = table[p] \/ table'[p] = NoDesc
    BY <1>2, <1>7 DEF RemoveProcess, TypeOK
  <2> QED
    BY <1>1, <1>7, <2>1
    DEF RemoveProcess, env, ReadEarlier, UsageInRange, heap
<1>8. CASE CloseProcessGroup
  BY <1>1, <1>8 DEF CloseProcessGroup, ReadEarlier, UsageInRange, heap, NoUsage
<1>9. ASSUME UNCHANGED <<env, desc, table>>
      PROVE  Measured'
  BY <1>1, <1>9 DEF env, ReadEarlier, UsageInRange, heap
<1>10. ASSUME NEW p \in Pids, PassOver(p) \/ RelistMember(p)
       PROVE  Measured'
  BY <1>9, <1>10 DEF PassOver, RelistMember, Unsampled
<1>11. ASSUME NEW d \in Desc, Signalled(d)
       PROVE  Measured'
  BY <1>9, <1>11 DEF Signalled, group
<1>12. CASE BeginUpdate \/ EndUpdate \/ EndSignals \/ AbortUpdate \/ UNCHANGED vars
  BY <1>9, <1>12
  DEF BeginUpdate, EndUpdate, EndSignals, AbortUpdate, Unsampled, group, vars
<1>13. ASSUME NEW p \in Pids, AbortListing(p)
       PROVE  Measured'
  <2>0. PICK d \in Desc \ heap :
        /\ desc' = [x \in heap \cup {d} |->
                      IF x = d THEN [pid |-> p, cputime |-> used[p],
                                     cpu_usage |-> NoUsage]
                               ELSE desc[x]]
        /\ table' \in {table, [table EXCEPT ![p] = d]}
    BY <1>13 DEF AbortListing, Copied
  <2>1. heap' = heap \cup {d} /\ life[p] = "alive" /\ UNCHANGED env
    BY <1>13, <2>0 DEF AbortListing, Yield, Unsampled, heap
  <2>2. UsageInRange'
    BY <2>0, <2>1, ProcessGroupAssumption
    DEF UsageInRange, NoUsage, ProcessGroupAssumption
  <2>3. ReadEarlier'
    <3>1. CASE table' = table
      BY <1>2, <2>0, <2>1, <3>1 DEF ReadEarlier, env, TypeOK, OwnedOnce
    <3>2. CASE table' = [table EXCEPT ![p] = d]
      BY <1>2, <2>0, <2>1, <3>2 DEF ReadEarlier, env, TypeOK, OwnedOnce
    <3> QED
      BY <2>0, <3>1, <3>2
  <2> QED
    BY <1>1, <2>2, <2>3
<1>14. ASSUME NEW d \in Desc, AbortRemoval(d)
       PROVE  Measured'
  BY <1>9, <1>14 DEF AbortRemoval
<1> QED
  BY <1>3, <1>4, <1>5, <1>6, <1>7, <1>8, <1>10, <1>11, <1>12, <1>13, <1>14
  DEF Next, Abort, Closed

(* Unless a pid is recycled, every usage is -1 or a share of one CPU, even *)
(* if the clock is set back and scans miss members.                        *)
THEOREM UsageIsShare ==
  ASSUME ~Recycled
  PROVE  Spec => []UsageInRange
<1>1. Measured /\ [Next]_vars => Measured'
  BY MeasuredStep
<1>2. Measured => UsageInRange
  BY DEF Measured
<1> QED
  BY MeasuredInit, <1>1, <1>2, PTL DEF Spec

------------------------------------------------------------------------------
(* What a scan that counts has read by then is no older than its stamp.    *)
ScanCounts ==
  pc = "scan" /\ dt >= MinDt =>
    \A p \in Pids \ unread : table[p] # NoDesc /\ life[p] = "alive" =>
                               desc[table[p]].cputime >= usedAtStamp[p]

UsedGrows ==
  \A p \in Pids : /\ usedAtLast[p] <= used[p] /\ usedAtStamp[p] <= used[p]
                  /\ life[p] = "unborn" => used[p] = 0

Counted ==
  /\ Measured
  /\ UsedGrows
  /\ ScanCounts
  /\ UsageNotOverstated

LEMMA CountedInit == Init => Counted
BY MeasuredInit DEF Init, Counted, UsedGrows, ScanCounts, UsageNotOverstated

LEMMA CountedStep ==
  ~Recycled /\ ~Missed /\ Counted /\ [Next]_vars => Counted'
<1> SUFFICES ASSUME ~Recycled, ~Missed, Counted, [Next]_vars
             PROVE  Counted'
  OBVIOUS
<1> USE DEF Counted
<1>1. Measured'
  BY MeasuredStep
<1>2. TypeOK /\ OwnedOnce /\ ReadEarlier
  BY DEF Measured, Owned
<1>3. CASE System
  <2>1. UNCHANGED <<desc, table, history, pc, stamp, last_update, unread>>
    BY <1>3 DEF System, group
  <2>2. UsedGrows'
    BY <1>2, <1>3, <2>1
    DEF System, Tick, SetBack, Run, Start, Die, history, UsedGrows, TypeOK
  <2>3. \A p \in Pids : table[p] # NoDesc /\ life'[p] = "alive" =>
                         life[p] = "alive"
    BY <1>2, <1>3
    DEF System, Tick, SetBack, Run, Start, Die, ReadEarlier, TypeOK
  <2> QED
    BY <1>1, <2>1, <2>2, <2>3
    DEF history, ScanCounts, UsageNotOverstated, dt
<1>4. CASE InitProcessGroup
  BY <1>1, <1>2, <1>4
  DEF InitProcessGroup, env, UsedGrows, ScanCounts, UsageNotOverstated, TypeOK
<1>5. CASE BeginUpdate
  BY <1>1, <1>2, <1>5
  DEF BeginUpdate, env, UsedGrows, ScanCounts, UsageNotOverstated, TypeOK
<1>6. ASSUME NEW p \in Pids, PassOver(p)
      PROVE  Counted'
  BY <1>1, <1>6
  DEF PassOver, Unsampled, env, history, UsedGrows, ScanCounts,
      UsageNotOverstated, dt
<1>7. ASSUME NEW p \in Pids, AddMember(p)
      PROVE  Counted'
  <2> PICK d \in Desc \ heap :
        /\ desc' = [x \in heap \cup {d} |->
                      IF x = d THEN [pid |-> p, cputime |-> used[p],
                                     cpu_usage |-> NoUsage]
                               ELSE desc[x]]
        /\ table' = [table EXCEPT ![p] = d]
    BY <1>7 DEF AddMember, Copied
  <2>1. /\ UNCHANGED <<env, history, stamp, last_update>>
        /\ unread' = unread \ {p} /\ pc' = pc /\ pc = "scan"
    BY <1>7 DEF AddMember, Yield, Unsampled
  <2>2. /\ table'[p] = d /\ desc'[d].cputime = used[p]
        /\ \A q \in Pids \ {p} : table'[q] = table[q]
        /\ \A q \in Pids \ {p} : table[q] # NoDesc =>
                                    desc'[table[q]] = desc[table[q]]
    BY <1>2 DEF TypeOK, OwnedOnce
  <2>3. UsedGrows'
    BY <2>1 DEF env, history, UsedGrows
  <2>4. UsageNotOverstated'
    <3> SUFFICES ASSUME NEW q \in Pids, table'[q] # NoDesc, life[q] = "alive"
                 PROVE  desc'[table'[q]].cputime >= usedAtLast[q]
      BY <2>1 DEF env, history, UsageNotOverstated
    <3>1. CASE q = p
      BY <1>2, <2>2, <3>1 DEF UsedGrows, TypeOK
    <3>2. CASE q # p
      BY <2>2, <3>2 DEF UsageNotOverstated
    <3> QED
      BY <3>1, <3>2
  <2>5. ScanCounts'
    <3> SUFFICES ASSUME pc = "scan", dt >= MinDt, NEW q \in Pids \ (unread \ {p}),
                        table'[q] # NoDesc, life[q] = "alive"
                 PROVE  desc'[table'[q]].cputime >= usedAtStamp[q]
      BY <2>1 DEF env, history, ScanCounts, dt
    <3>1. CASE q = p
      BY <1>2, <2>2, <3>1 DEF UsedGrows, TypeOK
    <3>2. CASE q # p
      BY <2>2, <3>2 DEF ScanCounts
    <3> QED
      BY <3>1, <3>2
  <2> QED
    BY <1>1, <2>3, <2>4, <2>5
<1>8. ASSUME NEW p \in Pids, SampleMember(p)
      PROVE  Counted'
  <2>1. /\ UNCHANGED <<env, history, stamp, last_update, table>>
        /\ unread' = unread \ {p} /\ pc' = pc /\ pc = "scan"
    BY <1>8 DEF SampleMember, Yield, Unsampled
  <2>2. /\ desc'[table[p]].cputime = used[p]
        /\ \A q \in Pids \ {p} : table[q] # NoDesc =>
                                    desc'[table[q]] = desc[table[q]]
    BY <1>2, <1>8 DEF SampleMember, TypeOK, OwnedOnce, heap
  <2>3. UsedGrows'
    BY <2>1 DEF env, history, UsedGrows
  <2>4. UsageNotOverstated'
    <3> SUFFICES ASSUME NEW q \in Pids, table[q] # NoDesc, life[q] = "alive"
                 PROVE  desc'[table[q]].cputime >= usedAtLast[q]
      BY <2>1 DEF env, history, UsageNotOverstated
    <3>1. CASE q = p
      BY <1>2, <2>2, <3>1 DEF UsedGrows, TypeOK
    <3>2. CASE q # p
      BY <2>2, <3>2 DEF UsageNotOverstated
    <3> QED
      BY <3>1, <3>2
  <2>5. ScanCounts'
    <3> SUFFICES ASSUME pc = "scan", dt >= MinDt, NEW q \in Pids \ (unread \ {p}),
                        table[q] # NoDesc, life[q] = "alive"
                 PROVE  desc'[table[q]].cputime >= usedAtStamp[q]
      BY <2>1 DEF env, history, ScanCounts, dt
    <3>1. CASE q = p
      BY <1>2, <2>2, <3>1 DEF UsedGrows, TypeOK
    <3>2. CASE q # p
      BY <2>2, <3>2 DEF ScanCounts
    <3> QED
      BY <3>1, <3>2
  <2> QED
    BY <1>1, <2>3, <2>4, <2>5
<1>9. ASSUME NEW p \in Pids, RelistMember(p)
      PROVE  Counted'
  BY <1>1, <1>2, <1>9, ProcessGroupAssumption
  DEF RelistMember, Yield, Unsampled, env, history, UsedGrows, ScanCounts,
      UsageNotOverstated, dt, TypeOK, ProcessGroupAssumption
<1>10. CASE AbortUpdate
  BY <1>1, <1>10
  DEF AbortUpdate, Unsampled, env, history, UsedGrows, ScanCounts,
      UsageNotOverstated
<1>11. CASE EndUpdate
  <2>1. /\ UNCHANGED <<env, desc, table, usedAtStamp, stamp>> /\ pc' # "scan"
        /\ pc = "scan" /\ unread = {}
        /\ \/ dt < MinDt /\ usedAtLast' = usedAtLast
           \/ ~(dt < MinDt) /\ usedAtLast' = usedAtStamp
    BY <1>11 DEF EndUpdate
  <2>2. ~(dt < MinDt) => dt >= MinDt
    BY <1>2, ProcessGroupAssumption DEF TypeOK, dt, ProcessGroupAssumption
  <2> QED
    BY <1>1, <2>1, <2>2 DEF env, UsedGrows, ScanCounts, UsageNotOverstated
<1>12. ASSUME NEW d \in Desc, Signalled(d)
       PROVE  Counted'
  BY <1>1, <1>12
  DEF Signalled, env, group, history, UsedGrows, ScanCounts, UsageNotOverstated
<1>13. ASSUME NEW d \in Desc, RemoveProcess(d)
       PROVE  Counted'
  <2>1. /\ pc' # "scan"
        /\ \A p \in Pids : table'[p] = table[p] \/ table'[p] = NoDesc
    BY <1>2, <1>13 DEF RemoveProcess, Unsignalled, TypeOK
  <2> QED
    BY <1>1, <1>13, <2>1
    DEF RemoveProcess, env, history, UsedGrows, ScanCounts, UsageNotOverstated
<1>14. CASE EndSignals
  BY <1>1, <1>14
  DEF EndSignals, env, group, history, UsedGrows, ScanCounts, UsageNotOverstated
<1>15. CASE CloseProcessGroup
  BY <1>1, <1>15
  DEF CloseProcessGroup, env, history, UsedGrows, ScanCounts, UsageNotOverstated
<1>16. ASSUME NEW p \in Pids, AbortListing(p)
       PROVE  Counted'
  <2>0. PICK d \in Desc \ heap :
        /\ desc' = [x \in heap \cup {d} |->
                      IF x = d THEN [pid |-> p, cputime |-> used[p],
                                     cpu_usage |-> NoUsage]
                               ELSE desc[x]]
        /\ table' \in {table, [table EXCEPT ![p] = d]}
    BY <1>16 DEF AbortListing, Copied
  <2>1. UNCHANGED <<env, history>> /\ pc' = "failed"
    BY <1>16 DEF AbortListing, Unsampled
  <2>2. /\ table'[p] # table[p] => table'[p] = d
        /\ desc'[d].cputime = used[p]
        /\ \A q \in Pids \ {p} : table'[q] = table[q]
        /\ \A q \in Pids : table[q] # NoDesc =>
                                desc'[table[q]] = desc[table[q]]
    BY <1>2, <2>0 DEF TypeOK, OwnedOnce
  <2>3. UsedGrows' /\ ScanCounts'
    BY <2>1 DEF env, history, UsedGrows, ScanCounts
  <2>4. UsageNotOverstated'
    <3> SUFFICES ASSUME NEW q \in Pids, table'[q] # NoDesc, life[q] = "alive"
                 PROVE  desc'[table'[q]].cputime >= usedAtLast[q]
      BY <2>1 DEF env, history, UsageNotOverstated
    <3>1. CASE table'[q] = table[q]
      BY <2>2, <3>1 DEF UsageNotOverstated
    <3>2. CASE table'[q] # table[q]
      BY <1>2, <2>2, <3>2 DEF UsedGrows, TypeOK
    <3> QED
      BY <3>1, <3>2
  <2> QED
    BY <1>1, <2>3, <2>4
<1>17. ASSUME NEW d \in Desc, AbortRemoval(d)
       PROVE  Counted'
  BY <1>1, <1>17
  DEF AbortRemoval, env, history, UsedGrows, ScanCounts, UsageNotOverstated
<1>18. CASE UNCHANGED vars
  BY <1>1, <1>18
  DEF vars, env, group, history, UsedGrows, ScanCounts, UsageNotOverstated, dt
<1> QED
  BY <1>3, <1>4, <1>5, <1>6, <1>7, <1>8, <1>9, <1>10, <1>11, <1>12, <1>13,
     <1>14, <1>15, <1>16, <1>17, <1>18
  DEF Next, Abort, Closed

(* If, besides, no scan misses a live member, the CPU time that a sample   *)
(* divides by dt was all used since last_update, from which dt counts.     *)
THEOREM UsageNeverOverstated ==
  ASSUME ~Recycled, ~Missed
  PROVE  Spec => []UsageNotOverstated
<1>1. Counted /\ [Next]_vars => Counted'
  BY CountedStep
<1>2. Counted => UsageNotOverstated
  BY DEF Counted
<1> QED
  BY CountedInit, <1>1, <1>2, PTL DEF Spec

------------------------------------------------------------------------------
(* Every descriptor is in the table but those that were taken out of it.   *)
Accounted ==
  /\ Measured
  /\ LostOnlyRemoved
  /\ pc = "init" => heap = {}

LEMMA AccountedInit == Init => Accounted
BY MeasuredInit DEF Init, Accounted, LostOnlyRemoved, heap

LEMMA AccountedStep == ~Recycled /\ Accounted /\ [Next]_vars => Accounted'
<1> SUFFICES ASSUME ~Recycled, Accounted, [Next]_vars
             PROVE  Accounted'
  OBVIOUS
<1> USE DEF Accounted
<1>1. Measured' /\ TypeOK /\ OwnedOnce
  BY MeasuredStep DEF Measured, Owned
<1>2. ASSUME UNCHANGED <<desc, life, table>>, pc' # "init", pc # "failed"
      PROVE  Accounted'
  BY <1>1, <1>2 DEF LostOnlyRemoved, heap
<1>3. CASE System
  <2>1. UNCHANGED <<desc, table, pc>>
    BY <1>3 DEF System, group
  <2>2. \A p \in Pids : life[p] = "dead" => life'[p] = "dead"
    BY <1>1, <1>3 DEF System, Tick, SetBack, Run, Start, Die, TypeOK
  <2>3. \A d \in heap : desc[d].pid \in Pids
    BY <1>1 DEF TypeOK, Descriptors
  <2> QED
    BY <1>1, <2>1, <2>2, <2>3 DEF LostOnlyRemoved, heap
<1>4. CASE InitProcessGroup
  BY <1>1, <1>4 DEF InitProcessGroup, LostOnlyRemoved, heap
<1>5. ASSUME NEW p \in Pids, AddMember(p)
      PROVE  Accounted'
  <2> PICK d \in Desc \ heap :
        /\ desc' = [x \in heap \cup {d} |->
                      IF x = d THEN [pid |-> p, cputime |-> used[p],
                                     cpu_usage |-> NoUsage]
                               ELSE desc[x]]
        /\ table' = [table EXCEPT ![p] = d]
    BY <1>5 DEF AddMember, Copied
  <2>1. /\ heap' = heap \cup {d} /\ UNCHANGED <<life, pc>> /\ pc = "scan"
        /\ table[p] = NoDesc
    BY <1>5 DEF AddMember, Yield, Unsampled, env, heap
  <2>2. LostOnlyRemoved'
    <3> SUFFICES ASSUME NEW x \in heap \cup {d}, \A q \in Pids : table'[q] # x
                 PROVE  desc'[x].pid \in Foreign \/ life[desc'[x].pid] = "dead"
      BY <2>1 DEF LostOnlyRemoved
    <3>1. table'[p] = d
      BY <1>1 DEF TypeOK
    <3>2. x \in heap /\ x # d /\ desc'[x] = desc[x]
      BY <3>1
    <3>3. \A q \in Pids : table[q] # x
      BY <1>1, <2>1, <3>2, ProcessGroupAssumption
      DEF TypeOK, ProcessGroupAssumption
    <3> QED
      BY <2>1, <3>2, <3>3 DEF LostOnlyRemoved
  <2> QED
    BY <1>1, <2>1, <2>2
<1>6. ASSUME NEW p \in Pids, SampleMember(p)
      PROVE  Accounted'
  <2>1. /\ heap' = heap /\ pc = "scan" /\ UNCHANGED <<life, table, pc>>
        /\ \A d \in heap : desc'[d].pid = desc[d].pid
    BY <1>1, <1>6
    DEF SampleMember, Yield, OwnedOnce, Unsampled, env, heap, TypeOK
  <2> QED
    BY <1>1, <2>1 DEF LostOnlyRemoved
<1>7. ASSUME NEW d \in Desc, RemoveProcess(d)
      PROVE  Accounted'
  <2>1. /\ d \in proclist /\ desc[d].pid \in Pids
        /\ table[desc[d].pid] = d
    BY <1>1, <1>7
    DEF RemoveProcess, Unsignalled, Measured, Owned, OwnedOnce, TypeOK, Descriptors
  <2>2. /\ UNCHANGED <<desc, life, pc>> /\ pc \notin {"init", "failed"}
        /\ \A q \in Pids \ {desc[d].pid} : table'[q] = table[q]
        /\ desc[d].pid \in Foreign \/ life[desc[d].pid] = "dead"
    BY <1>1, <1>7 DEF RemoveProcess, Unsignalled, env, TypeOK
  <2>3. LostOnlyRemoved'
    BY <2>1, <2>2 DEF LostOnlyRemoved, heap
  <2> QED
    BY <1>1, <2>2, <2>3
<1>8. CASE CloseProcessGroup
  <2>1. /\ heap' = heap \ {table[p] : p \in Pids} /\ pc = "close" /\ pc' = "done"
        /\ \A d \in heap' : desc'[d] = desc[d]
        /\ UNCHANGED life
    BY <1>8 DEF CloseProcessGroup, env, heap
  <2>2. \A d \in heap' : d \in heap /\ \A p \in Pids : table[p] # d
    BY <2>1
  <2> QED
    BY <1>1, <2>1, <2>2 DEF LostOnlyRemoved
<1>9. ASSUME NEW p \in Pids, PassOver(p) \/ RelistMember(p)
      PROVE  Accounted'
  BY <1>2, <1>9 DEF PassOver, RelistMember, Yield, Unsampled, env
<1>10. ASSUME NEW d \in Desc, Signalled(d)
       PROVE  Accounted'
  BY <1>2, <1>10 DEF Signalled, group, env
<1>11. CASE BeginUpdate \/ EndUpdate \/ EndSignals
  BY <1>2, <1>11 DEF BeginUpdate, EndUpdate, EndSignals, group, env
<1>12. CASE Abort
  <2>1. pc' = "failed"
    BY <1>12 DEF Abort, AbortUpdate, AbortListing, AbortRemoval
  <2> QED
    BY <1>1, <2>1 DEF LostOnlyRemoved
<1>13. CASE UNCHANGED vars
  BY <1>1, <1>13 DEF vars, env, group, LostOnlyRemoved, heap
<1> QED
  BY <1>3, <1>4, <1>5, <1>6, <1>7, <1>8, <1>9, <1>10, <1>11, <1>12, <1>13
  DEF Next, Closed

(* Unless a pid is recycled, the only descriptors that are not freed in    *)
(* the end are those remove_process() was called for when kill() failed.   *)
THEOREM OnlyRemovedAreLost ==
  ASSUME ~Recycled
  PROVE  Spec => []LostOnlyRemoved
<1>1. Accounted /\ [Next]_vars => Accounted'
  BY AccountedStep
<1>2. Accounted => LostOnlyRemoved
  BY DEF Accounted
<1> QED
  BY AccountedInit, <1>1, <1>2, PTL DEF Spec
------------------------------------------------------------------------------
(* Where the program stands in the use of its process group: who is listed *)
(* is no longer unread, and no loop is left before its end.                *)
InOrder ==
  /\ Owned
  /\ pc = "init" => proclist = {} /\ \A p \in Pids : table[p] = NoDesc
  /\ pc = "scan" => \A d \in proclist : desc[d].pid \notin unread
  /\ pc \notin {"cont", "stop", "failed"} => todo = {}

LEMMA InOrderStep == InOrder /\ [Next]_vars => InOrder'
<1> SUFFICES ASSUME InOrder, [Next]_vars
             PROVE  InOrder'
  OBVIOUS
<1> USE DEF InOrder
<1>1. Owned'
  BY OwnedStep
<1>2. TypeOK /\ OwnedOnce
  BY DEF Owned
<1>3. CASE System \/ UNCHANGED vars
  BY <1>1, <1>3 DEF System, vars, env, group
<1>4. CASE InitProcessGroup \/ BeginUpdate \/ EndUpdate
  BY <1>1, <1>4 DEF InitProcessGroup, BeginUpdate, EndUpdate
<1>5. ASSUME NEW p \in Pids, PassOver(p)
      PROVE  InOrder'
  BY <1>1, <1>5 DEF PassOver, Unsampled
<1>6. ASSUME NEW p \in Pids, AddMember(p)
      PROVE  InOrder'
  <2>0. PICK d \in Desc \ heap :
        /\ desc' = [x \in heap \cup {d} |->
                      IF x = d THEN [pid |-> p, cputime |-> used[p],
                                     cpu_usage |-> NoUsage]
                               ELSE desc[x]]
        /\ proclist' = proclist \cup {d}
    BY <1>6 DEF AddMember, Copied
  <2>1. /\ desc'[d].pid = p /\ \A x \in proclist : desc'[x].pid = desc[x].pid
        /\ proclist' = proclist \cup {d}
    BY <1>2, <2>0 DEF OwnedOnce
  <2>2. /\ pc = "scan" /\ pc' = "scan" /\ todo' = todo
        /\ p \in unread /\ unread' = unread \ {p}
    BY <1>6 DEF AddMember, Yield, Unsampled
  <2>3. \A x \in proclist' : desc'[x].pid \notin unread'
    <3>1. \A x \in proclist : desc[x].pid \notin unread
      BY <2>2
    <3> HIDE DEF InOrder
    <3> QED
      BY <2>1, <2>2, <3>1
  <2> QED
    BY <1>1, <2>2, <2>3
<1>7. ASSUME NEW p \in Pids, RelistMember(p) \/ SampleMember(p)
      PROVE  InOrder'
  <2>1. /\ proclist' = proclist \cup {table[p]}
        /\ \A d \in heap : desc'[d].pid = desc[d].pid
    BY <1>2, <1>7 DEF RelistMember, SampleMember, Unsampled, TypeOK
  <2>2. desc[table[p]].pid = p /\ table[p] \in heap /\ proclist \subseteq heap
    BY <1>2, <1>7 DEF RelistMember, SampleMember, OwnedOnce
  <2> QED
    BY <1>1, <1>7, <2>1, <2>2 DEF RelistMember, SampleMember, Yield, Unsampled
<1>8. ASSUME NEW d \in Desc, Signalled(d) \/ RemoveProcess(d)
      PROVE  InOrder'
  BY <1>1, <1>8 DEF Signalled, RemoveProcess, Unsignalled
<1>9. CASE EndSignals \/ CloseProcessGroup \/ Abort
  BY <1>1, <1>9
  DEF EndSignals, CloseProcessGroup, Abort, AbortUpdate, AbortListing, AbortRemoval
<1> QED
  BY <1>3, <1>4, <1>5, <1>6, <1>7, <1>8, <1>9 DEF Next, Closed

(* A scan enters members, whether their descriptors are new or not.        *)
LEMMA EnterStep ==
  ASSUME InOrder,
         NEW p \in Pids, AddMember(p) \/ RelistMember(p) \/ SampleMember(p)
  PROVE  Calls!Enter(p)
<1> USE DEF InOrder
<1>1. TypeOK /\ OwnedOnce /\ pc = "scan" /\ todo = {} /\ p \in unread
  BY DEF Owned, AddMember, RelistMember, SampleMember, Yield
<1>2. \E d \in Desc :
        /\ proclist' = proclist \cup {d}
        /\ desc'[d].pid = p
        /\ \A x \in proclist : desc'[x].pid = desc[x].pid
        /\ \A q \in Pids : table'[q] # NoDesc <=> table[q] # NoDesc \/ q = p
  <2>1. CASE AddMember(p)
    <3> PICK d \in Desc \ heap :
          /\ desc' = [x \in heap \cup {d} |->
                        IF x = d THEN [pid |-> p, cputime |-> used[p],
                                       cpu_usage |-> NoUsage]
                                 ELSE desc[x]]
          /\ table' = [table EXCEPT ![p] = d]
          /\ proclist' = proclist \cup {d}
      BY <2>1 DEF AddMember, Copied
    <3>1. desc'[d].pid = p /\ \A x \in proclist : desc'[x].pid = desc[x].pid
      BY <1>1 DEF OwnedOnce
    <3>2. \A q \in Pids : table'[q] # NoDesc <=> table[q] # NoDesc \/ q = p
      BY <1>1, ProcessGroupAssumption DEF TypeOK, ProcessGroupAssumption
    <3> QED
      BY <3>1, <3>2
  <2>2. CASE RelistMember(p) \/ SampleMember(p)
    <3>1. /\ proclist' = proclist \cup {table[p]}
          /\ table' = table /\ table[p] # NoDesc
          /\ \A d \in heap : desc'[d].pid = desc[d].pid
      BY <1>1, <2>2 DEF RelistMember, SampleMember, Unsampled, TypeOK
    <3>2. desc[table[p]].pid = p /\ table[p] \in heap /\ proclist \subseteq heap
      BY <1>1, <3>1 DEF OwnedOnce
    <3> QED
      BY <1>1, <3>1, <3>2 DEF TypeOK
  <2> QED
    BY <2>1, <2>2
<1>3. todo' = todo /\ pc' = pc
  BY DEF AddMember, RelistMember, SampleMember, Unsampled
<1> QED
  BY <1>1, <1>2, <1>3 DEF Calls!Enter

(* A turn of a loop takes one member off the list and the table, or none:  *)
(* no other node points to the same descriptor, and none has its pid.      *)
LEMMA TurnStep ==
  ASSUME InOrder, NEW d \in Desc, Signalled(d) \/ RemoveProcess(d)
  PROVE  \E p \in Pids : Calls!Signalled(p) \/ Calls!Dropped(p)
<1> USE DEF InOrder
<1>1. /\ TypeOK /\ OwnedOnce /\ todo \subseteq proclist
      /\ d \in todo /\ pc \in {"cont", "stop"} /\ todo' = todo \ {d}
      /\ pc' = pc /\ desc' = desc
  BY DEF Owned, Signalled, RemoveProcess, Unsignalled, group
<1>2. d \in heap /\ desc[d].pid \in Pids
  BY <1>1 DEF OwnedOnce, TypeOK, Descriptors
<1>3. \A x \in proclist : desc[x].pid = desc[d].pid => x = d
  BY <1>1 DEF OwnedOnce
<1>4. {desc'[x].pid : x \in todo'} = {desc[x].pid : x \in todo} \ {desc[d].pid}
  BY <1>1, <1>3
<1> PICK p \in Pids : p = desc[d].pid
  BY <1>2
<1>5. CASE Signalled(d)
  <2>1. Calls!Signalled(p)
    BY <1>1, <1>4, <1>5 DEF Signalled, group, Calls!Signalled
  <2> QED
    BY <2>1
<1>6. CASE RemoveProcess(d)
  <2>1. {desc'[x].pid : x \in proclist'}
          = {desc[x].pid : x \in proclist} \ {desc[d].pid}
    BY <1>1, <1>3, <1>6 DEF RemoveProcess
  <2>2. {q \in Pids : table'[q] # NoDesc}
          = {q \in Pids : table[q] # NoDesc} \ {desc[d].pid}
    BY <1>1, <1>6 DEF RemoveProcess, TypeOK
  <2>3. Calls!Dropped(p)
    BY <1>1, <1>4, <2>1, <2>2 DEF Calls!Dropped
  <2> QED
    BY <2>3
<1> QED
  BY <1>5, <1>6

(* However the program exits, GroupCalls may fail.                         *)
LEMMA AbortStep ==
  ASSUME InOrder, Abort
  PROVE  Calls!Fail \/ \E p \in Pids : Calls!FailEntering(p) \/ Calls!FailDropping(p)
<1> USE DEF InOrder
<1>1. TypeOK /\ OwnedOnce
  BY DEF Owned
<1>2. CASE AbortUpdate
  <2>1. Calls!Fail
    BY <1>2 DEF AbortUpdate, Unsampled, Calls!Fail
  <2> QED
    BY <2>1
<1>3. ASSUME NEW p \in Pids, AbortListing(p)
      PROVE  Calls!Fail \/ Calls!FailEntering(p)
  <2>0. PICK d \in Desc \ heap :
        /\ desc' = [x \in heap \cup {d} |->
                      IF x = d THEN [pid |-> p, cputime |-> used[p],
                                     cpu_usage |-> NoUsage]
                               ELSE desc[x]]
        /\ table' \in {table, [table EXCEPT ![p] = d]}
    BY <1>3 DEF AbortListing, Copied
  <2>1. /\ pc = "scan" /\ pc' = "failed" /\ todo = {} /\ todo' = {}
        /\ p \in unread /\ proclist' = proclist
    BY <1>3 DEF AbortListing, Yield, Unsampled
  <2>2. /\ {desc'[x].pid : x \in proclist'} = {desc[x].pid : x \in proclist}
        /\ {desc'[x].pid : x \in todo'} = {desc[x].pid : x \in todo}
    <3>1. \A x \in proclist : desc'[x] = desc[x]
      BY <1>1, <2>0 DEF OwnedOnce
    <3> QED
      BY <2>1, <3>1
  <2>3. p \notin {desc[x].pid : x \in proclist}
    <3>1. \A x \in proclist : desc[x].pid \notin unread
      BY <2>1
    <3> QED
      BY <2>1, <3>1
  <2>4. CASE table' = table
    <3>1. Calls!Fail
      BY <2>1, <2>2, <2>4 DEF Calls!Fail
    <3> QED
      BY <3>1
  <2>5. CASE table' = [table EXCEPT ![p] = d]
    <3>1. {q \in Pids : table'[q] # NoDesc}
            = {q \in Pids : table[q] # NoDesc} \cup {p}
      BY <1>1, <2>5, ProcessGroupAssumption DEF TypeOK, ProcessGroupAssumption
    <3>2. Calls!FailEntering(p)
      BY <2>1, <2>2, <2>3, <3>1 DEF Calls!FailEntering
    <3> QED
      BY <3>2
  <2> QED
    BY <2>0, <2>4, <2>5
<1>4. ASSUME NEW d \in Desc, AbortRemoval(d)
      PROVE  \E p \in Pids : Calls!FailDropping(p)
  <2>1. /\ todo \subseteq proclist /\ d \in todo /\ pc \in {"cont", "stop"}
        /\ todo' = todo \ {d} /\ proclist' = proclist \ {d}
        /\ pc' = "failed" /\ desc' = desc /\ table' = table
    BY <1>4 DEF Owned, AbortRemoval, Unsignalled
  <2>2. desc[d].pid \in Pids
    BY <1>1, <2>1 DEF OwnedOnce, TypeOK, Descriptors
  <2>3. \A x \in proclist : desc[x].pid = desc[d].pid => x = d
    BY <1>1, <2>1 DEF OwnedOnce
  <2>4. /\ {desc'[x].pid : x \in todo'} = {desc[x].pid : x \in todo} \ {desc[d].pid}
        /\ {desc'[x].pid : x \in proclist'}
             = {desc[x].pid : x \in proclist} \ {desc[d].pid}
    BY <2>1, <2>3
  <2> PICK p \in Pids : p = desc[d].pid
    BY <2>2
  <2>5. Calls!FailDropping(p)
    BY <2>1, <2>4 DEF Calls!FailDropping
  <2> QED
    BY <2>5
<1> QED
  BY <1>2, <1>3, <1>4 DEF Abort

(* Every step of the accounting is a step of GroupCalls or none.           *)
LEMMA CallsStep ==
  ASSUME InOrder, [Next]_vars
  PROVE  [Calls!Next]_(Calls!callVars)
<1> USE DEF InOrder, Calls!Next, Calls!callVars
<1>1. CASE System \/ UNCHANGED vars
  BY <1>1 DEF System, vars, group
<1>2. CASE InitProcessGroup
  BY <1>2 DEF InitProcessGroup, Owned
<1>3. CASE BeginUpdate
  <2>1. Calls!BeginScan
    BY <1>3 DEF BeginUpdate, Calls!BeginScan
  <2> QED
    BY <2>1
<1>4. ASSUME NEW p \in Pids, PassOver(p)
      PROVE  UNCHANGED Calls!callVars
  BY <1>4 DEF PassOver, Unsampled
<1>5. CASE Abort
  <2>1. Calls!Fail \/ \E p \in Pids : Calls!FailEntering(p) \/ Calls!FailDropping(p)
    BY <1>5, AbortStep
  <2> QED
    BY <2>1
<1>6. ASSUME NEW p \in Pids, AddMember(p) \/ RelistMember(p) \/ SampleMember(p)
      PROVE  [Calls!Next]_(Calls!callVars)
  <2>1. Calls!Enter(p)
    BY <1>6, EnterStep
  <2> QED
    BY <2>1
<1>7. CASE EndUpdate
  <2>1. /\ pc = "scan" /\ todo = {}
        /\ UNCHANGED <<desc, table, proclist>>
    BY <1>7 DEF EndUpdate
  <2>2. \/ pc' \in {"update", "close"} /\ UNCHANGED todo
        \/ pc' = "cont" /\ todo' = proclist
    BY <1>7 DEF EndUpdate
  <2>3. CASE pc' \in {"update", "close"} /\ UNCHANGED todo
    <3>1. Calls!EndScan
      BY <2>1, <2>3 DEF Calls!EndScan
    <3> QED
      BY <3>1
  <2>4. CASE pc' = "cont" /\ todo' = proclist
    <3>1. Calls!BeginWalk
      BY <2>1, <2>4 DEF Calls!BeginWalk
    <3> QED
      BY <3>1
  <2> QED
    BY <2>2, <2>3, <2>4
<1>8. ASSUME NEW d \in Desc, Signalled(d) \/ RemoveProcess(d)
      PROVE  [Calls!Next]_(Calls!callVars)
  <2>1. \E p \in Pids : Calls!Signalled(p) \/ Calls!Dropped(p)
    BY <1>8, TurnStep
  <2> QED
    BY <2>1
<1>9. CASE EndSignals
  <2>1. Calls!EndWalk \/ Calls!BeginWalk
    BY <1>9 DEF EndSignals, group, Calls!EndWalk, Calls!BeginWalk
  <2> QED
    BY <2>1
<1>10. CASE CloseProcessGroup
  <2>1. Calls!Close
    BY <1>10 DEF CloseProcessGroup, Calls!Close
  <2> QED
    BY <2>1
<1> QED
  BY <1>1, <1>2, <1>3, <1>4, <1>5, <1>6, <1>7, <1>8, <1>9, <1>10
  DEF Next, Closed

(* Whatever the system does, even with recycled pids and a clock set back: *)
(* the descriptors are used as LimitProcess, which has only pids, uses its *)
(* group.                                                                  *)
THEOREM AccountingUsesGroup == Spec => UsesGroup
<1>1. Init => InOrder /\ Calls!Init
  BY OwnedInit DEF Init, InOrder, Calls!Init
<1> QED
  BY <1>1, InOrderStep, CallsStep, PTL DEF Spec, UsesGroup, Calls!Spec
=============================================================================

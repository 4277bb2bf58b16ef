----------------------------- MODULE ProcessTable -----------------------------
(***************************************************************************)
(* src/src/list.c and src/src/process_table.c under the calls that         *)
(* process_group.c and limit_process() make: doubly linked lists of list   *)
(* nodes in the heap, one list for each bucket that was ever used and one, *)
(* proclist, that is emptied and filled again by every scan and loses      *)
(* nodes while it is being traversed.                                      *)
(* The element of a node is known by its pid, which is also the key.       *)
(***************************************************************************)
EXTENDS Naturals, Sequences, FiniteSets, SequencesExt

CONSTANTS
  Pids,      (* a set of numbers                                           *)
  HashSize,  (* number of buckets: 2048 in the code                        *)
  Nodes,     (* addresses of list nodes                                    *)
  Null

Buckets == 0 .. HashSize - 1
ProcList == HashSize           (* the list proclist, beside the buckets    *)
Lists == Buckets \cup {ProcList}

(* Two nodes for each process are enough for what is in use at a time.     *)
ASSUME ProcessTableAssumption ==
  /\ Pids \subseteq Nat /\ IsFiniteSet(Pids)
  /\ HashSize \in Nat \ {0}
  /\ IsFiniteSet(Nodes) /\ Cardinality(Nodes) >= 2 * Cardinality(Pids)
  /\ Null \notin Nodes \cup Pids

VARIABLES
  pc,      (* what limit_process() is doing                                *)
  heap,    (* the nodes and the heads of the lists                         *)
  made,    (* buckets whose list has been allocated                        *)
  unread,  (* processes the iterator has yet to return                     *)
  node,    (* the variable node of the loops over proclist                 *)
  due      (* history: listed when the loop began, not yet signalled       *)

vars == <<pc, heap, made, unread, node, due>>

------------------------------------------------------------------------------
(* list.c.  A node that is not in use has no contents.                     *)

EmptyHeap ==
  [used |-> {},
   data |-> [n \in Nodes |-> Null],
   previous |-> [n \in Nodes |-> Null],
   next |-> [n \in Nodes |-> Null],
   first |-> [l \in Lists |-> Null],
   last |-> [l \in Lists |-> Null],
   count |-> [l \in Lists |-> 0]]

(* malloc(): which of the free addresses it is makes no difference.        *)
Fresh(h) == CHOOSE n \in Nodes : n \notin h.used

Freed(h, N) ==
  [h EXCEPT !.used = @ \ N,
            !.data = [n \in Nodes |-> IF n \in N THEN Null ELSE @[n]],
            !.previous = [n \in Nodes |-> IF n \in N THEN Null ELSE @[n]],
            !.next = [n \in Nodes |-> IF n \in N THEN Null ELSE @[n]]]

AddElem(h, l, p) ==
  LET n == Fresh(h)
  IN [used |-> h.used \cup {n},
      data |-> [h.data EXCEPT ![n] = p],
      previous |-> [h.previous EXCEPT ![n] = h.last[l]],
      next |-> [m \in Nodes |-> IF m = n THEN Null
                               ELSE IF h.count[l] # 0 /\ m = h.last[l] THEN n
                               ELSE h.next[m]],
      first |-> IF h.count[l] = 0 THEN [h.first EXCEPT ![l] = n] ELSE h.first,
      last |-> [h.last EXCEPT ![l] = n],
      count |-> [h.count EXCEPT ![l] = @ + 1]]

(* delete_node() up to l->count--                                          *)
Unlink(h, l, n) ==
  LET before == h.previous[n]
      after == h.next[n]
  IN IF h.count[l] = 1
       THEN [h EXCEPT !.first[l] = Null, !.last[l] = Null]
     ELSE IF n = h.first[l]
       THEN [h EXCEPT !.previous[after] = Null, !.first[l] = after]
     ELSE IF n = h.last[l]
       THEN [h EXCEPT !.next[before] = Null, !.last[l] = before]
     ELSE [h EXCEPT !.next[before] = after, !.previous[after] = before]

(* Mutant: the last node is not told from those in the middle.             *)
DeleteNodeKeepsLast(h, l, n) ==
  LET u == IF h.count[l] > 1 /\ n = h.last[l]
             THEN [h EXCEPT !.next[h.previous[n]] = Null]
             ELSE Unlink(h, l, n)
  IN Freed([u EXCEPT !.count[l] = @ - 1], {n})

DeleteNode(h, l, n) ==
  Freed([Unlink(h, l, n) EXCEPT !.count[l] = @ - 1], {n})

(* The nodes met from n on along the pointers of link.                     *)
WalkFrom(n, link) ==
  LET at[i \in 1 .. Cardinality(Nodes) + 1] ==
        IF i = 1 THEN n ELSE IF at[i - 1] = Null THEN Null ELSE link[at[i - 1]]
  IN SubSeq(at, 1, Cardinality({i \in DOMAIN at : at[i] # Null}))

Forward(h, l) == WalkFrom(h.first[l], h.next)
Backward(h, l) == WalkFrom(h.last[l], h.previous)

(* xlocate_node() with the pid as the key: the first node that has it.     *)
LocateNode(h, l, p) ==
  LET walk == Forward(h, l)
      i == SelectInSeq(walk, LAMBDA n : h.data[n] = p)
  IN IF i = 0 THEN Null ELSE walk[i]

(* clear_list() of each list of L; destroy_list() frees the elements too.  *)
ClearLists(h, L) ==
  [Freed(h, UNION {Range(Forward(h, l)) : l \in L}) EXCEPT
     !.first = [l \in Lists |-> IF l \in L THEN Null ELSE @[l]],
     !.last = [l \in Lists |-> IF l \in L THEN Null ELSE @[l]],
     !.count = [l \in Lists |-> IF l \in L THEN 0 ELSE @[l]]]

------------------------------------------------------------------------------
(* process_table.c                                                         *)

ProcHash(p) == p % HashSize

TableFind(p) == ProcHash(p) \in made /\ LocateNode(heap, ProcHash(p), p) # Null

(* The heap without the entry of p, if it has one.                         *)
TableDel(h, p) ==
  LET n == LocateNode(h, ProcHash(p), p)
  IN IF ProcHash(p) \notin made \/ n = Null THEN h
     ELSE DeleteNode(h, ProcHash(p), n)

------------------------------------------------------------------------------
(* The calls.                                                              *)

Links == Nodes \cup {Null}

(* Heaps whose counters are in C.                                          *)
Heaps(C) ==
  [used : SUBSET Nodes,
   data : [Nodes -> Pids \cup {Null}],
   previous : [Nodes -> Links], next : [Nodes -> Links],
   first : [Lists -> Links], last : [Lists -> Links],
   count : [Lists -> C]]

TypeOK ==
  /\ pc \in {"update", "walk", "done", "closed", "failed"}
  /\ heap \in Heaps(0 .. Cardinality(Nodes))
  /\ made \in SUBSET Buckets
  /\ unread \in SUBSET Pids
  /\ node \in Links
  /\ due \in SUBSET Pids
  /\ pc = "walk" /\ node # Null => node \in heap.used

Init ==
  /\ pc = "done"
  /\ heap = EmptyHeap
  /\ made = {}
  /\ unread = {}
  /\ node = Null
  /\ due = {}

(* update_process_group() up to its loop; the members it will find.        *)
BeginUpdate(M) ==
  /\ pc = "done"
  /\ heap' = ClearLists(heap, {ProcList})
  /\ unread' = M
  /\ pc' = "update"
  /\ UNCHANGED <<made, node, due>>

(* Mutant: the entry goes into the first bucket.                           *)
EnterUnhashed(p) ==
  /\ pc = "update"
  /\ p \in unread
  /\ LET h == IF TableFind(p) THEN heap ELSE AddElem(heap, 0, p)
     IN heap' = AddElem(h, ProcList, p)
  /\ made' = IF TableFind(p) THEN made ELSE made \cup {0}
  /\ unread' = unread \ {p}
  /\ UNCHANGED <<pc, node, due>>

(* One turn of that loop: process_table_find(), process_table_add(), which *)
(* allocates the list of the bucket, and add_elem().                       *)
Enter(p) ==
  /\ pc = "update"
  /\ p \in unread
  /\ LET h == IF TableFind(p) THEN heap ELSE AddElem(heap, ProcHash(p), p)
     IN heap' = AddElem(h, ProcList, p)
  /\ made' = made \cup {ProcHash(p)}
  /\ unread' = unread \ {p}
  /\ UNCHANGED <<pc, node, due>>

(* node = pgroup.proclist->first, for SIGCONT and then for SIGSTOP         *)
BeginWalk ==
  /\ \/ pc = "update" /\ unread = {}
     \/ pc = "done" /\ heap.first[ProcList] # Null
  /\ node' = heap.first[ProcList]
  /\ due' = {heap.data[n] : n \in Range(Forward(heap, ProcList))}
  /\ pc' = "walk"
  /\ UNCHANGED <<heap, made, unread>>

(* kill() = 0                                                              *)
Signalled ==
  /\ pc = "walk"
  /\ node # Null
  /\ due' = due \ {heap.data[node]}
  /\ node' = heap.next[node]
  /\ UNCHANGED <<pc, heap, made, unread>>

(* Mutant: node->next is read when the node is gone.                       *)
NotSignalledReadsLate ==
  /\ pc = "walk"
  /\ node # Null
  /\ heap' = TableDel(DeleteNode(heap, ProcList, node), heap.data[node])
  /\ due' = due \ {heap.data[node]}
  /\ node' = heap'.next[node]
  /\ UNCHANGED <<pc, made, unread>>

(* Mutant: the loop goes on from the node that it has deleted.             *)
NotSignalledStays ==
  /\ pc = "walk"
  /\ node # Null
  /\ heap' = TableDel(DeleteNode(heap, ProcList, node), heap.data[node])
  /\ due' = due \ {heap.data[node]}
  /\ UNCHANGED <<pc, made, unread, node>>

(* Mutant: the entry of the table is left.                                 *)
NotSignalledKeepsEntry ==
  /\ pc = "walk"
  /\ node # Null
  /\ heap' = DeleteNode(heap, ProcList, node)
  /\ due' = due \ {heap.data[node]}
  /\ node' = heap.next[node]
  /\ UNCHANGED <<pc, made, unread>>

(* kill() # 0: delete_node() and remove_process()                          *)
NotSignalled ==
  /\ pc = "walk"
  /\ node # Null
  /\ heap' = TableDel(DeleteNode(heap, ProcList, node), heap.data[node])
  /\ due' = due \ {heap.data[node]}
  /\ node' = heap.next[node]
  /\ UNCHANGED <<pc, made, unread>>

EndWalk ==
  /\ pc = "walk"
  /\ node = Null
  /\ pc' = "done"
  /\ UNCHANGED <<heap, made, unread, node, due>>

(* close_process_group(): clear_list() and process_table_destroy()         *)
Close ==
  /\ pc = "done"
  /\ heap' = ClearLists(heap, made \cup {ProcList})
  /\ made' = {}
  /\ pc' = "closed"
  /\ UNCHANGED <<unread, node, due>>

(* exit(EXIT_FAILURE) when malloc() fails, or for another reason before or *)
(* in a scan: with nothing done,                                           *)
AbortUpdate ==
  /\ pc \in {"update", "done"}
  /\ pc' = "failed"
  /\ UNCHANGED <<heap, made, unread, node, due>>

(* with a bucket that has its list, but no node for p, or with the node of *)
(* the bucket, but none of proclist,                                       *)
AbortListing(p) ==
  /\ pc = "update"
  /\ p \in unread
  /\ ~TableFind(p)
  /\ heap' \in {heap, AddElem(heap, ProcHash(p), p)}
  /\ made' = made \cup {ProcHash(p)}
  /\ pc' = "failed"
  /\ UNCHANGED <<unread, node, due>>

(* or in process_table_del_pid(), after delete_node().                     *)
AbortRemoval ==
  /\ pc = "walk"
  /\ node # Null
  /\ heap' = DeleteNode(heap, ProcList, node)
  /\ due' = due \ {heap.data[node]}
  /\ pc' = "failed"
  /\ UNCHANGED <<made, unread, node>>

Ended == pc \in {"closed", "failed"} /\ UNCHANGED vars

Next ==
  \/ \E M \in SUBSET Pids : BeginUpdate(M)
  \/ \E p \in Pids : Enter(p)
  \/ BeginWalk \/ Signalled \/ NotSignalled \/ EndWalk \/ Close
  \/ AbortUpdate \/ (\E p \in Pids : AbortListing(p)) \/ AbortRemoval
  \/ Ended

Spec == Init /\ [][Next]_vars

------------------------------------------------------------------------------
(* The pids in a list, from its first node to its last.                    *)
Contents(h, l) == [i \in DOMAIN Forward(h, l) |-> h.data[Forward(h, l)[i]]]

(* Every list reads the same from both ends, is as long as its count says, *)
(* and every node in use is in one list, whatever was deleted where; so    *)
(* when the group is closed no node is left.                               *)
WellLinked ==
  /\ \A l \in Lists :
       /\ Backward(heap, l) = Reverse(Forward(heap, l))
       /\ Len(Forward(heap, l)) = heap.count[l]
       /\ heap.count[l] > 0 /\ l \in Buckets => l \in made
  /\ heap.used = UNION {Range(Forward(heap, l)) : l \in Lists}
  /\ \A l, m \in Lists :
       l # m => Range(Forward(heap, l)) \cap Range(Forward(heap, m)) = {}
  /\ pc = "closed" => heap.used = {}

(* No process is twice in the table, and each is in the bucket in which it *)
(* will be looked for.                                                     *)
OnceInTable ==
  \A l \in Buckets :
    /\ IsInjective(Contents(heap, l))
    /\ \A p \in Range(Contents(heap, l)) : ProcHash(p) = l

(* A loop over proclist signals every process that was listed when it      *)
(* began once, though it takes nodes out of the list as it goes.           *)
WalksAll ==
  pc = "walk" =>
    IF node = Null THEN due = {} ELSE heap.data[node] \in due

(* Lists and buckets implement GroupMap.                                   *)
Map == INSTANCE GroupMap WITH
  table <- UNION {Range(Contents(heap, l)) : l \in Buckets},
  listed <- Contents(heap, ProcList),
  running <- pc # "failed"

KeepsMap == Map!Spec

(* What is done with nodes is what LimitProcess does with pids.            *)
Calls ==
  INSTANCE GroupCalls WITH
    phase <- CASE pc = "update" -> "scan"
               [] pc = "walk" -> "walk"
               [] pc = "closed" -> "closed"
               [] pc = "failed" -> "failed"
               [] OTHER -> "idle",
    known <- UNION {Range(Contents(heap, l)) : l \in Buckets},
    listed <- Range(Contents(heap, ProcList))

UsesGroup == Calls!Spec
=============================================================================

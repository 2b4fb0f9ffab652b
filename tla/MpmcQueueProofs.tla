-------------------------- MODULE MpmcQueueProofs --------------------------
(***************************************************************************)
(* The safety properties of MpmcQueue for any number of threads, nodes and *)
(* values and any width of the versions, if the allocator does not hand    *)
(* out a freed node again while a thread still holds its address, and      *)
(* writes to it no pair that a swap compares with (Overwritten).  They     *)
(* follow from the invariant IInv below.                                   *)
(***************************************************************************)
EXTENDS MpmcQueue, SequenceTheorems, FiniteSetTheorems, TLAPS

\* The nodes that are in the queue, or have been since they were allocated.
Known == {n \in Nodes : /\ heap[n] # "fresh"
                        /\ \A t \in Threads : pc[t] \in EnqueuePcs => node[t] # n}

\* Where an enqueue has read tail.ptr, and where tail.version, next.ptr too.
TailReadPcs == {"e_tailv", "e_nextp", "e_nextv", "e_chkp", "e_chkv",
                "e_link", "e_help"}
TailVersionPcs == {"e_nextp", "e_nextv", "e_chkp", "e_chkv", "e_link",
                   "e_help", "e_swing"}
NextReadPcs == {"e_nextv", "e_chkp", "e_chkv", "e_link", "e_help"}

\* Where a dequeue has read head.ptr, and where tail.ptr, next.ptr too.
DeqHeadPcs == DequeuePcs \ {"d_headp"}
DeqTailPcs == DeqHeadPcs \ {"d_headv", "d_tailp"}
DeqNextPcs == DeqTailPcs \ {"d_tailv", "d_nextp"}

(* The list: distinct nodes, each pointing to its successor; and what left *)
(* it has a NULL next only if MCT_FREE wrote it.                           *)
ListShape ==
    /\ Len(chain) > 0
    /\ \A i, j \in 1..Len(chain) : chain[i] = chain[j] => i = j
    /\ \A i \in 1..(Len(chain) - 1) : next[chain[i]].ptr = chain[i + 1]
    /\ next[Last].ptr = NULL
    /\ \A i \in 2..Len(chain) : user_data[chain[i]] \in Data
    /\ \A n \in Linked : n \in Known /\ (heap[n] = "live" \/ Destroyed)
    /\ \A n \in Known \ Linked : next[n].ptr = NULL => heap[n] = "freed"

(* head and tail: the tail is behind by one node at most, and then the     *)
(* thread that linked that node has not swung it.                          *)
EndsShape ==
    /\ head.ptr = chain[1]
    /\ tail.ptr \in Linked
    /\ tail.ptr # Last => /\ next[tail.ptr].ptr = Last
                          /\ \E t \in Threads :
                                pc[t] = "e_swing" /\ mytail[t].ptr = tail.ptr

(* An enqueue: its node is its own, and the tail it read is a node of the  *)
(* queue, not ahead of q->tail, or one that has left it; there the NULL it *)
(* has read is not to be found again, so that nothing is linked there.     *)
Enqueues(t) ==
    /\ pc[t] \in EnqueuePcs =>
           /\ node[t] \in Nodes /\ heap[node[t]] = "live"
           /\ node[t] \notin Linked
           /\ user_data[node[t]] = mydata[t] /\ mydata[t] \in Data
    /\ pc[t] \in EnqueuePcs \ {"e_initptr"} => next[node[t]].ptr = NULL
    /\ pc[t] \in TailReadPcs =>
           /\ mytail[t].ptr \in Known
           /\ mytail[t].ptr = Last => tail.ptr = Last
    /\ pc[t] \in TailVersionPcs /\ mytail[t].ptr = tail.ptr =>
           mytail[t].version = tail.version
    /\ pc[t] \in NextReadPcs /\ mytail[t].ptr \in Linked
           /\ mynext[t].ptr # NULL => mynext[t].ptr = next[mytail[t].ptr].ptr
    /\ pc[t] = "e_link" => mynext[t].ptr = NULL
    /\ pc[t] \in {"e_chkv", "e_link"} /\ mytail[t].ptr \notin Linked
           /\ mynext[t].ptr = NULL => next[mytail[t].ptr] # mynext[t]
    /\ pc[t] = "e_help" => mynext[t].ptr # NULL
    /\ pc[t] = "e_swing" =>
           /\ node[t] \in Nodes /\ mytail[t].ptr \in Known
           /\ mytail[t].ptr \in Linked => next[mytail[t].ptr].ptr = node[t]

(* A dequeue, and mpmc_queue_empty: the head it read is the head or has    *)
(* left the queue, and while it is the head, what was read after it holds. *)
Dequeues(t) ==
    /\ pc[t] \in DeqHeadPcs \cup DequeuedPcs \cup EmptyPcs => myhead[t].ptr \in Known
    /\ pc[t] \in DeqHeadPcs \cup EmptyPcs /\ myhead[t].ptr \in Linked =>
           myhead[t].ptr = head.ptr
    /\ pc[t] \in DequeuedPcs =>
           /\ myhead[t].ptr \notin Linked /\ heap[myhead[t].ptr] = "live"
           /\ mydata[t] \in Data
    /\ pc[t] \in DeqTailPcs /\ myhead[t].ptr = head.ptr
           /\ tail.ptr = head.ptr => mytail[t].ptr = head.ptr
    /\ pc[t] \in DeqNextPcs /\ myhead[t].ptr = head.ptr =>
           /\ mynext[t].ptr # NULL => mynext[t].ptr = next[head.ptr].ptr
           /\ mytail[t].ptr # head.ptr => mynext[t].ptr # NULL
    /\ pc[t] = "d_chkv" =>
           /\ mynext[t].ptr \in Nodes \cup {NULL}
           /\ mytail[t].ptr # myhead[t].ptr => mynext[t].ptr # NULL
    /\ pc[t] \in {"d_data", "d_swing"} =>
           mynext[t].ptr \in Nodes /\ mytail[t].ptr # myhead[t].ptr
    /\ pc[t] = "d_swing" /\ myhead[t].ptr = head.ptr =>
           mydata[t] = user_data[mynext[t].ptr]
    /\ pc[t] = "d_help" => mytail[t].ptr = myhead[t].ptr /\ mynext[t].ptr # NULL
    /\ pc[t] = "d_null" => mytail[t].ptr = myhead[t].ptr /\ mynext[t].ptr = NULL

(* A dequeue that reports an empty queue has seen one: a NULL that it read *)
(* in a freed node does not pass the check of the head.                    *)
SeesEmpty(t) ==
    /\ pc[t] \in DequeuePcs /\ Len(chain) = 1 => t \in sawEmpty
    /\ pc[t] \in DeqNextPcs /\ mynext[t].ptr = NULL
           /\ (myhead[t].ptr = head.ptr \/ pc[t] \in {"d_chkv", "d_null"}) =>
           t \in sawEmpty
    /\ t \in sawEmpty => pc[t] \in DequeuePcs

(* Two threads never own the same node, and what is live has an owner.     *)
Owners ==
    /\ \A t, u \in Threads :
          t # u => /\ pc[t] \in EnqueuePcs /\ pc[u] \in EnqueuePcs => node[t] # node[u]
                   /\ pc[t] \in DequeuedPcs /\ pc[u] \in DequeuedPcs =>
                          myhead[t].ptr # myhead[u].ptr
    /\ \A n \in Nodes : heap[n] = "live" =>
          \/ n \in Linked
          \/ \E t \in Threads : pc[t] \in EnqueuePcs /\ node[t] = n
          \/ \E t \in Threads : pc[t] \in DequeuedPcs /\ myhead[t].ptr = n

(* Whoever destroys the queue is alone with it, and takes a node whenever  *)
(* it calls mpmc_dequeue.                                                  *)
Destroying ==
    /\ destroyer # NULL =>
           /\ \A t \in Threads \ {destroyer} : pc[t] = "idle"
           /\ pc[destroyer] \in DequeuePcs \cup DequeuedPcs \cup {"idle", "destroyed"}
           /\ pc[destroyer] \in DequeuePcs => Len(chain) > 1
           /\ pc[destroyer] \in DeqHeadPcs => myhead[destroyer].ptr = head.ptr
           /\ pc[destroyer] \in DeqTailPcs => mytail[destroyer].ptr = tail.ptr
    /\ \A t \in Threads : pc[t] = "destroyed" =>
           /\ t = destroyer /\ Len(chain) = 1
           /\ heap[chain[1]] = "freed"

IInv ==
    /\ TypeOK
    /\ ListShape
    /\ EndsShape
    /\ \A t \in Threads : Enqueues(t) /\ Dequeues(t) /\ SeesEmpty(t)
    /\ Owners
    /\ Destroying

-----------------------------------------------------------------------------
(* The list and the types.                                                 *)

LEMMA NextVersionType == \A v \in Nat : NextVersion(v) \in 0..(Versions - 1)
  BY MpmcAssumption DEF NextVersion

(* The list, seen as a set with a first and a last node.                   *)
LEMMA ChainFacts ==
    ASSUME TypeOK, ListShape
    PROVE  /\ Len(chain) \in Nat /\ Len(chain) > 0
           /\ Linked \subseteq Nodes
           /\ chain[1] \in Linked /\ Last \in Linked
           /\ \A n \in Linked : next[n].ptr = NULL <=> n = Last
           /\ \A n \in Linked : n # Last =>
                  /\ next[n].ptr \in Linked
                  /\ next[n].ptr # chain[1] /\ next[n].ptr # n
           /\ chain[1] = Last <=> Len(chain) = 1
           /\ Len(chain) > 1 => /\ next[chain[1]].ptr = chain[2]
                                /\ chain[2] \in Linked /\ chain[2] # chain[1]
           /\ chain[1] = Last => Linked = {Last}
           /\ \A n \in Linked : n # chain[1] => user_data[n] \in Data
<1>1. chain \in Seq(Nodes)
  BY DEF TypeOK
<1>2. Len(chain) \in Nat /\ Len(chain) > 0
  BY <1>1, LenProperties DEF ListShape
<1>3. \A i \in 1..Len(chain) : chain[i] \in Nodes
  BY <1>1, ElementOfSeq
<1>4. chain[1] \in Linked /\ Last \in Linked /\ Linked \subseteq Nodes
  BY <1>2, <1>3 DEF Linked, Last
<1>5. \A n \in Linked : n # Last =>
          \E i \in 1..(Len(chain) - 1) : n = chain[i] /\ next[n].ptr = chain[i + 1]
  BY <1>2 DEF Linked, Last, ListShape
<1>6. \A n \in Linked : n # Last =>
          /\ next[n].ptr \in Linked
          /\ next[n].ptr # chain[1] /\ next[n].ptr # n
  <2> SUFFICES ASSUME NEW n \in Linked, n # Last
               PROVE  /\ next[n].ptr \in Linked
                      /\ next[n].ptr # chain[1] /\ next[n].ptr # n
    OBVIOUS
  <2>1. PICK i \in 1..(Len(chain) - 1) : n = chain[i] /\ next[n].ptr = chain[i + 1]
    BY <1>5
  <2>2. QED
    BY <2>1, <1>2 DEF ListShape, Linked
<1>7. \A n \in Linked : next[n].ptr = NULL <=> n = Last
  BY <1>4, <1>6, MpmcAssumption DEF ListShape
<1>8. chain[1] = Last <=> Len(chain) = 1
  <2>1. 1 \in 1..Len(chain) /\ Len(chain) \in 1..Len(chain)
    BY <1>2
  <2>2. QED
    BY <2>1 DEF ListShape, Last
<1>9. Len(chain) > 1 => /\ next[chain[1]].ptr = chain[2]
                        /\ chain[2] \in Linked /\ chain[2] # chain[1]
  BY <1>2 DEF ListShape, Linked
<1>10. \A n \in Linked : n # chain[1] => user_data[n] \in Data
  <2> SUFFICES ASSUME NEW n \in Linked, n # chain[1]
               PROVE  user_data[n] \in Data
    OBVIOUS
  <2>1. PICK i \in 1..Len(chain) : n = chain[i]
    BY DEF Linked
  <2>2. QED
    BY <2>1, <1>2 DEF ListShape
<1>11. chain[1] = Last => Linked = {Last}
  <2> SUFFICES ASSUME Len(chain) = 1 PROVE Linked = {Last}
    BY <1>8
  <2>1. 1..Len(chain) = {1}
    BY <1>2
  <2>2. QED
    BY <2>1 DEF Linked, Last
<1>12. QED
  BY <1>2, <1>4, <1>6, <1>7, <1>8, <1>9, <1>10, <1>11

LEMMA InitIInv == Init => IInv
<1> SUFFICES ASSUME Init PROVE IInv
  OBVIOUS
<1>1. PICK dummy \in Nodes :
          /\ head = VP(dummy, 0)
          /\ tail = VP(dummy, 0)
          /\ next = [n \in Nodes |-> IF n = dummy THEN VP(NULL, 0)
                                                  ELSE VP(Garbage, 0)]
          /\ heap = [n \in Nodes |-> IF n = dummy THEN "live" ELSE "fresh"]
          /\ chain = <<dummy>>
  BY DEF Init
<1>2. chain \in Seq(Nodes) /\ Len(chain) = 1 /\ chain[1] = dummy
  BY <1>1
<1>3. Linked = {dummy} /\ Last = dummy
  BY <1>2 DEF Linked, Last
<1>4. TypeOK
  BY <1>1, <1>2, MpmcAssumption DEF Init, TypeOK, VersionedPointer, VP, Unset
<1>5. Known = {dummy}
  BY <1>1 DEF Init, Known, EnqueuePcs
<1>6. ListShape
  BY <1>1, <1>2, <1>3, <1>5, MpmcAssumption DEF ListShape, VP
<1>7. EndsShape
  BY <1>1, <1>2, <1>3 DEF EndsShape, VP
<1>8. \A t \in Threads : Enqueues(t) /\ Dequeues(t) /\ SeesEmpty(t)
  BY DEF Init, Enqueues, Dequeues, SeesEmpty, EnqueuePcs, TailReadPcs,
         TailVersionPcs, NextReadPcs, DequeuePcs, DequeuedPcs, EmptyPcs,
         DeqHeadPcs, DeqTailPcs, DeqNextPcs
<1>9. Owners
  BY <1>1, <1>3 DEF Init, Owners, EnqueuePcs, DequeuedPcs
<1>10. Destroying
  BY DEF Init, Destroying
<1>11. QED
  BY <1>4, <1>6, <1>7, <1>8, <1>9, <1>10 DEF IInv

-----------------------------------------------------------------------------
(* Steps that change nothing that another thread can see.                  *)

\* Only the variables of t change, and t neither gets nor gives up a node.
LocalTo(t) ==
    /\ UNCHANGED <<head, tail, next, user_data, heap, chain, destroyer>>
    /\ \A u \in Threads \ {t} :
          /\ pc'[u] = pc[u] /\ node'[u] = node[u] /\ mydata'[u] = mydata[u]
          /\ myhead'[u] = myhead[u] /\ mytail'[u] = mytail[u]
          /\ mynext'[u] = mynext[u]
          /\ u \in sawEmpty' <=> u \in sawEmpty
    /\ pc[t] \in EnqueuePcs <=> pc'[t] \in EnqueuePcs
    /\ pc[t] \in EnqueuePcs => node'[t] = node[t]
    /\ pc[t] \in DequeuedPcs <=> pc'[t] \in DequeuedPcs
    /\ pc[t] \in DequeuedPcs => myhead'[t] = myhead[t]
    /\ "destroyed" \notin {pc[t], pc'[t]}
    /\ pc[t] = "e_swing" => mytail[t].ptr # tail.ptr
    /\ pc[t] = "idle" => t = destroyer \/ destroyer = NULL

\* What Destroying says of the thread that destroys the queue.
Destroys(t) ==
    /\ pc[t] \in DequeuePcs \cup DequeuedPcs \cup {"idle", "destroyed"}
    /\ pc[t] \in DequeuePcs => Len(chain) > 1
    /\ pc[t] \in DeqHeadPcs => myhead[t].ptr = head.ptr
    /\ pc[t] \in DeqTailPcs => mytail[t].ptr = tail.ptr

LEMMA LocalSame ==
    ASSUME NEW t \in Threads, LocalTo(t)
    PROVE  /\ Known' = Known /\ Linked' = Linked /\ Last' = Last
           /\ Destroyed' = Destroyed
<1>1. Linked' = Linked /\ Last' = Last
  BY DEF LocalTo, Linked, Last
<1>2. ASSUME NEW n \in Nodes
      PROVE  (\A u \in Threads : pc'[u] \in EnqueuePcs => node'[u] # n)
             <=> (\A u \in Threads : pc[u] \in EnqueuePcs => node[u] # n)
  BY DEF LocalTo
<1>3. Known' = Known
  BY <1>2 DEF Known, LocalTo
<1>4. Destroyed' = Destroyed
  BY DEF Destroyed, LocalTo
<1>5. QED
  BY <1>1, <1>3, <1>4

LEMMA LocalStep ==
    ASSUME IInv, NEW t \in Threads, LocalTo(t), TypeOK', Enqueues(t)',
           Dequeues(t)', SeesEmpty(t)', t = destroyer => Destroys(t)'
    PROVE  IInv'
<1>1. /\ Known' = Known /\ Linked' = Linked /\ Last' = Last
      /\ Destroyed' = Destroyed
  BY LocalSame
<1>2. ListShape'
  BY <1>1 DEF IInv, ListShape, LocalTo
<1>3. EndsShape'
  BY <1>1 DEF IInv, EndsShape, LocalTo
<1>4. ASSUME NEW u \in Threads, u # t
      PROVE  Enqueues(u)' /\ Dequeues(u)' /\ SeesEmpty(u)'
  <2> USE <1>1, <1>4
  <2>1. Enqueues(u)'
    BY DEF IInv, Enqueues, LocalTo
  <2>2. Dequeues(u)'
    BY DEF IInv, Dequeues, LocalTo
  <2>3. SeesEmpty(u)'
    BY DEF IInv, SeesEmpty, LocalTo
  <2>4. QED
    BY <2>1, <2>2, <2>3
<1>5. Owners'
  <2>1. ASSUME NEW u \in Threads
        PROVE  /\ pc'[u] \in EnqueuePcs <=> pc[u] \in EnqueuePcs
               /\ pc[u] \in EnqueuePcs => node'[u] = node[u]
               /\ pc'[u] \in DequeuedPcs <=> pc[u] \in DequeuedPcs
               /\ pc[u] \in DequeuedPcs => myhead'[u] = myhead[u]
    BY DEF LocalTo
  <2>2. QED
    BY <1>1, <2>1 DEF IInv, Owners, LocalTo
<1>6. Destroying'
  BY <1>1 DEF IInv, Destroying, Destroys, LocalTo
<1>7. QED
  BY <1>2, <1>3, <1>4, <1>5, <1>6 DEF IInv

(* A step inside the loop of an enqueue, and one inside that of a dequeue. *)
LEMMA EnqueueLocalStep ==
    ASSUME IInv, NEW t \in Threads, LocalTo(t), TypeOK', Enqueues(t)',
           pc'[t] \in EnqueuePcs, UNCHANGED sawEmpty
    PROVE  IInv'
<1>1. pc[t] \in EnqueuePcs
  BY DEF LocalTo
<1>2. Dequeues(t)'
  BY DEF Dequeues, DeqHeadPcs, DeqTailPcs, DeqNextPcs, EnqueuePcs, DequeuePcs,
         DequeuedPcs, EmptyPcs
<1>3. SeesEmpty(t)'
  BY <1>1 DEF IInv, SeesEmpty, DeqHeadPcs, DeqTailPcs, DeqNextPcs, EnqueuePcs,
              DequeuePcs
<1>4. t # destroyer
  BY <1>1, MpmcAssumption DEF IInv, Destroying, EnqueuePcs, DequeuePcs, DequeuedPcs
<1>5. QED
  BY <1>2, <1>3, <1>4, LocalStep

LEMMA DequeueLocalStep ==
    ASSUME IInv, NEW t \in Threads, LocalTo(t), TypeOK', Dequeues(t)',
           SeesEmpty(t)', pc[t] \in DequeuePcs, pc'[t] \in DequeuePcs,
           t = destroyer => Destroys(t)'
    PROVE  IInv'
<1>1. Enqueues(t)'
  BY DEF Enqueues, TailReadPcs, TailVersionPcs, NextReadPcs, EnqueuePcs, DequeuePcs
<1>2. QED
  BY <1>1, LocalStep

(* Whoever is in a call while the queue is destroyed is destroying it.     *)
LEMMA DestroyerAlone ==
    ASSUME IInv, NEW t \in Threads
    PROVE  /\ pc[t] # "idle" /\ destroyer # NULL => t = destroyer
           /\ t = destroyer => Destroys(t)
           /\ pc[t] \in EnqueuePcs \cup EnqueuedPcs \cup EmptyPcs =>
                  destroyer = NULL
  BY MpmcAssumption DEF IInv, Destroying, Destroys, EnqueuePcs, EnqueuedPcs,
     EmptyPcs, DequeuePcs, DequeuedPcs

LEMMA RetryTypes ==
    ASSUME TypeOK, NEW t \in Threads, NEW from \in EnqueuePcs \cup DequeuePcs,
           Retry(t, from), UNCHANGED <<shared, history>>
    PROVE  TypeOK'
<1> USE DEF Retry, Goto, ForgetPointers, shared, history, Unset, VP
<1>1. /\ myhead' \in [Threads -> VersionedPointer(Nodes \cup {NULL})]
      /\ mytail' \in [Threads -> VersionedPointer(Nodes \cup {NULL})]
      /\ mynext' \in [Threads -> VersionedPointer(Nodes \cup {NULL, Garbage})]
  BY MpmcAssumption DEF TypeOK, VersionedPointer
<1>2. mydata' \in [Threads -> Data \cup {NULL, Garbage}]
  BY DEF TypeOK
<1>3. pc' \in [Threads -> EnqueuePcs \cup EnqueuedPcs \cup DequeuePcs
                          \cup DequeuedPcs \cup EmptyPcs
                          \cup {"idle", "destroyed"}]
  BY DEF TypeOK, EnqueuePcs, DequeuePcs
<1>4. QED
  BY <1>1, <1>2, <1>3 DEF TypeOK

LEMMA EnqueueReadKeeps ==
    ASSUME IInv, NEW t \in Threads, EnqueueRead(t)
    PROVE  IInv'
<1> USE MpmcAssumption DEF IInv
<1>0. /\ tail.ptr \in Linked /\ Linked \subseteq Known
      /\ \A n \in Linked : next[n].ptr = NULL <=> n = Last
  BY ChainFacts DEF EndsShape, ListShape
<1>1. CASE ReadTailPtr(t, "e_tailp", "e_tailv")
  <2> USE <1>1 DEF ReadTailPtr, Goto, shared, history
  <2>1. TypeOK'
    BY DEF TypeOK, VersionedPointer, EnqueuePcs
  <2>2. LocalTo(t) /\ pc'[t] = "e_tailv"
    BY DEF TypeOK, LocalTo, EnqueuePcs, DequeuedPcs
  <2>3. mytail'[t].ptr = tail.ptr
    BY DEF TypeOK, VersionedPointer
  <2>4. Enqueues(t)'
    BY <1>0, <2>2, <2>3, LocalSame DEF Enqueues, EnqueuePcs, TailReadPcs,
       TailVersionPcs, NextReadPcs
  <2>5. QED
    BY <2>1, <2>2, <2>4, EnqueueLocalStep DEF EnqueuePcs
<1>2. CASE ReadTailVersion(t, "e_tailv", "e_nextp")
  <2> USE <1>2 DEF ReadTailVersion, Goto, shared, history
  <2>1. TypeOK'
    BY DEF TypeOK, VersionedPointer, EnqueuePcs
  <2>2. LocalTo(t) /\ pc'[t] = "e_nextp"
    BY DEF TypeOK, LocalTo, EnqueuePcs, DequeuedPcs
  <2>3. mytail'[t].ptr = mytail[t].ptr /\ mytail'[t].version = tail.version
    BY DEF TypeOK, VersionedPointer
  <2>4. Enqueues(t)'
    BY <1>0, <2>2, <2>3, LocalSame DEF Enqueues, EnqueuePcs, TailReadPcs,
       TailVersionPcs, NextReadPcs
  <2>5. QED
    BY <2>1, <2>2, <2>4, EnqueueLocalStep DEF EnqueuePcs
<1>3. CASE ReadNextPtr(t, mytail[t].ptr, "e_nextp", "e_nextv")
  <2> USE <1>3 DEF ReadNextPtr, Goto, shared, history
  <2>0. mytail[t].ptr \in Nodes
    BY DEF Enqueues, TailReadPcs, Known
  <2>1. TypeOK'
    BY <2>0 DEF TypeOK, VersionedPointer, EnqueuePcs
  <2>2. LocalTo(t) /\ pc'[t] = "e_nextv"
    BY DEF TypeOK, LocalTo, EnqueuePcs, DequeuedPcs
  <2>3. mynext'[t].ptr = next[mytail[t].ptr].ptr
    BY DEF TypeOK, VersionedPointer
  <2>4. Enqueues(t)'
    BY <1>0, <2>2, <2>3, LocalSame DEF Enqueues, EnqueuePcs, TailReadPcs,
       TailVersionPcs, NextReadPcs
  <2>5. QED
    BY <2>1, <2>2, <2>4, EnqueueLocalStep DEF EnqueuePcs
<1>4. CASE ReadNextVersion(t, mytail[t].ptr, "e_nextv", "e_chkp")
  <2> USE <1>4 DEF ReadNextVersion, Goto, shared, history
  <2>0. mytail[t].ptr \in Nodes
    BY DEF Enqueues, TailReadPcs, Known
  <2>1. TypeOK'
    BY <2>0 DEF TypeOK, VersionedPointer, EnqueuePcs
  <2>2. LocalTo(t) /\ pc'[t] = "e_chkp"
    BY DEF TypeOK, LocalTo, EnqueuePcs, DequeuedPcs
  <2>3. mynext'[t].ptr = mynext[t].ptr
    BY DEF TypeOK, VersionedPointer
  <2>4. Enqueues(t)'
    BY <1>0, <2>2, <2>3, LocalSame DEF Enqueues, EnqueuePcs, TailReadPcs,
       TailVersionPcs, NextReadPcs
  <2>5. QED
    BY <2>1, <2>2, <2>4, EnqueueLocalStep DEF EnqueuePcs
<1>5. CASE Compare(t, mytail[t].ptr, tail.ptr, "e_chkp", "e_chkv")
  <2> USE <1>5 DEF Compare, Retry, ForgetPointers, Goto, shared, history, Unset, VP
  <2>1. TypeOK'
    <3>1. CASE mytail[t].ptr = tail.ptr
      BY <3>1 DEF TypeOK, EnqueuePcs
    <3>2. CASE mytail[t].ptr # tail.ptr
      BY <3>2, RetryTypes DEF EnqueuePcs
    <3>3. QED
      BY <3>1, <3>2
  <2>2. LocalTo(t) /\ pc'[t] \in {"e_chkv", "e_tailp"} /\ UNCHANGED sawEmpty
    BY DEF TypeOK, LocalTo, EnqueuePcs, DequeuedPcs
  <2>3. pc'[t] = "e_chkv" => /\ UNCHANGED <<mytail, mynext>>
                             /\ mytail[t].ptr = tail.ptr
    BY DEF TypeOK, EnqueuePcs
  <2>4. mydata'[t] = mydata[t] /\ node'[t] = node[t]
    BY DEF TypeOK, EnqueuePcs
  <2>5. Enqueues(t)'
    BY ONLY <1>0, <1>5, <2>2, <2>3, <2>4, LocalSame, IInv DEF IInv, LocalTo,
       Compare, Goto, Retry, Enqueues, EnqueuePcs, TailReadPcs,
       TailVersionPcs, NextReadPcs
  <2>6. QED
    BY <2>1, <2>2, <2>5, EnqueueLocalStep DEF EnqueuePcs
<1>6. CASE Compare(t, mytail[t].version, tail.version, "e_chkv",
                   IF mynext[t].ptr = NULL THEN "e_link" ELSE "e_help")
  <2> USE <1>6 DEF Compare, Retry, ForgetPointers, Goto, shared, history, Unset, VP
  <2>1. TypeOK'
    <3>1. CASE mytail[t].version = tail.version
      BY <3>1 DEF TypeOK, EnqueuePcs
    <3>2. CASE mytail[t].version # tail.version
      BY <3>2, RetryTypes DEF EnqueuePcs
    <3>3. QED
      BY <3>1, <3>2
  <2>2. /\ LocalTo(t) /\ pc'[t] \in {"e_link", "e_help", "e_tailp"}
        /\ UNCHANGED sawEmpty
    BY DEF TypeOK, LocalTo, EnqueuePcs, DequeuedPcs
  <2>3. /\ pc'[t] # "e_tailp" => UNCHANGED <<mytail, mynext>>
        /\ pc'[t] = "e_link" => mynext[t].ptr = NULL
        /\ pc'[t] = "e_help" => mynext[t].ptr # NULL
    BY DEF TypeOK, EnqueuePcs
  <2>4. mydata'[t] = mydata[t] /\ node'[t] = node[t]
    BY DEF TypeOK, EnqueuePcs
  <2>5. Enqueues(t)'
    BY ONLY <1>0, <1>6, <2>2, <2>3, <2>4, LocalSame, IInv DEF IInv, LocalTo,
       Compare, Goto, Retry, Enqueues, EnqueuePcs, TailReadPcs,
       TailVersionPcs, NextReadPcs
  <2>6. QED
    BY <2>1, <2>2, <2>5, EnqueueLocalStep DEF EnqueuePcs
<1>7. QED
  BY <1>1, <1>2, <1>3, <1>4, <1>5, <1>6 DEF EnqueueRead

LEMMA LinkFailsKeeps ==
    ASSUME IInv, NEW t \in Threads, LinkFails(t)
    PROVE  IInv'
<1> USE MpmcAssumption DEF IInv, LinkFails, Retry, Goto, ForgetPointers,
        shared, history, Unset, VP
<1>1. TypeOK'
  BY DEF TypeOK, VersionedPointer, EnqueuePcs
<1>2. LocalTo(t) /\ pc'[t] = "e_tailp"
  BY DEF TypeOK, LocalTo, EnqueuePcs, DequeuedPcs
<1>3. mydata'[t] = mydata[t] /\ node'[t] = node[t]
  BY DEF TypeOK, EnqueuePcs
<1>4. Enqueues(t)'
  BY <1>2, <1>3, LocalSame DEF Enqueues, EnqueuePcs, TailReadPcs,
     TailVersionPcs, NextReadPcs
<1>5. QED
  BY <1>1, <1>2, <1>4, EnqueueLocalStep DEF EnqueuePcs

LEMMA DequeueReadKeeps ==
    ASSUME IInv, NEW t \in Threads, DequeueRead(t)
    PROVE  IInv'
<1> USE MpmcAssumption DEF IInv
<1>0. /\ tail.ptr \in Linked /\ Last \in Linked /\ Linked \subseteq Known
      /\ head.ptr = chain[1] /\ head.ptr \in Linked
      /\ \A n \in Linked : next[n].ptr = NULL => n = Last
      /\ \A n \in Linked : next[n].ptr \in Nodes \cup {NULL}
      /\ chain[1] = Last => Linked = {Last} /\ Len(chain) = 1
      /\ Known \subseteq Nodes
  BY ChainFacts DEF EndsShape, ListShape, Known
<1>d. t = destroyer => Destroys(t)
  BY DestroyerAlone
<1>1. CASE ReadHeadPtr(t, "d_headp", "d_headv")
  <2> USE <1>1 DEF ReadHeadPtr, Goto, shared, history
  <2>1. TypeOK'
    BY DEF TypeOK, VersionedPointer, DequeuePcs
  <2>2. /\ LocalTo(t) /\ pc'[t] = "d_headv"
        /\ pc[t] \in DequeuePcs /\ pc'[t] \in DequeuePcs
        /\ UNCHANGED sawEmpty
    BY DEF TypeOK, LocalTo, EnqueuePcs, DequeuePcs, DequeuedPcs
  <2>3. myhead'[t].ptr = head.ptr
    BY DEF TypeOK, VersionedPointer
  <2>4. Dequeues(t)'
    BY <1>0, <2>2, <2>3, LocalSame DEF Dequeues, DequeuePcs, DequeuedPcs,
       EmptyPcs, DeqHeadPcs, DeqTailPcs, DeqNextPcs
  <2>5. SeesEmpty(t)'
    BY <1>0, <2>2, <2>3 DEF SeesEmpty, Dequeues, DequeuePcs, DeqHeadPcs,
       DeqTailPcs, DeqNextPcs
  <2>6. t = destroyer => Destroys(t)'
    BY <1>d, <2>2, <2>3 DEF Destroys, DequeuePcs, DequeuedPcs, DeqHeadPcs, DeqTailPcs
  <2>7. QED
    BY <2>1, <2>2, <2>4, <2>5, <2>6, DequeueLocalStep
<1>2. CASE ReadHeadVersion(t, "d_headv", "d_tailp")
  <2> USE <1>2 DEF ReadHeadVersion, Goto, shared, history
  <2>1. TypeOK'
    BY DEF TypeOK, VersionedPointer, DequeuePcs
  <2>2. /\ LocalTo(t) /\ pc'[t] = "d_tailp"
        /\ pc[t] \in DequeuePcs /\ pc'[t] \in DequeuePcs
        /\ UNCHANGED sawEmpty
    BY DEF TypeOK, LocalTo, EnqueuePcs, DequeuePcs, DequeuedPcs
  <2>3. myhead'[t].ptr = myhead[t].ptr
    BY DEF TypeOK, VersionedPointer
  <2>4. Dequeues(t)'
    BY <1>0, <2>2, <2>3, LocalSame DEF Dequeues, DequeuePcs, DequeuedPcs,
       EmptyPcs, DeqHeadPcs, DeqTailPcs, DeqNextPcs
  <2>5. SeesEmpty(t)'
    BY <1>0, <2>2, <2>3 DEF SeesEmpty, Dequeues, DequeuePcs, DeqHeadPcs,
       DeqTailPcs, DeqNextPcs
  <2>6. t = destroyer => Destroys(t)'
    BY <1>d, <2>2, <2>3 DEF Destroys, DequeuePcs, DequeuedPcs, DeqHeadPcs, DeqTailPcs
  <2>7. QED
    BY <2>1, <2>2, <2>4, <2>5, <2>6, DequeueLocalStep
<1>3. CASE ReadTailPtr(t, "d_tailp", "d_tailv")
  <2> USE <1>3 DEF ReadTailPtr, Goto, shared, history
  <2>1. TypeOK'
    BY DEF TypeOK, VersionedPointer, DequeuePcs
  <2>2. /\ LocalTo(t) /\ pc'[t] = "d_tailv"
        /\ pc[t] \in DequeuePcs /\ pc'[t] \in DequeuePcs
        /\ UNCHANGED sawEmpty
    BY DEF TypeOK, LocalTo, EnqueuePcs, DequeuePcs, DequeuedPcs
  <2>3. mytail'[t].ptr = tail.ptr
    BY DEF TypeOK, VersionedPointer
  <2>4. Dequeues(t)'
    BY <1>0, <2>2, <2>3, LocalSame DEF Dequeues, DequeuePcs, DequeuedPcs,
       EmptyPcs, DeqHeadPcs, DeqTailPcs, DeqNextPcs
  <2>5. SeesEmpty(t)'
    BY <1>0, <2>2, <2>3 DEF SeesEmpty, Dequeues, DequeuePcs, DeqHeadPcs,
       DeqTailPcs, DeqNextPcs
  <2>6. t = destroyer => Destroys(t)'
    BY <1>d, <2>2, <2>3 DEF Destroys, DequeuePcs, DequeuedPcs, DeqHeadPcs, DeqTailPcs
  <2>7. QED
    BY <2>1, <2>2, <2>4, <2>5, <2>6, DequeueLocalStep
<1>4. CASE ReadTailVersion(t, "d_tailv", "d_nextp")
  <2> USE <1>4 DEF ReadTailVersion, Goto, shared, history
  <2>1. TypeOK'
    BY DEF TypeOK, VersionedPointer, DequeuePcs
  <2>2. /\ LocalTo(t) /\ pc'[t] = "d_nextp"
        /\ pc[t] \in DequeuePcs /\ pc'[t] \in DequeuePcs
        /\ UNCHANGED sawEmpty
    BY DEF TypeOK, LocalTo, EnqueuePcs, DequeuePcs, DequeuedPcs
  <2>3. mytail'[t].ptr = mytail[t].ptr
    BY DEF TypeOK, VersionedPointer
  <2>4. Dequeues(t)'
    BY <1>0, <2>2, <2>3, LocalSame DEF Dequeues, DequeuePcs, DequeuedPcs,
       EmptyPcs, DeqHeadPcs, DeqTailPcs, DeqNextPcs
  <2>5. SeesEmpty(t)'
    BY <1>0, <2>2, <2>3 DEF SeesEmpty, Dequeues, DequeuePcs, DeqHeadPcs,
       DeqTailPcs, DeqNextPcs
  <2>6. t = destroyer => Destroys(t)'
    BY <1>d, <2>2, <2>3 DEF Destroys, DequeuePcs, DequeuedPcs, DeqHeadPcs, DeqTailPcs
  <2>7. QED
    BY <2>1, <2>2, <2>4, <2>5, <2>6, DequeueLocalStep
<1>5. CASE ReadNextPtr(t, myhead[t].ptr, "d_nextp", "d_nextv")
  <2> USE <1>5 DEF ReadNextPtr, Goto, shared, history
  <2>0. myhead[t].ptr \in Known /\ myhead[t].ptr \in Nodes
    BY <1>0 DEF Dequeues, DequeuePcs, DeqHeadPcs
  <2>1. TypeOK'
    BY <2>0 DEF TypeOK, VersionedPointer, DequeuePcs
  <2>2. /\ LocalTo(t) /\ pc'[t] = "d_nextv"
        /\ pc[t] \in DequeuePcs /\ pc'[t] \in DequeuePcs
        /\ UNCHANGED sawEmpty
    BY DEF TypeOK, LocalTo, EnqueuePcs, DequeuePcs, DequeuedPcs
  <2>3. mynext'[t].ptr = next[myhead[t].ptr].ptr
    BY DEF TypeOK, VersionedPointer
  <2>4. Dequeues(t)'
    BY <1>0, <2>0, <2>2, <2>3, LocalSame DEF Dequeues, DequeuePcs, DequeuedPcs,
       EmptyPcs, DeqHeadPcs, DeqTailPcs, DeqNextPcs
  <2>d. next[myhead[t].ptr].ptr = NULL /\ myhead[t].ptr = head.ptr => t \in sawEmpty
    BY <1>0, <2>0, <2>2 DEF SeesEmpty, Dequeues, DequeuePcs, DeqHeadPcs
  <2>5. SeesEmpty(t)'
    BY <1>0, <2>2, <2>3, <2>d DEF LocalTo, SeesEmpty, Dequeues, DequeuePcs, DeqHeadPcs,
       DeqTailPcs, DeqNextPcs
  <2>6. t = destroyer => Destroys(t)'
    BY <1>d, <2>2, <2>3 DEF Destroys, DequeuePcs, DequeuedPcs, DeqHeadPcs, DeqTailPcs
  <2>7. QED
    BY <2>1, <2>2, <2>4, <2>5, <2>6, DequeueLocalStep
<1>6. CASE ReadNextVersion(t, myhead[t].ptr, "d_nextv", "d_chkp")
  <2> USE <1>6 DEF ReadNextVersion, Goto, shared, history
  <2>0. myhead[t].ptr \in Known /\ myhead[t].ptr \in Nodes
    BY <1>0 DEF Dequeues, DequeuePcs, DeqHeadPcs
  <2>1. TypeOK'
    BY <2>0 DEF TypeOK, VersionedPointer, DequeuePcs
  <2>2. /\ LocalTo(t) /\ pc'[t] = "d_chkp"
        /\ pc[t] \in DequeuePcs /\ pc'[t] \in DequeuePcs
        /\ UNCHANGED sawEmpty
    BY DEF TypeOK, LocalTo, EnqueuePcs, DequeuePcs, DequeuedPcs
  <2>3. mynext'[t].ptr = mynext[t].ptr
    BY DEF TypeOK, VersionedPointer
  <2>4. Dequeues(t)'
    BY <1>0, <2>2, <2>3, LocalSame DEF Dequeues, DequeuePcs, DequeuedPcs,
       EmptyPcs, DeqHeadPcs, DeqTailPcs, DeqNextPcs
  <2>5. SeesEmpty(t)'
    BY <1>0, <2>2, <2>3 DEF SeesEmpty, Dequeues, DequeuePcs, DeqHeadPcs,
       DeqTailPcs, DeqNextPcs
  <2>6. t = destroyer => Destroys(t)'
    BY <1>d, <2>2, <2>3 DEF Destroys, DequeuePcs, DequeuedPcs, DeqHeadPcs, DeqTailPcs
  <2>7. QED
    BY <2>1, <2>2, <2>4, <2>5, <2>6, DequeueLocalStep
<1>7. CASE Compare(t, myhead[t].ptr, head.ptr, "d_chkp", "d_chkv")
  <2> USE <1>7 DEF Compare, Retry, ForgetPointers, Goto, shared, history, Unset, VP
  <2>1. TypeOK'
    <3>1. CASE myhead[t].ptr = head.ptr
      BY <3>1 DEF TypeOK, DequeuePcs, AfterCheck
    <3>2. CASE myhead[t].ptr # head.ptr
      BY <3>2, RetryTypes DEF DequeuePcs
    <3>3. QED
      BY <3>1, <3>2
  <2>2. /\ LocalTo(t) /\ pc'[t] \in {"d_chkv", "d_headp"}
        /\ pc[t] \in DequeuePcs /\ pc'[t] \in DequeuePcs
        /\ UNCHANGED sawEmpty
    BY DEF TypeOK, LocalTo, EnqueuePcs, DequeuePcs, DequeuedPcs, AfterCheck
  <2>3. pc'[t] # "d_headp" =>
            /\ UNCHANGED <<myhead, mytail, mynext, mydata>>
            /\ myhead[t].ptr = head.ptr
    BY DEF TypeOK, EnqueuePcs, AfterCheck
  <2>c. pc[t] = "d_chkp"
    OBVIOUS
  <2>4. Dequeues(t)'
    BY ONLY <1>0, <2>2, <2>3, <2>c, LocalSame, IInv DEF IInv, LocalTo, Dequeues,
       DequeuePcs, DequeuedPcs, EmptyPcs, DeqHeadPcs, DeqTailPcs, DeqNextPcs
  <2>5. SeesEmpty(t)'
    BY ONLY <1>0, <2>2, <2>3, <2>c, IInv DEF IInv, LocalTo, SeesEmpty, Dequeues,
       DequeuePcs, DeqHeadPcs, DeqTailPcs, DeqNextPcs
  <2>6. t = destroyer => Destroys(t)'
    BY ONLY <1>d, <2>2, <2>3, <2>c DEF LocalTo, Destroys, DequeuePcs, DequeuedPcs,
       DeqHeadPcs, DeqTailPcs
  <2>7. QED
    BY <2>1, <2>2, <2>4, <2>5, <2>6, DequeueLocalStep
<1>8. CASE Compare(t, myhead[t].version, head.version, "d_chkv", AfterCheck(t))
  <2> USE <1>8 DEF Compare, Retry, ForgetPointers, Goto, shared, history, Unset, VP
  <2>1. TypeOK'
    <3>1. CASE myhead[t].version = head.version
      BY <3>1 DEF TypeOK, DequeuePcs, AfterCheck
    <3>2. CASE myhead[t].version # head.version
      BY <3>2, RetryTypes DEF DequeuePcs
    <3>3. QED
      BY <3>1, <3>2
  <2>2. /\ LocalTo(t) /\ pc'[t] \in {"d_data", "d_null", "d_help", "d_headp"}
        /\ pc[t] \in DequeuePcs /\ pc'[t] \in DequeuePcs
        /\ UNCHANGED sawEmpty
    BY DEF TypeOK, LocalTo, EnqueuePcs, DequeuePcs, DequeuedPcs, AfterCheck
  <2>3. pc'[t] # "d_headp" =>
            /\ UNCHANGED <<myhead, mytail, mynext, mydata>>
            /\ pc'[t] = AfterCheck(t)
    BY DEF TypeOK, EnqueuePcs, AfterCheck
  <2>c. pc[t] = "d_chkv"
    OBVIOUS
  <2>4. Dequeues(t)'
    BY ONLY <1>0, <2>2, <2>3, <2>c, LocalSame, IInv DEF IInv, LocalTo, Dequeues,
       AfterCheck, DequeuePcs, DequeuedPcs, EmptyPcs, DeqHeadPcs, DeqTailPcs, DeqNextPcs
  <2>5. SeesEmpty(t)'
    BY ONLY <1>0, <2>2, <2>3, <2>c, IInv DEF IInv, LocalTo, SeesEmpty, Dequeues,
       DequeuePcs, DeqHeadPcs, DeqTailPcs, DeqNextPcs
  <2>6. t = destroyer => Destroys(t)'
    BY ONLY <1>d, <2>2, <2>3, <2>c DEF LocalTo, Destroys, DequeuePcs, DequeuedPcs,
       DeqHeadPcs, DeqTailPcs
  <2>7. QED
    BY <2>1, <2>2, <2>4, <2>5, <2>6, DequeueLocalStep
<1>9. QED
  BY <1>1, <1>2, <1>3, <1>4, <1>5, <1>6, <1>7, <1>8 DEF DequeueRead

LEMMA NotInDequeue ==
    ASSUME IInv, NEW t \in Threads, pc[t] \notin DequeuePcs
    PROVE  t \notin sawEmpty
  BY DEF IInv, SeesEmpty

LEMMA EnqueueReturnKeeps ==
    ASSUME IInv, NEW t \in Threads, EnqueueReturn(t)
    PROVE  IInv'
<1> USE MpmcAssumption DEF IInv, EnqueueReturn, ReturnFrom, Goto, ForgetPointers, Unset, VP, shared, history
<1>1. TypeOK'
  BY DEF TypeOK, VersionedPointer, EnqueuePcs, DequeuePcs, DequeuedPcs, EmptyPcs
<1>2. LocalTo(t) /\ pc[t] = "e_inc" /\ pc'[t] = "idle"
  BY DEF TypeOK, LocalTo, EnqueuePcs, DequeuePcs, DequeuedPcs
<1>3. t \notin sawEmpty'
  BY <1>2, NotInDequeue DEF DequeuePcs
<1>4. (Enqueues(t) /\ Dequeues(t) /\ SeesEmpty(t))'
  BY <1>2, <1>3 DEF Enqueues, Dequeues, SeesEmpty, EnqueuePcs, TailReadPcs,
     TailVersionPcs, NextReadPcs, DequeuePcs, DequeuedPcs, EmptyPcs, DeqHeadPcs,
     DeqTailPcs, DeqNextPcs
<1>5. t = destroyer => Destroys(t)'
  BY <1>2 DEF Destroys, DequeuePcs, DeqHeadPcs, DeqTailPcs
<1>6. QED
  BY <1>1, <1>2, <1>4, <1>5, LocalStep

LEMMA EmptyReturnKeeps ==
    ASSUME IInv, NEW t \in Threads, EmptyReturn(t)
    PROVE  IInv'
<1> USE MpmcAssumption DEF IInv, EmptyReturn, ReturnFrom, Goto, ForgetPointers, Unset, VP, shared, history
<1>1. TypeOK'
  BY DEF TypeOK, VersionedPointer, EnqueuePcs, DequeuePcs, DequeuedPcs, EmptyPcs
<1>2. LocalTo(t) /\ pc[t] = "m_next" /\ pc'[t] = "idle"
  BY DEF TypeOK, LocalTo, EnqueuePcs, DequeuePcs, DequeuedPcs
<1>3. t \notin sawEmpty'
  BY <1>2, NotInDequeue DEF DequeuePcs
<1>4. (Enqueues(t) /\ Dequeues(t) /\ SeesEmpty(t))'
  BY <1>2, <1>3 DEF Enqueues, Dequeues, SeesEmpty, EnqueuePcs, TailReadPcs,
     TailVersionPcs, NextReadPcs, DequeuePcs, DequeuedPcs, EmptyPcs, DeqHeadPcs,
     DeqTailPcs, DeqNextPcs
<1>5. t = destroyer => Destroys(t)'
  BY <1>2 DEF Destroys, DequeuePcs, DeqHeadPcs, DeqTailPcs
<1>6. QED
  BY <1>1, <1>2, <1>4, <1>5, LocalStep

LEMMA DequeueNullKeeps ==
    ASSUME IInv, NEW t \in Threads, DequeueNull(t)
    PROVE  IInv'
<1> USE MpmcAssumption DEF IInv, DequeueNull, ReturnFrom, Goto, ForgetPointers, Unset, VP, shared, history
<1>1. TypeOK'
  BY DEF TypeOK, VersionedPointer, EnqueuePcs, DequeuePcs, DequeuedPcs, EmptyPcs
<1>2. LocalTo(t) /\ pc[t] = "d_null" /\ pc'[t] = "idle"
  BY DEF TypeOK, LocalTo, EnqueuePcs, DequeuePcs, DequeuedPcs
<1>3. t \notin sawEmpty'
  OBVIOUS
<1>4. (Enqueues(t) /\ Dequeues(t) /\ SeesEmpty(t))'
  BY <1>2, <1>3 DEF Enqueues, Dequeues, SeesEmpty, EnqueuePcs, TailReadPcs,
     TailVersionPcs, NextReadPcs, DequeuePcs, DequeuedPcs, EmptyPcs, DeqHeadPcs,
     DeqTailPcs, DeqNextPcs
<1>5. t = destroyer => Destroys(t)'
  BY <1>2 DEF Destroys, DequeuePcs, DeqHeadPcs, DeqTailPcs
<1>6. QED
  BY <1>1, <1>2, <1>4, <1>5, LocalStep

LEMMA ReadUserDataKeeps ==
    ASSUME IInv, NEW t \in Threads, ReadUserData(t)
    PROVE  IInv'
<1> USE MpmcAssumption DEF IInv, ReadUserData, Goto, shared, history
<1>1. TypeOK'
  <2>1. mynext[t].ptr \in Nodes
    BY DEF Dequeues
  <2>2. user_data[mynext[t].ptr] \in Data \cup {Garbage}
    BY <2>1 DEF TypeOK
  <2>3. QED
    BY <2>2 DEF TypeOK, DequeuePcs
<1>2. LocalTo(t) /\ pc[t] = "d_data" /\ pc'[t] = "d_swing"
  BY DEF TypeOK, LocalTo, EnqueuePcs, DequeuePcs, DequeuedPcs
<1>3. mydata'[t] = user_data[mynext[t].ptr]
  BY DEF TypeOK
<1>4. Dequeues(t)'
  BY <1>2, <1>3, LocalSame DEF Dequeues, DequeuePcs, DequeuedPcs, EmptyPcs,
     DeqHeadPcs, DeqTailPcs, DeqNextPcs, LocalTo, TypeOK
<1>5. SeesEmpty(t)'
  BY <1>2 DEF SeesEmpty, Dequeues, DequeuePcs, DeqHeadPcs, DeqTailPcs, DeqNextPcs, LocalTo, TypeOK
<1>6. t = destroyer => Destroys(t)'
  BY <1>2, DestroyerAlone DEF Destroys, DequeuePcs, DequeuedPcs, DeqHeadPcs,
     DeqTailPcs, LocalTo, TypeOK
<1>7. QED
  BY <1>1, <1>2, <1>4, <1>5, <1>6, DequeueLocalStep DEF DequeuePcs

LEMMA SwingHeadFailsKeeps ==
    ASSUME IInv, NEW t \in Threads, SwingHeadFails(t)
    PROVE  IInv'
<1> USE MpmcAssumption DEF IInv, SwingHeadFails, Retry, Goto, ForgetPointers, Unset, VP, shared, history
<1>1. TypeOK'
  BY DEF TypeOK, VersionedPointer, EnqueuePcs, DequeuePcs, DequeuedPcs, EmptyPcs
<1>2. LocalTo(t) /\ pc[t] = "d_swing" /\ pc'[t] = "d_headp"
  BY DEF TypeOK, LocalTo, EnqueuePcs, DequeuePcs, DequeuedPcs
<1>3. Dequeues(t)'
  BY <1>2, LocalSame DEF Dequeues, DequeuePcs, DequeuedPcs, EmptyPcs,
     DeqHeadPcs, DeqTailPcs, DeqNextPcs, LocalTo, TypeOK
<1>4. SeesEmpty(t)'
  BY <1>2 DEF SeesEmpty, Dequeues, DequeuePcs, DeqHeadPcs, DeqTailPcs, DeqNextPcs, LocalTo, TypeOK
<1>5. t = destroyer => Destroys(t)'
  BY <1>2, DestroyerAlone DEF Destroys, DequeuePcs, DequeuedPcs, DeqHeadPcs,
     DeqTailPcs, LocalTo, TypeOK
<1>6. QED
  BY <1>1, <1>2, <1>3, <1>4, <1>5, DequeueLocalStep DEF DequeuePcs

LEMMA DecLenKeeps ==
    ASSUME IInv, NEW t \in Threads, DecLen(t)
    PROVE  IInv'
<1> USE MpmcAssumption DEF IInv, DecLen, Goto, shared, history
<1>1. TypeOK'
  BY DEF TypeOK, VersionedPointer, DequeuedPcs
<1>2. LocalTo(t) /\ pc[t] = "d_dec" /\ pc'[t] = "d_free"
  BY DEF TypeOK, LocalTo, EnqueuePcs, DequeuePcs, DequeuedPcs
<1>3. Enqueues(t)'
  BY <1>2 DEF Enqueues, EnqueuePcs, TailReadPcs, TailVersionPcs, NextReadPcs
<1>4. Dequeues(t)'
  BY <1>2, LocalSame DEF Dequeues, DequeuePcs, DequeuedPcs, EmptyPcs,
     DeqHeadPcs, DeqTailPcs, DeqNextPcs
<1>5. SeesEmpty(t)'
  BY <1>2, NotInDequeue DEF SeesEmpty, DequeuePcs, DeqHeadPcs, DeqTailPcs, DeqNextPcs
<1>6. t = destroyer => Destroys(t)'
  BY <1>2 DEF Destroys, DequeuePcs, DequeuedPcs, DeqHeadPcs, DeqTailPcs
<1>7. QED
  BY <1>1, <1>2, <1>3, <1>4, <1>5, <1>6, LocalStep

LEMMA EmptyCallKeeps ==
    ASSUME IInv, NEW t \in Threads, EmptyCall(t)
    PROVE  IInv'
<1> USE MpmcAssumption DEF IInv, EmptyCall, Open, Goto, shared, history
<1>1. TypeOK'
  BY DEF TypeOK, VersionedPointer, EmptyPcs
<1>2. LocalTo(t) /\ pc[t] = "idle" /\ pc'[t] = "m_next" /\ t # destroyer
  BY DEF TypeOK, LocalTo, EnqueuePcs, DequeuePcs, DequeuedPcs
<1>3. myhead'[t].ptr = head.ptr
  BY DEF TypeOK, VersionedPointer
<1>4. head.ptr \in Known
  BY ChainFacts DEF EndsShape, ListShape
<1>5. Enqueues(t)'
  BY <1>2 DEF Enqueues, EnqueuePcs, TailReadPcs, TailVersionPcs, NextReadPcs
<1>6. Dequeues(t)'
  BY <1>2, <1>3, <1>4, LocalSame DEF Dequeues, DequeuePcs, DequeuedPcs,
     EmptyPcs, DeqHeadPcs, DeqTailPcs, DeqNextPcs
<1>7. SeesEmpty(t)'
  BY <1>2, NotInDequeue DEF SeesEmpty, DequeuePcs, DeqHeadPcs, DeqTailPcs, DeqNextPcs
<1>8. QED
  BY <1>1, <1>2, <1>5, <1>6, <1>7, LocalStep

LEMMA EmptyNowMeans ==
    ASSUME IInv
    PROVE  /\ EmptyNow <=> Len(chain) = 1
           /\ ~EmptyNow => Len(chain) > 1
<1>1. TypeOK /\ ListShape /\ head.ptr = chain[1]
  BY DEF IInv, EndsShape
<1>2. Len(chain) \in Nat /\ Len(chain) > 0
  BY <1>1, ChainFacts
<1>3. chain[1] = Last <=> Len(chain) = 1
  BY <1>1, ChainFacts
<1>4. EmptyNow <=> chain[1] = Last
  BY <1>1, ChainFacts DEF EmptyNow
<1>5. QED
  BY <1>2, <1>3, <1>4

LEMMA DequeueCallKeeps ==
    ASSUME IInv, NEW t \in Threads, DequeueCall(t)
    PROVE  IInv'
<1> USE MpmcAssumption DEF IInv, DequeueCall, Open, Goto, shared, history
<1>1. TypeOK'
  BY DEF TypeOK, DequeuePcs
<1>2. LocalTo(t) /\ pc[t] = "idle" /\ pc'[t] = "d_headp"
  BY DEF TypeOK, LocalTo, EnqueuePcs, DequeuePcs, DequeuedPcs
<1>3. t = destroyer => Len(chain) > 1
  BY EmptyNowMeans
<1>4. Enqueues(t)' /\ Dequeues(t)'
  BY <1>2 DEF Enqueues, Dequeues, EnqueuePcs, TailReadPcs, TailVersionPcs,
     NextReadPcs, DequeuePcs, DequeuedPcs, EmptyPcs, DeqHeadPcs, DeqTailPcs,
     DeqNextPcs
<1>5. SeesEmpty(t)'
  BY <1>2 DEF SeesEmpty, DequeuePcs, DeqHeadPcs, DeqTailPcs, DeqNextPcs
<1>6. t = destroyer => Destroys(t)'
  BY <1>2, <1>3 DEF Destroys, DequeuePcs, DequeuedPcs, DeqHeadPcs, DeqTailPcs
<1>7. QED
  BY <1>1, <1>2, <1>4, <1>5, <1>6, LocalStep

-----------------------------------------------------------------------------
(* Steps that move the tail on to the last node.                           *)

\* Besides the tail, only the variables of t change.
MovesTail(t) ==
    /\ UNCHANGED <<head, next, user_data, heap, chain, destroyer, sawEmpty>>
    /\ tail.ptr # Last /\ tail'.ptr = Last
    /\ \A u \in Threads \ {t} :
          /\ pc'[u] = pc[u] /\ node'[u] = node[u] /\ mydata'[u] = mydata[u]
          /\ myhead'[u] = myhead[u] /\ mytail'[u] = mytail[u]
          /\ mynext'[u] = mynext[u]
    /\ pc[t] \in EnqueuePcs <=> pc'[t] \in EnqueuePcs
    /\ pc[t] \in EnqueuePcs => node'[t] = node[t]
    /\ {pc[t], pc'[t]} \cap (DequeuedPcs \cup {"destroyed", "idle"}) = {}

\* Two versioned pointers are equal if both words are.
LEMMA SameVersionedPointer ==
    ASSUME NEW S, NEW T, NEW a \in VersionedPointer(S), NEW b \in VersionedPointer(T)
    PROVE  a = b <=> a.ptr = b.ptr /\ a.version = b.version
  BY DEF VersionedPointer

LEMMA MovesTailStep ==
    ASSUME IInv, NEW t \in Threads, MovesTail(t), TypeOK', Enqueues(t)',
           Dequeues(t)', SeesEmpty(t)', t = destroyer => Destroys(t)'
    PROVE  IInv'
<1> USE MpmcAssumption
<1>1. /\ Linked' = Linked /\ Last' = Last /\ Destroyed' = Destroyed
  BY DEF MovesTail, Linked, Last, Destroyed
<1>2. Known' = Known
  <2>1. ASSUME NEW n \in Nodes
        PROVE  (\A u \in Threads : pc'[u] \in EnqueuePcs => node'[u] # n)
               <=> (\A u \in Threads : pc[u] \in EnqueuePcs => node[u] # n)
    BY DEF MovesTail
  <2>2. QED
    BY <2>1 DEF Known, MovesTail
<1>3. ListShape'
  BY <1>1, <1>2 DEF IInv, ListShape, MovesTail
<1>4. /\ Last \in Linked /\ tail.ptr \in Linked /\ head.ptr = chain[1]
      /\ next[Last].ptr = NULL /\ tail.ptr # Last
      /\ chain[1] = Last => Linked = {Last}
  BY ChainFacts DEF IInv, ListShape, EndsShape, MovesTail
<1>5. EndsShape'
  BY <1>1, <1>4 DEF EndsShape, MovesTail
<1>6. ASSUME NEW u \in Threads, u # t
      PROVE  Enqueues(u)' /\ Dequeues(u)' /\ SeesEmpty(u)'
  <2> USE <1>1, <1>2, <1>4, <1>6
  <2>1. pc[u] \in TailVersionPcs => mytail[u].ptr # Last
    BY DEF IInv, Enqueues, TailReadPcs, TailVersionPcs
  <2>2. Enqueues(u)'
    BY <2>1 DEF IInv, Enqueues, MovesTail
  <2>3. Dequeues(u)'
    BY DEF IInv, Dequeues, MovesTail
  <2>4. SeesEmpty(u)'
    BY DEF IInv, SeesEmpty, MovesTail
  <2>5. QED
    BY <2>2, <2>3, <2>4
<1>7. Owners'
  <2>1. ASSUME NEW u \in Threads
        PROVE  /\ pc'[u] \in EnqueuePcs <=> pc[u] \in EnqueuePcs
               /\ pc[u] \in EnqueuePcs => node'[u] = node[u]
               /\ pc'[u] \in DequeuedPcs <=> pc[u] \in DequeuedPcs
               /\ pc[u] \in DequeuedPcs => myhead'[u] = myhead[u]
    BY DEF MovesTail
  <2>2. QED
    BY <1>1, <2>1 DEF IInv, Owners, MovesTail
<1>8. destroyer # NULL => t = destroyer
  BY DestroyerAlone DEF MovesTail
<1>9. Destroying'
  BY <1>1, <1>8 DEF IInv, Destroying, Destroys, MovesTail
<1>10. QED
  BY <1>3, <1>5, <1>6, <1>7, <1>9 DEF IInv

LEMMA EnqueueHelpKeeps ==
    ASSUME IInv, NEW t \in Threads, EnqueueHelp(t)
    PROVE  IInv'
<1> USE MpmcAssumption DEF IInv, EnqueueHelp, Retry, Goto, ForgetPointers,
        shared, history, Unset, VP
<1>1. tail' = tail \/ (tail = mytail[t] /\ tail'.ptr = mynext[t].ptr)
  BY DEF SwapTail
<1>2. tail = mytail[t] => /\ tail.ptr # Last
                          /\ mynext[t].ptr = Last
  BY ChainFacts DEF EndsShape, Enqueues, NextReadPcs
<1>3. TypeOK'
  <2>1. tail' \in VersionedPointer(Nodes)
    <3>1. CASE tail' = tail
      BY <3>1 DEF TypeOK
    <3>2. CASE tail' # tail
      <4>1. tail = mytail[t] /\ tail' = VP(mynext[t].ptr, NextVersion(tail.version))
        BY <3>2 DEF SwapTail
      <4>2. mynext[t].ptr \in Nodes
        BY <1>2, <4>1, ChainFacts
      <4>3. tail.version \in Nat
        BY DEF TypeOK, VersionedPointer
      <4>4. QED
        BY <4>1, <4>2, <4>3, NextVersionType DEF VersionedPointer
    <3>3. QED
      BY <3>1, <3>2
  <2>2. /\ myhead' \in [Threads -> VersionedPointer(Nodes \cup {NULL})]
        /\ mytail' \in [Threads -> VersionedPointer(Nodes \cup {NULL})]
        /\ mynext' \in [Threads -> VersionedPointer(Nodes \cup {NULL, Garbage})]
    BY DEF TypeOK, VersionedPointer
  <2>3. mydata' = mydata
    BY DEF TypeOK, EnqueuePcs
  <2>4. QED
    BY <2>1, <2>2, <2>3 DEF TypeOK, EnqueuePcs
<1>4. /\ pc[t] = "e_help" /\ pc'[t] = "e_tailp" /\ mydata'[t] = mydata[t]
      /\ node'[t] = node[t] /\ UNCHANGED sawEmpty
  BY DEF TypeOK, EnqueuePcs
<1>5. LocalTo(t) \/ MovesTail(t)
  <2>1. CASE tail' = tail
    BY <2>1, <1>4 DEF TypeOK, LocalTo, EnqueuePcs, DequeuedPcs
  <2>2. CASE tail' # tail
    BY <2>2, <1>1, <1>2, <1>4 DEF TypeOK, MovesTail, EnqueuePcs, DequeuedPcs
  <2>3. QED
    BY <2>1, <2>2
<1>6. Enqueues(t)'
  <2>1. Linked' = Linked
    BY DEF Linked
  <2>2. QED
    BY <1>4, <2>1 DEF Enqueues, EnqueuePcs, TailReadPcs, TailVersionPcs, NextReadPcs
<1>7. Dequeues(t)' /\ SeesEmpty(t)'
  BY <1>4, NotInDequeue DEF Dequeues, SeesEmpty, DequeuePcs, DequeuedPcs,
     EmptyPcs, DeqHeadPcs, DeqTailPcs, DeqNextPcs
<1>8. t # destroyer
  BY <1>4, DestroyerAlone DEF EnqueuePcs
<1>9. QED
  BY <1>3, <1>5, <1>6, <1>7, <1>8, LocalStep, MovesTailStep

LEMMA SwingTailKeeps ==
    ASSUME IInv, NEW t \in Threads, SwingTail(t)
    PROVE  IInv'
<1> USE MpmcAssumption DEF IInv, SwingTail, Goto, ForgetPointers,
        shared, history, Unset, VP
<1>1. tail = mytail[t] => tail.ptr # Last /\ node[t] = Last
  BY ChainFacts DEF EndsShape, Enqueues
<1>2. tail = mytail[t] \/ tail.ptr # mytail[t].ptr
  <2>1. /\ tail \in VersionedPointer(Nodes)
        /\ mytail[t] \in VersionedPointer(Nodes \cup {NULL})
    BY DEF TypeOK
  <2>2. mytail[t].ptr = tail.ptr => mytail[t].version = tail.version
    BY DEF Enqueues, TailVersionPcs
  <2>3. QED
    BY <2>1, <2>2, SameVersionedPointer
<1>3. TypeOK'
  <2>1. tail' \in VersionedPointer(Nodes)
    <3>1. CASE tail # mytail[t]
      BY <3>1 DEF TypeOK, SwapTail
    <3>2. CASE tail = mytail[t]
      <4>1. tail' = VP(node[t], NextVersion(tail.version))
        BY <3>2 DEF SwapTail
      <4>2. node[t] \in Nodes
        BY DEF Enqueues
      <4>3. tail.version \in Nat
        BY DEF TypeOK, VersionedPointer
      <4>4. QED
        BY <4>1, <4>2, <4>3, NextVersionType DEF VersionedPointer
    <3>3. QED
      BY <3>1, <3>2
  <2>2. /\ myhead' \in [Threads -> VersionedPointer(Nodes \cup {NULL})]
        /\ mytail' \in [Threads -> VersionedPointer(Nodes \cup {NULL})]
        /\ mynext' \in [Threads -> VersionedPointer(Nodes \cup {NULL, Garbage})]
    BY DEF TypeOK, VersionedPointer
  <2>3. QED
    BY <2>1, <2>2 DEF TypeOK, EnqueuedPcs
<1>4. pc[t] = "e_swing" /\ pc'[t] = "e_inc"
  BY DEF TypeOK
<1>5. LocalTo(t) \/ MovesTail(t)
  <2>1. CASE tail # mytail[t]
    BY <2>1, <1>2, <1>4 DEF TypeOK, LocalTo, SwapTail, EnqueuePcs, DequeuedPcs
  <2>2. CASE tail = mytail[t]
    BY <2>2, <1>1, <1>4 DEF TypeOK, MovesTail, SwapTail, EnqueuePcs, DequeuedPcs
  <2>3. QED
    BY <2>1, <2>2
<1>6. (Enqueues(t) /\ Dequeues(t) /\ SeesEmpty(t))'
  BY <1>4, NotInDequeue DEF Enqueues, EnqueuePcs, TailReadPcs, TailVersionPcs,
     NextReadPcs, Dequeues, SeesEmpty, DequeuePcs, DequeuedPcs, EmptyPcs,
     DeqHeadPcs, DeqTailPcs, DeqNextPcs
<1>7. t # destroyer
  BY <1>4, DestroyerAlone DEF EnqueuedPcs
<1>8. QED
  BY <1>3, <1>5, <1>6, <1>7, LocalStep, MovesTailStep

LEMMA DequeueHelpKeeps ==
    ASSUME IInv, NEW t \in Threads, DequeueHelp(t)
    PROVE  IInv'
<1> USE MpmcAssumption DEF IInv, DequeueHelp, Retry, Goto, ForgetPointers,
        shared, history, Unset, VP
<1>1. tail' = tail \/ (tail = mytail[t] /\ tail'.ptr = mynext[t].ptr)
  BY DEF SwapTail
<1>2. tail = mytail[t] => /\ tail.ptr # Last
                          /\ mynext[t].ptr = Last
  <2>1. tail = mytail[t] => /\ myhead[t].ptr = tail.ptr /\ myhead[t].ptr = head.ptr
                            /\ mynext[t].ptr = next[head.ptr].ptr
                            /\ mynext[t].ptr # NULL
    BY DEF EndsShape, Dequeues, DequeuePcs, DeqHeadPcs, DeqTailPcs, DeqNextPcs
  <2>2. QED
    BY <2>1, ChainFacts DEF EndsShape
<1>3. TypeOK'
  <2>1. tail' \in VersionedPointer(Nodes)
    <3>1. CASE tail' = tail
      BY <3>1 DEF TypeOK
    <3>2. CASE tail' # tail
      <4>1. tail = mytail[t] /\ tail' = VP(mynext[t].ptr, NextVersion(tail.version))
        BY <3>2 DEF SwapTail
      <4>2. mynext[t].ptr \in Nodes
        BY <1>2, <4>1, ChainFacts
      <4>3. tail.version \in Nat
        BY DEF TypeOK, VersionedPointer
      <4>4. QED
        BY <4>1, <4>2, <4>3, NextVersionType DEF VersionedPointer
    <3>3. QED
      BY <3>1, <3>2
  <2>2. /\ myhead' \in [Threads -> VersionedPointer(Nodes \cup {NULL})]
        /\ mytail' \in [Threads -> VersionedPointer(Nodes \cup {NULL})]
        /\ mynext' \in [Threads -> VersionedPointer(Nodes \cup {NULL, Garbage})]
    BY DEF TypeOK, VersionedPointer
  <2>3. mydata' \in [Threads -> Data \cup {NULL, Garbage}]
    BY DEF TypeOK
  <2>4. pc' \in [Threads -> EnqueuePcs \cup EnqueuedPcs \cup DequeuePcs
                            \cup DequeuedPcs \cup EmptyPcs
                            \cup {"idle", "destroyed"}]
    BY DEF TypeOK, DequeuePcs, EnqueuePcs
  <2>5. QED
    BY <2>1, <2>2, <2>3, <2>4 DEF TypeOK
<1>4. /\ pc[t] = "d_help" /\ pc'[t] = "d_headp" /\ UNCHANGED sawEmpty
  BY DEF TypeOK, EnqueuePcs
<1>5. LocalTo(t) \/ MovesTail(t)
  <2>1. CASE tail' = tail
    BY <2>1, <1>4 DEF TypeOK, LocalTo, EnqueuePcs, DequeuedPcs
  <2>2. CASE tail' # tail
    BY <2>2, <1>1, <1>2, <1>4 DEF TypeOK, MovesTail, EnqueuePcs, DequeuedPcs
  <2>3. QED
    BY <2>1, <2>2
<1>6. Enqueues(t)' /\ Dequeues(t)'
  BY <1>4 DEF Enqueues, Dequeues, EnqueuePcs, TailReadPcs, TailVersionPcs,
     NextReadPcs, DequeuePcs, DequeuedPcs, EmptyPcs, DeqHeadPcs, DeqTailPcs,
     DeqNextPcs
<1>7. SeesEmpty(t)'
  BY <1>4 DEF SeesEmpty, DequeuePcs, DeqHeadPcs, DeqTailPcs, DeqNextPcs
<1>8. t = destroyer => Destroys(t)'
  BY <1>4, DestroyerAlone DEF Destroys, DequeuePcs, DequeuedPcs, DeqHeadPcs,
     DeqTailPcs
<1>9. QED
  BY <1>3, <1>5, <1>6, <1>7, <1>8, LocalStep, MovesTailStep

-----------------------------------------------------------------------------
(* Steps that write to the node of an enqueue before it is linked.         *)

\* t has just got n, or has it still to link; nothing else changes.
PrivateTo(t, n) ==
    /\ UNCHANGED <<head, tail, chain, destroyer, sawEmpty>>
    /\ destroyer = NULL
    /\ \A m \in Nodes \ {n} : /\ next'[m] = next[m] /\ heap'[m] = heap[m]
                              /\ user_data'[m] = user_data[m]
    /\ \A u \in Threads \ {t} :
          /\ pc'[u] = pc[u] /\ node'[u] = node[u] /\ mydata'[u] = mydata[u]
          /\ myhead'[u] = myhead[u] /\ mytail'[u] = mytail[u]
          /\ mynext'[u] = mynext[u]
    /\ heap'[n] = "live" /\ pc'[t] \in EnqueuePcs /\ node'[t] = n
    /\ \/ pc[t] = "idle" /\ (heap[n] = "fresh" \/ (heap[n] = "freed" /\ ~Held(n)))
       \/ pc[t] \in EnqueuePcs /\ node[t] = n

LEMMA PrivateStep ==
    ASSUME IInv, NEW t \in Threads, NEW n \in Nodes, PrivateTo(t, n), TypeOK',
           Enqueues(t)'
    PROVE  IInv'
<1> USE MpmcAssumption
<1>0. /\ n \in Known => pc[t] = "idle" /\ heap[n] = "freed" /\ ~Held(n)
      /\ pc[t] \notin EnqueuePcs => heap[n] # "live"
  BY DEF PrivateTo, Known, EnqueuePcs
<1>1. /\ n \notin Linked
      /\ \A u \in Threads \ {t} : pc[u] \in EnqueuePcs => node[u] # n
      /\ \A u \in Threads : pc[u] \in DequeuedPcs => myhead[u].ptr # n
      /\ \A u \in Threads : pc[u] \in TailReadPcs \cup {"e_swing"} => mytail[u].ptr # n
      /\ \A u \in Threads : pc[u] \in DeqHeadPcs \cup EmptyPcs => myhead[u].ptr # n
  <2>1. n \notin Linked
    BY <1>0 DEF PrivateTo, IInv, ListShape, Destroying, Destroyed
  <2>2. \A u \in Threads \ {t} : pc[u] \in EnqueuePcs => node[u] # n
    BY <1>0 DEF PrivateTo, IInv, Enqueues, Owners
  <2>3. \A u \in Threads : pc[u] \in DequeuedPcs => myhead[u].ptr # n
    BY <1>0 DEF PrivateTo, IInv, Known, Dequeues
  <2>4. \A u \in Threads : pc[u] \in TailReadPcs \cup {"e_swing"} => mytail[u].ptr # n
    BY <1>0 DEF IInv, Enqueues, Held
  <2>5. \A u \in Threads : pc[u] \in DeqHeadPcs \cup EmptyPcs => myhead[u].ptr # n
    BY <1>0 DEF IInv, Dequeues, Held
  <2>6. QED
    BY <2>1, <2>2, <2>3, <2>4, <2>5
<1>2. Linked' = Linked /\ Last' = Last
  BY DEF PrivateTo, Linked, Last
<1>3. /\ ~Destroyed /\ ~Destroyed'
  BY DEF PrivateTo, Destroyed, IInv, Destroying, EnqueuePcs
<1>4. Known' = Known \ {n}
  BY <1>1 DEF Known, PrivateTo, EnqueuePcs
<1>5. /\ Linked \subseteq Known /\ Known \subseteq Nodes
      /\ tail.ptr \in Linked /\ head.ptr \in Linked /\ Last \in Linked
      /\ \A m \in Linked : next[m].ptr \in Linked \cup {NULL}
  BY ChainFacts DEF IInv, ListShape, EndsShape, Known
<1>6. ListShape'
  <2>1. \A i \in 1..Len(chain) : chain[i] \in Known \ {n}
    BY <1>1, <1>5 DEF Linked
  <2>2. Len(chain) \in Nat
    BY ChainFacts DEF IInv
  <2>3. \A m \in Known \ {n} :
            next'[m] = next[m] /\ user_data'[m] = user_data[m] /\ heap'[m] = heap[m]
    BY <1>5 DEF PrivateTo
  <2>4. UNCHANGED chain
    BY DEF PrivateTo
  <2>5. \A m \in Known' \ Linked' : next'[m].ptr = NULL => heap'[m] = "freed"
    BY <1>2, <1>4, <2>3 DEF IInv, ListShape
  <2>6. \A m \in Linked' : m \in Known' /\ heap'[m] = "live"
    BY <1>1, <1>2, <1>3, <1>4, <1>5, <2>3 DEF IInv, ListShape
  <2>7. next'[Last'].ptr = NULL
    BY <1>1, <1>2, <1>5, <2>3 DEF IInv, ListShape
  <2>8. \A i \in 1..Len(chain) : next'[chain[i]] = next[chain[i]]
                                 /\ user_data'[chain[i]] = user_data[chain[i]]
    BY <2>1, <2>3
  <2>9. /\ \A i \in 1..(Len(chain) - 1) : next'[chain[i]].ptr = chain[i + 1]
        /\ \A i \in 2..Len(chain) : user_data'[chain[i]] \in Data
    BY <2>2, <2>8 DEF IInv, ListShape
  <2>10. QED
    BY <2>4, <2>5, <2>6, <2>7, <2>9 DEF IInv, ListShape
<1>7. EndsShape'
  BY <1>1, <1>2, <1>5 DEF IInv, EndsShape, PrivateTo, EnqueuePcs
<1>8. ASSUME NEW u \in Threads, u # t
      PROVE  Enqueues(u)' /\ Dequeues(u)' /\ SeesEmpty(u)'
  <2> USE <1>1, <1>2, <1>4, <1>5, <1>8
  <2>1. Enqueues(u)'
    <3>1. pc[u] \in TailReadPcs => next'[mytail[u].ptr] = next[mytail[u].ptr]
      BY DEF IInv, Enqueues, PrivateTo
    <3>2. QED
      BY <3>1 DEF IInv, Enqueues, PrivateTo, EnqueuePcs, TailReadPcs
  <2>2. Dequeues(u)'
    BY DEF IInv, Dequeues, PrivateTo, DequeuePcs, DeqHeadPcs, DeqTailPcs,
           DeqNextPcs
  <2>3. SeesEmpty(u)'
    BY DEF IInv, SeesEmpty, PrivateTo
  <2>4. QED
    BY <2>1, <2>2, <2>3
<1>9. Dequeues(t)' /\ SeesEmpty(t)'
  <2>1. pc'[t] \in EnqueuePcs /\ t \notin sawEmpty'
    BY DEF PrivateTo, IInv, SeesEmpty, EnqueuePcs, DequeuePcs
  <2>2. QED
    BY <2>1 DEF Dequeues, SeesEmpty, EnqueuePcs, DequeuePcs, DequeuedPcs,
       EmptyPcs, DeqHeadPcs, DeqTailPcs, DeqNextPcs
<1>10. Owners'
  <2>1. ASSUME NEW u \in Threads
        PROVE  /\ u # t => pc'[u] = pc[u] /\ node'[u] = node[u] /\ myhead'[u] = myhead[u]
               /\ pc'[t] \in EnqueuePcs /\ node'[t] = n
               /\ pc'[t] \notin DequeuedPcs /\ pc[t] \notin DequeuedPcs
               /\ pc[t] \in EnqueuePcs => node[t] = n
    BY DEF PrivateTo, EnqueuePcs, DequeuedPcs
  <2>2. \A u, w \in Threads :
            u # w => /\ pc'[u] \in EnqueuePcs /\ pc'[w] \in EnqueuePcs => node'[u] # node'[w]
                     /\ pc'[u] \in DequeuedPcs /\ pc'[w] \in DequeuedPcs =>
                            myhead'[u].ptr # myhead'[w].ptr
    BY <1>1, <2>1 DEF IInv, Owners
  <2>3. ASSUME NEW m \in Nodes, heap'[m] = "live"
        PROVE  \/ m \in Linked'
               \/ \E u \in Threads : pc'[u] \in EnqueuePcs /\ node'[u] = m
               \/ \E u \in Threads : pc'[u] \in DequeuedPcs /\ myhead'[u].ptr = m
    <3>1. CASE m = n
      BY <3>1, <2>1
    <3>2. CASE m # n
      <4>1. heap[m] = "live"
        BY <3>2, <2>3 DEF PrivateTo
      <4>2. CASE m \in Linked
        BY <4>2, <1>2
      <4>3. ASSUME NEW u \in Threads, pc[u] \in EnqueuePcs, node[u] = m
            PROVE  pc'[u] \in EnqueuePcs /\ node'[u] = m
        BY <4>3, <3>2, <2>1
      <4>4. ASSUME NEW u \in Threads, pc[u] \in DequeuedPcs, myhead[u].ptr = m
            PROVE  pc'[u] \in DequeuedPcs /\ myhead'[u].ptr = m
        BY <4>4, <2>1
      <4>5. QED
        BY <4>1, <4>2, <4>3, <4>4 DEF IInv, Owners
    <3>3. QED
      BY <3>1, <3>2
  <2>4. QED
    BY <2>2, <2>3 DEF Owners
<1>11. Destroying'
  BY <1>3 DEF Destroying, Destroyed, PrivateTo
<1>12. QED
  BY <1>6, <1>7, <1>8, <1>9, <1>10, <1>11 DEF IInv

LEMMA EnqueueCallKeeps ==
    ASSUME ~Recycle, IInv, NEW t \in Threads, NEW n \in Nodes, NEW v \in Data,
           EnqueueCall(t, n, v)
    PROVE  IInv'
<1> USE MpmcAssumption DEF IInv, EnqueueCall, Open, Available, Goto
<1>1. TypeOK'
  <2>1. enqueues' \in 0..MaxEnqueues
    BY DEF TypeOK
  <2>2. /\ heap' \in [Nodes -> {"fresh", "live", "freed"}]
        /\ user_data' \in [Nodes -> Data \cup {Garbage}]
        /\ node' \in [Threads -> Nodes \cup {NULL}]
        /\ mydata' \in [Threads -> Data \cup {NULL, Garbage}]
    BY DEF TypeOK
  <2>3. pc' \in [Threads -> EnqueuePcs \cup EnqueuedPcs \cup DequeuePcs
                            \cup DequeuedPcs \cup EmptyPcs
                            \cup {"idle", "destroyed"}]
    BY DEF TypeOK, EnqueuePcs
  <2>4. QED
    BY <2>1, <2>2, <2>3 DEF TypeOK
<1>2. PrivateTo(t, n) /\ pc'[t] = "e_initptr"
  BY DEF TypeOK, PrivateTo, EnqueuePcs
<1>3. mydata'[t] = v /\ user_data'[n] = v /\ node'[t] = n /\ heap'[n] = "live"
  BY DEF TypeOK
<1>4. n \notin Linked'
  <2>1. Linked' = Linked /\ ~Destroyed
    BY DEF Linked, Destroyed, Destroying
  <2>2. QED
    BY <2>1 DEF ListShape
<1>5. Enqueues(t)'
  BY <1>2, <1>3, <1>4 DEF Enqueues, EnqueuePcs, TailReadPcs, TailVersionPcs,
     NextReadPcs
<1>6. QED
  BY <1>1, <1>2, <1>5, PrivateStep

LEMMA InitNextPtrKeeps ==
    ASSUME IInv, NEW t \in Threads, InitNextPtr(t)
    PROVE  IInv'
<1> USE MpmcAssumption DEF IInv, InitNextPtr, Goto, history
<1>0. /\ node[t] \in Nodes /\ heap[node[t]] = "live" /\ destroyer = NULL
  BY DestroyerAlone DEF Enqueues, EnqueuePcs
<1>1. TypeOK'
  BY DEF TypeOK, VersionedPointer, EnqueuePcs
<1>2. PrivateTo(t, node[t]) /\ pc'[t] = "e_initver"
  BY <1>0 DEF TypeOK, PrivateTo, EnqueuePcs
<1>3. next'[node[t]].ptr = NULL
  BY <1>0 DEF TypeOK, VersionedPointer
<1>4. Linked' = Linked
  BY DEF Linked
<1>5. Enqueues(t)'
  BY <1>0, <1>2, <1>3, <1>4 DEF Enqueues, EnqueuePcs, TailReadPcs, TailVersionPcs,
     NextReadPcs
<1>6. QED
  BY <1>0, <1>1, <1>2, <1>5, PrivateStep

LEMMA InitNextVersionKeeps ==
    ASSUME IInv, NEW t \in Threads, InitNextVersion(t)
    PROVE  IInv'
<1> USE MpmcAssumption DEF IInv, InitNextVersion, Goto, history
<1>0. /\ node[t] \in Nodes /\ heap[node[t]] = "live" /\ destroyer = NULL
  BY DestroyerAlone DEF Enqueues, EnqueuePcs
<1>1. TypeOK'
  <2>1. next' \in [Nodes -> VersionedPointer(Nodes \cup {NULL, Garbage})]
    <3>1. 0 \in 0..(Versions - 1)
      OBVIOUS
    <3>2. QED
      BY <3>1 DEF TypeOK, VersionedPointer
  <2>2. pc' \in [Threads -> EnqueuePcs \cup EnqueuedPcs \cup DequeuePcs
                            \cup DequeuedPcs \cup EmptyPcs
                            \cup {"idle", "destroyed"}]
    BY DEF TypeOK, EnqueuePcs
  <2>3. QED
    BY <2>1, <2>2 DEF TypeOK
<1>2. PrivateTo(t, node[t]) /\ pc'[t] = "e_tailp"
  BY <1>0 DEF TypeOK, PrivateTo, EnqueuePcs
<1>3. next'[node[t]].ptr = NULL
  BY <1>0 DEF TypeOK, VersionedPointer, Enqueues, EnqueuePcs
<1>4. Linked' = Linked
  BY DEF Linked
<1>5. Enqueues(t)'
  BY <1>0, <1>2, <1>3, <1>4 DEF Enqueues, EnqueuePcs, TailReadPcs, TailVersionPcs,
     NextReadPcs
<1>6. QED
  BY <1>0, <1>1, <1>2, <1>5, PrivateStep

-----------------------------------------------------------------------------
(* The steps that take effect on the queue: Link and SwingHead.            *)

(* The swap that links a node finds the last node: a node that has left    *)
(* the queue is not what it compares with, and one that has a successor    *)
(* has no NULL next.                                                       *)
LEMMA LinkAtLast ==
    ASSUME IInv, NEW t \in Threads, pc[t] = "e_link", LinkSucceeds(t)
    PROVE  /\ mytail[t].ptr = Last /\ tail.ptr = Last
           /\ mytail[t].version = tail.version
<1>1. mytail[t].ptr \in Linked /\ next[mytail[t].ptr].ptr = NULL
  BY DEF IInv, Enqueues, LinkSucceeds
<1>2. mytail[t].ptr = Last
  BY <1>1, ChainFacts DEF IInv
<1>3. QED
  BY <1>2 DEF IInv, Enqueues, TailReadPcs, TailVersionPcs

(* What an append does to the list.                                        *)
LEMMA AppendFacts ==
    ASSUME TypeOK, ListShape, NEW n \in Nodes, n \notin Linked,
           chain' = Append(chain, n)
    PROVE  /\ chain' \in Seq(Nodes) /\ Len(chain') = Len(chain) + 1
           /\ \A i \in 1..Len(chain) : chain'[i] = chain[i]
           /\ chain'[Len(chain) + 1] = n
           /\ Linked' = Linked \cup {n} /\ Last' = n /\ chain'[1] = chain[1]
<1>1. chain \in Seq(Nodes) /\ Len(chain) \in Nat /\ Len(chain) > 0
  BY ChainFacts DEF TypeOK
<1>2. /\ chain' \in Seq(Nodes) /\ Len(chain') = Len(chain) + 1
      /\ \A i \in 1..Len(chain) : chain'[i] = chain[i]
      /\ chain'[Len(chain) + 1] = n
  BY <1>1, AppendProperties
<1>3. Linked' = Linked \cup {n}
  <2>1. ASSUME NEW m \in Linked PROVE m \in Linked'
    <3>1. PICK i \in 1..Len(chain) : m = chain[i]
      BY <2>1 DEF Linked
    <3>2. i \in 1..Len(chain') /\ chain'[i] = m
      BY <1>1, <1>2, <3>1
    <3>3. QED
      BY <3>2 DEF Linked
  <2>2. ASSUME NEW m \in Linked', m # n PROVE m \in Linked
    <3>1. PICK i \in 1..Len(chain') : m = chain'[i]
      BY <2>2 DEF Linked
    <3>2. i \in 1..Len(chain)
      BY <1>1, <1>2, <2>2, <3>1
    <3>3. QED
      BY <1>2, <3>1, <3>2 DEF Linked
  <2>3. n \in Linked'
    <3>1. Len(chain) + 1 \in 1..Len(chain')
      BY <1>1, <1>2
    <3>2. QED
      BY <1>2, <3>1 DEF Linked
  <2>4. QED
    BY <2>1, <2>2, <2>3
<1>4. Last' = n /\ chain'[1] = chain[1]
  BY <1>1, <1>2 DEF Last
<1>5. QED
  BY <1>2, <1>3, <1>4

LEMMA LinkKeeps ==
    ASSUME IInv, NEW t \in Threads, Link(t)
    PROVE  IInv'
<1> USE MpmcAssumption
<1>1. /\ mytail[t].ptr = Last /\ tail.ptr = Last /\ mynext[t].ptr = NULL
      /\ mytail[t].version = tail.version
      /\ node[t] \in Nodes /\ node[t] \notin Linked /\ heap[node[t]] = "live"
      /\ user_data[node[t]] \in Data /\ next[node[t]].ptr = NULL
      /\ node[t] \notin Known /\ destroyer = NULL
      /\ \A u \in Threads \ {t} : pc[u] \in EnqueuePcs => node[u] # node[t]
  BY LinkAtLast, DestroyerAlone DEF IInv, Link, Goto, Enqueues, EnqueuePcs,
     TailReadPcs, Known, Owners
<1>2. /\ pc[t] = "e_link" /\ pc' = [pc EXCEPT ![t] = "e_swing"]
      /\ chain' = Append(chain, node[t])
      /\ next' = [next EXCEPT ![Last] = VP(node[t], NextVersion(mynext[t].version))]
      /\ mynext' = [mynext EXCEPT ![t] = Unset]
      /\ UNCHANGED <<head, tail, len, user_data, heap, node, myhead, mytail,
                     mydata, destroyer, sawEmpty, enqueues>>
  BY <1>1 DEF Link, Goto, Last
<1>3. /\ chain' \in Seq(Nodes) /\ Len(chain') = Len(chain) + 1
      /\ \A i \in 1..Len(chain) : chain'[i] = chain[i]
      /\ chain'[Len(chain) + 1] = node[t]
      /\ Linked' = Linked \cup {node[t]} /\ Last' = node[t]
      /\ chain'[1] = chain[1]
  BY <1>1, <1>2, AppendFacts DEF IInv
<1>4. TypeOK'
  <2>1. next' \in [Nodes -> VersionedPointer(Nodes \cup {NULL, Garbage})]
    <3>1. mynext[t].version \in Nat
      BY DEF IInv, TypeOK, VersionedPointer
    <3>2. VP(node[t], NextVersion(mynext[t].version))
              \in VersionedPointer(Nodes \cup {NULL, Garbage})
      BY <1>1, <3>1, NextVersionType DEF VersionedPointer, VP
    <3>3. QED
      BY <1>2, <3>2 DEF IInv, TypeOK
  <2>2. mynext' \in [Threads -> VersionedPointer(Nodes \cup {NULL, Garbage})]
    BY <1>2 DEF IInv, TypeOK, VersionedPointer, Unset, VP
  <2>3. pc' \in [Threads -> EnqueuePcs \cup EnqueuedPcs \cup DequeuePcs
                            \cup DequeuedPcs \cup EmptyPcs
                            \cup {"idle", "destroyed"}]
    BY <1>2 DEF IInv, TypeOK, EnqueuedPcs
  <2>4. QED
    BY <1>2, <1>3, <2>1, <2>2, <2>3 DEF IInv, TypeOK
<1>5. /\ pc'[t] = "e_swing"
      /\ \A u \in Threads \ {t} : pc'[u] = pc[u] /\ mynext'[u] = mynext[u]
      /\ \A n \in Nodes \ {Last} : next'[n] = next[n]
      /\ Last \in Nodes /\ next'[Last].ptr = node[t]
  <2>1. Last \in Nodes
    BY ChainFacts DEF IInv
  <2>2. /\ pc \in [Threads -> EnqueuePcs \cup EnqueuedPcs \cup DequeuePcs
                            \cup DequeuedPcs \cup EmptyPcs
                            \cup {"idle", "destroyed"}]
        /\ mynext \in [Threads -> VersionedPointer(Nodes \cup {NULL, Garbage})]
        /\ next \in [Nodes -> VersionedPointer(Nodes \cup {NULL, Garbage})]
    BY DEF IInv, TypeOK
  <2>3. /\ pc'[t] = "e_swing"
        /\ \A u \in Threads \ {t} : pc'[u] = pc[u] /\ mynext'[u] = mynext[u]
    BY <1>2, <2>2
  <2>4. /\ \A n \in Nodes \ {Last} : next'[n] = next[n]
        /\ next'[Last].ptr = node[t]
    BY <1>2, <2>1, <2>2 DEF VP
  <2>5. QED
    BY <2>1, <2>3, <2>4
<1>6. Known' = Known \cup {node[t]}
  <2>1. ASSUME NEW n \in Nodes, n # node[t] PROVE n \in Known <=> n \in Known'
    BY <1>2, <1>5, <2>1 DEF Known, EnqueuePcs
  <2>2. node[t] \in Known'
    BY <1>1, <1>2, <1>5 DEF Known, EnqueuePcs
  <2>3. QED
    BY <2>1, <2>2, <1>1 DEF Known
<1>7. /\ Last \in Linked /\ Linked \subseteq Known /\ Known \subseteq Nodes
      /\ head.ptr \in Linked /\ head.ptr = chain[1] /\ next[Last].ptr = NULL
      /\ Len(chain) \in Nat /\ Len(chain) > 0
      /\ \A m \in Linked : next[m].ptr = NULL <=> m = Last
  BY ChainFacts DEF IInv, ListShape, EndsShape, Known
<1>8. ListShape'
  <2>1. Len(chain') > 0
    BY <1>3, <1>7
  <2>2. \A i \in 1..Len(chain) : chain[i] \in Linked
    BY DEF Linked
  <2>3. \A i, j \in 1..Len(chain') : chain'[i] = chain'[j] => i = j
    BY <1>1, <1>3, <1>7, <2>2 DEF IInv, ListShape
  <2>4. ASSUME NEW i \in 1..(Len(chain') - 1)
        PROVE  next'[chain'[i]].ptr = chain'[i + 1]
    <3>1. CASE i = Len(chain)
      BY <3>1, <1>3, <1>5, <1>7 DEF Last
    <3>2. CASE i # Len(chain)
      <4>1. i \in 1..(Len(chain) - 1) /\ i \in 1..Len(chain)
            /\ i + 1 \in 1..Len(chain) /\ Len(chain) \in 1..Len(chain)
        BY <3>2, <1>3, <1>7
      <4>2. chain[i] # Last
        BY <3>2, <4>1 DEF IInv, ListShape, Last
      <4>3. QED
        BY <4>1, <4>2, <2>2, <1>3, <1>5, <1>7 DEF IInv, ListShape
    <3>3. QED
      BY <3>1, <3>2
  <2>5. next'[Last'].ptr = NULL
    BY <1>1, <1>3, <1>5, <1>7
  <2>6. ASSUME NEW i \in 2..Len(chain')
        PROVE  user_data'[chain'[i]] \in Data
    <3>1. CASE i = Len(chain) + 1
      BY <3>1, <1>1, <1>2, <1>3
    <3>2. CASE i # Len(chain) + 1
      <4>1. i \in 2..Len(chain) /\ i \in 1..Len(chain)
        BY <3>2, <1>3, <1>7
      <4>2. QED
        BY <4>1, <1>2, <1>3 DEF IInv, ListShape
    <3>3. QED
      BY <3>1, <3>2
  <2>7. \A n \in Linked' : n \in Known' /\ (heap'[n] = "live" \/ Destroyed')
    <3>1. Destroyed => Destroyed'
      BY <1>2, <1>5 DEF Destroyed
    <3>2. QED
      BY <3>1, <1>1, <1>2, <1>3, <1>6 DEF IInv, ListShape
  <2>8. \A n \in Known' \ Linked' : next'[n].ptr = NULL => heap'[n] = "freed"
    BY <1>2, <1>3, <1>5, <1>6, <1>7 DEF IInv, ListShape
  <2>9. QED
    BY <2>1, <2>3, <2>4, <2>5, <2>6, <2>7, <2>8 DEF ListShape
<1>9. EndsShape'
  BY <1>1, <1>2, <1>3, <1>5, <1>7 DEF EndsShape
<1>10. ASSUME NEW u \in Threads, u # t
       PROVE  Enqueues(u)' /\ Dequeues(u)' /\ SeesEmpty(u)'
  <2> USE <1>1, <1>2, <1>3, <1>5, <1>6, <1>7, <1>10
  <2>1. Enqueues(u)'
    <3>1. pc[u] \in EnqueuePcs => node[u] # Last /\ node[u] # node[t]
      BY DEF IInv, Enqueues
    <3>2. mytail[u].ptr \in Known => mytail[u].ptr # node[t]
      OBVIOUS
    <3>3. QED
      BY <3>1, <3>2 DEF IInv, Enqueues, EnqueuePcs, TailReadPcs, TailVersionPcs,
         NextReadPcs
  <2>2. Dequeues(u)'
    <3>1. myhead[u].ptr \in Known => myhead[u].ptr # node[t]
      OBVIOUS
    <3>2. pc[u] \in DeqNextPcs /\ myhead[u].ptr = head.ptr /\ mynext[u].ptr # NULL =>
              head.ptr # Last
      BY DEF IInv, Dequeues
    <3>3. QED
      BY <3>1, <3>2 DEF IInv, Dequeues, DequeuePcs, DequeuedPcs, EmptyPcs,
         DeqHeadPcs, DeqTailPcs, DeqNextPcs
  <2>3. SeesEmpty(u)'
    BY DEF IInv, SeesEmpty
  <2>4. QED
    BY <2>1, <2>2, <2>3
<1>11. Enqueues(t)' /\ Dequeues(t)' /\ SeesEmpty(t)'
  <2>1. Enqueues(t)'
    BY <1>1, <1>2, <1>3, <1>5, <1>6, <1>7 DEF Enqueues, EnqueuePcs, TailReadPcs,
       TailVersionPcs, NextReadPcs
  <2>2. t \notin sawEmpty'
    BY <1>2, NotInDequeue DEF DequeuePcs
  <2>3. QED
    BY <2>1, <2>2, <1>5 DEF Dequeues, SeesEmpty, DequeuePcs, DequeuedPcs, EmptyPcs,
       DeqHeadPcs, DeqTailPcs, DeqNextPcs
<1>12. Owners'
  <2>1. ASSUME NEW u \in Threads
        PROVE  /\ pc'[u] \in EnqueuePcs <=> pc[u] \in EnqueuePcs /\ u # t
               /\ pc'[u] \in DequeuedPcs <=> pc[u] \in DequeuedPcs
    BY <1>2, <1>5 DEF EnqueuePcs, DequeuedPcs
  <2>2. ASSUME NEW n \in Nodes, heap'[n] = "live", n \notin Linked'
        PROVE  \/ \E u \in Threads : pc'[u] \in EnqueuePcs /\ node'[u] = n
               \/ \E u \in Threads : pc'[u] \in DequeuedPcs /\ myhead'[u].ptr = n
    <3>1. heap[n] = "live" /\ n \notin Linked /\ n # node[t]
      BY <2>2, <1>2, <1>3
    <3>2. QED
      BY <3>1, <2>1, <1>2 DEF IInv, Owners
  <2>3. QED
    BY <2>1, <2>2, <1>2 DEF IInv, Owners
<1>13. Destroying'
  BY <1>1, <1>2, <1>5 DEF IInv, Destroying
<1>14. QED
  BY <1>4, <1>8, <1>9, <1>10, <1>11, <1>12, <1>13 DEF IInv

(* The swap of the head finds a queue that is not empty, whose tail is not *)
(* the head, and moves on to its second node.                              *)
LEMMA SwingAtFirst ==
    ASSUME IInv, NEW t \in Threads, pc[t] = "d_swing", head = myhead[t]
    PROVE  /\ Len(chain) > 1
           /\ mynext[t].ptr = chain[2]
           /\ mydata[t] = user_data[chain[2]]
           /\ tail.ptr # head.ptr
<1>1. /\ mynext[t].ptr = next[head.ptr].ptr /\ mynext[t].ptr # NULL
      /\ mydata[t] = user_data[mynext[t].ptr] /\ tail.ptr # head.ptr
  BY MpmcAssumption DEF IInv, Dequeues, DequeuePcs, DeqHeadPcs, DeqTailPcs, DeqNextPcs
<1>2. /\ TypeOK /\ ListShape /\ head.ptr = chain[1]
  BY DEF IInv, EndsShape
<1>3. chain[1] # Last
  BY <1>1, <1>2, ChainFacts
<1>4. Len(chain) > 1
  <2>1. Len(chain) \in Nat /\ Len(chain) > 0
    BY <1>2, ChainFacts
  <2>2. chain[1] = Last <=> Len(chain) = 1
    BY <1>2, ChainFacts
  <2>3. Len(chain) # 1
    BY <1>3, <2>2
  <2>4. QED
    BY <2>1, <2>3
<1>5. QED
  BY <1>1, <1>2, <1>4, ChainFacts

(* What the removal of the first node does to the list.                    *)
LEMMA TailFacts ==
    ASSUME TypeOK, ListShape, Len(chain) > 1, chain' = Tail(chain)
    PROVE  /\ chain' \in Seq(Nodes) /\ Len(chain') = Len(chain) - 1
           /\ \A i \in 1..(Len(chain) - 1) : chain'[i] = chain[i + 1]
           /\ Linked' = Linked \ {chain[1]} /\ Last' = Last /\ chain'[1] = chain[2]
<1>1. chain \in Seq(Nodes) /\ Len(chain) \in Nat /\ chain # <<>>
  BY LenProperties, EmptySeq DEF TypeOK
<1>2. /\ chain' \in Seq(Nodes) /\ Len(chain') = Len(chain) - 1
      /\ \A i \in 1..(Len(chain) - 1) : chain'[i] = chain[i + 1]
  BY <1>1, HeadTailProperties
<1>3. Last' = Last /\ chain'[1] = chain[2]
  <2>1. Len(chain) - 1 \in 1..(Len(chain) - 1) /\ 1 \in 1..(Len(chain) - 1)
    BY <1>1
  <2>2. QED
    BY <1>1, <1>2, <2>1 DEF Last
<1>4. Linked' = Linked \ {chain[1]}
  <2>1. ASSUME NEW m \in Linked, m # chain[1] PROVE m \in Linked'
    <3>1. PICK i \in 1..Len(chain) : m = chain[i]
      BY DEF Linked
    <3>2. i - 1 \in 1..Len(chain') /\ chain'[i - 1] = m
      BY <1>1, <1>2, <2>1, <3>1
    <3>3. QED
      BY <3>2 DEF Linked
  <2>2. ASSUME NEW m \in Linked' PROVE m \in Linked /\ m # chain[1]
    <3>1. PICK i \in 1..Len(chain') : m = chain'[i]
      BY DEF Linked
    <3>2. i + 1 \in 1..Len(chain) /\ m = chain[i + 1] /\ i + 1 # 1 /\ 1 \in 1..Len(chain)
      BY <1>1, <1>2, <3>1
    <3>3. QED
      BY <3>2 DEF Linked, ListShape
  <2>3. QED
    BY <2>1, <2>2
<1>5. QED
  BY <1>2, <1>3, <1>4

LEMMA SwingHeadKeeps ==
    ASSUME IInv, NEW t \in Threads, SwingHead(t)
    PROVE  IInv'
<1> USE MpmcAssumption
<1>1. /\ pc[t] = "d_swing" /\ pc' = [pc EXCEPT ![t] = "d_dec"]
      /\ head = myhead[t] /\ head' = VP(mynext[t].ptr, NextVersion(myhead[t].version))
      /\ chain' = Tail(chain)
      /\ mytail' = [mytail EXCEPT ![t] = Unset]
      /\ mynext' = [mynext EXCEPT ![t] = Unset]
      /\ UNCHANGED <<tail, len, next, user_data, heap, node, myhead, mydata,
                     enqueues, destroyer>>
  BY DEF SwingHead, Goto
<1>2. /\ Len(chain) > 1 /\ mynext[t].ptr = chain[2]
      /\ mydata[t] = user_data[chain[2]] /\ tail.ptr # head.ptr
  BY <1>1, SwingAtFirst
<1>3. /\ chain' \in Seq(Nodes) /\ Len(chain') = Len(chain) - 1
      /\ \A i \in 1..(Len(chain) - 1) : chain'[i] = chain[i + 1]
      /\ Linked' = Linked \ {chain[1]} /\ Last' = Last /\ chain'[1] = chain[2]
  BY <1>1, <1>2, TailFacts DEF IInv
<1>4. /\ Linked \subseteq Known /\ Known \subseteq Nodes /\ tail.ptr \in Linked
      /\ head.ptr = chain[1] /\ head.ptr \in Linked /\ Last \in Linked
      /\ chain[2] \in Linked /\ chain[2] # chain[1]
      /\ next[chain[1]].ptr = chain[2] /\ chain[1] # Last
      /\ Len(chain) \in Nat /\ user_data[chain[2]] \in Data
  BY <1>2, ChainFacts DEF IInv, ListShape, EndsShape, Known
<1>5. /\ pc'[t] = "d_dec" /\ head'.ptr = chain[2]
      /\ \A u \in Threads \ {t} : /\ pc'[u] = pc[u] /\ mynext'[u] = mynext[u]
                                  /\ mytail'[u] = mytail[u]
  BY <1>1, <1>2 DEF IInv, TypeOK, VP
<1>6. /\ t \notin sawEmpty'
      /\ \A u \in Threads \ {t} : u \in sawEmpty => u \in sawEmpty'
      /\ \A u \in Threads \ {t} : u \in sawEmpty' => pc[u] \in DequeuePcs
      /\ Len(chain) = 2 =>
             \A u \in Threads \ {t} : pc[u] \in DequeuePcs => u \in sawEmpty'
      /\ sawEmpty' \subseteq Threads
  <2>1. sawEmpty' = IF Len(chain) = 2
                    THEN {u \in Threads : pc'[u] \in DequeuePcs}
                    ELSE sawEmpty \ {t}
    BY DEF SwingHead
  <2>2. sawEmpty \subseteq Threads /\ \A u \in sawEmpty : pc[u] \in DequeuePcs
    BY DEF IInv, TypeOK, SeesEmpty
  <2>3. pc'[t] \notin DequeuePcs
    BY <1>5 DEF DequeuePcs
  <2>4. CASE Len(chain) = 2
    BY <2>1, <2>2, <2>3, <2>4, <1>5
  <2>5. CASE Len(chain) # 2
    BY <2>1, <2>2, <2>3, <2>5, <1>5
  <2>6. QED
    BY <2>4, <2>5
<1>7. TypeOK'
  <2>1. head' \in VersionedPointer(Nodes)
    <3>1. myhead[t].version \in Nat
      BY DEF IInv, TypeOK, VersionedPointer
    <3>2. QED
      BY <1>1, <1>2, <1>4, <3>1, NextVersionType DEF VersionedPointer, VP
  <2>2. /\ mynext' \in [Threads -> VersionedPointer(Nodes \cup {NULL, Garbage})]
        /\ mytail' \in [Threads -> VersionedPointer(Nodes \cup {NULL})]
    BY <1>1 DEF IInv, TypeOK, VersionedPointer, Unset, VP
  <2>3. pc' \in [Threads -> EnqueuePcs \cup EnqueuedPcs \cup DequeuePcs
                            \cup DequeuedPcs \cup EmptyPcs
                            \cup {"idle", "destroyed"}]
    BY <1>1 DEF IInv, TypeOK, DequeuedPcs
  <2>4. QED
    BY <1>1, <1>3, <1>6, <2>1, <2>2, <2>3 DEF IInv, TypeOK
<1>8. Known' = Known
  BY <1>1, <1>5 DEF Known, EnqueuePcs
<1>9. ~Destroyed
  BY <1>2, <1>4 DEF IInv, Destroyed, Destroying
<1>10. ListShape'
  <2>1. Len(chain') > 0
    BY <1>2, <1>3, <1>4
  <2>2. \A i, j \in 1..Len(chain') : chain'[i] = chain'[j] => i = j
    BY <1>2, <1>3, <1>4 DEF IInv, ListShape
  <2>3. \A i \in 1..(Len(chain') - 1) : next'[chain'[i]].ptr = chain'[i + 1]
    BY <1>1, <1>2, <1>3, <1>4 DEF IInv, ListShape
  <2>4. \A i \in 2..Len(chain') : user_data'[chain'[i]] \in Data
    BY <1>1, <1>2, <1>3, <1>4 DEF IInv, ListShape
  <2>5. next'[Last'].ptr = NULL
    BY <1>1, <1>3 DEF IInv, ListShape
  <2>6. \A n \in Linked' : n \in Known' /\ (heap'[n] = "live" \/ Destroyed')
    BY <1>1, <1>3, <1>8, <1>9 DEF IInv, ListShape
  <2>7. \A n \in Known' \ Linked' : next'[n].ptr = NULL => heap'[n] = "freed"
    BY <1>1, <1>3, <1>4, <1>8 DEF IInv, ListShape
  <2>8. QED
    BY <2>1, <2>2, <2>3, <2>4, <2>5, <2>6, <2>7 DEF ListShape
<1>11. EndsShape'
  <2>1. tail'.ptr # Last' => \E u \in Threads :
            pc'[u] = "e_swing" /\ mytail'[u].ptr = tail'.ptr
    BY <1>1, <1>3, <1>5 DEF IInv, EndsShape
  <2>2. QED
    BY <2>1, <1>1, <1>2, <1>3, <1>4, <1>5 DEF IInv, EndsShape
<1>12. ASSUME NEW u \in Threads, u # t
       PROVE  Enqueues(u)' /\ Dequeues(u)' /\ SeesEmpty(u)'
  <2> USE <1>1, <1>3, <1>4, <1>5, <1>8, <1>12
  <2>1. Enqueues(u)'
    <3>1. next[chain[1]].ptr # NULL
      OBVIOUS
    <3>2. QED
      BY <3>1 DEF IInv, Enqueues
  <2>2. Dequeues(u)'
    <3>1. pc[u] \in DeqHeadPcs \cup EmptyPcs => myhead[u].ptr \notin Linked'
      BY DEF IInv, Dequeues
    <3>2. pc[u] \in DeqHeadPcs => myhead[u].ptr # chain[2]
      BY DEF IInv, Dequeues
    <3>3. QED
      BY <3>1, <3>2 DEF IInv, Dequeues, DequeuePcs, DequeuedPcs, EmptyPcs,
         DeqHeadPcs, DeqTailPcs, DeqNextPcs
  <2>3. SeesEmpty(u)'
    <3>1. pc[u] \in DeqNextPcs => myhead[u].ptr # head'.ptr
      BY DEF IInv, Dequeues, DeqNextPcs, DeqTailPcs
    <3>2. QED
      BY <3>1, <1>2, <1>6 DEF IInv, SeesEmpty
  <2>4. QED
    BY <2>1, <2>2, <2>3
<1>13. Enqueues(t)' /\ Dequeues(t)' /\ SeesEmpty(t)'
  <2>1. /\ myhead[t].ptr \in Known /\ myhead[t].ptr \notin Linked'
        /\ heap[myhead[t].ptr] = "live"
    BY <1>1, <1>3, <1>4, <1>9 DEF IInv, ListShape
  <2>2. Dequeues(t)'
    BY <2>1, <1>1, <1>2, <1>4, <1>5, <1>8 DEF Dequeues, DequeuePcs, DequeuedPcs,
       EmptyPcs, DeqHeadPcs, DeqTailPcs, DeqNextPcs
  <2>3. QED
    BY <2>2, <1>5, <1>6 DEF Enqueues, SeesEmpty, EnqueuePcs, TailReadPcs,
       TailVersionPcs, NextReadPcs, DequeuePcs, DeqHeadPcs, DeqTailPcs, DeqNextPcs
<1>14. Owners'
  <2>1. ASSUME NEW u \in Threads
        PROVE  /\ pc'[u] \in EnqueuePcs <=> pc[u] \in EnqueuePcs
               /\ pc'[u] \in DequeuedPcs <=> pc[u] \in DequeuedPcs \/ u = t
               /\ u # t /\ pc[u] \in DequeuedPcs => myhead[u].ptr # myhead[t].ptr
    BY <1>1, <1>4, <1>5 DEF IInv, Dequeues, EnqueuePcs, DequeuedPcs
  <2>2. ASSUME NEW n \in Nodes, heap'[n] = "live", n \notin Linked'
        PROVE  \/ \E u \in Threads : pc'[u] \in EnqueuePcs /\ node'[u] = n
               \/ \E u \in Threads : pc'[u] \in DequeuedPcs /\ myhead'[u].ptr = n
    <3>1. CASE n = chain[1]
      BY <3>1, <2>1, <1>1, <1>4
    <3>2. CASE n # chain[1]
      <4>1. heap[n] = "live" /\ n \notin Linked
        BY <2>2, <3>2, <1>1, <1>3
      <4>2. QED
        BY <4>1, <2>1, <1>1 DEF IInv, Owners
    <3>3. QED
      BY <3>1, <3>2
  <2>3. QED
    BY <2>1, <2>2, <1>1 DEF IInv, Owners
<1>15. Destroying'
  <2>1. destroyer # NULL => t = destroyer
    BY <1>1, DestroyerAlone
  <2>2. QED
    BY <2>1, <1>1, <1>2, <1>4, <1>5 DEF IInv, Destroying, DequeuePcs, DequeuedPcs,
       DeqHeadPcs, DeqTailPcs
<1>16. QED
  BY <1>7, <1>10, <1>11, <1>12, <1>13, <1>14, <1>15 DEF IInv

-----------------------------------------------------------------------------
(* The steps that free a node, and the call that destroys the queue.       *)

LEMMA DequeueFreeKeeps ==
    ASSUME IInv, NEW t \in Threads, DequeueReturn(t)
    PROVE  IInv'
<1> USE MpmcAssumption
<1> DEFINE f == myhead[t].ptr
<1>1. /\ pc[t] = "d_free" /\ pc' = [pc EXCEPT ![t] = "idle"]
      /\ heap' = [heap EXCEPT ![f] = "freed"]
      /\ node' = [node EXCEPT ![t] = NULL] /\ mydata' = [mydata EXCEPT ![t] = NULL]
      /\ myhead' = [myhead EXCEPT ![t] = Unset]
      /\ mytail' = [mytail EXCEPT ![t] = Unset]
      /\ mynext' = [mynext EXCEPT ![t] = Unset]
      /\ UNCHANGED <<head, tail, len, destroyer, chain, sawEmpty, enqueues>>
  BY DEF DequeueReturn, ReturnFrom, ForgetPointers, Goto, history
<1>2. /\ f \in Known /\ f \notin Linked /\ heap[f] = "live" /\ f \in Nodes
      /\ next[f].ptr # NULL
  BY <1>1 DEF IInv, Dequeues, DequeuedPcs, Known, ListShape
<1>3. /\ \A n \in Nodes \ {f} : /\ next'[n] = next[n] /\ heap'[n] = heap[n]
                                /\ user_data'[n] = user_data[n]
      /\ heap'[f] = "freed"
      /\ \A u \in Threads : next'[f].ptr = NULL => ~(/\ pc[u] \in {"e_chkv", "e_link"}
                                                    /\ mytail[u].ptr = f
                                                    /\ mynext[u] = next'[f])
  <2>1. /\ \A n \in Nodes \ {f} : /\ next'[n] = next[n] /\ heap'[n] = heap[n]
                                  /\ user_data'[n] = user_data[n]
        /\ heap'[f] = "freed"
    BY <1>1, <1>2 DEF DequeueReturn, IInv, TypeOK
  <2>2. next'[f] = next[f] \/ next'[f] \in Overwritten(f)
    BY <1>2 DEF DequeueReturn, IInv, TypeOK
  <2>3. ASSUME next'[f].ptr = NULL PROVE ~AboutToSwap(f, next'[f])
    BY <2>2, <2>3, <1>2, MpmcAssumption DEF Overwritten, VP
  <2>4. QED
    BY <2>1, <2>3 DEF AboutToSwap
<1>4. /\ pc'[t] = "idle"
      /\ \A u \in Threads \ {t} :
          /\ pc'[u] = pc[u] /\ node'[u] = node[u] /\ mydata'[u] = mydata[u]
          /\ myhead'[u] = myhead[u] /\ mytail'[u] = mytail[u]
          /\ mynext'[u] = mynext[u]
  BY <1>1 DEF IInv, TypeOK
<1>5. TypeOK'
  <2>1. next' \in [Nodes -> VersionedPointer(Nodes \cup {NULL, Garbage})]
        /\ user_data' \in [Nodes -> Data \cup {Garbage}]
    <3>1. Overwritten(f) \subseteq VersionedPointer(Nodes \cup {NULL, Garbage})
      BY DEF Overwritten, VersionedPointer, VP
    <3>2. CASE UNCHANGED <<next, user_data>>
      BY <3>2 DEF IInv, TypeOK
    <3>3. ASSUME NEW p \in Overwritten(f), next' = [next EXCEPT ![f] = p],
                 user_data' = [user_data EXCEPT ![f] = Garbage]
          PROVE  /\ next' \in [Nodes -> VersionedPointer(Nodes \cup {NULL, Garbage})]
                 /\ user_data' \in [Nodes -> Data \cup {Garbage}]
      BY <3>1, <3>3 DEF IInv, TypeOK
    <3>4. QED
      BY <3>2, <3>3 DEF DequeueReturn
  <2>2. /\ myhead' \in [Threads -> VersionedPointer(Nodes \cup {NULL})]
        /\ mytail' \in [Threads -> VersionedPointer(Nodes \cup {NULL})]
        /\ mynext' \in [Threads -> VersionedPointer(Nodes \cup {NULL, Garbage})]
    BY <1>1 DEF IInv, TypeOK, VersionedPointer, Unset, VP
  <2>3. QED
    BY <1>1, <2>1, <2>2 DEF IInv, TypeOK
<1>6. Linked' = Linked /\ Last' = Last
  BY <1>1 DEF Linked, Last
<1>7. Destroyed <=> Destroyed'
  BY <1>1, <1>4 DEF Destroyed
<1>8. Known' = Known
  <2>1. ASSUME NEW n \in Nodes
        PROVE  /\ heap'[n] # "fresh" <=> heap[n] # "fresh"
               /\ (\A u \in Threads : pc'[u] \in EnqueuePcs => node'[u] # n)
                  <=> (\A u \in Threads : pc[u] \in EnqueuePcs => node[u] # n)
    BY <1>1, <1>2, <1>3, <1>4 DEF EnqueuePcs
  <2>2. QED
    BY <2>1 DEF Known
<1>9. /\ Linked \subseteq Known /\ Known \subseteq Nodes /\ Last \in Linked
      /\ tail.ptr \in Linked /\ head.ptr \in Linked
      /\ \A m \in Linked : next[m].ptr \in Linked \cup {NULL}
  BY ChainFacts DEF IInv, ListShape, EndsShape, Known
<1>10. ListShape'
  <2>1. \A i \in 1..Len(chain) : chain[i] \in Linked
    BY DEF Linked
  <2>2. Len(chain) \in Nat
    BY ChainFacts DEF IInv
  <2>3. \A m \in Linked : /\ next'[m] = next[m] /\ user_data'[m] = user_data[m]
                          /\ heap'[m] = heap[m]
    BY <1>2, <1>3, <1>9
  <2>4. \A m \in Known \ Linked : next'[m].ptr = NULL => heap'[m] = "freed"
    BY <1>3, <1>9 DEF IInv, ListShape
  <2>5. UNCHANGED chain
    BY <1>1
  <2>6. QED
    BY <1>6, <1>7, <1>8, <1>9, <2>1, <2>2, <2>3, <2>4, <2>5 DEF IInv, ListShape
<1>11. EndsShape'
  BY <1>1, <1>2, <1>3, <1>4, <1>6, <1>9 DEF IInv, EndsShape
<1>12. ASSUME NEW u \in Threads, u # t
       PROVE  Enqueues(u)' /\ Dequeues(u)' /\ SeesEmpty(u)'
  <2> USE <1>1, <1>2, <1>3, <1>4, <1>6, <1>8, <1>9, <1>12
  <2>1. Enqueues(u)'
    <3>1. pc[u] \in EnqueuePcs => node[u] # f
      BY DEF Known
    <3>2. QED
      BY <3>1 DEF IInv, Enqueues, EnqueuePcs, NextReadPcs, TailReadPcs
  <2>2. Dequeues(u)'
    <3>1. pc[u] \in DequeuedPcs => myhead[u].ptr # f
      BY DEF IInv, Owners, DequeuedPcs
    <3>2. pc[u] \in DequeuedPcs => myhead[u].ptr \in Known
      BY DEF IInv, Dequeues
    <3>3. pc[u] = "d_swing" /\ myhead[u].ptr = head.ptr =>
              mynext[u].ptr \in Linked /\ mydata[u] = user_data[mynext[u].ptr]
      BY DEF IInv, Dequeues, DeqNextPcs, DeqTailPcs, DeqHeadPcs, DequeuePcs
    <3>4. QED
      BY <3>1, <3>2, <3>3 DEF IInv, Dequeues
  <2>3. SeesEmpty(u)'
    BY DEF IInv, SeesEmpty
  <2>4. QED
    BY <2>1, <2>2, <2>3
<1>13. Enqueues(t)' /\ Dequeues(t)' /\ SeesEmpty(t)'
  <2>1. t \notin sawEmpty'
    BY <1>1, NotInDequeue DEF DequeuePcs
  <2>2. QED
    BY <2>1, <1>4 DEF Enqueues, Dequeues, SeesEmpty, EnqueuePcs, TailReadPcs,
       TailVersionPcs, NextReadPcs, DequeuePcs, DequeuedPcs, EmptyPcs, DeqHeadPcs,
       DeqTailPcs, DeqNextPcs
<1>14. Owners'
  <2>1. ASSUME NEW u \in Threads
        PROVE  /\ pc'[u] \in EnqueuePcs <=> pc[u] \in EnqueuePcs
               /\ pc'[u] \in DequeuedPcs <=> pc[u] \in DequeuedPcs /\ u # t
               /\ pc[u] \in EnqueuePcs => u # t
    BY <1>1, <1>4 DEF EnqueuePcs, DequeuedPcs
  <2>2. ASSUME NEW n \in Nodes, heap'[n] = "live", n \notin Linked'
        PROVE  \/ \E u \in Threads : pc'[u] \in EnqueuePcs /\ node'[u] = n
               \/ \E u \in Threads : pc'[u] \in DequeuedPcs /\ myhead'[u].ptr = n
    <3>1. heap[n] = "live" /\ n \notin Linked /\ n # f
      BY <2>2, <1>3, <1>6
    <3>2. \/ \E u \in Threads : pc[u] \in EnqueuePcs /\ node[u] = n
          \/ \E u \in Threads : pc[u] \in DequeuedPcs /\ myhead[u].ptr = n
      BY <3>1 DEF IInv, Owners
    <3>3. QED
      BY <3>1, <3>2, <2>1, <1>4
  <2>3. QED
    BY <2>1, <2>2, <1>4 DEF IInv, Owners
<1>15. Destroying'
  <2>1. destroyer # NULL => t = destroyer
    BY <1>1, DestroyerAlone
  <2>2. ~Destroyed
    BY <2>1, <1>1 DEF IInv, Destroying, Destroyed
  <2>3. QED
    BY <2>1, <2>2, <1>1, <1>4, <1>7 DEF IInv, Destroying, Destroyed, DequeuePcs,
       DequeuedPcs, DeqHeadPcs, DeqTailPcs
<1>16. QED
  BY <1>5, <1>10, <1>11, <1>12, <1>13, <1>14, <1>15 DEF IInv

LEMMA DestroyCallKeeps ==
    ASSUME IInv, NEW t \in Threads, DestroyCall(t)
    PROVE  IInv'
<1> USE MpmcAssumption DEF DestroyCall, shared, history
<1>1. TypeOK'
  BY DEF IInv, TypeOK
<1>2. /\ Linked' = Linked /\ Last' = Last /\ Known' = Known /\ Destroyed' = Destroyed
  BY DEF Linked, Last, Known, Destroyed
<1>3. ListShape' /\ EndsShape' /\ Owners'
  BY <1>2 DEF IInv, ListShape, EndsShape, Owners
<1>4. ASSUME NEW u \in Threads
      PROVE  Enqueues(u)' /\ Dequeues(u)' /\ SeesEmpty(u)'
  BY <1>2 DEF IInv, Enqueues, Dequeues, SeesEmpty
<1>5. Destroying'
  BY DEF Destroying, DequeuePcs, DeqHeadPcs, DeqTailPcs
<1>6. QED
  BY <1>1, <1>3, <1>4, <1>5 DEF IInv

LEMMA FreeHeadKeeps ==
    ASSUME IInv, NEW t \in Threads, FreeHead(t)
    PROVE  IInv'
<1> USE MpmcAssumption
<1>1. /\ t = destroyer /\ pc[t] = "idle" /\ pc' = [pc EXCEPT ![t] = "destroyed"]
      /\ heap' = [heap EXCEPT ![head.ptr] = "freed"]
      /\ UNCHANGED <<head, tail, len, next, user_data, node, myhead, mytail,
                     mynext, mydata, destroyer, chain, sawEmpty, enqueues>>
  BY DEF FreeHead, Goto, history
<1>2. Len(chain) = 1
  BY EmptyNowMeans DEF FreeHead
<1>3. /\ Linked = {head.ptr} /\ head.ptr = chain[1] /\ head.ptr \in Nodes
      /\ Last = head.ptr /\ Linked \subseteq Known
  BY <1>2, ChainFacts DEF IInv, ListShape, EndsShape
<1>4. /\ pc'[t] = "destroyed" /\ \A u \in Threads \ {t} : pc'[u] = "idle"
      /\ \A u \in Threads : pc[u] = "idle"
      /\ \A n \in Nodes \ {head.ptr} : heap'[n] = heap[n]
      /\ heap'[head.ptr] = "freed"
  BY <1>1, <1>3 DEF IInv, TypeOK, Destroying
<1>5. Linked' = Linked /\ Last' = Last /\ Destroyed'
  BY <1>1, <1>4 DEF Linked, Last, Destroyed
<1>6. Known' = Known
  BY <1>1, <1>3, <1>4 DEF Known, EnqueuePcs
<1>7. TypeOK'
  BY <1>1 DEF IInv, TypeOK
<1>8. ListShape'
  <2>1. \A n \in Known' \ Linked' : next'[n].ptr = NULL => heap'[n] = "freed"
    BY <1>1, <1>3, <1>4, <1>5, <1>6 DEF IInv, ListShape, Known
  <2>2. QED
    BY <2>1, <1>1, <1>5, <1>6 DEF IInv, ListShape
<1>9. EndsShape'
  BY <1>1, <1>3, <1>5 DEF IInv, EndsShape
<1>10. ASSUME NEW u \in Threads
       PROVE  Enqueues(u)' /\ Dequeues(u)' /\ SeesEmpty(u)'
  <2>1. pc'[u] \in {"idle", "destroyed"} /\ u \notin sawEmpty'
    BY <1>1, <1>4, NotInDequeue DEF DequeuePcs
  <2>2. QED
    BY <2>1 DEF Enqueues, Dequeues, SeesEmpty, EnqueuePcs, TailReadPcs,
       TailVersionPcs, NextReadPcs, DequeuePcs, DequeuedPcs, EmptyPcs, DeqHeadPcs,
       DeqTailPcs, DeqNextPcs
<1>11. Owners'
  <2>1. \A u \in Threads : /\ pc'[u] \notin EnqueuePcs \cup DequeuedPcs
                           /\ pc[u] \notin EnqueuePcs \cup DequeuedPcs
    BY <1>4 DEF EnqueuePcs, DequeuedPcs
  <2>2. QED
    BY <2>1, <1>3, <1>4 DEF IInv, Owners
<1>12. Destroying'
  BY <1>1, <1>2, <1>3, <1>4 DEF Destroying, DequeuePcs, DequeuedPcs, DeqHeadPcs,
     DeqTailPcs
<1>13. QED
  BY <1>7, <1>8, <1>9, <1>10, <1>11, <1>12 DEF IInv

-----------------------------------------------------------------------------
(* The theorems.                                                           *)

LEMMA NextIInv == ~Recycle /\ IInv /\ [Next]_vars => IInv'
<1> SUFFICES ASSUME ~Recycle, IInv, [Next]_vars PROVE IInv'
  OBVIOUS
<1>1. CASE UNCHANGED vars
  <2> USE <1>1 DEF vars, shared, locals, history
  <2>1. Linked' = Linked /\ Last' = Last /\ Known' = Known /\ Destroyed' = Destroyed
    BY DEF Linked, Last, Known, Destroyed
  <2>2. TypeOK' /\ Owners' /\ Destroying'
    BY <2>1 DEF IInv, TypeOK, Owners, Destroying
  <2>3. ListShape' /\ EndsShape'
    BY <2>1 DEF IInv, ListShape, EndsShape
  <2>4. ASSUME NEW t \in Threads
        PROVE  Enqueues(t)' /\ Dequeues(t)' /\ SeesEmpty(t)'
    BY <2>1 DEF IInv, Enqueues, Dequeues, SeesEmpty
  <2>5. QED
    BY <2>2, <2>3, <2>4 DEF IInv
<1>2. ASSUME NEW t \in Threads, NEW n \in Nodes, NEW v \in Data, EnqueueCall(t, n, v)
      PROVE  IInv'
  BY <1>2, EnqueueCallKeeps
<1>3. ASSUME NEW t \in Threads,
             DequeueCall(t) \/ EmptyCall(t) \/ DestroyCall(t) \/ FreeHead(t)
      PROVE  IInv'
  BY <1>3, DequeueCallKeeps, EmptyCallKeeps, DestroyCallKeeps, FreeHeadKeeps
<1>4. ASSUME NEW t \in Threads,
             \/ InitNextPtr(t) \/ InitNextVersion(t) \/ EnqueueRead(t)
             \/ Link(t) \/ LinkFails(t) \/ EnqueueHelp(t) \/ SwingTail(t)
             \/ EnqueueReturn(t)
      PROVE  IInv'
  BY <1>4, InitNextPtrKeeps, InitNextVersionKeeps, EnqueueReadKeeps, LinkKeeps,
     LinkFailsKeeps, EnqueueHelpKeeps, SwingTailKeeps, EnqueueReturnKeeps
<1>5. ASSUME NEW t \in Threads,
             \/ DequeueRead(t) \/ DequeueNull(t) \/ DequeueHelp(t)
             \/ ReadUserData(t) \/ SwingHead(t) \/ SwingHeadFails(t)
             \/ DecLen(t) \/ DequeueReturn(t) \/ EmptyReturn(t)
      PROVE  IInv'
  BY <1>5, DequeueReadKeeps, DequeueNullKeeps, DequeueHelpKeeps,
     ReadUserDataKeeps, SwingHeadKeeps, SwingHeadFailsKeeps, DecLenKeeps,
     DequeueFreeKeeps, EmptyReturnKeeps
<1>6. QED
  BY <1>1, <1>2, <1>3, <1>4, <1>5 DEF Next, Step

THEOREM Invariance == ASSUME ~Recycle PROVE Spec => []IInv
<1>1. Init => IInv
  BY InitIInv
<1>2. IInv /\ [Next]_vars => IInv'
  BY NextIInv
<1>3. QED
  BY <1>1, <1>2, PTL DEF Spec

(* Every variable keeps its type.                                          *)
THEOREM TypeCorrect == ASSUME ~Recycle PROVE Spec => []TypeOK
<1>1. IInv => TypeOK
  BY DEF IInv
<1>2. QED
  BY <1>1, Invariance, PTL

(* double_cmp_and_swap(&tail.ptr->next, ...) appends to the last node,     *)
(* whatever the width of the versions: while no node that is held is used  *)
(* again, and free() leaves no pair that a swap compares with, they do not *)
(* matter.                                                                 *)
THEOREM NoABA == ASSUME ~Recycle PROVE Spec => []LinkAppends
<1>1. IInv => LinkAppends
  BY LinkAtLast DEF LinkAppends
<1>2. QED
  BY <1>1, Invariance, PTL

(* q->tail is never a node that a dequeue has freed.                       *)
THEOREM TailInList == ASSUME ~Recycle PROVE Spec => []TailIsLinked
<1>1. IInv => TailIsLinked
  BY DEF IInv, EndsShape, ListShape, TailIsLinked
<1>2. QED
  BY <1>1, Invariance, PTL

(* No thread acts on what it read in a node that was freed meanwhile.      *)
THEOREM StaleReads == ASSUME ~Recycle PROVE Spec => []StaleReadsAreHarmless
<1>1. ASSUME IInv, NEW t \in Threads, pc[t] = "d_swing", head = myhead[t]
      PROVE  /\ Len(chain) > 1
             /\ mynext[t].ptr = chain[2]
             /\ mydata[t] = user_data[chain[2]]
  BY <1>1, SwingAtFirst
<1>2. ASSUME IInv, NEW t \in Threads, pc[t] = "e_help", tail = mytail[t]
      PROVE  tail.ptr # Last /\ mynext[t].ptr = next[tail.ptr].ptr
  <2>1. tail.ptr \in Linked /\ mynext[t].ptr = next[tail.ptr].ptr /\ mynext[t].ptr # NULL
    BY <1>2 DEF IInv, EndsShape, Enqueues, NextReadPcs
  <2>2. QED
    BY <2>1, <1>2 DEF IInv, ListShape
<1>3. ASSUME IInv, NEW t \in Threads, pc[t] = "d_help", tail = mytail[t]
      PROVE  tail.ptr # Last /\ mynext[t].ptr = next[tail.ptr].ptr
  <2>1. /\ myhead[t].ptr = tail.ptr /\ myhead[t].ptr = head.ptr
        /\ mynext[t].ptr = next[head.ptr].ptr /\ mynext[t].ptr # NULL
    BY <1>3 DEF IInv, EndsShape, Dequeues, DequeuePcs, DeqHeadPcs, DeqTailPcs,
       DeqNextPcs
  <2>2. QED
    BY <2>1, <1>3 DEF IInv, ListShape
<1>4. IInv => StaleReadsAreHarmless
  BY <1>1, <1>2, <1>3 DEF StaleReadsAreHarmless
<1>5. QED
  BY <1>4, Invariance, PTL

(* Nothing leaks and nothing is freed twice, by mpmc_queue_destroy neither.*)
THEOREM NothingLeaks == ASSUME ~Recycle PROVE Spec => []NoLeak
<1>1. IInv => NoLeak
  <2> SUFFICES ASSUME IInv PROVE NoLeak
    OBVIOUS
  <2>1. ASSUME NEW t \in Threads, pc[t] \in EnqueuePcs
        PROVE  node[t] \in Nodes /\ heap[node[t]] = "live"
    BY <2>1 DEF IInv, Enqueues
  <2>2. ASSUME NEW t \in Threads, pc[t] \in DequeuedPcs
        PROVE  myhead[t].ptr \in Nodes /\ heap[myhead[t].ptr] = "live"
    BY <2>2 DEF IInv, Dequeues, Known
  <2>3. ~Destroyed => \A n \in Linked : n \in Nodes /\ heap[n] = "live"
    BY ChainFacts DEF IInv, ListShape
  <2>4. Destroyed => \A n \in Linked : heap[n] = "freed"
    <3> SUFFICES ASSUME Destroyed PROVE \A n \in Linked : heap[n] = "freed"
      OBVIOUS
    <3>1. Len(chain) = 1 /\ heap[chain[1]] = "freed"
      BY DEF Destroyed, IInv, Destroying
    <3>2. Linked = {chain[1]}
      BY <3>1, ChainFacts DEF IInv
    <3>3. QED
      BY <3>1, <3>2
  <2>5. ASSUME NEW n \in Nodes, heap[n] = "live"
        PROVE  \/ ~Destroyed /\ n \in Linked
               \/ \E t \in Threads : pc[t] \in EnqueuePcs /\ node[t] = n
               \/ \E t \in Threads : pc[t] \in DequeuedPcs /\ myhead[t].ptr = n
    BY <2>4, <2>5 DEF IInv, Owners
  <2>6. QED
    BY <2>1, <2>2, <2>3, <2>5 DEF NoLeak
<1>2. QED
  BY <1>1, Invariance, PTL

(* mpmc_queue_empty never says so of a queue that holds data, unless the   *)
(* node whose next pointer it reads was freed since its first load.        *)
THEOREM EmptyAnswers == ASSUME ~Recycle PROVE Spec => []EmptyIsTrueUntilFreed
<1>1. IInv => EmptyIsTrueUntilFreed
  <2> SUFFICES ASSUME IInv, NEW t \in Threads, pc[t] = "m_next",
                      heap[myhead[t].ptr] # "freed"
               PROVE  EmptyAnswer(t) <=> myhead[t].ptr = chain[1] /\ Len(chain) = 1
    BY DEF EmptyIsTrueUntilFreed
  <2>1. /\ myhead[t].ptr \in Known
        /\ myhead[t].ptr \in Linked => myhead[t].ptr = chain[1]
    BY DEF IInv, Dequeues, EndsShape, EmptyPcs
  <2>2. /\ chain[1] \in Linked /\ Last \in Linked
        /\ chain[1] = Last <=> Len(chain) = 1
        /\ \A n \in Linked : next[n].ptr = NULL <=> n = Last
        /\ \A n \in Known : next[n].ptr = NULL /\ heap[n] # "freed" => n \in Linked
    BY ChainFacts DEF IInv, ListShape
  <2>3. QED
    BY <2>1, <2>2 DEF EmptyAnswer
<1>2. QED
  BY <1>1, Invariance, PTL

-----------------------------------------------------------------------------
(* The counter.                                                            *)

Linkers == {t \in Threads : pc[t] \in EnqueuedPcs}
Takers == {t \in Threads : pc[t] = "d_dec"}

\* Adding one thread to a finite set of threads, or removing it.
LEMMA OneMore ==
    ASSUME IsFiniteSet(Threads), NEW S \in SUBSET Threads, NEW t \in Threads
    PROVE  /\ Cardinality(S) \in Nat
           /\ t \notin S => Cardinality(S \cup {t}) = Cardinality(S) + 1
           /\ t \in S => Cardinality(S \ {t}) = Cardinality(S) - 1
<1>1. IsFiniteSet(S)
  BY FS_Subset
<1>2. QED
  BY <1>1, FS_CardinalityType, FS_AddElement, FS_RemoveElement

LEMMA LenKeeps ==
    ASSUME ~Recycle, IsFiniteSet(Threads), IInv, LenAccounts, [Next]_vars
    PROVE  LenAccounts'
<1> USE DEF LenAccounts
<1>1. /\ Linkers \in SUBSET Threads /\ Takers \in SUBSET Threads
      /\ len = (Len(chain) - 1) - Cardinality(Linkers) + Cardinality(Takers)
      /\ len \in Int /\ Len(chain) \in Nat
      /\ Cardinality(Linkers) \in Nat /\ Cardinality(Takers) \in Nat
  <2>1. /\ Linkers \in SUBSET Threads /\ Takers \in SUBSET Threads
        /\ len = (Len(chain) - 1) - Cardinality(Linkers) + Cardinality(Takers)
    BY DEF Linkers, Takers
  <2>2. len \in Int /\ Len(chain) \in Nat
    BY ChainFacts DEF IInv, TypeOK
  <2>3. QED
    BY <2>1, <2>2, FS_Subset, FS_CardinalityType
<1>2. SUFFICES len' = (Len(chain') - 1) - Cardinality(Linkers') + Cardinality(Takers')
  BY DEF Linkers, Takers
<1>3. ASSUME UNCHANGED <<len, chain>>,
             \A t \in Threads : /\ pc'[t] \in EnqueuedPcs <=> pc[t] \in EnqueuedPcs
                                /\ pc'[t] = "d_dec" <=> pc[t] = "d_dec"
      PROVE  len' = (Len(chain') - 1) - Cardinality(Linkers') + Cardinality(Takers')
  <2>1. Linkers' = Linkers /\ Takers' = Takers
    BY <1>3 DEF Linkers, Takers
  <2>2. QED
    BY <2>1, <1>1, <1>3
<1>4. CASE UNCHANGED vars
  BY <1>4, <1>3 DEF vars, shared, locals, history
<1>5. ASSUME NEW t \in Threads, Link(t)
      PROVE  len' = (Len(chain') - 1) - Cardinality(Linkers') + Cardinality(Takers')
  <2>1. Len(chain') = Len(chain) + 1 /\ len' = len
    <3>1. mytail[t].ptr = Last /\ node[t] \in Nodes /\ chain \in Seq(Nodes)
      BY <1>5, LinkAtLast DEF IInv, TypeOK, Link, Goto, Enqueues, EnqueuePcs
    <3>2. chain' = Append(chain, node[t]) /\ len' = len
      BY <1>5, <3>1 DEF Link, Last
    <3>3. QED
      BY <3>1, <3>2, AppendProperties
  <2>2. t \notin Linkers /\ Linkers' = Linkers \cup {t} /\ Takers' = Takers
    BY <1>5 DEF Linkers, Takers, Link, Goto, IInv, TypeOK, EnqueuedPcs
  <2>3. Cardinality(Linkers') = Cardinality(Linkers) + 1
    BY <1>1, <2>2, OneMore
  <2>4. QED
    BY <1>1, <2>1, <2>2, <2>3
<1>6. ASSUME NEW t \in Threads, EnqueueReturn(t)
      PROVE  len' = (Len(chain') - 1) - Cardinality(Linkers') + Cardinality(Takers')
  <2>1. chain' = chain /\ len' = len + 1
    BY <1>6 DEF EnqueueReturn, history
  <2>2. t \in Linkers /\ Linkers' = Linkers \ {t} /\ Takers' = Takers
    BY <1>6 DEF Linkers, Takers, EnqueueReturn, ReturnFrom, Goto, IInv, TypeOK,
       EnqueuedPcs
  <2>3. Cardinality(Linkers') = Cardinality(Linkers) - 1
    BY <1>1, <2>2, OneMore
  <2>4. QED
    BY <1>1, <2>1, <2>2, <2>3
<1>7. ASSUME NEW t \in Threads, SwingHead(t)
      PROVE  len' = (Len(chain') - 1) - Cardinality(Linkers') + Cardinality(Takers')
  <2>1. Len(chain') = Len(chain) - 1 /\ len' = len
    <3>1. Len(chain) > 1 /\ chain' = Tail(chain) /\ len' = len
      BY <1>7, SwingAtFirst DEF SwingHead, Goto
    <3>2. QED
      BY <3>1, TailFacts DEF IInv
  <2>2. t \notin Takers /\ Takers' = Takers \cup {t} /\ Linkers' = Linkers
    BY <1>7 DEF Linkers, Takers, SwingHead, Goto, IInv, TypeOK, EnqueuedPcs
  <2>3. Cardinality(Takers') = Cardinality(Takers) + 1
    BY <1>1, <2>2, OneMore
  <2>4. QED
    BY <1>1, <2>1, <2>2, <2>3
<1>8. ASSUME NEW t \in Threads, DecLen(t)
      PROVE  len' = (Len(chain') - 1) - Cardinality(Linkers') + Cardinality(Takers')
  <2>1. chain' = chain /\ len' = len - 1
    BY <1>8 DEF DecLen, history
  <2>2. t \in Takers /\ Takers' = Takers \ {t} /\ Linkers' = Linkers
    BY <1>8 DEF Linkers, Takers, DecLen, Goto, IInv, TypeOK, EnqueuedPcs
  <2>3. Cardinality(Takers') = Cardinality(Takers) - 1
    BY <1>1, <2>2, OneMore
  <2>4. QED
    BY <1>1, <2>1, <2>2, <2>3
<1>9. ASSUME NEW t \in Threads, NEW n \in Nodes, NEW v \in Data, EnqueueCall(t, n, v)
      PROVE  len' = (Len(chain') - 1) - Cardinality(Linkers') + Cardinality(Takers')
  <2>1. \A u \in Threads : /\ pc'[u] \in EnqueuedPcs <=> pc[u] \in EnqueuedPcs
                           /\ pc'[u] = "d_dec" <=> pc[u] = "d_dec"
    BY <1>9 DEF EnqueueCall, Goto, IInv, TypeOK, EnqueuedPcs
  <2>2. QED
    BY <1>9, <2>1, <1>3 DEF EnqueueCall
<1>10. ASSUME NEW t \in Threads,
              DequeueCall(t) \/ EmptyCall(t) \/ DestroyCall(t) \/ FreeHead(t)
       PROVE  len' = (Len(chain') - 1) - Cardinality(Linkers') + Cardinality(Takers')
  <2>1. UNCHANGED <<len, chain>>
    BY <1>10 DEF DequeueCall, EmptyCall, DestroyCall, FreeHead, shared, history
  <2>2. \A u \in Threads : /\ pc'[u] \in EnqueuedPcs <=> pc[u] \in EnqueuedPcs
                           /\ pc'[u] = "d_dec" <=> pc[u] = "d_dec"
    BY <1>10 DEF DequeueCall, EmptyCall, DestroyCall, FreeHead, Goto, IInv, TypeOK,
       EnqueuedPcs
  <2>3. QED
    BY <2>1, <2>2, <1>3
<1>11. ASSUME NEW t \in Threads,
              \/ InitNextPtr(t) \/ InitNextVersion(t) \/ LinkFails(t)
              \/ EnqueueHelp(t) \/ SwingTail(t)
       PROVE  len' = (Len(chain') - 1) - Cardinality(Linkers') + Cardinality(Takers')
  <2>1. UNCHANGED <<len, chain>>
    BY <1>11 DEF InitNextPtr, InitNextVersion, LinkFails, EnqueueHelp, SwingTail,
       shared, history
  <2>2. \A u \in Threads : /\ pc'[u] \in EnqueuedPcs <=> pc[u] \in EnqueuedPcs
                           /\ pc'[u] = "d_dec" <=> pc[u] = "d_dec"
    BY <1>11 DEF InitNextPtr, InitNextVersion, LinkFails, EnqueueHelp, SwingTail,
       Retry, Goto, IInv, TypeOK, EnqueuePcs, EnqueuedPcs
  <2>3. QED
    BY <2>1, <2>2, <1>3
<1>12. ASSUME NEW t \in Threads, EnqueueRead(t)
       PROVE  len' = (Len(chain') - 1) - Cardinality(Linkers') + Cardinality(Takers')
  <2>1. UNCHANGED <<len, chain>>
    BY <1>12 DEF EnqueueRead, ReadTailPtr, ReadTailVersion, ReadNextPtr,
       ReadNextVersion, Compare, shared, history
  <2>2. \A u \in Threads : /\ pc'[u] \in EnqueuedPcs <=> pc[u] \in EnqueuedPcs
                           /\ pc'[u] = "d_dec" <=> pc[u] = "d_dec"
    BY <1>12 DEF EnqueueRead, ReadTailPtr, ReadTailVersion, ReadNextPtr,
       ReadNextVersion, Compare, Retry, Goto, IInv, TypeOK, EnqueuePcs, EnqueuedPcs
  <2>3. QED
    BY <2>1, <2>2, <1>3
<1>13. ASSUME NEW t \in Threads, DequeueRead(t)
       PROVE  len' = (Len(chain') - 1) - Cardinality(Linkers') + Cardinality(Takers')
  <2>1. UNCHANGED <<len, chain>>
    BY <1>13 DEF DequeueRead, ReadTailPtr, ReadTailVersion, ReadNextPtr,
       ReadNextVersion, ReadHeadPtr, ReadHeadVersion, Compare, shared, history
  <2>2. \A u \in Threads : /\ pc'[u] \in EnqueuedPcs <=> pc[u] \in EnqueuedPcs
                           /\ pc'[u] = "d_dec" <=> pc[u] = "d_dec"
    BY <1>13 DEF DequeueRead, ReadTailPtr, ReadTailVersion, ReadNextPtr,
       ReadNextVersion, ReadHeadPtr, ReadHeadVersion, Compare, Retry, Goto,
       AfterCheck, IInv, TypeOK, EnqueuePcs, EnqueuedPcs
  <2>3. QED
    BY <2>1, <2>2, <1>3
<1>14. ASSUME NEW t \in Threads,
              \/ DequeueNull(t) \/ DequeueHelp(t) \/ ReadUserData(t)
              \/ SwingHeadFails(t) \/ DequeueReturn(t) \/ EmptyReturn(t)
       PROVE  len' = (Len(chain') - 1) - Cardinality(Linkers') + Cardinality(Takers')
  <2>1. UNCHANGED <<len, chain>>
    BY <1>14 DEF DequeueNull, DequeueHelp, ReadUserData, SwingHeadFails,
       DequeueReturn, EmptyReturn, shared, history
  <2>2. \A u \in Threads : /\ pc'[u] \in EnqueuedPcs <=> pc[u] \in EnqueuedPcs
                           /\ pc'[u] = "d_dec" <=> pc[u] = "d_dec"
    BY <1>14 DEF DequeueNull, DequeueHelp, ReadUserData, SwingHeadFails,
       DequeueReturn, EmptyReturn, Retry, ReturnFrom, Goto, IInv, TypeOK,
       EnqueuePcs, EnqueuedPcs
  <2>3. QED
    BY <2>1, <2>2, <1>3
<1>15. QED
  BY <1>4, <1>5, <1>6, <1>7, <1>8, <1>9, <1>10, <1>11, <1>12, <1>13, <1>14
     DEF Next, Step

(* q->len is exact but for the threads between a swap and the counter.     *)
THEOREM LenIsRight ==
    ASSUME ~Recycle, IsFiniteSet(Threads)
    PROVE  Spec => []LenAccounts
<1>1. Init => LenAccounts
  <2> SUFFICES ASSUME Init PROVE LenAccounts
    OBVIOUS
  <2>1. Len(chain) = 1 /\ len = 0
    BY DEF Init
  <2>2. /\ {t \in Threads : pc[t] \in EnqueuedPcs} = {}
        /\ {t \in Threads : pc[t] = "d_dec"} = {}
    BY DEF Init, EnqueuedPcs
  <2>3. QED
    BY <2>1, <2>2, FS_EmptySet DEF LenAccounts
<1>2. IInv /\ LenAccounts /\ [Next]_vars => LenAccounts'
  BY LenKeeps
<1>3. QED
  BY <1>1, <1>2, Invariance, PTL DEF Spec

(* mpmc_queue_destroy frees every node and leaves len at zero: alone with  *)
(* the queue, each of its calls of mpmc_dequeue takes a node at once.      *)
THEOREM DestroyIsComplete ==
    ASSUME ~Recycle, IsFiniteSet(Threads)
    PROVE  Spec => []DestroyTakesAll
<1>1. IInv /\ LenAccounts => DestroyTakesAll
  <2> SUFFICES ASSUME IInv, LenAccounts, destroyer # NULL
               PROVE  /\ pc[destroyer] \notin {"d_null", "d_help"}
                      /\ Destroyed => Len(chain) = 1 /\ len = 0
    BY DEF DestroyTakesAll
  <2>1. /\ \A t \in Threads \ {destroyer} : pc[t] = "idle"
        /\ pc[destroyer] \in DequeuePcs => Len(chain) > 1
        /\ pc[destroyer] \in DeqHeadPcs => myhead[destroyer].ptr = head.ptr
        /\ pc[destroyer] \in DeqTailPcs => mytail[destroyer].ptr = tail.ptr
        /\ destroyer \in Threads
    BY DEF IInv, Destroying, TypeOK, Threads
  <2>2. pc[destroyer] \notin {"d_null", "d_help"}
    <3> SUFFICES ASSUME pc[destroyer] \in {"d_null", "d_help"} PROVE FALSE
      OBVIOUS
    <3>1. Len(chain) > 1 /\ tail.ptr = head.ptr
      BY <2>1 DEF IInv, Dequeues, DequeuePcs, DeqHeadPcs, DeqTailPcs
    <3>2. tail.ptr # Last
      BY <3>1, ChainFacts DEF IInv, EndsShape
    <3>3. QED
      BY <2>1, <3>2 DEF IInv, EndsShape
  <2>3. ASSUME Destroyed PROVE Len(chain) = 1 /\ len = 0
    <3>1. Len(chain) = 1 /\ pc[destroyer] = "destroyed"
      BY <2>3 DEF Destroyed, IInv, Destroying
    <3>2. /\ {t \in Threads : pc[t] \in EnqueuedPcs} = {}
          /\ {t \in Threads : pc[t] = "d_dec"} = {}
      BY <2>1, <3>1 DEF EnqueuedPcs
    <3>3. QED
      BY <3>1, <3>2, FS_EmptySet DEF LenAccounts
  <2>4. QED
    BY <2>2, <2>3
<1>2. QED
  BY <1>1, Invariance, LenIsRight, PTL
=============================================================================

-------------------------- MODULE SpscQueueProofs --------------------------
(***************************************************************************)
(* The safety properties of SpscQueue, and that it implements FifoQueue,   *)
(* for any number of nodes and values, if both threads start.              *)
(* They follow from the invariant IInv below, which says what the list     *)
(* looks like at every place of the two threads.                           *)
(***************************************************************************)
EXTENDS SpscQueue, SequenceTheorems, TLAPS

Last == chain[Len(chain)]

(* The list: its nodes are distinct, each points to its successor, and the *)
(* last one to nothing.                                                    *)
ListShape ==
    /\ \A i, j \in 1..Len(chain) : chain[i] = chain[j] => i = j
    /\ \A i \in 1..(Len(chain) - 1) : next[chain[i]] = chain[i + 1]
    /\ Len(chain) > 0 => next[Last] = NULL /\ head = chain[1]
    /\ \A i \in 2..Len(chain) : data[chain[i]] \in Data
    /\ Len(chain) = 0 <=> consPc = "destroyed"

(* What can be pending where, and what has reached memory.                 *)
StoreOrder ==
    /\ prodPc = "init" => pending \subseteq {"data"}
    /\ prodPc = "fence" => pending \subseteq {"data", "next"}
    /\ prodPc = "tail" => pending \subseteq {"link"}
    /\ prodPc = "len" => pending \subseteq {"link", "tail"}
    /\ prodPc \in {"idle", "link", "print", "stopped"} => pending = {}
    /\ node # NULL <=> prodPc \notin {"idle", "stopped"}
    /\ node # NULL => val \in Data
    /\ node # NULL /\ "data" \notin pending => data[node] = val
    /\ prodPc \in {"fence", "link", "tail", "len"} /\ node \notin Linked
           /\ "next" \notin pending => next[node] = NULL

(* Where the producer's node is, and where q->tail points.                 *)
TailShape ==
    /\ prodPc \in {"init", "fence", "link"} => node \notin Linked
    /\ prodPc \in {"tail", "len"} =>
           /\ "link" \in pending <=> node \notin Linked
           /\ "link" \in pending => prev = Last
           /\ "link" \notin pending => node = Last
           /\ prev \in Nodes
           /\ tail = IF prodPc = "len" /\ "tail" \notin pending THEN node ELSE prev
    /\ prodPc \notin {"tail", "len"} /\ Len(chain) > 0 => tail = Last
    /\ prodPc = "print" => node = Last
    /\ destroying \/ consPc = "destroyed" => prodPc = "stopped"

(* The consumer's variables.                                               *)
DequeueShape ==
    /\ consPc \in {"idle", "destroyed"} => dead_head = NULL /\ new_head = NULL
    /\ consPc \in {"load", "dec", "move"} => dead_head = chain[1]
    /\ consPc = "load" => new_head = NULL
    /\ consPc \in {"dec", "move"} => Len(chain) > 1 /\ new_head = chain[2]
    /\ consPc = "return" /\ new_head # NULL =>
           new_head = chain[1] /\ node_to_free # NULL
    /\ node_to_free # NULL =>
           /\ consPc = "return" /\ new_head # NULL
           /\ node_to_free \notin Linked /\ node_to_free # node
    /\ held # NULL /\ ~(consPc = "return" /\ new_head # NULL) =>
           Len(chain) > 0 /\ held = chain[1]
    /\ destroying => held = NULL
    /\ consPc = "destroyed" => destroying
    /\ Returned # NULL => data[Returned] = heldVal
    /\ consPc \in {"idle", "load"} /\ sawItem => Len(chain) > 1
    /\ consPc = "load" /\ destroying => Len(chain) > 1

IInv ==
    /\ TypeOK
    /\ ListShape
    /\ StoreOrder
    /\ TailShape
    /\ DequeueShape
    /\ NoLeak
    /\ LenAccounts
    /\ NonEmptyIsStable

-----------------------------------------------------------------------------

(* The nodes of the list, as the two sides change it.                      *)
LEMMA LinkedAppend ==
    ASSUME NEW s \in Seq(Nodes), NEW n \in Nodes
    PROVE  {Append(s, n)[i] : i \in 1..Len(Append(s, n))} =
               {s[i] : i \in 1..Len(s)} \cup {n}
  BY AppendProperties

LEMMA LinkedTail ==
    ASSUME NEW s \in Seq(Nodes), Len(s) > 0,
           \A i, j \in 1..Len(s) : s[i] = s[j] => i = j
    PROVE  {Tail(s)[i] : i \in 1..Len(Tail(s))} =
               {s[i] : i \in 1..Len(s)} \ {s[1]}
<1>1. /\ Tail(s) \in Seq(Nodes)
      /\ Len(Tail(s)) = Len(s) - 1
      /\ \A i \in 1..Len(Tail(s)) : Tail(s)[i] = s[i + 1]
  BY HeadTailProperties, Len(s) > 0
<1>2. ASSUME NEW i \in 2..Len(s)
      PROVE  \E j \in 1..Len(Tail(s)) : Tail(s)[j] = s[i]
  <2>1. i - 1 \in 1..Len(Tail(s)) /\ Tail(s)[i - 1] = s[i]
    BY <1>1
  <2>2. QED BY <2>1
<1>3. QED BY <1>1, <1>2

LEMMA InitIInv == Init => IInv
<1> SUFFICES ASSUME Init PROVE IInv
  OBVIOUS
<1> USE SpscAssumption DEF Init
<1>1. chain \in Seq(Nodes) /\ Len(chain) = 1 /\ chain[1] = head /\ head \in Nodes
  OBVIOUS
<1>2. Linked = {head}
  BY <1>1 DEF Linked
<1>3. TypeOK
  <2>1. /\ next \in [Nodes -> Nodes \cup {NULL, Garbage}]
        /\ data \in [Nodes -> Data \cup {Garbage}]
    OBVIOUS
  <2>2. prodPc \in ProdPcs /\ consPc \in ConsPcs /\ pending \subseteq Stores
    BY DEF ProdPcs, ConsPcs
  <2>3. len \in Int
    OBVIOUS
  <2>4. QED
    BY <1>1, <2>1, <2>2, <2>3 DEF TypeOK
<1>4. ListShape
  BY <1>1 DEF ListShape, Last
<1>5. StoreOrder /\ TailShape
  BY <1>1, <1>2 DEF StoreOrder, TailShape, Last
<1>6. DequeueShape /\ NonEmptyIsStable
  BY <1>1, <1>2 DEF DequeueShape, Returned, NonEmptyIsStable
<1>7. NoLeak
  BY <1>2 DEF NoLeak
<1>8. LenAccounts
  BY <1>1 DEF LenAccounts, LinkedNotCounted, InList, CountedOutNotMoved
<1>9. QED
  BY <1>3, <1>4, <1>5, <1>6, <1>7, <1>8 DEF IInv

-----------------------------------------------------------------------------

(* What the type invariant says of the nodes of the list.                  *)
LEMMA ChainFacts ==
    ASSUME TypeOK
    PROVE  /\ Len(chain) \in Nat
           /\ \A i \in 1..Len(chain) : chain[i] \in Nodes /\ chain[i] \in Linked
           /\ \A n \in Linked : \E i \in 1..Len(chain) : n = chain[i]
           /\ Linked \subseteq Nodes
<1>1. chain \in Seq(Nodes)
  BY DEF TypeOK
<1>2. Len(chain) \in Nat /\ \A i \in 1..Len(chain) : chain[i] \in Nodes
  BY <1>1
<1>3. QED BY <1>2 DEF Linked

(* A node that is being filled is not in the list.                         *)
LEMMA PendingUnlinked ==
    ASSUME IInv, "data" \in pending \/ "next" \in pending
    PROVE  node \in Nodes /\ node \notin Linked /\ prodPc \in {"init", "fence"}
<1>1. prodPc \in {"init", "fence"}
  BY DEF IInv, StoreOrder, TypeOK, ProdPcs
<1>2. QED
  BY <1>1 DEF IInv, StoreOrder, TailShape, TypeOK

(* Writing to a node outside the list leaves the list as it is, and the    *)
(* data that the consumer holds.                                           *)
LEMMA UnlinkedWrite ==
    ASSUME IInv, NEW n, n \notin Linked,
           \A m \in Nodes \ {n} : next'[m] = next[m] /\ data'[m] = data[m],
           UNCHANGED <<chain, head, consPc, held, new_head, heldVal>>
    PROVE  ListShape' /\ Returned' = Returned
           /\ (Returned' # NULL => data'[Returned'] = heldVal')
<1> USE DEF IInv
<1>1. \A i \in 1..Len(chain) :
          next'[chain[i]] = next[chain[i]] /\ data'[chain[i]] = data[chain[i]]
  BY ChainFacts
<1>2. ListShape'
  BY <1>1, ChainFacts DEF ListShape, Last
<1>3. Returned' = Returned
  BY DEF Returned
<1>4. Returned # NULL => Len(chain) > 0 /\ Returned = chain[1]
  BY ChainFacts, SpscAssumption DEF DequeueShape, Returned, ListShape
<1>5. QED
  BY <1>1, <1>2, <1>3, <1>4, ChainFacts DEF DequeueShape

-----------------------------------------------------------------------------
(* Each action keeps the invariant; one lemma for each.  First the         *)
(* producer, which moves the list only when its link reaches memory.       *)

LEMMA EnqueueCallKeeps ==
    ASSUME IInv, NEW n \in Nodes, NEW v \in Data, EnqueueCall(n, v)
    PROVE  IInv'
<1> USE SpscAssumption DEF IInv, EnqueueCall, consumer, history, ProdGoto
<1>0. Linked' = Linked
  BY DEF Linked
<1>1. TypeOK'
  BY <1>0 DEF TypeOK, ProdPcs, Stores
<1>2. ListShape'
  <2>1. n \notin Linked
    BY DEF NoLeak
  <2>2. \A m \in Nodes \ {n} : next'[m] = next[m] /\ data'[m] = data[m]
    BY DEF TypeOK
  <2>3. QED
    BY <2>1, <2>2, UnlinkedWrite
<1>3. StoreOrder'
  BY <1>0 DEF StoreOrder
<1>4. TailShape'
  BY <1>0 DEF TailShape, Last, TypeOK, NoLeak
<1>5. DequeueShape'
  <2>1. n \notin Linked /\ node_to_free # n
    BY DEF NoLeak
  <2>2. \A m \in Nodes \ {n} : next'[m] = next[m] /\ data'[m] = data[m]
    BY DEF TypeOK
  <2>3. Returned' # NULL => data'[Returned'] = heldVal'
    BY <2>1, <2>2, UnlinkedWrite
  <2>4. QED
    BY <1>0, <2>1, <2>3 DEF DequeueShape
<1>6. NoLeak'
  BY <1>0 DEF NoLeak, TypeOK, StoreOrder
<1>7. LenAccounts'
  BY <1>0 DEF LenAccounts, LinkedNotCounted, InList, CountedOutNotMoved,
         TypeOK, StoreOrder, TailShape, NoLeak, DequeueShape
<1>8. NonEmptyIsStable'
  BY <1>0 DEF NonEmptyIsStable
<1>9. QED
  BY <1>1, <1>2, <1>3, <1>4, <1>5, <1>6, <1>7, <1>8

LEMMA InitNextKeeps ==
    ASSUME IInv, InitNext
    PROVE  IInv'
<1> USE SpscAssumption DEF IInv, InitNext, shared, consumer, history, ProdGoto
<1>0. Linked' = Linked
  BY DEF Linked
<1>1. TypeOK'
  BY <1>0 DEF TypeOK, ProdPcs, Stores
<1>2. ListShape'
  BY <1>0 DEF ListShape, Last
<1>3. StoreOrder'
  BY <1>0 DEF StoreOrder
<1>4. TailShape'
  BY <1>0 DEF TailShape, Last
<1>5. DequeueShape'
  BY <1>0 DEF DequeueShape, Returned
<1>6. NoLeak'
  BY <1>0 DEF NoLeak
<1>7. LenAccounts'
  BY <1>0 DEF LenAccounts, LinkedNotCounted, InList, CountedOutNotMoved
<1>8. NonEmptyIsStable'
  BY <1>0 DEF NonEmptyIsStable
<1>9. QED
  BY <1>1, <1>2, <1>3, <1>4, <1>5, <1>6, <1>7, <1>8

LEMMA WriteBarrierKeeps ==
    ASSUME IInv, WriteBarrier
    PROVE  IInv'
<1> USE SpscAssumption DEF IInv, WriteBarrier, shared, consumer, history,
       ProdGoto
<1>0. Linked' = Linked
  BY DEF Linked
<1>1. TypeOK'
  BY <1>0 DEF TypeOK, ProdPcs, Stores
<1>2. ListShape'
  BY <1>0 DEF ListShape, Last
<1>3. StoreOrder'
  BY <1>0 DEF StoreOrder
<1>4. TailShape'
  BY <1>0 DEF TailShape, Last
<1>5. DequeueShape'
  BY <1>0 DEF DequeueShape, Returned
<1>6. NoLeak'
  BY <1>0 DEF NoLeak
<1>7. LenAccounts'
  BY <1>0 DEF LenAccounts, LinkedNotCounted, InList, CountedOutNotMoved
<1>8. NonEmptyIsStable'
  BY <1>0 DEF NonEmptyIsStable
<1>9. QED
  BY <1>1, <1>2, <1>3, <1>4, <1>5, <1>6, <1>7, <1>8

LEMMA LinkNodeKeeps ==
    ASSUME IInv, LinkNode
    PROVE  IInv'
<1> USE SpscAssumption DEF IInv, LinkNode, shared, consumer, history, ProdGoto
<1>0. Linked' = Linked
  BY DEF Linked
<1>1. TypeOK'
  BY <1>0 DEF TypeOK, ProdPcs, Stores
<1>2. ListShape'
  BY <1>0 DEF ListShape, Last
<1>3. StoreOrder'
  BY <1>0 DEF StoreOrder
<1>4. TailShape'
  BY <1>0 DEF TailShape, Last, TypeOK, ListShape
<1>5. DequeueShape'
  BY <1>0 DEF DequeueShape, Returned
<1>6. NoLeak'
  BY <1>0 DEF NoLeak
<1>7. LenAccounts'
  BY <1>0 DEF LenAccounts, LinkedNotCounted, InList, CountedOutNotMoved
<1>8. NonEmptyIsStable'
  BY <1>0 DEF NonEmptyIsStable
<1>9. QED
  BY <1>1, <1>2, <1>3, <1>4, <1>5, <1>6, <1>7, <1>8

LEMMA MoveTailKeeps ==
    ASSUME IInv, MoveTail
    PROVE  IInv'
<1> USE SpscAssumption DEF IInv, MoveTail, shared, consumer, history, ProdGoto
<1>0. Linked' = Linked
  BY DEF Linked
<1>1. TypeOK'
  BY <1>0 DEF TypeOK, ProdPcs, Stores
<1>2. ListShape'
  BY <1>0 DEF ListShape, Last
<1>3. StoreOrder'
  BY <1>0 DEF StoreOrder
<1>4. TailShape'
  BY <1>0 DEF TailShape, Last
<1>5. DequeueShape'
  BY <1>0 DEF DequeueShape, Returned
<1>6. NoLeak'
  BY <1>0 DEF NoLeak
<1>7. LenAccounts'
  BY <1>0 DEF LenAccounts, LinkedNotCounted, InList, CountedOutNotMoved
<1>8. NonEmptyIsStable'
  BY <1>0 DEF NonEmptyIsStable
<1>9. QED
  BY <1>1, <1>2, <1>3, <1>4, <1>5, <1>6, <1>7, <1>8

LEMMA IncLenKeeps ==
    ASSUME IInv, IncLen
    PROVE  IInv'
<1> USE SpscAssumption DEF IInv, IncLen, consumer, history, ProdGoto
<1>0. Linked' = Linked
  BY DEF Linked
<1>1. TypeOK'
  BY <1>0 DEF TypeOK, ProdPcs, Stores
<1>2. ListShape'
  BY <1>0 DEF ListShape, Last
<1>3. StoreOrder'
  BY <1>0 DEF StoreOrder
<1>4. TailShape'
  BY <1>0 DEF TailShape, Last
<1>5. DequeueShape'
  BY <1>0 DEF DequeueShape, Returned
<1>6. NoLeak'
  BY <1>0 DEF NoLeak
<1>7. LenAccounts'
  BY <1>0 DEF LenAccounts, LinkedNotCounted, InList, CountedOutNotMoved,
         TypeOK, TailShape
<1>8. NonEmptyIsStable'
  BY <1>0 DEF NonEmptyIsStable
<1>9. QED
  BY <1>1, <1>2, <1>3, <1>4, <1>5, <1>6, <1>7, <1>8

LEMMA PrintDataKeeps ==
    ASSUME IInv, PrintData
    PROVE  IInv'
<1> USE SpscAssumption DEF IInv, PrintData, shared, consumer, history,
       ProdGoto
<1>0. Linked' = Linked
  BY DEF Linked
<1>1. TypeOK'
  BY <1>0 DEF TypeOK, ProdPcs, Stores
<1>2. ListShape'
  BY <1>0 DEF ListShape, Last
<1>3. StoreOrder'
  BY <1>0 DEF StoreOrder
<1>4. TailShape'
  BY <1>0 DEF TailShape, Last
<1>5. DequeueShape'
  BY <1>0 DEF DequeueShape, Returned
<1>6. NoLeak'
  <2>1. node \in Linked
    BY ChainFacts DEF TailShape, Last, ListShape, TypeOK, ProdPcs
  <2>2. QED
    BY <1>0, <2>1 DEF NoLeak
<1>7. LenAccounts'
  BY <1>0 DEF LenAccounts, LinkedNotCounted, InList, CountedOutNotMoved
<1>8. NonEmptyIsStable'
  BY <1>0 DEF NonEmptyIsStable
<1>9. QED
  BY <1>1, <1>2, <1>3, <1>4, <1>5, <1>6, <1>7, <1>8

LEMMA StopProducerKeeps ==
    ASSUME IInv, StopProducer
    PROVE  IInv'
<1> USE SpscAssumption DEF IInv, StopProducer, shared, consumer, history,
       ProdGoto
<1>0. Linked' = Linked
  BY DEF Linked
<1>1. TypeOK'
  BY <1>0 DEF TypeOK, ProdPcs, Stores
<1>2. ListShape'
  BY <1>0 DEF ListShape, Last
<1>3. StoreOrder'
  BY <1>0 DEF StoreOrder
<1>4. TailShape'
  BY <1>0 DEF TailShape, Last
<1>5. DequeueShape'
  BY <1>0 DEF DequeueShape, Returned
<1>6. NoLeak'
  BY <1>0 DEF NoLeak
<1>7. LenAccounts'
  BY <1>0 DEF LenAccounts, LinkedNotCounted, InList, CountedOutNotMoved
<1>8. NonEmptyIsStable'
  BY <1>0 DEF NonEmptyIsStable
<1>9. QED
  BY <1>1, <1>2, <1>3, <1>4, <1>5, <1>6, <1>7, <1>8

-----------------------------------------------------------------------------
(* The stores that reach memory.                                           *)

LEMMA FlushDataKeeps ==
    ASSUME IInv, FlushData
    PROVE  IInv'
<1> USE SpscAssumption DEF IInv, FlushData, Flush, consumer, history
<1>0. Linked' = Linked
  BY DEF Linked
<1>1. TypeOK'
  BY <1>0 DEF TypeOK, StoreOrder, Stores
<1>2. ListShape'
  <2>1. QED
    BY PendingUnlinked, UnlinkedWrite DEF TypeOK
<1>3. StoreOrder'
  BY <1>0 DEF StoreOrder, TypeOK
<1>4. TailShape'
  BY <1>0 DEF TailShape, Last
<1>5. DequeueShape'
  <2>1. Returned' # NULL => data'[Returned'] = heldVal'
    BY PendingUnlinked, UnlinkedWrite DEF TypeOK
  <2>2. QED
    BY <1>0, <2>1 DEF DequeueShape
<1>6. NoLeak'
  BY <1>0 DEF NoLeak
<1>7. LenAccounts'
  BY <1>0 DEF LenAccounts, LinkedNotCounted, InList, CountedOutNotMoved
<1>8. NonEmptyIsStable'
  BY <1>0 DEF NonEmptyIsStable
<1>9. QED
  BY <1>1, <1>2, <1>3, <1>4, <1>5, <1>6, <1>7, <1>8

LEMMA FlushNextKeeps ==
    ASSUME IInv, FlushNext
    PROVE  IInv'
<1> USE SpscAssumption DEF IInv, FlushNext, Flush, consumer, history
<1>0. Linked' = Linked
  BY DEF Linked
<1>1. TypeOK'
  BY <1>0 DEF TypeOK, StoreOrder, Stores
<1>2. ListShape'
  <2>1. QED
    BY PendingUnlinked, UnlinkedWrite DEF TypeOK
<1>3. StoreOrder'
  BY <1>0 DEF StoreOrder, TypeOK
<1>4. TailShape'
  BY <1>0 DEF TailShape, Last
<1>5. DequeueShape'
  BY <1>0 DEF DequeueShape, Returned
<1>6. NoLeak'
  BY <1>0 DEF NoLeak
<1>7. LenAccounts'
  BY <1>0 DEF LenAccounts, LinkedNotCounted, InList, CountedOutNotMoved
<1>8. NonEmptyIsStable'
  BY <1>0 DEF NonEmptyIsStable
<1>9. QED
  BY <1>1, <1>2, <1>3, <1>4, <1>5, <1>6, <1>7, <1>8

LEMMA FlushLinkKeeps ==
    ASSUME IInv, FlushLink
    PROVE  IInv'
<1> USE SpscAssumption DEF IInv, FlushLink, Flush, consumer
<1>0. /\ prodPc \in {"tail", "len"} /\ "data" \notin pending /\ "next" \notin pending
      /\ consPc # "destroyed" /\ Len(chain) > 0 /\ Len(chain) \in Nat
      /\ node \in Nodes /\ node \notin Linked /\ prev = Last /\ prev \in Linked
  <2>1. prodPc \in {"tail", "len"} /\ "data" \notin pending /\ "next" \notin pending
    BY DEF StoreOrder, TypeOK, ProdPcs
  <2>2. consPc # "destroyed" /\ Len(chain) > 0 /\ Len(chain) \in Nat
    BY <2>1, ChainFacts DEF TailShape, ListShape
  <2>3. node \in Nodes /\ node \notin Linked /\ prev = Last
    BY <2>1 DEF TailShape, StoreOrder, TypeOK
  <2>4. QED
    BY <2>1, <2>2, <2>3, ChainFacts DEF Last
<1>a. /\ chain' \in Seq(Nodes) /\ Len(chain') = Len(chain) + 1
      /\ \A i \in 1..Len(chain) : chain'[i] = chain[i]
      /\ chain'[Len(chain) + 1] = node
  BY <1>0, AppendProperties DEF TypeOK
<1>b. Linked' = Linked \cup {node}
  BY <1>0, LinkedAppend DEF Linked, TypeOK
<1>c. /\ next'[prev] = node
      /\ \A m \in Nodes \ {prev} : next'[m] = next[m]
      /\ next'[node] = NULL
  <2>1. next[node] = NULL
    BY <1>0 DEF StoreOrder
  <2>2. QED
    BY <1>0, <2>1, ChainFacts DEF TypeOK
<1>d. Last' = node
  BY <1>a DEF Last
<1>1. TypeOK'
  <2>1. next' \in [Nodes -> Nodes \cup {NULL, Garbage}] /\ pending' \subseteq Stores
    BY <1>0 DEF TypeOK
  <2>2. QED
    BY <1>a, <2>1 DEF TypeOK
<1>2. ListShape'
  <2>1. \A i \in 1..Len(chain) : chain[i] # node /\ chain[i] \in Nodes
    BY <1>0, ChainFacts
  <2>2. \A i, j \in 1..Len(chain') : chain'[i] = chain'[j] => i = j
    BY <1>0, <1>a, <2>1 DEF ListShape
  <2>3. ASSUME NEW i \in 1..(Len(chain') - 1)
        PROVE  next'[chain'[i]] = chain'[i + 1]
    <3>1. CASE i = Len(chain)
      BY <1>0, <1>a, <1>c, <3>1 DEF Last
    <3>2. CASE i # Len(chain)
      <4>1. i \in 1..(Len(chain) - 1) /\ i + 1 \in 1..Len(chain)
        BY <1>0, <1>a, <3>2
      <4>2. chain[i] # prev
        BY <1>0, <4>1, <3>2 DEF Last, ListShape
      <4>3. next'[chain[i]] = chain[i + 1]
        BY <1>c, <2>1, <4>1, <4>2 DEF ListShape
      <4>4. QED
        BY <1>a, <4>1, <4>3
    <3>3. QED
      BY <3>1, <3>2
  <2>4. next'[Last'] = NULL /\ head' = chain'[1]
    BY <1>0, <1>a, <1>c, <1>d DEF ListShape
  <2>5. \A i \in 2..Len(chain') : data'[chain'[i]] \in Data
    <3>1. data[node] \in Data
      BY <1>0, SpscAssumption DEF StoreOrder
    <3>2. QED
      BY <1>0, <1>a, <3>1 DEF ListShape
  <2>6. QED
    BY <1>0, <1>a, <2>2, <2>3, <2>4, <2>5 DEF ListShape
<1>3. StoreOrder'
  BY <1>0, <1>b DEF StoreOrder
<1>4. TailShape'
  BY <1>0, <1>a, <1>b, <1>d DEF TailShape
<1>5. DequeueShape'
  <2>1. chain'[1] = chain[1] /\ (Len(chain) > 1 => chain'[2] = chain[2])
    BY <1>0, <1>a
  <2>2. Returned' = Returned
    BY DEF Returned
  <2>3. QED
    BY <1>0, <1>a, <1>b, <2>1, <2>2 DEF DequeueShape
<1>6. NoLeak'
  BY <1>0, <1>b DEF NoLeak, TypeOK
<1>7. LenAccounts'
  <2>1. ~LinkedNotCounted /\ LinkedNotCounted' /\ (CountedOutNotMoved' <=> CountedOutNotMoved)
    BY <1>0, <1>b, SpscAssumption DEF LinkedNotCounted, InList,
           CountedOutNotMoved
  <2>2. QED
    BY <1>0, <1>a, <2>1 DEF LenAccounts, TypeOK
<1>8. NonEmptyIsStable'
  BY  DEF NonEmptyIsStable
<1>9. QED
  BY <1>1, <1>2, <1>3, <1>4, <1>5, <1>6, <1>7, <1>8

LEMMA FlushTailKeeps ==
    ASSUME IInv, FlushTail
    PROVE  IInv'
<1> USE SpscAssumption DEF IInv, FlushTail, Flush, consumer, history
<1>0. Linked' = Linked
  BY DEF Linked
<1>1. TypeOK'
  BY <1>0 DEF TypeOK, StoreOrder, Stores
<1>2. ListShape'
  BY <1>0 DEF ListShape, Last
<1>3. StoreOrder'
  BY <1>0 DEF StoreOrder
<1>4. TailShape'
  <2>1. prodPc = "len"
    BY DEF StoreOrder, TypeOK, ProdPcs
  <2>2. QED
    BY <1>0, <2>1 DEF TailShape, Last
<1>5. DequeueShape'
  BY <1>0 DEF DequeueShape, Returned
<1>6. NoLeak'
  BY <1>0 DEF NoLeak
<1>7. LenAccounts'
  BY <1>0 DEF LenAccounts, LinkedNotCounted, InList, CountedOutNotMoved
<1>8. NonEmptyIsStable'
  BY <1>0 DEF NonEmptyIsStable
<1>9. QED
  BY <1>1, <1>2, <1>3, <1>4, <1>5, <1>6, <1>7, <1>8

-----------------------------------------------------------------------------
(* The consumer.                                                           *)

LEMMA QueryEmptyKeeps ==
    ASSUME IInv, QueryEmpty
    PROVE  IInv'
<1> USE SpscAssumption DEF IInv, QueryEmpty, shared, producer, history, Empty
<1>0. Linked' = Linked
  BY DEF Linked
<1>1. TypeOK'
  BY <1>0 DEF TypeOK, ConsPcs
<1>2. ListShape'
  BY <1>0 DEF ListShape, Last
<1>3. StoreOrder'
  BY <1>0 DEF StoreOrder
<1>4. TailShape'
  BY <1>0 DEF TailShape, Last
<1>5. DequeueShape'
  BY <1>0 DEF DequeueShape, Returned, TypeOK, ListShape, Last
<1>6. NoLeak'
  BY <1>0 DEF NoLeak
<1>7. LenAccounts'
  BY <1>0 DEF LenAccounts, LinkedNotCounted, InList, CountedOutNotMoved
<1>8. NonEmptyIsStable'
  BY <1>0 DEF NonEmptyIsStable
<1>9. QED
  BY <1>1, <1>2, <1>3, <1>4, <1>5, <1>6, <1>7, <1>8

LEMMA DequeueCallKeeps ==
    ASSUME IInv, DequeueCall
    PROVE  IInv'
<1> USE SpscAssumption DEF IInv, DequeueCall, shared, producer, ConsGoto,
       Empty
<1>0. Linked' = Linked
  BY DEF Linked
<1>1. TypeOK'
  BY <1>0 DEF TypeOK, ConsPcs
<1>2. ListShape'
  BY <1>0 DEF ListShape, Last
<1>3. StoreOrder'
  BY <1>0 DEF StoreOrder
<1>4. TailShape'
  BY <1>0 DEF TailShape, Last
<1>5. DequeueShape'
  BY <1>0 DEF DequeueShape, Returned, TypeOK, ListShape, Last
<1>6. NoLeak'
  BY <1>0 DEF NoLeak
<1>7. LenAccounts'
  BY <1>0 DEF LenAccounts, LinkedNotCounted, InList, CountedOutNotMoved
<1>8. NonEmptyIsStable'
  BY <1>0 DEF NonEmptyIsStable
<1>9. QED
  BY <1>1, <1>2, <1>3, <1>4, <1>5, <1>6, <1>7, <1>8

LEMMA LoadNextNullKeeps ==
    ASSUME IInv, LoadNextNull
    PROVE  IInv'
<1> USE SpscAssumption DEF IInv, LoadNextNull, shared, producer, ConsGoto
<1>0. Linked' = Linked
  BY DEF Linked
<1>1. TypeOK'
  BY <1>0 DEF TypeOK, ConsPcs
<1>2. ListShape'
  BY <1>0 DEF ListShape, Last
<1>3. StoreOrder'
  BY <1>0 DEF StoreOrder
<1>4. TailShape'
  BY <1>0 DEF TailShape, Last
<1>5. DequeueShape'
  BY <1>0 DEF DequeueShape, Returned
<1>6. NoLeak'
  BY <1>0 DEF NoLeak, TypeOK, DequeueShape
<1>7. LenAccounts'
  BY <1>0 DEF LenAccounts, LinkedNotCounted, InList, CountedOutNotMoved
<1>8. NonEmptyIsStable'
  BY <1>0 DEF NonEmptyIsStable, TypeOK, ListShape, DequeueShape, Last
<1>9. QED
  BY <1>1, <1>2, <1>3, <1>4, <1>5, <1>6, <1>7, <1>8

LEMMA LoadNextNodeKeeps ==
    ASSUME IInv, LoadNextNode
    PROVE  IInv'
<1> USE SpscAssumption DEF IInv, LoadNextNode, shared, producer, history,
       ConsGoto
<1>0. Linked' = Linked
  BY DEF Linked
<1>1. TypeOK'
  BY <1>0 DEF TypeOK, ListShape, DequeueShape, Last, ConsPcs
<1>2. ListShape'
  BY <1>0 DEF ListShape, Last
<1>3. StoreOrder'
  BY <1>0 DEF StoreOrder
<1>4. TailShape'
  BY <1>0 DEF TailShape, Last
<1>5. DequeueShape'
  BY <1>0 DEF DequeueShape, Returned, TypeOK, ListShape, Last
<1>6. NoLeak'
  BY <1>0 DEF NoLeak
<1>7. LenAccounts'
  BY <1>0 DEF LenAccounts, LinkedNotCounted, InList, CountedOutNotMoved
<1>8. NonEmptyIsStable'
  BY <1>0 DEF NonEmptyIsStable
<1>9. QED
  BY <1>1, <1>2, <1>3, <1>4, <1>5, <1>6, <1>7, <1>8

LEMMA DecLenKeeps ==
    ASSUME IInv, DecLen
    PROVE  IInv'
<1> USE SpscAssumption DEF IInv, DecLen, producer, history, ConsGoto
<1>0. Linked' = Linked
  BY DEF Linked
<1>1. TypeOK'
  BY <1>0 DEF TypeOK, ConsPcs
<1>2. ListShape'
  BY <1>0 DEF ListShape, Last
<1>3. StoreOrder'
  BY <1>0 DEF StoreOrder
<1>4. TailShape'
  BY <1>0 DEF TailShape, Last
<1>5. DequeueShape'
  BY <1>0 DEF DequeueShape, Returned
<1>6. NoLeak'
  BY <1>0 DEF NoLeak
<1>7. LenAccounts'
  BY <1>0 DEF LenAccounts, LinkedNotCounted, InList, CountedOutNotMoved
<1>8. NonEmptyIsStable'
  BY <1>0 DEF NonEmptyIsStable
<1>9. QED
  BY <1>1, <1>2, <1>3, <1>4, <1>5, <1>6, <1>7, <1>8

LEMMA MoveHeadKeeps ==
    ASSUME IInv, MoveHead
    PROVE  IInv'
<1> USE SpscAssumption DEF IInv, MoveHead, producer, ConsGoto
<1>0. /\ Len(chain) > 1 /\ Len(chain) \in Nat /\ new_head = chain[2] /\ dead_head = chain[1]
      /\ new_head \in Nodes /\ dead_head \in Nodes
      /\ new_head \in Linked /\ dead_head \in Linked /\ new_head # dead_head
  BY ChainFacts DEF DequeueShape, ListShape
<1>a. /\ chain' \in Seq(Nodes) /\ Len(chain') = Len(chain) - 1
      /\ \A i \in 1..(Len(chain) - 1) : chain'[i] = chain[i + 1]
  BY <1>0, HeadTailProperties DEF TypeOK
<1>b. Linked' = Linked \ {dead_head}
  <2>1. /\ chain \in Seq(Nodes) /\ Len(chain) > 0
        /\ \A i, j \in 1..Len(chain) : chain[i] = chain[j] => i = j
    BY <1>0 DEF TypeOK, ListShape
  <2>2. chain' = Tail(chain)
    OBVIOUS
  <2>3. {Tail(chain)[i] : i \in 1..Len(Tail(chain))} =
            {chain[i] : i \in 1..Len(chain)} \ {chain[1]}
    BY <2>1, LinkedTail
  <2>4. QED
    BY <1>0, <2>2, <2>3 DEF Linked
<1>c. Last' = Last /\ chain'[1] = new_head /\ Last # dead_head
  BY <1>0, <1>a, ChainFacts DEF Last, ListShape
<1>1. TypeOK'
  <2>1. data[new_head] \in Data
    BY <1>0 DEF ListShape
  <2>2. QED
    BY <1>0, <1>a, <2>1 DEF TypeOK, ConsPcs
<1>2. ListShape'
  <2>1. \A i, j \in 1..Len(chain') : chain'[i] = chain'[j] => i = j
    BY <1>0, <1>a DEF ListShape
  <2>2. \A i \in 1..(Len(chain') - 1) : next'[chain'[i]] = chain'[i + 1]
    BY <1>0, <1>a DEF ListShape
  <2>3. next'[Last'] = NULL /\ head' = chain'[1]
    BY <1>0, <1>c DEF ListShape
  <2>4. \A i \in 2..Len(chain') : data'[chain'[i]] \in Data
    BY <1>0, <1>a DEF ListShape
  <2>5. QED
    BY <1>0, <1>a, <2>1, <2>2, <2>3, <2>4 DEF ListShape
<1>3. StoreOrder'
  <2>1. node \in Linked' => node \in Linked
    BY <1>b
  <2>2. prodPc \in {"tail", "len"} /\ "link" \notin pending => node # dead_head
    BY <1>c DEF TailShape
  <2>3. prodPc \in {"fence", "link", "tail", "len"} /\ node \notin Linked' => node \notin Linked
    BY <1>b, <2>2 DEF TailShape
  <2>4. QED
    BY <2>3 DEF StoreOrder
<1>4. TailShape'
  <2>1. prodPc \in {"tail", "len"} => (node \in Linked' <=> node \in Linked)
    BY <1>b, <1>c DEF TailShape
  <2>2. QED
    BY <1>0, <1>a, <1>b, <1>c, <2>1 DEF TailShape
<1>5. DequeueShape'
  <2>1. node # dead_head
    BY <1>0, <1>b, <1>c, SpscAssumption DEF TailShape, StoreOrder, TypeOK,
           ProdPcs
  <2>2. QED
    BY <1>0, <1>a, <1>b, <1>c, <2>1, SpscAssumption DEF DequeueShape, Returned
<1>6. NoLeak'
  <2>1. node_to_free = NULL
    BY DEF DequeueShape
  <2>2. QED
    BY <1>0, <1>b, <2>1, SpscAssumption DEF NoLeak
<1>7. LenAccounts'
  <2>1. LinkedNotCounted' <=> LinkedNotCounted
    BY <1>0, <1>b, <1>c, SpscAssumption DEF LinkedNotCounted, InList,
           TailShape, StoreOrder, TypeOK, ProdPcs
  <2>2. CountedOutNotMoved /\ ~CountedOutNotMoved'
    BY DEF CountedOutNotMoved
  <2>3. QED
    BY <1>0, <1>a, <2>1, <2>2 DEF LenAccounts, TypeOK
<1>8. NonEmptyIsStable'
  BY <1>0, SpscAssumption DEF NonEmptyIsStable
<1>9. QED
  BY <1>1, <1>2, <1>3, <1>4, <1>5, <1>6, <1>7, <1>8

LEMMA DequeueReturnKeeps ==
    ASSUME IInv, DequeueReturn
    PROVE  IInv'
<1> USE SpscAssumption DEF IInv, DequeueReturn, producer, history, ConsGoto
<1>0. Linked' = Linked
  BY DEF Linked
<1>1. TypeOK'
  BY <1>0 DEF TypeOK, ConsPcs
<1>2. ListShape'
  BY <1>0 DEF ListShape, Last
<1>3. StoreOrder'
  BY <1>0 DEF StoreOrder
<1>4. TailShape'
  BY <1>0 DEF TailShape, Last
<1>5. DequeueShape'
  <2>1. CASE new_head = NULL
    BY <1>0, <2>1 DEF DequeueShape, Returned, NonEmptyIsStable
  <2>2. CASE new_head # NULL
    BY <1>0, <2>2, ChainFacts DEF DequeueShape, Returned, ListShape, TailShape
  <2>3. QED
    BY <2>1, <2>2
<1>6. NoLeak'
  BY <1>0 DEF NoLeak, TypeOK, DequeueShape
<1>7. LenAccounts'
  BY <1>0 DEF LenAccounts, LinkedNotCounted, InList, CountedOutNotMoved
<1>8. NonEmptyIsStable'
  BY <1>0 DEF NonEmptyIsStable
<1>9. QED
  BY <1>1, <1>2, <1>3, <1>4, <1>5, <1>6, <1>7, <1>8

LEMMA DestroyCallKeeps ==
    ASSUME ConsumerStarts, IInv, DestroyCall
    PROVE  IInv'
<1> USE SpscAssumption DEF IInv, DestroyCall, shared, producer, history
<1>0. Linked' = Linked
  BY DEF Linked
<1>1. TypeOK'
  BY <1>0 DEF TypeOK, ConsPcs
<1>2. ListShape'
  BY <1>0 DEF ListShape, Last
<1>3. StoreOrder'
  BY <1>0 DEF StoreOrder
<1>4. TailShape'
  BY <1>0 DEF TailShape, Last
<1>5. DequeueShape'
  BY <1>0 DEF DequeueShape, Returned
<1>6. NoLeak'
  BY <1>0 DEF NoLeak
<1>7. LenAccounts'
  BY <1>0 DEF LenAccounts, LinkedNotCounted, InList, CountedOutNotMoved
<1>8. NonEmptyIsStable'
  BY <1>0 DEF NonEmptyIsStable
<1>9. QED
  BY <1>1, <1>2, <1>3, <1>4, <1>5, <1>6, <1>7, <1>8

LEMMA FreeLastKeeps ==
    ASSUME IInv, FreeLast
    PROVE  IInv'
<1> USE SpscAssumption DEF IInv, FreeLast, producer, ConsGoto, Empty
<1>0. Len(chain) = 1 /\ head = chain[1] /\ head \in Nodes
  <2>1. Len(chain) \in Nat /\ Len(chain) > 0 /\ head = chain[1] /\ head \in Nodes
    BY ChainFacts DEF ListShape, TypeOK
  <2>2. ASSUME Len(chain) > 1 PROVE FALSE
    <3>1. next[chain[1]] = chain[2] /\ chain[2] \in Nodes
      BY <2>1, <2>2, ChainFacts DEF ListShape
    <3>2. QED
      BY <2>1, <3>1
  <2>3. QED
    BY ONLY <2>1, <2>2
<1>a. chain' = <<>> /\ Len(chain') = 0 /\ Linked = {head} /\ Linked' = {}
  BY <1>0 DEF Linked
<1>1. TypeOK'
  BY <1>a DEF TypeOK, ConsPcs
<1>2. ListShape'
  BY <1>a DEF ListShape
<1>3. StoreOrder'
  BY DEF StoreOrder, TailShape
<1>4. TailShape'
  BY <1>a DEF TailShape
<1>5. DequeueShape'
  <2>1. held = NULL /\ destroying
    BY DEF DequeueShape
  <2>2. QED
    BY <1>a, <2>1 DEF DequeueShape, Returned
<1>6. NoLeak'
  <2>1. node = NULL /\ node_to_free = NULL
    BY DEF StoreOrder, TailShape, DequeueShape
  <2>2. QED
    BY <1>a, <2>1 DEF NoLeak
<1>7. LenAccounts'
  BY  DEF LenAccounts, LinkedNotCounted, InList, CountedOutNotMoved
<1>8. NonEmptyIsStable'
  BY  DEF NonEmptyIsStable
<1>9. QED
  BY <1>1, <1>2, <1>3, <1>4, <1>5, <1>6, <1>7, <1>8

-----------------------------------------------------------------------------

LEMMA NextIInv == ASSUME ConsumerStarts PROVE IInv /\ [Next]_vars => IInv'
<1> SUFFICES ASSUME IInv, [Next]_vars PROVE IInv'
  OBVIOUS
<1>1. CASE \E n \in Nodes, v \in Data : EnqueueCall(n, v)
  BY <1>1, EnqueueCallKeeps
<1>2. CASE InitNext
  BY <1>2, InitNextKeeps
<1>3. CASE WriteBarrier
  BY <1>3, WriteBarrierKeeps
<1>4. CASE LinkNode
  BY <1>4, LinkNodeKeeps
<1>5. CASE MoveTail
  BY <1>5, MoveTailKeeps
<1>6. CASE IncLen
  BY <1>6, IncLenKeeps
<1>7. CASE PrintData
  BY <1>7, PrintDataKeeps
<1>8. CASE StopProducer
  BY <1>8, StopProducerKeeps
<1>9. CASE FlushData
  BY <1>9, FlushDataKeeps
<1>10. CASE FlushNext
  BY <1>10, FlushNextKeeps
<1>11. CASE FlushLink
  BY <1>11, FlushLinkKeeps
<1>12. CASE FlushTail
  BY <1>12, FlushTailKeeps
<1>13. CASE QueryEmpty
  BY <1>13, QueryEmptyKeeps
<1>14. CASE DequeueCall
  BY <1>14, DequeueCallKeeps
<1>15. CASE LoadNextNull
  BY <1>15, LoadNextNullKeeps
<1>16. CASE LoadNextNode
  BY <1>16, LoadNextNodeKeeps
<1>17. CASE DecLen
  BY <1>17, DecLenKeeps
<1>18. CASE MoveHead
  BY <1>18, MoveHeadKeeps
<1>19. CASE DequeueReturn
  BY <1>19, DequeueReturnKeeps
<1>20. CASE DestroyCall
  BY <1>20, DestroyCallKeeps
<1>21. CASE FreeLast
  BY <1>21, FreeLastKeeps
<1>22. CASE UNCHANGED vars
  BY <1>22 DEF vars, shared, producer, consumer, history, IInv, TypeOK, ListShape,
         StoreOrder, TailShape, DequeueShape, NoLeak, LenAccounts,
         NonEmptyIsStable, Linked, Last, Returned, InList, LinkedNotCounted,
         CountedOutNotMoved
<1>23. QED
  BY <1>1, <1>2, <1>3, <1>4, <1>5, <1>6, <1>7, <1>8, <1>9, <1>10, <1>11,
     <1>12, <1>13, <1>14, <1>15, <1>16, <1>17, <1>18, <1>19, <1>20, <1>21, <1>22
     DEF Next, ProducerStep, FlushStep, ConsumerStep, Done

(* The list, the stores on their way and the locals of both threads agree  *)
(* as IInv says in every reachable state, for any memory and any data.     *)
THEOREM Invariance == ASSUME ConsumerStarts PROVE Spec => []IInv
<1>1. Init => IInv
  BY InitIInv
<1>2. IInv /\ [Next]_vars => IInv'
  BY NextIInv
<1>3. QED
  BY <1>1, <1>2, PTL DEF Spec

(* Every variable keeps its type; in particular no thread ever follows a   *)
(* pointer that was not stored.                                            *)
THEOREM TypeCorrect == ASSUME ConsumerStarts PROVE Spec => []TypeOK
<1>1. IInv => TypeOK
  BY DEF IInv
<1>2. QED
  BY <1>1, Invariance, PTL

(* Neither thread touches a freed node, although nothing but the order of  *)
(* its stores keeps the producer off the nodes the consumer frees.         *)
THEOREM NoUseAfterFree == ASSUME ConsumerStarts PROVE Spec => []MemorySafe
<1>1. IInv => MemorySafe
  <2> SUFFICES ASSUME IInv PROVE MemorySafe
    OBVIOUS
  <2> USE SpscAssumption DEF IInv
  <2>1. Linked \subseteq alloc
    BY DEF NoLeak
  <2>2. Len(chain) > 0 => Last \in Linked /\ chain[1] \in Linked
    BY ChainFacts DEF Last
  <2>3. consPc # "destroyed" => Len(chain) > 0 /\ head \in alloc
    BY <2>1, <2>2, ChainFacts DEF ListShape
  <2>4. prodPc # "stopped" => Len(chain) > 0
    BY <2>3 DEF TailShape
  <2>5. prodPc = "link" => tail \in alloc
    BY <2>1, <2>2, <2>4 DEF TailShape
  <2>6. "link" \in pending => prev \in alloc
    <3>1. "link" \in pending => prodPc \in {"tail", "len"}
      BY DEF StoreOrder, TypeOK, ProdPcs
    <3>2. QED
      BY <3>1, <2>1, <2>2, <2>4 DEF TailShape
  <2>7. node # NULL => node \in alloc
    BY DEF NoLeak
  <2>8. pending \cap {"data", "next"} # {} => node \in alloc
    BY <2>7, PendingUnlinked
  <2>9. prodPc = "print" => node \in alloc
    BY <2>7 DEF StoreOrder
  <2>10. consPc = "load" => dead_head \in alloc
    BY <2>1, <2>2, <2>3 DEF DequeueShape
  <2>11. node_to_free # NULL => node_to_free \in alloc
    BY DEF NoLeak
  <2>12. QED
    BY <2>3, <2>5, <2>6, <2>8, <2>9, <2>10, <2>11 DEF MemorySafe
<1>2. QED
  BY <1>1, Invariance, PTL

(* What the consumer was handed, and what the producer handed over last,   *)
(* stays allocated and unchanged while they may still read it.             *)
THEOREM DataIntact == ASSUME ConsumerStarts PROVE Spec => []HeldIntact
<1>1. IInv => HeldIntact
  <2> SUFFICES ASSUME IInv PROVE HeldIntact
    OBVIOUS
  <2> USE SpscAssumption DEF IInv
  <2>1. Len(chain) > 0 => Last \in alloc /\ chain[1] \in alloc
    BY ChainFacts DEF Last, NoLeak
  <2>2. Returned # NULL => Len(chain) > 0 /\ Returned = chain[1]
    BY ChainFacts DEF DequeueShape, Returned, ListShape
  <2>3. prodPc = "print" => node \in alloc /\ data[node] = val
    BY DEF StoreOrder, NoLeak
  <2>4. QED
    BY <2>1, <2>2, <2>3 DEF DequeueShape, HeldIntact
<1>2. QED
  BY <1>1, Invariance, PTL

(* Every node is freed exactly once.                                       *)
THEOREM FreedOnce == ASSUME ConsumerStarts PROVE Spec => []NoLeak
<1>1. IInv => NoLeak
  BY DEF IInv
<1>2. QED
  BY <1>1, Invariance, PTL

(* The counter is off by the two windows of LenAccounts and no more.       *)
THEOREM LenIsAccounted == ASSUME ConsumerStarts PROVE Spec => []LenAccounts
<1>1. IInv => LenAccounts
  BY DEF IInv
<1>2. QED
  BY <1>1, Invariance, PTL

(* What spsc_queue_empty promises the consumer, the next dequeue keeps.    *)
THEOREM NonEmptyStays == ASSUME ConsumerStarts PROVE Spec => []NonEmptyIsStable
<1>1. IInv => NonEmptyIsStable
  BY DEF IInv
<1>2. QED
  BY <1>1, Invariance, PTL
=============================================================================

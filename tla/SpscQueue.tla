----------------------------- MODULE SpscQueue -----------------------------
(***************************************************************************)
(* spsc_queue.h: the single-producer single-consumer linked queue, with    *)
(* the callers its example and its C++ wrapper (spsc_queue.hxx) make of    *)
(* it: a producer that allocates a node, fills it, enqueues it and prints  *)
(* it; a consumer that dequeues, frees the dead node and goes on using the *)
(* data of the node it was handed; and a final destroy.                    *)
(*                                                                         *)
(* One action is one access to shared memory.  The stores of an enqueue    *)
(* are issued in program order into `pending' and reach memory in any      *)
(* order, except that smp_wmb() and the LOCKed increment wait until none   *)
(* is pending.  That is what the barriers of x86/barrier.h are written     *)
(* for; an x86 store buffer drains in issue order, one of these orders.    *)
(* The consumer's only store to memory that the producer reads is the      *)
(* LOCKed decrement, and its two loads are ordered by the pointer that the *)
(* first one returns (smp_rmb() orders them too), so they take effect at   *)
(* once.                                                                   *)
(***************************************************************************)
EXTENDS Integers, Sequences

CONSTANTS Nodes,     \* the memory that malloc can hand out for nodes
          Data,      \* the user data
          NULL,
          Garbage,   \* the contents of memory that was never written
          ConsumerStarts   \* pthread_create of the consumer succeeds

ASSUME SpscAssumption ==
    /\ NULL \notin Nodes
    /\ NULL \notin Data
    /\ Garbage \notin Nodes \cup Data \cup {NULL}
    /\ ConsumerStarts \in BOOLEAN

VARIABLES
  (* struct spsc_queue, the nodes, and the allocator. *)
  head, tail, len,
  next,          \* spscq_node.next
  data,          \* the user data in the structure that embeds the node
  alloc,         \* the nodes that are allocated
  (* The producer: its place in the call, and spsc_enqueue's variables. *)
  prodPc, node,
  val,           \* the data of this enqueue
  prev,          \* the q->tail that q->tail->next is stored through
  pending,       \* stores of this enqueue that have not reached memory
  (* The consumer: its place in the call, and spsc_dequeue's variables. *)
  consPc, dead_head, new_head, node_to_free,
  held,          \* the node the last successful dequeue returned
  sawItem,       \* spsc_queue_empty() was false and no dequeue followed
  destroying,    \* the consumer is inside spsc_queue_destroy
  (* Auxiliary: the nodes from the dummy to the last one linked, what was  *)
  (* dequeued with held, and FifoQueue's sawEmpty.                         *)
  chain, heldVal, sawEmpty

shared   == <<head, tail, len, next, data, alloc>>
producer == <<prodPc, node, val, prev, pending>>
consumer == <<consPc, dead_head, new_head, node_to_free, held, sawItem,
              destroying>>
history  == <<chain, heldVal, sawEmpty>>
vars     == <<shared, producer, consumer, history>>

Stores  == {"data", "next", "link", "tail"}
ProdPcs == {"idle", "init", "fence", "link", "tail", "len", "print",
            "stopped"}
ConsPcs == {"idle", "load", "dec", "move", "return", "destroyed"}

\* spsc_queue_init, before the two threads start: node is the dummy.
Init ==
    /\ head \in Nodes
    /\ tail = head
    /\ len = 0
    /\ next = [n \in Nodes |-> IF n = head THEN NULL ELSE Garbage]
    /\ data = [n \in Nodes |-> Garbage]
    /\ alloc = {head}
    /\ prodPc = "idle" /\ node = NULL /\ val = NULL /\ prev = NULL
    /\ pending = {}
    /\ consPc = "idle" /\ dead_head = NULL /\ new_head = NULL
    /\ node_to_free = NULL /\ held = NULL
    /\ sawItem = FALSE /\ destroying = FALSE
    /\ chain = <<head>> /\ heldVal = NULL /\ sawEmpty = FALSE

-----------------------------------------------------------------------------

\* The next statement of the producer, of the consumer.
ProdGoto(from, to) == prodPc = from /\ prodPc' = to
ConsGoto(from, to) == consPc = from /\ consPc' = to

(* Faults, one for each property below: what it takes to break it.  No     *)
(* action of the specification uses them.                                  *)

\* node->next = NULL is missing.
InitNextMissing ==
    /\ ProdGoto("init", "fence")
    /\ UNCHANGED <<shared, node, val, prev, pending, consumer, history>>

\* smp_wmb() is missing.
WriteBarrierMissing ==
    /\ ProdGoto("fence", "link")
    /\ UNCHANGED <<shared, node, val, prev, pending, consumer, history>>

\* q->head->next = node.
LinkNodeToHead ==
    /\ ProdGoto("link", "tail")
    /\ prev' = head
    /\ pending' = pending \cup {"link"}
    /\ UNCHANGED <<shared, node, val, consumer, history>>

\* The producer waits until the consumer has taken the last node.
LinkNodeWhenTaken ==
    /\ ProdGoto("link", "tail")
    /\ tail = head
    /\ prev' = tail
    /\ pending' = pending \cup {"link"}
    /\ UNCHANGED <<shared, node, val, consumer, history>>

\* q->tail = node is missing.
MoveTailMissing ==
    /\ ProdGoto("tail", "len")
    /\ UNCHANGED <<shared, node, val, prev, pending, consumer, history>>

\* The queue is empty when head and tail meet; the test is negated.
EmptyByTail == head = tail
EmptyNegated == next[head] # NULL

\* The counter is decremented before the test for an empty queue.
LoadNextNullCounted ==
    /\ ConsGoto("load", "return")
    /\ next[dead_head] = NULL
    /\ new_head' = NULL /\ node_to_free' = NULL
    /\ len' = len - 1
    /\ sawEmpty' = FALSE
    /\ UNCHANGED <<head, tail, next, data, alloc, producer, dead_head, held,
                   sawItem, destroying, chain, heldVal>>

\* The consumer waits until there is a node.
LoadNextNullAgain ==
    /\ ConsGoto("load", "load")
    /\ next[dead_head] = NULL
    /\ UNCHANGED <<shared, producer, dead_head, new_head, node_to_free, held,
                   sawItem, destroying, history>>

\* *node_to_free = new_head.
MoveHeadFreesNew ==
    /\ ConsGoto("move", "return")
    /\ head' = new_head
    /\ node_to_free' = new_head
    /\ chain' = Tail(chain)
    /\ heldVal' = data[new_head]
    /\ sawEmpty' = FALSE
    /\ UNCHANGED <<tail, len, next, data, alloc, producer, dead_head,
                   new_head, held, sawItem, destroying>>

\* destroy forgets the dummy.
FreeLastMissing ==
    /\ ConsGoto("idle", "destroyed")
    /\ destroying
    /\ next[head] = NULL
    /\ chain' = <<>>
    /\ UNCHANGED <<shared, producer, dead_head, new_head, node_to_free, held,
                   sawItem, destroying, heldVal, sawEmpty>>

-----------------------------------------------------------------------------
(* The producer: spsc_enqueue.                                             *)

\* Allocate a node, whose contents are indeterminate, and store the data in it.
EnqueueCall(n, v) ==
    /\ ProdGoto("idle", "init")
    /\ n \in Nodes \ alloc
    /\ alloc' = alloc \cup {n}
    /\ next' = [next EXCEPT ![n] = Garbage]
    /\ data' = [data EXCEPT ![n] = Garbage]
    /\ node' = n /\ val' = v
    /\ pending' = {"data"}
    /\ UNCHANGED <<head, tail, len, prev, consumer, history>>

\* node->next = NULL;
InitNext ==
    /\ ProdGoto("init", "fence")
    /\ pending' = pending \cup {"next"}
    /\ UNCHANGED <<shared, node, val, prev, consumer, history>>

\* smp_wmb();
WriteBarrier ==
    /\ ProdGoto("fence", "link")
    /\ pending = {}
    /\ UNCHANGED <<shared, node, val, prev, pending, consumer, history>>

\* q->tail->next = node;
LinkNode ==
    /\ ProdGoto("link", "tail")
    /\ prev' = tail
    /\ pending' = pending \cup {"link"}
    /\ UNCHANGED <<shared, node, val, consumer, history>>

\* q->tail = node;
MoveTail ==
    /\ ProdGoto("tail", "len")
    /\ pending' = pending \cup {"tail"}
    /\ UNCHANGED <<shared, node, val, prev, consumer, history>>

\* atomic_inc(&q->len); and return.  The LOCK prefix drains the store buffer.
IncLen ==
    /\ ProdGoto("len", "print")
    /\ pending = {}
    /\ len' = len + 1
    /\ prev' = NULL
    /\ UNCHANGED <<head, tail, next, data, alloc, node, val, pending, consumer,
                   history>>

\* printf(... ustruct->user_data): the caller reads the node it gave away.
PrintData ==
    /\ ProdGoto("print", "idle")
    /\ node' = NULL /\ val' = NULL
    /\ UNCHANGED <<shared, prev, pending, consumer, history>>

\* The producer thread ends (and is joined) between two enqueues.
StopProducer ==
    /\ ProdGoto("idle", "stopped")
    /\ UNCHANGED <<shared, node, val, prev, pending, consumer, history>>

(* A store of the enqueue reaches memory. *)
Flush(store) ==
    /\ store \in pending
    /\ pending' = pending \ {store}
    /\ UNCHANGED <<prodPc, node, val, prev, consumer, head, len, alloc>>

FlushData ==
    /\ Flush("data")
    /\ data' = [data EXCEPT ![node] = val]
    /\ UNCHANGED <<tail, next, history>>

FlushNext ==
    /\ Flush("next")
    /\ next' = [next EXCEPT ![node] = NULL]
    /\ UNCHANGED <<tail, data, history>>

FlushLink ==
    /\ Flush("link")
    /\ next' = [next EXCEPT ![prev] = node]
    /\ chain' = Append(chain, node)
    /\ UNCHANGED <<tail, data, heldVal, sawEmpty>>

FlushTail ==
    /\ Flush("tail")
    /\ tail' = node
    /\ UNCHANGED <<next, data, history>>

-----------------------------------------------------------------------------
(* The consumer: spsc_queue_empty, spsc_dequeue, spsc_queue_destroy.       *)

\* The result of spsc_queue_empty.
Empty == next[head] = NULL

QueryEmpty ==
    /\ consPc = "idle" /\ ~destroying
    /\ ConsumerStarts
    /\ sawItem' = ~Empty
    /\ UNCHANGED <<shared, producer, consPc, dead_head, new_head,
                   node_to_free, held, destroying, history>>

\* dead_head = q->head; smp_rmb();  In destroy's loop only while not empty.
DequeueCall ==
    /\ ConsGoto("idle", "load")
    /\ IF destroying THEN ~Empty ELSE ConsumerStarts
    /\ dead_head' = head
    /\ sawEmpty' = (Len(chain) = 1)
    /\ UNCHANGED <<shared, producer, new_head, node_to_free, held, sawItem,
                   destroying, chain, heldVal>>

\* new_head = dead_head->next; if (!new_head) { *node_to_free = NULL; ... }
LoadNextNull ==
    /\ ConsGoto("load", "return")
    /\ next[dead_head] = NULL
    /\ new_head' = NULL
    /\ node_to_free' = NULL
    /\ sawEmpty' = FALSE
    /\ UNCHANGED <<shared, producer, dead_head, held, sawItem, destroying,
                   chain, heldVal>>

LoadNextNode ==
    /\ ConsGoto("load", "dec")
    /\ next[dead_head] # NULL
    /\ new_head' = next[dead_head]
    /\ UNCHANGED <<shared, producer, dead_head, node_to_free, held, sawItem,
                   destroying, history>>

\* atomic_dec(&q->len);
DecLen ==
    /\ ConsGoto("dec", "move")
    /\ len' = len - 1
    /\ UNCHANGED <<head, tail, next, data, alloc, producer, dead_head,
                   new_head, node_to_free, held, sawItem, destroying, history>>

\* q->head = new_head; *node_to_free = dead_head;
MoveHead ==
    /\ ConsGoto("move", "return")
    /\ head' = new_head
    /\ node_to_free' = dead_head
    /\ chain' = Tail(chain)
    /\ heldVal' = data[new_head]
    /\ sawEmpty' = FALSE
    /\ UNCHANGED <<tail, len, next, data, alloc, producer, dead_head,
                   new_head, held, sawItem, destroying>>

\* The caller: if (pfree) delete pfree; the returned data is the user's from
\* here on.  Destroy drops what it dequeues.
DequeueReturn ==
    /\ ConsGoto("return", "idle")
    /\ alloc' = alloc \ {node_to_free}
    /\ held' = IF new_head = NULL \/ destroying THEN held ELSE new_head
    /\ sawItem' = FALSE
    /\ dead_head' = NULL /\ new_head' = NULL /\ node_to_free' = NULL
    /\ UNCHANGED <<head, tail, len, next, data, producer, destroying, history>>

\* spsc_queue_destroy starts, after the producer was joined; or, if there is
\* no consumer, while the producer runs (example_spsc_queue.c:126).
DestroyCall ==
    /\ consPc = "idle" /\ ~destroying
    /\ ConsumerStarts => prodPc = "stopped"
    /\ destroying' = TRUE
    /\ held' = NULL
    /\ UNCHANGED <<shared, producer, consPc, dead_head, new_head,
                   node_to_free, sawItem, history>>

\* The loop has ended: free_node(q->head).
FreeLast ==
    /\ ConsGoto("idle", "destroyed")
    /\ destroying
    /\ Empty
    /\ alloc' = alloc \ {head}
    /\ chain' = <<>>
    /\ UNCHANGED <<head, tail, len, next, data, producer, dead_head, new_head,
                   node_to_free, held, sawItem, destroying, heldVal, sawEmpty>>

\* Both threads have ended.
Done == consPc = "destroyed" /\ UNCHANGED vars

-----------------------------------------------------------------------------

ProducerStep == \/ InitNext \/ WriteBarrier \/ LinkNode \/ MoveTail
                \/ IncLen \/ PrintData
FlushStep    == FlushData \/ FlushNext \/ FlushLink \/ FlushTail
ConsumerStep == \/ LoadNextNull \/ LoadNextNode \/ DecLen \/ MoveHead
                \/ DequeueReturn

Next ==
    \/ \E n \in Nodes, v \in Data : EnqueueCall(n, v)
    \/ ProducerStep
    \/ StopProducer
    \/ FlushStep
    \/ QueryEmpty
    \/ DequeueCall
    \/ ConsumerStep
    \/ DestroyCall
    \/ FreeLast
    \/ Done

Spec == Init /\ [][Next]_vars

(* The stores of an enqueue reach memory eventually, whatever the threads  *)
(* do: that is the hardware's.                                             *)
StoresDrain == /\ WF_vars(FlushData) /\ WF_vars(FlushNext)
               /\ WF_vars(FlushLink) /\ WF_vars(FlushTail)

(* The producer, the consumer, is scheduled while it is inside a call.     *)
ProducerRuns == StoresDrain /\ WF_vars(ProducerStep)
ConsumerRuns == WF_vars(ConsumerStep)

(* Both are, and the consumer polls in a loop.                             *)
BothRun == /\ ProducerRuns /\ ConsumerRuns
           /\ WF_vars(DequeueCall) /\ WF_vars(FreeLast)

-----------------------------------------------------------------------------
(* Properties.                                                             *)

TypeOK ==
    /\ head \in Nodes /\ tail \in Nodes
    /\ len \in Int
    /\ next \in [Nodes -> Nodes \cup {NULL, Garbage}]
    /\ data \in [Nodes -> Data \cup {Garbage}]
    /\ alloc \subseteq Nodes
    /\ prodPc \in ProdPcs
    /\ node \in Nodes \cup {NULL}
    /\ val \in Data \cup {NULL}
    /\ prev \in Nodes \cup {NULL}
    /\ pending \subseteq Stores
    /\ consPc \in ConsPcs
    /\ dead_head \in Nodes \cup {NULL}
    /\ new_head \in Nodes \cup {NULL}
    /\ node_to_free \in Nodes \cup {NULL}
    /\ held \in Nodes \cup {NULL}
    /\ sawItem \in BOOLEAN /\ destroying \in BOOLEAN
    /\ chain \in Seq(Nodes)
    /\ heldVal \in Data \cup {NULL}
    /\ sawEmpty \in BOOLEAN

\* The nodes of the list, the dummy included.
Linked == {chain[i] : i \in 1..Len(chain)}

(* No access of either thread touches freed memory, although the consumer  *)
(* frees the old head while the producer may not have moved q->tail off it *)
(* yet: every node the next statement of a thread dereferences, and every  *)
(* node a pending store goes to, is allocated.  (Lines 144-150, 166-183.)  *)
MemorySafe ==
    /\ prodPc = "link" => tail \in alloc
    /\ "link" \in pending => prev \in alloc
    /\ pending \cap {"data", "next"} # {} => node \in alloc
    /\ consPc # "destroyed" => head \in alloc
    /\ prodPc = "print" => node \in alloc
    /\ consPc = "load" => dead_head \in alloc
    /\ node_to_free # NULL => node_to_free \in alloc

\* The node that belongs to the consumer: the one last handed out.
Returned == IF consPc = "return" /\ new_head # NULL THEN new_head ELSE held

(* What the consumer was given stays intact until its next successful      *)
(* dequeue: the data it reads through the returned pointer is the data     *)
(* that was dequeued, even after the dead node was freed and recycled by   *)
(* the producer.  And the node that the producer gave away stays intact    *)
(* until its next enqueue.  (spsc_queue.hxx:39-51, example_spsc_queue.c:   *)
(* 64-66, 82-94.)                                                          *)
HeldIntact ==
    /\ Returned # NULL => Returned \in alloc /\ data[Returned] = heldVal
    /\ prodPc = "print" => node \in alloc /\ data[node] = val

(* Every node is freed exactly once: what is allocated is the list, the    *)
(* node being enqueued and the dead node about to be freed, so that        *)
(* nothing is left after destroy.  (spsc_queue_destroy, ~SpscQueue.)       *)
NoLeak ==
    alloc = Linked
            \cup (IF node # NULL THEN {node} ELSE {})
            \cup (IF node_to_free # NULL THEN {node_to_free} ELSE {})

\* The steps between the link and atomic_inc, atomic_dec and the new head.
InList == node # NULL /\ node \in Linked
LinkedNotCounted == InList /\ prodPc # "print"
CountedOutNotMoved == consPc = "move"

(* q->len is the number of queued nodes but for the two windows in which   *)
(* the list and the counter disagree: it is exact whenever both threads    *)
(* are between calls, and never below -1.  (Lines 152, 178, 212-218.)      *)
LenAccounts ==
    consPc # "destroyed" =>
        len = (Len(chain) - 1)
              - (IF LinkedNotCounted THEN 1 ELSE 0)
              - (IF CountedOutNotMoved THEN 1 ELSE 0)

(* Once the consumer saw spsc_queue_empty() return false, its next         *)
(* dequeue returns a node; the loops of destroy and of ~SpscQueue rest on  *)
(* that.  (Lines 125-132, 172-175.)                                        *)
NonEmptyIsStable ==
    consPc = "return" /\ new_head = NULL => ~sawItem /\ ~destroying

(* The queue is a linearizable FIFO queue: an enqueue takes effect when    *)
(* the link reaches memory, a dequeue when the head moves or when it reads *)
(* a NULL next.                                                            *)
Fifo == INSTANCE FifoQueue WITH
    Threads <- {"producer", "consumer"},
    NoData <- NULL,
    queue <- [i \in 1..(IF chain = <<>> THEN 0 ELSE Len(chain) - 1) |->
                  data[chain[i + 1]]],
    phase <- [t \in {"producer", "consumer"} |->
        IF t = "producer"
        THEN IF prodPc \in {"idle", "stopped"} THEN "idle"
             ELSE IF InList THEN "enqueued" ELSE "enqueuing"
        ELSE IF consPc \in {"idle", "destroyed"} THEN "idle"
             ELSE IF consPc = "return" THEN "dequeued" ELSE "dequeuing"],
    arg <- [t \in {"producer", "consumer"} |->
        IF t = "producer"
        THEN IF node = NULL \/ InList THEN NULL ELSE val
        ELSE IF consPc = "return" /\ new_head # NULL THEN data[new_head]
                                                     ELSE NULL],
    sawEmpty <- IF sawEmpty THEN {"consumer"} ELSE {}

IsFifo == Fifo!FifoSpec

(* Neither thread ever waits for the other: an enqueue returns even if the *)
(* consumer stops for ever inside a dequeue, and the other way round.      *)
(* ("Producer and consumer can concurrently/parallely work on the queue    *)
(* without protection by locks", lines 10-11.)                             *)
EnqueueReturns == ProducerRuns => ((prodPc = "init") ~> (prodPc = "idle"))
DequeueReturns == ConsumerRuns => ((consPc = "load") ~> (consPc = "idle"))

(* Every node that is linked gets to the consumer.  (Lines 138-186.)       *)
Delivery ==
    BothRun => \A n \in Nodes : (n \in Linked /\ n # head) ~> (head = n)

(* spsc_queue_destroy ends.  (Lines 195-209.)                              *)
DestroyEnds == BothRun => (destroying ~> (consPc = "destroyed"))
=============================================================================

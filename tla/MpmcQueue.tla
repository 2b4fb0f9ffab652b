----------------------------- MODULE MpmcQueue -----------------------------
(***************************************************************************)
(* mpmc_queue.h: the lock-free queue of Michael and Scott, for any number  *)
(* of producers and consumers, and ~MpmcQueue, which repeats the loop of   *)
(* mpmc_queue_destroy.                                                     *)
(*                                                                         *)
(* One action is one access to memory that another thread can reach, so    *)
(* the two words of a versioned pointer are read in two steps (vp_assign,  *)
(* vp_equal) and only double_cmp_and_swap handles both at once.  The       *)
(* accesses of a thread take effect in program order: the stores of an     *)
(* enqueue are separated from its link by the LOCK prefix of               *)
(* double_cmp_and_swap, and x86 does not reorder loads.                    *)
(*                                                                         *)
(* A dequeued node goes back to MCT_FREE at once, while other threads may  *)
(* still hold its address.  What they read there is no longer the queue's: *)
(* MCT_FREE leaves the contents or overwrites them, and like free() it may *)
(* store a NULL where the next pointer was (Overwritten).  When MCT_MALLOC *)
(* hands the node out again is up to the user, who chooses both routines:  *)
(* Recycle is TRUE for malloc, which may do so at any time, and FALSE for  *)
(* an allocator that waits until no call in progress holds the address as  *)
(* the head or the tail it has read.                                       *)
(***************************************************************************)
EXTENDS Integers, Sequences, FiniteSets

CONSTANTS Producers, Consumers,  \* the threads that enqueue, that dequeue,
          Askers, Destroyers,    \* that ask mpmc_queue_empty, that destroy
          Nodes, Data,
          NULL,
          Garbage,               \* a word the allocator left behind
          Recycle,               \* MCT_MALLOC reuses nodes that are held
          Versions,              \* 2^w, for versions of w bits
          MaxEnqueues            \* a bound on the number of enqueues

Threads == Producers \cup Consumers \cup Askers \cup Destroyers

ASSUME MpmcAssumption ==
    /\ NULL \notin Nodes \cup Data
    /\ Garbage \notin Nodes \cup Data \cup {NULL}
    /\ Recycle \in BOOLEAN
    /\ Versions \in Nat \ {0}
    /\ MaxEnqueues \in Nat
    /\ NULL \notin Threads

VARIABLES
  (* struct mpmc_queue, the nodes, and the allocator. *)
  head, tail,              \* versioned pointers
  len,
  next,                    \* mpmcq_node.next, a versioned pointer
  user_data,               \* mpmcq_node.user_data
  heap,                    \* "fresh", "live" or "freed"
  (* The threads: place in the code and the variables of the call. *)
  pc, node,
  myhead, mytail, mynext,  \* the locals head, tail, next
  mydata,                  \* data, p_user_data
  destroyer,               \* the thread in mpmc_queue_destroy, or NULL
  (* Auxiliary: the nodes in the list, from the dummy to the last linked,  *)
  (* FifoQueue's sawEmpty, and the number of enqueues.                     *)
  chain, sawEmpty, enqueues

shared  == <<head, tail, len, next, user_data, heap>>
locals  == <<pc, node, myhead, mytail, mynext, mydata, destroyer>>
history == <<chain, sawEmpty, enqueues>>
vars    == <<shared, locals, history>>

\* Where an enqueue has not linked its node, and where it has.
EnqueuePcs == {"e_initptr", "e_initver", "e_tailp", "e_tailv", "e_nextp",
               "e_nextv", "e_chkp", "e_chkv", "e_link", "e_help"}
EnqueuedPcs == {"e_swing", "e_inc"}
\* Where a dequeue has not swung the head, and where it has.
DequeuePcs == {"d_headp", "d_headv", "d_tailp", "d_tailv", "d_nextp",
               "d_nextv", "d_chkp", "d_chkv", "d_help", "d_data", "d_swing",
               "d_null"}
DequeuedPcs == {"d_dec", "d_free"}
\* Between the two loads of mpmc_queue_empty.
EmptyPcs == {"m_next"}

VP(p, v) == [ptr |-> p, version |-> v]
Unset == VP(NULL, 0)

\* An unsigned long wraps around.
NextVersion(v) == (v + 1) % Versions

\* mpmc_queue_init: the queue holds a dummy node.
Init ==
    /\ \E dummy \in Nodes :
          /\ head = VP(dummy, 0)
          /\ tail = VP(dummy, 0)
          /\ next = [n \in Nodes |-> IF n = dummy THEN VP(NULL, 0)
                                                  ELSE VP(Garbage, 0)]
          /\ heap = [n \in Nodes |-> IF n = dummy THEN "live" ELSE "fresh"]
          /\ chain = <<dummy>>
    /\ user_data = [n \in Nodes |-> Garbage]
    /\ len = 0
    /\ pc = [t \in Threads |-> "idle"]
    /\ node = [t \in Threads |-> NULL]
    /\ myhead = [t \in Threads |-> Unset]
    /\ mytail = [t \in Threads |-> Unset]
    /\ mynext = [t \in Threads |-> Unset]
    /\ mydata = [t \in Threads |-> NULL]
    /\ destroyer = NULL
    /\ sawEmpty = {}
    /\ enqueues = 0

-----------------------------------------------------------------------------

Goto(t, from, to) ==
    /\ pc[t] = from
    /\ pc' = [pc EXCEPT ![t] = to]
    /\ UNCHANGED destroyer

\* The caller of t may start an operation: mpmc_queue_destroy "must be called
\* exclusively".
Open == destroyer = NULL

\* The pointers t has read are not used again: they are loaded anew first.
ForgetPointers(t) ==
    /\ myhead' = [myhead EXCEPT ![t] = Unset]
    /\ mytail' = [mytail EXCEPT ![t] = Unset]
    /\ mynext' = [mynext EXCEPT ![t] = Unset]

\* The loop of an operation starts over, after a check or a swap that failed
\* (which left the current value in its local) or after helping.
Retry(t, from) ==
    /\ Goto(t, from, IF from \in EnqueuePcs THEN "e_tailp" ELSE "d_headp")
    /\ ForgetPointers(t)
    /\ mydata' = [mydata EXCEPT ![t] = IF from \in EnqueuePcs THEN @ ELSE NULL]
    /\ UNCHANGED node

\* The call of t is over, and its locals are gone.
ReturnFrom(t, from) ==
    /\ Goto(t, from, "idle")
    /\ node' = [node EXCEPT ![t] = NULL]
    /\ ForgetPointers(t)
    /\ mydata' = [mydata EXCEPT ![t] = NULL]

\* A call in progress has read the address of n as head.ptr or tail.ptr.
Held(n) == \E t \in Threads : n \in {myhead[t].ptr, mytail[t].ptr}

\* An enqueue has read p in the next of n, found n to be the tail, and is not
\* back from the swap that compares p.
AboutToSwap(n, p) ==
    \E t \in Threads : /\ pc[t] \in {"e_chkv", "e_link"}
                        /\ mytail[t].ptr = n /\ mynext[t] = p

\* What MCT_FREE may write over the next of n: anything, NULL included, but
\* the very pair that such an enqueue compares with.
Overwritten(n) ==
    {VP(Garbage, 0)}
    \cup {p \in {VP(NULL, v) : v \in 0..(Versions - 1)} : ~AboutToSwap(n, p)}

\* What MCT_MALLOC may return.
Available == {n \in Nodes : \/ heap[n] = "fresh"
                            \/ heap[n] = "freed" /\ (Recycle \/ ~Held(n))}

(* vp_assign and vp_equal, one word at a time: `from' is the place of the  *)
(* access.  A failed comparison goes back to the top of the loop.          *)
ReadTailPtr(t, from, to) ==
    /\ Goto(t, from, to)
    /\ mytail' = [mytail EXCEPT ![t].ptr = tail.ptr]
    /\ UNCHANGED <<shared, node, myhead, mynext, mydata, history>>

ReadTailVersion(t, from, to) ==
    /\ Goto(t, from, to)
    /\ mytail' = [mytail EXCEPT ![t].version = tail.version]
    /\ UNCHANGED <<shared, node, myhead, mynext, mydata, history>>

ReadHeadPtr(t, from, to) ==
    /\ Goto(t, from, to)
    /\ myhead' = [myhead EXCEPT ![t].ptr = head.ptr]
    /\ UNCHANGED <<shared, node, mytail, mynext, mydata, history>>

ReadHeadVersion(t, from, to) ==
    /\ Goto(t, from, to)
    /\ myhead' = [myhead EXCEPT ![t].version = head.version]
    /\ UNCHANGED <<shared, node, mytail, mynext, mydata, history>>

ReadNextPtr(t, of, from, to) ==
    /\ Goto(t, from, to)
    /\ mynext' = [mynext EXCEPT ![t].ptr = next[of].ptr]
    /\ UNCHANGED <<shared, node, myhead, mytail, mydata, history>>

ReadNextVersion(t, of, from, to) ==
    /\ Goto(t, from, to)
    /\ mynext' = [mynext EXCEPT ![t].version = next[of].version]
    /\ UNCHANGED <<shared, node, myhead, mytail, mydata, history>>

Compare(t, mine, current, from, to) ==
    /\ \/ /\ mine = current
          /\ Goto(t, from, to)
          /\ UNCHANGED <<node, myhead, mytail, mynext, mydata>>
       \/ /\ mine # current
          /\ Retry(t, from)
    /\ UNCHANGED <<shared, history>>

\* double_cmp_and_swap(&q->tail, &tail, &pnode), with pnode.ptr = p.
SwapTail(t, p) ==
    tail' = IF tail = mytail[t] THEN VP(p, NextVersion(mytail[t].version)) ELSE tail

(* Faults, one for each property below: what it takes to break it.  No     *)
(* action of the specification uses them.                                  *)

\* node->next.ptr = NULL is missing.
InitNextPtrMissing(t) ==
    /\ Goto(t, "e_initptr", "e_initver")
    /\ UNCHANGED <<shared, node, myhead, mytail, mynext, mydata, history>>

\* An enqueue that finds the tail behind waits for the thread that left it.
EnqueueHelpMissing(t) ==
    /\ Retry(t, "e_help")
    /\ UNCHANGED <<shared, history>>

\* An empty queue is told by head.ptr == tail.ptr, or by next.ptr alone.
AfterCheckByTail(t) ==
    IF myhead[t].ptr = mytail[t].ptr THEN "d_null" ELSE "d_data"
AfterCheckByNext(t) ==
    IF mynext[t].ptr = NULL THEN "d_null" ELSE "d_data"

\* The data is taken from the old head.
ReadUserDataOfHead(t) ==
    /\ Goto(t, "d_data", "d_swing")
    /\ mydata' = [mydata EXCEPT ![t] = user_data[myhead[t].ptr]]
    /\ UNCHANGED <<shared, node, myhead, mytail, mynext, history>>

\* The counter stops at zero.
DecLenToZero(t) ==
    /\ Goto(t, "d_dec", "d_free")
    /\ len' = IF len > 0 THEN len - 1 ELSE 0
    /\ UNCHANGED <<head, tail, next, user_data, heap, node, myhead, mytail,
                   mynext, mydata, history>>

\* MCT_FREE is missing; MCT_FREE zeroes the node.
DequeueReturnKeeps(t) ==
    /\ ReturnFrom(t, "d_free")
    /\ UNCHANGED <<shared, history>>
DequeueReturnZeroes(t) ==
    /\ ReturnFrom(t, "d_free")
    /\ heap' = [heap EXCEPT ![myhead[t].ptr] = "freed"]
    /\ next' = [next EXCEPT ![myhead[t].ptr] = VP(NULL, 0)]
    /\ UNCHANGED <<head, tail, len, user_data, history>>

\* An enqueue leaves the tail to whoever comes next.
SwingTailMissing(t) ==
    /\ Goto(t, "e_swing", "e_inc")
    /\ ForgetPointers(t)
    /\ UNCHANGED <<shared, node, mydata, history>>

\* An enqueue repeats the swap of the tail until it succeeds.
SwingTailUntilSwapped(t) ==
    /\ Goto(t, "e_swing", "e_inc")
    /\ tail = mytail[t]
    /\ SwapTail(t, node[t])
    /\ ForgetPointers(t)
    /\ UNCHANGED <<head, len, next, user_data, heap, node, mydata, history>>

\* mpmc_queue_empty compares the head with the tail.
EmptyAnswerByTail(t) == myhead[t].ptr = tail.ptr

\* mpmc_queue_destroy waits for the queue to be empty; it frees no dummy.
DequeueCallOfCallers(t) ==
    /\ t \in Consumers /\ Open
    /\ Goto(t, "idle", "d_headp")
    /\ sawEmpty' = IF Len(chain) = 1 THEN sawEmpty \cup {t} ELSE sawEmpty
    /\ UNCHANGED <<shared, node, myhead, mytail, mynext, mydata, chain,
                   enqueues>>
FreeHeadMissing(t) ==
    /\ t = destroyer
    /\ Goto(t, "idle", "destroyed")
    /\ UNCHANGED <<shared, node, myhead, mytail, mynext, mydata, history>>

-----------------------------------------------------------------------------
(* mpmc_enqueue.                                                           *)

\* node = MCT_MALLOC(...); node->user_data = data;
EnqueueCall(t, n, v) ==
    /\ t \in Producers
    /\ Open
    /\ enqueues < MaxEnqueues
    /\ Goto(t, "idle", "e_initptr")
    /\ n \in Available
    /\ heap' = [heap EXCEPT ![n] = "live"]
    /\ user_data' = [user_data EXCEPT ![n] = v]
    /\ node' = [node EXCEPT ![t] = n]
    /\ mydata' = [mydata EXCEPT ![t] = v]
    /\ enqueues' = enqueues + 1
    /\ UNCHANGED <<head, tail, len, next, myhead, mytail, mynext,
                   chain, sawEmpty>>

\* node->next.ptr = NULL;
InitNextPtr(t) ==
    /\ Goto(t, "e_initptr", "e_initver")
    /\ next' = [next EXCEPT ![node[t]].ptr = NULL]
    /\ UNCHANGED <<head, tail, len, user_data, heap, node, myhead, mytail,
                   mynext, mydata, history>>

\* node->next.version = 0;
InitNextVersion(t) ==
    /\ Goto(t, "e_initver", "e_tailp")
    /\ next' = [next EXCEPT ![node[t]].version = 0]
    /\ UNCHANGED <<head, tail, len, user_data, heap, node, myhead, mytail,
                   mynext, mydata, history>>

EnqueueRead(t) ==
    \/ ReadTailPtr(t, "e_tailp", "e_tailv")
    \/ ReadTailVersion(t, "e_tailv", "e_nextp")
    \/ ReadNextPtr(t, mytail[t].ptr, "e_nextp", "e_nextv")
    \/ ReadNextVersion(t, mytail[t].ptr, "e_nextv", "e_chkp")
    \/ Compare(t, mytail[t].ptr, tail.ptr, "e_chkp", "e_chkv")
    \/ Compare(t, mytail[t].version, tail.version, "e_chkv",
               IF mynext[t].ptr = NULL THEN "e_link" ELSE "e_help")

\* double_cmp_and_swap(&tail.ptr->next, &next, &pnode); if (swapped) break;
LinkSucceeds(t) == next[mytail[t].ptr] = mynext[t]

Link(t) ==
    /\ Goto(t, "e_link", "e_swing")
    /\ LinkSucceeds(t)
    /\ next' = [next EXCEPT ![mytail[t].ptr] =
                    VP(node[t], NextVersion(mynext[t].version))]
    /\ chain' = IF mytail[t].ptr = chain[Len(chain)]
                THEN Append(chain, node[t])
                ELSE chain
    /\ mynext' = [mynext EXCEPT ![t] = Unset]
    /\ UNCHANGED <<head, tail, len, user_data, heap, node, myhead, mytail,
                   mydata, sawEmpty, enqueues>>

LinkFails(t) ==
    /\ Retry(t, "e_link")
    /\ ~LinkSucceeds(t)
    /\ UNCHANGED <<shared, history>>

\* The tail lags behind: move it on for the thread that did not yet.
EnqueueHelp(t) ==
    /\ Retry(t, "e_help")
    /\ SwapTail(t, mynext[t].ptr)
    /\ UNCHANGED <<head, len, next, user_data, heap, history>>

\* After the loop: double_cmp_and_swap(&q->tail, &tail, &pnode);
SwingTail(t) ==
    /\ Goto(t, "e_swing", "e_inc")
    /\ SwapTail(t, node[t])
    /\ ForgetPointers(t)
    /\ UNCHANGED <<head, len, next, user_data, heap, node, mydata, history>>

\* atomic_inc(&q->len); return 0;
EnqueueReturn(t) ==
    /\ ReturnFrom(t, "e_inc")
    /\ len' = len + 1
    /\ UNCHANGED <<head, tail, next, user_data, heap, history>>

-----------------------------------------------------------------------------
(* mpmc_dequeue.                                                           *)

\* while (!mpmc_queue_empty(q)) of the thread that has the queue for itself.
EmptyNow == next[head.ptr].ptr = NULL

\* A caller's, and the one in the loop of mpmc_queue_destroy.
DequeueCall(t) ==
    /\ \/ t \in Consumers /\ Open
       \/ t = destroyer /\ ~EmptyNow
    /\ Goto(t, "idle", "d_headp")
    /\ sawEmpty' = IF Len(chain) = 1 THEN sawEmpty \cup {t} ELSE sawEmpty
    /\ UNCHANGED <<shared, node, myhead, mytail, mynext, mydata, chain,
                   enqueues>>

\* The branch that follows a successful vp_equal(head, q->head).
AfterCheck(t) ==
    IF myhead[t].ptr # mytail[t].ptr THEN "d_data"
    ELSE IF mynext[t].ptr = NULL THEN "d_null" ELSE "d_help"

DequeueRead(t) ==
    \/ ReadHeadPtr(t, "d_headp", "d_headv")
    \/ ReadHeadVersion(t, "d_headv", "d_tailp")
    \/ ReadTailPtr(t, "d_tailp", "d_tailv")
    \/ ReadTailVersion(t, "d_tailv", "d_nextp")
    \/ ReadNextPtr(t, myhead[t].ptr, "d_nextp", "d_nextv")
    \/ ReadNextVersion(t, myhead[t].ptr, "d_nextv", "d_chkp")
    \/ Compare(t, myhead[t].ptr, head.ptr, "d_chkp", "d_chkv")
    \/ Compare(t, myhead[t].version, head.version, "d_chkv",
               AfterCheck(t))

\* if (next.ptr == NULL) return NULL;
DequeueNull(t) ==
    /\ ReturnFrom(t, "d_null")
    /\ sawEmpty' = sawEmpty \ {t}
    /\ UNCHANGED <<shared, chain, enqueues>>

DequeueHelp(t) ==
    /\ Retry(t, "d_help")
    /\ SwapTail(t, mynext[t].ptr)
    /\ UNCHANGED <<head, len, next, user_data, heap, history>>

\* p_user_data = next.ptr->user_data;
ReadUserData(t) ==
    /\ Goto(t, "d_data", "d_swing")
    /\ mydata' = [mydata EXCEPT ![t] = user_data[mynext[t].ptr]]
    /\ UNCHANGED <<shared, node, myhead, mytail, mynext, history>>

\* double_cmp_and_swap(&q->head, &head, &pnode); if (swapped) break;
SwingHead(t) ==
    /\ Goto(t, "d_swing", "d_dec")
    /\ head = myhead[t]
    /\ head' = VP(mynext[t].ptr, NextVersion(myhead[t].version))
    /\ chain' = Tail(chain)
    /\ sawEmpty' = IF Len(chain) = 2
                   THEN {u \in Threads : pc'[u] \in DequeuePcs}
                   ELSE sawEmpty \ {t}
    /\ mytail' = [mytail EXCEPT ![t] = Unset]
    /\ mynext' = [mynext EXCEPT ![t] = Unset]
    /\ UNCHANGED <<tail, len, next, user_data, heap, node, myhead, mydata,
                   enqueues>>

SwingHeadFails(t) ==
    /\ Retry(t, "d_swing")
    /\ head # myhead[t]
    /\ UNCHANGED <<shared, history>>

\* atomic_dec(&q->len);
DecLen(t) ==
    /\ Goto(t, "d_dec", "d_free")
    /\ len' = len - 1
    /\ UNCHANGED <<head, tail, next, user_data, heap, node, myhead, mytail,
                   mynext, mydata, history>>

\* MCT_FREE(head.ptr); return p_user_data;
DequeueReturn(t) ==
    /\ ReturnFrom(t, "d_free")
    /\ heap' = [heap EXCEPT ![myhead[t].ptr] = "freed"]
    /\ \/ UNCHANGED <<next, user_data>>
       \/ /\ \E p \in Overwritten(myhead[t].ptr) :
                next' = [next EXCEPT ![myhead[t].ptr] = p]
          /\ user_data' = [user_data EXCEPT ![myhead[t].ptr] = Garbage]
    /\ UNCHANGED <<head, tail, len, history>>

-----------------------------------------------------------------------------
(* mpmc_queue_empty: its head may be dequeued and freed before the second  *)
(* load.                                                                   *)

\* q->head.ptr
EmptyCall(t) ==
    /\ t \in Askers
    /\ Open
    /\ Goto(t, "idle", "m_next")
    /\ myhead' = [myhead EXCEPT ![t].ptr = head.ptr]
    /\ UNCHANGED <<shared, node, mytail, mynext, mydata, history>>

\* return q->head.ptr->next.ptr == NULL;
EmptyAnswer(t) == next[myhead[t].ptr].ptr = NULL

EmptyReturn(t) ==
    /\ ReturnFrom(t, "m_next")
    /\ UNCHANGED <<shared, history>>

-----------------------------------------------------------------------------
(* mpmc_queue_destroy, and ~MpmcQueue: DequeueCall is their loop.          *)

DestroyCall(t) ==
    /\ t \in Destroyers
    /\ Open
    /\ \A u \in Threads : pc[u] = "idle"
    /\ destroyer' = t
    /\ UNCHANGED <<shared, pc, node, myhead, mytail, mynext, mydata, history>>

\* MCT_FREE(q->head.ptr);
FreeHead(t) ==
    /\ t = destroyer
    /\ EmptyNow
    /\ Goto(t, "idle", "destroyed")
    /\ heap' = [heap EXCEPT ![head.ptr] = "freed"]
    /\ UNCHANGED <<head, tail, len, next, user_data, node, myhead, mytail,
                   mynext, mydata, history>>

-----------------------------------------------------------------------------

\* The next statement of the call that t is in.
Step(t) ==
    \/ InitNextPtr(t) \/ InitNextVersion(t)
    \/ EnqueueRead(t)
    \/ Link(t) \/ LinkFails(t) \/ EnqueueHelp(t) \/ SwingTail(t)
    \/ EnqueueReturn(t)
    \/ DequeueRead(t)
    \/ DequeueNull(t) \/ DequeueHelp(t) \/ ReadUserData(t)
    \/ SwingHead(t) \/ SwingHeadFails(t) \/ DecLen(t) \/ DequeueReturn(t)
    \/ EmptyReturn(t)

Next ==
    \E t \in Threads :
        \/ \E n \in Nodes, v \in Data : EnqueueCall(t, n, v)
        \/ DequeueCall(t) \/ EmptyCall(t) \/ DestroyCall(t) \/ FreeHead(t)
        \/ Step(t)

Spec == Init /\ [][Next]_vars

\* The scheduler runs t for ever.
Scheduled(t) == WF_vars(Step(t))

\* And, if it destroys the queue, through its loop.
DestroyScheduled(t) ==
    WF_vars(Step(t) \/ FreeHead(t) \/ (t = destroyer /\ DequeueCall(t)))

-----------------------------------------------------------------------------
(* Properties.                                                             *)

VersionedPointer(S) == [ptr : S, version : 0..(Versions - 1)]

TypeOK ==
    /\ head \in VersionedPointer(Nodes)
    /\ tail \in VersionedPointer(Nodes)
    /\ len \in Int
    /\ next \in [Nodes -> VersionedPointer(Nodes \cup {NULL, Garbage})]
    /\ user_data \in [Nodes -> Data \cup {Garbage}]
    /\ heap \in [Nodes -> {"fresh", "live", "freed"}]
    /\ pc \in [Threads -> EnqueuePcs \cup EnqueuedPcs \cup DequeuePcs
                          \cup DequeuedPcs \cup EmptyPcs
                          \cup {"idle", "destroyed"}]
    /\ node \in [Threads -> Nodes \cup {NULL}]
    /\ myhead \in [Threads -> VersionedPointer(Nodes \cup {NULL})]
    /\ mytail \in [Threads -> VersionedPointer(Nodes \cup {NULL})]
    /\ mynext \in [Threads -> VersionedPointer(Nodes \cup {NULL, Garbage})]
    /\ mydata \in [Threads -> Data \cup {NULL, Garbage}]
    /\ destroyer \in Destroyers \cup {NULL}
    /\ chain \in Seq(Nodes)
    /\ sawEmpty \subseteq Threads
    /\ enqueues \in 0..MaxEnqueues

Linked == {chain[i] : i \in 1..Len(chain)}
Last == chain[Len(chain)]
Destroyed == \E t \in Threads : pc[t] = "destroyed"

(* No ABA: a double_cmp_and_swap on tail.ptr->next that succeeds appends   *)
(* the new node to the last node of the queue, however long ago tail was   *)
(* read.  ("To overcome ABA problem, DCAS(Double Compare and Swap) is used *)
(* for x86", mpmc_queue.h:22-23; lines 138-150.)                           *)
LinkAppends ==
    \A t \in Threads :
        pc[t] = "e_link" /\ LinkSucceeds(t) => mytail[t].ptr = Last

(* The tail never falls behind the head, so that q->tail never points to a *)
(* node that a dequeue freed; it lags behind the last node by one at most. *)
TailIsLinked ==
    /\ head.ptr = chain[1]
    /\ tail.ptr \in Linked
    /\ heap[tail.ptr] = "live" \/ Destroyed
    /\ tail.ptr = Last \/ next[tail.ptr].ptr = Last

(* Threads read nodes that were freed meanwhile (lines 116, 141, 189, 202),*)
(* and torn versioned pointers, but never act on what they read there: a   *)
(* swap of head or tail that succeeds moves it to the next node of the     *)
(* queue, and a dequeue returns the data of that node.                     *)
StaleReadsAreHarmless ==
    \A t \in Threads :
        /\ pc[t] = "d_swing" /\ head = myhead[t] =>
               /\ Len(chain) > 1
               /\ mynext[t].ptr = chain[2]
               /\ mydata[t] = user_data[chain[2]]
        /\ pc[t] \in {"d_help", "e_help"} /\ tail = mytail[t] =>
               /\ tail.ptr # Last
               /\ mynext[t].ptr = next[tail.ptr].ptr

(* Every node is freed once, and by the dequeue that removed it: what is   *)
(* live is the list, the nodes of enqueues that have not linked them, and  *)
(* the nodes of dequeues that are about to free them.  mpmc_queue_destroy  *)
(* leaves nothing.  (Lines 130, 215, 234.)                                 *)
NoLeak ==
    {n \in Nodes : heap[n] = "live"} =
        (IF Destroyed THEN {} ELSE Linked)
               \cup {node[t] : t \in {u \in Threads : pc[u] \in EnqueuePcs}}
               \cup {myhead[t].ptr : t \in {u \in Threads : pc[u] \in DequeuedPcs}}

(* q->len differs from the number of queued nodes by the threads that have *)
(* linked and not counted, or taken and not discounted: it is exact when   *)
(* no thread is inside a call.  (Lines 162, 213.)                          *)
LenAccounts ==
    len = (Len(chain) - 1)
          - Cardinality({t \in Threads : pc[t] \in EnqueuedPcs})
          + Cardinality({t \in Threads : pc[t] = "d_dec"})

(* mpmc_queue_empty reads the next pointer of what was the head when it    *)
(* was called, without a second look at q->head (line 116).  As long as    *)
(* that node is not freed, the answer is TRUE exactly if it is still the   *)
(* head and the last node, so that the queue is empty at that moment, and  *)
(* FALSE only if it was not for some time since the call.  Once the node   *)
(* is freed TRUE may be wrong: MCT_FREE may have left a NULL in it.        *)
EmptyIsTrueUntilFreed ==
    \A t \in Threads :
        pc[t] = "m_next" /\ heap[myhead[t].ptr] # "freed" =>
            (EmptyAnswer(t) <=> myhead[t].ptr = chain[1] /\ Len(chain) = 1)

(* mpmc_queue_destroy relies on an exclusive mpmc_dequeue (lines 227-232): *)
(* it succeeds at once, without helping or starting over, whenever the     *)
(* queue was not empty, so that all data is handed back to be freed.       *)
DestroyTakesAll ==
    destroyer # NULL =>
        /\ pc[destroyer] \notin {"d_null", "d_help"}
        /\ Destroyed => Len(chain) = 1 /\ len = 0

(* The queue is a linearizable FIFO queue: an enqueue takes effect at its  *)
(* successful link, a dequeue at its successful swap of the head.          *)
Fifo == INSTANCE FifoQueue WITH
    NoData <- NULL,
    queue <- [i \in 1..(Len(chain) - 1) |-> user_data[chain[i + 1]]],
    phase <- [t \in Threads |->
        CASE pc[t] \in EmptyPcs \cup {"idle", "destroyed"} -> "idle"
          [] pc[t] \in EnqueuePcs -> "enqueuing"
          [] pc[t] \in EnqueuedPcs -> "enqueued"
          [] pc[t] \in DequeuePcs \ {"d_null"} -> "dequeuing"
          [] OTHER -> "dequeued"],
    arg <- [t \in Threads |->
        IF pc[t] \in EnqueuePcs \cup DequeuedPcs THEN mydata[t] ELSE NULL],
    sawEmpty <- {t \in sawEmpty : pc[t] # "d_null"}

IsFifo == Fifo!FifoSpec

(* "One producer never get blocked by other producer.  Same for comsumers. *)
(* This means lock-free." (Lines 14-18.)  With a bounded number of         *)
(* enqueues a thread can fail only finitely often, so lock freedom is that *)
(* a call returns even if all the other threads stop where they are.       *)
CallReturns(t) == (pc[t] # "idle") ~> (pc[t] = "idle")

\* The loop of mpmc_queue_destroy ends, and the dummy is freed.
DestroyEnds == ~Open ~> Destroyed
=============================================================================

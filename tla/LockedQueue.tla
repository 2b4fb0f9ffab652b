---------------------------- MODULE LockedQueue ----------------------------
(***************************************************************************)
(* example_stl_queue_mcslock.cxx: one thread pushes to a std::queue and    *)
(* another pops from it, under an MCS lock.  The consumer asks q.empty()   *)
(* before it takes the lock.                                               *)
(*                                                                         *)
(* The lock is FifoLock, which McsLock implements.  The std::queue is      *)
(* external: a push is two steps, and q.empty() of an empty queue in       *)
(* between answers either way, because it reads one pointer of the list    *)
(* that the push is changing.  The LOCK prefix of the unlock, or the order *)
(* of x86 stores, completes a push before the lock is released.            *)
(***************************************************************************)
EXTENDS Integers, Sequences

CONSTANTS Producer, Consumer,
          Data, NULL,
          MaxLen          \* a bound on the length of the queue

Threads == {Producer, Consumer}

ASSUME LockedQueueAssumption ==
    /\ Producer # Consumer
    /\ NULL \notin Data
    /\ MaxLen \in Nat

VARIABLES
  items,                  \* q
  line, stage,            \* mlock: see FifoLock
  prodPc, i,              \* producer_thread_func
  consPc, x,              \* consumer_thread_func
  sawEmpty                \* auxiliary: see FifoQueue

vars == <<items, line, stage, prodPc, i, consPc, x, sawEmpty>>
lockVars == <<line, stage>>
producerVars == <<prodPc, i>>
consumerVars == <<consPc, x>>

Lock == INSTANCE FifoLock

Init ==
    /\ items = <<>>
    /\ Lock!FifoLockInit
    /\ prodPc = "sleep"
    /\ i = NULL
    /\ consPc = "sleep"
    /\ x = NULL
    /\ sawEmpty = {}

-----------------------------------------------------------------------------

\* Fault: no lock, as in example_stl_queue.cxx.
HoldingAlways(t) == TRUE

\* mcs_lock has returned.
Holding(t) == stage[t] = "holding"

\* One of the threads waits in mcs_lock, and is given the lock.
Acquire ==
    /\ \E t \in Threads : Lock!Grant(t)
    /\ UNCHANGED <<items, producerVars, consumerVars, sawEmpty>>

\* mcs_lock(&mlock, &my_lock_node);
ProducerLock(v) ==
    /\ prodPc = "sleep"
    /\ Len(items) < MaxLen
    /\ Lock!Request(Producer)
    /\ prodPc' = "lock"
    /\ i' = v
    /\ UNCHANGED <<items, consumerVars, sawEmpty>>

\* q.push(i), from its first store to its last.
PushBegin ==
    /\ prodPc = "lock"
    /\ Holding(Producer)
    /\ prodPc' = "push"
    /\ UNCHANGED <<items, lockVars, i, consumerVars, sawEmpty>>

PushEnd ==
    /\ prodPc = "push"
    /\ items' = Append(items, i)
    /\ prodPc' = "unlock"
    /\ UNCHANGED <<lockVars, i, consumerVars, sawEmpty>>

\* mcs_unlock(&mlock, &my_lock_node); printf; usleep
ProducerUnlock ==
    /\ prodPc = "unlock"
    /\ Lock!Release(Producer)
    /\ prodPc' = "sleep"
    /\ i' = NULL
    /\ UNCHANGED <<items, consumerVars, sawEmpty>>

-----------------------------------------------------------------------------

\* The top of the consumer's loop.
Wake ==
    /\ consPc = "sleep"
    /\ consPc' = "check"
    /\ sawEmpty' = IF items = <<>> THEN {Consumer} ELSE {}
    /\ UNCHANGED <<items, lockVars, producerVars, x>>

\* Faults: q.empty() is not asked; and it has got stuck, as "after some
\* seconds" without a lock (example_stl_queue_mcslock.cxx:5-7).
EmptyNotAsked == {FALSE}
EmptyForEver == {TRUE}

\* What q.empty() may answer, without the lock.
EmptyAnswers ==
    IF items # <<>> THEN {FALSE}
    ELSE IF prodPc = "push" THEN {TRUE, FALSE} ELSE {TRUE}

\* if (q.empty())
Check ==
    /\ consPc = "check"
    /\ \E empty \in EmptyAnswers :
          /\ consPc' = IF empty THEN "null" ELSE "nonempty"
          /\ sawEmpty' = IF empty THEN {} ELSE sawEmpty
    /\ UNCHANGED <<items, lockVars, producerVars, x>>

\* printf("%s dequeue null\n", consumer_prefix); usleep
DequeueNull ==
    /\ consPc = "null"
    /\ consPc' = "sleep"
    /\ UNCHANGED <<items, lockVars, producerVars, x, sawEmpty>>

\* mcs_lock(&mlock, &my_lock_node);
ConsumerLock ==
    /\ consPc = "nonempty"
    /\ Lock!Request(Consumer)
    /\ consPc' = "front"
    /\ UNCHANGED <<items, producerVars, x, sawEmpty>>

\* Fault: q.back().
Back ==
    /\ consPc = "front"
    /\ Holding(Consumer)
    /\ x' = IF items = <<>> THEN NULL ELSE items[Len(items)]
    /\ consPc' = "pop"
    /\ UNCHANGED <<items, lockVars, producerVars, sawEmpty>>

\* x = q.front(), of which nothing is known if the queue is empty.
Front ==
    /\ consPc = "front"
    /\ Holding(Consumer)
    /\ x' = IF items = <<>> THEN NULL ELSE Head(items)
    /\ consPc' = "pop"
    /\ UNCHANGED <<items, lockVars, producerVars, sawEmpty>>

\* Fault: everything is popped, under the lock, and more.
PopAll ==
    /\ consPc = "pop"
    /\ items' = IF items = <<>> THEN items ELSE Tail(items)
    /\ consPc' = "front"
    /\ UNCHANGED <<lockVars, producerVars, x, sawEmpty>>

\* q.pop();
Pop ==
    /\ consPc = "pop"
    /\ items' = IF items = <<>> THEN items ELSE Tail(items)
    /\ consPc' = "unlock"
    /\ sawEmpty' = {}
    /\ UNCHANGED <<lockVars, producerVars, x>>

\* mcs_unlock(&mlock, &my_lock_node); printf; usleep
ConsumerUnlock ==
    /\ consPc = "unlock"
    /\ Lock!Release(Consumer)
    /\ consPc' = "sleep"
    /\ x' = NULL
    /\ UNCHANGED <<items, producerVars, sawEmpty>>

-----------------------------------------------------------------------------

Produce == PushBegin \/ PushEnd \/ ProducerUnlock
Consume == Wake \/ Check \/ DequeueNull \/ ConsumerLock \/ Front \/ Pop
           \/ ConsumerUnlock

Next == Acquire \/ (\E v \in Data : ProducerLock(v)) \/ Produce \/ Consume

Spec == Init /\ [][Next]_vars

\* Both threads run; mcs_lock returns once it is granted (McsLock's
\* LockAcquired).  The producer may stop between two pushes.
FairSpec == Spec /\ WF_vars(Acquire) /\ WF_vars(Produce) /\ WF_vars(Consume)

-----------------------------------------------------------------------------
(* Properties.                                                             *)

\* The types of the state; what was popped is what somebody pushed.
TypeOK ==
    /\ items \in Seq(Data)
    /\ Len(items) <= MaxLen
    /\ line \in Seq(Threads)
    /\ stage \in [Threads -> {"out", "waiting", "holding"}]
    /\ prodPc \in {"sleep", "lock", "push", "unlock"}
    /\ i \in IF prodPc = "sleep" THEN {NULL} ELSE Data
    /\ consPc \in {"sleep", "check", "null", "nonempty", "front", "pop",
                   "unlock"}
    /\ x \in IF consPc \in {"pop", "unlock"} THEN Data ELSE {NULL}
    /\ sawEmpty \subseteq {Consumer}

(* The answer that q.empty() gave without the lock still holds under it:   *)
(* front and pop are never called on an empty queue, nor during a push,    *)
(* because only this thread takes anything out (lines 75-80).              *)
PopIsSafe ==
    /\ consPc \in {"front", "pop"} /\ Holding(Consumer) => items # <<>>
    /\ consPc = "pop" => prodPc # "push"

(* A linearizable FIFO queue, the unlocked q.empty() included: a "dequeue  *)
(* null" is right at some moment of the loop.  A push takes effect at its  *)
(* end.                                                                    *)
Fifo == INSTANCE FifoQueue WITH
    NoData <- NULL,
    queue <- items,
    phase <- [t \in Threads |->
        IF t = Producer
        THEN CASE prodPc = "sleep" -> "idle"
               [] prodPc \in {"lock", "push"} -> "enqueuing"
               [] OTHER -> "enqueued"
        ELSE CASE consPc = "sleep" -> "idle"
               [] consPc \in {"null", "unlock"} -> "dequeued"
               [] OTHER -> "dequeuing"],
    arg <- [t \in Threads |->
        IF t = Producer
        THEN IF prodPc \in {"lock", "push"} THEN i ELSE NULL
        ELSE IF consPc = "unlock" THEN x ELSE NULL]

IsFifo == Fifo!FifoSpec

\* A push returns, although the consumer polls and pops for ever.
PushReturns == (prodPc # "sleep") ~> (prodPc = "sleep")

(* What is pushed is popped: q.empty() does not "always return true while  *)
(* producer is doing enqueue" (lines 5-6).                                 *)
Delivery == (items # <<>>) ~> (consPc = "unlock")
=============================================================================

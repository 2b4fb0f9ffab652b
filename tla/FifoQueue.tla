----------------------------- MODULE FifoQueue -----------------------------
(***************************************************************************)
(* What the toolbox's concurrent queues promise: a linearizable FIFO       *)
(* queue.  An operation is called, takes effect once between its call and  *)
(* its return, and returns.  The README's "concurrent queue" (spsc_queue.h *)
(* and mpmc_queue.h) implements this specification.                        *)
(*                                                                         *)
(* A dequeue may report an empty queue if the queue was empty at some      *)
(* moment of the call: sawEmpty holds the pending dequeues for which that  *)
(* moment has come.  The code finds out later than that moment, when it    *)
(* has read the successor of the head; remembering it here lets the        *)
(* specification answer then without looking into the future.              *)
(***************************************************************************)
EXTENDS Sequences

CONSTANTS Threads,   \* the callers
          Data,      \* the values that are queued
          NoData     \* what a dequeue of an empty queue returns (NULL)

VARIABLES queue,     \* the values in the queue, oldest first
          phase,     \* how far the operation of each thread has got
          arg,       \* the argument or the result of that operation
          sawEmpty   \* pending dequeues during which the queue was empty

fifoVars == <<queue, phase, arg, sawEmpty>>

Phases == {"idle", "enqueuing", "enqueued", "dequeuing", "dequeued"}

FifoTypeOK ==
    /\ queue \in Seq(Data)
    /\ phase \in [Threads -> Phases]
    /\ arg \in [Threads -> Data \cup {NoData}]
    /\ sawEmpty \subseteq Threads

FifoInit ==
    /\ queue = <<>>
    /\ phase = [t \in Threads |-> "idle"]
    /\ arg = [t \in Threads |-> NoData]
    /\ sawEmpty = {}

-----------------------------------------------------------------------------

CallEnqueue(t, v) ==
    /\ phase[t] = "idle"
    /\ phase' = [phase EXCEPT ![t] = "enqueuing"]
    /\ arg' = [arg EXCEPT ![t] = v]
    /\ UNCHANGED <<queue, sawEmpty>>

TakeEnqueue(t) ==
    /\ phase[t] = "enqueuing"
    /\ queue' = Append(queue, arg[t])
    /\ phase' = [phase EXCEPT ![t] = "enqueued"]
    /\ arg' = [arg EXCEPT ![t] = NoData]
    /\ UNCHANGED sawEmpty

CallDequeue(t) ==
    /\ phase[t] = "idle"
    /\ phase' = [phase EXCEPT ![t] = "dequeuing"]
    /\ sawEmpty' = IF queue = <<>> THEN sawEmpty \cup {t} ELSE sawEmpty
    /\ UNCHANGED <<queue, arg>>

\* When the last value leaves, every other pending dequeue sees an empty queue.
TakeDequeue(t) ==
    /\ phase[t] = "dequeuing"
    /\ queue # <<>>
    /\ queue' = Tail(queue)
    /\ phase' = [phase EXCEPT ![t] = "dequeued"]
    /\ arg' = [arg EXCEPT ![t] = Head(queue)]
    /\ sawEmpty' = IF Tail(queue) = <<>>
                   THEN {u \in Threads \ {t} : phase[u] = "dequeuing"}
                   ELSE sawEmpty \ {t}

TakeNothing(t) ==
    /\ phase[t] = "dequeuing"
    /\ t \in sawEmpty
    /\ phase' = [phase EXCEPT ![t] = "dequeued"]
    /\ sawEmpty' = sawEmpty \ {t}
    /\ UNCHANGED <<queue, arg>>

Return(t) ==
    /\ phase[t] \in {"enqueued", "dequeued"}
    /\ phase' = [phase EXCEPT ![t] = "idle"]
    /\ arg' = [arg EXCEPT ![t] = NoData]
    /\ UNCHANGED <<queue, sawEmpty>>

FifoNext ==
    \E t \in Threads :
        \/ \E v \in Data : CallEnqueue(t, v)
        \/ TakeEnqueue(t)
        \/ CallDequeue(t)
        \/ TakeDequeue(t)
        \/ TakeNothing(t)
        \/ Return(t)

FifoSpec == FifoInit /\ [][FifoNext]_fifoVars

=============================================================================

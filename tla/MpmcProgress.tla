---------------------------- MODULE MpmcProgress ----------------------------
(***************************************************************************)
(* mpmc_queue.h is lock-free (lines 14-18), stated without fairness: how   *)
(* often the loops of its operations start over is bounded by the number   *)
(* of enqueues and dequeues that take effect.  History variables count     *)
(* both in the steps of MpmcQueue.                                         *)
(***************************************************************************)
EXTENDS MpmcQueue

VARIABLES
  retries,       \* how often a loop started over
  linked,        \* the enqueues that have linked their node
  taken,         \* the dequeues that have swung the head
  overtaken      \* the threads in a loop since whose first read in this round
                 \* the head, the tail or the list changed

counts == <<retries, linked, taken, overtaken>>

\* Where a loop starts, and where a thread has read something in its round.
LoopTops == {"e_tailp", "d_headp"}
LoopBodies == (EnqueuePcs \cup DequeuePcs)
              \ (LoopTops \cup {"e_initptr", "e_initver"})

StartsOver(t) == pc[t] \in LoopBodies /\ pc'[t] \in LoopTops
QueueMoves == head' # head \/ tail' # tail \/ chain' # chain

ProgressInit ==
    /\ Init
    /\ retries = 0 /\ linked = 0 /\ taken = 0
    /\ overtaken = {}

Count ==
    /\ retries' = retries + (IF \E t \in Threads : StartsOver(t) THEN 1 ELSE 0)
    /\ linked' = linked + (IF Len(chain') > Len(chain) THEN 1 ELSE 0)
    /\ taken' = taken + (IF Len(chain') < Len(chain) THEN 1 ELSE 0)
    /\ overtaken' = {t \in Threads : /\ pc'[t] \in LoopBodies
                                     /\ QueueMoves \/ t \in overtaken}

ProgressSpec == ProgressInit /\ [][Next /\ Count]_<<vars, counts>>

-----------------------------------------------------------------------------
(* Properties.                                                             *)

(* An enqueue moves the queue on twice, when it links its node and when it *)
(* or a helper swings the tail, and a dequeue once.  Each time every other *)
(* thread may have to start over, once, and no thread ever does for any    *)
(* other reason: however the threads are scheduled, and wherever some of   *)
(* them stop, the others cannot go on failing unless operations take       *)
(* effect, and a thread that has the queue for itself never starts over.   *)
(* ("One producer never get blocked by other producer.  Same for comsumers.*)
(* This means lock-free."  Lines 14-18; the loops 137-157 and 183-210.)    *)
LockFree == retries <= (Cardinality(Threads) - 1) * (2 * linked + taken)
=============================================================================

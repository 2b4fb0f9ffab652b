------------------------------ MODULE McsLock ------------------------------
(***************************************************************************)
(* mcs_lock.h: the queue lock of Mellor-Crummey and Scott.  Each thread    *)
(* brings a node of its own, on its stack ("Here's a trick: we alloc the   *)
(* node on stack"), so a node is named by its thread, and between unlock   *)
(* and the next lock its memory is not a node at all.                      *)
(*                                                                         *)
(* One action is one access to shared memory, in program order.  x86 may   *)
(* delay the stores pre->next = mynode and mynode->next->wait = 0 in the   *)
(* thread's buffer; the thread then does nothing that another thread sees  *)
(* before they are in memory (it spins on its own node, or is out of the   *)
(* lock, and both ways back in start with a LOCKed instruction), so that   *)
(* a delayed store is a delayed step of this model.  smp_wmb() and         *)
(* smp_rmb() in the spin loops have no other effect.                       *)
(***************************************************************************)
EXTENDS Integers, Sequences

CONSTANTS Threads,
          TryThreads,  \* the threads that also call mcs_trylock
          Zeroed,      \* the callers zero a node before they use it
          NULL,
          Garbage      \* what an uninitialized pointer holds

ASSUME McsAssumption ==
    /\ TryThreads \subseteq Threads
    /\ Zeroed \in BOOLEAN
    /\ NULL \notin Threads
    /\ Garbage \notin Threads \cup {NULL}

VARIABLES
  tail,        \* mcslock_t.tail
  next, wait,  \* the two fields of each thread's node
  pc, pre,     \* each thread's place in the code, and mcs_lock's local
  order        \* auxiliary: the holder and those in line behind it

vars == <<tail, next, wait, pc, pre, order>>

\* Where a thread has the lock: in its critical section and in mcs_unlock.
HolderPcs == {"cs", "u_check", "u_cas", "u_wait", "u_pass"}
\* Where a thread has taken its place in the queue and waits for its turn.
WaiterPcs == {"l_link", "l_spin"}

-----------------------------------------------------------------------------

Goto(t, from, to) ==
    /\ pc[t] = from
    /\ pc' = [pc EXCEPT ![t] = to]

\* The node that the caller brings: zeroed, or with the contents of its memory.
Bring(t) ==
    /\ next' = [next EXCEPT ![t] = IF Zeroed THEN NULL ELSE @]
    /\ wait' = [wait EXCEPT ![t] = IF Zeroed THEN 0 ELSE @]

(* Faults, one for each property below: what it takes to break it.  No     *)
(* action of the specification uses them.                                  *)

\* mcs_lock_init was not called.
InitMissing ==
    /\ tail = Garbage
    /\ next \in [Threads -> {NULL, Garbage}]
    /\ wait \in [Threads -> {0, 1}]
    /\ pc = [t \in Threads |-> "idle"]
    /\ pre = [t \in Threads |-> NULL]
    /\ order = <<>>

\* mynode->wait = 1 is missing.
SetWaitMissing(t) ==
    /\ Goto(t, "l_wait", "l_swap")
    /\ UNCHANGED <<tail, next, wait, pre, order>>

\* pre->next = mynode is missing.
LinkMissing(t) ==
    /\ Goto(t, "l_link", "l_spin")
    /\ UNCHANGED <<tail, next, wait, pre, order>>

\* mcs_trylock takes the lock without a look at the tail.
TryLockBlindly(t) ==
    /\ t \in TryThreads
    /\ Goto(t, "idle", "cs")
    /\ Bring(t)
    /\ tail' = t
    /\ order' = Append(order, t)
    /\ UNCHANGED pre

\* lock->tail = NULL, without the comparison.
ReleaseLastBlindly(t) ==
    /\ Goto(t, "u_cas", "idle")
    /\ tail' = NULL
    /\ pre' = [pre EXCEPT ![t] = NULL]
    /\ order' = Tail(order)
    /\ UNCHANGED <<next, wait>>

\* mcs_unlock does not wait for the follower to show up.
SeeFollowerTooEarly(t) ==
    /\ Goto(t, "u_wait", "u_pass")
    /\ UNCHANGED <<tail, next, wait, pre, order>>

\* mynode->wait = 0 instead of mynode->next->wait; the tail is cleared as well.
PassLockToSelf(t) ==
    /\ Goto(t, "u_pass", "idle")
    /\ wait' = [wait EXCEPT ![t] = 0]
    /\ pre' = [pre EXCEPT ![t] = NULL]
    /\ order' = Tail(order)
    /\ UNCHANGED <<tail, next>>
PassLockAndClear(t) ==
    /\ Goto(t, "u_pass", "idle")
    /\ wait' = [wait EXCEPT ![next[t]] = 0]
    /\ tail' = NULL
    /\ pre' = [pre EXCEPT ![t] = NULL]
    /\ order' = Tail(order)
    /\ UNCHANGED next

-----------------------------------------------------------------------------

\* mcs_lock_init.  The nodes are not initialized.
Init ==
    /\ tail = NULL
    /\ next \in [Threads -> {NULL, Garbage}]
    /\ wait \in [Threads -> {0, 1}]
    /\ pc = [t \in Threads |-> "idle"]
    /\ pre = [t \in Threads |-> NULL]
    /\ order = <<>>

(* mcs_lock. *)

LockCall(t) ==
    /\ Goto(t, "idle", "l_next")
    /\ Bring(t)
    /\ UNCHANGED <<tail, pre, order>>

\* mynode->next = NULL;
ClearNext(t) ==
    /\ Goto(t, "l_next", "l_wait")
    /\ next' = [next EXCEPT ![t] = NULL]
    /\ UNCHANGED <<tail, wait, pre, order>>

\* mynode->wait = 1;
SetWait(t) ==
    /\ Goto(t, "l_wait", "l_swap")
    /\ wait' = [wait EXCEPT ![t] = 1]
    /\ UNCHANGED <<tail, next, pre, order>>

\* pre = fetch_and_store(&lock->tail, mynode); if (pre == NULL) return;
Swap(t) ==
    /\ Goto(t, "l_swap", IF tail = NULL THEN "cs" ELSE "l_link")
    /\ pre' = [pre EXCEPT ![t] = tail]
    /\ tail' = t
    /\ order' = Append(order, t)
    /\ UNCHANGED <<next, wait>>

\* pre->next = mynode;
Link(t) ==
    /\ Goto(t, "l_link", "l_spin")
    /\ next' = [next EXCEPT ![pre[t]] = t]
    /\ UNCHANGED <<tail, wait, pre, order>>

\* while (mynode->wait) cpu_relax();  The iterations change nothing.
StopSpinning(t) ==
    /\ Goto(t, "l_spin", "cs")
    /\ wait[t] = 0
    /\ UNCHANGED <<tail, next, wait, pre, order>>

(* mcs_trylock: return compare_and_store(&lock->tail, NULL, mynode); *)

TryLock(t) ==
    /\ t \in TryThreads
    /\ tail = NULL
    /\ Goto(t, "idle", "cs")
    /\ Bring(t)
    /\ tail' = t
    /\ order' = Append(order, t)
    /\ UNCHANGED pre

TryLockFails(t) ==
    /\ t \in TryThreads
    /\ tail # NULL
    /\ Goto(t, "idle", "idle")
    /\ Bring(t)
    /\ UNCHANGED <<tail, pre, order>>

(* mcs_unlock. *)

UnlockCall(t) ==
    /\ Goto(t, "cs", "u_check")
    /\ UNCHANGED <<tail, next, wait, pre, order>>

\* if (mynode->next == NULL)
CheckNext(t) ==
    /\ Goto(t, "u_check", IF next[t] = NULL THEN "u_cas" ELSE "u_pass")
    /\ UNCHANGED <<tail, next, wait, pre, order>>

\* if (compare_and_store(&lock->tail, mynode, NULL)) return;
ReleaseLast(t) ==
    /\ Goto(t, "u_cas", "idle")
    /\ tail = t
    /\ tail' = NULL
    /\ pre' = [pre EXCEPT ![t] = NULL]
    /\ order' = Tail(order)
    /\ UNCHANGED <<next, wait>>

ReleaseLastFails(t) ==
    /\ Goto(t, "u_cas", "u_wait")
    /\ tail # t
    /\ UNCHANGED <<tail, next, wait, pre, order>>

\* while (mynode->next == NULL) { smp_rmb(); cpu_relax(); }
SeeFollower(t) ==
    /\ Goto(t, "u_wait", "u_pass")
    /\ next[t] # NULL
    /\ UNCHANGED <<tail, next, wait, pre, order>>

\* mynode->next->wait = 0;  (Nobody stores to mynode->next any more.)
PassLock(t) ==
    /\ Goto(t, "u_pass", "idle")
    /\ wait' = [wait EXCEPT ![next[t]] = 0]
    /\ pre' = [pre EXCEPT ![t] = NULL]
    /\ order' = Tail(order)
    /\ UNCHANGED <<tail, next>>

-----------------------------------------------------------------------------

LockStep(t) ==
    ClearNext(t) \/ SetWait(t) \/ Swap(t) \/ Link(t) \/ StopSpinning(t)

UnlockStep(t) ==
    \/ CheckNext(t) \/ ReleaseLast(t) \/ ReleaseLastFails(t)
    \/ SeeFollower(t) \/ PassLock(t)

Next ==
    \E t \in Threads :
        \/ LockCall(t) \/ LockStep(t)
        \/ TryLock(t) \/ TryLockFails(t)
        \/ UnlockCall(t) \/ UnlockStep(t)

Spec == Init /\ [][Next]_vars

(* Every thread is scheduled and leaves its critical section, as the       *)
(* callers do (example_stl_queue_mcslock.cxx:53-83).                       *)
FairSpec == Spec /\ \A t \in Threads :
                        WF_vars(LockStep(t) \/ UnlockCall(t) \/ UnlockStep(t))

-----------------------------------------------------------------------------
(* Properties.                                                             *)

TypeOK ==
    /\ tail \in Threads \cup {NULL}
    /\ next \in [Threads -> Threads \cup {NULL, Garbage}]
    /\ wait \in [Threads -> {0, 1}]
    /\ pc \in [Threads -> {"idle", "l_next", "l_wait", "l_swap"}
                          \cup WaiterPcs \cup HolderPcs]
    /\ pre \in [Threads -> Threads \cup {NULL}]
    /\ order \in Seq(Threads)

Holds(t) == pc[t] \in HolderPcs

(* One thread at a time is between the return of mcs_lock (or of a         *)
(* successful mcs_trylock) and the return of mcs_unlock.                   *)
MutualExclusion ==
    \A t, u \in Threads : Holds(t) /\ Holds(u) => t = u

(* "here I'm sure someone is waiting after me, pass the lock to him and    *)
(* return" (lines 76-78): the thread whose wait flag mcs_unlock clears is  *)
(* the next one in line, and it is spinning on that flag.                  *)
PassesToWaiter ==
    \A t \in Threads :
        pc[t] = "u_pass" =>
            /\ Len(order) > 1
            /\ next[t] = order[2]
            /\ pc[order[2]] = "l_spin" /\ wait[order[2]] = 1

(* The nodes are on the stacks of their threads, so a thread stores to     *)
(* another's node only while that thread is inside mcs_lock or mcs_unlock  *)
(* or holds the lock, and pre->next is stored to before the predecessor    *)
(* decides that it has a follower.  (Lines 44, 78.)                        *)
StackNodesLive ==
    \A t \in Threads :
        /\ pc[t] = "l_link" => /\ pre[t] \in Threads
                               /\ pc[pre[t]] \in WaiterPcs \cup (HolderPcs \ {"u_pass"})
                               /\ next[pre[t]] = NULL
        /\ pc[t] = "u_pass" => next[t] \in Threads /\ pc[next[t]] \in WaiterPcs

IsLocked == tail # NULL

(* mcs_is_locked() is true as long as a thread holds the lock or waits for *)
(* it, also while the lock is being handed over, and only then.            *)
LockedIsTrue ==
    IsLocked <=> \E t \in Threads : pc[t] \in WaiterPcs \cup HolderPcs

(* The lock is granted to one thread at a time in the order of their       *)
(* fetch_and_store.                                                        *)
Lock == INSTANCE FifoLock WITH
    line <- order,
    stage <- [t \in Threads |-> IF pc[t] \in WaiterPcs THEN "waiting"
                                ELSE IF Holds(t) THEN "holding" ELSE "out"]

IsFifoLock == Lock!FifoLockSpec

(* No wait is for ever: a thread that called mcs_lock gets the lock, and   *)
(* mcs_unlock returns although it waits for a follower that is between its *)
(* fetch_and_store and its link.  (Lines 46-49, 66-73.)                    *)
LockAcquired == \A t \in Threads : (pc[t] = "l_next") ~> (pc[t] = "cs")
UnlockReturns == \A t \in Threads : (pc[t] = "u_check") ~> (pc[t] = "idle")
=============================================================================

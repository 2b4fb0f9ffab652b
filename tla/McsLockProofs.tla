--------------------------- MODULE McsLockProofs ---------------------------
(***************************************************************************)
(* The safety properties of McsLock, and that it implements FifoLock, for  *)
(* any number of threads.  They need that no thread brings a node with an  *)
(* old next pointer to mcs_trylock (SafeNodes): the run of                 *)
(* MCMcsTryLock.cfg shows what happens otherwise.                          *)
(***************************************************************************)
EXTENDS McsLock, SequenceTheorems, TLAPS

SafeNodes == Zeroed \/ TryThreads = {}

InLine == WaiterPcs \cup HolderPcs

(* A thread is in line once, and exactly from its fetch_and_store (or its  *)
(* successful try) to its release.                                         *)
LineIsQueue ==
    /\ \A i, j \in 1..Len(order) : order[i] = order[j] => i = j
    /\ \A i \in 1..Len(order) : pc[order[i]] \in InLine
    /\ \A t \in Threads : pc[t] \in InLine => \E i \in 1..Len(order) : order[i] = t
    /\ tail = IF Len(order) = 0 THEN NULL ELSE order[Len(order)]

(* The first has the lock or will see that it was given to it; all others  *)
(* wait, and know whom they wait for.                                      *)
OnlyFirstHolds ==
    /\ Len(order) > 0 =>
           \/ pc[order[1]] \in HolderPcs
           \/ pc[order[1]] = "l_spin" /\ wait[order[1]] = 0
    /\ \A i \in 2..Len(order) :
           /\ pc[order[i]] \in WaiterPcs
           /\ wait[order[i]] = 1
           /\ pc[order[i]] = "l_link" => pre[order[i]] = order[i - 1]

(* A node in line points to the next one if that has linked itself.        *)
NodesLinked ==
    /\ \A i \in 1..Len(order) : i < Len(order) =>
           next[order[i]] = IF pc[order[i + 1]] = "l_spin" THEN order[i + 1] ELSE NULL
    /\ Len(order) > 0 => next[order[Len(order)]] = NULL

(* What a thread has done or seen so far.                                  *)
NodePrepared ==
    \A t \in Threads :
        /\ pc[t] \in {"l_wait", "l_swap"} => next[t] = NULL
        /\ pc[t] = "l_swap" => wait[t] = 1
        /\ pc[t] = "u_wait" => tail # t
        /\ pc[t] = "u_pass" => next[t] # NULL

IInv == TypeOK /\ LineIsQueue /\ OnlyFirstHolds /\ NodesLinked /\ NodePrepared

-----------------------------------------------------------------------------

LEMMA OrderFacts ==
    ASSUME TypeOK
    PROVE  /\ Len(order) \in Nat
           /\ \A i \in 1..Len(order) : order[i] \in Threads
           /\ order = <<>> <=> Len(order) = 0
<1>1. order \in Seq(Threads)
  BY DEF TypeOK
<1>2. QED
  BY <1>1, LenProperties, ElementOfSeq, EmptySeq

LEMMA InitIInv == Init => IInv
<1> SUFFICES ASSUME Init PROVE IInv
  OBVIOUS
<1>1. order \in Seq(Threads) /\ Len(order) = 0
  BY EmptySeq DEF Init
<1>2. TypeOK
  BY <1>1 DEF Init, TypeOK
<1>3. LineIsQueue
  BY <1>1 DEF Init, LineIsQueue, InLine, WaiterPcs, HolderPcs
<1>4. OnlyFirstHolds /\ NodesLinked /\ NodePrepared
  BY <1>1 DEF Init, OnlyFirstHolds, NodesLinked, NodePrepared
<1>5. QED
  BY <1>2, <1>3, <1>4 DEF IInv

(* The thread that has the lock is the first in line.                      *)
LEMMA HolderIsFirst ==
    ASSUME IInv, NEW t \in Threads, pc[t] \in HolderPcs
    PROVE  Len(order) > 0 /\ order[1] = t
<1>1. PICK i \in 1..Len(order) : order[i] = t
  BY DEF IInv, LineIsQueue, InLine
<1>2. i = 1
  BY <1>1, OrderFacts DEF IInv, OnlyFirstHolds, WaiterPcs, HolderPcs
<1>3. QED
  BY <1>1, <1>2, OrderFacts DEF IInv

(* A thread that is about to link itself knows the one in front of it.     *)
LEMMA LinkerHasPredecessor ==
    ASSUME IInv, NEW t \in Threads, pc[t] = "l_link"
    PROVE  \E i \in 2..Len(order) : order[i] = t /\ pre[t] = order[i - 1]
<1>1. PICK i \in 1..Len(order) : order[i] = t
  BY DEF IInv, LineIsQueue, InLine, WaiterPcs
<1>2. i # 1
  BY <1>1, OrderFacts DEF IInv, OnlyFirstHolds, HolderPcs
<1>3. QED
  BY <1>1, <1>2, OrderFacts DEF IInv, OnlyFirstHolds

(* mynode->next says who follows the holder.                               *)
LEMMA NextIsFollower ==
    ASSUME IInv, NEW t \in Threads, pc[t] \in HolderPcs, next[t] # NULL
    PROVE  /\ Len(order) > 1
           /\ next[t] = order[2]
           /\ pc[order[2]] = "l_spin" /\ wait[order[2]] = 1
<1>1. Len(order) > 0 /\ order[1] = t
  BY HolderIsFirst
<1>2. Len(order) > 1
  BY <1>1, OrderFacts DEF IInv, NodesLinked
<1>3. QED
  BY <1>1, <1>2, OrderFacts DEF IInv, NodesLinked, OnlyFirstHolds

LEMMA LockCallKeeps ==
    ASSUME SafeNodes, IInv, NEW t \in Threads, LockCall(t)
    PROVE  IInv'
<1> USE McsAssumption, OrderFacts DEF IInv, LockCall, Goto, Bring
<1>1. TypeOK'
  BY DEF TypeOK, WaiterPcs, HolderPcs
<1>2. LineIsQueue'
  BY DEF TypeOK, LineIsQueue, InLine, WaiterPcs, HolderPcs
<1>3. OnlyFirstHolds'
  BY DEF TypeOK, LineIsQueue, OnlyFirstHolds, InLine, WaiterPcs, HolderPcs
<1>4. NodesLinked'
  BY DEF TypeOK, LineIsQueue, OnlyFirstHolds, NodesLinked, InLine, WaiterPcs,
         HolderPcs
<1>5. NodePrepared'
  BY DEF TypeOK, NodePrepared
<1>6. QED
  BY <1>1, <1>2, <1>3, <1>4, <1>5

LEMMA ClearNextKeeps ==
    ASSUME SafeNodes, IInv, NEW t \in Threads, ClearNext(t)
    PROVE  IInv'
<1> USE McsAssumption, OrderFacts DEF IInv, ClearNext, Goto
<1>1. TypeOK'
  BY DEF TypeOK, WaiterPcs, HolderPcs
<1>2. LineIsQueue'
  BY DEF TypeOK, LineIsQueue, InLine, WaiterPcs, HolderPcs
<1>3. OnlyFirstHolds'
  BY DEF TypeOK, LineIsQueue, OnlyFirstHolds, InLine, WaiterPcs, HolderPcs
<1>4. NodesLinked'
  BY DEF TypeOK, LineIsQueue, OnlyFirstHolds, NodesLinked, InLine, WaiterPcs,
         HolderPcs
<1>5. NodePrepared'
  BY DEF TypeOK, NodePrepared
<1>6. QED
  BY <1>1, <1>2, <1>3, <1>4, <1>5

LEMMA SetWaitKeeps ==
    ASSUME SafeNodes, IInv, NEW t \in Threads, SetWait(t)
    PROVE  IInv'
<1> USE McsAssumption, OrderFacts DEF IInv, SetWait, Goto
<1>1. TypeOK'
  BY DEF TypeOK, WaiterPcs, HolderPcs
<1>2. LineIsQueue'
  BY DEF TypeOK, LineIsQueue, InLine, WaiterPcs, HolderPcs
<1>3. OnlyFirstHolds'
  BY DEF TypeOK, LineIsQueue, OnlyFirstHolds, InLine, WaiterPcs, HolderPcs
<1>4. NodesLinked'
  BY DEF TypeOK, LineIsQueue, OnlyFirstHolds, NodesLinked, InLine, WaiterPcs,
         HolderPcs
<1>5. NodePrepared'
  BY DEF TypeOK, NodePrepared
<1>6. QED
  BY <1>1, <1>2, <1>3, <1>4, <1>5

LEMMA SwapKeeps ==
    ASSUME SafeNodes, IInv, NEW t \in Threads, Swap(t)
    PROVE  IInv'
<1> USE McsAssumption, OrderFacts DEF IInv, Swap, Goto
<1>1. /\ order' \in Seq(Threads)
      /\ Len(order') = Len(order) + 1
      /\ order'[Len(order) + 1] = t
      /\ \A i \in 1..Len(order) : order'[i] = order[i]
  BY AppendProperties DEF TypeOK
<1>2. \A i \in 1..Len(order) : order[i] # t
  BY DEF LineIsQueue, InLine, WaiterPcs, HolderPcs
<1>3. /\ \A u \in Threads : u # t => pc'[u] = pc[u] /\ pre'[u] = pre[u]
      /\ pc'[t] = IF Len(order) = 0 THEN "cs" ELSE "l_link"
      /\ Len(order) > 0 => pre'[t] = order[Len(order)]
  BY DEF TypeOK, LineIsQueue
<1>4. TypeOK'
  BY <1>1 DEF TypeOK, WaiterPcs, HolderPcs
<1>5. LineIsQueue'
  BY <1>1, <1>2, <1>3 DEF TypeOK, LineIsQueue, InLine, WaiterPcs, HolderPcs
<1>6. OnlyFirstHolds'
  <2>1. CASE Len(order) = 0
    BY <2>1, <1>1, <1>3 DEF OnlyFirstHolds, HolderPcs
  <2>2. CASE Len(order) > 0
    <3>1. \/ pc'[order'[1]] \in HolderPcs
          \/ pc'[order'[1]] = "l_spin" /\ wait'[order'[1]] = 0
      BY <2>2, <1>1, <1>2, <1>3 DEF OnlyFirstHolds
    <3>2. ASSUME NEW i \in 2..Len(order)
          PROVE  /\ pc'[order'[i]] \in WaiterPcs
                 /\ wait'[order'[i]] = 1
                 /\ pc'[order'[i]] = "l_link" => pre'[order'[i]] = order'[i - 1]
      <4>1. order'[i] = order[i] /\ order[i] \in Threads /\ order[i] # t
        BY <1>1, <1>2
      <4>2. order'[i - 1] = order[i - 1]
        BY <1>1
      <4>3. QED
        BY <4>1, <4>2, <1>3 DEF OnlyFirstHolds
    <3>3. /\ pc'[t] = "l_link" /\ wait'[t] = 1
          /\ pre'[t] = order'[Len(order)]
      BY <2>2, <1>1, <1>3 DEF NodePrepared
    <3>4. QED
      BY <2>2, <1>1, <3>1, <3>2, <3>3 DEF OnlyFirstHolds, WaiterPcs
  <2>3. QED
    BY <2>1, <2>2
<1>7. NodesLinked'
  <2>1. next'[order'[Len(order')]] = NULL
    BY <1>1 DEF NodePrepared
  <2>2. ASSUME NEW i \in 1..Len(order), i < Len(order)
        PROVE  next'[order'[i]] = IF pc'[order'[i + 1]] = "l_spin"
                                  THEN order'[i + 1] ELSE NULL
    <3>1. /\ order'[i] = order[i] /\ order'[i + 1] = order[i + 1]
          /\ order[i + 1] \in Threads /\ order[i + 1] # t
      BY <2>2, <1>1, <1>2
    <3>2. QED
      BY <2>2, <3>1, <1>3 DEF NodesLinked
  <2>3. Len(order) > 0 => /\ next'[order'[Len(order)]] = NULL
                          /\ pc'[order'[Len(order) + 1]] = "l_link"
    BY <1>1, <1>3 DEF NodesLinked
  <2>4. QED
    BY <1>1, <2>1, <2>2, <2>3 DEF NodesLinked
<1>8. NodePrepared'
  BY <1>3 DEF TypeOK, NodePrepared
<1>9. QED
  BY <1>4, <1>5, <1>6, <1>7, <1>8

LEMMA LinkKeeps ==
    ASSUME SafeNodes, IInv, NEW t \in Threads, Link(t)
    PROVE  IInv'
<1> USE McsAssumption, OrderFacts DEF IInv, Link, Goto
<1>1. PICK k \in 2..Len(order) : order[k] = t /\ pre[t] = order[k - 1]
  BY LinkerHasPredecessor
<1>2. pre[t] \in Threads /\ pc[pre[t]] \in InLine /\ pre[t] # t
  BY <1>1 DEF LineIsQueue
<1>3. TypeOK'
  BY DEF TypeOK, WaiterPcs, HolderPcs
<1>4. LineIsQueue'
  BY DEF TypeOK, LineIsQueue, InLine, WaiterPcs, HolderPcs
<1>5. OnlyFirstHolds'
  BY <1>1 DEF TypeOK, LineIsQueue, OnlyFirstHolds, WaiterPcs, HolderPcs
<1>6. NodesLinked'
  BY <1>1, <1>2 DEF TypeOK, LineIsQueue, NodesLinked
<1>7. NodePrepared'
  BY <1>2 DEF TypeOK, NodePrepared, InLine, WaiterPcs, HolderPcs
<1>8. QED
  BY <1>3, <1>4, <1>5, <1>6, <1>7

LEMMA StopSpinningKeeps ==
    ASSUME SafeNodes, IInv, NEW t \in Threads, StopSpinning(t)
    PROVE  IInv'
<1> USE McsAssumption, OrderFacts DEF IInv, StopSpinning, Goto
<1>1. TypeOK'
  BY DEF TypeOK, WaiterPcs, HolderPcs
<1>2. LineIsQueue'
  BY DEF TypeOK, LineIsQueue, InLine, WaiterPcs, HolderPcs
<1>3. OnlyFirstHolds'
  BY DEF TypeOK, LineIsQueue, OnlyFirstHolds, InLine, WaiterPcs, HolderPcs
<1>4. NodesLinked'
  BY DEF TypeOK, LineIsQueue, OnlyFirstHolds, NodesLinked, InLine, WaiterPcs,
         HolderPcs
<1>5. NodePrepared'
  BY DEF TypeOK, NodePrepared
<1>6. QED
  BY <1>1, <1>2, <1>3, <1>4, <1>5

LEMMA TryLockKeeps ==
    ASSUME SafeNodes, IInv, NEW t \in Threads, TryLock(t)
    PROVE  IInv'
<1> USE McsAssumption, OrderFacts DEF IInv, TryLock, Goto, Bring
<1>1. Zeroed
  BY DEF SafeNodes
<1>2. Len(order) = 0
  BY DEF LineIsQueue
<1>3. order' \in Seq(Threads) /\ Len(order') = 1 /\ order'[1] = t
  BY <1>2, AppendProperties DEF TypeOK
<1>4. next'[t] = NULL /\ pc'[t] = "cs"
  BY <1>1 DEF TypeOK
<1>5. TypeOK'
  BY <1>3 DEF TypeOK, HolderPcs
<1>6. LineIsQueue'
  BY <1>2, <1>3 DEF TypeOK, LineIsQueue, InLine, WaiterPcs, HolderPcs
<1>7. OnlyFirstHolds'
  BY <1>3, <1>4 DEF OnlyFirstHolds, HolderPcs
<1>8. NodesLinked'
  BY <1>3, <1>4 DEF NodesLinked
<1>9. NodePrepared'
  BY <1>4 DEF TypeOK, NodePrepared
<1>10. QED
  BY <1>5, <1>6, <1>7, <1>8, <1>9

LEMMA TryLockFailsKeeps ==
    ASSUME SafeNodes, IInv, NEW t \in Threads, TryLockFails(t)
    PROVE  IInv'
<1> USE McsAssumption, OrderFacts DEF IInv, TryLockFails, Goto, Bring
<1>1. TypeOK'
  BY DEF TypeOK, WaiterPcs, HolderPcs
<1>2. LineIsQueue'
  BY DEF TypeOK, LineIsQueue, InLine, WaiterPcs, HolderPcs
<1>3. OnlyFirstHolds'
  BY DEF TypeOK, LineIsQueue, OnlyFirstHolds, InLine, WaiterPcs, HolderPcs
<1>4. NodesLinked'
  BY DEF TypeOK, LineIsQueue, OnlyFirstHolds, NodesLinked, InLine, WaiterPcs,
         HolderPcs
<1>5. NodePrepared'
  BY DEF TypeOK, NodePrepared
<1>6. QED
  BY <1>1, <1>2, <1>3, <1>4, <1>5

LEMMA UnlockCallKeeps ==
    ASSUME SafeNodes, IInv, NEW t \in Threads, UnlockCall(t)
    PROVE  IInv'
<1> USE McsAssumption, OrderFacts DEF IInv, UnlockCall, Goto
<1>1. TypeOK'
  BY DEF TypeOK, WaiterPcs, HolderPcs
<1>2. LineIsQueue'
  BY DEF TypeOK, LineIsQueue, InLine, WaiterPcs, HolderPcs
<1>3. OnlyFirstHolds'
  BY DEF TypeOK, LineIsQueue, OnlyFirstHolds, InLine, WaiterPcs, HolderPcs
<1>4. NodesLinked'
  BY DEF TypeOK, LineIsQueue, OnlyFirstHolds, NodesLinked, InLine, WaiterPcs,
         HolderPcs
<1>5. NodePrepared'
  BY DEF TypeOK, NodePrepared
<1>6. QED
  BY <1>1, <1>2, <1>3, <1>4, <1>5

LEMMA CheckNextKeeps ==
    ASSUME SafeNodes, IInv, NEW t \in Threads, CheckNext(t)
    PROVE  IInv'
<1> USE McsAssumption, OrderFacts DEF IInv, CheckNext, Goto
<1>1. TypeOK'
  BY DEF TypeOK, WaiterPcs, HolderPcs
<1>2. LineIsQueue'
  BY DEF TypeOK, LineIsQueue, InLine, WaiterPcs, HolderPcs
<1>3. OnlyFirstHolds'
  BY DEF TypeOK, LineIsQueue, OnlyFirstHolds, InLine, WaiterPcs, HolderPcs
<1>4. NodesLinked'
  BY DEF TypeOK, LineIsQueue, OnlyFirstHolds, NodesLinked, InLine, WaiterPcs,
         HolderPcs
<1>5. NodePrepared'
  BY DEF TypeOK, NodePrepared
<1>6. QED
  BY <1>1, <1>2, <1>3, <1>4, <1>5

LEMMA ReleaseLastKeeps ==
    ASSUME SafeNodes, IInv, NEW t \in Threads, ReleaseLast(t)
    PROVE  IInv'
<1> USE McsAssumption, OrderFacts DEF IInv, ReleaseLast, Goto
<1>1. Len(order) > 0 /\ order[1] = t
  BY HolderIsFirst DEF HolderPcs
<1>2. Len(order) = 1
  <2>1. order[Len(order)] = order[1]
    BY <1>1 DEF LineIsQueue
  <2>2. Len(order) \in 1..Len(order) /\ 1 \in 1..Len(order)
    BY <1>1
  <2>3. QED
    BY <2>1, <2>2 DEF LineIsQueue
<1>3. order' \in Seq(Threads) /\ Len(order') = 0
  BY <1>2, HeadTailProperties DEF TypeOK
<1>4. TypeOK'
  BY <1>3 DEF TypeOK
<1>5. LineIsQueue'
  BY <1>1, <1>2, <1>3 DEF TypeOK, LineIsQueue, InLine, WaiterPcs, HolderPcs
<1>6. OnlyFirstHolds' /\ NodesLinked'
  BY <1>3 DEF OnlyFirstHolds, NodesLinked
<1>7. NodePrepared'
  BY DEF TypeOK, NodePrepared
<1>8. QED
  BY <1>4, <1>5, <1>6, <1>7

LEMMA ReleaseLastFailsKeeps ==
    ASSUME SafeNodes, IInv, NEW t \in Threads, ReleaseLastFails(t)
    PROVE  IInv'
<1> USE McsAssumption, OrderFacts DEF IInv, ReleaseLastFails, Goto
<1>1. TypeOK'
  BY DEF TypeOK, WaiterPcs, HolderPcs
<1>2. LineIsQueue'
  BY DEF TypeOK, LineIsQueue, InLine, WaiterPcs, HolderPcs
<1>3. OnlyFirstHolds'
  BY DEF TypeOK, LineIsQueue, OnlyFirstHolds, InLine, WaiterPcs, HolderPcs
<1>4. NodesLinked'
  BY DEF TypeOK, LineIsQueue, OnlyFirstHolds, NodesLinked, InLine, WaiterPcs,
         HolderPcs
<1>5. NodePrepared'
  BY DEF TypeOK, NodePrepared
<1>6. QED
  BY <1>1, <1>2, <1>3, <1>4, <1>5

LEMMA SeeFollowerKeeps ==
    ASSUME SafeNodes, IInv, NEW t \in Threads, SeeFollower(t)
    PROVE  IInv'
<1> USE McsAssumption, OrderFacts DEF IInv, SeeFollower, Goto
<1>1. TypeOK'
  BY DEF TypeOK, WaiterPcs, HolderPcs
<1>2. LineIsQueue'
  BY DEF TypeOK, LineIsQueue, InLine, WaiterPcs, HolderPcs
<1>3. OnlyFirstHolds'
  BY DEF TypeOK, LineIsQueue, OnlyFirstHolds, InLine, WaiterPcs, HolderPcs
<1>4. NodesLinked'
  BY DEF TypeOK, LineIsQueue, OnlyFirstHolds, NodesLinked, InLine, WaiterPcs,
         HolderPcs
<1>5. NodePrepared'
  BY DEF TypeOK, NodePrepared
<1>6. QED
  BY <1>1, <1>2, <1>3, <1>4, <1>5

LEMMA PassLockKeeps ==
    ASSUME SafeNodes, IInv, NEW t \in Threads, PassLock(t)
    PROVE  IInv'
<1> USE McsAssumption, OrderFacts DEF IInv, PassLock, Goto
<1>1. Len(order) > 0 /\ order[1] = t
  BY HolderIsFirst DEF HolderPcs
<1>2. /\ Len(order) > 1
      /\ next[t] = order[2]
      /\ pc[order[2]] = "l_spin"
  BY NextIsFollower DEF HolderPcs, NodePrepared
<1>3. /\ order' \in Seq(Threads)
      /\ Len(order') = Len(order) - 1
      /\ \A i \in 1..Len(order') : order'[i] = order[i + 1]
  BY <1>1, HeadTailProperties DEF TypeOK
<1>4. \A i \in 1..Len(order') : order'[i] \in Threads /\ order'[i] # t
  BY <1>1, <1>3 DEF LineIsQueue
<1>5. /\ \A u \in Threads : u # t => pc'[u] = pc[u] /\ pre'[u] = pre[u]
      /\ \A u \in Threads : u # order[2] => wait'[u] = wait[u]
      /\ wait'[order[2]] = 0
      /\ pc'[t] = "idle"
  BY <1>2 DEF TypeOK
<1>6. TypeOK'
  BY <1>3 DEF TypeOK
<1>7. LineIsQueue'
  <2>1. \A i, j \in 1..Len(order') : order'[i] = order'[j] => i = j
    BY <1>3 DEF LineIsQueue
  <2>2. \A i \in 1..Len(order') : pc'[order'[i]] \in InLine
    BY <1>3, <1>4, <1>5 DEF LineIsQueue
  <2>3. ASSUME NEW u \in Threads, pc'[u] \in InLine
        PROVE  \E i \in 1..Len(order') : order'[i] = u
    <3>1. u # t /\ pc[u] \in InLine
      BY <2>3, <1>5 DEF InLine, WaiterPcs, HolderPcs
    <3>2. PICK j \in 1..Len(order) : order[j] = u
      BY <3>1 DEF LineIsQueue
    <3>3. j - 1 \in 1..Len(order') /\ order'[j - 1] = u
      BY <3>1, <3>2, <1>1, <1>3
    <3>4. QED
      BY <3>3
  <2>4. tail' = IF Len(order') = 0 THEN NULL ELSE order'[Len(order')]
    BY <1>2, <1>3 DEF LineIsQueue
  <2>5. QED
    BY <2>1, <2>2, <2>3, <2>4 DEF LineIsQueue
<1>8. OnlyFirstHolds'
  <2>1. pc'[order'[1]] = "l_spin" /\ wait'[order'[1]] = 0
    BY <1>2, <1>3, <1>4, <1>5
  <2>2. ASSUME NEW i \in 2..Len(order')
        PROVE  /\ pc'[order'[i]] \in WaiterPcs
               /\ wait'[order'[i]] = 1
               /\ pc'[order'[i]] = "l_link" => pre'[order'[i]] = order'[i - 1]
    <3>1. /\ i + 1 \in 2..Len(order)
          /\ order'[i] = order[i + 1] /\ order'[i - 1] = order[i]
      BY <1>3
    <3>2. order[i + 1] \in Threads /\ order[i + 1] # t /\ order[i + 1] # order[2]
      BY <3>1, <1>1 DEF LineIsQueue
    <3>3. QED
      BY <3>1, <3>2, <1>5 DEF OnlyFirstHolds
  <2>3. QED
    BY <2>1, <2>2 DEF OnlyFirstHolds
<1>9. NodesLinked'
  <2>1. ASSUME NEW i \in 1..Len(order'), i < Len(order')
        PROVE  next'[order'[i]] = IF pc'[order'[i + 1]] = "l_spin"
                                  THEN order'[i + 1] ELSE NULL
    <3>1. /\ i + 1 \in 1..Len(order) /\ i + 1 < Len(order)
          /\ order'[i] = order[i + 1] /\ order'[i + 1] = order[(i + 1) + 1]
      BY <2>1, <1>3
    <3>2. i + 1 \in 1..Len(order')
      BY <2>1, <1>3
    <3>3. pc'[order'[i + 1]] = pc[order'[i + 1]]
      BY <3>2, <1>4, <1>5
    <3>4. QED
      BY <3>1, <3>3 DEF NodesLinked
  <2>2. next'[order'[Len(order')]] = NULL
    BY <1>2, <1>3 DEF NodesLinked
  <2>3. QED
    BY <2>1, <2>2 DEF NodesLinked
<1>10. NodePrepared'
  <2>1. ASSUME NEW u \in Threads
        PROVE  /\ pc'[u] \in {"l_wait", "l_swap"} => next'[u] = NULL
               /\ pc'[u] = "l_swap" => wait'[u] = 1
               /\ pc'[u] = "u_pass" => next'[u] # NULL
    BY <1>2, <1>5 DEF NodePrepared
  <2>2. QED
    BY <2>1 DEF NodePrepared
<1>11. QED
  BY <1>6, <1>7, <1>8, <1>9, <1>10

-----------------------------------------------------------------------------

LEMMA NextIInv == SafeNodes /\ IInv /\ [Next]_vars => IInv'
<1> SUFFICES ASSUME SafeNodes, IInv, [Next]_vars PROVE IInv'
  OBVIOUS
<1>1. CASE UNCHANGED vars
  BY <1>1 DEF vars, IInv, TypeOK, LineIsQueue, OnlyFirstHolds, NodesLinked,
         NodePrepared
<1>2. ASSUME NEW t \in Threads, LockCall(t) \/ LockStep(t)
      PROVE  IInv'
  BY <1>2, LockCallKeeps, ClearNextKeeps, SetWaitKeeps, SwapKeeps, LinkKeeps,
     StopSpinningKeeps DEF LockStep
<1>3. ASSUME NEW t \in Threads, TryLock(t) \/ TryLockFails(t)
      PROVE  IInv'
  BY <1>3, TryLockKeeps, TryLockFailsKeeps
<1>4. ASSUME NEW t \in Threads, UnlockCall(t) \/ UnlockStep(t)
      PROVE  IInv'
  BY <1>4, UnlockCallKeeps, CheckNextKeeps, ReleaseLastKeeps,
     ReleaseLastFailsKeeps, SeeFollowerKeeps, PassLockKeeps DEF UnlockStep
<1>5. QED
  BY <1>1, <1>2, <1>3, <1>4 DEF Next

(* In every reachable state the line, the nodes and the places of the      *)
(* threads agree as IInv says, for any number of threads.                  *)
THEOREM Invariance == ASSUME SafeNodes PROVE Spec => []IInv
<1>1. Init => IInv
  BY InitIInv
<1>2. IInv /\ [Next]_vars => IInv'
  BY NextIInv
<1>3. QED
  BY <1>1, <1>2, PTL DEF Spec

(* Every variable keeps its type: lock->tail and the local pre of mcs_lock *)
(* are always NULL or some thread's node, never an uninitialized pointer.  *)
THEOREM TypeCorrect == ASSUME SafeNodes PROVE Spec => []TypeOK
<1>1. IInv => TypeOK
  BY DEF IInv
<1>2. QED
  BY <1>1, Invariance, PTL

(* mcs_lock and mcs_trylock let one thread at a time in.                   *)
THEOREM Exclusion == ASSUME SafeNodes PROVE Spec => []MutualExclusion
<1>1. IInv => MutualExclusion
  BY HolderIsFirst DEF MutualExclusion, Holds
<1>2. QED
  BY <1>1, Invariance, PTL

(* The comment of lines 76-78 is right: whoever mcs_unlock passes the lock *)
(* to is next in line and spins on the flag that it clears.                *)
THEOREM HandOver == ASSUME SafeNodes PROVE Spec => []PassesToWaiter
<1>1. IInv => PassesToWaiter
  BY NextIsFollower DEF IInv, NodePrepared, PassesToWaiter, HolderPcs
<1>2. QED
  BY <1>1, Invariance, PTL

(* The stores to another thread's node find that node on the stack of a    *)
(* thread that has not left the lock.                                      *)
THEOREM NodesAreLive == ASSUME SafeNodes PROVE Spec => []StackNodesLive
<1>1. IInv => StackNodesLive
  <2> SUFFICES ASSUME IInv, NEW t \in Threads
               PROVE  /\ pc[t] = "l_link" =>
                             /\ pre[t] \in Threads
                             /\ pc[pre[t]] \in WaiterPcs \cup (HolderPcs \ {"u_pass"})
                             /\ next[pre[t]] = NULL
                      /\ pc[t] = "u_pass" =>
                             next[t] \in Threads /\ pc[next[t]] \in WaiterPcs
    BY DEF StackNodesLive
  <2> USE OrderFacts DEF IInv
  <2>1. ASSUME pc[t] = "l_link"
        PROVE  /\ pre[t] \in Threads
               /\ pc[pre[t]] \in WaiterPcs \cup (HolderPcs \ {"u_pass"})
               /\ next[pre[t]] = NULL
    <3>1. PICK i \in 2..Len(order) : order[i] = t /\ pre[t] = order[i - 1]
      BY <2>1, LinkerHasPredecessor
    <3>2. pre[t] \in Threads /\ pc[pre[t]] \in InLine
      BY <3>1 DEF LineIsQueue
    <3>3. next[pre[t]] = NULL
      BY <2>1, <3>1 DEF NodesLinked
    <3>4. QED
      BY <3>2, <3>3 DEF NodePrepared, InLine
  <2>2. ASSUME pc[t] = "u_pass"
        PROVE  next[t] \in Threads /\ pc[next[t]] \in WaiterPcs
    BY <2>2, NextIsFollower DEF NodePrepared, HolderPcs, WaiterPcs
  <2>3. QED
    BY <2>1, <2>2
<1>2. QED
  BY <1>1, Invariance, PTL

(* mcs_is_locked() is true exactly if some thread has the lock or is in    *)
(* line for it.                                                            *)
THEOREM IsLockedIsRight == ASSUME SafeNodes PROVE Spec => []LockedIsTrue
<1>1. IInv => LockedIsTrue
  BY OrderFacts, McsAssumption
     DEF IInv, LineIsQueue, InLine, LockedIsTrue, IsLocked
<1>2. QED
  BY <1>1, Invariance, PTL

-----------------------------------------------------------------------------

(* What FifoLock calls the stage of each thread.                           *)
Stage == [t \in Threads |-> IF pc[t] \in WaiterPcs THEN "waiting"
                           ELSE IF Holds(t) THEN "holding" ELSE "out"]

LEMMA StageOf ==
    ASSUME TypeOK, NEW t \in Threads, NEW p, pc' = [pc EXCEPT ![t] = p]
    PROVE  Stage' = [Stage EXCEPT ![t] = IF p \in WaiterPcs THEN "waiting"
                                         ELSE IF p \in HolderPcs THEN "holding" ELSE "out"]
  BY DEF TypeOK, Stage, Holds

LEMMA RequestStep ==
    ASSUME IInv, NEW t \in Threads, Swap(t) \/ TryLock(t)
    PROVE  Lock!Request(t)
<1> USE McsAssumption, OrderFacts DEF IInv, Swap, TryLock, Goto
<1>1. tail = NULL <=> order = <<>>
  BY DEF LineIsQueue
<1>2. Stage[t] = "out"
  BY DEF Stage, Holds, WaiterPcs, HolderPcs
<1>3. Stage' = [Stage EXCEPT ![t] = IF order = <<>> THEN "holding" ELSE "waiting"]
  BY <1>1, StageOf DEF WaiterPcs, HolderPcs
<1>4. QED
  BY <1>2, <1>3 DEF Lock!Request, Stage

LEMMA GrantStep ==
    ASSUME IInv, NEW t \in Threads, StopSpinning(t)
    PROVE  Lock!Grant(t)
<1> USE OrderFacts DEF IInv, StopSpinning, Goto
<1>1. PICK i \in 1..Len(order) : order[i] = t
  BY DEF LineIsQueue, InLine, WaiterPcs
<1>2. i = 1
  BY <1>1 DEF OnlyFirstHolds
<1>3. Head(order) = t
  BY <1>1, <1>2 DEF TypeOK
<1>4. Stage[t] = "waiting" /\ Stage' = [Stage EXCEPT ![t] = "holding"]
  BY StageOf DEF Stage, WaiterPcs, HolderPcs
<1>5. QED
  BY <1>3, <1>4 DEF Lock!Grant, Stage

LEMMA ReleaseStep ==
    ASSUME IInv, NEW t \in Threads, ReleaseLast(t) \/ PassLock(t)
    PROVE  Lock!Release(t)
<1>1. /\ pc[t] \in HolderPcs
      /\ pc' = [pc EXCEPT ![t] = "idle"]
      /\ order' = Tail(order)
  BY DEF ReleaseLast, PassLock, Goto, HolderPcs
<1>2. Stage[t] = "holding"
  BY <1>1 DEF Stage, Holds, WaiterPcs, HolderPcs
<1>3. Stage' = [Stage EXCEPT ![t] = "out"]
  <2>1. "idle" \notin WaiterPcs /\ "idle" \notin HolderPcs
    BY DEF WaiterPcs, HolderPcs
  <2>2. QED
    BY <1>1, <2>1, StageOf DEF IInv
<1>4. QED
  BY <1>1, <1>2, <1>3 DEF Lock!Release, Stage

(* The other steps of mcs_lock, mcs_trylock and mcs_unlock are internal.   *)
LEMMA InternalStep ==
    ASSUME IInv, NEW t \in Threads,
           \/ LockCall(t) \/ ClearNext(t) \/ SetWait(t) \/ Link(t)
           \/ TryLockFails(t) \/ UnlockCall(t) \/ CheckNext(t)
           \/ ReleaseLastFails(t) \/ SeeFollower(t)
    PROVE  UNCHANGED <<order, Stage>>
<1> USE DEF IInv, TypeOK, Stage, Holds, Goto, WaiterPcs, HolderPcs
<1>1. CASE LockCall(t) \/ ClearNext(t) \/ SetWait(t) \/ Link(t) \/ TryLockFails(t)
  BY <1>1 DEF LockCall, ClearNext, SetWait, Link, TryLockFails
<1>2. CASE \/ UnlockCall(t) \/ CheckNext(t) \/ ReleaseLastFails(t)
           \/ SeeFollower(t)
  BY <1>2 DEF UnlockCall, CheckNext, ReleaseLastFails, SeeFollower
<1>3. QED
  BY <1>1, <1>2

(* mcs_lock.h is a lock that is granted in the order of the requests: each *)
(* step is a request, a grant or a release of FifoLock, or internal.       *)
THEOREM ImplementsFifoLock == ASSUME SafeNodes PROVE Spec => IsFifoLock
<1>1. Init => Lock!FifoLockInit
  BY DEF Init, Lock!FifoLockInit, Holds, WaiterPcs, HolderPcs
<1>2. IInv /\ [Next]_vars => [Lock!FifoLockNext]_Lock!fifoLockVars
  <2> SUFFICES ASSUME IInv, [Next]_vars
               PROVE  Lock!FifoLockNext \/ UNCHANGED <<order, Stage>>
    BY DEF Lock!fifoLockVars, Stage
  <2>1. CASE UNCHANGED vars
    BY <2>1 DEF vars, Stage, Holds
  <2>2. ASSUME NEW t \in Threads,
               Swap(t) \/ TryLock(t) \/ StopSpinning(t) \/ ReleaseLast(t) \/ PassLock(t)
        PROVE  Lock!FifoLockNext
    BY <2>2, RequestStep, GrantStep, ReleaseStep DEF Lock!FifoLockNext
  <2>3. ASSUME NEW t \in Threads,
               \/ LockCall(t) \/ ClearNext(t) \/ SetWait(t) \/ Link(t)
               \/ TryLockFails(t) \/ UnlockCall(t) \/ CheckNext(t)
               \/ ReleaseLastFails(t) \/ SeeFollower(t)
        PROVE  UNCHANGED <<order, Stage>>
    BY <2>3, InternalStep
  <2>4. QED
    BY <2>1, <2>2, <2>3 DEF Next, LockStep, UnlockStep
<1>3. QED
  BY <1>1, <1>2, Invariance, PTL DEF Spec, IsFifoLock, Lock!FifoLockSpec

-----------------------------------------------------------------------------
(* No deadlock.  The code waits in two places, and the wait of mcs_lock    *)
(* ends with a step of the predecessor in line, that of mcs_unlock with    *)
(* one of the follower: two threads that wait for each other would do so   *)
(* for ever.                                                               *)

\* while (mynode->wait), while (mynode->next == NULL): the loop goes on.
Spins(t) ==
    \/ pc[t] = "l_spin" /\ wait[t] = 1
    \/ pc[t] = "u_wait" /\ next[t] = NULL

\* u has to take a step before t can leave its loop.
WaitsFor(t, u) ==
    \/ /\ pc[t] = "l_spin" /\ wait[t] = 1
       /\ \E i \in 2..Len(order) : order[i] = t /\ order[i - 1] = u
    \/ /\ pc[t] = "u_wait" /\ next[t] = NULL
       /\ Len(order) > 1 /\ u = order[2]

(* Whoever spins waits for its neighbour in line, and those in front of    *)
(* the line get it moving: the first does not spin, or it spins for a      *)
(* second that does not, being just about to store its address.            *)
LineMoves ==
    /\ \A t \in Threads : Spins(t) => \E u \in Threads : WaitsFor(t, u)
    /\ Len(order) > 0 =>
           \/ ~Spins(order[1])
           \/ /\ Len(order) > 1 /\ WaitsFor(order[1], order[2])
              /\ pc[order[2]] = "l_link" /\ pre[order[2]] = order[1]

(* mcs_lock and mcs_unlock never deadlock (lines 46-49, 66-73).            *)
THEOREM NoDeadlock == ASSUME SafeNodes PROVE Spec => []LineMoves
<1>1. ASSUME IInv PROVE LineMoves
  <2> USE <1>1, McsAssumption, OrderFacts DEF IInv
  <2>1. ASSUME NEW t \in Threads, pc[t] = "u_wait", next[t] = NULL
        PROVE  /\ Len(order) > 1 /\ order[1] = t /\ order[2] \in Threads
               /\ pc[order[2]] = "l_link" /\ pre[order[2]] = order[1]
    <3>1. Len(order) > 0 /\ order[1] = t
      BY <2>1, HolderIsFirst DEF HolderPcs
    <3>2. Len(order) > 1
      BY <2>1, <3>1 DEF LineIsQueue, NodePrepared
    <3>3. QED
      BY <2>1, <3>1, <3>2 DEF OnlyFirstHolds, NodesLinked, WaiterPcs
  <2>2. ASSUME NEW t \in Threads, pc[t] = "l_spin", wait[t] = 1
        PROVE  \E i \in 2..Len(order) : order[i] = t /\ order[i - 1] \in Threads
    <3>1. PICK i \in 1..Len(order) : order[i] = t
      BY <2>2 DEF LineIsQueue, InLine, WaiterPcs
    <3>2. i # 1
      BY <2>2, <3>1 DEF OnlyFirstHolds, HolderPcs
    <3>3. QED
      BY <3>1, <3>2
  <2>3. ASSUME NEW t \in Threads, Spins(t)
        PROVE  \E u \in Threads : WaitsFor(t, u)
    BY <2>1, <2>2, <2>3 DEF Spins, WaitsFor
  <2>4. ASSUME Len(order) > 0, Spins(order[1])
        PROVE  /\ Len(order) > 1 /\ WaitsFor(order[1], order[2])
               /\ pc[order[2]] = "l_link" /\ pre[order[2]] = order[1]
    <3>1. order[1] \in Threads
      BY <2>4
    <3>2. pc[order[1]] = "u_wait" /\ next[order[1]] = NULL
      BY <2>4 DEF Spins, OnlyFirstHolds, HolderPcs
    <3>3. QED
      BY <2>1, <3>1, <3>2 DEF WaitsFor
  <2>5. QED
    BY <2>3, <2>4 DEF LineMoves
<1>2. QED
  BY <1>1, Invariance, PTL
=============================================================================

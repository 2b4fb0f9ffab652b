------------------------- MODULE MpmcProgressProofs -------------------------
(***************************************************************************)
(* mpmc_queue.h is lock-free for any number of threads, nodes and values   *)
(* and any width of the versions, if the allocator does not hand out a     *)
(* freed node again while a thread still holds its address: whoever starts *)
(* over has been overtaken, and each of the steps in which an operation    *)
(* takes effect lets every other thread be overtaken once.                 *)
(***************************************************************************)
EXTENDS MpmcProgress, MpmcQueueProofs

(* What a thread has read in this round of its loop is still so.           *)
UpToDate(t) ==
    /\ pc[t] \in TailReadPcs \cup DeqTailPcs => mytail[t].ptr = tail.ptr
    /\ pc[t] \in (TailReadPcs \cup DeqTailPcs) \ {"e_tailv", "d_tailv"} =>
           mytail[t].version = tail.version
    /\ pc[t] \in NextReadPcs => mynext[t].ptr = next[tail.ptr].ptr
    /\ pc[t] \in NextReadPcs \ {"e_nextv"} =>
           mynext[t].version = next[tail.ptr].version
    /\ pc[t] \in DeqHeadPcs => myhead[t].ptr = head.ptr
    /\ pc[t] \in DeqHeadPcs \ {"d_headv"} => myhead[t].version = head.version

(* How often the head, the tail and the list have moved: each enqueue      *)
(* moves the tail, but the last one may not have done so yet.              *)
Lag == IF tail.ptr = Last THEN 0 ELSE 1
Effects == (2 * linked + taken) - Lag

ProgressInv ==
    /\ IInv
    /\ retries \in Nat /\ linked \in Nat /\ taken \in Nat
    /\ Lag <= linked
    /\ linked + taken > 0 => Threads # {}
    /\ overtaken \subseteq {t \in Threads : pc[t] \in LoopBodies}
    /\ \A t \in Threads \ overtaken : UpToDate(t)
    /\ retries + Cardinality(overtaken) <= (Cardinality(Threads) - 1) * Effects

-----------------------------------------------------------------------------
(* The two kinds of steps.                                                 *)

\* Of the variables of the threads, only those of t change.
Alone(t) ==
    \A u \in Threads \ {t} :
        /\ pc'[u] = pc[u] /\ myhead'[u] = myhead[u] /\ mytail'[u] = mytail[u]
        /\ mynext'[u] = mynext[u]

\* The queue stays where it is, and t starts over only if it was overtaken.
StaysPut(t) ==
    /\ Alone(t)
    /\ UNCHANGED <<head, tail, chain>>
    /\ \A n \in Linked : next'[n] = next[n]
    /\ UpToDate(t) => UpToDate(t)' /\ ~StartsOver(t)

\* An enqueue takes effect, a dequeue does, or the tail catches up.
Appends(t) ==
    /\ Len(chain') = Len(chain) + 1 /\ ~StartsOver(t)
    /\ tail' = tail /\ tail.ptr = Last /\ tail.ptr # Last'
Removes(t) ==
    /\ Len(chain') = Len(chain) - 1 /\ ~StartsOver(t)
    /\ tail' = tail /\ Last' = Last
CatchesUp(t) ==
    /\ chain' = chain
    /\ tail.ptr # Last /\ tail'.ptr = Last
    /\ StartsOver(t) => \E u \in Threads \ {t} : pc[u] = "e_swing"

MovesOn(t) ==
    /\ Alone(t)
    /\ pc'[t] \notin LoopBodies
    /\ Appends(t) \/ Removes(t) \/ CatchesUp(t)

(* Outside the loops there is nothing that could get out of date.          *)
LEMMA NothingRead ==
    ASSUME NEW t \in Threads
    PROVE  /\ pc[t] \notin LoopBodies => UpToDate(t)
           /\ pc'[t] \notin LoopBodies => UpToDate(t)'
           /\ pc[t] \notin LoopBodies => ~StartsOver(t)
           /\ pc'[t] \in LoopBodies => ~StartsOver(t)
  BY DEF UpToDate, StartsOver, LoopBodies, LoopTops, EnqueuePcs, DequeuePcs,
     TailReadPcs, NextReadPcs, DeqHeadPcs, DeqTailPcs

(* A step outside the loops that leaves the queue where it is.             *)
LEMMA OutsideStaysPut ==
    ASSUME NEW t \in Threads, Alone(t), UNCHANGED <<head, tail, chain>>,
           \A n \in Linked : next'[n] = next[n],
           pc[t] \notin LoopBodies, pc'[t] \notin LoopBodies
    PROVE  StaysPut(t)
  BY NothingRead DEF StaysPut

(* Starting over for a reason, without any effect.                         *)
LEMMA RetryStaysPut ==
    ASSUME TypeOK, NEW t \in Threads, NEW from \in LoopBodies, Retry(t, from),
           UNCHANGED <<head, tail, next, chain>>, ~UpToDate(t)
    PROVE  StaysPut(t)
<1>1. Alone(t)
  BY DEF Alone, Retry, Goto, ForgetPointers, TypeOK
<1>2. QED
  BY <1>1 DEF StaysPut

-----------------------------------------------------------------------------
(* The steps of an enqueue.                                                *)

LEMMA EnqueueReadMoves ==
    ASSUME IInv, NEW t \in Threads, EnqueueRead(t)
    PROVE  StaysPut(t)
<1> USE DEF IInv
<1>1. CASE ReadTailPtr(t, "e_tailp", "e_tailv")
  <2> USE <1>1 DEF ReadTailPtr, Goto, shared, history
  <2>1. Alone(t) /\ pc'[t] = "e_tailv" /\ mytail'[t].ptr = tail.ptr
    BY DEF Alone, TypeOK, VersionedPointer
  <2>2. UpToDate(t)' /\ ~StartsOver(t)
    BY <2>1 DEF UpToDate, StartsOver, LoopTops, TailReadPcs, NextReadPcs,
       DequeuePcs, DeqHeadPcs, DeqTailPcs
  <2>3. QED
    BY <2>1, <2>2 DEF StaysPut
<1>2. CASE ReadTailVersion(t, "e_tailv", "e_nextp")
  <2> USE <1>2 DEF ReadTailVersion, Goto, shared, history
  <2>1. /\ Alone(t) /\ pc[t] = "e_tailv" /\ pc'[t] = "e_nextp"
        /\ mytail'[t].ptr = mytail[t].ptr /\ mytail'[t].version = tail.version
    BY DEF Alone, TypeOK, VersionedPointer
  <2>2. UpToDate(t) => UpToDate(t)' /\ ~StartsOver(t)
    BY <2>1 DEF UpToDate, StartsOver, LoopTops, TailReadPcs, NextReadPcs,
       DequeuePcs, DeqHeadPcs, DeqTailPcs
  <2>3. QED
    BY <2>1, <2>2 DEF StaysPut
<1>3. CASE ReadNextPtr(t, mytail[t].ptr, "e_nextp", "e_nextv")
  <2> USE <1>3 DEF ReadNextPtr, Goto, shared, history
  <2>1. /\ Alone(t) /\ pc[t] = "e_nextp" /\ pc'[t] = "e_nextv"
        /\ mynext'[t].ptr = next[mytail[t].ptr].ptr
    BY DEF Alone, TypeOK, VersionedPointer
  <2>2. UpToDate(t) => UpToDate(t)' /\ ~StartsOver(t)
    BY <2>1 DEF UpToDate, StartsOver, LoopTops, TailReadPcs, NextReadPcs,
       DequeuePcs, DeqHeadPcs, DeqTailPcs
  <2>3. QED
    BY <2>1, <2>2 DEF StaysPut
<1>4. CASE ReadNextVersion(t, mytail[t].ptr, "e_nextv", "e_chkp")
  <2> USE <1>4 DEF ReadNextVersion, Goto, shared, history
  <2>1. /\ Alone(t) /\ pc[t] = "e_nextv" /\ pc'[t] = "e_chkp"
        /\ mynext'[t].ptr = mynext[t].ptr
        /\ mynext'[t].version = next[mytail[t].ptr].version
    BY DEF Alone, TypeOK, VersionedPointer
  <2>2. UpToDate(t) => UpToDate(t)' /\ ~StartsOver(t)
    BY <2>1 DEF UpToDate, StartsOver, LoopTops, TailReadPcs, NextReadPcs,
       DequeuePcs, DeqHeadPcs, DeqTailPcs
  <2>3. QED
    BY <2>1, <2>2 DEF StaysPut
<1>5. CASE Compare(t, mytail[t].ptr, tail.ptr, "e_chkp", "e_chkv")
  <2> USE <1>5 DEF Compare, Goto, shared, history
  <2>1. CASE mytail[t].ptr = tail.ptr
    <3>1. Alone(t) /\ pc[t] = "e_chkp" /\ pc'[t] = "e_chkv"
      BY <2>1 DEF Alone, TypeOK
    <3>2. UpToDate(t) => UpToDate(t)' /\ ~StartsOver(t)
      BY <2>1, <3>1 DEF UpToDate, StartsOver, LoopTops, TailReadPcs, NextReadPcs,
         DequeuePcs, DeqHeadPcs, DeqTailPcs
    <3>3. QED
      BY <2>1, <3>1, <3>2 DEF StaysPut
  <2>2. CASE mytail[t].ptr # tail.ptr
    <3>1. Retry(t, "e_chkp") /\ pc[t] = "e_chkp"
      BY <2>2 DEF Retry
    <3>2. ~UpToDate(t) /\ "e_chkp" \in LoopBodies
      BY <2>2, <3>1 DEF UpToDate, TailReadPcs, LoopBodies, LoopTops, EnqueuePcs
    <3>3. QED
      BY <3>1, <3>2, RetryStaysPut
  <2>3. QED
    BY <2>1, <2>2
<1>6. CASE Compare(t, mytail[t].version, tail.version, "e_chkv",
                   IF mynext[t].ptr = NULL THEN "e_link" ELSE "e_help")
  <2> USE <1>6 DEF Compare, Goto, shared, history
  <2>1. CASE mytail[t].version = tail.version
    <3>1. Alone(t) /\ pc[t] = "e_chkv" /\ pc'[t] \in {"e_link", "e_help"}
      BY <2>1 DEF Alone, TypeOK
    <3>2. UpToDate(t) => UpToDate(t)' /\ ~StartsOver(t)
      BY <2>1, <3>1 DEF UpToDate, StartsOver, LoopTops, TailReadPcs, NextReadPcs,
         DequeuePcs, DeqHeadPcs, DeqTailPcs
    <3>3. QED
      BY <2>1, <3>1, <3>2 DEF StaysPut
  <2>2. CASE mytail[t].version # tail.version
    <3>1. Retry(t, "e_chkv") /\ pc[t] = "e_chkv"
      BY <2>2 DEF Retry
    <3>2. ~UpToDate(t) /\ "e_chkv" \in LoopBodies
      BY <2>2, <3>1 DEF UpToDate, TailReadPcs, LoopBodies, LoopTops, EnqueuePcs
    <3>3. QED
      BY <3>1, <3>2, RetryStaysPut
  <2>3. QED
    BY <2>1, <2>2
<1>7. QED
  BY <1>1, <1>2, <1>3, <1>4, <1>5, <1>6 DEF EnqueueRead

LEMMA LinkFailsMoves ==
    ASSUME IInv, NEW t \in Threads, LinkFails(t)
    PROVE  StaysPut(t)
<1> USE DEF IInv, LinkFails, shared, history
<1>1. pc[t] = "e_link" /\ Retry(t, "e_link")
  BY DEF Retry, Goto
<1>2. ASSUME UpToDate(t) PROVE FALSE
  <2>1. /\ mytail[t].ptr = tail.ptr /\ mynext[t].ptr = next[tail.ptr].ptr
        /\ mynext[t].version = next[tail.ptr].version
    BY <1>1, <1>2 DEF UpToDate, TailReadPcs, NextReadPcs
  <2>2. /\ mynext[t] \in VersionedPointer(Nodes \cup {NULL, Garbage})
        /\ next[tail.ptr] \in VersionedPointer(Nodes \cup {NULL, Garbage})
    BY DEF TypeOK, VersionedPointer
  <2>3. QED
    BY <2>1, <2>2, SameVersionedPointer DEF LinkSucceeds
<1>3. QED
  BY <1>1, <1>2, RetryStaysPut DEF LoopBodies, LoopTops, EnqueuePcs

LEMMA LinkMoves ==
    ASSUME IInv, NEW t \in Threads, Link(t)
    PROVE  MovesOn(t)
<1> USE DEF IInv, Link, Goto
<1>1. pc[t] = "e_link" /\ pc'[t] = "e_swing" /\ Alone(t)
  BY DEF TypeOK, Alone
<1>2. mytail[t].ptr = Last /\ tail.ptr = Last /\ tail' = tail
  BY <1>1, LinkAtLast
<1>3. node[t] \in Nodes /\ node[t] \notin Linked /\ chain' = Append(chain, node[t])
  BY <1>1, <1>2 DEF Enqueues, EnqueuePcs, Last
<1>4. Len(chain') = Len(chain) + 1 /\ Last' = node[t] /\ Last \in Linked
  BY <1>3, AppendFacts, ChainFacts
<1>5. Appends(t)
  BY <1>1, <1>2, <1>3, <1>4 DEF Appends, StartsOver, LoopTops
<1>6. QED
  BY <1>1, <1>5 DEF MovesOn, LoopBodies, EnqueuePcs, DequeuePcs

(* A help that fails was overtaken, one that succeeds helps another.       *)
LEMMA HelpMoves ==
    ASSUME IInv, NEW t \in Threads, NEW from \in {"e_help", "d_help"},
           pc[t] = from, Retry(t, from), SwapTail(t, mynext[t].ptr),
           UNCHANGED <<head, next, chain>>,
           tail = mytail[t] => tail.ptr # Last /\ mynext[t].ptr = Last
    PROVE  StaysPut(t) \/ MovesOn(t)
<1> USE DEF IInv
<1>1. from \in LoopBodies
  BY DEF LoopBodies, LoopTops, EnqueuePcs, DequeuePcs
<1>2. CASE tail # mytail[t]
  <2>1. ASSUME UpToDate(t) PROVE FALSE
    <3>1. mytail[t].ptr = tail.ptr /\ mytail[t].version = tail.version
      BY <2>1 DEF UpToDate, TailReadPcs, DequeuePcs, DeqHeadPcs, DeqTailPcs
    <3>2. /\ tail \in VersionedPointer(Nodes)
          /\ mytail[t] \in VersionedPointer(Nodes \cup {NULL})
      BY DEF TypeOK
    <3>3. QED
      BY <1>2, <3>1, <3>2, SameVersionedPointer
  <2>2. tail' = tail
    BY <1>2 DEF SwapTail
  <2>3. QED
    BY <1>1, <2>1, <2>2, RetryStaysPut
<1>3. CASE tail = mytail[t]
  <2>1. Alone(t) /\ pc'[t] \in LoopTops
    BY DEF Alone, Retry, Goto, ForgetPointers, TypeOK, LoopTops
  <2>2. tail.ptr # Last /\ tail'.ptr = Last /\ chain' = chain
    BY <1>3 DEF SwapTail, VP
  <2>3. \E u \in Threads \ {t} : pc[u] = "e_swing"
    BY <2>2 DEF EndsShape
  <2>4. CatchesUp(t)
    BY <2>2, <2>3 DEF CatchesUp
  <2>5. QED
    BY <2>1, <2>4 DEF MovesOn, LoopBodies
<1>4. QED
  BY <1>2, <1>3

LEMMA EnqueueHelpMoves ==
    ASSUME IInv, NEW t \in Threads, EnqueueHelp(t)
    PROVE  StaysPut(t) \/ MovesOn(t)
<1> USE DEF IInv, EnqueueHelp, history
<1>1. pc[t] = "e_help"
  BY DEF Retry, Goto
<1>2. tail = mytail[t] => tail.ptr # Last /\ mynext[t].ptr = Last
  BY <1>1, ChainFacts DEF EndsShape, Enqueues, NextReadPcs
<1>3. QED
  BY <1>1, <1>2, HelpMoves

LEMMA SwingTailMoves ==
    ASSUME IInv, NEW t \in Threads, SwingTail(t)
    PROVE  StaysPut(t) \/ MovesOn(t)
<1> USE DEF IInv, SwingTail, Goto, history
<1>1. /\ pc[t] = "e_swing" /\ pc'[t] = "e_inc" /\ Alone(t)
      /\ chain' = chain /\ head' = head /\ next' = next
  BY DEF TypeOK, Alone, ForgetPointers
<1>2. /\ {"e_swing", "e_inc"} \cap LoopBodies = {}
      /\ ~StartsOver(t)
  BY <1>1 DEF LoopBodies, EnqueuePcs, DequeuePcs, StartsOver
<1>3. CASE tail # mytail[t]
  <2>1. tail' = tail
    BY <1>3 DEF SwapTail
  <2>2. QED
    BY <1>1, <1>2, <2>1, OutsideStaysPut
<1>4. CASE tail = mytail[t]
  <2>1. tail.ptr # Last /\ node[t] = Last
    BY <1>1, <1>4, ChainFacts, MpmcAssumption DEF EndsShape, Enqueues
  <2>2. tail'.ptr = Last
    BY <1>4, <2>1 DEF SwapTail, VP
  <2>3. QED
    BY <1>1, <1>2, <2>1, <2>2 DEF MovesOn, CatchesUp
<1>5. QED
  BY <1>3, <1>4

-----------------------------------------------------------------------------
(* The steps of a dequeue.                                                 *)

LEMMA DequeueReadMoves ==
    ASSUME IInv, NEW t \in Threads, DequeueRead(t)
    PROVE  StaysPut(t)
<1> USE DEF IInv
<1>1. CASE ReadHeadPtr(t, "d_headp", "d_headv")
  <2> USE <1>1 DEF ReadHeadPtr, Goto, shared, history
  <2>1. Alone(t) /\ pc'[t] = "d_headv" /\ myhead'[t].ptr = head.ptr
    BY DEF Alone, TypeOK, VersionedPointer
  <2>2. UpToDate(t)' /\ ~StartsOver(t)
    BY <2>1 DEF UpToDate, StartsOver, LoopTops, TailReadPcs, NextReadPcs,
       DequeuePcs, DeqHeadPcs, DeqTailPcs
  <2>3. QED
    BY <2>1, <2>2 DEF StaysPut
<1>2. CASE ReadHeadVersion(t, "d_headv", "d_tailp")
  <2> USE <1>2 DEF ReadHeadVersion, Goto, shared, history
  <2>1. /\ Alone(t) /\ pc[t] = "d_headv" /\ pc'[t] = "d_tailp"
        /\ myhead'[t].ptr = myhead[t].ptr /\ myhead'[t].version = head.version
    BY DEF Alone, TypeOK, VersionedPointer
  <2>2. UpToDate(t) => UpToDate(t)' /\ ~StartsOver(t)
    BY <2>1 DEF UpToDate, StartsOver, LoopTops, TailReadPcs, NextReadPcs,
       DequeuePcs, DeqHeadPcs, DeqTailPcs
  <2>3. QED
    BY <2>1, <2>2 DEF StaysPut
<1>3. CASE ReadTailPtr(t, "d_tailp", "d_tailv")
  <2> USE <1>3 DEF ReadTailPtr, Goto, shared, history
  <2>1. /\ Alone(t) /\ pc[t] = "d_tailp" /\ pc'[t] = "d_tailv"
        /\ mytail'[t].ptr = tail.ptr
    BY DEF Alone, TypeOK, VersionedPointer
  <2>2. UpToDate(t) => UpToDate(t)' /\ ~StartsOver(t)
    BY <2>1 DEF UpToDate, StartsOver, LoopTops, TailReadPcs, NextReadPcs,
       DequeuePcs, DeqHeadPcs, DeqTailPcs
  <2>3. QED
    BY <2>1, <2>2 DEF StaysPut
<1>4. CASE ReadTailVersion(t, "d_tailv", "d_nextp")
  <2> USE <1>4 DEF ReadTailVersion, Goto, shared, history
  <2>1. /\ Alone(t) /\ pc[t] = "d_tailv" /\ pc'[t] = "d_nextp"
        /\ mytail'[t].ptr = mytail[t].ptr /\ mytail'[t].version = tail.version
    BY DEF Alone, TypeOK, VersionedPointer
  <2>2. UpToDate(t) => UpToDate(t)' /\ ~StartsOver(t)
    BY <2>1 DEF UpToDate, StartsOver, LoopTops, TailReadPcs, NextReadPcs,
       DequeuePcs, DeqHeadPcs, DeqTailPcs
  <2>3. QED
    BY <2>1, <2>2 DEF StaysPut
<1>5. ASSUME \/ ReadNextPtr(t, myhead[t].ptr, "d_nextp", "d_nextv")
             \/ ReadNextVersion(t, myhead[t].ptr, "d_nextv", "d_chkp")
      PROVE  StaysPut(t)
  <2> USE <1>5 DEF ReadNextPtr, ReadNextVersion, Goto, shared, history
  <2>1. /\ Alone(t) /\ pc[t] \in {"d_nextp", "d_nextv"}
        /\ pc'[t] \in {"d_nextv", "d_chkp"}
    BY DEF Alone, TypeOK
  <2>2. UpToDate(t) => UpToDate(t)' /\ ~StartsOver(t)
    BY <2>1 DEF UpToDate, StartsOver, LoopTops, TailReadPcs, NextReadPcs,
       DequeuePcs, DeqHeadPcs, DeqTailPcs
  <2>3. QED
    BY <2>1, <2>2 DEF StaysPut
<1>6. CASE Compare(t, myhead[t].ptr, head.ptr, "d_chkp", "d_chkv")
  <2> USE <1>6 DEF Compare, Goto, shared, history
  <2>1. CASE myhead[t].ptr = head.ptr
    <3>1. Alone(t) /\ pc[t] = "d_chkp" /\ pc'[t] = "d_chkv"
      BY <2>1 DEF Alone, TypeOK
    <3>2. UpToDate(t) => UpToDate(t)' /\ ~StartsOver(t)
      BY <2>1, <3>1 DEF UpToDate, StartsOver, LoopTops, TailReadPcs, NextReadPcs,
         DequeuePcs, DeqHeadPcs, DeqTailPcs
    <3>3. QED
      BY <2>1, <3>1, <3>2 DEF StaysPut
  <2>2. CASE myhead[t].ptr # head.ptr
    <3>1. Retry(t, "d_chkp") /\ pc[t] = "d_chkp"
      BY <2>2 DEF Retry
    <3>2. ~UpToDate(t) /\ "d_chkp" \in LoopBodies
      BY <2>2, <3>1 DEF UpToDate, DeqHeadPcs, LoopBodies, LoopTops, DequeuePcs
    <3>3. QED
      BY <3>1, <3>2, RetryStaysPut
  <2>3. QED
    BY <2>1, <2>2
<1>7. CASE Compare(t, myhead[t].version, head.version, "d_chkv", AfterCheck(t))
  <2> USE <1>7 DEF Compare, Goto, shared, history
  <2>1. CASE myhead[t].version = head.version
    <3>1. Alone(t) /\ pc[t] = "d_chkv" /\ pc'[t] \in {"d_data", "d_null", "d_help"}
      BY <2>1 DEF Alone, TypeOK, AfterCheck
    <3>2. UpToDate(t) => UpToDate(t)' /\ ~StartsOver(t)
      BY <2>1, <3>1 DEF UpToDate, StartsOver, LoopTops, TailReadPcs, NextReadPcs,
         DequeuePcs, DeqHeadPcs, DeqTailPcs
    <3>3. QED
      BY <2>1, <3>1, <3>2 DEF StaysPut
  <2>2. CASE myhead[t].version # head.version
    <3>1. Retry(t, "d_chkv") /\ pc[t] = "d_chkv"
      BY <2>2 DEF Retry
    <3>2. ~UpToDate(t) /\ "d_chkv" \in LoopBodies
      BY <2>2, <3>1 DEF UpToDate, DeqHeadPcs, LoopBodies, LoopTops, DequeuePcs
    <3>3. QED
      BY <3>1, <3>2, RetryStaysPut
  <2>3. QED
    BY <2>1, <2>2
<1>8. QED
  BY <1>1, <1>2, <1>3, <1>4, <1>5, <1>6, <1>7 DEF DequeueRead

LEMMA DequeueHelpMoves ==
    ASSUME IInv, NEW t \in Threads, DequeueHelp(t)
    PROVE  StaysPut(t) \/ MovesOn(t)
<1> USE DEF IInv, DequeueHelp, history
<1>1. pc[t] = "d_help"
  BY DEF Retry, Goto
<1>2. tail = mytail[t] => tail.ptr # Last /\ mynext[t].ptr = Last
  <2>1. tail = mytail[t] => /\ myhead[t].ptr = tail.ptr /\ myhead[t].ptr = head.ptr
                            /\ mynext[t].ptr = next[head.ptr].ptr
                            /\ mynext[t].ptr # NULL
    BY <1>1 DEF EndsShape, Dequeues, DequeuePcs, DeqHeadPcs, DeqTailPcs, DeqNextPcs
  <2>2. QED
    BY <2>1, ChainFacts DEF EndsShape
<1>3. QED
  BY <1>1, <1>2, HelpMoves

LEMMA SwingHeadMoves ==
    ASSUME IInv, NEW t \in Threads, SwingHead(t)
    PROVE  MovesOn(t)
<1> USE DEF IInv, SwingHead, Goto
<1>1. pc[t] = "d_swing" /\ pc'[t] = "d_dec" /\ Alone(t) /\ tail' = tail
  BY DEF TypeOK, Alone
<1>2. Len(chain) > 1 /\ chain' = Tail(chain)
  BY <1>1, SwingAtFirst
<1>3. Len(chain') = Len(chain) - 1 /\ Last' = Last
  BY <1>2, TailFacts
<1>4. Removes(t)
  BY <1>1, <1>3 DEF Removes, StartsOver, LoopTops
<1>5. QED
  BY <1>1, <1>4 DEF MovesOn, LoopBodies, EnqueuePcs, DequeuePcs

LEMMA SwingHeadFailsMoves ==
    ASSUME IInv, NEW t \in Threads, SwingHeadFails(t)
    PROVE  StaysPut(t)
<1> USE DEF IInv, SwingHeadFails, shared, history
<1>1. pc[t] = "d_swing" /\ Retry(t, "d_swing")
  BY DEF Retry, Goto
<1>2. ASSUME UpToDate(t) PROVE FALSE
  <2>1. myhead[t].ptr = head.ptr /\ myhead[t].version = head.version
    BY <1>1, <1>2 DEF UpToDate, DequeuePcs, DeqHeadPcs
  <2>2. /\ head \in VersionedPointer(Nodes)
        /\ myhead[t] \in VersionedPointer(Nodes \cup {NULL})
    BY DEF TypeOK
  <2>3. QED
    BY <2>1, <2>2, SameVersionedPointer
<1>3. QED
  BY <1>1, <1>2, RetryStaysPut DEF LoopBodies, LoopTops, DequeuePcs

LEMMA ReadUserDataMoves ==
    ASSUME IInv, NEW t \in Threads, ReadUserData(t)
    PROVE  StaysPut(t)
<1> USE DEF IInv, ReadUserData, Goto, shared, history
<1>1. Alone(t) /\ pc[t] = "d_data" /\ pc'[t] = "d_swing"
  BY DEF Alone, TypeOK
<1>2. UpToDate(t) => UpToDate(t)' /\ ~StartsOver(t)
  BY <1>1 DEF UpToDate, StartsOver, LoopTops, TailReadPcs, NextReadPcs,
     DequeuePcs, DeqHeadPcs, DeqTailPcs
<1>3. QED
  BY <1>1, <1>2 DEF StaysPut

LEMMA DequeueNullMoves ==
    ASSUME IInv, NEW t \in Threads, DequeueNull(t)
    PROVE  StaysPut(t)
<1> USE DEF IInv, DequeueNull, ReturnFrom, Goto, ForgetPointers, shared
<1>1. Alone(t) /\ pc'[t] = "idle"
  BY DEF Alone, TypeOK
<1>2. UpToDate(t)' /\ ~StartsOver(t)
  BY <1>1, NothingRead DEF LoopBodies, LoopTops, EnqueuePcs, DequeuePcs, StartsOver
<1>3. QED
  BY <1>1, <1>2 DEF StaysPut

-----------------------------------------------------------------------------
(* The steps outside the loops.                                            *)

LEMMA CallMoves ==
    ASSUME IInv, NEW t \in Threads,
           \/ \E n \in Nodes, v \in Data : EnqueueCall(t, n, v)
           \/ DequeueCall(t) \/ EmptyCall(t) \/ DestroyCall(t) \/ FreeHead(t)
    PROVE  StaysPut(t)
<1> USE DEF IInv, Goto, shared
<1>1. CASE \E n \in Nodes, v \in Data : EnqueueCall(t, n, v)
  <2>1. /\ Alone(t) /\ UNCHANGED <<head, tail, chain, next>>
        /\ pc[t] = "idle" /\ pc'[t] = "e_initptr"
    BY <1>1 DEF EnqueueCall, Alone, TypeOK
  <2>2. QED
    BY <2>1, OutsideStaysPut DEF LoopBodies, EnqueuePcs, DequeuePcs
<1>2. CASE DequeueCall(t)
  <2>1. /\ Alone(t) /\ UNCHANGED <<head, tail, chain, next>>
        /\ pc[t] = "idle" /\ pc'[t] = "d_headp"
    BY <1>2 DEF DequeueCall, Alone, TypeOK
  <2>2. QED
    BY <2>1, OutsideStaysPut DEF LoopBodies, LoopTops, EnqueuePcs, DequeuePcs
<1>3. CASE EmptyCall(t)
  <2>1. /\ Alone(t) /\ UNCHANGED <<head, tail, chain, next>>
        /\ pc[t] = "idle" /\ pc'[t] = "m_next"
    BY <1>3 DEF EmptyCall, Alone, TypeOK, history
  <2>2. QED
    BY <2>1, OutsideStaysPut DEF LoopBodies, EnqueuePcs, DequeuePcs
<1>4. CASE DestroyCall(t)
  <2>1. /\ Alone(t) /\ UNCHANGED <<head, tail, chain, next>>
        /\ pc[t] = "idle" /\ pc'[t] = "idle"
    BY <1>4 DEF DestroyCall, Alone, TypeOK, history
  <2>2. QED
    BY <2>1, OutsideStaysPut DEF LoopBodies, EnqueuePcs, DequeuePcs
<1>5. CASE FreeHead(t)
  <2>1. /\ Alone(t) /\ UNCHANGED <<head, tail, chain, next>>
        /\ pc[t] = "idle" /\ pc'[t] = "destroyed"
    BY <1>5 DEF FreeHead, Alone, TypeOK, history
  <2>2. QED
    BY <2>1, OutsideStaysPut DEF LoopBodies, EnqueuePcs, DequeuePcs
<1>6. QED
  BY <1>1, <1>2, <1>3, <1>4, <1>5

LEMMA InitNextMoves ==
    ASSUME IInv, NEW t \in Threads, InitNextPtr(t) \/ InitNextVersion(t)
    PROVE  StaysPut(t)
<1> USE DEF IInv, InitNextPtr, InitNextVersion, Goto, history
<1>1. /\ Alone(t) /\ UNCHANGED <<head, tail, chain>>
      /\ pc[t] \in {"e_initptr", "e_initver"} /\ pc'[t] \in {"e_initver", "e_tailp"}
  BY DEF Alone, TypeOK
<1>2. node[t] \notin Linked
  BY <1>1 DEF Enqueues, EnqueuePcs
<1>3. \A n \in Linked : next'[n] = next[n]
  BY <1>2, ChainFacts DEF TypeOK
<1>4. QED
  BY <1>1, <1>3, OutsideStaysPut DEF LoopBodies, LoopTops, EnqueuePcs, DequeuePcs

LEMMA ReturnMoves ==
    ASSUME IInv, NEW t \in Threads,
           EnqueueReturn(t) \/ DecLen(t) \/ DequeueReturn(t) \/ EmptyReturn(t)
    PROVE  StaysPut(t)
<1> USE DEF IInv, Goto, shared, history
<1>1. CASE EnqueueReturn(t)
  <2>1. /\ Alone(t) /\ UNCHANGED <<head, tail, chain, next>>
        /\ pc[t] = "e_inc" /\ pc'[t] = "idle"
    BY <1>1 DEF EnqueueReturn, ReturnFrom, ForgetPointers, Alone, TypeOK
  <2>2. QED
    BY <2>1, OutsideStaysPut DEF LoopBodies, EnqueuePcs, DequeuePcs
<1>2. CASE DecLen(t)
  <2>1. /\ Alone(t) /\ UNCHANGED <<head, tail, chain, next>>
        /\ pc[t] = "d_dec" /\ pc'[t] = "d_free"
    BY <1>2 DEF DecLen, Alone, TypeOK
  <2>2. QED
    BY <2>1, OutsideStaysPut DEF LoopBodies, EnqueuePcs, DequeuePcs
<1>3. CASE DequeueReturn(t)
  <2>1. /\ Alone(t) /\ UNCHANGED <<head, tail, chain>>
        /\ pc[t] = "d_free" /\ pc'[t] = "idle"
    BY <1>3 DEF DequeueReturn, ReturnFrom, ForgetPointers, Alone, TypeOK
  <2>2. myhead[t].ptr \notin Linked
    BY <2>1 DEF Dequeues, DequeuedPcs
  <2>3. \A n \in Linked : next'[n] = next[n]
    BY <1>3, <2>2, ChainFacts DEF DequeueReturn, TypeOK
  <2>4. QED
    BY <2>1, <2>3, OutsideStaysPut DEF LoopBodies, EnqueuePcs, DequeuePcs
<1>4. CASE EmptyReturn(t)
  <2>1. /\ Alone(t) /\ UNCHANGED <<head, tail, chain, next>>
        /\ pc[t] = "m_next" /\ pc'[t] = "idle"
    BY <1>4 DEF EmptyReturn, ReturnFrom, ForgetPointers, Alone, TypeOK
  <2>2. QED
    BY <2>1, OutsideStaysPut DEF LoopBodies, EnqueuePcs, DequeuePcs
<1>5. QED
  BY <1>1, <1>2, <1>3, <1>4

(* Every step is of one of the two kinds.                                  *)
LEMMA StepKinds ==
    ASSUME IInv, Next
    PROVE  \E t \in Threads : StaysPut(t) \/ MovesOn(t)
<1>1. PICK t \in Threads :
          \/ \E n \in Nodes, v \in Data : EnqueueCall(t, n, v)
          \/ DequeueCall(t) \/ EmptyCall(t) \/ DestroyCall(t) \/ FreeHead(t)
          \/ Step(t)
  BY DEF Next
<1>2. ASSUME \/ \E n \in Nodes, v \in Data : EnqueueCall(t, n, v)
             \/ DequeueCall(t) \/ EmptyCall(t) \/ DestroyCall(t) \/ FreeHead(t)
      PROVE  StaysPut(t)
  BY <1>2, CallMoves
<1>3. ASSUME \/ InitNextPtr(t) \/ InitNextVersion(t) \/ EnqueueRead(t)
             \/ Link(t) \/ LinkFails(t) \/ EnqueueHelp(t) \/ SwingTail(t)
             \/ EnqueueReturn(t)
      PROVE  StaysPut(t) \/ MovesOn(t)
  BY <1>3, InitNextMoves, EnqueueReadMoves, LinkMoves, LinkFailsMoves,
     EnqueueHelpMoves, SwingTailMoves, ReturnMoves
<1>4. ASSUME \/ DequeueRead(t) \/ DequeueNull(t) \/ DequeueHelp(t)
             \/ ReadUserData(t) \/ SwingHead(t) \/ SwingHeadFails(t)
             \/ DecLen(t) \/ DequeueReturn(t) \/ EmptyReturn(t)
      PROVE  StaysPut(t) \/ MovesOn(t)
  BY <1>4, DequeueReadMoves, DequeueNullMoves, DequeueHelpMoves,
     ReadUserDataMoves, SwingHeadMoves, SwingHeadFailsMoves, ReturnMoves
<1>5. QED
  BY <1>1, <1>2, <1>3, <1>4 DEF Step

-----------------------------------------------------------------------------
(* Counting.                                                               *)

\* Who starts over is the thread that takes the step.
LEMMA OneStartsOver ==
    ASSUME NEW t \in Threads, Alone(t)
    PROVE  (\E u \in Threads : StartsOver(u)) <=> StartsOver(t)
  BY DEF Alone, StartsOver, LoopBodies

LEMMA Fewer ==
    ASSUME IsFiniteSet(Threads), NEW S \in SUBSET Threads, NEW T \in SUBSET S
    PROVE  /\ Cardinality(S) \in Nat /\ Cardinality(T) \in Nat
           /\ Cardinality(T) <= Cardinality(S)
           /\ \A t \in S \ T : Cardinality(T) <= Cardinality(S) - 1
           /\ \A t, u \in S \ T : t # u => Cardinality(T) <= Cardinality(S) - 2
<1>1. IsFiniteSet(S) /\ IsFiniteSet(T)
  BY FS_Subset
<1>2. Cardinality(S) \in Nat /\ Cardinality(T) \in Nat /\ Cardinality(T) <= Cardinality(S)
  BY <1>1, FS_CardinalityType, FS_Subset
<1>3. ASSUME NEW t \in S \ T
      PROVE  /\ IsFiniteSet(S \ {t}) /\ Cardinality(S \ {t}) = Cardinality(S) - 1
             /\ T \subseteq S \ {t}
  BY <1>1, <1>3, FS_RemoveElement
<1>4. ASSUME NEW t \in S \ T PROVE Cardinality(T) <= Cardinality(S) - 1
  <2>1. /\ IsFiniteSet(S \ {t}) /\ Cardinality(S \ {t}) = Cardinality(S) - 1
        /\ T \in SUBSET (S \ {t})
    BY <1>3
  <2>2. QED
    BY <2>1, FS_Subset
<1>5. ASSUME NEW t \in S \ T, NEW u \in S \ T, t # u
      PROVE  Cardinality(T) <= Cardinality(S) - 2
  <2>1. /\ IsFiniteSet(S \ {t}) /\ Cardinality(S \ {t}) = Cardinality(S) - 1
        /\ u \in S \ {t} /\ T \subseteq (S \ {t}) \ {u}
    BY <1>3, <1>5
  <2>2. /\ IsFiniteSet((S \ {t}) \ {u})
        /\ Cardinality((S \ {t}) \ {u}) = Cardinality(S \ {t}) - 1
    BY <2>1, FS_RemoveElement
  <2>3. Cardinality(T) <= Cardinality((S \ {t}) \ {u})
    BY <2>1, <2>2, FS_Subset
  <2>4. QED
    BY <1>2, <2>1, <2>2, <2>3
<1>6. QED
  BY <1>2, <1>4, <1>5

LEMMA InitProgress ==
    ASSUME IsFiniteSet(Threads), ProgressInit
    PROVE  ProgressInv
<1>1. IInv
  BY InitIInv DEF ProgressInit
<1>2. Lag = 0
  <2>1. PICK dummy \in Nodes : tail = VP(dummy, 0) /\ chain = <<dummy>>
    BY DEF ProgressInit, Init
  <2>2. QED
    BY <2>1 DEF Lag, Last, VP
<1>3. \A t \in Threads : UpToDate(t)
  BY NothingRead DEF ProgressInit, Init, LoopBodies, EnqueuePcs, DequeuePcs
<1>4. Cardinality(overtaken) = 0
  BY FS_EmptySet DEF ProgressInit
<1>5. retries + Cardinality(overtaken) <= (Cardinality(Threads) - 1) * Effects
  <2>1. Effects = 0
    BY <1>2 DEF Effects, ProgressInit
  <2>2. Cardinality(Threads) \in Nat /\ (Cardinality(Threads) - 1) * 0 = 0
    BY FS_CardinalityType
  <2>3. QED
    BY <1>4, <2>1, <2>2 DEF ProgressInit
<1>6. QED
  BY <1>1, <1>2, <1>3, <1>5 DEF ProgressInv, ProgressInit

LEMMA StaysPutKeeps ==
    ASSUME IsFiniteSet(Threads), ProgressInv, NEW t \in Threads, StaysPut(t),
           Count, IInv'
    PROVE  ProgressInv'
<1>1. /\ Lag' = Lag /\ linked' = linked /\ taken' = taken /\ Effects' = Effects
      /\ ~QueueMoves
  <2>1. Last' = Last /\ Len(chain') = Len(chain) /\ Len(chain) \in Nat
    BY ChainFacts DEF StaysPut, Last, ProgressInv, IInv
  <2>2. linked' = linked /\ taken' = taken
    BY <2>1 DEF Count, ProgressInv
  <2>3. QED
    BY <2>1, <2>2 DEF Lag, Effects, QueueMoves, StaysPut
<1>2. overtaken' = {u \in overtaken : pc'[u] \in LoopBodies}
  BY <1>1 DEF Count, ProgressInv
<1>3. ASSUME NEW u \in Threads \ overtaken' PROVE UpToDate(u)'
  <2>1. CASE pc'[u] \notin LoopBodies
    BY <2>1, NothingRead
  <2>2. CASE pc'[u] \in LoopBodies
    <3>1. UpToDate(u)
      BY <1>2, <2>2 DEF ProgressInv
    <3>2. CASE u = t
      BY <3>1, <3>2 DEF StaysPut
    <3>3. CASE u # t
      <4>1. next'[tail.ptr] = next[tail.ptr]
        BY DEF StaysPut, ProgressInv, IInv, EndsShape
      <4>2. QED
        BY <3>1, <3>3, <4>1 DEF StaysPut, Alone, UpToDate
    <3>4. QED
      BY <3>2, <3>3
  <2>3. QED
    BY <2>1, <2>2
<1>4. retries' \in Nat /\ retries' + Cardinality(overtaken') <= retries + Cardinality(overtaken)
  <2>1. /\ overtaken \in SUBSET Threads /\ overtaken' \in SUBSET overtaken
        /\ retries \in Nat
    BY <1>2 DEF ProgressInv
  <2>2. CASE StartsOver(t)
    <3>1. t \in overtaken
      BY <2>2 DEF StaysPut, ProgressInv
    <3>2. t \notin overtaken'
      BY <1>2, <2>2 DEF StartsOver, LoopBodies
    <3>3. retries' = retries + 1
      BY <2>2 DEF Count
    <3>4. QED
      BY <2>1, <3>1, <3>2, <3>3, Fewer
  <2>3. CASE ~StartsOver(t)
    <3>1. retries' = retries
      BY <2>1, <2>3, OneStartsOver DEF Count, StaysPut
    <3>2. QED
      BY <2>1, <3>1, Fewer
  <2>4. QED
    BY <2>2, <2>3
<1>5. retries' + Cardinality(overtaken') <= (Cardinality(Threads) - 1) * Effects'
  <2>1. /\ retries + Cardinality(overtaken) <= (Cardinality(Threads) - 1) * Effects
        /\ retries \in Nat /\ Cardinality(overtaken) \in Nat
        /\ Cardinality(overtaken') \in Nat /\ Cardinality(Threads) \in Nat
        /\ Effects \in Int
    <3>1. overtaken \in SUBSET Threads /\ overtaken' \in SUBSET Threads
      BY <1>2 DEF ProgressInv
    <3>2. Effects \in Int
      BY DEF Effects, Lag, ProgressInv
    <3>3. QED
      BY <3>1, <3>2, Fewer DEF ProgressInv
  <2>2. (Cardinality(Threads) - 1) * Effects \in Int
    BY <2>1
  <2>3. QED
    BY <1>1, <1>4, <2>1, <2>2
<1>6. overtaken' \subseteq {u \in Threads : pc'[u] \in LoopBodies}
  BY <1>2 DEF ProgressInv
<1>7. QED
  BY <1>1, <1>3, <1>4, <1>5, <1>6 DEF ProgressInv

LEMMA MovesOnKeeps ==
    ASSUME IsFiniteSet(Threads), ProgressInv, NEW t \in Threads, MovesOn(t),
           Count, IInv'
    PROVE  ProgressInv'
<1>1. /\ Len(chain) \in Nat /\ retries \in Nat /\ linked \in Nat /\ taken \in Nat
      /\ Lag \in {0, 1} /\ Lag <= linked
  BY ChainFacts DEF ProgressInv, IInv, Lag
<1>2. /\ linked' \in Nat /\ taken' \in Nat /\ Lag' <= linked'
      /\ Effects' = Effects + 1 /\ QueueMoves
  <2>1. CASE Appends(t)
    <3>1. linked' = linked + 1 /\ taken' = taken /\ QueueMoves
      BY <1>1, <2>1 DEF Appends, Count, QueueMoves
    <3>2. Lag = 0 /\ Lag' = 1
      BY <2>1 DEF Appends, Lag
    <3>3. QED
      BY <1>1, <3>1, <3>2 DEF Effects
  <2>2. CASE Removes(t)
    <3>1. linked' = linked /\ taken' = taken + 1 /\ QueueMoves
      BY <1>1, <2>2 DEF Removes, Count, QueueMoves
    <3>2. Lag' = Lag
      BY <2>2 DEF Removes, Lag
    <3>3. QED
      BY <1>1, <3>1, <3>2 DEF Effects
  <2>3. CASE CatchesUp(t)
    <3>1. linked' = linked /\ taken' = taken /\ QueueMoves
      BY <1>1, <2>3 DEF CatchesUp, Count, QueueMoves
    <3>2. Lag = 1 /\ Lag' = 0
      BY <2>3 DEF CatchesUp, Lag, Last
    <3>3. QED
      BY <1>1, <3>1, <3>2 DEF Effects
  <2>4. QED
    BY <2>1, <2>2, <2>3 DEF MovesOn
<1>3. overtaken' = {u \in Threads : pc'[u] \in LoopBodies}
  BY <1>2 DEF Count
<1>4. \A u \in Threads \ overtaken' : UpToDate(u)'
  BY <1>3, NothingRead
<1>5. /\ overtaken' \in SUBSET Threads /\ t \in Threads \ overtaken'
      /\ overtaken \in SUBSET Threads
  BY <1>3 DEF MovesOn, ProgressInv
<1>6. retries' \in Nat /\ retries' + Cardinality(overtaken') <= retries + (Cardinality(Threads) - 1)
  <2>1. CASE StartsOver(t)
    <3>1. PICK u \in Threads \ {t} : pc[u] = "e_swing"
      BY <2>1 DEF MovesOn, Appends, Removes, CatchesUp
    <3>2. u \in Threads \ overtaken'
      BY <1>3, <3>1 DEF MovesOn, Alone, LoopBodies, EnqueuePcs, DequeuePcs
    <3>3. Cardinality(overtaken') <= Cardinality(Threads) - 2
      BY <1>5, <3>1, <3>2, Fewer
    <3>4. retries' = retries + 1
      BY <2>1 DEF Count
    <3>5. QED
      BY <1>1, <1>5, <3>3, <3>4, Fewer
  <2>2. CASE ~StartsOver(t)
    <3>1. retries' = retries
      BY <1>1, <2>2, OneStartsOver DEF Count, MovesOn
    <3>2. QED
      BY <1>1, <1>5, <3>1, Fewer
  <2>3. QED
    BY <2>1, <2>2
<1>7. retries' + Cardinality(overtaken') <= (Cardinality(Threads) - 1) * Effects'
  <2>1. /\ retries + Cardinality(overtaken) <= (Cardinality(Threads) - 1) * Effects
        /\ Cardinality(overtaken) \in Nat /\ Cardinality(overtaken') \in Nat
        /\ Cardinality(Threads) \in Nat /\ Effects \in Int
    BY <1>1, <1>5, Fewer DEF ProgressInv, Effects
  <2>2. ASSUME NEW k \in Int, NEW e \in Int
        PROVE  k * e \in Int /\ k * (e + 1) = k * e + k
    OBVIOUS
  <2>3. /\ (Cardinality(Threads) - 1) * Effects \in Int
        /\ (Cardinality(Threads) - 1) * Effects'
               = (Cardinality(Threads) - 1) * Effects + (Cardinality(Threads) - 1)
    BY <1>2, <2>1, <2>2
  <2>4. QED
    BY <1>1, <1>6, <2>1, <2>3
<1>8. QED
  BY <1>2, <1>3, <1>4, <1>6, <1>7 DEF ProgressInv

LEMMA NextProgress ==
    ASSUME ~Recycle, IsFiniteSet(Threads), ProgressInv,
           [Next /\ Count]_<<vars, counts>>
    PROVE  ProgressInv'
<1>1. IInv'
  BY NextIInv DEF ProgressInv
<1>2. CASE Next /\ Count
  BY <1>1, <1>2, StepKinds, StaysPutKeeps, MovesOnKeeps DEF ProgressInv
<1>3. CASE UNCHANGED <<vars, counts>>
  <2> USE <1>3 DEF vars, shared, locals, history, counts
  <2>1. Lag' = Lag /\ Effects' = Effects
    BY DEF Lag, Effects, Last
  <2>2. \A t \in Threads : UpToDate(t) => UpToDate(t)'
    BY DEF UpToDate
  <2>3. QED
    BY <1>1, <2>1, <2>2 DEF ProgressInv
<1>4. QED
  BY <1>2, <1>3

(* Lock freedom: mpmc_enqueue and mpmc_dequeue start over only for an      *)
(* enqueue or a dequeue of another thread that takes effect.               *)
THEOREM LockFreedom ==
    ASSUME ~Recycle, IsFiniteSet(Threads)
    PROVE  ProgressSpec => []LockFree
<1>1. ProgressInv => LockFree
  <2> SUFFICES ASSUME ProgressInv PROVE LockFree
    OBVIOUS
  <2>1. /\ retries \in Nat /\ Cardinality(overtaken) \in Nat
        /\ Cardinality(Threads) \in Nat /\ Lag \in {0, 1}
        /\ linked \in Nat /\ taken \in Nat
    <3>1. overtaken \in SUBSET Threads
      BY DEF ProgressInv
    <3>2. QED
      BY <3>1, Fewer DEF ProgressInv, Lag
  <2>2. retries + Cardinality(overtaken)
            <= (Cardinality(Threads) - 1) * ((2 * linked + taken) - Lag)
    BY DEF ProgressInv, Effects
  <2>3. CASE Threads = {}
    <3>1. linked = 0 /\ taken = 0 /\ Lag = 0
      BY <2>1, <2>3 DEF ProgressInv
    <3>2. (Cardinality(Threads) - 1) * 0 = 0
      BY <2>1
    <3>3. QED
      BY <2>1, <2>2, <3>1, <3>2 DEF LockFree
  <2>4. CASE Threads # {}
    <3>1. Cardinality(Threads) - 1 \in Nat
      BY <2>1, <2>4, FS_EmptySet
    <3>2. ASSUME NEW k \in Nat, NEW m \in Nat, NEW l \in {0, 1}
          PROVE  k * (m - l) <= k * m
      OBVIOUS
    <3>3. (Cardinality(Threads) - 1) * ((2 * linked + taken) - Lag)
              <= (Cardinality(Threads) - 1) * (2 * linked + taken)
      BY <2>1, <3>1, <3>2
    <3>4. /\ (Cardinality(Threads) - 1) * ((2 * linked + taken) - Lag) \in Int
          /\ (Cardinality(Threads) - 1) * (2 * linked + taken) \in Int
      BY <2>1
    <3>5. QED
      BY <2>1, <2>2, <3>3, <3>4 DEF LockFree
  <2>5. QED
    BY <2>3, <2>4
<1>2. ProgressInit => ProgressInv
  BY InitProgress
<1>3. ProgressInv /\ [Next /\ Count]_<<vars, counts>> => ProgressInv'
  BY NextProgress
<1>4. QED
  BY <1>1, <1>2, <1>3, PTL DEF ProgressSpec
=============================================================================

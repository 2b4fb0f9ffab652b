--------------------------- MODULE MpmcFifoProofs ---------------------------
(***************************************************************************)
(* MpmcQueue implements FifoQueue, for any number of threads, nodes and    *)
(* values and any width of the versions, if the allocator does not hand    *)
(* out a freed node again while a thread still holds its address.          *)
(***************************************************************************)
EXTENDS MpmcQueueProofs

\* FifoQueue's variables, as Fifo substitutes them.
PhaseAt(p) ==
    CASE p \in EmptyPcs \cup {"idle", "destroyed"} -> "idle"
      [] p \in EnqueuePcs -> "enqueuing"
      [] p \in EnqueuedPcs -> "enqueued"
      [] p \in DequeuePcs \ {"d_null"} -> "dequeuing"
      [] OTHER -> "dequeued"
ArgAt(p, d) == IF p \in EnqueuePcs \cup DequeuedPcs THEN d ELSE NULL

Queue == [i \in 1..(Len(chain) - 1) |-> user_data[chain[i + 1]]]
Phase == [t \in Threads |-> PhaseAt(pc[t])]
Arg == [t \in Threads |-> ArgAt(pc[t], mydata[t])]
SawEmpty == {t \in sawEmpty : pc[t] # "d_null"}

\* A step of t: the calls of the other threads stay where they are.
StepOf(t) ==
    \A u \in Threads \ {t} : pc'[u] = pc[u] /\ mydata'[u] = mydata[u]

LEMMA Phases ==
    /\ \A p \in EmptyPcs \cup {"idle", "destroyed"} : PhaseAt(p) = "idle"
    /\ \A p \in EnqueuePcs : PhaseAt(p) = "enqueuing"
    /\ \A p \in EnqueuedPcs : PhaseAt(p) = "enqueued"
    /\ \A p \in DequeuePcs \ {"d_null"} : PhaseAt(p) = "dequeuing"
    /\ \A p \in DequeuedPcs \cup {"d_null"} : PhaseAt(p) = "dequeued"
<1>1. \A p \in EmptyPcs \cup {"idle", "destroyed"} : PhaseAt(p) = "idle"
  BY DEF PhaseAt, EmptyPcs, EnqueuePcs, EnqueuedPcs, DequeuePcs
<1>2. \A p \in EnqueuePcs : PhaseAt(p) = "enqueuing"
  BY DEF PhaseAt, EmptyPcs, EnqueuePcs, EnqueuedPcs, DequeuePcs
<1>3. \A p \in EnqueuedPcs : PhaseAt(p) = "enqueued"
  BY DEF PhaseAt, EmptyPcs, EnqueuePcs, EnqueuedPcs, DequeuePcs
<1>4. \A p \in DequeuePcs \ {"d_null"} : PhaseAt(p) = "dequeuing"
  BY DEF PhaseAt, EmptyPcs, EnqueuePcs, EnqueuedPcs, DequeuePcs
<1>5. \A p \in DequeuedPcs \cup {"d_null"} : PhaseAt(p) = "dequeued"
  BY DEF PhaseAt, EmptyPcs, EnqueuePcs, EnqueuedPcs, DequeuePcs, DequeuedPcs
<1>6. QED
  BY <1>1, <1>2, <1>3, <1>4, <1>5

LEMMA Moves ==
    ASSUME NEW t \in Threads, StepOf(t)
    PROVE  /\ Phase' = [Phase EXCEPT ![t] = PhaseAt(pc'[t])]
           /\ Arg' = [Arg EXCEPT ![t] = ArgAt(pc'[t], mydata'[t])]
<1>1. \A u \in Threads : PhaseAt(pc'[u]) =
          IF u = t THEN PhaseAt(pc'[t]) ELSE PhaseAt(pc[u])
  BY DEF StepOf
<1>2. \A u \in Threads : ArgAt(pc'[u], mydata'[u]) =
          IF u = t THEN ArgAt(pc'[t], mydata'[t]) ELSE ArgAt(pc[u], mydata[u])
  BY DEF StepOf
<1>3. QED
  BY <1>1, <1>2 DEF Phase, Arg

LEMMA QueueStays ==
    ASSUME TypeOK, UNCHANGED chain,
           \A n \in Linked : user_data'[n] = user_data[n]
    PROVE  Queue' = Queue
<1>1. Len(chain) \in Nat
  BY LenProperties DEF TypeOK
<1>2. ASSUME NEW i \in 1..(Len(chain) - 1)
      PROVE  user_data'[chain[i + 1]] = user_data[chain[i + 1]]
  BY <1>1 DEF Linked
<1>3. QED
  BY <1>1, <1>2 DEF Queue

\* The values in the queue, as a sequence.
LEMMA QueueIs ==
    ASSUME IInv
    PROVE  /\ Queue \in Seq(Data)
           /\ Len(Queue) = Len(chain) - 1
           /\ \A i \in 1..(Len(chain) - 1) : Queue[i] = user_data[chain[i + 1]]
<1>1. Len(chain) \in Nat /\ Len(chain) > 0
  BY ChainFacts DEF IInv
<1>2. \A i \in 1..(Len(chain) - 1) : user_data[chain[i + 1]] \in Data
  BY <1>1 DEF IInv, ListShape
<1>3. QED
  BY ONLY <1>1, <1>2 DEF Queue

LEMMA SeqIsFunction ==
    ASSUME NEW S, NEW s \in Seq(S)
    PROVE  s = [i \in 1..Len(s) |-> s[i]]
<1>1. s \in [1..Len(s) -> S]
  BY LenProperties
<1>2. QED
  BY ONLY <1>1

LEMMA EmptyQueue ==
    ASSUME IInv
    PROVE  Queue = <<>> <=> Len(chain) = 1
<1>1. Queue \in Seq(Data) /\ Len(Queue) = Len(chain) - 1 /\ Len(chain) \in Nat
  BY QueueIs, ChainFacts DEF IInv
<1>2. Queue = <<>> <=> Len(Queue) = 0
  BY <1>1, EmptySeq
<1>3. QED
  BY ONLY <1>1, <1>2

-----------------------------------------------------------------------------
(* The steps of the code that are no step of FifoQueue.                    *)

LEMMA Stutters ==
    ASSUME IInv, NEW t \in Threads, StepOf(t), UNCHANGED <<chain, sawEmpty>>,
           \A n \in Linked : user_data'[n] = user_data[n],
           PhaseAt(pc'[t]) = PhaseAt(pc[t]),
           ArgAt(pc'[t], mydata'[t]) = ArgAt(pc[t], mydata[t]),
           pc[t] = "d_null" <=> pc'[t] = "d_null"
    PROVE  UNCHANGED <<Queue, Phase, Arg, SawEmpty>>
<1>1. Queue' = Queue
  BY QueueStays DEF IInv
<1>2. \A u \in Threads : /\ PhaseAt(pc'[u]) = PhaseAt(pc[u])
                         /\ ArgAt(pc'[u], mydata'[u]) = ArgAt(pc[u], mydata[u])
                         /\ pc[u] = "d_null" <=> pc'[u] = "d_null"
  BY DEF StepOf
<1>3. Phase' = Phase /\ Arg' = Arg
  BY <1>2 DEF Phase, Arg
<1>4. SawEmpty' = SawEmpty
  BY <1>2 DEF SawEmpty, IInv, TypeOK
<1>5. QED
  BY <1>1, <1>3, <1>4

LEMMA EnqueueStutters ==
    ASSUME IInv, NEW t \in Threads,
           \/ InitNextPtr(t) \/ InitNextVersion(t) \/ EnqueueRead(t)
           \/ LinkFails(t) \/ EnqueueHelp(t)
    PROVE  UNCHANGED <<Queue, Phase, Arg, SawEmpty>>
<1>1. /\ pc[t] \in EnqueuePcs /\ pc'[t] \in EnqueuePcs
      /\ StepOf(t) /\ mydata'[t] = mydata[t]
      /\ UNCHANGED <<chain, sawEmpty, user_data>>
  <2>1. CASE EnqueueRead(t)
    BY <2>1 DEF EnqueueRead, ReadTailPtr, ReadTailVersion, ReadNextPtr,
       ReadNextVersion, Compare, Retry, Goto, shared, history, EnqueuePcs,
       StepOf, IInv, TypeOK
  <2>2. CASE \/ InitNextPtr(t) \/ InitNextVersion(t) \/ LinkFails(t)
             \/ EnqueueHelp(t)
    BY <2>2 DEF InitNextPtr, InitNextVersion, LinkFails, EnqueueHelp, Retry, Goto,
       shared, history, EnqueuePcs, StepOf, IInv, TypeOK
  <2>3. QED
    BY <2>1, <2>2
<1>2. PhaseAt(pc'[t]) = PhaseAt(pc[t])
  BY <1>1, Phases
<1>3. pc[t] # "d_null" /\ pc'[t] # "d_null"
  BY <1>1 DEF EnqueuePcs
<1>4. ArgAt(pc'[t], mydata'[t]) = ArgAt(pc[t], mydata[t])
  BY <1>1 DEF ArgAt
<1>5. QED
  BY <1>1, <1>2, <1>3, <1>4, Stutters

LEMMA DequeueStutters ==
    ASSUME IInv, NEW t \in Threads, pc'[t] # "d_null",
           \/ DequeueRead(t) \/ DequeueHelp(t) \/ ReadUserData(t)
           \/ SwingHeadFails(t)
    PROVE  UNCHANGED <<Queue, Phase, Arg, SawEmpty>>
<1>1. /\ pc[t] \in DequeuePcs \ {"d_null"} /\ pc'[t] \in DequeuePcs
      /\ StepOf(t) /\ UNCHANGED <<chain, sawEmpty, user_data>>
  <2>1. CASE DequeueRead(t)
    BY <2>1 DEF DequeueRead, ReadHeadPtr, ReadHeadVersion, ReadTailPtr,
       ReadTailVersion, ReadNextPtr, ReadNextVersion, Compare, Retry, Goto,
       AfterCheck, shared, history, EnqueuePcs, DequeuePcs, StepOf, IInv, TypeOK
  <2>2. CASE DequeueHelp(t) \/ ReadUserData(t) \/ SwingHeadFails(t)
    BY <2>2 DEF DequeueHelp, ReadUserData, SwingHeadFails, Retry, Goto,
       shared, history, EnqueuePcs, DequeuePcs, StepOf, IInv, TypeOK
  <2>3. QED
    BY <2>1, <2>2
<1>2. PhaseAt(pc'[t]) = PhaseAt(pc[t])
  BY <1>1, Phases
<1>3. ArgAt(pc'[t], mydata'[t]) = ArgAt(pc[t], mydata[t])
  BY <1>1 DEF ArgAt, EnqueuePcs, DequeuePcs, DequeuedPcs
<1>4. QED
  BY <1>1, <1>2, <1>3, Stutters

LEMMA OtherStutters ==
    ASSUME IInv, NEW t \in Threads,
           \/ SwingTail(t) \/ DecLen(t) \/ EmptyCall(t) \/ EmptyReturn(t)
           \/ DestroyCall(t) \/ FreeHead(t)
    PROVE  UNCHANGED <<Queue, Phase, Arg, SawEmpty>>
<1>1. StepOf(t) /\ UNCHANGED <<chain, sawEmpty, user_data>>
  BY DEF SwingTail, DecLen, EmptyCall, EmptyReturn, DestroyCall, FreeHead,
     ReturnFrom, Goto, shared, history, StepOf, IInv, TypeOK
<1>2. \/ pc[t] \in EnqueuedPcs /\ pc'[t] \in EnqueuedPcs
      \/ pc[t] \in DequeuedPcs /\ pc'[t] \in DequeuedPcs /\ mydata'[t] = mydata[t]
      \/ /\ pc[t] \in EmptyPcs \cup {"idle", "destroyed"}
         /\ pc'[t] \in EmptyPcs \cup {"idle", "destroyed"}
  <2>1. CASE SwingTail(t) \/ DecLen(t)
    BY <2>1 DEF SwingTail, DecLen, Goto, EnqueuedPcs, DequeuedPcs, IInv, TypeOK
  <2>2. CASE EmptyCall(t) \/ EmptyReturn(t) \/ FreeHead(t)
    BY <2>2 DEF EmptyCall, EmptyReturn, FreeHead, ReturnFrom, Goto, EmptyPcs,
       IInv, TypeOK
  <2>3. CASE DestroyCall(t)
    BY <2>3 DEF DestroyCall
  <2>4. QED
    BY <2>1, <2>2, <2>3
<1>3. PhaseAt(pc'[t]) = PhaseAt(pc[t])
  BY <1>2, Phases
<1>4. ArgAt(pc'[t], mydata'[t]) = ArgAt(pc[t], mydata[t])
  BY <1>2 DEF ArgAt, EnqueuePcs, EnqueuedPcs, DequeuedPcs, EmptyPcs
<1>5. pc[t] # "d_null" /\ pc'[t] # "d_null"
  BY <1>2 DEF EnqueuedPcs, DequeuedPcs, EmptyPcs
<1>6. QED
  BY <1>1, <1>3, <1>4, <1>5, Stutters

-----------------------------------------------------------------------------
(* The steps that are.                                                     *)

LEMMA EnqueueCallIs ==
    ASSUME ~Recycle, IInv, NEW t \in Threads, NEW n \in Nodes, NEW v \in Data,
           EnqueueCall(t, n, v)
    PROVE  Fifo!CallEnqueue(t, v)
<1>1. /\ StepOf(t) /\ pc[t] = "idle" /\ pc'[t] = "e_initptr" /\ mydata'[t] = v
      /\ UNCHANGED <<chain, sawEmpty>>
      /\ \A m \in Nodes \ {n} : user_data'[m] = user_data[m]
  BY DEF EnqueueCall, Goto, StepOf, IInv, TypeOK
<1>2. n \notin Linked /\ Linked \subseteq Nodes
  <2>1. Linked \subseteq Nodes
    BY ChainFacts DEF IInv
  <2>2. heap[n] # "live" /\ ~Destroyed
    BY MpmcAssumption DEF EnqueueCall, Open, Available, IInv, Destroying, Destroyed
  <2>3. QED
    BY <2>1, <2>2 DEF IInv, ListShape
<1>3. Queue' = Queue
  BY <1>1, <1>2, QueueStays DEF IInv
<1>4. PhaseAt(pc[t]) = "idle" /\ PhaseAt(pc'[t]) = "enqueuing"
      /\ ArgAt(pc'[t], mydata'[t]) = v
  BY <1>1, Phases DEF EnqueuePcs, ArgAt
<1>5. /\ Phase[t] = "idle"
      /\ Phase' = [Phase EXCEPT ![t] = "enqueuing"]
      /\ Arg' = [Arg EXCEPT ![t] = v]
  BY <1>1, <1>4, Moves DEF Phase
<1>6. SawEmpty' = SawEmpty
  BY <1>1 DEF SawEmpty, StepOf, IInv, TypeOK
<1>7. QED
  BY ONLY <1>3, <1>5, <1>6
     DEF Fifo!CallEnqueue, Queue, Phase, Arg, SawEmpty, PhaseAt, ArgAt

LEMMA LinkIs ==
    ASSUME IInv, NEW t \in Threads, Link(t)
    PROVE  Fifo!TakeEnqueue(t)
<1>1. /\ mytail[t].ptr = Last /\ node[t] \in Nodes /\ node[t] \notin Linked
      /\ user_data[node[t]] = mydata[t] /\ mydata[t] \in Data
  BY LinkAtLast DEF IInv, Link, Goto, Enqueues, EnqueuePcs
<1>2. /\ StepOf(t) /\ pc[t] = "e_link" /\ pc'[t] = "e_swing"
      /\ chain' = Append(chain, node[t])
      /\ UNCHANGED <<user_data, sawEmpty>>
  BY <1>1 DEF Link, Goto, StepOf, Last, IInv, TypeOK
<1>3. /\ Len(chain') = Len(chain) + 1
      /\ chain'[Len(chain) + 1] = node[t]
      /\ \A i \in 1..Len(chain) : chain'[i] = chain[i]
      /\ Len(chain) \in Nat /\ Len(chain) > 0
  BY <1>1, <1>2, AppendFacts, ChainFacts DEF IInv
<1>4. Queue' = Append(Queue, mydata[t])
  <2>1. Queue' = [i \in 1..Len(chain) |-> user_data[chain'[i + 1]]]
    BY <1>2, <1>3 DEF Queue
  <2>2. /\ Queue \in Seq(Data)
        /\ Len(Queue) = Len(chain) - 1
        /\ \A i \in 1..(Len(chain) - 1) : Queue[i] = user_data[chain[i + 1]]
    BY QueueIs
  <2> DEFINE q == Append(Queue, mydata[t])
  <2>3. /\ q \in Seq(Data)
        /\ Len(q) = Len(chain)
        /\ \A i \in 1..(Len(chain) - 1) : q[i] = Queue[i]
        /\ q[Len(chain)] = mydata[t]
    BY <1>1, <1>3, <2>2, AppendProperties
  <2>4. \A i \in 1..Len(chain) : q[i] = user_data[chain'[i + 1]]
    <3> HIDE DEF q
    <3> SUFFICES ASSUME NEW i \in 1..Len(chain)
                 PROVE  q[i] = user_data[chain'[i + 1]]
      OBVIOUS
    <3>1. CASE i = Len(chain)
      BY ONLY <3>1, <2>3, <1>3, <1>1
    <3>2. CASE i # Len(chain)
      BY ONLY <3>2, <2>3, <2>2, <1>3
    <3>3. QED
      BY <3>1, <3>2
  <2>5. q = [i \in 1..Len(q) |-> q[i]]
    <3> HIDE DEF q
    <3> QED
      BY ONLY <2>3, SeqIsFunction
  <2>6. QED
    <3> HIDE DEF q
    <3>1. Queue' = q
      BY ONLY <2>1, <2>3, <2>4, <2>5
    <3>2. QED
      BY <3>1 DEF q
<1>5. /\ PhaseAt(pc[t]) = "enqueuing" /\ PhaseAt(pc'[t]) = "enqueued"
      /\ ArgAt(pc[t], mydata[t]) = mydata[t] /\ ArgAt(pc'[t], mydata'[t]) = NULL
  BY <1>2, Phases DEF EnqueuePcs, EnqueuedPcs, DequeuedPcs, ArgAt
<1>6. /\ Phase[t] = "enqueuing" /\ Arg[t] = mydata[t]
      /\ Phase' = [Phase EXCEPT ![t] = "enqueued"]
      /\ Arg' = [Arg EXCEPT ![t] = NULL]
  BY <1>2, <1>5, Moves DEF Phase, Arg
<1>7. SawEmpty' = SawEmpty
  BY <1>2 DEF SawEmpty, StepOf, IInv, TypeOK
<1>8. Queue' = Append(Queue, Arg[t])
  BY <1>4, <1>6
<1>9. QED
  BY ONLY <1>6, <1>7, <1>8
     DEF Fifo!TakeEnqueue, Queue, Phase, Arg, SawEmpty, PhaseAt, ArgAt

LEMMA DequeueCallIs ==
    ASSUME IInv, NEW t \in Threads, DequeueCall(t)
    PROVE  Fifo!CallDequeue(t)
<1>1. /\ StepOf(t) /\ pc[t] = "idle" /\ pc'[t] = "d_headp"
      /\ sawEmpty' = IF Len(chain) = 1 THEN sawEmpty \cup {t} ELSE sawEmpty
      /\ UNCHANGED <<chain, user_data>>
  BY DEF DequeueCall, Goto, shared, StepOf, IInv, TypeOK
<1>2. Queue' = Queue
  BY <1>1, QueueStays DEF IInv
<1>3. PhaseAt(pc[t]) = "idle" /\ PhaseAt(pc'[t]) = "dequeuing"
      /\ ArgAt(pc'[t], mydata'[t]) = NULL /\ ArgAt(pc[t], mydata[t]) = NULL
  BY <1>1, Phases DEF EnqueuePcs, DequeuePcs, DequeuedPcs, ArgAt
<1>4. /\ Phase[t] = "idle"
      /\ Phase' = [Phase EXCEPT ![t] = "dequeuing"]
      /\ Arg' = [Arg EXCEPT ![t] = Arg[t]]
  BY <1>1, <1>3, Moves DEF Phase, Arg
<1>5. Arg' = Arg
  BY <1>4 DEF Arg
<1>6. SawEmpty' = IF Queue = <<>> THEN SawEmpty \cup {t} ELSE SawEmpty
  <2>1. CASE Len(chain) = 1
    BY <2>1, <1>1, EmptyQueue DEF SawEmpty, StepOf, IInv, TypeOK
  <2>2. CASE Len(chain) # 1
    BY <2>2, <1>1, EmptyQueue DEF SawEmpty, StepOf, IInv, TypeOK
  <2>3. QED
    BY <2>1, <2>2
<1>7. QED
  BY ONLY <1>2, <1>4, <1>5, <1>6
     DEF Fifo!CallDequeue, Queue, Phase, Arg, SawEmpty, PhaseAt, ArgAt

LEMMA SwingHeadIs ==
    ASSUME IInv, NEW t \in Threads, SwingHead(t)
    PROVE  Fifo!TakeDequeue(t)
<1>1. /\ StepOf(t) /\ pc[t] = "d_swing" /\ pc'[t] = "d_dec" /\ mydata'[t] = mydata[t]
      /\ chain' = Tail(chain) /\ UNCHANGED user_data
      /\ sawEmpty' = IF Len(chain) = 2
                     THEN {u \in Threads : pc'[u] \in DequeuePcs}
                     ELSE sawEmpty \ {t}
  BY DEF SwingHead, Goto, StepOf, IInv, TypeOK
<1>2. Len(chain) > 1 /\ mydata[t] = user_data[chain[2]]
  BY <1>1, SwingAtFirst DEF SwingHead
<1>3. /\ Len(chain') = Len(chain) - 1
      /\ \A i \in 1..(Len(chain) - 1) : chain'[i] = chain[i + 1]
      /\ Len(chain) \in Nat
  BY <1>1, <1>2, TailFacts, ChainFacts DEF IInv
<1>4. /\ Queue \in Seq(Data) /\ Len(Queue) = Len(chain) - 1
      /\ \A i \in 1..(Len(chain) - 1) : Queue[i] = user_data[chain[i + 1]]
  BY QueueIs
<1>5. Queue # <<>> /\ Head(Queue) = mydata[t]
  <2>1. Queue # <<>>
    BY <1>2, EmptyQueue
  <2>2. Head(Queue) = Queue[1]
    BY <1>4, <2>1
  <2>3. Queue[1] = user_data[chain[2]]
    BY <1>2, <1>3, <1>4
  <2>4. QED
    BY <1>2, <2>1, <2>2, <2>3
<1> DEFINE q == Tail(Queue)
<1>6. /\ q \in Seq(Data) /\ Len(q) = Len(chain) - 2
      /\ \A i \in 1..(Len(chain) - 2) : q[i] = Queue[i + 1]
  BY <1>3, <1>4, <1>5, HeadTailProperties
<1>7. Queue' = q
  <2> HIDE DEF q
  <2>1. Queue' = [i \in 1..(Len(chain) - 2) |-> user_data[chain'[i + 1]]]
    BY <1>1, <1>3 DEF Queue
  <2>2. \A i \in 1..(Len(chain) - 2) : q[i] = user_data[chain'[i + 1]]
    BY ONLY <1>3, <1>4, <1>6
  <2>3. q = [i \in 1..Len(q) |-> q[i]]
    BY ONLY <1>6, SeqIsFunction
  <2>4. QED
    BY ONLY <1>6, <2>1, <2>2, <2>3
<1>8. q = <<>> <=> Len(chain) = 2
  <2> HIDE DEF q
  <2>1. q = <<>> <=> Len(q) = 0
    BY <1>6, EmptySeq
  <2>2. QED
    BY ONLY <1>3, <1>6, <2>1
<1> HIDE DEF q
<1>9. /\ PhaseAt(pc[t]) = "dequeuing" /\ PhaseAt(pc'[t]) = "dequeued"
      /\ ArgAt(pc'[t], mydata'[t]) = mydata[t]
  BY <1>1, Phases DEF EnqueuePcs, DequeuePcs, DequeuedPcs, ArgAt
<1>10. /\ Phase[t] = "dequeuing"
       /\ Phase' = [Phase EXCEPT ![t] = "dequeued"]
       /\ Arg' = [Arg EXCEPT ![t] = Head(Queue)]
  BY <1>1, <1>5, <1>9, Moves DEF Phase
<1>11. \A u \in Threads : Phase[u] = "dequeuing" <=> pc[u] \in DequeuePcs \ {"d_null"}
  <2>1. ASSUME NEW u \in Threads
        PROVE  PhaseAt(pc[u]) = "dequeuing" <=> pc[u] \in DequeuePcs \ {"d_null"}
    BY DEF PhaseAt, EmptyPcs, EnqueuePcs, EnqueuedPcs, DequeuePcs
  <2>2. QED
    BY <2>1 DEF Phase
<1>12. SawEmpty' = IF q = <<>>
                   THEN {u \in Threads \ {t} : Phase[u] = "dequeuing"}
                   ELSE SawEmpty \ {t}
  <2>1. CASE Len(chain) = 2
    <3>1. sawEmpty' = {u \in Threads : pc'[u] \in DequeuePcs}
      BY <2>1, <1>1
    <3>2. \A u \in Threads : pc'[u] \in DequeuePcs /\ pc'[u] # "d_null"
              <=> u # t /\ Phase[u] = "dequeuing"
      BY <1>1, <1>11 DEF StepOf, DequeuePcs
    <3>3. SawEmpty' = {u \in Threads \ {t} : Phase[u] = "dequeuing"}
      BY <3>1, <3>2 DEF SawEmpty
    <3>4. QED
      BY <2>1, <3>3, <1>8
  <2>2. CASE Len(chain) # 2
    <3>1. sawEmpty' = sawEmpty \ {t} /\ sawEmpty \subseteq Threads
      BY <2>2, <1>1 DEF IInv, TypeOK
    <3>2. SawEmpty' = SawEmpty \ {t}
      BY <3>1, <1>1 DEF SawEmpty, StepOf
    <3>3. QED
      BY <2>2, <3>2, <1>8
  <2>3. QED
    BY <2>1, <2>2
<1>13. /\ Queue' = Tail(Queue)
       /\ SawEmpty' = IF Tail(Queue) = <<>>
                      THEN {u \in Threads \ {t} : Phase[u] = "dequeuing"}
                      ELSE SawEmpty \ {t}
  BY <1>7, <1>12 DEF q
<1>14. Queue # <<>>
  BY <1>5
<1>15. QED
  BY ONLY <1>10, <1>13, <1>14
     DEF Fifo!TakeDequeue, Queue, Phase, Arg, SawEmpty, PhaseAt, ArgAt

LEMMA SeesNothing ==
    ASSUME IInv, NEW t \in Threads, DequeueRead(t), pc'[t] = "d_null"
    PROVE  Fifo!TakeNothing(t)
<1>1. /\ StepOf(t) /\ pc[t] = "d_chkv" /\ mynext[t].ptr = NULL
      /\ UNCHANGED <<chain, sawEmpty, user_data>>
  BY DEF DequeueRead, ReadHeadPtr, ReadHeadVersion, ReadTailPtr,
     ReadTailVersion, ReadNextPtr, ReadNextVersion, Compare, Retry, Goto,
     AfterCheck, shared, history, EnqueuePcs, StepOf, IInv, TypeOK
<1>2. t \in sawEmpty
  BY <1>1 DEF IInv, SeesEmpty, DequeuePcs, DeqHeadPcs, DeqTailPcs, DeqNextPcs
<1>3. Queue' = Queue
  BY <1>1, QueueStays DEF IInv
<1>4. /\ PhaseAt(pc[t]) = "dequeuing" /\ PhaseAt(pc'[t]) = "dequeued"
      /\ ArgAt(pc[t], mydata[t]) = NULL /\ ArgAt(pc'[t], mydata'[t]) = NULL
  BY <1>1, Phases DEF EnqueuePcs, DequeuePcs, DequeuedPcs, ArgAt
<1>5. /\ Phase[t] = "dequeuing"
      /\ Phase' = [Phase EXCEPT ![t] = "dequeued"]
      /\ Arg' = [Arg EXCEPT ![t] = Arg[t]]
  BY <1>1, <1>4, Moves DEF Phase, Arg
<1>6. Arg' = Arg
  BY <1>5 DEF Arg
<1>7. t \in SawEmpty /\ SawEmpty' = SawEmpty \ {t}
  BY <1>1, <1>2 DEF SawEmpty, StepOf, IInv, TypeOK
<1>8. QED
  BY ONLY <1>3, <1>5, <1>6, <1>7
     DEF Fifo!TakeNothing, Queue, Phase, Arg, SawEmpty, PhaseAt, ArgAt

LEMMA ReturnIs ==
    ASSUME IInv, NEW t \in Threads,
           EnqueueReturn(t) \/ DequeueReturn(t) \/ DequeueNull(t)
    PROVE  Fifo!Return(t)
<1>1. /\ StepOf(t) /\ pc[t] \in {"e_inc", "d_free", "d_null"} /\ pc'[t] = "idle"
      /\ UNCHANGED chain
  BY DEF EnqueueReturn, DequeueReturn, DequeueNull, ReturnFrom, Goto, history,
     StepOf, IInv, TypeOK
<1>2. \A n \in Linked : user_data'[n] = user_data[n]
  <2>1. CASE EnqueueReturn(t) \/ DequeueNull(t)
    BY <2>1 DEF EnqueueReturn, DequeueNull, shared
  <2>2. CASE DequeueReturn(t)
    <3>1. myhead[t].ptr \notin Linked
      BY <2>2 DEF DequeueReturn, ReturnFrom, Goto, IInv, Dequeues, DequeuedPcs
    <3>2. QED
      BY <2>2, <3>1, ChainFacts DEF DequeueReturn, IInv, TypeOK
  <2>3. QED
    BY <2>1, <2>2
<1>3. Queue' = Queue
  BY <1>1, <1>2, QueueStays DEF IInv
<1>4. /\ PhaseAt(pc[t]) \in {"enqueued", "dequeued"} /\ PhaseAt(pc'[t]) = "idle"
      /\ ArgAt(pc'[t], mydata'[t]) = NULL
  BY <1>1, Phases DEF EnqueuePcs, EnqueuedPcs, DequeuedPcs, ArgAt
<1>5. /\ Phase[t] \in {"enqueued", "dequeued"}
      /\ Phase' = [Phase EXCEPT ![t] = "idle"]
      /\ Arg' = [Arg EXCEPT ![t] = NULL]
  BY <1>1, <1>4, Moves DEF Phase
<1>6. SawEmpty' = SawEmpty
  <2>1. CASE DequeueNull(t)
    BY <2>1, <1>1 DEF DequeueNull, ReturnFrom, Goto, SawEmpty, StepOf, IInv, TypeOK
  <2>2. CASE EnqueueReturn(t) \/ DequeueReturn(t)
    <3>1. t \notin sawEmpty /\ sawEmpty' = sawEmpty
      BY <2>2, NotInDequeue DEF EnqueueReturn, DequeueReturn, ReturnFrom, Goto,
         history, DequeuePcs
    <3>2. QED
      BY <3>1, <1>1 DEF SawEmpty, StepOf, IInv, TypeOK
  <2>3. QED
    BY <2>1, <2>2
<1>7. QED
  BY ONLY <1>3, <1>5, <1>6
     DEF Fifo!Return, Queue, Phase, Arg, SawEmpty, PhaseAt, ArgAt

-----------------------------------------------------------------------------

LEMMA InitIsFifoInit == Init => Fifo!FifoInit
<1> SUFFICES ASSUME Init PROVE Fifo!FifoInit
  OBVIOUS
<1>1. Len(chain) = 1 /\ sawEmpty = {} /\ pc = [t \in Threads |-> "idle"]
  BY DEF Init
<1>2. Queue = <<>>
  BY ONLY <1>1 DEF Queue
<1>3. \A t \in Threads : PhaseAt(pc[t]) = "idle" /\ ArgAt(pc[t], mydata[t]) = NULL
  BY <1>1, Phases DEF ArgAt, EnqueuePcs, DequeuedPcs
<1>4. Phase = [t \in Threads |-> "idle"] /\ Arg = [t \in Threads |-> NULL]
  BY ONLY <1>3 DEF Phase, Arg
<1>5. SawEmpty = {}
  BY ONLY <1>1 DEF SawEmpty
<1>6. QED
  BY ONLY <1>2, <1>4, <1>5
     DEF Fifo!FifoInit, Queue, Phase, Arg, SawEmpty, PhaseAt, ArgAt

LEMMA Unchanged ==
    ASSUME UNCHANGED <<Queue, Phase, Arg, SawEmpty>>
    PROVE  UNCHANGED Fifo!fifoVars
  BY DEF Fifo!fifoVars, Queue, Phase, Arg, SawEmpty, PhaseAt, ArgAt

LEMMA StepIsFifoStep ==
    ~Recycle /\ IInv /\ [Next]_vars => [Fifo!FifoNext]_Fifo!fifoVars
<1> SUFFICES ASSUME ~Recycle, IInv, [Next]_vars
             PROVE  [Fifo!FifoNext]_Fifo!fifoVars
  OBVIOUS
<1>1. CASE UNCHANGED vars
  <2>1. UNCHANGED <<Queue, Phase, Arg, SawEmpty>>
    BY <1>1 DEF vars, shared, locals, history, Queue, Phase, Arg, SawEmpty
  <2>2. QED
    BY <2>1, Unchanged
<1>2. ASSUME NEW t \in Threads, NEW n \in Nodes, NEW v \in Data, EnqueueCall(t, n, v)
      PROVE  Fifo!FifoNext
  BY <1>2, EnqueueCallIs DEF Fifo!FifoNext
<1>3. ASSUME NEW t \in Threads, Link(t)
      PROVE  Fifo!FifoNext
  BY <1>3, LinkIs DEF Fifo!FifoNext
<1>4. ASSUME NEW t \in Threads, DequeueCall(t)
      PROVE  Fifo!FifoNext
  BY <1>4, DequeueCallIs DEF Fifo!FifoNext
<1>5. ASSUME NEW t \in Threads, SwingHead(t)
      PROVE  Fifo!FifoNext
  BY <1>5, SwingHeadIs DEF Fifo!FifoNext
<1>6. ASSUME NEW t \in Threads, EnqueueReturn(t) \/ DequeueReturn(t) \/ DequeueNull(t)
      PROVE  Fifo!FifoNext
  BY <1>6, ReturnIs DEF Fifo!FifoNext
<1>7. ASSUME NEW t \in Threads,
             \/ DequeueRead(t) \/ DequeueHelp(t) \/ ReadUserData(t)
             \/ SwingHeadFails(t)
      PROVE  [Fifo!FifoNext]_Fifo!fifoVars
  <2>1. CASE pc'[t] = "d_null"
    <3>1. DequeueRead(t)
      BY <1>7, <2>1 DEF DequeueHelp, ReadUserData, SwingHeadFails, Retry, Goto,
         EnqueuePcs, IInv, TypeOK
    <3>2. QED
      BY <3>1, <2>1, SeesNothing DEF Fifo!FifoNext
  <2>2. CASE pc'[t] # "d_null"
    BY <1>7, <2>2, DequeueStutters, Unchanged
  <2>3. QED
    BY <2>1, <2>2
<1>8. ASSUME NEW t \in Threads,
             \/ InitNextPtr(t) \/ InitNextVersion(t) \/ EnqueueRead(t)
             \/ LinkFails(t) \/ EnqueueHelp(t)
      PROVE  UNCHANGED Fifo!fifoVars
  BY <1>8, EnqueueStutters, Unchanged
<1>9. ASSUME NEW t \in Threads,
             \/ SwingTail(t) \/ DecLen(t) \/ EmptyCall(t) \/ EmptyReturn(t)
             \/ DestroyCall(t) \/ FreeHead(t)
      PROVE  UNCHANGED Fifo!fifoVars
  BY <1>9, OtherStutters, Unchanged
<1>10. QED
  BY <1>1, <1>2, <1>3, <1>4, <1>5, <1>6, <1>7, <1>8, <1>9 DEF Next, Step

(* Whatever the interleaving, mpmc_enqueue and mpmc_dequeue take effect    *)
(* one after the other, as operations of a FIFO queue, and a dequeue that  *)
(* returns NULL has met an empty queue.                                    *)
THEOREM ImplementsFifo == ASSUME ~Recycle PROVE Spec => IsFifo
<1>1. Init => Fifo!FifoInit
  BY InitIsFifoInit
<1>2. IInv /\ [Next]_vars => [Fifo!FifoNext]_Fifo!fifoVars
  BY StepIsFifoStep
<1>3. QED
  BY <1>1, <1>2, Invariance, PTL DEF Spec, IsFifo, Fifo!FifoSpec
=============================================================================

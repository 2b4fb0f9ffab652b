--------------------------- MODULE SpscFifoProofs ---------------------------
(***************************************************************************)
(* SpscQueue implements FifoQueue, for any number of nodes and values.     *)
(***************************************************************************)
EXTENDS SpscQueueProofs

\* FifoQueue's variables, as Fifo substitutes them: one part per thread.
Queue == [i \in 1..(IF chain = <<>> THEN 0 ELSE Len(chain) - 1) |->
              data[chain[i + 1]]]
ProducerPhase == IF prodPc \in {"idle", "stopped"} THEN "idle"
                 ELSE IF InList THEN "enqueued" ELSE "enqueuing"
ConsumerPhase == IF consPc \in {"idle", "destroyed"} THEN "idle"
                 ELSE IF consPc = "return" THEN "dequeued" ELSE "dequeuing"
ProducerArg == IF node = NULL \/ InList THEN NULL ELSE val
ConsumerArg == IF consPc = "return" /\ new_head # NULL THEN data[new_head]
                                                       ELSE NULL
Callers == {"producer", "consumer"}
Phase == [t \in Callers |-> IF t = "producer" THEN ProducerPhase
                                              ELSE ConsumerPhase]
Arg == [t \in Callers |-> IF t = "producer" THEN ProducerArg ELSE ConsumerArg]
SawEmpty == IF sawEmpty THEN {"consumer"} ELSE {}

\* A dequeue that has not looked yet knows whether the queue was empty.
SeesEmpty ==
    /\ consPc = "load" /\ ~sawEmpty => Len(chain) > 1
    /\ consPc \notin {"load", "dec", "move"} => ~sawEmpty

FInv == IInv /\ SeesEmpty

-----------------------------------------------------------------------------

LEMMA NextSeesEmpty == FInv /\ [Next]_vars => SeesEmpty'
<1> SUFFICES ASSUME FInv, [Next]_vars PROVE SeesEmpty'
  OBVIOUS
<1> USE DEF FInv, SeesEmpty, ProdGoto, ConsGoto, Flush, producer, consumer, history
<1>0. IInv /\ Len(chain) \in Nat /\ chain \in Seq(Nodes)
  BY ChainFacts DEF IInv, TypeOK
<1>1. ASSUME NEW n \in Nodes, NEW v \in Data, EnqueueCall(n, v)
      PROVE  SeesEmpty'
  BY <1>1 DEF EnqueueCall
<1>2. CASE ProducerStep
  BY <1>2 DEF ProducerStep, InitNext, WriteBarrier, LinkNode, MoveTail, IncLen,
              PrintData
<1>3. CASE StopProducer \/ QueryEmpty \/ DestroyCall
  BY <1>3 DEF StopProducer, QueryEmpty, DestroyCall
<1>4. CASE FlushStep
  <2>1. CASE FlushData \/ FlushNext \/ FlushTail
    BY <2>1 DEF FlushData, FlushNext, FlushTail
  <2>2. CASE FlushLink
    <3>1. node \in Nodes
      BY <2>2 DEF FlushLink, IInv, TypeOK, StoreOrder, ProdPcs
    <3>2. Len(chain') = Len(chain) + 1
      BY <2>2, <3>1, <1>0, AppendProperties DEF FlushLink
    <3>3. QED
      BY <2>2, <3>2, <1>0 DEF FlushLink
  <2>3. QED
    BY <1>4, <2>1, <2>2 DEF FlushStep
<1>5. CASE DequeueCall
  <2>1. Len(chain) > 0
    BY <1>5, <1>0 DEF DequeueCall, IInv, ListShape
  <2>2. consPc' = "load" /\ (sawEmpty' <=> Len(chain) = 1) /\ chain' = chain
    BY <1>5 DEF DequeueCall
  <2>3. Len(chain) # 1 => Len(chain) > 1
    BY <2>1, <1>0
  <2>4. ~sawEmpty' => Len(chain') > 1
    BY ONLY <2>2, <2>3
  <2>5. QED
    BY <2>2, <2>4
<1>6. CASE ConsumerStep
  BY <1>6 DEF ConsumerStep, LoadNextNull, LoadNextNode, DecLen, MoveHead,
              DequeueReturn
<1>7. CASE FreeLast
  BY <1>7 DEF FreeLast
<1>8. CASE UNCHANGED vars
  BY <1>8 DEF vars
<1>9. QED
  BY <1>1, <1>2, <1>3, <1>4, <1>5, <1>6, <1>7, <1>8 DEF Next, Done

LEMMA FInvariance == ASSUME ConsumerStarts PROVE Spec => []FInv
<1>1. Init => FInv
  BY InitIInv DEF FInv, SeesEmpty, Init
<1>2. FInv /\ [Next]_vars => FInv'
  BY NextIInv, NextSeesEmpty DEF FInv
<1>3. QED
  BY <1>1, <1>2, PTL DEF Spec

-----------------------------------------------------------------------------
(* The steps of FifoQueue, from what a step does to each of the parts.     *)

LEMMA ProducerMoves ==
    ASSUME UNCHANGED <<ConsumerPhase, ConsumerArg>>
    PROVE  /\ Phase' = [Phase EXCEPT !["producer"] = ProducerPhase']
           /\ Arg' = [Arg EXCEPT !["producer"] = ProducerArg']
<1>1. \A t \in Callers : t = "producer" \/ t = "consumer"
  BY DEF Callers
<1>2. \A t \in Callers : Phase'[t] = IF t = "producer" THEN ProducerPhase' ELSE Phase[t]
  BY DEF Phase
<1>3. \A t \in Callers : Arg'[t] = IF t = "producer" THEN ProducerArg' ELSE Arg[t]
  BY DEF Arg
<1>4. QED
  BY <1>2, <1>3 DEF Phase, Arg

LEMMA ConsumerMoves ==
    ASSUME UNCHANGED <<ProducerPhase, ProducerArg>>
    PROVE  /\ Phase' = [Phase EXCEPT !["consumer"] = ConsumerPhase']
           /\ Arg' = [Arg EXCEPT !["consumer"] = ConsumerArg']
<1>1. \A t \in Callers : t = "producer" \/ t = "consumer"
  BY DEF Callers
<1>2. \A t \in Callers : Phase'[t] = IF t = "consumer" THEN ConsumerPhase' ELSE Phase[t]
  BY <1>1 DEF Phase
<1>3. \A t \in Callers : Arg'[t] = IF t = "consumer" THEN ConsumerArg' ELSE Arg[t]
  BY <1>1 DEF Arg
<1>4. QED
  BY <1>2, <1>3 DEF Phase, Arg

LEMMA QueueStays ==
    ASSUME UNCHANGED chain, TypeOK,
           \A i \in 2..Len(chain) : data'[chain[i]] = data[chain[i]]
    PROVE  Queue' = Queue
<1>1. Len(chain) \in Nat
  BY ChainFacts
<1>2. ASSUME NEW i \in 1..(Len(chain) - 1)
      PROVE  data'[chain[i + 1]] = data[chain[i + 1]]
  BY <1>1
<1>3. QED
  BY <1>2, <1>1 DEF Queue

-----------------------------------------------------------------------------
(* The steps of the code that are no step of FifoQueue.                    *)

LEMMA Stutters ==
    ASSUME FInv,
           \/ InitNext \/ WriteBarrier \/ LinkNode \/ MoveTail \/ IncLen
           \/ StopProducer \/ FlushNext \/ FlushTail \/ QueryEmpty
           \/ LoadNextNode \/ DecLen \/ DestroyCall \/ UNCHANGED vars
    PROVE  UNCHANGED <<Queue, Phase, Arg, SawEmpty>>
<1> USE DEF FInv, IInv, ProdGoto, ConsGoto, Flush
<1>1. UNCHANGED <<chain, data, sawEmpty, node, val>>
  BY DEF InitNext, WriteBarrier, LinkNode, MoveTail, IncLen, StopProducer, FlushNext,
         FlushTail, QueryEmpty, LoadNextNode, DecLen, DestroyCall, vars,
         shared, producer, consumer, history
<1>2. UNCHANGED <<Queue, InList, SawEmpty>>
  BY <1>1 DEF Queue, InList, Linked, SawEmpty
<1>3. UNCHANGED <<ProducerPhase, ProducerArg>>
  BY <1>1, <1>2 DEF ProducerPhase, ProducerArg, StoreOrder, TypeOK,
         InitNext, WriteBarrier, LinkNode, MoveTail, IncLen, StopProducer, FlushNext,
         FlushTail, QueryEmpty, LoadNextNode, DecLen, DestroyCall, vars, producer
<1>4. UNCHANGED <<ConsumerPhase, ConsumerArg>>
  BY <1>1 DEF ConsumerPhase, ConsumerArg,
         InitNext, WriteBarrier, LinkNode, MoveTail, IncLen, StopProducer, FlushNext,
         FlushTail, QueryEmpty, LoadNextNode, DecLen, DestroyCall, vars, consumer
<1>5. QED
  BY <1>2, <1>3, <1>4 DEF Phase, Arg

LEMMA FlushDataStutters ==
    ASSUME FInv, FlushData
    PROVE  UNCHANGED <<Queue, Phase, Arg, SawEmpty>>
<1> USE DEF FInv, IInv, FlushData, Flush, consumer, history
<1>1. node \in Nodes /\ node \notin Linked
  BY PendingUnlinked
<1>2. Queue' = Queue
  BY <1>1, QueueStays, ChainFacts DEF TypeOK
<1>3. UNCHANGED <<ProducerPhase, ProducerArg>>
  BY DEF ProducerPhase, ProducerArg, InList, Linked
<1>4. consPc = "return" /\ new_head # NULL => new_head \in Linked
  BY ChainFacts DEF DequeueShape, ListShape
<1>5. UNCHANGED <<ConsumerPhase, ConsumerArg>>
  BY <1>1, <1>4 DEF ConsumerPhase, ConsumerArg, TypeOK
<1>6. QED
  BY <1>2, <1>3, <1>5 DEF Phase, Arg, SawEmpty

LEMMA FreeLastStutters ==
    ASSUME FInv, FreeLast
    PROVE  UNCHANGED <<Queue, Phase, Arg, SawEmpty>>
<1> USE DEF FInv, IInv, FreeLast, ConsGoto, producer
<1>1. Len(chain) = 1 /\ chain # <<>> /\ chain' = <<>>
  <2>1. Len(chain) \in Nat /\ Len(chain) > 0 /\ head = chain[1]
    BY ChainFacts DEF ListShape
  <2>2. ASSUME Len(chain) > 1 PROVE FALSE
    BY <2>1, <2>2, ChainFacts, SpscAssumption DEF ListShape, Empty
  <2>3. Len(chain) = 1
    BY ONLY <2>1, <2>2
  <2>4. QED
    BY <2>3
<1>2. Queue' = Queue
  BY ONLY <1>1 DEF Queue
<1>3. node = NULL
  BY DEF StoreOrder, TailShape
<1>4. UNCHANGED <<ProducerPhase, ProducerArg>>
  BY <1>3 DEF ProducerPhase, ProducerArg, InList, StoreOrder, TailShape
<1>5. UNCHANGED <<ConsumerPhase, ConsumerArg>>
  BY DEF ConsumerPhase, ConsumerArg
<1>6. QED
  BY <1>2, <1>4, <1>5 DEF Phase, Arg, SawEmpty

-----------------------------------------------------------------------------
(* The steps that are.                                                     *)

LEMMA EnqueueCallIs ==
    ASSUME FInv, NEW n \in Nodes, NEW v \in Data, EnqueueCall(n, v)
    PROVE  Fifo!CallEnqueue("producer", v)
<1> USE SpscAssumption DEF FInv, IInv, EnqueueCall, ProdGoto, consumer, history
<1>1. n \notin Linked
  BY DEF NoLeak
<1>2. Queue' = Queue
  BY <1>1, QueueStays, ChainFacts DEF TypeOK
<1>3. UNCHANGED <<ConsumerPhase, ConsumerArg>>
  <2>1. consPc = "return" /\ new_head # NULL => new_head \in Linked
    BY ChainFacts DEF DequeueShape, ListShape
  <2>2. QED
    BY <1>1, <2>1 DEF ConsumerPhase, ConsumerArg, TypeOK
<1>4. ProducerPhase = "idle" /\ ProducerPhase' = "enqueuing" /\ ProducerArg' = v
  BY <1>1 DEF ProducerPhase, ProducerArg, InList, Linked
<1>5. /\ Phase["producer"] = "idle"
      /\ Phase' = [Phase EXCEPT !["producer"] = "enqueuing"]
      /\ Arg' = [Arg EXCEPT !["producer"] = v]
  BY <1>3, <1>4, ProducerMoves DEF Phase, Callers
<1>6. SawEmpty' = SawEmpty
  BY DEF SawEmpty
<1> QED
  BY <1>2, <1>5, <1>6
     DEF Fifo!CallEnqueue, Queue, Phase, Arg, SawEmpty, ProducerPhase,
         ConsumerPhase, ProducerArg, ConsumerArg, Callers

\* The values in the queue, as a sequence.
LEMMA QueueIs ==
    ASSUME FInv, Len(chain) > 0
    PROVE  /\ Queue \in Seq(Data)
           /\ Len(Queue) = Len(chain) - 1
           /\ \A i \in 1..(Len(chain) - 1) : Queue[i] = data[chain[i + 1]]
<1> USE DEF FInv, IInv
<1>1. Len(chain) \in Nat /\ chain # <<>>
  BY ChainFacts
<1>2. Queue = [i \in 1..(Len(chain) - 1) |-> data[chain[i + 1]]]
  BY <1>1 DEF Queue
<1>3. \A i \in 1..(Len(chain) - 1) : data[chain[i + 1]] \in Data
  BY <1>1 DEF ListShape
<1>4. QED
  BY ONLY <1>1, <1>2, <1>3, Len(chain) > 0

LEMMA SeqIsFunction ==
    ASSUME NEW S, NEW s \in Seq(S)
    PROVE  s = [i \in 1..Len(s) |-> s[i]]
<1>1. s \in [1..Len(s) -> S]
  BY LenProperties
<1>2. QED
  BY ONLY <1>1

LEMMA FlushLinkIs ==
    ASSUME FInv, FlushLink
    PROVE  Fifo!TakeEnqueue("producer")
<1> USE SpscAssumption DEF FInv, IInv, FlushLink, Flush, consumer
<1>1. /\ prodPc \in {"tail", "len"} /\ "data" \notin pending
      /\ node \in Nodes /\ node \notin Linked /\ val \in Data /\ data[node] = val
  BY DEF StoreOrder, TailShape, TypeOK, ProdPcs
<1>2. Len(chain) > 0 /\ Len(chain) \in Nat
  BY <1>1, ChainFacts DEF TailShape, ListShape
<1>3. /\ Len(chain') = Len(chain) + 1
      /\ chain'[Len(chain) + 1] = node
      /\ \A i \in 1..Len(chain) : chain'[i] = chain[i]
  BY <1>1, AppendProperties DEF TypeOK
<1>4. Queue' = Append(Queue, val)
  <2>1. Queue' = [i \in 1..Len(chain) |-> data[chain'[i + 1]]]
    BY <1>2, <1>3 DEF Queue
  <2>2. /\ Queue \in Seq(Data)
        /\ Len(Queue) = Len(chain) - 1
        /\ \A i \in 1..(Len(chain) - 1) : Queue[i] = data[chain[i + 1]]
    BY <1>2, QueueIs
  <2>3. /\ Append(Queue, val) \in Seq(Data)
        /\ Len(Append(Queue, val)) = Len(chain)
        /\ \A i \in 1..(Len(chain) - 1) : Append(Queue, val)[i] = Queue[i]
        /\ Append(Queue, val)[Len(chain)] = val
    BY <1>1, <1>2, <2>2, AppendProperties
  <2>4. \A i \in 1..Len(chain) : Append(Queue, val)[i] = data[chain'[i + 1]]
    <3> SUFFICES ASSUME NEW i \in 1..Len(chain)
                 PROVE  Append(Queue, val)[i] = data[chain'[i + 1]]
      OBVIOUS
    <3>1. CASE i = Len(chain)
      BY ONLY <3>1, <2>3, <1>3, <1>1
    <3>2. CASE i # Len(chain)
      BY ONLY <3>2, <2>3, <2>2, <1>3, <1>2
    <3>3. QED
      BY <3>1, <3>2
  <2>5. Append(Queue, val) = [i \in 1..Len(Append(Queue, val)) |-> Append(Queue, val)[i]]
    BY ONLY <2>3, SeqIsFunction
  <2>6. QED
    BY ONLY <2>1, <2>3, <2>4, <2>5
<1>5. UNCHANGED <<ConsumerPhase, ConsumerArg>>
  BY DEF ConsumerPhase, ConsumerArg
<1>6. Linked' = Linked \cup {node}
  BY <1>1, LinkedAppend DEF Linked, TypeOK
<1>7. /\ ProducerPhase = "enqueuing" /\ ProducerPhase' = "enqueued"
      /\ ProducerArg = val /\ ProducerArg' = NULL
  BY <1>1, <1>6 DEF ProducerPhase, ProducerArg, InList
<1>8. /\ Phase["producer"] = "enqueuing" /\ Arg["producer"] = val
      /\ Phase' = [Phase EXCEPT !["producer"] = "enqueued"]
      /\ Arg' = [Arg EXCEPT !["producer"] = NULL]
  BY <1>5, <1>7, ProducerMoves DEF Phase, Arg, Callers
<1>9. SawEmpty' = SawEmpty
  BY DEF SawEmpty
<1> QED
  BY ONLY <1>4, <1>8, <1>9
     DEF Fifo!TakeEnqueue, Queue, Phase, Arg, SawEmpty, ProducerPhase,
         ConsumerPhase, ProducerArg, ConsumerArg, Callers

LEMMA PrintDataIs ==
    ASSUME FInv, PrintData
    PROVE  Fifo!Return("producer")
<1> USE SpscAssumption DEF FInv, IInv, PrintData, ProdGoto, shared, consumer, history
<1>1. Len(chain) > 0 /\ Len(chain) \in Nat
  BY ChainFacts DEF TailShape, ListShape
<1>2. InList /\ node # NULL
  BY <1>1, ChainFacts DEF InList, StoreOrder, TailShape, Last
<1>3. Queue' = Queue
  BY DEF Queue
<1>4. UNCHANGED <<ConsumerPhase, ConsumerArg>>
  BY DEF ConsumerPhase, ConsumerArg
<1>5. ProducerPhase = "enqueued" /\ ProducerPhase' = "idle" /\ ProducerArg' = NULL
  BY <1>2 DEF ProducerPhase, ProducerArg
<1>6. /\ Phase["producer"] = "enqueued"
      /\ Phase' = [Phase EXCEPT !["producer"] = "idle"]
      /\ Arg' = [Arg EXCEPT !["producer"] = NULL]
  BY <1>4, <1>5, ProducerMoves DEF Phase, Callers
<1>7. SawEmpty' = SawEmpty
  BY DEF SawEmpty
<1> QED
  BY ONLY <1>3, <1>6, <1>7
     DEF Fifo!Return, Queue, Phase, Arg, SawEmpty, ProducerPhase,
         ConsumerPhase, ProducerArg, ConsumerArg, Callers

LEMMA DequeueCallIs ==
    ASSUME FInv, DequeueCall
    PROVE  Fifo!CallDequeue("consumer")
<1> USE SpscAssumption DEF FInv, IInv, DequeueCall, ConsGoto, shared, producer
<1>1. Len(chain) > 0 /\ Len(chain) \in Nat
  BY ChainFacts DEF ListShape
<1>2. Queue' = Queue
  BY DEF Queue
<1>3. Queue = <<>> <=> Len(chain) = 1
  BY <1>1, QueueIs, EmptySeq
<1>4. UNCHANGED <<ProducerPhase, ProducerArg>>
  BY DEF ProducerPhase, ProducerArg, InList, Linked
<1>5. /\ ConsumerPhase = "idle" /\ ConsumerPhase' = "dequeuing"
      /\ ConsumerArg = NULL /\ ConsumerArg' = NULL
  BY DEF ConsumerPhase, ConsumerArg
<1>6. /\ Phase["consumer"] = "idle" /\ Arg["consumer"] = NULL
      /\ Phase' = [Phase EXCEPT !["consumer"] = "dequeuing"]
      /\ Arg' = [Arg EXCEPT !["consumer"] = NULL]
  BY <1>4, <1>5, ConsumerMoves DEF Phase, Arg, Callers
<1>7. Arg' = Arg
  BY <1>4, <1>5 DEF Arg
<1>8. ~sawEmpty /\ (sawEmpty' <=> Len(chain) = 1)
  BY DEF SeesEmpty
<1>9. SawEmpty' = IF Queue = <<>> THEN SawEmpty \cup {"consumer"} ELSE SawEmpty
  BY ONLY <1>3, <1>8 DEF SawEmpty
<1> QED
  BY ONLY <1>2, <1>6, <1>7, <1>9
     DEF Fifo!CallDequeue, Queue, Phase, Arg, SawEmpty, ProducerPhase,
         ConsumerPhase, ProducerArg, ConsumerArg, Callers

LEMMA LoadNextNullIs ==
    ASSUME FInv, LoadNextNull
    PROVE  Fifo!TakeNothing("consumer")
<1> USE SpscAssumption DEF FInv, IInv, LoadNextNull, ConsGoto, shared, producer
<1>1. Len(chain) > 0 /\ Len(chain) \in Nat /\ dead_head = chain[1]
  BY ChainFacts DEF ListShape, DequeueShape
<1>2. ~(Len(chain) > 1)
  <2> SUFFICES ASSUME Len(chain) > 1 PROVE FALSE
    OBVIOUS
  <2>1. next[chain[1]] = chain[2] /\ chain[2] \in Nodes
    BY <1>1, ChainFacts DEF ListShape
  <2>2. QED
    BY <2>1, <1>1
<1>3. sawEmpty /\ ~sawEmpty'
  BY <1>2 DEF SeesEmpty
<1>4. Queue' = Queue
  BY DEF Queue
<1>5. UNCHANGED <<ProducerPhase, ProducerArg>>
  BY DEF ProducerPhase, ProducerArg, InList, Linked
<1>6. /\ ConsumerPhase = "dequeuing" /\ ConsumerPhase' = "dequeued"
      /\ ConsumerArg = NULL /\ ConsumerArg' = NULL
  BY DEF ConsumerPhase, ConsumerArg
<1>7. /\ Phase["consumer"] = "dequeuing"
      /\ Phase' = [Phase EXCEPT !["consumer"] = "dequeued"]
  BY <1>5, <1>6, ConsumerMoves DEF Phase, Callers
<1>8. Arg' = Arg
  BY <1>5, <1>6 DEF Arg
<1>9. SawEmpty = {"consumer"} /\ SawEmpty' = {}
  BY ONLY <1>3 DEF SawEmpty
<1> QED
  BY ONLY <1>4, <1>7, <1>8, <1>9
     DEF Fifo!TakeNothing, Queue, Phase, Arg, SawEmpty, ProducerPhase,
         ConsumerPhase, ProducerArg, ConsumerArg, Callers

LEMMA MoveHeadIs ==
    ASSUME FInv, MoveHead
    PROVE  Fifo!TakeDequeue("consumer")
<1> USE SpscAssumption DEF FInv, IInv, MoveHead, ConsGoto, producer
<1>1. /\ Len(chain) > 1 /\ Len(chain) \in Nat /\ new_head = chain[2]
      /\ chain[1] \in Nodes /\ chain[2] \in Nodes /\ chain[1] # chain[2]
  BY ChainFacts DEF ListShape, DequeueShape
<1>2. /\ Len(chain') = Len(chain) - 1
      /\ \A i \in 1..(Len(chain) - 1) : chain'[i] = chain[i + 1]
  BY <1>1, HeadTailProperties DEF TypeOK
<1>3. /\ Queue \in Seq(Data)
      /\ Len(Queue) = Len(chain) - 1
      /\ \A i \in 1..(Len(chain) - 1) : Queue[i] = data[chain[i + 1]]
  BY <1>1, QueueIs
<1>4. /\ Tail(Queue) \in Seq(Data) /\ Queue # <<>>
      /\ Len(Tail(Queue)) = Len(chain) - 2
      /\ \A i \in 1..(Len(chain) - 2) : Tail(Queue)[i] = data[chain[i + 2]]
      /\ Head(Queue) = data[chain[2]]
  BY ONLY <1>1, <1>3, HeadTailProperties, EmptySeq
<1>5. Queue' = Tail(Queue)
  <2>1. Queue' = [i \in 1..(Len(chain) - 2) |-> data[chain'[i + 1]]]
    <3>1. Len(chain') # 0 /\ Len(chain') - 1 = Len(chain) - 2 /\ data' = data
      BY <1>1, <1>2
    <3>2. chain' # <<>>
      BY ONLY <3>1, EmptySeq
    <3>3. QED
      BY ONLY <3>1, <3>2 DEF Queue
  <2>2. \A i \in 1..(Len(chain) - 2) : data[chain'[i + 1]] = Tail(Queue)[i]
    BY ONLY <1>1, <1>2, <1>4
  <2>3. Tail(Queue) = [i \in 1..Len(Tail(Queue)) |-> Tail(Queue)[i]]
    BY ONLY <1>4, SeqIsFunction
  <2>4. QED
    BY ONLY <2>1, <2>2, <2>3, <1>4
<1>6. UNCHANGED <<ProducerPhase, ProducerArg>>
  <2>1. Linked' = Linked \ {chain[1]}
    <3>1. /\ chain \in Seq(Nodes) /\ Len(chain) > 0 /\ chain' = Tail(chain)
          /\ \A i, j \in 1..Len(chain) : chain[i] = chain[j] => i = j
      BY <1>1 DEF TypeOK, ListShape
    <3>2. QED
      BY ONLY <3>1, LinkedTail DEF Linked
  <2>2. node # NULL /\ node \in Linked => node # chain[1]
    <3> SUFFICES ASSUME node # NULL, node \in Linked PROVE node # chain[1]
      OBVIOUS
    <3>1. node = Last
      BY DEF TailShape, StoreOrder, TypeOK, ProdPcs
    <3>2. QED
      BY <3>1, <1>1 DEF Last, ListShape
  <2>3. QED
    BY <2>1, <2>2 DEF ProducerPhase, ProducerArg, InList
<1>7. /\ ConsumerPhase = "dequeuing" /\ ConsumerPhase' = "dequeued"
      /\ ConsumerArg' = data[chain[2]]
  BY <1>1 DEF ConsumerPhase, ConsumerArg
<1>8. /\ Phase["consumer"] = "dequeuing" /\ Phase["producer"] = ProducerPhase
      /\ Phase' = [Phase EXCEPT !["consumer"] = "dequeued"]
      /\ Arg' = [Arg EXCEPT !["consumer"] = data[chain[2]]]
  BY ONLY <1>6, <1>7, ConsumerMoves DEF Phase, Callers
<1>9. SawEmpty \ {"consumer"} = {} /\ SawEmpty' = {}
  BY DEF SawEmpty
<1>10. {u \in Callers \ {"consumer"} : Phase[u] = "dequeuing"} = {}
  BY <1>8 DEF Callers, ProducerPhase
<1> QED
  BY ONLY <1>4, <1>5, <1>8, <1>9, <1>10
     DEF Fifo!TakeDequeue, Queue, Phase, Arg, SawEmpty, ProducerPhase,
         ConsumerPhase, ProducerArg, ConsumerArg, Callers

LEMMA DequeueReturnIs ==
    ASSUME FInv, DequeueReturn
    PROVE  Fifo!Return("consumer")
<1> USE SpscAssumption DEF FInv, IInv, DequeueReturn, ConsGoto, producer, history
<1>1. UNCHANGED <<Queue, SawEmpty>>
  BY DEF Queue, SawEmpty
<1>2. UNCHANGED <<ProducerPhase, ProducerArg>>
  BY DEF ProducerPhase, ProducerArg, InList, Linked
<1>3. ConsumerPhase = "dequeued" /\ ConsumerPhase' = "idle" /\ ConsumerArg' = NULL
  BY DEF ConsumerPhase, ConsumerArg
<1>4. /\ Phase["consumer"] = "dequeued"
      /\ Phase' = [Phase EXCEPT !["consumer"] = "idle"]
      /\ Arg' = [Arg EXCEPT !["consumer"] = NULL]
  BY <1>2, <1>3, ConsumerMoves DEF Phase, Callers
<1> QED
  BY ONLY <1>1, <1>4
     DEF Fifo!Return, Queue, Phase, Arg, SawEmpty, ProducerPhase,
         ConsumerPhase, ProducerArg, ConsumerArg, Callers

-----------------------------------------------------------------------------

LEMMA InitIsFifoInit == Init => Fifo!FifoInit
<1> SUFFICES ASSUME Init PROVE Fifo!FifoInit
  OBVIOUS
<1>1. Len(chain) = 1 /\ chain # <<>> /\ node = NULL
  BY DEF Init
<1>2. Queue = <<>>
  BY ONLY <1>1 DEF Queue
<1>3. ProducerPhase = "idle" /\ ConsumerPhase = "idle" /\ ProducerArg = NULL
      /\ ConsumerArg = NULL
  BY DEF Init, ProducerPhase, ConsumerPhase, ProducerArg, ConsumerArg
<1>4. Phase = [t \in Callers |-> "idle"] /\ Arg = [t \in Callers |-> NULL]
  BY ONLY <1>3 DEF Phase, Arg
<1>5. SawEmpty = {}
  BY DEF Init, SawEmpty
<1>6. QED
  BY ONLY <1>2, <1>4, <1>5
     DEF Fifo!FifoInit, Queue, Phase, Arg, SawEmpty, ProducerPhase,
         ConsumerPhase, ProducerArg, ConsumerArg, Callers

LEMMA Unchanged ==
    ASSUME UNCHANGED <<Queue, Phase, Arg, SawEmpty>>
    PROVE  UNCHANGED Fifo!fifoVars
  BY DEF Fifo!fifoVars, Queue, Phase, Arg, SawEmpty, ProducerPhase,
         ConsumerPhase, ProducerArg, ConsumerArg, Callers

LEMMA StepIsFifoStep == FInv /\ [Next]_vars => [Fifo!FifoNext]_Fifo!fifoVars
<1> SUFFICES ASSUME FInv, [Next]_vars PROVE [Fifo!FifoNext]_Fifo!fifoVars
  OBVIOUS
<1>1. ASSUME NEW n \in Nodes, NEW v \in Data, EnqueueCall(n, v)
      PROVE  Fifo!FifoNext
  BY <1>1, EnqueueCallIs DEF Fifo!FifoNext
<1>2. CASE FlushLink
  BY <1>2, FlushLinkIs DEF Fifo!FifoNext
<1>3. CASE PrintData
  BY <1>3, PrintDataIs DEF Fifo!FifoNext
<1>4. CASE DequeueCall
  BY <1>4, DequeueCallIs DEF Fifo!FifoNext
<1>5. CASE LoadNextNull
  BY <1>5, LoadNextNullIs DEF Fifo!FifoNext
<1>6. CASE MoveHead
  BY <1>6, MoveHeadIs DEF Fifo!FifoNext
<1>7. CASE DequeueReturn
  BY <1>7, DequeueReturnIs DEF Fifo!FifoNext
<1>8. CASE FlushData
  BY <1>8, FlushDataStutters, Unchanged
<1>9. CASE FreeLast
  BY <1>9, FreeLastStutters, Unchanged
<1>10. CASE \/ InitNext \/ WriteBarrier \/ LinkNode \/ MoveTail \/ IncLen
            \/ StopProducer \/ FlushNext \/ FlushTail \/ QueryEmpty
            \/ LoadNextNode \/ DecLen \/ DestroyCall \/ UNCHANGED vars
  BY <1>10, Stutters, Unchanged
<1>11. QED
  BY <1>1, <1>2, <1>3, <1>4, <1>5, <1>6, <1>7, <1>8, <1>9, <1>10
     DEF Next, ProducerStep, FlushStep, ConsumerStep, Done

(* Whatever the interleaving of the two threads and the order in which     *)
(* their stores reach memory, spsc_enqueue and spsc_dequeue take effect    *)
(* one after the other, as operations of a FIFO queue.                     *)
THEOREM ImplementsFifo == ASSUME ConsumerStarts PROVE Spec => IsFifo
<1>1. Init => Fifo!FifoInit
  BY InitIsFifoInit
<1>2. FInv /\ [Next]_vars => [Fifo!FifoNext]_Fifo!fifoVars
  BY StepIsFifoStep
<1>3. QED
  BY <1>1, <1>2, FInvariance, PTL DEF Spec, IsFifo, Fifo!FifoSpec
=============================================================================

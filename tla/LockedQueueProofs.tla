------------------------- MODULE LockedQueueProofs -------------------------
(***************************************************************************)
(* The safety properties of LockedQueue, and that it implements FifoQueue, *)
(* for any set of values and any length of the queue.                      *)
(***************************************************************************)
EXTENDS LockedQueue, SequenceTheorems, TLAPS

\* In line are those that asked for the lock; the one that has it is first.
LockIsFirst ==
    /\ \A j, k \in 1..Len(line) : line[j] = line[k] => j = k
    /\ \A t \in Threads :
           stage[t] # "out" <=> \E k \in 1..Len(line) : line[k] = t
    /\ \A t \in Threads : stage[t] = "holding" => line[1] = t

\* Where a thread has asked for the lock, and where it has it.
LockAgrees ==
    /\ prodPc = "sleep" <=> stage[Producer] = "out"
    /\ prodPc \in {"push", "unlock"} => Holding(Producer)
    /\ consPc \in {"front", "pop", "unlock"} <=> stage[Consumer] # "out"
    /\ consPc \in {"pop", "unlock"} => Holding(Consumer)

\* A push that was let in has room.
PushFits == prodPc \in {"lock", "push"} => Len(items) < MaxLen

(* The answer FALSE of q.empty() stays true, or the push that made it      *)
(* FALSE is still going on; sawEmpty is as FifoQueue has it.               *)
PopAgrees ==
    /\ consPc \in {"nonempty", "front"} => items # <<>> \/ prodPc = "push"
    /\ consPc = "pop" => items # <<>> /\ x = Head(items)
    /\ consPc = "check" /\ items = <<>> => sawEmpty = {Consumer}
    /\ consPc \notin {"check", "nonempty", "front", "pop"} => sawEmpty = {}

IInv == TypeOK /\ LockIsFirst /\ LockAgrees /\ PushFits /\ PopAgrees

-----------------------------------------------------------------------------

\* What is used of sequences, the queue first and then the line.
LEMMA ItemsFacts ==
    ASSUME TypeOK
    PROVE  /\ Len(items) \in Nat
           /\ items = <<>> <=> Len(items) = 0
           /\ \A v \in Data : /\ Append(items, v) \in Seq(Data)
                              /\ Len(Append(items, v)) = Len(items) + 1
                              /\ Append(items, v) # <<>>
                              /\ items # <<>> => Head(Append(items, v)) = Head(items)
           /\ items # <<>> => /\ Head(items) \in Data
                              /\ Tail(items) \in Seq(Data)
                              /\ Len(Tail(items)) = Len(items) - 1
<1>1. items \in Seq(Data)
  BY DEF TypeOK
<1>2. ASSUME NEW v \in Data
      PROVE  /\ Append(items, v) \in Seq(Data)
             /\ Len(Append(items, v)) = Len(items) + 1
             /\ Append(items, v) # <<>>
             /\ items # <<>> => Head(Append(items, v)) = Head(items)
  BY <1>1, AppendProperties, LenProperties, EmptySeq
<1>3. QED
  BY <1>1, <1>2, LenProperties, EmptySeq, HeadTailProperties

LEMMA LineFacts ==
    ASSUME TypeOK
    PROVE  /\ Len(line) \in Nat
           /\ line = <<>> <=> Len(line) = 0
           /\ \A k \in 1..Len(line) : line[k] \in Threads
           /\ \A t \in Threads :
                  /\ Append(line, t) \in Seq(Threads)
                  /\ Len(Append(line, t)) = Len(line) + 1
                  /\ \A k \in 1..Len(line) : Append(line, t)[k] = line[k]
                  /\ Append(line, t)[Len(line) + 1] = t
           /\ Len(line) > 0 =>
                  /\ Head(line) = line[1]
                  /\ Tail(line) \in Seq(Threads)
                  /\ Len(Tail(line)) = Len(line) - 1
                  /\ \A k \in 1..(Len(line) - 1) : Tail(line)[k] = line[k + 1]
<1>1. line \in Seq(Threads)
  BY DEF TypeOK
<1>2. ASSUME NEW t \in Threads
      PROVE  /\ Append(line, t) \in Seq(Threads)
             /\ Len(Append(line, t)) = Len(line) + 1
             /\ \A k \in 1..Len(line) : Append(line, t)[k] = line[k]
             /\ Append(line, t)[Len(line) + 1] = t
  BY <1>1, AppendProperties
<1>3. /\ Len(line) \in Nat
      /\ line = <<>> <=> Len(line) = 0
      /\ \A k \in 1..Len(line) : line[k] \in Threads
  BY <1>1, LenProperties, EmptySeq, ElementOfSeq
<1>4. Len(line) > 0 =>
          /\ Head(line) = line[1]
          /\ Tail(line) \in Seq(Threads)
          /\ Len(Tail(line)) = Len(line) - 1
          /\ \A k \in 1..(Len(line) - 1) : Tail(line)[k] = line[k + 1]
  BY <1>1, <1>3, HeadTailProperties
<1>5. QED
  BY <1>2, <1>3, <1>4

\* Who has the lock can release it.
LEMMA ReleaseShortens ==
    ASSUME IInv, NEW t \in Threads, Lock!Release(t)
    PROVE  /\ Len(line) > 0
           /\ line' \in Seq(Threads)
           /\ LockIsFirst'
<1> USE LineFacts DEF IInv, Lock!Release
<1>1. Len(line) > 0 /\ line[1] = t
  BY DEF LockIsFirst
<1>2. \A k \in 1..Len(line') : line'[k] = line[k + 1]
  BY <1>1
<1>3. \A j, k \in 1..Len(line') : line'[j] = line'[k] => j = k
  BY <1>1, <1>2 DEF LockIsFirst
<1>4. ASSUME NEW u \in Threads
      PROVE  stage'[u] # "out" <=> \E k \in 1..Len(line') : line'[k] = u
  <2>1. CASE u = t
    BY <2>1, <1>1, <1>2 DEF LockIsFirst, TypeOK
  <2>2. CASE u # t
    <3>1. stage'[u] = stage[u]
      BY <2>2 DEF TypeOK
    <3>2. ASSUME NEW k \in 1..Len(line), line[k] = u
          PROVE  \E j \in 1..Len(line') : line'[j] = u
      BY <2>2, <3>2, <1>1, <1>2
    <3>3. QED
      BY <3>1, <3>2, <1>1, <1>2 DEF LockIsFirst
  <2>3. QED
    BY <2>1, <2>2
<1>5. \A u \in Threads : stage'[u] # "holding"
  BY <1>1 DEF LockIsFirst, TypeOK
<1>6. QED
  BY <1>1, <1>3, <1>4, <1>5 DEF LockIsFirst

\* Who asks for the lock is the last in line.
LEMMA RequestAppends ==
    ASSUME IInv, NEW t \in Threads, Lock!Request(t)
    PROVE  LockIsFirst'
<1> USE LineFacts DEF IInv, Lock!Request
<1>1. \A k \in 1..Len(line) : line[k] # t
  BY DEF LockIsFirst
<1>2. \A j, k \in 1..Len(line') : line'[j] = line'[k] => j = k
  BY <1>1 DEF LockIsFirst
<1>3. ASSUME NEW u \in Threads
      PROVE  stage'[u] # "out" <=> \E k \in 1..Len(line') : line'[k] = u
  <2>1. CASE u = t
    BY <2>1 DEF TypeOK
  <2>2. CASE u # t
    BY <2>2, <1>1 DEF LockIsFirst, TypeOK
  <2>3. QED
    BY <2>1, <2>2
<1>4. \A u \in Threads : stage'[u] = "holding" => line'[1] = u
  BY DEF LockIsFirst, TypeOK
<1>5. QED
  BY <1>2, <1>3, <1>4 DEF LockIsFirst

LEMMA InitIInv == Init => IInv
<1> SUFFICES ASSUME Init PROVE IInv
  OBVIOUS
<1> USE LockedQueueAssumption DEF Init, Lock!FifoLockInit
<1>1. items \in Seq(Data) /\ line \in Seq(Threads) /\ Len(items) = 0 /\ Len(line) = 0
  BY EmptySeq
<1>2. TypeOK
  BY <1>1 DEF TypeOK, Threads
<1>3. LockIsFirst /\ LockAgrees /\ PushFits /\ PopAgrees
  BY <1>1 DEF LockIsFirst, LockAgrees, PushFits, PopAgrees, Threads, Holding
<1>4. QED
  BY <1>2, <1>3 DEF IInv

LEMMA PushBeginKeeps ==
    ASSUME IInv, PushBegin
    PROVE  IInv'
<1> USE LockedQueueAssumption DEF IInv, PushBegin, lockVars, producerVars,
        consumerVars
<1>1. items' \in Seq(Data) /\ Len(items') <= MaxLen /\ PushFits'
  BY ItemsFacts DEF TypeOK, PushFits, PopAgrees
<1>2. line' \in Seq(Threads) /\ LockIsFirst'
  BY DEF TypeOK, LockIsFirst, lockVars
<1>3. TypeOK'
  BY <1>1, <1>2, ItemsFacts DEF TypeOK, Threads, PopAgrees, EmptyAnswers
<1>4. LockAgrees'
  BY DEF TypeOK, LockAgrees, Threads, Holding
<1>5. PopAgrees'
  BY ItemsFacts DEF TypeOK, LockIsFirst, LockAgrees, PopAgrees, Threads, Holding,
     EmptyAnswers
<1>6. QED
  BY <1>1, <1>2, <1>3, <1>4, <1>5

LEMMA PushEndKeeps ==
    ASSUME IInv, PushEnd
    PROVE  IInv'
<1> USE LockedQueueAssumption DEF IInv, PushEnd, lockVars, producerVars,
        consumerVars
<1>1. items' \in Seq(Data) /\ Len(items') <= MaxLen /\ PushFits'
  BY ItemsFacts DEF TypeOK, PushFits, PopAgrees
<1>2. line' \in Seq(Threads) /\ LockIsFirst'
  BY DEF TypeOK, LockIsFirst, lockVars
<1>3. TypeOK'
  BY <1>1, <1>2, ItemsFacts DEF TypeOK, Threads, PopAgrees, EmptyAnswers
<1>4. LockAgrees'
  BY DEF TypeOK, LockAgrees, Threads, Holding
<1>5. PopAgrees'
  BY ItemsFacts DEF TypeOK, LockIsFirst, LockAgrees, PopAgrees, Threads, Holding,
     EmptyAnswers
<1>6. QED
  BY <1>1, <1>2, <1>3, <1>4, <1>5

LEMMA ProducerUnlockKeeps ==
    ASSUME IInv, ProducerUnlock
    PROVE  IInv'
<1> USE LockedQueueAssumption DEF IInv, ProducerUnlock, lockVars, producerVars,
        consumerVars
<1>1. items' \in Seq(Data) /\ Len(items') <= MaxLen /\ PushFits'
  BY ItemsFacts DEF TypeOK, PushFits, PopAgrees
<1>2. line' \in Seq(Threads) /\ LockIsFirst'
  BY ReleaseShortens DEF Threads
<1>3. TypeOK'
  BY <1>1, <1>2, ItemsFacts DEF TypeOK, Threads, PopAgrees, EmptyAnswers, Lock!Release
<1>4. LockAgrees'
  BY DEF TypeOK, LockAgrees, Threads, Holding, Lock!Release
<1>5. PopAgrees'
  BY ItemsFacts DEF TypeOK, LockIsFirst, LockAgrees, PopAgrees, Threads, Holding,
     EmptyAnswers
<1>6. QED
  BY <1>1, <1>2, <1>3, <1>4, <1>5

LEMMA WakeKeeps ==
    ASSUME IInv, Wake
    PROVE  IInv'
<1> USE LockedQueueAssumption DEF IInv, Wake, lockVars, producerVars,
        consumerVars
<1>1. items' \in Seq(Data) /\ Len(items') <= MaxLen /\ PushFits'
  BY ItemsFacts DEF TypeOK, PushFits, PopAgrees
<1>2. line' \in Seq(Threads) /\ LockIsFirst'
  BY DEF TypeOK, LockIsFirst, lockVars
<1>3. TypeOK'
  BY <1>1, <1>2, ItemsFacts DEF TypeOK, Threads, PopAgrees, EmptyAnswers
<1>4. LockAgrees'
  BY DEF TypeOK, LockAgrees, Threads, Holding
<1>5. PopAgrees'
  BY ItemsFacts DEF TypeOK, LockIsFirst, LockAgrees, PopAgrees, Threads, Holding,
     EmptyAnswers
<1>6. QED
  BY <1>1, <1>2, <1>3, <1>4, <1>5

LEMMA CheckKeeps ==
    ASSUME IInv, Check
    PROVE  IInv'
<1> USE LockedQueueAssumption DEF IInv, Check, lockVars, producerVars,
        consumerVars
<1>1. items' \in Seq(Data) /\ Len(items') <= MaxLen /\ PushFits'
  BY ItemsFacts DEF TypeOK, PushFits, PopAgrees
<1>2. line' \in Seq(Threads) /\ LockIsFirst'
  BY DEF TypeOK, LockIsFirst, lockVars
<1>3. TypeOK'
  BY <1>1, <1>2, ItemsFacts DEF TypeOK, Threads, PopAgrees, EmptyAnswers
<1>4. LockAgrees'
  BY DEF TypeOK, LockAgrees, Threads, Holding
<1>5. PopAgrees'
  BY ItemsFacts DEF TypeOK, LockIsFirst, LockAgrees, PopAgrees, Threads, Holding,
     EmptyAnswers
<1>6. QED
  BY <1>1, <1>2, <1>3, <1>4, <1>5

LEMMA DequeueNullKeeps ==
    ASSUME IInv, DequeueNull
    PROVE  IInv'
<1> USE LockedQueueAssumption DEF IInv, DequeueNull, lockVars, producerVars,
        consumerVars
<1>1. items' \in Seq(Data) /\ Len(items') <= MaxLen /\ PushFits'
  BY ItemsFacts DEF TypeOK, PushFits, PopAgrees
<1>2. line' \in Seq(Threads) /\ LockIsFirst'
  BY DEF TypeOK, LockIsFirst, lockVars
<1>3. TypeOK'
  BY <1>1, <1>2, ItemsFacts DEF TypeOK, Threads, PopAgrees, EmptyAnswers
<1>4. LockAgrees'
  BY DEF TypeOK, LockAgrees, Threads, Holding
<1>5. PopAgrees'
  BY ItemsFacts DEF TypeOK, LockIsFirst, LockAgrees, PopAgrees, Threads, Holding,
     EmptyAnswers
<1>6. QED
  BY <1>1, <1>2, <1>3, <1>4, <1>5

LEMMA ConsumerLockKeeps ==
    ASSUME IInv, ConsumerLock
    PROVE  IInv'
<1> USE LockedQueueAssumption DEF IInv, ConsumerLock, lockVars, producerVars,
        consumerVars
<1>1. items' \in Seq(Data) /\ Len(items') <= MaxLen /\ PushFits'
  BY ItemsFacts DEF TypeOK, PushFits, PopAgrees
<1>2. line' \in Seq(Threads) /\ LockIsFirst'
  BY RequestAppends, LineFacts DEF Threads, Lock!Request
<1>3. TypeOK'
  BY <1>1, <1>2, ItemsFacts DEF TypeOK, Threads, PopAgrees, EmptyAnswers, Lock!Request
<1>4. LockAgrees'
  BY DEF TypeOK, LockAgrees, Threads, Holding, Lock!Request
<1>5. PopAgrees'
  BY ItemsFacts DEF TypeOK, LockIsFirst, LockAgrees, PopAgrees, Threads, Holding,
     EmptyAnswers
<1>6. QED
  BY <1>1, <1>2, <1>3, <1>4, <1>5

LEMMA FrontKeeps ==
    ASSUME IInv, Front
    PROVE  IInv'
<1> USE LockedQueueAssumption DEF IInv, Front, lockVars, producerVars,
        consumerVars
<1>1. items' \in Seq(Data) /\ Len(items') <= MaxLen /\ PushFits'
  BY ItemsFacts DEF TypeOK, PushFits, PopAgrees
<1>2. line' \in Seq(Threads) /\ LockIsFirst'
  BY DEF TypeOK, LockIsFirst, lockVars
<1>3. TypeOK'
  <2>1. items # <<>>
    BY DEF LockIsFirst, LockAgrees, PopAgrees, Threads, Holding
  <2>2. QED
    BY <1>1, <1>2, <2>1, ItemsFacts DEF TypeOK
<1>4. LockAgrees'
  BY DEF TypeOK, LockAgrees, Threads, Holding
<1>5. PopAgrees'
  BY ItemsFacts DEF TypeOK, LockIsFirst, LockAgrees, PopAgrees, Threads, Holding,
     EmptyAnswers
<1>6. QED
  BY <1>1, <1>2, <1>3, <1>4, <1>5

LEMMA PopKeeps ==
    ASSUME IInv, Pop
    PROVE  IInv'
<1> USE LockedQueueAssumption DEF IInv, Pop, lockVars, producerVars,
        consumerVars
<1>1. items' \in Seq(Data) /\ Len(items') <= MaxLen /\ PushFits'
  BY ItemsFacts DEF TypeOK, PushFits, PopAgrees
<1>2. line' \in Seq(Threads) /\ LockIsFirst'
  BY DEF TypeOK, LockIsFirst, lockVars
<1>3. TypeOK'
  BY <1>1, <1>2, ItemsFacts DEF TypeOK, Threads, PopAgrees, EmptyAnswers
<1>4. LockAgrees'
  BY DEF TypeOK, LockAgrees, Threads, Holding
<1>5. PopAgrees'
  BY ItemsFacts DEF TypeOK, LockIsFirst, LockAgrees, PopAgrees, Threads, Holding,
     EmptyAnswers
<1>6. QED
  BY <1>1, <1>2, <1>3, <1>4, <1>5

LEMMA ConsumerUnlockKeeps ==
    ASSUME IInv, ConsumerUnlock
    PROVE  IInv'
<1> USE LockedQueueAssumption DEF IInv, ConsumerUnlock, lockVars, producerVars,
        consumerVars
<1>1. items' \in Seq(Data) /\ Len(items') <= MaxLen /\ PushFits'
  BY ItemsFacts DEF TypeOK, PushFits, PopAgrees
<1>2. line' \in Seq(Threads) /\ LockIsFirst'
  BY ReleaseShortens DEF Threads
<1>3. TypeOK'
  BY <1>1, <1>2, ItemsFacts DEF TypeOK, Threads, PopAgrees, EmptyAnswers, Lock!Release
<1>4. LockAgrees'
  BY DEF TypeOK, LockAgrees, Threads, Holding, Lock!Release
<1>5. PopAgrees'
  BY ItemsFacts DEF TypeOK, LockIsFirst, LockAgrees, PopAgrees, Threads, Holding,
     EmptyAnswers
<1>6. QED
  BY <1>1, <1>2, <1>3, <1>4, <1>5

LEMMA ProducerLockKeeps ==
    ASSUME IInv, NEW v \in Data, ProducerLock(v)
    PROVE  IInv'
<1> USE LockedQueueAssumption DEF IInv, ProducerLock, lockVars, producerVars,
        consumerVars
<1>1. items' \in Seq(Data) /\ Len(items') <= MaxLen /\ PushFits'
  BY ItemsFacts DEF TypeOK, PushFits, PopAgrees
<1>2. line' \in Seq(Threads) /\ LockIsFirst'
  BY RequestAppends, LineFacts DEF Threads, Lock!Request
<1>3. TypeOK'
  BY <1>1, <1>2, ItemsFacts DEF TypeOK, Threads, PopAgrees, EmptyAnswers, Lock!Request
<1>4. LockAgrees'
  BY DEF TypeOK, LockAgrees, Threads, Holding, Lock!Request
<1>5. PopAgrees'
  BY ItemsFacts DEF TypeOK, LockIsFirst, LockAgrees, PopAgrees, Threads, Holding,
     EmptyAnswers
<1>6. QED
  BY <1>1, <1>2, <1>3, <1>4, <1>5

LEMMA AcquireKeeps ==
    ASSUME IInv, Acquire
    PROVE  IInv'
<1> USE LockedQueueAssumption DEF IInv, Acquire, lockVars, producerVars,
        consumerVars
<1>1. items' \in Seq(Data) /\ Len(items') <= MaxLen /\ PushFits'
  BY ItemsFacts DEF TypeOK, PushFits, PopAgrees
<1>2. line' \in Seq(Threads) /\ LockIsFirst'
  BY LineFacts DEF TypeOK, LockIsFirst, Lock!Grant
<1>3. TypeOK'
  BY <1>1, <1>2, ItemsFacts DEF TypeOK, Threads, PopAgrees, EmptyAnswers, Lock!Grant
<1>4. LockAgrees'
  BY DEF TypeOK, LockAgrees, Threads, Holding, Lock!Grant
<1>5. PopAgrees'
  BY ItemsFacts DEF TypeOK, LockIsFirst, LockAgrees, PopAgrees, Threads, Holding,
     EmptyAnswers
<1>6. QED
  BY <1>1, <1>2, <1>3, <1>4, <1>5

LEMMA NextKeeps == IInv /\ [Next]_vars => IInv'
<1> SUFFICES ASSUME IInv, [Next]_vars PROVE IInv'
  OBVIOUS
<1>1. CASE UNCHANGED vars
  BY <1>1 DEF IInv, TypeOK, LockIsFirst, LockAgrees, PushFits, PopAgrees, Holding, vars
<1>2. CASE Acquire \/ \E v \in Data : ProducerLock(v)
  BY <1>2, AcquireKeeps, ProducerLockKeeps
<1>3. CASE Produce
  BY <1>3, PushBeginKeeps, PushEndKeeps, ProducerUnlockKeeps DEF Produce
<1>4. CASE Consume
  BY <1>4, WakeKeeps, CheckKeeps, DequeueNullKeeps, ConsumerLockKeeps,
     FrontKeeps, PopKeeps, ConsumerUnlockKeeps DEF Consume
<1>5. QED
  BY <1>1, <1>2, <1>3, <1>4 DEF Next

(* The inductive invariant of the example, its type invariant included.    *)
THEOREM Invariance == Spec => []IInv
  BY InitIInv, NextKeeps, PTL DEF Spec

(* Every variable keeps its type, and what is popped was pushed, whatever  *)
(* the answers of the unlocked q.empty().                                  *)
THEOREM TypeCorrect == Spec => []TypeOK
<1>1. IInv => TypeOK
  BY DEF IInv
<1>2. QED
  BY <1>1, Invariance, PTL

(* front() and pop() are called on a non-empty queue that nobody is        *)
(* pushing to, although q.empty() was asked without the lock.              *)
THEOREM PopsAreSafe == Spec => []PopIsSafe
<1>1. IInv => PopIsSafe
  BY LockedQueueAssumption
     DEF IInv, TypeOK, LockIsFirst, LockAgrees, PopAgrees, PopIsSafe, Holding,
         Threads
<1>2. QED
  BY <1>1, Invariance, PTL

-----------------------------------------------------------------------------
(* The refinement of FifoQueue.                                            *)

(* The example is a linearizable FIFO queue: a push takes effect at its    *)
(* end, a pop at once, and "dequeue null" is true at some moment.          *)
THEOREM ImplementsFifo == Spec => IsFifo
<1> DEFINE ProducerPhase ==
               CASE prodPc = "sleep" -> "idle"
                 [] prodPc \in {"lock", "push"} -> "enqueuing"
                 [] OTHER -> "enqueued"
           ProducerArg == IF prodPc \in {"lock", "push"} THEN i ELSE NULL
           ConsumerPhase ==
               CASE consPc = "sleep" -> "idle"
                 [] consPc \in {"null", "unlock"} -> "dequeued"
                 [] OTHER -> "dequeuing"
           ConsumerArg == IF consPc = "unlock" THEN x ELSE NULL
           Phase == [t \in Threads |->
               IF t = Producer THEN ProducerPhase ELSE ConsumerPhase]
           Arg == [t \in Threads |->
               IF t = Producer THEN ProducerArg ELSE ConsumerArg]
<1>0. ASSUME UNCHANGED producerVars
      PROVE  /\ Phase' = [Phase EXCEPT ![Consumer] = ConsumerPhase']
             /\ Arg' = [Arg EXCEPT ![Consumer] = ConsumerArg']
  <2>1. UNCHANGED <<ProducerPhase, ProducerArg>>
    BY <1>0 DEF producerVars
  <2>2. /\ Phase' = [t \in Threads |->
                         IF t = Producer THEN ProducerPhase ELSE ConsumerPhase']
        /\ Arg' = [t \in Threads |->
                       IF t = Producer THEN ProducerArg ELSE ConsumerArg']
    BY <2>1
  <2> HIDE DEF ProducerPhase, ProducerArg, ConsumerPhase, ConsumerArg
  <2>3. \A t \in Threads : t = Producer \/ t = Consumer
    BY DEF Threads
  <2>4. \A t \in Threads : Phase'[t] = IF t = Consumer THEN ConsumerPhase' ELSE Phase[t]
    BY <2>2, <2>3, LockedQueueAssumption
  <2>5. \A t \in Threads : Arg'[t] = IF t = Consumer THEN ConsumerArg' ELSE Arg[t]
    BY <2>2, <2>3, LockedQueueAssumption
  <2>6. QED
    BY <2>2, <2>4, <2>5
<1>1. Init => Fifo!FifoInit
  BY LockedQueueAssumption DEF Init, Fifo!FifoInit, Threads
<1>2. IInv /\ [Next]_vars => [Fifo!FifoNext]_Fifo!fifoVars
  <2> SUFFICES ASSUME IInv, [Next]_vars
               PROVE  Fifo!FifoNext \/ UNCHANGED <<items, Phase, Arg, sawEmpty>>
    BY DEF Fifo!fifoVars
  <2> USE LockedQueueAssumption DEF Threads
  <2>1. CASE UNCHANGED vars
    BY <2>1 DEF vars
  <2>2. CASE Acquire \/ PushBegin \/ ConsumerLock \/ Front
    BY <2>2 DEF Acquire, PushBegin, ConsumerLock, Front, producerVars, consumerVars
  <2>3. ASSUME NEW v \in Data, ProducerLock(v)
        PROVE  Fifo!CallEnqueue(Producer, v)
    BY <2>3 DEF ProducerLock, Fifo!CallEnqueue, consumerVars
  <2>4. CASE PushEnd
    <3>1. Fifo!TakeEnqueue(Producer)
      BY <2>4 DEF PushEnd, Fifo!TakeEnqueue, consumerVars
    <3>2. QED
      BY <3>1 DEF Fifo!FifoNext
  <2>5. CASE ProducerUnlock
    <3>1. Fifo!Return(Producer)
      BY <2>5 DEF ProducerUnlock, Fifo!Return, consumerVars
    <3>2. QED
      BY <3>1 DEF Fifo!FifoNext
  <2>6. CASE Wake
    <3>1. sawEmpty = {}
      BY <2>6 DEF IInv, PopAgrees, Wake
    <3>2. sawEmpty' = IF items = <<>> THEN sawEmpty \cup {Consumer} ELSE sawEmpty
      BY <2>6, <3>1 DEF Wake
    <3>3. Phase[Consumer] = "idle" /\ UNCHANGED <<items, Arg>>
      BY <2>6 DEF Wake, producerVars
    <3>4. Phase' = [Phase EXCEPT ![Consumer] = "dequeuing"]
      BY <1>0, <2>6 DEF Wake
    <3>5. Fifo!CallDequeue(Consumer)
      BY <3>2, <3>3, <3>4 DEF Fifo!CallDequeue
    <3>6. QED
      BY <3>5 DEF Fifo!FifoNext
  <2>7. CASE Check
    <3>1. CASE consPc' = "null"
      <4>1. items = <<>>
        BY <2>7, <3>1 DEF Check, EmptyAnswers
      <4>2. Consumer \in sawEmpty /\ sawEmpty' = sawEmpty \ {Consumer}
        BY <2>7, <3>1, <4>1 DEF IInv, PopAgrees, Check
      <4>3. Phase[Consumer] = "dequeuing" /\ UNCHANGED <<items, Arg>>
        BY <2>7, <3>1 DEF Check, producerVars
      <4>4. Phase' = [Phase EXCEPT ![Consumer] = "dequeued"]
        BY <1>0, <2>7, <3>1 DEF Check
      <4>5. Fifo!TakeNothing(Consumer)
        BY <4>2, <4>3, <4>4 DEF Fifo!TakeNothing
      <4>6. QED
        BY <4>5 DEF Fifo!FifoNext
    <3>2. CASE consPc' # "null"
      BY <2>7, <3>2 DEF Check, producerVars
    <3>3. QED
      BY <3>1, <3>2
  <2>8. CASE DequeueNull \/ ConsumerUnlock
    <3>1. Phase[Consumer] = "dequeued" /\ UNCHANGED <<items, sawEmpty>>
      BY <2>8 DEF DequeueNull, ConsumerUnlock
    <3>2. Phase' = [Phase EXCEPT ![Consumer] = "idle"]
      BY <1>0, <2>8 DEF DequeueNull, ConsumerUnlock
    <3>3. Arg' = [Arg EXCEPT ![Consumer] = NULL]
      BY <1>0, <2>8 DEF DequeueNull, ConsumerUnlock
    <3>4. Fifo!Return(Consumer)
      BY <3>1, <3>2, <3>3 DEF Fifo!Return
    <3>5. QED
      BY <3>4 DEF Fifo!FifoNext
  <2>9. CASE Pop
    <3>1. {u \in Threads \ {Consumer} : Phase[u] = "dequeuing"} = {}
      BY DEF IInv, TypeOK
    <3>2. sawEmpty \ {Consumer} = {}
      BY DEF IInv, TypeOK
    <3>3. items # <<>> /\ items' = Tail(items) /\ sawEmpty' = {}
      BY <2>9 DEF IInv, PopAgrees, Pop
    <3>4. Phase[Consumer] = "dequeuing"
      BY <2>9 DEF Pop
    <3>5. Phase' = [Phase EXCEPT ![Consumer] = "dequeued"]
      BY <1>0, <2>9 DEF Pop
    <3>6. Arg' = [Arg EXCEPT ![Consumer] = Head(items)]
      BY <1>0, <2>9 DEF IInv, PopAgrees, Pop
    <3>7. Fifo!TakeDequeue(Consumer)
      BY <3>1, <3>2, <3>3, <3>4, <3>5, <3>6 DEF Fifo!TakeDequeue
    <3>8. QED
      BY <3>7 DEF Fifo!FifoNext
  <2>10. QED
    BY <2>1, <2>2, <2>3, <2>4, <2>5, <2>6, <2>7, <2>8, <2>9
       DEF Next, Produce, Consume, Fifo!FifoNext
<1>3. QED
  BY <1>1, <1>2, Invariance, PTL DEF Spec, IsFifo, Fifo!FifoSpec
=============================================================================

-------------------------- MODULE X86AtomicProofs --------------------------
(***************************************************************************)
(* X86Atomic implements AtomicObject, and loses no update, for any number  *)
(* of threads and words of any width.                                      *)
(***************************************************************************)
EXTENDS X86Atomic, TLAPS

-----------------------------------------------------------------------------
(* The arithmetic of words.                                                *)

LEMMA ModulusType == Half \in Nat /\ Half > 0 /\ Modulus = 2 * Half /\ Modulus \in Nat /\ Modulus > 0
  BY X86Assumption DEF Modulus

\* The remainder of a number that is off by one modulus at most.
LEMMA ModNear ==
    ASSUME NEW m \in Nat, m > 0, NEW x \in Int
    PROVE  /\ x \in 0..(m - 1) => x % m = x
           /\ x \in m..(2 * m - 1) => x % m = x - m
           /\ x \in (-m)..(-1) => x % m = x + m
           /\ x % m \in 0..(m - 1)
<1>1. x \in 0..(m - 1) => x % m = x
  OBVIOUS
<1>2. x \in m..(2 * m - 1) => x % m = x - m
  OBVIOUS
<1>3. x \in (-m)..(-1) => x % m = x + m
  OBVIOUS
<1>4. x % m \in 0..(m - 1)
  OBVIOUS
<1>5. QED
  BY <1>1, <1>2, <1>3, <1>4

\* What the program sees of two words of bits.
Seen(w) == <<Signed(w[1]), Signed(w[2])>>

LEMMA SignedOfBits ==
    ASSUME NEW a \in (-Half)..(Half - 1)
    PROVE  Bits(a) \in 0..(Modulus - 1) /\ Signed(Bits(a)) = a
<1>1. Bits(a) = IF a >= 0 THEN a ELSE a + Modulus
  BY ModulusType, ModNear DEF Bits
<1>2. QED
  BY <1>1, ModulusType DEF Signed

LEMMA BitsOfSigned ==
    ASSUME NEW p \in 0..(Modulus - 1)
    PROVE  /\ Signed(p) \in (-Half)..(Half - 1)
           /\ Signed(p) = 0 <=> p = 0
           /\ Signed(p) < 0 <=> p >= Half
           /\ \A q \in 0..(Modulus - 1) : Signed(p) = Signed(q) => p = q
  BY ModulusType DEF Signed

\* A word of bits is the number that is congruent and in the range.
LEMMA SignedIsWrap ==
    ASSUME NEW x \in Int, NEW y \in Int, x \in (-Modulus)..(2 * Modulus - 1),
           \/ y = x \/ y = x - Modulus \/ y = x - 2 * Modulus \/ y = x + Modulus,
           y \in (-Modulus)..(Modulus - 1)
    PROVE  Signed(x % Modulus) = Object!Wrap(y)
<1>1. x % Modulus = IF x < 0 THEN x + Modulus
                    ELSE IF x < Modulus THEN x ELSE x - Modulus
  BY ModulusType, ModNear
<1>2. (y + Half) % Modulus = IF y + Half < 0 THEN y + Half + Modulus
                             ELSE IF y + Half < Modulus THEN y + Half
                             ELSE y + Half - Modulus
  BY ModulusType, ModNear
<1>3. Object!Wrap(y) = ((y + Half) % Modulus) - Half
  BY ModulusType DEF Object!Wrap
<1>4. QED
  BY <1>1, <1>2, <1>3, ModulusType DEF Signed

LEMMA SumWraps ==
    ASSUME NEW p \in 0..(Modulus - 1), NEW a \in (-Half)..(Half - 1)
    PROVE  /\ Signed((p + Bits(a)) % Modulus) = Object!Wrap(Signed(p) + a)
           /\ Signed((p - Bits(a)) % Modulus) = Object!Wrap(Signed(p) - a)
           /\ Signed((p + 1) % Modulus) = Object!Wrap(Signed(p) + 1)
           /\ Signed((p - 1) % Modulus) = Object!Wrap(Signed(p) - 1)
           /\ (p + Bits(a)) % Modulus \in 0..(Modulus - 1)
           /\ (p - Bits(a)) % Modulus \in 0..(Modulus - 1)
           /\ (p + 1) % Modulus \in 0..(Modulus - 1)
           /\ (p - 1) % Modulus \in 0..(Modulus - 1)
<1>1. Bits(a) = IF a >= 0 THEN a ELSE a + Modulus
  BY ModulusType, ModNear DEF Bits
<1>2. Signed(p) = IF p < Half THEN p ELSE p - Modulus
  BY DEF Signed
<1>3. Signed((p + Bits(a)) % Modulus) = Object!Wrap(Signed(p) + a)
  BY <1>1, <1>2, ModulusType, SignedIsWrap
<1>4. Signed((p - Bits(a)) % Modulus) = Object!Wrap(Signed(p) - a)
  BY <1>1, <1>2, ModulusType, SignedIsWrap
<1>5. Signed((p + 1) % Modulus) = Object!Wrap(Signed(p) + 1)
  BY <1>2, ModulusType, SignedIsWrap
<1>6. Signed((p - 1) % Modulus) = Object!Wrap(Signed(p) - 1)
  BY <1>2, ModulusType, SignedIsWrap
<1>7. /\ (p + Bits(a)) % Modulus \in 0..(Modulus - 1)
      /\ (p - Bits(a)) % Modulus \in 0..(Modulus - 1)
      /\ (p + 1) % Modulus \in 0..(Modulus - 1)
      /\ (p - 1) % Modulus \in 0..(Modulus - 1)
  BY <1>1, ModulusType, ModNear
<1>8. QED
  BY <1>3, <1>4, <1>5, <1>6, <1>7

-----------------------------------------------------------------------------
(* The operations, one by one.                                             *)

Range == (-Half)..(Half - 1)

LEMMA CallFacts ==
    ASSUME NEW c \in Object!Calls
    PROVE  /\ c.op \in {"read", "inc", "dec", "inc_and_test", "dec_and_test", "set",
                        "add", "sub", "sub_and_test", "add_negative",
                        "fetch_and_store", "compare_and_store", "double_cmp_and_swap"}
           /\ c.op \in {"set", "add", "sub", "sub_and_test", "add_negative",
                        "fetch_and_store", "compare_and_store"} => c.i \in Range
           /\ c.op = "compare_and_store" => c.cmp \in Range
           /\ c.op = "double_cmp_and_swap" =>
                  c.both \in Range \X Range /\ c.swap \in Range \X Range
<1>1. Args \subseteq Range
  BY X86Assumption DEF Range
<1>2. CASE c \in [op : {"read", "inc", "dec", "inc_and_test", "dec_and_test"}]
  BY <1>2
<1>3. CASE c \in [op : {"set", "add", "sub", "sub_and_test", "add_negative",
                        "fetch_and_store"}, i : Args]
  BY <1>1, <1>3
<1>4. CASE c \in [op : {"compare_and_store"}, cmp : Args, i : Args]
  BY <1>1, <1>4
<1>5. CASE c \in [op : {"double_cmp_and_swap"}, both : Args \X Args, swap : Args \X Args]
  BY <1>1, <1>5
<1>6. QED
  BY <1>2, <1>3, <1>4, <1>5 DEF Object!Calls

\* The store of c over w, and the answer when the load has read r.
IsRight(c, w, r) ==
    /\ Stored(c, w) \in Words
    /\ Seen(Stored(c, w)) = Object!After(c, Seen(w))
    /\ Returned(c, r, Zero(c, w), Stored(c, w)[1] >= Half)
           = Object!Answer(c, Seen(w))

LEMMA WordsFacts ==
    ASSUME NEW w \in Words
    PROVE  /\ w = <<w[1], w[2]>>
           /\ w[1] \in 0..(Modulus - 1) /\ w[2] \in 0..(Modulus - 1)
  BY DEF Words

LEMMA SetIsRight ==
    ASSUME NEW c \in Object!Calls, NEW w \in Words, NEW r, c.op = "set"
    PROVE  IsRight(c, w, r)
<1>1. Bits(c.i) \in 0..(Modulus - 1) /\ Signed(Bits(c.i)) = c.i
  BY CallFacts, SignedOfBits DEF Range
<1>2. Stored(c, w) = <<Bits(c.i), w[2]>>
  BY DEF Stored, Exchange
<1>3. Object!After(c, Seen(w)) = <<c.i, Signed(w[2])>>
  BY DEF Object!After, Seen
<1>4. Object!Answer(c, Seen(w)) = <<>>
  BY DEF Object!Answer
<1>5. Returned(c, r, Zero(c, w), Stored(c, w)[1] >= Half) = <<>>
  BY DEF Returned
<1>6. QED
  BY <1>1, <1>2, <1>3, <1>4, <1>5, WordsFacts DEF IsRight, Seen, Words

LEMMA SwapIsRight ==
    ASSUME NEW c \in Object!Calls, NEW w \in Words, c.op = "fetch_and_store"
    PROVE  IsRight(c, w, w)
<1>1. Bits(c.i) \in 0..(Modulus - 1) /\ Signed(Bits(c.i)) = c.i
  BY CallFacts, SignedOfBits DEF Range
<1>2. Stored(c, w) = <<Bits(c.i), w[2]>>
  BY DEF Stored, Exchange
<1>3. Object!After(c, Seen(w)) = <<c.i, Signed(w[2])>>
  BY DEF Object!After, Seen
<1>4. Object!Answer(c, Seen(w)) = <<Signed(w[1])>>
  BY DEF Object!Answer, Seen
<1>5. Returned(c, w, Zero(c, w), Stored(c, w)[1] >= Half) = <<Signed(w[1])>>
  BY DEF Returned
<1>6. QED
  BY <1>1, <1>2, <1>3, <1>4, <1>5, WordsFacts DEF IsRight, Seen, Words

\* The operations whose result is a sum: word, zero flag and sign flag.
LEMMA SumIsRight ==
    ASSUME NEW c \in Object!Calls, NEW w \in Words,
           c.op \in {"add", "add_negative", "sub", "sub_and_test", "inc",
                     "inc_and_test", "dec", "dec_and_test"}
    PROVE  IsRight(c, w, w)
<1>1. /\ Stored(c, w)[1] \in 0..(Modulus - 1)
      /\ Signed(Stored(c, w)[1]) = Object!Sum(c, Signed(w[1]))
      /\ Stored(c, w) = <<Stored(c, w)[1], w[2]>>
  <2>1. CASE c.op \in {"add", "add_negative"}
    <3>1. c.i \in Range
      BY <2>1, CallFacts
    <3>2. Stored(c, w) = <<(w[1] + Bits(c.i)) % Modulus, w[2]>>
      BY <2>1 DEF Stored, Add
    <3>3. Object!Sum(c, Signed(w[1])) = Object!Wrap(Signed(w[1]) + c.i)
      BY <2>1 DEF Object!Sum
    <3>4. QED
      BY <3>1, <3>2, <3>3, SumWraps, WordsFacts DEF Range
  <2>2. CASE c.op \in {"sub", "sub_and_test"}
    <3>1. c.i \in Range
      BY <2>2, CallFacts
    <3>2. Stored(c, w) = <<(w[1] - Bits(c.i)) % Modulus, w[2]>>
      BY <2>2 DEF Stored, Sub
    <3>3. Object!Sum(c, Signed(w[1])) = Object!Wrap(Signed(w[1]) - c.i)
      BY <2>2 DEF Object!Sum
    <3>4. QED
      BY <3>1, <3>2, <3>3, SumWraps, WordsFacts DEF Range
  <2>3. CASE c.op \in {"inc", "inc_and_test"}
    <3>1. 0 - Half \in (-Half)..(Half - 1)
      BY ModulusType
    <3>2. Stored(c, w) = <<(w[1] + 1) % Modulus, w[2]>>
      BY <2>3 DEF Stored, Inc
    <3>3. Object!Sum(c, Signed(w[1])) = Object!Wrap(Signed(w[1]) + 1)
      BY <2>3 DEF Object!Sum
    <3>4. QED
      BY <3>1, <3>2, <3>3, SumWraps, WordsFacts
  <2>4. CASE c.op \in {"dec", "dec_and_test"}
    <3>1. 0 - Half \in (-Half)..(Half - 1)
      BY ModulusType
    <3>2. Stored(c, w) = <<(w[1] - 1) % Modulus, w[2]>>
      BY <2>4 DEF Stored, Dec
    <3>3. Object!Sum(c, Signed(w[1])) = Object!Wrap(Signed(w[1]) - 1)
      BY <2>4 DEF Object!Sum
    <3>4. QED
      BY <3>1, <3>2, <3>3, SumWraps, WordsFacts
  <2>5. QED
    BY <2>1, <2>2, <2>3, <2>4
<1>2. Object!After(c, Seen(w)) = <<Object!Sum(c, Signed(w[1])), Signed(w[2])>>
  BY DEF Object!After, Seen
<1>3. Zero(c, w) = (Stored(c, w)[1] = 0)
  BY DEF Zero
<1>4. /\ Zero(c, w) <=> Object!Sum(c, Signed(w[1])) = 0
      /\ Stored(c, w)[1] >= Half <=> Object!Sum(c, Signed(w[1])) < 0
  BY <1>1, <1>3, BitsOfSigned
<1>5. Returned(c, w, Zero(c, w), Stored(c, w)[1] >= Half) = Object!Answer(c, Seen(w))
  <2>1. CASE c.op \in {"sub_and_test", "inc_and_test", "dec_and_test"}
    BY <2>1, <1>4 DEF Returned, Object!Answer, Flag, Object!Truth, Seen
  <2>2. CASE c.op = "add_negative"
    BY <2>2, <1>4 DEF Returned, Object!Answer, Flag, Object!Truth, Seen
  <2>3. CASE c.op \in {"add", "sub", "inc", "dec"}
    BY <2>3 DEF Returned, Object!Answer
  <2>4. QED
    BY <2>1, <2>2, <2>3
<1>6. Stored(c, w) \in Words
  BY <1>1, WordsFacts DEF Words
<1>7. Seen(Stored(c, w)) = <<Object!Sum(c, Signed(w[1])), Signed(w[2])>>
  BY <1>1 DEF Seen
<1>8. QED
  BY <1>2, <1>5, <1>6, <1>7 DEF IsRight

LEMMA CompareIsRight ==
    ASSUME NEW c \in Object!Calls, NEW w \in Words, c.op = "compare_and_store"
    PROVE  IsRight(c, w, w)
<1>1. /\ Bits(c.i) \in 0..(Modulus - 1) /\ Signed(Bits(c.i)) = c.i
      /\ Bits(c.cmp) \in 0..(Modulus - 1) /\ Signed(Bits(c.cmp)) = c.cmp
  BY CallFacts, SignedOfBits DEF Range
<1>2. w[1] = Bits(c.cmp) <=> Signed(w[1]) = c.cmp
  BY <1>1, WordsFacts, BitsOfSigned
<1>3. Stored(c, w) = IF w[1] = Bits(c.cmp) THEN <<Bits(c.i), w[2]>> ELSE w
  BY DEF Stored, CmpXchg
<1>4. Object!After(c, Seen(w)) =
          IF Signed(w[1]) = c.cmp THEN <<c.i, Signed(w[2])>> ELSE Seen(w)
  BY DEF Object!After, Seen
<1>5. Object!Answer(c, Seen(w)) = <<Object!Truth(Signed(w[1]) = c.cmp)>>
  BY DEF Object!Answer, Seen
<1>6. Returned(c, w, Zero(c, w), Stored(c, w)[1] >= Half)
          = <<Flag(w[1] = Bits(c.cmp))>>
  BY DEF Returned, Zero
<1>7. Flag(w[1] = Bits(c.cmp)) = Object!Truth(Signed(w[1]) = c.cmp)
  BY <1>2 DEF Flag, Object!Truth
<1>8. Stored(c, w) \in Words /\ Seen(Stored(c, w)) = Object!After(c, Seen(w))
  BY <1>1, <1>2, <1>3, <1>4, WordsFacts DEF Words, Seen
<1>9. QED
  BY <1>5, <1>6, <1>7, <1>8 DEF IsRight

LEMMA CompareDoubleIsRight ==
    ASSUME NEW c \in Object!Calls, NEW w \in Words, c.op = "double_cmp_and_swap"
    PROVE  IsRight(c, w, w)
<1>1. /\ c.both = <<c.both[1], c.both[2]>> /\ c.swap = <<c.swap[1], c.swap[2]>>
      /\ c.both[1] \in Range /\ c.both[2] \in Range
      /\ c.swap[1] \in Range /\ c.swap[2] \in Range
  BY CallFacts
<1>2. /\ Bits(c.both[1]) \in 0..(Modulus - 1) /\ Signed(Bits(c.both[1])) = c.both[1]
      /\ Bits(c.both[2]) \in 0..(Modulus - 1) /\ Signed(Bits(c.both[2])) = c.both[2]
      /\ Bits(c.swap[1]) \in 0..(Modulus - 1) /\ Signed(Bits(c.swap[1])) = c.swap[1]
      /\ Bits(c.swap[2]) \in 0..(Modulus - 1) /\ Signed(Bits(c.swap[2])) = c.swap[2]
  BY <1>1, SignedOfBits DEF Range
<1> DEFINE same == w = <<Bits(c.both[1]), Bits(c.both[2])>>
<1>3. same <=> Seen(w) = c.both
  <2>1. same <=> w[1] = Bits(c.both[1]) /\ w[2] = Bits(c.both[2])
    BY WordsFacts
  <2>2. w[1] = Bits(c.both[1]) <=> Signed(w[1]) = c.both[1]
    BY <1>2, WordsFacts, BitsOfSigned
  <2>3. w[2] = Bits(c.both[2]) <=> Signed(w[2]) = c.both[2]
    BY <1>2, WordsFacts, BitsOfSigned
  <2>4. Seen(w) = c.both <=> Signed(w[1]) = c.both[1] /\ Signed(w[2]) = c.both[2]
    BY <1>1 DEF Seen
  <2>5. QED
    BY <2>1, <2>2, <2>3, <2>4
<1>4. Stored(c, w) = IF same THEN <<Bits(c.swap[1]), Bits(c.swap[2])>> ELSE w
  BY DEF Stored, CmpXchgDouble
<1>5. Object!After(c, Seen(w)) = IF Seen(w) = c.both THEN c.swap ELSE Seen(w)
  BY DEF Object!After
<1>6. Object!Answer(c, Seen(w)) =
          <<Object!Truth(Seen(w) = c.both), Signed(w[1]), Signed(w[2])>>
  BY DEF Object!Answer, Seen
<1>7. Returned(c, w, Zero(c, w), Stored(c, w)[1] >= Half)
          = <<Flag(same), Signed(w[1]), Signed(w[2])>>
  BY DEF Returned, Zero
<1>8. Flag(same) = Object!Truth(Seen(w) = c.both)
  BY <1>3 DEF Flag, Object!Truth
<1>9. Stored(c, w) \in Words /\ Seen(Stored(c, w)) = Object!After(c, Seen(w))
  <2>1. CASE same
    BY <2>1, <1>1, <1>2, <1>3, <1>4, <1>5 DEF Words, Seen
  <2>2. CASE ~same
    BY <2>2, <1>3, <1>4, <1>5
  <2>3. QED
    BY <2>1, <2>2
<1>10. QED
  BY <1>6, <1>7, <1>8, <1>9 DEF IsRight

\* Whatever the operation, its store does what the object promises.
LEMMA StoreIsRight ==
    ASSUME NEW c \in Object!Calls, NEW w \in Words, NEW r, Stores(c),
           Loads(c) => r = w
    PROVE  IsRight(c, w, r)
  BY CallFacts, SetIsRight, SwapIsRight, SumIsRight, CompareIsRight,
     CompareDoubleIsRight DEF Stores, Loads

-----------------------------------------------------------------------------
(* The invariant: besides the types, who is where in which instruction.    *)

\* A thread has a call while it is in one, with the instruction of the call.
CallsInside ==
    \A t \in Threads :
        /\ pc[t] # "idle" => call[t] \in Object!Calls
        /\ pc[t] = "load" => Loads(call[t])
        /\ pc[t] = "store" => Stores(call[t])

\* The memory is held from the load to the store of a read-modify-write.
HeldByLocker ==
    \A t \in Threads : locked = t => pc[t] = "store" /\ Loads(call[t])

IInv == TypeOK /\ CallsInside /\ HeldByLocker /\ NoLostUpdate

LEMMA NoCallType == Object!NoCall \in Object!Calls \cup {Object!NoCall}
  OBVIOUS

LEMMA InitInvariant == Init => IInv
<1> SUFFICES ASSUME Init PROVE IInv
  OBVIOUS
<1>1. <<0, 0>> \in Words
  BY ModulusType DEF Words
<1>2. TypeOK
  BY <1>1 DEF Init, TypeOK
<1>3. CallsInside /\ HeldByLocker /\ NoLostUpdate
  BY X86Assumption DEF Init, CallsInside, HeldByLocker, NoLostUpdate
<1>4. QED
  BY <1>2, <1>3 DEF IInv

LEMMA CallKeeps ==
    ASSUME IInv, NEW t \in Threads, NEW c \in Object!Calls, Call(t, c)
    PROVE  IInv'
<1> USE DEF Call
<1>1. TypeOK'
  <2>1. pc' \in [Threads -> {"idle", "load", "store", "return"}]
    BY DEF IInv, TypeOK
  <2>2. call' \in [Threads -> Object!Calls \cup {Object!NoCall}]
    BY DEF IInv, TypeOK
  <2>3. QED
    BY <2>1, <2>2 DEF IInv, TypeOK
<1>2. \A u \in Threads : u # t => pc'[u] = pc[u] /\ call'[u] = call[u]
  BY DEF IInv, TypeOK
<1>3. pc'[t] = (IF Loads(c) THEN "load" ELSE "store") /\ call'[t] = c
  BY DEF IInv, TypeOK
<1>4. locked # t
  BY DEF IInv, HeldByLocker
<1>5. CallsInside'
  BY <1>2, <1>3 DEF IInv, CallsInside, Loads, Stores
<1>6. HeldByLocker'
  BY <1>2, <1>4 DEF IInv, HeldByLocker
<1>7. NoLostUpdate'
  BY <1>2, <1>3 DEF IInv, NoLostUpdate
<1>8. QED
  BY <1>1, <1>5, <1>6, <1>7 DEF IInv

\* Every read-modify-write locks, by its prefix or as an xchg.
LEMMA LocksIfStores ==
    ASSUME NEW c \in Object!Calls, Loads(c)
    PROVE  Locks(c) <=> Stores(c)
  BY CallFacts DEF Loads, Stores, Locks, LockPrefixed

LEMMA LoadKeeps ==
    ASSUME IInv, NEW t \in Threads, Load(t)
    PROVE  IInv'
<1> USE DEF Load
<1>1. TypeOK'
  <2>1. pc' \in [Threads -> {"idle", "load", "store", "return"}]
    BY DEF IInv, TypeOK
  <2>2. reg' \in [Threads -> Words]
    BY DEF IInv, TypeOK
  <2>3. locked' \in Threads \cup {NoOwner}
    OBVIOUS
  <2>4. QED
    BY <2>1, <2>2, <2>3 DEF IInv, TypeOK
<1>2. \A u \in Threads : u # t => pc'[u] = pc[u] /\ reg'[u] = reg[u]
  BY DEF IInv, TypeOK
<1>3. /\ pc'[t] = (IF Stores(call[t]) THEN "store" ELSE "return")
      /\ reg'[t] = mem
  BY DEF IInv, TypeOK
<1>4. Loads(call[t]) /\ call[t] \in Object!Calls
  BY DEF IInv, CallsInside
<1>4a. Locks(call[t]) <=> Stores(call[t])
  BY <1>4, LocksIfStores
<1>5. CallsInside'
  BY <1>2, <1>3, <1>4 DEF IInv, CallsInside
<1>6. HeldByLocker'
  BY <1>2, <1>3, <1>4, <1>4a, X86Assumption DEF IInv, HeldByLocker
<1>7. \A u \in Threads : ~(pc[u] = "store" /\ Loads(call[u]))
  BY X86Assumption DEF IInv, NoLostUpdate
<1>8. NoLostUpdate'
  BY <1>2, <1>3, <1>7, <1>4a DEF NoLostUpdate
<1>9. QED
  BY <1>1, <1>5, <1>6, <1>8 DEF IInv

\* The store of t, over what it loaded or, for a plain mov, over the memory.
LEMMA StoreIsAtomic ==
    ASSUME IInv, NEW t \in Threads, Store(t)
    PROVE  /\ call[t] \in Object!Calls
           /\ mem' = Stored(call[t], mem)
           /\ zf'[t] = Zero(call[t], mem)
           /\ sf'[t] = (Stored(call[t], mem)[1] >= Half)
           /\ IsRight(call[t], mem, reg[t])
<1>1. call[t] \in Object!Calls /\ Stores(call[t])
  BY DEF IInv, CallsInside, Store
<1>2. Loads(call[t]) => reg[t] = mem
  BY DEF IInv, NoLostUpdate, Store
<1>3. mem \in Words
  BY DEF IInv, TypeOK
<1>4. IsRight(call[t], mem, reg[t])
  BY <1>1, <1>2, <1>3, StoreIsRight
<1>5. (IF Loads(call[t]) THEN reg[t] ELSE mem) = mem
  BY <1>2
<1>6. /\ mem' = Stored(call[t], mem)
      /\ zf' = [zf EXCEPT ![t] = Zero(call[t], mem)]
      /\ sf' = [sf EXCEPT ![t] = Stored(call[t], mem)[1] >= Half]
  BY <1>5 DEF Store
<1>7. /\ zf'[t] = Zero(call[t], mem)
      /\ sf'[t] = (Stored(call[t], mem)[1] >= Half)
  BY <1>6 DEF IInv, TypeOK
<1>8. QED
  BY <1>1, <1>4, <1>6, <1>7

LEMMA StoreKeeps ==
    ASSUME IInv, NEW t \in Threads, Store(t)
    PROVE  IInv'
<1>1. TypeOK'
  <2>1. mem' \in Words
    BY StoreIsAtomic DEF IsRight
  <2>2. pc' \in [Threads -> {"idle", "load", "store", "return"}]
    BY DEF IInv, TypeOK, Store
  <2>3. zf' \in [Threads -> BOOLEAN]
    <3>1. \A c, w : Zero(c, w) \in BOOLEAN
      BY DEF Zero
    <3>2. QED
      BY <3>1 DEF IInv, TypeOK, Store
  <2>4. sf' \in [Threads -> BOOLEAN]
    <3>1. \A c, w : (Stored(c, w)[1] >= Half) \in BOOLEAN
      OBVIOUS
    <3>2. QED
      BY <3>1 DEF IInv, TypeOK, Store
  <2>5. QED
    BY <2>1, <2>2, <2>3, <2>4 DEF IInv, TypeOK, Store
<1>2. \A u \in Threads : u # t => pc'[u] = pc[u]
  BY DEF IInv, TypeOK, Store
<1>3. pc'[t] = "return"
  BY DEF IInv, TypeOK, Store
<1>4. \A u \in Threads : u # t => locked # u
  BY X86Assumption DEF Store
<1>5. CallsInside'
  BY <1>2, <1>3 DEF IInv, CallsInside, Store
<1>6. HeldByLocker'
  BY X86Assumption DEF HeldByLocker, Store
<1>7. NoLostUpdate'
  BY <1>2, <1>3, <1>4 DEF IInv, NoLostUpdate, Store
<1>8. QED
  BY <1>1, <1>5, <1>6, <1>7 DEF IInv

LEMMA ReturnKeeps ==
    ASSUME IInv, NEW t \in Threads, Return(t)
    PROVE  IInv'
<1> USE DEF Return
<1>1. TypeOK'
  <2>1. pc' \in [Threads -> {"idle", "load", "store", "return"}]
    BY DEF IInv, TypeOK
  <2>2. call' \in [Threads -> Object!Calls \cup {Object!NoCall}]
    BY NoCallType DEF IInv, TypeOK
  <2>3. <<0, 0>> \in Words
    BY ModulusType DEF Words
  <2>4. reg' \in [Threads -> Words]
    BY <2>3 DEF IInv, TypeOK
  <2>5. zf' \in [Threads -> BOOLEAN] /\ sf' \in [Threads -> BOOLEAN]
    BY DEF IInv, TypeOK
  <2>6. QED
    BY <2>1, <2>2, <2>4, <2>5 DEF IInv, TypeOK
<1>2. \A u \in Threads :
          u # t => pc'[u] = pc[u] /\ call'[u] = call[u] /\ reg'[u] = reg[u]
  BY DEF IInv, TypeOK
<1>3. pc'[t] = "idle"
  BY DEF IInv, TypeOK
<1>4. locked # t
  BY DEF IInv, HeldByLocker
<1>5. CallsInside'
  BY <1>2, <1>3 DEF IInv, CallsInside
<1>6. HeldByLocker'
  BY <1>2, <1>4 DEF IInv, HeldByLocker
<1>7. NoLostUpdate'
  BY <1>2, <1>3 DEF IInv, NoLostUpdate
<1>8. QED
  BY <1>1, <1>5, <1>6, <1>7 DEF IInv

LEMMA StutterKeeps == ASSUME IInv, UNCHANGED vars PROVE IInv'
  BY DEF IInv, TypeOK, CallsInside, HeldByLocker, NoLostUpdate, vars

\* Every reachable state satisfies the invariant.
THEOREM Invariance == Spec => []IInv
<1>1. IInv /\ [Next]_vars => IInv'
  <2> SUFFICES ASSUME IInv, [Next]_vars PROVE IInv'
    OBVIOUS
  <2>1. CASE UNCHANGED vars
    BY <2>1, StutterKeeps
  <2>2. ASSUME NEW t \in Threads, NEW c \in Object!Calls, Call(t, c) PROVE IInv'
    BY <2>2, CallKeeps
  <2>3. ASSUME NEW t \in Threads, Load(t) PROVE IInv'
    BY <2>3, LoadKeeps
  <2>4. ASSUME NEW t \in Threads, Store(t) PROVE IInv'
    BY <2>4, StoreKeeps
  <2>5. ASSUME NEW t \in Threads, Return(t) PROVE IInv'
    BY <2>5, ReturnKeeps
  <2>6. QED
    BY <2>1, <2>2, <2>3, <2>4, <2>5 DEF Next
<1>2. QED
  BY InitInvariant, <1>1, PTL DEF Spec

\* Type correctness for any number of threads and words of any width.
THEOREM TypeCorrect == Spec => []TypeOK
<1>1. IInv => TypeOK
  BY DEF IInv
<1>2. QED
  BY Invariance, <1>1, PTL

(* No store of another thread comes between the load and the store of a    *)
(* read-modify-write ("Atomically adds @i to @v", atomic32.h:44).          *)
THEOREM UpdatesSurvive == Spec => []NoLostUpdate
<1>1. IInv => NoLostUpdate
  BY DEF IInv
<1>2. QED
  BY Invariance, <1>1, PTL

-----------------------------------------------------------------------------
(* The refinement.                                                         *)

\* AtomicObject's variables, as Object substitutes them.
Word == <<Signed(mem[1]), Signed(mem[2])>>
StageAt(p) ==
    CASE p \in {"load", "store"} -> "called"
      [] p = "return" -> "done"
      [] OTHER -> "idle"
Stage == [t \in Threads |-> StageAt(pc[t])]
ResultAt(p, c, r, z, s) == IF p = "return" THEN Returned(c, r, z, s) ELSE <<>>
Result == [t \in Threads |-> ResultAt(pc[t], call[t], reg[t], zf[t], sf[t])]

\* A step of t leaves the locals of the other threads alone.
StepOf(t) ==
    \A u \in Threads \ {t} :
        /\ pc'[u] = pc[u] /\ call'[u] = call[u] /\ reg'[u] = reg[u]
        /\ zf'[u] = zf[u] /\ sf'[u] = sf[u]

LEMMA Steps ==
    ASSUME IInv, NEW t \in Threads,
           \/ \E c \in Object!Calls : Call(t, c)
           \/ Load(t) \/ Store(t) \/ Return(t)
    PROVE  StepOf(t)
<1>1. CASE \E c \in Object!Calls : Call(t, c)
  BY <1>1 DEF Call, StepOf, IInv, TypeOK
<1>2. CASE Load(t)
  BY <1>2 DEF Load, StepOf, IInv, TypeOK
<1>3. CASE Store(t)
  BY <1>3 DEF Store, StepOf, IInv, TypeOK
<1>4. CASE Return(t)
  BY <1>4 DEF Return, StepOf, IInv, TypeOK
<1>5. QED
  BY <1>1, <1>2, <1>3, <1>4

LEMMA Moves ==
    ASSUME NEW t \in Threads, StepOf(t)
    PROVE  /\ Stage' = [Stage EXCEPT ![t] = StageAt(pc'[t])]
           /\ Result' = [Result EXCEPT ![t] =
                  ResultAt(pc'[t], call'[t], reg'[t], zf'[t], sf'[t])]
<1>1. \A u \in Threads : StageAt(pc'[u]) =
          IF u = t THEN StageAt(pc'[t]) ELSE StageAt(pc[u])
  BY DEF StepOf
<1>2. \A u \in Threads :
          ResultAt(pc'[u], call'[u], reg'[u], zf'[u], sf'[u]) =
              IF u = t THEN ResultAt(pc'[t], call'[t], reg'[t], zf'[t], sf'[t])
              ELSE ResultAt(pc[u], call[u], reg[u], zf[u], sf[u])
  BY DEF StepOf
<1>3. QED
  BY <1>1, <1>2 DEF Stage, Result

LEMMA Stages ==
    /\ StageAt("idle") = "idle"
    /\ StageAt("load") = "called"
    /\ StageAt("store") = "called"
    /\ StageAt("return") = "done"
  BY DEF StageAt

\* Outside of "return" there is no result.
LEMMA NoResult ==
    ASSUME IInv, NEW t \in Threads, pc[t] # "return"
    PROVE  Result[t] = <<>>
  BY DEF Result, ResultAt

LEMMA CallIs ==
    ASSUME IInv, NEW t \in Threads, NEW c \in Object!Calls, Call(t, c)
    PROVE  Object!Invoke(t, c)
<1>1. StepOf(t)
  BY Steps
<1>2. pc[t] = "idle" /\ pc'[t] \in {"load", "store"}
  BY DEF Call, IInv, TypeOK
<1>3. Stage[t] = "idle" /\ Stage' = [Stage EXCEPT ![t] = "called"]
  BY <1>1, <1>2, Moves, Stages DEF Stage
<1>4. Result' = [Result EXCEPT ![t] = <<>>]
  BY <1>1, <1>2, Moves DEF ResultAt
<1>5. Result' = Result
  BY <1>2, <1>4, NoResult DEF Result
<1>6. Word' = Word /\ call' = [call EXCEPT ![t] = c]
  BY DEF Call, Word
<1>7. QED
  BY ONLY <1>3, <1>5, <1>6
     DEF Object!Invoke, Word, Stage, Result, StageAt, ResultAt

\* The load of a read-modify-write changes nothing that the object has.
LEMMA LoadStutters ==
    ASSUME IInv, NEW t \in Threads, Load(t), Stores(call[t])
    PROVE  UNCHANGED <<Word, Stage, call, Result>>
<1>1. StepOf(t)
  BY Steps
<1>2. pc[t] = "load" /\ pc'[t] = "store"
  BY DEF Load, IInv, TypeOK
<1>3. Stage' = [Stage EXCEPT ![t] = "called"] /\ Stage[t] = "called"
  BY <1>1, <1>2, Moves, Stages DEF Stage
<1>4. Stage' = Stage
  BY <1>3 DEF Stage
<1>5. Result' = [Result EXCEPT ![t] = <<>>]
  BY <1>1, <1>2, Moves DEF ResultAt
<1>6. Result' = Result
  BY <1>2, <1>5, NoResult DEF Result
<1>7. Word' = Word /\ call' = call
  BY DEF Load, Word
<1>8. QED
  BY <1>4, <1>6, <1>7

\* A plain load is all of a read.
LEMMA LoadIs ==
    ASSUME IInv, NEW t \in Threads, Load(t), ~Stores(call[t])
    PROVE  Object!TakeEffect(t)
<1>1. StepOf(t)
  BY Steps
<1>2. pc[t] = "load" /\ pc'[t] = "return" /\ reg'[t] = mem
  BY DEF Load, IInv, TypeOK
<1>3. call[t].op = "read"
  BY DEF Stores
<1>4. Stage[t] = "called" /\ Stage' = [Stage EXCEPT ![t] = "done"]
  BY <1>1, <1>2, Moves, Stages DEF Stage
<1>5. Word' = Object!After(call[t], Word)
  BY <1>3 DEF Load, Word, Object!After
<1>6. \A z, s : Returned(call[t], mem, z, s) = <<Signed(mem[1])>>
  BY <1>3 DEF Returned
<1>7. Object!Answer(call[t], Word) = <<Signed(mem[1])>>
  BY <1>3 DEF Object!Answer, Word
<1>8. call' = call
  BY DEF Load
<1>9. Result' = [Result EXCEPT ![t] = Object!Answer(call[t], Word)]
  BY <1>1, <1>2, <1>6, <1>7, <1>8, Moves DEF ResultAt
<1>10. QED
  BY ONLY <1>4, <1>5, <1>8, <1>9
     DEF Object!TakeEffect, Word, Stage, Result, StageAt, ResultAt

\* The store is where every other operation takes effect.
LEMMA StoreIs ==
    ASSUME IInv, NEW t \in Threads, Store(t)
    PROVE  Object!TakeEffect(t)
<1>1. StepOf(t)
  BY Steps
<1>2. pc[t] = "store" /\ pc'[t] = "return" /\ reg'[t] = reg[t]
  BY DEF Store, IInv, TypeOK
<1>3. Stage[t] = "called" /\ Stage' = [Stage EXCEPT ![t] = "done"]
  BY <1>1, <1>2, Moves, Stages DEF Stage
<1>4. call' = call
  BY DEF Store
<1>5. Word = Seen(mem) /\ Word' = Seen(mem')
  BY DEF Word, Seen
<1>6. Word' = Object!After(call[t], Word)
  BY <1>5, StoreIsAtomic DEF IsRight
<1>7. Returned(call'[t], reg'[t], zf'[t], sf'[t]) = Object!Answer(call[t], Word)
  BY <1>2, <1>4, <1>5, StoreIsAtomic DEF IsRight
<1>8. Result' = [Result EXCEPT ![t] = Object!Answer(call[t], Word)]
  BY <1>1, <1>2, <1>7, Moves DEF ResultAt
<1>9. QED
  BY ONLY <1>3, <1>4, <1>6, <1>8
     DEF Object!TakeEffect, Word, Stage, Result, StageAt, ResultAt

LEMMA ReturnIs ==
    ASSUME IInv, NEW t \in Threads, Return(t)
    PROVE  Object!Respond(t)
<1>1. StepOf(t)
  BY Steps
<1>2. pc[t] = "return" /\ pc'[t] = "idle"
  BY DEF Return, IInv, TypeOK
<1>3. Stage[t] = "done" /\ Stage' = [Stage EXCEPT ![t] = "idle"]
  BY <1>1, <1>2, Moves, Stages DEF Stage
<1>4. Result' = [Result EXCEPT ![t] = <<>>]
  BY <1>1, <1>2, Moves DEF ResultAt
<1>5. Word' = Word /\ call' = [call EXCEPT ![t] = Object!NoCall]
  BY DEF Return, Word
<1>6. QED
  BY ONLY <1>3, <1>4, <1>5
     DEF Object!Respond, Word, Stage, Result, StageAt, ResultAt

LEMMA InitIsAtomicInit == Init => Object!AtomicInit
<1> SUFFICES ASSUME Init PROVE Object!AtomicInit
  OBVIOUS
<1>1. mem = <<0, 0>> /\ \A t \in Threads : pc[t] = "idle"
  BY DEF Init
<1>2. Word = <<0, 0>>
  BY <1>1, ModulusType DEF Word, Signed
<1>3. \A t \in Threads : StageAt(pc[t]) = "idle"
  BY <1>1, Stages
<1>4. Stage = [t \in Threads |-> "idle"]
  BY <1>3 DEF Stage
<1>5. Result = [t \in Threads |-> <<>>]
  BY <1>1 DEF Result, ResultAt
<1>6. call = [t \in Threads |-> Object!NoCall]
  BY DEF Init
<1>7. QED
  BY ONLY <1>2, <1>4, <1>5, <1>6
     DEF Object!AtomicInit, Word, Stage, Result, StageAt, ResultAt

LEMMA Unchanged ==
    ASSUME UNCHANGED <<Word, Stage, call, Result>>
    PROVE  UNCHANGED Object!atomicVars
  BY DEF Object!atomicVars, Word, Stage, Result, StageAt, ResultAt

LEMMA StepIsAtomicStep ==
    IInv /\ [Next]_vars => [Object!AtomicNext]_Object!atomicVars
<1> SUFFICES ASSUME IInv, [Next]_vars
             PROVE  [Object!AtomicNext]_Object!atomicVars
  OBVIOUS
<1>1. CASE UNCHANGED vars
  <2>1. UNCHANGED <<Word, Stage, call, Result>>
    BY <1>1 DEF vars, Word, Stage, Result
  <2>2. QED
    BY <2>1, Unchanged
<1>2. ASSUME NEW t \in Threads, NEW c \in Object!Calls, Call(t, c)
      PROVE  Object!AtomicNext
  BY <1>2, CallIs DEF Object!AtomicNext
<1>3. ASSUME NEW t \in Threads, Load(t)
      PROVE  [Object!AtomicNext]_Object!atomicVars
  <2>1. CASE Stores(call[t])
    BY <1>3, <2>1, LoadStutters, Unchanged
  <2>2. CASE ~Stores(call[t])
    BY <1>3, <2>2, LoadIs DEF Object!AtomicNext
  <2>3. QED
    BY <2>1, <2>2
<1>4. ASSUME NEW t \in Threads, Store(t)
      PROVE  Object!AtomicNext
  BY <1>4, StoreIs DEF Object!AtomicNext
<1>5. ASSUME NEW t \in Threads, Return(t)
      PROVE  Object!AtomicNext
  BY <1>5, ReturnIs DEF Object!AtomicNext
<1>6. QED
  BY <1>1, <1>2, <1>3, <1>4, <1>5 DEF Next

(* The operations of atomic32.h, atomic64.h and sync_prim.h happen at once *)
(* and return what their comments promise, for any number of threads and   *)
(* words of any width.                                                     *)
THEOREM ImplementsAtomicObject == Spec => IsAtomicObject
<1>1. Init => Object!AtomicInit
  BY InitIsAtomicInit
<1>2. IInv /\ [Next]_vars => [Object!AtomicNext]_Object!atomicVars
  BY StepIsAtomicStep
<1>3. QED
  BY <1>1, <1>2, Invariance, PTL DEF Spec, IsAtomicObject, Object!AtomicSpec
=============================================================================

----------------------------- MODULE X86Atomic -----------------------------
(***************************************************************************)
(* x86/atomic32.h, x86/atomic64.h (one module: only the width differs) and *)
(* x86/sync_prim.h, as the instructions they are: a load and a store of    *)
(* bit patterns, with flags.  The LOCK prefix holds the memory from the    *)
(* load to the store; xchg does so without a prefix; mov needs one of the  *)
(* two only.  The instructions are the processor's (external); which one   *)
(* an operation uses, with which operands, prefix and flag, is the code's. *)
(***************************************************************************)
EXTENDS Integers, Sequences

CONSTANTS Threads,
          Half,        \* 2^(w-1) for words of w bits
          Args,
          NoOwner

ASSUME X86Assumption ==
    /\ Half \in Nat \ {0}
    /\ Args \subseteq -Half..(Half - 1)
    /\ NoOwner \notin Threads

VARIABLES mem,         \* two adjacent words of bits, each in 0..2*Half-1
          locked,      \* the thread whose instruction holds the memory
          pc,          \* "idle", "load", "store", "return"
          call,        \* the operation and its arguments
          reg,         \* what the load of the instruction read
          zf, sf       \* the flags

vars == <<mem, locked, pc, call, reg, zf, sf>>

Modulus == 2 * Half

\* Fault: a negative argument is widened, not cut to the word.
BitsNotCut(i) == i

Bits(i) == i % Modulus
Signed(p) == IF p < Half THEN p ELSE p - Modulus

(* What the program gets: the flag that setz, sete or sets stores, the     *)
(* register that mov, xchg or cmpxchg leaves.                              *)
Flag(b) == IF b THEN 1 ELSE 0

\* Fault: RDX:RAX are inputs only, cmp is not written back.
ReturnedNotWrittenBack(c, r, z, s) ==
    CASE c.op \in {"read", "fetch_and_store"} -> <<Signed(r[1])>>
      [] c.op \in {"sub_and_test", "inc_and_test", "dec_and_test",
                   "compare_and_store"} -> <<Flag(z)>>
      [] c.op = "add_negative" -> <<Flag(s)>>
      [] c.op = "double_cmp_and_swap" -> <<Flag(z), c.both[1], c.both[2]>>
      [] OTHER -> <<>>

Returned(c, r, z, s) ==
    CASE c.op \in {"read", "fetch_and_store"} -> <<Signed(r[1])>>
      [] c.op \in {"sub_and_test", "inc_and_test", "dec_and_test",
                   "compare_and_store"} -> <<Flag(z)>>
      [] c.op = "add_negative" -> <<Flag(s)>>
      [] c.op = "double_cmp_and_swap" ->
             <<Flag(z), Signed(r[1]), Signed(r[2])>>
      [] OTHER -> <<>>

\* The object that the operations promise: see IsAtomicObject.
Object == INSTANCE AtomicObject WITH
    word <- <<Signed(mem[1]), Signed(mem[2])>>,
    stage <- [t \in Threads |->
        CASE pc[t] \in {"load", "store"} -> "called"
          [] pc[t] = "return" -> "done"
          [] OTHER -> "idle"],
    result <- [t \in Threads |->
        IF pc[t] = "return" THEN Returned(call[t], reg[t], zf[t], sf[t])
                            ELSE <<>>]

Init ==
    /\ mem = <<0, 0>>
    /\ locked = NoOwner
    /\ pc = [t \in Threads |-> "idle"]
    /\ call = [t \in Threads |-> Object!NoCall]
    /\ reg = [t \in Threads |-> <<0, 0>>]
    /\ zf = [t \in Threads |-> FALSE]
    /\ sf = [t \in Threads |-> FALSE]

-----------------------------------------------------------------------------
(* The instructions: what is stored over the words w that were loaded.     *)

\* asm volatile(LOCK_PREFIX "addl %1,%0"), "subl", "incl", "decl".
Add(w, i) == <<(w[1] + Bits(i)) % Modulus, w[2]>>
Sub(w, i) == <<(w[1] - Bits(i)) % Modulus, w[2]>>
Inc(w) == <<(w[1] + 1) % Modulus, w[2]>>
Dec(w) == <<(w[1] - 1) % Modulus, w[2]>>

\* xchg %0, %1, and v->counter = i.
Exchange(w, i) == <<Bits(i), w[2]>>

\* cmpxchg %3, %1; cmpxchg16b (or 8b) %0: store only what compares equal.
CmpXchg(w, cmp, i) == IF w[1] = Bits(cmp) THEN <<Bits(i), w[2]>> ELSE w
CmpXchgDouble(w, both, swap) ==
    IF w = <<Bits(both[1]), Bits(both[2])>>
    THEN <<Bits(swap[1]), Bits(swap[2])>> ELSE w

\* Which instruction each operation is.
Stored(c, w) ==
    CASE c.op \in {"set", "fetch_and_store"} -> Exchange(w, c.i)
      [] c.op \in {"add", "add_negative"} -> Add(w, c.i)
      [] c.op \in {"sub", "sub_and_test"} -> Sub(w, c.i)
      [] c.op \in {"inc", "inc_and_test"} -> Inc(w)
      [] c.op \in {"dec", "dec_and_test"} -> Dec(w)
      [] c.op = "compare_and_store" -> CmpXchg(w, c.cmp, c.i)
      [] c.op = "double_cmp_and_swap" -> CmpXchgDouble(w, c.both, c.swap)

\* ZF: the result is zero, or the comparison of a cmpxchg holds.
Zero(c, w) ==
    CASE c.op = "compare_and_store" -> w[1] = Bits(c.cmp)
      [] c.op = "double_cmp_and_swap" ->
             w = <<Bits(c.both[1]), Bits(c.both[2])>>
      [] OTHER -> Stored(c, w)[1] = 0

\* atomic_set is a plain store, atomic_read a plain load.
Loads(c)  == c.op # "set"
Stores(c) == c.op # "read"

\* Fault: the LOCK_PREFIX of atomic_dec is missing.
LockPrefixedButDec ==
    {"add", "sub", "sub_and_test", "inc", "dec_and_test", "inc_and_test",
     "add_negative", "compare_and_store", "double_cmp_and_swap"}

\* The operations that put "lock;" before their instruction.
LockPrefixed ==
    {"add", "sub", "sub_and_test", "inc", "dec", "dec_and_test",
     "inc_and_test", "add_negative", "compare_and_store",
     "double_cmp_and_swap"}

\* xchg locks without it.
Locks(c) == c.op \in LockPrefixed \cup {"fetch_and_store"}

-----------------------------------------------------------------------------

Call(t, c) ==
    /\ pc[t] = "idle"
    /\ pc' = [pc EXCEPT ![t] = IF Loads(c) THEN "load" ELSE "store"]
    /\ call' = [call EXCEPT ![t] = c]
    /\ UNCHANGED <<mem, locked, reg, zf, sf>>

\* The load of an instruction; a LOCKed one holds the memory from here on.
Load(t) ==
    /\ pc[t] = "load"
    /\ locked = NoOwner
    /\ locked' = IF Locks(call[t]) THEN t ELSE NoOwner
    /\ reg' = [reg EXCEPT ![t] = mem]
    /\ pc' = [pc EXCEPT ![t] = IF Stores(call[t]) THEN "store" ELSE "return"]
    /\ UNCHANGED <<mem, call, zf, sf>>

Store(t) ==
    /\ pc[t] = "store"
    /\ locked \in {t, NoOwner}
    /\ locked' = NoOwner
    /\ LET w == IF Loads(call[t]) THEN reg[t] ELSE mem
       IN  /\ mem' = Stored(call[t], w)
           /\ zf' = [zf EXCEPT ![t] = Zero(call[t], w)]
           /\ sf' = [sf EXCEPT ![t] = Stored(call[t], w)[1] >= Half]
    /\ pc' = [pc EXCEPT ![t] = "return"]
    /\ UNCHANGED <<call, reg>>

\* The call returns.
Return(t) ==
    /\ pc[t] = "return"
    /\ pc' = [pc EXCEPT ![t] = "idle"]
    /\ call' = [call EXCEPT ![t] = Object!NoCall]
    /\ reg' = [reg EXCEPT ![t] = <<0, 0>>]
    /\ zf' = [zf EXCEPT ![t] = FALSE]
    /\ sf' = [sf EXCEPT ![t] = FALSE]
    /\ UNCHANGED <<mem, locked>>

Next ==
    \E t \in Threads :
        \/ \E c \in Object!Calls : Call(t, c)
        \/ Load(t)
        \/ Store(t)
        \/ Return(t)

Spec == Init /\ [][Next]_vars

-----------------------------------------------------------------------------
(* Properties.                                                             *)

Words == (0..(Modulus - 1)) \X (0..(Modulus - 1))

\* The types of the state.
TypeOK ==
    /\ mem \in Words
    /\ locked \in Threads \cup {NoOwner}
    /\ pc \in [Threads -> {"idle", "load", "store", "return"}]
    /\ call \in [Threads -> Object!Calls \cup {Object!NoCall}]
    /\ reg \in [Threads -> Words]
    /\ zf \in [Threads -> BOOLEAN]
    /\ sf \in [Threads -> BOOLEAN]

(* Whatever the instructions of the other threads do in between, a         *)
(* read-modify-write stores over the value it loaded ("Atomically adds @i  *)
(* to @v", atomic32.h:44, and the others): no update is lost.              *)
NoLostUpdate ==
    \A t \in Threads :
        pc[t] = "store" /\ Loads(call[t]) => reg[t] = mem /\ locked = t

(* Each operation happens at once, with the results its comment promises,  *)
(* for every value the words can have: the sums wrap around, the flag is   *)
(* of the sum or of the comparison, and the cmp of a double_cmp_and_swap   *)
(* that fails holds the words it found (sync_prim.h:207-212).              *)
IsAtomicObject == Object!AtomicSpec
=============================================================================

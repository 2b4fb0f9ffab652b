---------------------------- MODULE AtomicObject ----------------------------
(***************************************************************************)
(* What x86/atomic32.h, x86/atomic64.h and x86/sync_prim.h promise of the  *)
(* memory they are used on, in the words of the comments of those files:   *)
(* each operation happens at once, between its call and its return, and on *)
(* signed integers that wrap around.  The object is two adjacent words, as *)
(* double_cmp_and_swap sees them; all the other operations act on the      *)
(* first one.                                                              *)
(***************************************************************************)
EXTENDS Integers, Sequences

CONSTANTS Threads,
          Half,        \* a word holds -Half..Half-1
          Args         \* the arguments of the calls

VARIABLES word,        \* <<lo, hi>>
          stage,       \* "idle", "called" or "done"
          call,        \* the operation of each thread and its arguments
          result       \* what it returns, <<>> for void

atomicVars == <<word, stage, call, result>>

NoCall == [op |-> "none"]

Calls ==
    [op : {"read", "inc", "dec", "inc_and_test", "dec_and_test"}]
    \cup [op : {"set", "add", "sub", "sub_and_test", "add_negative",
                "fetch_and_store"}, i : Args]
    \cup [op : {"compare_and_store"}, cmp : Args, i : Args]
    \cup [op : {"double_cmp_and_swap"}, both : Args \X Args, swap : Args \X Args]

\* The signed integer of a word's width that is congruent to x.
Wrap(x) == ((x + Half) % (2 * Half)) - Half

\* "Atomically adds @i to @v", "subtracts", "increments", "decrements".
Sum(c, v) ==
    CASE c.op \in {"add", "add_negative"} -> Wrap(v + c.i)
      [] c.op \in {"sub", "sub_and_test"} -> Wrap(v - c.i)
      [] c.op \in {"inc", "inc_and_test"} -> Wrap(v + 1)
      [] c.op \in {"dec", "dec_and_test"} -> Wrap(v - 1)

\* The words after operation c of words w.
After(c, w) ==
    CASE c.op = "read" -> w
      [] c.op \in {"set", "fetch_and_store"} -> <<c.i, w[2]>>
      [] c.op = "compare_and_store" -> IF w[1] = c.cmp THEN <<c.i, w[2]>> ELSE w
      [] c.op = "double_cmp_and_swap" -> IF w = c.both THEN c.swap ELSE w
      [] OTHER -> <<Sum(c, w[1]), w[2]>>

Truth(b) == IF b THEN 1 ELSE 0

(* "true if the result is zero", "true if the result is negative", "return *)
(* old value", "1 if exchanged/swapped"; double_cmp_and_swap also leaves   *)
(* the words it found in the caller's cmp.                                 *)
Answer(c, w) ==
    CASE c.op \in {"read", "fetch_and_store"} -> <<w[1]>>
      [] c.op \in {"sub_and_test", "inc_and_test", "dec_and_test"} ->
             <<Truth(Sum(c, w[1]) = 0)>>
      [] c.op = "add_negative" -> <<Truth(Sum(c, w[1]) < 0)>>
      [] c.op = "compare_and_store" -> <<Truth(w[1] = c.cmp)>>
      [] c.op = "double_cmp_and_swap" ->
             <<Truth(w = c.both), w[1], w[2]>>
      [] OTHER -> <<>>

-----------------------------------------------------------------------------

AtomicInit ==
    /\ word = <<0, 0>>
    /\ stage = [t \in Threads |-> "idle"]
    /\ call = [t \in Threads |-> NoCall]
    /\ result = [t \in Threads |-> <<>>]

Invoke(t, c) ==
    /\ stage[t] = "idle"
    /\ stage' = [stage EXCEPT ![t] = "called"]
    /\ call' = [call EXCEPT ![t] = c]
    /\ UNCHANGED <<word, result>>

TakeEffect(t) ==
    /\ stage[t] = "called"
    /\ stage' = [stage EXCEPT ![t] = "done"]
    /\ word' = After(call[t], word)
    /\ result' = [result EXCEPT ![t] = Answer(call[t], word)]
    /\ UNCHANGED call

Respond(t) ==
    /\ stage[t] = "done"
    /\ stage' = [stage EXCEPT ![t] = "idle"]
    /\ call' = [call EXCEPT ![t] = NoCall]
    /\ result' = [result EXCEPT ![t] = <<>>]
    /\ UNCHANGED word

AtomicNext ==
    \E t \in Threads :
        \/ \E c \in Calls : Invoke(t, c)
        \/ TakeEffect(t)
        \/ Respond(t)

AtomicSpec == AtomicInit /\ [][AtomicNext]_atomicVars
=============================================================================

---------------------------- MODULE MCX86Atomic ----------------------------
(* X86Atomic for two threads and words of two bits: every value meets the  *)
(* wraparound, and a double word has sixteen values.                       *)
EXTENDS X86Atomic

MCArgs == {-2, 1}
=============================================================================

--------------------------- MODULE MCLockedQueue ---------------------------
(* LockedQueue with a queue of up to three of two values.                  *)
EXTENDS LockedQueue
=============================================================================

----------------------------- MODULE MCMcsLock -----------------------------
(* McsLock on small instances: see the .cfg files and the README.          *)
EXTENDS McsLock, TLC

\* Sound where TryThreads is empty or all of Threads.
ThreadSymmetry == Permutations(Threads)
=============================================================================

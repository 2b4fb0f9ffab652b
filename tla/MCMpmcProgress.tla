--------------------------- MODULE MCMpmcProgress ---------------------------
(* MpmcProgress on a small instance: see MCMpmcLockFree.cfg and the README.*)
EXTENDS MpmcProgress

CONSTANT t1

\* t1 is scheduled; the others may stop anywhere, for ever.
OneRunner == ProgressSpec /\ Scheduled(t1)
RunnerReturns == CallReturns(t1)
=============================================================================

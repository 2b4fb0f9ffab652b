---------------------------- MODULE MCMpmcQueue ----------------------------
(* MpmcQueue on small instances: see the .cfg files and the README.        *)
EXTENDS MpmcQueue, TLC

NodeSymmetry == Permutations(Nodes) \cup Permutations(Data)

\* Whoever destroys the queue is scheduled.
DestroyRuns == Spec /\ \A t \in Destroyers : DestroyScheduled(t)
=============================================================================

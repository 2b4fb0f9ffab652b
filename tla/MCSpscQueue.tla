---------------------------- MODULE MCSpscQueue ----------------------------
(* SpscQueue on small instances: see the .cfg files and the README.        *)
EXTENDS SpscQueue, TLC

\* Nodes are compared only, and no liveness is checked with this symmetry.
NodeSymmetry == Permutations(Nodes) \cup Permutations(Data)
=============================================================================

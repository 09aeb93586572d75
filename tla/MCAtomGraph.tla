------------------------------ MODULE MCAtomGraph ------------------------------
\* Two graphs in one file, one of them with two clusters.
EXTENDS AtomGraph, TLC

CONSTANTS a1, a2, b1

MCCluster == {a1, a2, b1}
MCGraphOf == [c \in MCCluster |-> IF c = b1 THEN "b" ELSE "a"]

\* The clusters of the first graph are alike.
Alike == Permutations({a1, a2})
================================================================================

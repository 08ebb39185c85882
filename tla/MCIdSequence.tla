---------------------------- MODULE MCIdSequence ----------------------------
(* IdSequence on two kinds of deployment: a cluster whose nodes get a new id  *)
(* each time they start, and a single node that keeps its id and whose store *)
(* may report a commit as failed that took effect.                          *)
EXTENDS IdSequence, TLC

CONSTANTS n1, n2, n3

Cluster == [nodes |-> {n1, n2, n3}, faults |-> {}]
Single == [nodes |-> {n1}, faults |-> {"restart", "ambiguous"}]
StableCluster == [nodes |-> {n1, n2}, faults |-> {"restart"}]
FreshPair == [nodes |-> {n1, n2}, faults |-> {}]

Supported == {Cluster, Single}
Stable == {StableCluster}
Pair == {FreshPair}

Symmetry == Permutations({n2, n3})
=============================================================================

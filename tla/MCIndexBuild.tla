--------------------------- MODULE MCIndexBuild ---------------------------
(* IndexBuild for few records, writers and builder tasks.                   *)
EXTENDS IndexBuild, TLC

CONSTANTS w1, w2, b1, b2, r1, v1

\* Writers, builder tasks, records and values are interchangeable.
Symmetry ==
    Permutations(Writer) \cup Permutations(Builder) \cup Permutations(Rec)
        \cup Permutations(Value)
=============================================================================

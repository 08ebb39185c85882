-------------------------- MODULE MCNodeMembership --------------------------
(* NodeMembership for few nodes and live queries.                           *)
EXTENDS NodeMembership

CONSTANTS n1, n2, q1
=============================================================================

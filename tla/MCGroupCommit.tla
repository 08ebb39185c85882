--------------------------- MODULE MCGroupCommit ---------------------------
(* GroupCommit for a few callers, one more than fit in a batch.             *)
EXTENDS GroupCommit, TLC

CONSTANTS c1, c2, c3
=============================================================================

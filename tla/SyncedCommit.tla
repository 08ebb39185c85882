---------------------------- MODULE SyncedCommit ----------------------------
(***************************************************************************)
(* What `sync=every' promises the callers of Transaction::commit: a commit  *)
(* that answers Ok is on disk.  A commit that answers Err, or whose caller   *)
(* went away, may or may not be.  The group commit of GroupCommit implements *)
(* this specification.                                                      *)
(***************************************************************************)
CONSTANT Caller

VARIABLE phase   \* of each caller's latest transaction

Pending == {"committed", "durable"}

Init == phase = [c \in Caller |-> "idle"]

\* The transaction is applied: visible to others, not yet on disk.
Commit(c) ==
    /\ phase[c] \notin Pending
    /\ phase' = [phase EXCEPT ![c] = "committed"]

\* Some of the applied transactions reach the disk.
Sync(S) ==
    /\ \A c \in S : phase[c] = "committed"
    /\ phase' = [c \in Caller |-> IF c \in S THEN "durable" ELSE phase[c]]

Ack(c) ==
    /\ phase[c] = "durable"
    /\ phase' = [phase EXCEPT ![c] = "ok"]

Fail(c) ==
    /\ phase[c] \in Pending
    /\ phase' = [phase EXCEPT ![c] = "err"]

Abandon(c) ==
    /\ phase[c] \in Pending
    /\ phase' = [phase EXCEPT ![c] = "idle"]

Next ==
    \/ \E c \in Caller : Commit(c) \/ Ack(c) \/ Fail(c) \/ Abandon(c)
    \/ \E S \in SUBSET Caller : Sync(S)

Spec == Init /\ [][Next]_phase

\* Every commit is answered.
Answered == \A c \in Caller : phase[c] \in Pending ~> phase[c] \notin Pending
=============================================================================

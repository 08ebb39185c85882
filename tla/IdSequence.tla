----------------------------- MODULE IdSequence -----------------------------
(***************************************************************************)
(* Distributed id generation, kvs/sequences.rs.  Each node takes batches of *)
(* ids from the store (check_batch_allocation), hands them out from memory  *)
(* (Sequence::next) and saves its position after every id.  One sequence    *)
(* domain is modelled; within a node the mutex of the cached Sequence (and  *)
(* the write lock of the cache while it loads) serialises the requests, so  *)
(* a node has one request in progress.                                      *)
(*                                                                         *)
(* The store runs each transaction on a snapshot and refuses a commit when  *)
(* another one wrote one of its keys since (optimistic write transactions). *)
(***************************************************************************)
EXTENDS Integers, FiniteSetsExt

CONSTANTS Node,
          Start,        \* configured start of the sequence
          CatalogNext,  \* one past the highest id the catalog held before the
                        \* sequence was first used (Start for user sequences)
          Batch,        \* size of a batch
          MaxId,        \* bound on the ids handed out
          Deployment,   \* the deployments considered, see DeploymentType
          NoState       \* the node has no saved SequenceState

\* Which nodes run, and what can happen to them:
\*   restart    a node comes back with the node id it had (DatastoreBuilder
\*              with_id); without it a node that dies is gone, its successor
\*              is another member of Node
\*   ambiguous  a commit may take effect and still be reported as failed
DeploymentType == [nodes : SUBSET Node, faults : SUBSET {"restart", "ambiguous"}]

ASSUME IdSequenceAssumption ==
    /\ Start \in Int /\ CatalogNext \in Int /\ MaxId \in Int
    /\ Batch \in Nat
    /\ Deployment \subseteq DeploymentType
    /\ NoState \notin Int

VARIABLES deployment,
          batches,   \* the stored BatchValues, each with its key `from'
          stored,    \* the stored SequenceState of each node
          pc,        \* "out": not cached; "gone": the node died for good
          loading,   \* is the request still in Sequence::load?
          next,      \* st.next of the cached Sequence
          to,        \* to of the cached Sequence
          want,      \* argument `next' of find_batch_allocation
          plan,      \* what the open allocation transaction will write
          dirty,     \* batch keys others wrote since it began
          issued,    \* ids returned to callers
          reissued   \* ids returned more than once

vars == <<deployment, batches, stored, pc, loading, next, to, want, plan, dirty,
          issued, reissued>>

BatchType == [from : Int, to : Int, owner : Node]
PlanType == [from : Int, to : Int, put : SUBSET BatchType, del : SUBSET BatchType]

NoPlan == [from |-> 0, to |-> 0, put |-> {}, del |-> {}]

\* seed_start_from_catalog before any id of the sequence is in the catalog.
FirstFree == IF CatalogNext > Start THEN CatalogNext ELSE Start

TypeOK ==
    /\ deployment \in Deployment
    /\ batches \subseteq BatchType
    /\ stored \in [Node -> Int \cup {NoState}]
    /\ pc \in [Node -> {"out", "serve", "alloc", "allocCommit", "persist",
                        "ready", "gone"}]
    /\ loading \in [Node -> BOOLEAN]
    /\ next \in [Node -> Int]
    /\ to \in [Node -> Int]
    /\ want \in [Node -> Int]
    /\ plan \in [Node -> PlanType]
    /\ dirty \in [Node -> SUBSET Int]
    /\ issued \subseteq Int
    /\ reissued \subseteq Int

Init ==
    /\ deployment \in Deployment
    /\ batches = {}
    /\ stored = [n \in Node |-> NoState]
    /\ pc = [n \in Node |-> IF n \in deployment.nodes THEN "out" ELSE "gone"]
    /\ loading = [n \in Node |-> FALSE]
    /\ next = [n \in Node |-> 0]
    /\ to = [n \in Node |-> 0]
    /\ want = [n \in Node |-> 0]
    /\ plan = [n \in Node |-> NoPlan]
    /\ dirty = [n \in Node |-> {}]
    /\ issued = {}
    /\ reissued = {}

----------------------------------------------------------------------------
\* check_batch_allocation for node n, whose next id is w, on the batches S.  The
\* scan is in key order: the first own batch that still holds w ends it, own
\* batches before that are deleted; otherwise a batch is put after the highest.
OwnBatches(n, S) == {b \in S : b.owner = n}

\* Variant: the scan does not raise next_start.
HighWaterOfNext(w, S) == w

HighWater(w, S) == Max({w} \cup {b.to : b \in S})

\* Variant: every own batch is deleted, the one that is reused too.
ReuseBatchDeletingAll(n, w, S, hit) ==
    [from |-> w, to |-> hit.to, put |-> {}, del |-> OwnBatches(n, S)]

ReuseBatch(n, w, S, hit) ==
    [from |-> w, to |-> hit.to, put |-> {},
     del |-> {b \in OwnBatches(n, S) : b.to <= w /\ b.from < hit.from}]

\* Variant: the batch is new, and the position the one asked for, as when one is reused.
NewBatchFromNext(n, w, S) ==
    LET s == HighWater(w, S)
    IN  [from |-> w, to |-> s + Batch,
         put |-> {[from |-> s, to |-> s + Batch, owner |-> n]},
         del |-> OwnBatches(n, S)]

NewBatch(n, w, S) ==
    LET s == HighWater(w, S)
    IN  [from |-> s, to |-> s + Batch,
         put |-> {[from |-> s, to |-> s + Batch, owner |-> n]},
         del |-> OwnBatches(n, S)]

CheckBatchAllocation(n, w, S) ==
    LET hits == {b \in OwnBatches(n, S) : w < b.to}
    IN  IF hits = {}
        THEN NewBatch(n, w, S)
        ELSE ReuseBatch(n, w, S, CHOOSE b \in hits : \A c \in hits : b.from <= c.from)

WriteSet(p) == {b.from : b \in p.put \cup p.del}

\* The transaction of n commits its plan: it becomes visible, and conflicts with
\* every allocation still open that writes one of the same keys.
ApplyPlan(n) ==
    /\ batches' = {b \in batches : b.from \notin WriteSet(plan[n])} \cup plan[n].put
    /\ dirty' = [m \in Node |-> IF m # n /\ pc[m] = "allocCommit"
                                THEN dirty[m] \cup WriteSet(plan[n])
                                ELSE {}]

\* Sequence::next takes the id v = st.next; it is returned once st is saved.
TakeId(n, from, bound) ==
    /\ next' = [next EXCEPT ![n] = from + 1]
    /\ to' = [to EXCEPT ![n] = bound]
    /\ pc' = [pc EXCEPT ![n] = "persist"]

----------------------------------------------------------------------------
\* Variant: Load without the check for a missing state.
LoadUnchecked(n) ==
    /\ pc[n] = "out"
    /\ want' = [want EXCEPT ![n] = stored[n]]
    /\ loading' = [loading EXCEPT ![n] = TRUE]
    /\ pc' = [pc EXCEPT ![n] = "alloc"]
    /\ UNCHANGED <<deployment, batches, stored, next, to, plan, dirty, issued,
                   reissued>>

\* next_val on a node that has not cached the sequence: Sequence::load reads the
\* saved state, or else seeds it from the catalog, in a read transaction.  Of
\* the ids issued so far, any may have reached the catalog.
Load(n) ==
    /\ pc[n] = "out"
    /\ \/ /\ stored[n] # NoState
          /\ want' = [want EXCEPT ![n] = stored[n]]
       \/ /\ stored[n] = NoState
          /\ \E s \in {FirstFree} \cup {i + 1 : i \in issued} :
                /\ s >= FirstFree
                /\ want' = [want EXCEPT ![n] = s]
    /\ loading' = [loading EXCEPT ![n] = TRUE]
    /\ pc' = [pc EXCEPT ![n] = "alloc"]
    /\ UNCHANGED <<deployment, batches, stored, next, to, plan, dirty, issued,
                   reissued>>

\* next_val on a cached sequence.
NextVal(n) ==
    /\ pc[n] = "ready"
    /\ pc' = [pc EXCEPT ![n] = "serve"]
    /\ UNCHANGED <<deployment, batches, stored, loading, next, to, want, plan,
                   dirty, issued, reissued>>

\* Sequence::next: take an id from the current batch, or look for a batch.
Serve(n) ==
    /\ pc[n] = "serve"
    /\ \/ /\ next[n] < to[n]
          /\ TakeId(n, next[n], to[n])
          /\ UNCHANGED want
       \/ /\ next[n] >= to[n]
          /\ want' = [want EXCEPT ![n] = next[n]]
          /\ pc' = [pc EXCEPT ![n] = "alloc"]
          /\ UNCHANGED <<next, to>>
    /\ UNCHANGED <<deployment, batches, stored, loading, plan, dirty, issued,
                   reissued>>

\* An attempt of find_batch_allocation: the transaction of
\* check_batch_allocation scans the batches.
BeginAllocation(n) ==
    LET p == CheckBatchAllocation(n, want[n], batches)
    IN  /\ pc[n] = "alloc"
        /\ p.to <= MaxId
        /\ plan' = [plan EXCEPT ![n] = p]
        /\ dirty' = [dirty EXCEPT ![n] = {}]
        /\ pc' = [pc EXCEPT ![n] = "allocCommit"]
        /\ UNCHANGED <<deployment, batches, stored, loading, next, to, want,
                       issued, reissued>>

NoConflict(n) == WriteSet(plan[n]) \cap dirty[n] = {}

EndAllocation(n) == plan' = [plan EXCEPT ![n] = NoPlan]

\* The allocation commits.  Sequence::load is done and Sequence::next begins, or
\* Sequence::next goes on with the first id of the batch.
CommitAllocation(n) ==
    /\ pc[n] = "allocCommit"
    /\ NoConflict(n)
    /\ ApplyPlan(n)
    /\ EndAllocation(n)
    /\ \/ /\ ~loading[n]
          /\ TakeId(n, plan[n].from, plan[n].to)
       \/ /\ loading[n]
          /\ next' = [next EXCEPT ![n] = plan[n].from]
          /\ to' = [to EXCEPT ![n] = plan[n].to]
          /\ pc' = [pc EXCEPT ![n] = "serve"]
    /\ loading' = [loading EXCEPT ![n] = FALSE]
    /\ UNCHANGED <<deployment, stored, want, issued, reissued>>

\* The attempt fails (a conflict or any other error) and is retried; its commit
\* may have taken effect all the same.
RetryAllocation(n) ==
    /\ pc[n] = "allocCommit"
    /\ \/ /\ UNCHANGED batches
          /\ dirty' = [dirty EXCEPT ![n] = {}]
       \/ /\ "ambiguous" \in deployment.faults
          /\ NoConflict(n)
          /\ ApplyPlan(n)
    /\ EndAllocation(n)
    /\ pc' = [pc EXCEPT ![n] = "alloc"]
    /\ UNCHANGED <<deployment, stored, loading, next, to, want, issued, reissued>>

\* find_batch_allocation gives up between two attempts (query or sequence
\* timeout); a load that fails leaves nothing in the cache.
TimeoutAllocation(n) ==
    /\ pc[n] = "alloc"
    /\ pc' = [pc EXCEPT ![n] = IF loading[n] THEN "out" ELSE "ready"]
    /\ loading' = [loading EXCEPT ![n] = FALSE]
    /\ UNCHANGED <<deployment, batches, stored, next, to, want, plan, dirty,
                   issued, reissued>>

\* The state is saved and the id returned.
PersistState(n) ==
    LET v == next[n] - 1
    IN  /\ pc[n] = "persist"
        /\ stored' = [stored EXCEPT ![n] = next[n]]
        /\ issued' = issued \cup {v}
        /\ reissued' = reissued \cup ({v} \cap issued)
        /\ pc' = [pc EXCEPT ![n] = "ready"]
        /\ UNCHANGED <<deployment, batches, loading, next, to, want, plan, dirty>>

\* Saving the state fails: the caller gets an error, st.next stays advanced.
PersistFails(n) ==
    /\ pc[n] = "persist"
    /\ \/ UNCHANGED stored
       \/ /\ "ambiguous" \in deployment.faults
          /\ stored' = [stored EXCEPT ![n] = next[n]]
    /\ pc' = [pc EXCEPT ![n] = "ready"]
    /\ UNCHANGED <<deployment, batches, loading, next, to, want, plan, dirty,
                   issued, reissued>>

\* The process dies.  With a stable node id it comes back with an empty cache.
Crash(n) ==
    /\ pc[n] # "gone"
    /\ pc' = [pc EXCEPT ![n] =
                 IF "restart" \in deployment.faults THEN "out" ELSE "gone"]
    /\ loading' = [loading EXCEPT ![n] = FALSE]
    /\ next' = [next EXCEPT ![n] = 0]
    /\ to' = [to EXCEPT ![n] = 0]
    /\ dirty' = [dirty EXCEPT ![n] = {}]
    /\ EndAllocation(n)
    /\ UNCHANGED <<deployment, batches, stored, want, issued, reissued>>

Next ==
    \E n \in Node :
        \/ Load(n) \/ NextVal(n) \/ Serve(n)
        \/ BeginAllocation(n) \/ CommitAllocation(n) \/ RetryAllocation(n)
        \/ TimeoutAllocation(n) \/ PersistState(n) \/ PersistFails(n)
        \/ Crash(n)

Spec == Init /\ [][Next]_vars

----------------------------------------------------------------------------
\* SequenceState "is persisted to coordinate with batch allocations and ensure
\* no ID is used twice": no id is returned by two calls, on any nodes, and none
\* that the catalog already held when the sequence was first used.
UniqueIds ==
    /\ reissued = {}
    /\ \A i \in issued : i >= FirstFree

\* The node has a Sequence in its cache (a request in Sequence::next included).
Cached(n) ==
    \/ pc[n] \in {"serve", "persist", "ready"}
    \/ pc[n] \in {"alloc", "allocCommit"} /\ ~loading[n]

\* What a node still hands out of memory is reserved for it in the store: it lies
\* within a batch the node owns and in no batch of another, so the check made when
\* the batch was taken is still good when its ids are used.  Only a node that came
\* back to a position it had not saved, or took a commit for failed, may begin below
\* its batch (check_batch_allocation compares the position with the end alone).
RangeReserved ==
    \A n \in Node : Cached(n) =>
        \A i \in next[n]..(to[n] - 1) :
            /\ \E b \in batches : /\ b.owner = n /\ i < b.to
                                  /\ deployment.faults = {} => b.from <= i
            /\ \A b \in batches : b.owner # n => ~(b.from <= i /\ i < b.to)

\* The allocation frontier never moves back although every node deletes its
\* used-up batches: ids below it stay taken.
FrontierAdvances ==
    [][batches # {} => \A b \in batches : \E c \in batches' : b.to <= c.to]_vars
=============================================================================

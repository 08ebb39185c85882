-------------------------- MODULE IdSequenceProofs --------------------------
(***************************************************************************)
(* No id is issued twice, for any number of nodes, any batch size but zero  *)
(* and any start, as long as nodes do not reuse their ids after a crash; and *)
(* on a single node, whatever happens to it.                                *)
(*                                                                         *)
(* Several nodes (IInv): stored batches never overlap; an allocation that   *)
(* commits saw the current batches (any other commit in between wrote the   *)
(* very key it writes, because both put their batch right after the highest *)
(* one); so a new batch starts above every id handed out, and what a node   *)
(* still has in memory is the rest of its only batch.                       *)
(*                                                                         *)
(* One node (SInv): what it goes on with is never below its saved position, *)
(* which is above every id it returned.                                     *)
(***************************************************************************)
EXTENDS IdSequence, TLAPS

\* Nodes get a new id each time they start and a failed commit had no effect.
FreshIds == deployment.faults = {}

\* One node, which may restart with its id and see ambiguous commits.
SingleNode == \A m, n \in deployment.nodes : m = n

\* The deployments of which the theorems speak: any number of nodes with new ids
\* and batches that are not empty, or a single node.
Supported ==
    \A d \in Deployment :
        \/ d.faults = {} /\ Batch > 0
        \/ \A m, n \in d.nodes : m = n

\* The lowest id the node may still return: the one being saved, or next.
Low(n) == IF pc[n] = "persist" THEN next[n] - 1 ELSE next[n]

Allocating(n) == pc[n] \in {"alloc", "allocCommit"}

BatchesOk ==
    /\ \A b \in batches : b.from < b.to /\ b.from >= FirstFree
    /\ \A b, c \in batches : b # c => b.to <= c.from \/ c.to <= b.from
    /\ batches # {} => \E t \in batches : \A b \in batches : b.to <= t.to

\* A node that is loading never allocated before: its id is new.
LoadingOk ==
    \A n \in Node :
        /\ loading[n] => Allocating(n)
        /\ pc[n] = "out" \/ loading[n] =>
              stored[n] = NoState /\ OwnBatches(n, batches) = {}

\* What a node has in memory is the rest of its one batch.
MemoryOk ==
    \A n \in Node : Cached(n) =>
        /\ next[n] <= to[n]
        /\ Allocating(n) => next[n] = to[n] /\ want[n] = next[n]
        /\ \E b \in batches : /\ OwnBatches(n, batches) = {b}
                              /\ b.to = to[n] /\ b.from <= Low(n)

WantOk ==
    \A n \in Node : Allocating(n) =>
        want[n] = FirstFree \/ \E b \in batches : want[n] <= b.to

IssuedOk ==
    /\ reissued = {}
    /\ \A i \in issued :
          /\ i >= FirstFree
          /\ \E b \in batches : i < b.to
          /\ \A n \in Node : Cached(n) => i < Low(n) \/ to[n] <= i

\* The batch an open transaction is going to put: right after the highest batch,
\* or else the transaction already conflicts.
Frontier(f, S) ==
    /\ f >= FirstFree
    /\ \A b \in S : b.to <= f
    /\ S = {} => f = FirstFree
    /\ S # {} => \E b \in S : b.to = f

PlanOk ==
    \A n \in Node : pc[n] = "allocCommit" =>
        /\ plan[n].put = {[from |-> plan[n].from, to |-> plan[n].to, owner |-> n]}
        /\ plan[n].to = plan[n].from + Batch
        /\ dirty[n] = {} => plan[n].del = OwnBatches(n, batches)
                              /\ Frontier(plan[n].from, batches)
        /\ dirty[n] # {} => plan[n].from \in dirty[n]

IInv == TypeOK /\ BatchesOk /\ LoadingOk /\ MemoryOk /\ WantOk /\ IssuedOk /\ PlanOk

\* seed_start_from_catalog's lower bound is an id.
LEMMA FirstFreeType == FirstFree \in Int
BY IdSequenceAssumption DEF FirstFree

\* The scan of check_batch_allocation computes the highest upper bound.
LEMMA HighWaterTop ==
    ASSUME NEW S \in SUBSET BatchType, NEW w \in Int, NEW t \in S,
           \A b \in S : b.to <= t.to, w <= t.to
    PROVE  HighWater(w, S) = t.to
<1> DEFINE T == {w} \cup {b.to : b \in S}
<1>1. t.to \in T /\ \A y \in T : t.to >= y
  BY DEF BatchType
<1>2. T \subseteq Int
  BY DEF BatchType
<1>3. ASSUME NEW x \in T, \A y \in T : x >= y PROVE x = t.to
  BY <1>1, <1>2, <1>3
<1> QED
  BY <1>1, <1>3 DEF HighWater, Max

\* With no batch stored the new batch starts at the id asked for.
LEMMA HighWaterEmpty == ASSUME NEW w \in Int PROVE HighWater(w, {}) = w
<1>1. {w} \cup {b.to : b \in {}} = {w}
  OBVIOUS
<1>2. \A x \in {w} : (\A y \in {w} : x >= y) <=> x = w
  OBVIOUS
<1> QED
  BY <1>1, <1>2 DEF HighWater, Max

\* The invariant holds before the sequence is first used.
LEMMA InitIInv == Init => IInv
<1> SUFFICES ASSUME Init PROVE IInv
  OBVIOUS
<1> USE IdSequenceAssumption, FirstFreeType
<1>1. TypeOK
  BY DEF Init, TypeOK, NoPlan, PlanType, BatchType
<1>2. BatchesOk /\ LoadingOk /\ WantOk /\ IssuedOk
  BY DEF Init, BatchesOk, LoadingOk, WantOk, IssuedOk, Allocating, OwnBatches
<1>3. MemoryOk /\ PlanOk
  BY DEF Init, MemoryOk, PlanOk, Cached
<1> QED BY <1>1, <1>2, <1>3 DEF IInv
\* The invariant survives Load: Sequence::load starts.
LEMMA LoadStep == ASSUME IInv, NEW n \in Node, Load(n) PROVE IInv'
<1> USE IdSequenceAssumption, FirstFreeType DEF IInv, TypeOK, Low, Allocating, Cached
<1>0. TypeOK'
  BY DEF Load, PlanType
<1>1. BatchesOk'
  BY DEF Load, BatchesOk
<1>2. LoadingOk'
  BY DEF Load, LoadingOk, OwnBatches
<1>3. MemoryOk'
  BY DEF Load, MemoryOk, OwnBatches
<1>4. WantOk'
  <2>1. want'[n] = FirstFree \/ \E i \in issued : want'[n] = i + 1
    BY DEF Load, LoadingOk
  <2>2. want'[n] = FirstFree \/ \E b \in batches : want'[n] <= b.to
    BY <2>1 DEF IssuedOk, BatchType
  <2> QED
    BY <2>2 DEF Load, WantOk
<1>5. IssuedOk'
  BY DEF Load, IssuedOk, MemoryOk
<1>6. PlanOk'
  BY DEF Load, PlanOk, OwnBatches, Frontier
<1> QED BY <1>0, <1>1, <1>2, <1>3, <1>4, <1>5, <1>6

\* The invariant survives NextVal: next_val finds the cached sequence.
LEMMA NextValStep == ASSUME IInv, NEW n \in Node, NextVal(n) PROVE IInv'
<1> USE IdSequenceAssumption, FirstFreeType DEF IInv, TypeOK, Low, Allocating, Cached
<1>0. TypeOK'
  BY DEF NextVal, PlanType
<1>1. BatchesOk'
  BY DEF NextVal, BatchesOk
<1>2. LoadingOk'
  BY DEF NextVal, LoadingOk, OwnBatches
<1>3. MemoryOk'
  BY DEF NextVal, MemoryOk, OwnBatches
<1>4. WantOk'
  BY DEF NextVal, WantOk, MemoryOk, IssuedOk
<1>5. IssuedOk'
  BY DEF NextVal, IssuedOk, MemoryOk
<1>6. PlanOk'
  BY DEF NextVal, PlanOk, OwnBatches, Frontier
<1> QED BY <1>0, <1>1, <1>2, <1>3, <1>4, <1>5, <1>6

\* The invariant survives Serve: Sequence::next decides.
LEMMA ServeStep == ASSUME IInv, NEW n \in Node, Serve(n) PROVE IInv'
<1> USE IdSequenceAssumption, FirstFreeType DEF IInv, TypeOK, Low, Allocating, Cached
<1>0. TypeOK'
  BY DEF Serve, TakeId, PlanType
<1>1. BatchesOk'
  BY DEF Serve, TakeId, BatchesOk
<1>2. LoadingOk'
  BY DEF Serve, TakeId, LoadingOk, OwnBatches
<1>3. MemoryOk'
  BY DEF Serve, TakeId, MemoryOk, OwnBatches
<1>4. WantOk'
  BY DEF Serve, TakeId, WantOk, MemoryOk, IssuedOk
<1>5. IssuedOk'
  BY DEF Serve, TakeId, IssuedOk, MemoryOk
<1>6. PlanOk'
  BY DEF Serve, TakeId, PlanOk, OwnBatches, Frontier
<1> QED BY <1>0, <1>1, <1>2, <1>3, <1>4, <1>5, <1>6

\* The invariant survives RetryAllocation: a failed attempt has no effect.
LEMMA RetryAllocationStep ==
    ASSUME IInv, FreshIds, NEW n \in Node, RetryAllocation(n) PROVE IInv'
<1> USE IdSequenceAssumption, FirstFreeType DEF IInv, TypeOK, Low, Allocating, Cached
<1>0. TypeOK'
  BY DEF RetryAllocation, EndAllocation, NoPlan, FreshIds, DeploymentType, PlanType
<1>1. BatchesOk'
  BY DEF RetryAllocation, EndAllocation, NoPlan, FreshIds, DeploymentType, BatchesOk
<1>2. LoadingOk'
  BY DEF RetryAllocation, EndAllocation, NoPlan, FreshIds, DeploymentType,
         LoadingOk, OwnBatches
<1>3. MemoryOk'
  BY DEF RetryAllocation, EndAllocation, NoPlan, FreshIds, DeploymentType, MemoryOk, OwnBatches
<1>4. WantOk'
  BY DEF RetryAllocation, EndAllocation, NoPlan, FreshIds, DeploymentType,
         WantOk, MemoryOk, IssuedOk
<1>5. IssuedOk'
  BY DEF RetryAllocation, EndAllocation, NoPlan, FreshIds, DeploymentType, IssuedOk, MemoryOk
<1>6. PlanOk'
  BY DEF RetryAllocation, EndAllocation, NoPlan, FreshIds, DeploymentType,
         PlanOk, OwnBatches, Frontier
<1> QED BY <1>0, <1>1, <1>2, <1>3, <1>4, <1>5, <1>6

\* The invariant survives TimeoutAllocation: giving up has no effect.
LEMMA TimeoutAllocationStep == ASSUME IInv, NEW n \in Node, TimeoutAllocation(n) PROVE IInv'
<1> USE IdSequenceAssumption, FirstFreeType DEF IInv, TypeOK, Low, Allocating, Cached
<1>0. TypeOK'
  BY DEF TimeoutAllocation, PlanType
<1>1. BatchesOk'
  BY DEF TimeoutAllocation, BatchesOk
<1>2. LoadingOk'
  BY DEF TimeoutAllocation, LoadingOk, OwnBatches
<1>3. MemoryOk'
  BY DEF TimeoutAllocation, MemoryOk, OwnBatches
<1>4. WantOk'
  BY DEF TimeoutAllocation, WantOk, MemoryOk, IssuedOk
<1>5. IssuedOk'
  BY DEF TimeoutAllocation, IssuedOk, MemoryOk
<1>6. PlanOk'
  BY DEF TimeoutAllocation, PlanOk, OwnBatches, Frontier
<1> QED BY <1>0, <1>1, <1>2, <1>3, <1>4, <1>5, <1>6

\* The invariant survives PersistFails: an unsaved id is skipped.
LEMMA PersistFailsStep == ASSUME IInv, FreshIds, NEW n \in Node, PersistFails(n) PROVE IInv'
<1> USE IdSequenceAssumption, FirstFreeType DEF IInv, TypeOK, Low, Allocating, Cached
<1>0. TypeOK'
  BY DEF PersistFails, FreshIds, DeploymentType, PlanType
<1>1. BatchesOk'
  BY DEF PersistFails, FreshIds, DeploymentType, BatchesOk
<1>2. LoadingOk'
  BY DEF PersistFails, FreshIds, DeploymentType, LoadingOk, OwnBatches
<1>3. MemoryOk'
  <2> SUFFICES ASSUME NEW m \in Node, Cached(m)'
               PROVE  /\ next'[m] <= to'[m]
                      /\ Allocating(m)' => next'[m] = to'[m] /\ want'[m] = next'[m]
                      /\ \E b \in batches' : /\ OwnBatches(m, batches')= {b}
                                             /\ b.to = to'[m] /\ b.from <= Low(m)'
    BY DEF MemoryOk
  <2>1. Cached(m) /\ Low(m) <= Low(m)'
    BY DEF PersistFails
  <2>2. PICK b \in batches : /\ OwnBatches(m, batches) = {b}
                             /\ b.to = to[m] /\ b.from <= Low(m)
    BY <2>1 DEF MemoryOk
  <2>3. b.from <= Low(m)'
    BY <2>1, <2>2 DEF PersistFails, BatchType
  <2> QED
    BY <2>1, <2>2, <2>3 DEF PersistFails, MemoryOk
<1>4. WantOk'
  BY DEF PersistFails, FreshIds, DeploymentType, WantOk, MemoryOk, IssuedOk
<1>5. IssuedOk'
  BY DEF PersistFails, FreshIds, DeploymentType, IssuedOk, MemoryOk
<1>6. PlanOk'
  BY DEF PersistFails, FreshIds, DeploymentType, PlanOk, OwnBatches, Frontier
<1> QED BY <1>0, <1>1, <1>2, <1>3, <1>4, <1>5, <1>6

\* The invariant survives Crash: the node is gone.
LEMMA CrashStep == ASSUME IInv, FreshIds, NEW n \in Node, Crash(n) PROVE IInv'
<1> USE IdSequenceAssumption, FirstFreeType DEF IInv, TypeOK, Low, Allocating, Cached
<1>0. TypeOK'
  BY DEF Crash, EndAllocation, NoPlan, FreshIds, DeploymentType, PlanType
<1>1. BatchesOk'
  BY DEF Crash, EndAllocation, NoPlan, FreshIds, DeploymentType, BatchesOk
<1>2. LoadingOk'
  BY DEF Crash, EndAllocation, NoPlan, FreshIds, DeploymentType, LoadingOk, OwnBatches
<1>3. MemoryOk'
  BY DEF Crash, EndAllocation, NoPlan, FreshIds, DeploymentType, MemoryOk, OwnBatches
<1>4. WantOk'
  BY DEF Crash, EndAllocation, NoPlan, FreshIds, DeploymentType, WantOk, MemoryOk, IssuedOk
<1>5. IssuedOk'
  BY DEF Crash, EndAllocation, NoPlan, FreshIds, DeploymentType, IssuedOk, MemoryOk
<1>6. PlanOk'
  BY DEF Crash, EndAllocation, NoPlan, FreshIds, DeploymentType, PlanOk, OwnBatches, Frontier
<1> QED BY <1>0, <1>1, <1>2, <1>3, <1>4, <1>5, <1>6

\* The invariant survives PersistState: the id returned was nobody's before, and is
\* no other node's to return later, because batches do not overlap.
LEMMA PersistStateStep == ASSUME IInv, NEW n \in Node, PersistState(n) PROVE IInv'
<1> USE IdSequenceAssumption, FirstFreeType DEF IInv, TypeOK, Low, Allocating, Cached
<1> DEFINE v == next[n] - 1
<1>0. TypeOK'
  <2>0. v \in Int /\ issued' = issued \cup {v}
           /\ reissued' = reissued \cup ({v} \cap issued)
    BY DEF PersistState
  <2>1. issued' \in SUBSET Int /\ reissued' \in SUBSET Int
    <3> HIDE DEF v
    <3> QED BY <2>0
  <2>2. stored' \in [Node -> Int \cup {NoState}]
    BY DEF PersistState
  <2> QED
    BY <2>1, <2>2 DEF PersistState
<1>a. PICK b \in batches : /\ OwnBatches(n, batches) = {b}
                           /\ b.to = to[n] /\ b.from <= v /\ v < b.to
  BY DEF PersistState, MemoryOk, BatchType
<1>b. v \notin issued /\ v >= FirstFree
  BY <1>a DEF PersistState, IssuedOk, BatchesOk, BatchType
<1>1. BatchesOk'
  BY DEF PersistState, BatchesOk
<1>2. LoadingOk'
  BY DEF PersistState, LoadingOk, OwnBatches
<1>3. MemoryOk'
  <2> SUFFICES ASSUME NEW m \in Node, Cached(m)'
               PROVE  /\ next'[m] <= to'[m]
                      /\ Allocating(m)' => next'[m] = to'[m] /\ want'[m] = next'[m]
                      /\ \E c \in batches' : /\ OwnBatches(m, batches')= {c}
                                             /\ c.to = to'[m] /\ c.from <= Low(m)'
    BY DEF MemoryOk
  <2>1. Cached(m) /\ Low(m) <= Low(m)'
    BY DEF PersistState
  <2>2. PICK c \in batches : /\ OwnBatches(m, batches) = {c}
                             /\ c.to = to[m] /\ c.from <= Low(m)
    BY <2>1 DEF MemoryOk
  <2>3. c.from <= Low(m)'
    BY <2>1, <2>2 DEF PersistState, BatchType
  <2> QED
    BY <2>1, <2>2, <2>3 DEF PersistState, MemoryOk
<1>4. WantOk'
  BY DEF PersistState, WantOk
<1>5. IssuedOk'
  <2>1. reissued' = {}
    BY <1>b DEF PersistState, IssuedOk
  <2>2. ASSUME NEW m \in Node, Cached(m)' PROVE v < Low(m)' \/ to'[m] <= v
    <3>1. CASE m = n
      BY <3>1 DEF PersistState
    <3>2. CASE m # n
      <4>1. Cached(m) /\ Low(m)' = Low(m) /\ to'[m] = to[m]
        BY <2>2, <3>2 DEF PersistState
      <4>2. PICK c \in batches : /\ OwnBatches(m, batches) = {c}
                                 /\ c.to = to[m] /\ c.from <= Low(m)
        BY <4>1 DEF MemoryOk
      <4>3. c # b
        BY <1>a, <4>2, <3>2 DEF OwnBatches
      <4>4. b.to <= c.from \/ c.to <= b.from
        BY <4>3 DEF BatchesOk
      <4>5. v \in Int /\ Low(m) \in Int /\ b.from \in Int /\ b.to \in Int
               /\ c.from \in Int /\ c.to \in Int
        BY DEF BatchType
      <4>6. v < Low(m) \/ to[m] <= v
        <5> HIDE DEF v, Low
        <5> QED BY <1>a, <4>2, <4>4, <4>5
      <4> QED
        BY <4>1, <4>6
    <3> QED
      BY <3>1, <3>2
  <2>3. ASSUME NEW i \in issued, NEW m \in Node, Cached(m)'
        PROVE  i < Low(m)' \/ to'[m] <= i
    BY <2>3 DEF PersistState, IssuedOk
  <2>4. issued' = issued \cup {v} /\ batches' = batches
    BY DEF PersistState
  <2>5. \A i \in issued : i >= FirstFree /\ \E c \in batches : i < c.to
    BY DEF IssuedOk
  <2> QED
    BY <1>a, <1>b, <2>1, <2>2, <2>3, <2>4, <2>5 DEF IssuedOk
<1>6. PlanOk'
  BY DEF PersistState, PlanOk, OwnBatches, Frontier
<1> QED BY <1>0, <1>1, <1>2, <1>3, <1>4, <1>5, <1>6

\* check_batch_allocation never finds an own batch to go on with while node ids are
\* new: it plans a batch at the allocation frontier.
LEMMA AllocationPlan ==
    ASSUME IInv, NEW n \in Node, pc[n] = "alloc"
    PROVE  LET f == HighWater(want[n], batches)
           IN  /\ CheckBatchAllocation(n, want[n], batches) = NewBatch(n, want[n], batches)
               /\ Frontier(f, batches) /\ f \in Int
<1> USE IdSequenceAssumption, FirstFreeType DEF IInv, TypeOK
<1>1. \A b \in OwnBatches(n, batches) : ~(want[n] < b.to)
  <2>1. CASE loading[n]
    BY <2>1 DEF LoadingOk
  <2>2. CASE ~loading[n]
    <3>1. PICK b \in batches : OwnBatches(n, batches) = {b} /\ b.to = to[n]
                                  /\ want[n] = to[n]
      BY <2>2 DEF MemoryOk, Cached, Allocating
    <3> QED
      BY <3>1 DEF BatchType
  <2> QED BY <2>1, <2>2
<1>2. CheckBatchAllocation(n, want[n], batches) = NewBatch(n, want[n], batches)
  BY <1>1 DEF CheckBatchAllocation
<1>3. want[n] \in Int
  OBVIOUS
<1>4. CASE batches = {}
  BY <1>2, <1>3, <1>4, HighWaterEmpty DEF WantOk, Allocating, Frontier
<1>5. CASE batches # {}
  <2>1. PICK t \in batches : \A b \in batches : b.to <= t.to
    BY <1>5 DEF BatchesOk
  <2>2. want[n] <= t.to /\ t.to \in Int /\ FirstFree <= t.to
    BY <2>1 DEF WantOk, Allocating, BatchesOk, BatchType
  <2>3. HighWater(want[n], batches) = t.to
    BY <2>1, <2>2, HighWaterTop
  <2> QED
    BY <1>2, <1>5, <2>1, <2>2, <2>3 DEF Frontier
<1> QED BY <1>4, <1>5

\* The invariant survives BeginAllocation.
LEMMA BeginAllocationStep ==
    ASSUME IInv, NEW n \in Node, BeginAllocation(n) PROVE IInv'
<1> USE IdSequenceAssumption, FirstFreeType DEF IInv, TypeOK, Low, Allocating, Cached
<1> DEFINE f == HighWater(want[n], batches)
<1>a. /\ plan' = [plan EXCEPT ![n] = NewBatch(n, want[n], batches)]
      /\ Frontier(f, batches) /\ f \in Int
  BY AllocationPlan DEF BeginAllocation
<1>b. /\ NewBatch(n, want[n], batches).from = f
      /\ NewBatch(n, want[n], batches).to = f + Batch
      /\ NewBatch(n, want[n], batches).put = {[from |-> f, to |-> f + Batch, owner |-> n]}
      /\ NewBatch(n, want[n], batches).del = OwnBatches(n, batches)
      /\ NewBatch(n, want[n], batches) \in PlanType
  BY <1>a DEF NewBatch, PlanType, BatchType, OwnBatches
<1>0. TypeOK'
  BY <1>a, <1>b DEF BeginAllocation
<1>1. BatchesOk'
  BY DEF BeginAllocation, BatchesOk
<1>2. LoadingOk'
  BY DEF BeginAllocation, LoadingOk, OwnBatches
<1>3. MemoryOk'
  BY DEF BeginAllocation, MemoryOk, OwnBatches
<1>4. WantOk'
  BY DEF BeginAllocation, WantOk
<1>5. IssuedOk'
  BY DEF BeginAllocation, IssuedOk
<1>6. PlanOk'
  <2> SUFFICES ASSUME NEW m \in Node, pc'[m] = "allocCommit"
        PROVE  /\ plan'[m].put = {[from |-> plan'[m].from, to |-> plan'[m].to, owner |-> m]}
               /\ plan'[m].to = plan'[m].from + Batch
               /\ dirty'[m] = {} => plan'[m].del = OwnBatches(m, batches')
                                       /\ Frontier(plan'[m].from, batches')
               /\ dirty'[m] # {} => plan'[m].from \in dirty'[m]
    BY DEF PlanOk
  <2>1. batches' = batches
    BY DEF BeginAllocation
  <2>2. CASE m = n
    BY <1>a, <1>b, <2>1, <2>2 DEF BeginAllocation, Frontier, OwnBatches
  <2>3. CASE m # n
    BY <2>1, <2>3 DEF BeginAllocation, PlanOk, Frontier, OwnBatches
  <2> QED BY <2>2, <2>3
<1> QED BY <1>0, <1>1, <1>2, <1>3, <1>4, <1>5, <1>6

\* An allocation that commits replaces the node's own batches by one at the
\* frontier of the current batches; any other commit since its snapshot would
\* have taken the key it writes.
LEMMA CommitPlan ==
    ASSUME IInv, NEW n \in Node, pc[n] = "allocCommit", NoConflict(n), ApplyPlan(n)
    PROVE  LET new == [from |-> plan[n].from, to |-> plan[n].to, owner |-> n]
           IN  /\ dirty[n] = {}
               /\ plan[n].del = OwnBatches(n, batches)
               /\ Frontier(plan[n].from, batches)
               /\ plan[n].to = plan[n].from + Batch
               /\ plan[n].from \in WriteSet(plan[n])
               /\ new \in BatchType
               /\ batches' = (batches \ OwnBatches(n, batches)) \cup {new}
<1> USE IdSequenceAssumption, FirstFreeType DEF IInv, TypeOK
<1> DEFINE new == [from |-> plan[n].from, to |-> plan[n].to, owner |-> n]
<1>1. plan[n] \in PlanType /\ plan[n].put = {new} /\ plan[n].to = plan[n].from + Batch
  BY DEF PlanOk
<1>2. plan[n].from \in Int /\ new \in BatchType
  BY <1>1 DEF PlanType, BatchType
<1>3. plan[n].from \in WriteSet(plan[n])
  <2>1. new \in plan[n].put \cup plan[n].del /\ new.from = plan[n].from
    BY <1>1
  <2> HIDE DEF new
  <2> QED BY <2>1 DEF WriteSet
<1>4. dirty[n] = {}
  BY <1>3 DEF PlanOk, NoConflict
<1>5. plan[n].del = OwnBatches(n, batches) /\ Frontier(plan[n].from, batches)
  BY <1>4 DEF PlanOk
<1>6. WriteSet(plan[n]) = {plan[n].from} \cup {b.from : b \in OwnBatches(n, batches)}
  <2>1. /\ plan[n].put \cup plan[n].del = {new} \cup OwnBatches(n, batches)
        /\ new.from = plan[n].from
    BY <1>1, <1>5
  <2>2. WriteSet(plan[n]) = {b.from : b \in {new} \cup OwnBatches(n, batches)}
    BY <2>1 DEF WriteSet
  <2> HIDE DEF new
  <2> QED BY <2>1, <2>2
<1>7. ASSUME NEW b \in batches
      PROVE  b.from \notin WriteSet(plan[n]) <=> b \notin OwnBatches(n, batches)
  <2>1. b.from # plan[n].from
    BY <1>2, <1>5 DEF Frontier, BatchesOk, BatchType
  <2>2. ASSUME NEW c \in batches, c.from = b.from PROVE c = b
    BY <2>2 DEF BatchesOk, BatchType
  <2> QED
    BY <1>6, <2>1, <2>2 DEF OwnBatches
<1>8. batches' = (batches \ OwnBatches(n, batches)) \cup {new}
  BY <1>1, <1>7 DEF ApplyPlan
<1> QED
  BY <1>1, <1>2, <1>3, <1>4, <1>5, <1>8

\* The invariant survives CommitAllocation.
LEMMA CommitAllocationStep ==
    ASSUME IInv, Batch > 0, NEW n \in Node, CommitAllocation(n) PROVE IInv'
<1> USE IdSequenceAssumption, FirstFreeType DEF IInv, TypeOK
<1> DEFINE f == plan[n].from
           new == [from |-> f, to |-> plan[n].to, owner |-> n]
<1>a. /\ dirty[n] = {} /\ plan[n].del = OwnBatches(n, batches)
      /\ Frontier(f, batches) /\ plan[n].to = f + Batch
      /\ f \in WriteSet(plan[n]) /\ new \in BatchType
      /\ batches' = (batches \ OwnBatches(n, batches)) \cup {new}
  BY CommitPlan DEF CommitAllocation
<1>b. f \in Int /\ plan[n].to \in Int /\ f < plan[n].to
  BY <1>a DEF BatchType
<1>c. new \in batches' /\ new.from = f /\ new.to = plan[n].to /\ new.owner = n
  BY <1>a
<1>d. OwnBatches(n, batches') = {new}
  BY <1>a, <1>c DEF OwnBatches
<1>e. \A m \in Node : m # n => OwnBatches(m, batches') = OwnBatches(m, batches)
  BY <1>a, <1>c DEF OwnBatches
<1>g. \A b \in batches : b.to < new.to
  BY <1>a, <1>b, <1>c DEF Frontier, BatchType
<1>0. TypeOK'
  <2>1. batches' \subseteq BatchType
    BY <1>a
  <2>2. dirty' \in [Node -> SUBSET Int]
    <3>1. WriteSet(plan[n]) \subseteq Int
      BY DEF WriteSet, PlanType, BatchType
    <3> QED
      BY <3>1 DEF CommitAllocation, ApplyPlan
  <2>3. plan' \in [Node -> PlanType]
    BY DEF CommitAllocation, EndAllocation, NoPlan, PlanType
  <2>4. next' \in [Node -> Int] /\ to' \in [Node -> Int]
    BY <1>b DEF CommitAllocation, TakeId
  <2>5. loading' \in [Node -> BOOLEAN]
    BY DEF CommitAllocation
  <2>6. pc' \in [Node -> {"out", "serve", "alloc", "allocCommit", "persist",
                          "ready", "gone"}]
    BY DEF CommitAllocation, TakeId
  <2> QED
    BY <2>1, <2>2, <2>3, <2>4, <2>5, <2>6 DEF CommitAllocation
<1>1. BatchesOk'
  <2>1. \A b \in batches' : b.from < b.to /\ b.from >= FirstFree
    BY <1>a, <1>b, <1>c DEF BatchesOk, Frontier
  <2>2. \A b, c \in batches' : b # c => b.to <= c.from \/ c.to <= b.from
    BY <1>a, <1>c DEF BatchesOk, Frontier
  <2>3. \A b \in batches' : b.to <= new.to
    BY <1>a, <1>b, <1>c, <1>g DEF BatchType
  <2> QED
    BY <1>c, <2>1, <2>2, <2>3 DEF BatchesOk
<1>2. LoadingOk'
  BY <1>e DEF CommitAllocation, TakeId, LoadingOk, Allocating
<1>3. MemoryOk'
  <2> SUFFICES ASSUME NEW m \in Node, Cached(m)'
               PROVE  /\ next'[m] <= to'[m]
                      /\ Allocating(m)' => next'[m] = to'[m] /\ want'[m] = next'[m]
                      /\ \E c \in batches' : /\ OwnBatches(m, batches')= {c}
                                             /\ c.to = to'[m] /\ c.from <= Low(m)'
    BY DEF MemoryOk
  <2>1. CASE m = n
    <3>1. /\ to'[n] = plan[n].to /\ Low(n)' = f /\ next'[n] <= to'[n]
          /\ ~Allocating(n)'
      BY <1>a, <1>b DEF CommitAllocation, TakeId, Low, Allocating
    <3> QED
      BY <2>1, <3>1, <1>b, <1>c, <1>d
  <2>2. CASE m # n
    <3>1. /\ Cached(m) /\ next'[m] = next[m] /\ to'[m] = to[m] /\ want'[m] = want[m]
          /\ Low(m)' = Low(m) /\ Allocating(m)' = Allocating(m)
      BY <2>2 DEF CommitAllocation, TakeId, Low, Allocating, Cached
    <3>2. PICK c \in batches : /\ OwnBatches(m, batches) = {c}
                               /\ c.to = to[m] /\ c.from <= Low(m)
      BY <3>1 DEF MemoryOk
    <3>3. c \in batches' /\ OwnBatches(m, batches') = {c}
      BY <3>2, <1>e, <2>2, <1>a DEF OwnBatches
    <3> QED
      BY <3>1, <3>2, <3>3 DEF MemoryOk
  <2> QED BY <2>1, <2>2
<1>4. WantOk'
  <2> SUFFICES ASSUME NEW m \in Node, Allocating(m)'
               PROVE  want'[m] = FirstFree \/ \E b \in batches' : want'[m] <= b.to
    BY DEF WantOk
  <2>1. Allocating(m) /\ want'[m] = want[m]
    BY DEF CommitAllocation, TakeId, Allocating
  <2>2. CASE \E b \in batches : want[m] <= b.to
    <3>1. want[m] <= new.to
      BY <2>2, <1>b, <1>c, <1>g DEF BatchType
    <3> QED BY <2>1, <3>1, <1>c
  <2> QED BY <2>1, <2>2 DEF WantOk
<1>5. IssuedOk'
  <2>1. issued' = issued /\ reissued' = reissued
    BY DEF CommitAllocation
  <2> SUFFICES ASSUME NEW i \in issued
               PROVE  /\ i >= FirstFree
                      /\ \E b \in batches' : i < b.to
                      /\ \A m \in Node : Cached(m)' => i < Low(m)' \/ to'[m] <= i
    BY <2>1 DEF IssuedOk
  <2>2. i < f
    BY <1>a, <1>b DEF IssuedOk, Frontier, BatchType
  <2>3. i < new.to
    BY <2>2, <1>b, <1>c
  <2>4. ASSUME NEW m \in Node, Cached(m)' PROVE i < Low(m)' \/ to'[m] <= i
    <3>1. CASE m = n
      <4>1. Low(n)' = f
        BY <1>a, <1>b DEF CommitAllocation, TakeId, Low
      <4> QED BY <3>1, <4>1, <2>2
    <3>2. CASE m # n
      <4>1. Cached(m) /\ Low(m)' = Low(m) /\ to'[m] = to[m]
        BY <2>4, <3>2 DEF CommitAllocation, TakeId, Low, Cached
      <4> QED BY <4>1 DEF IssuedOk
    <3> QED BY <3>1, <3>2
  <2> QED BY <2>3, <2>4, <1>c DEF IssuedOk
<1>6. PlanOk'
  <2> SUFFICES ASSUME NEW m \in Node, pc'[m] = "allocCommit"
        PROVE  /\ plan'[m].put = {[from |-> plan'[m].from, to |-> plan'[m].to, owner |-> m]}
               /\ plan'[m].to = plan'[m].from + Batch
               /\ dirty'[m] # {} /\ plan'[m].from \in dirty'[m]
    BY DEF PlanOk
  <2>1. m # n /\ pc[m] = "allocCommit" /\ plan'[m] = plan[m]
           /\ dirty'[m] = dirty[m] \cup WriteSet(plan[n])
    BY DEF CommitAllocation, TakeId, ApplyPlan, EndAllocation
  <2>2. CASE dirty[m] # {}
    BY <2>1, <2>2 DEF PlanOk
  <2>3. CASE dirty[m] = {}
    <3>1. Frontier(plan[m].from, batches) /\ plan[m].from \in Int
      BY <2>1, <2>3 DEF PlanOk, PlanType
    <3>2. plan[m].from = f
      BY <1>a, <1>b, <3>1 DEF Frontier, BatchType
    <3> QED
      BY <2>1, <3>2, <1>a DEF PlanOk
  <2> QED BY <2>2, <2>3
<1> QED BY <1>0, <1>1, <1>2, <1>3, <1>4, <1>5, <1>6

\* The invariant survives every step.
LEMMA NextStep ==
    ASSUME IInv, FreshIds, Batch > 0, [Next]_vars PROVE IInv'
<1>1. CASE UNCHANGED vars
  BY <1>1 DEF vars, IInv, TypeOK, BatchesOk, LoadingOk, MemoryOk, WantOk, IssuedOk,
              PlanOk, Low, Allocating, Cached, OwnBatches
<1>2. ASSUME NEW n \in Node,
             \/ Load(n) \/ NextVal(n) \/ Serve(n)
             \/ BeginAllocation(n) \/ CommitAllocation(n) \/ RetryAllocation(n)
             \/ TimeoutAllocation(n) \/ PersistState(n) \/ PersistFails(n)
             \/ Crash(n)
      PROVE  IInv'
  BY <1>2, LoadStep, NextValStep, ServeStep, BeginAllocationStep,
     CommitAllocationStep, RetryAllocationStep, TimeoutAllocationStep,
     PersistStateStep, PersistFailsStep, CrashStep
<1> QED BY <1>1, <1>2 DEF Next

\* ------------------------------------------------------------------------
\* A single node.  Its saved position is above every id it returned, what it goes
\* on with is never below the saved position, and there is one batch at a time.
Reaches(n, i) == i >= FirstFree /\ (stored[n] # NoState => i >= stored[n])

RunningOk == \A n \in Node : pc[n] # "gone" => n \in deployment.nodes

OneBatch ==
    /\ \A b \in batches : b.owner \in deployment.nodes
    /\ \A b, c \in batches : b = c

SavedOk ==
    /\ reissued = {}
    /\ \A i \in issued : i >= FirstFree
    /\ \A n \in deployment.nodes :
          /\ stored[n] # NoState => stored[n] >= FirstFree
          /\ \A i \in issued : stored[n] # NoState /\ i < stored[n]

PositionOk ==
    \A n \in Node :
        /\ loading[n] => Allocating(n)
        /\ Allocating(n) => Reaches(n, want[n])
        /\ Cached(n) => Reaches(n, Low(n)) /\ \E b \in batches : to[n] <= b.to

OwnPlan ==
    \A n \in Node : pc[n] = "allocCommit" =>
        plan[n] = CheckBatchAllocation(n, want[n], batches)

SInv == TypeOK /\ RunningOk /\ OneBatch /\ SavedOk /\ PositionOk /\ OwnPlan
\* A batch for a request at or above every stored bound starts at the request.
LEMMA HighWaterNext ==
    ASSUME NEW S \in SUBSET BatchType, NEW w \in Int, \A b \in S : b.to <= w
    PROVE  HighWater(w, S) = w
<1> DEFINE T == {w} \cup {b.to : b \in S}
<1>1. w \in T /\ T \subseteq Int /\ \A y \in T : w >= y
  BY DEF BatchType
<1>2. ASSUME NEW x \in T, \A y \in T : x >= y PROVE x = w
  BY <1>1, <1>2
<1> QED
  BY <1>1, <1>2 DEF HighWater, Max

\* check_batch_allocation on a store that holds at most one batch, the node's own:
\* it goes on from the id asked for, in that batch or in a new one that replaces it.
LEMMA OwnAllocation ==
    ASSUME NEW n \in Node, NEW w \in Int, NEW S \in SUBSET BatchType,
           \A b \in S : b.owner = n, \A b, c \in S : b = c
    PROVE  LET p == CheckBatchAllocation(n, w, S)
           IN  /\ p \in PlanType /\ p.from = w
               /\ \E c \in BatchType :
                     /\ {b \in S : b.from \notin WriteSet(p)} \cup p.put = {c}
                     /\ c.owner = n /\ c.to = p.to
                     /\ \A b \in S : b.to <= c.to
<1> USE IdSequenceAssumption
<1> DEFINE p == CheckBatchAllocation(n, w, S)
           hits == {b \in OwnBatches(n, S) : w < b.to}
<1>1. OwnBatches(n, S) = S
  BY DEF OwnBatches
<1>2. CASE hits = {}
  <2> DEFINE new == [from |-> w, to |-> w + Batch, owner |-> n]
  <2>1. \A b \in S : b.to <= w
    BY <1>1, <1>2 DEF BatchType
  <2>2. HighWater(w, S) = w
    BY <2>1, HighWaterNext
  <2>3. p = [from |-> w, to |-> w + Batch, put |-> {new}, del |-> S]
    BY <1>1, <1>2, <2>2 DEF CheckBatchAllocation, NewBatch
  <2>4. new \in BatchType /\ p \in PlanType
    BY <2>3 DEF BatchType, PlanType
  <2>5. {b \in S : b.from \notin WriteSet(p)} \cup p.put = {new}
    BY <2>3 DEF WriteSet
  <2>6. \A b \in S : b.to <= new.to
    BY <2>1 DEF BatchType
  <2>7. new.owner = n /\ new.to = p.to /\ p.from = w
    BY <2>3
  <2> HIDE DEF new, p
  <2> QED
    BY <2>4, <2>5, <2>6, <2>7 DEF p
<1>3. CASE hits # {}
  <2>1. PICK h \in S : h \in hits
    BY <1>3 DEF OwnBatches
  <2>2. hits = {h} /\ S = {h} /\ h.from \in Int /\ h.to \in Int
    BY <2>1 DEF OwnBatches, BatchType
  <2>3. (CHOOSE b \in hits : \A c \in hits : b.from <= c.from) = h
    BY <2>2
  <2>4. p = ReuseBatch(n, w, S, h)
    BY <1>3, <2>3 DEF CheckBatchAllocation
  <2>5. {b \in OwnBatches(n, S) : b.to <= w /\ b.from < h.from} = {}
    BY <1>1, <2>2
  <2>6. p = [from |-> w, to |-> h.to, put |-> {}, del |-> {}]
    BY <2>4, <2>5 DEF ReuseBatch
  <2>7. WriteSet(p) = {}
    BY <2>6 DEF WriteSet
  <2> QED
    BY <2>2, <2>6, <2>7 DEF PlanType
<1> QED BY <1>2, <1>3

\* Of a single node, the one that takes a step is the one that stores anything.
LEMMA OneNode ==
    ASSUME SInv, SingleNode, NEW n \in Node, pc[n] # "gone"
    PROVE  /\ n \in deployment.nodes
           /\ \A m \in deployment.nodes : m = n
           /\ \A m \in Node : pc[m] # "gone" => m = n
           /\ \A b \in batches : b.owner = n
BY DEF SInv, SingleNode, RunningOk, OneBatch

\* The invariant holds before the sequence is first used.
LEMMA InitSInv == Init => SInv
<1> SUFFICES ASSUME Init PROVE SInv
  OBVIOUS
<1> USE IdSequenceAssumption, FirstFreeType
<1>1. TypeOK
  BY InitIInv DEF IInv
<1>2. RunningOk /\ OwnPlan
  BY DEF Init, RunningOk, OwnPlan
<1>4. OneBatch /\ SavedOk
  BY DEF Init, OneBatch, SavedOk, DeploymentType
<1>3. PositionOk
  BY DEF Init, PositionOk, Allocating, Cached
<1> QED BY <1>1, <1>2, <1>3, <1>4 DEF SInv
\* The invariant survives Load: the node goes on from what it saved; without a saved
\* position it has returned nothing.
LEMMA LoadSole == ASSUME SInv, SingleNode, NEW n \in Node, Load(n) PROVE SInv'
<1> USE IdSequenceAssumption, FirstFreeType DEF SInv, TypeOK
<1>a. n \in deployment.nodes /\ \A m \in Node : pc[m] # "gone" => m = n
  BY OneNode DEF Load
<1>b. want'[n] \in Int /\ Reaches(n, want'[n])
  BY <1>a DEF Load, SavedOk, Reaches
<1>0. TypeOK'
  BY <1>b DEF Load
<1>1. RunningOk' /\ OneBatch' /\ SavedOk'
  BY <1>a DEF Load, RunningOk, OneBatch, SavedOk
<1>2. PositionOk'
  BY <1>b DEF Load, PositionOk, Reaches, Allocating, Cached, Low
<1>3. OwnPlan'
  BY DEF Load, OwnPlan
<1> QED BY <1>0, <1>1, <1>2, <1>3

\* The invariant survives NextVal and Serve: the position does not move down.
LEMMA ServeSole ==
    ASSUME SInv, SingleNode, NEW n \in Node, NextVal(n) \/ Serve(n) PROVE SInv'
<1> USE IdSequenceAssumption, FirstFreeType DEF SInv, TypeOK, NextVal, Serve, TakeId
<1>0. TypeOK'
  <2>1. /\ pc' \in [Node -> {"out", "serve", "alloc", "allocCommit", "persist",
                              "ready", "gone"}]
        /\ next' \in [Node -> Int] /\ to' \in [Node -> Int] /\ want' \in [Node -> Int]
    OBVIOUS
  <2>2. UNCHANGED <<deployment, batches, stored, loading, plan, dirty, issued, reissued>>
    OBVIOUS
  <2> QED BY <2>1, <2>2
<1>1. RunningOk' /\ OneBatch' /\ SavedOk'
  BY DEF RunningOk, OneBatch, SavedOk
<1>2. PositionOk'
  BY DEF PositionOk, Reaches, Allocating, Cached, Low
<1>3. OwnPlan'
  BY DEF OwnPlan
<1> QED BY <1>0, <1>1, <1>2, <1>3

\* The invariant survives BeginAllocation: the plan is made from the stored batch.
LEMMA BeginSole == ASSUME SInv, SingleNode, NEW n \in Node, BeginAllocation(n) PROVE SInv'
<1> USE IdSequenceAssumption, FirstFreeType DEF SInv, TypeOK
<1> DEFINE p == CheckBatchAllocation(n, want[n], batches)
<1>a. p \in PlanType
  <2>1. \A b \in batches : b.owner = n
    BY OneNode DEF BeginAllocation
  <2> QED BY <2>1, OwnAllocation DEF OneBatch
<1>b. plan' = [plan EXCEPT ![n] = p]
  BY DEF BeginAllocation
<1> HIDE DEF p
<1>0. TypeOK'
  BY <1>a, <1>b DEF BeginAllocation
<1>1. RunningOk' /\ OneBatch' /\ SavedOk'
  BY DEF BeginAllocation, RunningOk, OneBatch, SavedOk
<1>2. PositionOk'
  BY DEF BeginAllocation, PositionOk, Reaches, Allocating, Cached, Low
<1>3. OwnPlan'
  BY <1>b DEF BeginAllocation, OwnPlan, p
<1> QED BY <1>0, <1>1, <1>2, <1>3

\* What a committed plan leaves in the store of a single node: one batch of its own,
\* no lower than the one before.
LEMMA OwnCommit ==
    ASSUME SInv, SingleNode, NEW n \in Node, pc[n] = "allocCommit", ApplyPlan(n)
    PROVE  /\ plan[n] \in PlanType /\ plan[n].from = want[n]
           /\ \E c \in BatchType : /\ batches' = {c} /\ c.owner = n
                                   /\ c.to = plan[n].to
                                   /\ \A b \in batches : b.to <= c.to
<1> USE DEF SInv, TypeOK
<1>1. \A b \in batches : b.owner = n
  BY OneNode
<1>2. plan[n] = CheckBatchAllocation(n, want[n], batches)
  BY DEF OwnPlan
<1>3. batches' = {b \in batches : b.from \notin WriteSet(plan[n])} \cup plan[n].put
  BY DEF ApplyPlan
<1>4. /\ plan[n] \in PlanType /\ plan[n].from = want[n]
      /\ \E c \in BatchType :
            /\ {b \in batches : b.from \notin WriteSet(plan[n])} \cup plan[n].put = {c}
            /\ c.owner = n /\ c.to = plan[n].to
            /\ \A b \in batches : b.to <= c.to
  BY <1>1, <1>2, OwnAllocation DEF OneBatch
<1> QED BY <1>3, <1>4
\* The invariant survives a commit that takes effect, reported as such or as failed:
\* the new batch goes on at or above the saved position.
LEMMA CommitSole ==
    ASSUME SInv, SingleNode, NEW n \in Node,
           CommitAllocation(n) \/ (RetryAllocation(n) /\ ApplyPlan(n))
    PROVE  SInv'
<1> USE IdSequenceAssumption, FirstFreeType DEF SInv, TypeOK
<1>p. pc[n] = "allocCommit" /\ ApplyPlan(n) /\ EndAllocation(n)
  BY DEF CommitAllocation, RetryAllocation
<1>a. n \in deployment.nodes /\ \A m \in Node : pc[m] # "gone" => m = n
  BY <1>p, OneNode
<1>b. /\ plan[n].from = want[n] /\ plan[n].from \in Int /\ plan[n].to \in Int
      /\ WriteSet(plan[n]) \subseteq Int
  BY <1>p, OwnCommit DEF PlanType, WriteSet, BatchType
<1>c. PICK c \in BatchType : /\ batches' = {c} /\ c.owner = n /\ c.to = plan[n].to
                             /\ \A b \in batches : b.to <= c.to
  BY <1>p, OwnCommit
<1>d. Reaches(n, want[n])
  BY <1>p DEF PositionOk, Allocating
<1>e. /\ deployment' = deployment /\ stored' = stored /\ want' = want
      /\ issued' = issued /\ reissued' = reissued
      /\ loading' = loading \/ loading' = [loading EXCEPT ![n] = FALSE]
      /\ \/ /\ next' = [next EXCEPT ![n] = plan[n].from + 1]
            /\ to' = [to EXCEPT ![n] = plan[n].to]
            /\ pc' = [pc EXCEPT ![n] = "persist"] /\ ~loading'[n]
         \/ /\ next' = [next EXCEPT ![n] = plan[n].from]
            /\ to' = [to EXCEPT ![n] = plan[n].to]
            /\ pc' = [pc EXCEPT ![n] = "serve"] /\ ~loading'[n]
         \/ /\ next' = next /\ to' = to /\ loading' = loading
            /\ pc' = [pc EXCEPT ![n] = "alloc"]
  BY DEF CommitAllocation, RetryAllocation, TakeId
<1>0. TypeOK'
  <2>1. plan' \in [Node -> PlanType]
    BY <1>p DEF EndAllocation, NoPlan, PlanType
  <2>2. dirty' \in [Node -> SUBSET Int]
    BY <1>p, <1>b DEF ApplyPlan
  <2>3. batches' \subseteq BatchType
    BY <1>c
  <2>4. /\ pc' \in [Node -> {"out", "serve", "alloc", "allocCommit", "persist",
                              "ready", "gone"}]
        /\ next' \in [Node -> Int] /\ to' \in [Node -> Int]
    BY <1>b, <1>e
  <2>5. loading' \in [Node -> BOOLEAN]
    BY <1>e
  <2> QED BY <1>e, <2>1, <2>2, <2>3, <2>4, <2>5
<1>1. RunningOk' /\ OneBatch' /\ SavedOk'
  <2>1. RunningOk' /\ SavedOk'
    BY <1>a, <1>e DEF RunningOk, SavedOk
  <2>2. OneBatch'
    BY <1>a, <1>c, <1>e DEF OneBatch
  <2> QED BY <2>1, <2>2
<1>2. PositionOk'
  <2> SUFFICES ASSUME NEW m \in Node
               PROVE  /\ loading'[m] => Allocating(m)'
                      /\ Allocating(m)' => Reaches(m, want[m])'
                      /\ Cached(m)' => /\ Reaches(m, Low(m))'
                                       /\ \E b \in batches' : to'[m] <= b.to
    BY DEF PositionOk
  <2>1. CASE m # n
    BY <1>a, <1>e, <2>1 DEF PositionOk, Allocating, Cached
  <2>2. CASE m = n
    <3>1. /\ loading'[n] => Allocating(n)'
          /\ Allocating(n)' => Reaches(n, want[n])'
      BY <1>d, <1>e DEF Allocating, Reaches
    <3>2. Cached(n)' => Reaches(n, Low(n))'
      BY <1>b, <1>d, <1>e, <1>p DEF Cached, Low, Reaches, PositionOk
    <3>3. ASSUME Cached(n)' PROVE to'[n] <= c.to
      <4>1. CASE to'[n] = plan[n].to
        BY <1>b, <1>c, <4>1
      <4>2. CASE to'[n] = to[n] /\ Cached(n)
        <5>1. PICK b \in batches : to[n] <= b.to
          BY <4>2 DEF PositionOk
        <5> QED BY <1>c, <4>2, <5>1 DEF BatchType
      <4> QED BY <1>e, <1>p, <3>3, <4>1, <4>2 DEF Cached
    <3> QED BY <1>c, <2>2, <3>1, <3>2, <3>3
  <2> QED BY <2>1, <2>2
<1>3. OwnPlan'
  BY <1>a, <1>e DEF OwnPlan
<1> QED BY <1>0, <1>1, <1>2, <1>3

\* The invariant survives an attempt that fails without effect, and giving up.
LEMMA RetrySole ==
    ASSUME SInv, SingleNode, NEW n \in Node,
           RetryAllocation(n) \/ TimeoutAllocation(n), UNCHANGED batches
    PROVE  SInv'
<1> USE IdSequenceAssumption, FirstFreeType DEF SInv, TypeOK, RetryAllocation,
        TimeoutAllocation, EndAllocation
<1>a. \A m \in Node : pc[m] # "gone" => m = n
  BY OneNode
<1>0. TypeOK'
  <2>1. dirty' \in [Node -> SUBSET Int]
    <3>1. CASE TimeoutAllocation(n)
      BY <3>1
    <3>2. CASE RetryAllocation(n) /\ ApplyPlan(n)
      BY <3>2, CommitSole
    <3>3. CASE RetryAllocation(n) /\ dirty' = [dirty EXCEPT ![n] = {}]
      BY <3>3
    <3> QED BY <3>1, <3>2, <3>3
  <2>2. plan' \in [Node -> PlanType]
    BY DEF NoPlan, PlanType
  <2> QED BY <2>1, <2>2
<1>1. RunningOk' /\ OneBatch' /\ SavedOk'
  BY DEF RunningOk, OneBatch, SavedOk
<1>2. PositionOk'
  BY DEF PositionOk, Reaches, Allocating, Cached, Low
<1>3. OwnPlan'
  BY <1>a DEF OwnPlan
<1> QED BY <1>0, <1>1, <1>2, <1>3

\* The invariant survives PersistState: the id returned was not below the saved
\* position, and every id returned before is.
LEMMA PersistSole == ASSUME SInv, SingleNode, NEW n \in Node, PersistState(n) PROVE SInv'
<1> USE IdSequenceAssumption, FirstFreeType DEF SInv, TypeOK
<1> DEFINE v == next[n] - 1
<1>a. n \in deployment.nodes /\ \A m \in deployment.nodes : m = n
  BY OneNode DEF PersistState
<1>b. v \in Int /\ Reaches(n, v)
  BY DEF PersistState, PositionOk, Cached, Low
<1>c. v \notin issued
  BY <1>a, <1>b DEF SavedOk, Reaches
<1>d. /\ issued' = issued \cup {v} /\ reissued' = reissued \cup ({v} \cap issued)
      /\ stored' = [stored EXCEPT ![n] = next[n]]
      /\ deployment' = deployment
  BY DEF PersistState
<1>0. TypeOK'
  <2>1. issued' \in SUBSET Int /\ reissued' \in SUBSET Int
    <3> HIDE DEF v
    <3> QED BY <1>b, <1>d
  <2> QED BY <2>1 DEF PersistState
<1>1. RunningOk' /\ OneBatch'
  BY DEF PersistState, RunningOk, OneBatch
<1>2. SavedOk'
  <2>1. reissued' = {} /\ \A i \in issued' : i >= FirstFree
    BY <1>b, <1>c, <1>d DEF SavedOk, Reaches
  <2>2. stored'[n] = v + 1 /\ stored'[n] # NoState /\ v + 1 >= FirstFree
    BY <1>b, <1>d DEF Reaches
  <2>3. \A i \in issued' : i < v + 1
    <3>1. \A i \in issued : i < v + 1
      BY <1>a, <1>b DEF SavedOk, Reaches
    <3> QED BY <1>b, <1>d, <3>1
  <2> HIDE DEF v
  <2> QED BY <1>a, <1>d, <2>1, <2>2, <2>3 DEF SavedOk
<1>3. PositionOk'
  BY <1>a, OneNode DEF PersistState, PositionOk, Reaches, Allocating, Cached, Low
<1>4. OwnPlan'
  BY DEF PersistState, OwnPlan
<1> QED BY <1>0, <1>1, <1>2, <1>3, <1>4
\* The invariant survives a save that fails: an id is skipped, the position may be
\* saved all the same.
LEMMA PersistFailsSole == ASSUME SInv, SingleNode, NEW n \in Node, PersistFails(n) PROVE SInv'
<1> USE IdSequenceAssumption, FirstFreeType DEF SInv, TypeOK
<1>a. n \in deployment.nodes /\ \A m \in deployment.nodes : m = n
  BY OneNode DEF PersistFails
<1>b. Reaches(n, next[n] - 1)
  BY DEF PersistFails, PositionOk, Cached, Low
<1>c. stored' = stored \/ stored' = [stored EXCEPT ![n] = next[n]]
  BY DEF PersistFails
<1>0. TypeOK'
  BY <1>c DEF PersistFails
<1>1. RunningOk' /\ OneBatch'
  BY DEF PersistFails, RunningOk, OneBatch
<1>2. SavedOk'
  BY <1>a, <1>b, <1>c DEF PersistFails, SavedOk, Reaches
<1>3. PositionOk'
  <2> SUFFICES ASSUME NEW m \in Node
               PROVE  /\ loading'[m] => Allocating(m)'
                      /\ Allocating(m)' => Reaches(m, want[m])'
                      /\ Cached(m)' => /\ Reaches(m, Low(m))'
                                       /\ \E b \in batches' : to'[m] <= b.to
    BY DEF PositionOk
  <2>1. CASE m # n
    BY <1>c, <2>1 DEF PersistFails, PositionOk, Allocating, Cached, Low, Reaches
  <2>2. CASE m = n
    BY <1>b, <1>c, <2>2 DEF PersistFails, PositionOk, Allocating, Cached, Low, Reaches
  <2> QED BY <2>1, <2>2
<1>4. OwnPlan'
  BY DEF PersistFails, OwnPlan
<1> QED BY <1>0, <1>1, <1>2, <1>3, <1>4

\* The invariant survives a crash, with or without a restart under the same id.
LEMMA CrashSole == ASSUME SInv, SingleNode, NEW n \in Node, Crash(n) PROVE SInv'
<1> USE IdSequenceAssumption, FirstFreeType DEF SInv, TypeOK, Crash, EndAllocation
<1>0. TypeOK'
  BY DEF NoPlan, PlanType
<1>1. RunningOk' /\ OneBatch' /\ SavedOk'
  BY DEF RunningOk, OneBatch, SavedOk
<1>2. PositionOk'
  BY DEF PositionOk, Reaches, Allocating, Cached, Low
<1>3. OwnPlan'
  BY DEF OwnPlan
<1> QED BY <1>0, <1>1, <1>2, <1>3

\* The invariant of a single node survives every step.
LEMMA NextSole == ASSUME SInv, SingleNode, [Next]_vars PROVE SInv'
<1>1. CASE UNCHANGED vars
  BY <1>1 DEF vars, SInv, TypeOK, RunningOk, OneBatch, SavedOk, PositionOk, OwnPlan,
              Reaches, Low, Allocating, Cached
<1>2. ASSUME NEW n \in Node,
             \/ Load(n) \/ NextVal(n) \/ Serve(n)
             \/ BeginAllocation(n) \/ CommitAllocation(n) \/ RetryAllocation(n)
             \/ TimeoutAllocation(n) \/ PersistState(n) \/ PersistFails(n)
             \/ Crash(n)
      PROVE  SInv'
  <2>1. CASE RetryAllocation(n)
    <3>1. ApplyPlan(n) \/ UNCHANGED batches
      BY <2>1 DEF RetryAllocation
    <3> QED BY <2>1, <3>1, CommitSole, RetrySole
  <2>2. CASE TimeoutAllocation(n)
    BY <2>2, RetrySole DEF TimeoutAllocation
  <2> QED
    BY <1>2, <2>1, <2>2, LoadSole, ServeSole, BeginSole, CommitSole, PersistSole,
       PersistFailsSole, CrashSole
<1> QED BY <1>1, <1>2 DEF Next

\* ------------------------------------------------------------------------
\* A deployment does not change; the invariant is that of its kind.
Safe ==
    /\ TypeOK
    /\ (FreshIds /\ Batch > 0) \/ SingleNode
    /\ FreshIds /\ Batch > 0 => IInv
    /\ SingleNode => SInv

\* Safe is an invariant of every supported deployment: no node id is reused and no
\* commit is ambiguous, or there is a single node.
THEOREM Invariance == Supported => (Spec => []Safe)
<1> SUFFICES ASSUME Supported PROVE Spec => []Safe
  OBVIOUS
<1>1. Init => Safe
  BY InitIInv, InitSInv DEF Safe, IInv, Init, Supported, FreshIds, SingleNode
<1>2. Safe /\ [Next]_vars => Safe'
  <2> SUFFICES ASSUME Safe, [Next]_vars PROVE Safe'
    OBVIOUS
  <2>1. deployment' = deployment
    BY DEF Next, vars, Load, NextVal, Serve, BeginAllocation, CommitAllocation,
           RetryAllocation, TimeoutAllocation, PersistState, PersistFails, Crash
  <2>2. FreshIds' = FreshIds /\ SingleNode' = SingleNode
    BY <2>1 DEF FreshIds, SingleNode
  <2>3. CASE FreshIds /\ Batch > 0
    BY <2>2, <2>3, NextStep, NextSole DEF Safe, IInv
  <2>4. CASE SingleNode
    BY <2>2, <2>4, NextStep, NextSole DEF Safe, SInv
  <2> QED BY <2>3, <2>4 DEF Safe
<1> QED BY <1>1, <1>2, PTL DEF Spec

\* The variables keep their types: an allocation plan, a batch in memory and a
\* stored batch always are well-formed ranges.
THEOREM Types == Supported => (Spec => []TypeOK)
<1> SUFFICES ASSUME Supported PROVE Spec => []TypeOK
  OBVIOUS
<1>1. Safe => TypeOK
  BY DEF Safe
<1>2. Spec => []Safe
  BY Invariance
<1> QED BY <1>1, <1>2, PTL

\* next_val never returns an id twice: whatever the number of nodes, the start, the
\* batch size (but zero) and the interleaving of allocations, failed saves and
\* crashes while node ids are new; and, on a single node, whatever the batch size,
\* also after restarts with the same id and commits reported as failed that took effect.
THEOREM Uniqueness == Supported => (Spec => []UniqueIds)
<1> SUFFICES ASSUME Supported PROVE Spec => []UniqueIds
  OBVIOUS
<1>1. Safe => UniqueIds
  BY DEF Safe, IInv, IssuedOk, SInv, SavedOk, UniqueIds
<1>2. Spec => []Safe
  BY Invariance
<1> QED BY <1>1, <1>2, PTL

\* Every id a node still holds in memory is reserved for it in the store: within a
\* stored batch of its own while node ids are new, below the end of one on a single
\* node that restarts, and always outside the batches of others.
THEOREM Reservation == Supported /\ Batch > 0 => (Spec => []RangeReserved)
<1> SUFFICES ASSUME Supported, Batch > 0 PROVE Spec => []RangeReserved
  OBVIOUS
<1>1. Safe => RangeReserved
  <2> SUFFICES ASSUME Safe, NEW n \in Node, Cached(n), NEW i \in next[n]..(to[n] - 1)
               PROVE  /\ \E b \in batches : /\ b.owner = n /\ i < b.to
                                            /\ deployment.faults = {} => b.from <= i
                      /\ \A b \in batches : b.owner # n => ~(b.from <= i /\ i < b.to)
    BY DEF RangeReserved
  <2> USE DEF TypeOK
  <2>1. CASE IInv
    <3>1. PICK c \in batches : OwnBatches(n, batches) = {c} /\ c.to = to[n] /\ c.from <= Low(n)
      BY <2>1 DEF IInv, MemoryOk
    <3>2. c.owner = n /\ i < c.to /\ c.from <= i
      BY <2>1, <3>1 DEF IInv, OwnBatches, Low, BatchType
    <3>3. ASSUME NEW b \in batches, b.owner # n PROVE ~(b.from <= i /\ i < b.to)
      BY <2>1, <3>2, <3>3 DEF IInv, BatchesOk, BatchType
    <3> QED BY <3>2, <3>3
  <2>2. CASE SInv /\ SingleNode /\ ~FreshIds
    <3>1. \A b \in batches : b.owner = n
      BY <2>2, OneNode DEF Cached
    <3>2. PICK c \in batches : to[n] <= c.to
      BY <2>2 DEF SInv, PositionOk
    <3>3. i < c.to
      BY <2>2, <3>2 DEF SInv, BatchType
    <3> QED BY <2>2, <3>1, <3>3 DEF FreshIds
  <2> QED BY <2>1, <2>2 DEF Safe
<1>2. Spec => []Safe
  BY Invariance
<1> QED BY <1>1, <1>2, PTL

\* A step never moves the allocation frontier back.
LEMMA FrontierStep ==
    ASSUME Safe, Next, NEW b \in batches
    PROVE  \E c \in batches' : b.to <= c.to
<1> USE DEF TypeOK
<1>0. b.to \in Int
  BY DEF Safe, BatchType
<1>1. CASE batches' = batches
  BY <1>0, <1>1
<1>2. ASSUME NEW n \in Node, CommitAllocation(n), IInv
      PROVE  \E c \in batches' : b.to <= c.to
  <2> DEFINE new == [from |-> plan[n].from, to |-> plan[n].to, owner |-> n]
  <2>1. /\ Frontier(plan[n].from, batches) /\ plan[n].to = plan[n].from + Batch
        /\ new \in BatchType
        /\ batches' = (batches \ OwnBatches(n, batches)) \cup {new}
    BY <1>2, CommitPlan DEF CommitAllocation
  <2>2. new \in batches' /\ new.to = plan[n].to /\ plan[n].from \in Int /\ plan[n].to \in Int
    BY <2>1 DEF BatchType
  <2>3. b.to <= plan[n].from
    BY <2>1 DEF Frontier
  <2>4. b.to <= new.to
    BY <1>0, <2>1, <2>2, <2>3, IdSequenceAssumption
  <2> QED BY <2>2, <2>4
<1>3. ASSUME NEW n \in Node, pc[n] = "allocCommit", ApplyPlan(n), SInv, SingleNode
      PROVE  \E c \in batches' : b.to <= c.to
  BY <1>3, OwnCommit
<1>4. ASSUME NEW n \in Node, CommitAllocation(n) \/ RetryAllocation(n)
      PROVE  \E c \in batches' : b.to <= c.to
  <2>1. batches' = batches \/ ApplyPlan(n)
    BY <1>4 DEF CommitAllocation, RetryAllocation
  <2>2. pc[n] = "allocCommit"
    BY <1>4 DEF CommitAllocation, RetryAllocation
  <2>3. CASE SingleNode
    BY <1>1, <1>3, <2>1, <2>2, <2>3 DEF Safe
  <2>4. CASE FreshIds /\ IInv
    BY <1>1, <1>2, <1>4, <2>4 DEF RetryAllocation, FreshIds
  <2> QED BY <2>3, <2>4 DEF Safe
<1> QED
  BY <1>1, <1>4 DEF Next, Load, NextVal, Serve, BeginAllocation,
     TimeoutAllocation, PersistState, PersistFails, Crash

\* Deleting used-up batches never lowers the frontier, so an id below it is never
\* allocated again.
THEOREM FrontierMonotone == Supported => (Spec => FrontierAdvances)
<1> SUFFICES ASSUME Supported PROVE Spec => FrontierAdvances
  OBVIOUS
<1>1. Safe /\ [Next]_vars
        => [batches # {} => \A b \in batches : \E c \in batches' : b.to <= c.to]_vars
  BY FrontierStep
<1>2. Spec => []Safe
  BY Invariance
<1> QED BY <1>1, <1>2, PTL DEF Spec, FrontierAdvances
=============================================================================

--------------------------- MODULE TaskLeaseProofs ---------------------------
(***************************************************************************)
(* The task lease is safe for every set of nodes, every lease duration and  *)
(* every clock skew.  The lease record alone says too little: the invariant *)
(* relates it to what the suspended checks remember (the clock value they    *)
(* started from, the lease their write transaction read) and to the last    *)
(* positive answer of each task.                                            *)
(***************************************************************************)
EXTENDS TaskLease, TLAPS

InFlight(t) == pc[t] \in {"read", "acquire", "commit"}
Own(t) == lease # NoLease /\ lease.owner = NodeOf[t]

\* No clock value in use is ahead of real time by more than the skew, so no lease
\* reaches further than a duration and the skew ahead.
ClockBound ==
    /\ \A t \in Task : current[t] <= now + Skew
    /\ lease # NoLease => lease.expiration <= now + Skew + LeaseDuration

\* A write transaction only goes on when the lease it read was free for its node.
CommitGuard ==
    \A t \in Task :
        pc[t] = "commit" => ~HeldByOther(previous[t], t, current[t])

\* A check in flight can shorten its own node's lease by no more than the skew.
FlightBound ==
    \A t \in Task :
        /\ until[t] <= now + Skew + LeaseDuration
        /\ InFlight(t) =>
              /\ until[t] <= current[t] + LeaseDuration + Skew
              /\ Own(t) => lease.expiration <= current[t] + LeaseDuration + Skew

\* A positive answer is covered by the stored lease, or about to lapse.
Covered ==
    \A t \in Task :
        \/ Own(t) /\ until[t] <= lease.expiration + Skew
        \/ until[t] < now + 2 * Skew

IInv == TypeOK /\ ClockBound /\ CommitGuard
IInvOne == IInv /\ FlightBound /\ Covered

\* new_inner's clamp makes the lease duration positive.
LEMMA DurationType ==
    /\ LeaseDuration \in Nat \ {0}
    /\ LeaseDuration \div 2 \in Nat
    /\ MaintainPeriod \in Nat
<1>1. LeaseDuration \in Nat \ {0}
  BY TaskLeaseAssumption DEF LeaseDuration
<1>2. LeaseDuration \div 2 \in Nat
  BY <1>1
<1>3. MaintainPeriod \in Nat
  BY TaskLeaseAssumption DEF MaintainPeriod
<1> QED BY <1>1, <1>2, <1>3

\* The invariants hold before any task asked for the lease.
LEMMA InitIInv == Init => IInv /\ FlightBound /\ Covered
<1> SUFFICES ASSUME Init PROVE IInv /\ FlightBound /\ Covered
  OBVIOUS
<1> USE TaskLeaseAssumption, DurationType
<1>1. TypeOK
  BY DEF Init, TypeOK, Lease
<1>2. ClockBound
  BY DEF Init, ClockBound
<1>3. CommitGuard
  BY DEF Init, CommitGuard
<1>4. FlightBound
  BY DEF Init, FlightBound, InFlight
<1>5. Covered
  BY DEF Init, Covered
<1> QED BY <1>1, <1>2, <1>3, <1>4, <1>5 DEF IInv

\* Every step keeps the types.
LEMMA NextTypeOK == TypeOK /\ [Next]_vars => TypeOK'
<1> SUFFICES ASSUME TypeOK, [Next]_vars PROVE TypeOK'
  OBVIOUS
<1> USE TaskLeaseAssumption, DurationType DEF TypeOK, Lease
<1>1. ASSUME NEW t \in Task, HasLease(t) PROVE TypeOK'
  BY <1>1 DEF HasLease, BeginCheck, Clock
<1>2. ASSUME NEW t \in Task, NextBatch(t) PROVE TypeOK'
  BY <1>2 DEF NextBatch, BeginCheck, Clock
<1>3. ASSUME NEW t \in Task, TaskDone(t) PROVE TypeOK'
  BY <1>3 DEF TaskDone
<1>4. ASSUME NEW t \in Task, TryMaintainLease(t) PROVE TypeOK'
  BY <1>4 DEF TryMaintainLease, BeginCheck, Clock
<1>5. ASSUME NEW t \in Task, ReadLease(t) PROVE TypeOK'
  BY <1>5 DEF ReadLease, AnswerTrue, AnswerFalse, Valid
<1>6. ASSUME NEW t \in Task, AcquireNewLease(t) PROVE TypeOK'
  BY <1>6 DEF AcquireNewLease, AnswerFalse
<1>7. ASSUME NEW t \in Task, CommitLease(t) PROVE TypeOK'
  BY <1>7 DEF CommitLease, AnswerTrue, NewLease, EndTransaction
<1>8. ASSUME NEW t \in Task, ConditionNotMet(t) PROVE TypeOK'
  BY <1>8 DEF ConditionNotMet, AnswerFalse, EndTransaction
<1>9. ASSUME NEW t \in Task, LeaseError(t) PROVE TypeOK'
  <2>1. lease' \in Lease \cup {NoLease}
    BY <1>9 DEF LeaseError, NewLease
  <2>2. attempts' \in [Task -> 0..(MaxAttempts - 1)]
    BY <1>9 DEF LeaseError, AnswerErr
  <2>3. until' \in [Task -> Int]
    BY <1>9 DEF LeaseError, AnswerErr
  <2>4. pc' \in [Task -> {"idle", "read", "acquire", "commit", "work", "dead"}]
    BY <1>9 DEF LeaseError, AnswerErr, BeginCheck
  <2>5. maintain' = maintain \/ maintain' = [maintain EXCEPT ![t] = FALSE]
    BY <1>9, Zenon DEF LeaseError, AnswerErr, BeginCheck
  <2>6. maintain' \in [Task -> BOOLEAN]
    BY <2>5
  <2>7. current' \in [Task -> Int]
    BY <1>9 DEF LeaseError, AnswerErr, BeginCheck, Clock
  <2> QED
    BY <1>9, <2>1, <2>2, <2>3, <2>4, <2>6, <2>7 DEF LeaseError, EndTransaction
<1>10. ASSUME NEW t \in Task, Stop(t) PROVE TypeOK'
  BY <1>10 DEF Stop, EndTransaction
<1>11. ASSUME Tick PROVE TypeOK'
  BY <1>11 DEF Tick
<1>12. ASSUME NEW n \in Node, AdjustClock(n) PROVE TypeOK'
  BY <1>12 DEF AdjustClock
<1>13. CASE UNCHANGED vars
  BY <1>13 DEF vars
<1> QED
  BY <1>1, <1>2, <1>3, <1>4, <1>5, <1>6, <1>7, <1>8, <1>9, <1>10, <1>11, <1>12,
     <1>13 DEF Next, TaskStep

\* No check uses a clock value that is ahead of real time by more than the skew.
LEMMA NextClockBound == IInv /\ [Next]_vars => ClockBound'
<1> SUFFICES ASSUME IInv, [Next]_vars PROVE ClockBound'
  OBVIOUS
<1> USE TaskLeaseAssumption, DurationType DEF IInv, TypeOK, Lease, ClockBound
<1>1. ASSUME NEW t \in Task, HasLease(t) PROVE ClockBound'
  BY <1>1 DEF HasLease, BeginCheck, Clock
<1>2. ASSUME NEW t \in Task, NextBatch(t) PROVE ClockBound'
  BY <1>2 DEF NextBatch, BeginCheck, Clock
<1>3. ASSUME NEW t \in Task, TaskDone(t) PROVE ClockBound'
  BY <1>3 DEF TaskDone
<1>4. ASSUME NEW t \in Task, TryMaintainLease(t) PROVE ClockBound'
  BY <1>4 DEF TryMaintainLease, BeginCheck, Clock
<1>5. ASSUME NEW t \in Task, ReadLease(t) PROVE ClockBound'
  BY <1>5 DEF ReadLease, AnswerTrue, AnswerFalse
<1>6. ASSUME NEW t \in Task, AcquireNewLease(t) PROVE ClockBound'
  BY <1>6 DEF AcquireNewLease, AnswerFalse
<1>7. ASSUME NEW t \in Task, CommitLease(t) PROVE ClockBound'
  BY <1>7 DEF CommitLease, AnswerTrue, NewLease, EndTransaction
<1>8. ASSUME NEW t \in Task, ConditionNotMet(t) PROVE ClockBound'
  BY <1>8 DEF ConditionNotMet, AnswerFalse, EndTransaction
<1>9. ASSUME NEW t \in Task, LeaseError(t) PROVE ClockBound'
  BY <1>9 DEF LeaseError, AnswerErr, BeginCheck, Clock, NewLease, EndTransaction
<1>10. ASSUME NEW t \in Task, Stop(t) PROVE ClockBound'
  BY <1>10 DEF Stop, EndTransaction
<1>11. ASSUME Tick PROVE ClockBound'
  BY <1>11 DEF Tick
<1>12. ASSUME NEW n \in Node, AdjustClock(n) PROVE ClockBound'
  BY <1>12 DEF AdjustClock
<1>13. CASE UNCHANGED vars
  BY <1>13 DEF vars
<1> QED
  BY <1>1, <1>2, <1>3, <1>4, <1>5, <1>6, <1>7, <1>8, <1>9, <1>10, <1>11, <1>12,
     <1>13 DEF Next, TaskStep

\* A write transaction only replaces a lease that is its own or had expired for it.
LEMMA NextCommitGuard == IInv /\ [Next]_vars => CommitGuard'
<1> SUFFICES ASSUME IInv, [Next]_vars PROVE CommitGuard'
  OBVIOUS
<1> USE TaskLeaseAssumption, DurationType
    DEF IInv, TypeOK, Lease, CommitGuard, HeldByOther, Expired
<1>1. ASSUME NEW t \in Task, HasLease(t) PROVE CommitGuard'
  BY <1>1 DEF HasLease, BeginCheck, Clock
<1>2. ASSUME NEW t \in Task, NextBatch(t) PROVE CommitGuard'
  BY <1>2 DEF NextBatch, BeginCheck, Clock
<1>3. ASSUME NEW t \in Task, TaskDone(t) PROVE CommitGuard'
  BY <1>3 DEF TaskDone
<1>4. ASSUME NEW t \in Task, TryMaintainLease(t) PROVE CommitGuard'
  BY <1>4 DEF TryMaintainLease, BeginCheck, Clock
<1>5. ASSUME NEW t \in Task, ReadLease(t) PROVE CommitGuard'
  BY <1>5 DEF ReadLease, AnswerTrue, AnswerFalse
<1>6. ASSUME NEW t \in Task, AcquireNewLease(t) PROVE CommitGuard'
  BY <1>6 DEF AcquireNewLease, AnswerFalse
<1>7. ASSUME NEW t \in Task, CommitLease(t) PROVE CommitGuard'
  BY <1>7 DEF CommitLease, AnswerTrue, NewLease, EndTransaction
<1>8. ASSUME NEW t \in Task, ConditionNotMet(t) PROVE CommitGuard'
  BY <1>8 DEF ConditionNotMet, AnswerFalse, EndTransaction
<1>9. ASSUME NEW t \in Task, LeaseError(t) PROVE CommitGuard'
  BY <1>9 DEF LeaseError, AnswerErr, BeginCheck, Clock, NewLease, EndTransaction
<1>10. ASSUME NEW t \in Task, Stop(t) PROVE CommitGuard'
  BY <1>10 DEF Stop, EndTransaction
<1>11. ASSUME Tick PROVE CommitGuard'
  BY <1>11 DEF Tick
<1>12. ASSUME NEW n \in Node, AdjustClock(n) PROVE CommitGuard'
  BY <1>12 DEF AdjustClock
<1>13. CASE UNCHANGED vars
  BY <1>13 DEF vars
<1> QED
  BY <1>1, <1>2, <1>3, <1>4, <1>5, <1>6, <1>7, <1>8, <1>9, <1>10, <1>11, <1>12,
     <1>13 DEF Next, TaskStep

\* On a node with one task, a renewal in flight never shortens the lease.
LEMMA NextFlightBound ==
    OneTaskPerNode /\ IInvOne /\ [Next]_vars => FlightBound'
<1> SUFFICES ASSUME OneTaskPerNode, IInvOne, [Next]_vars PROVE FlightBound'
  OBVIOUS
<1> USE TaskLeaseAssumption, DurationType
    DEF OneTaskPerNode, IInvOne, IInv, TypeOK, Lease, ClockBound, FlightBound, InFlight, Own
<1>1. ASSUME NEW t \in Task, HasLease(t) PROVE FlightBound'
  BY <1>1 DEF HasLease, BeginCheck, Clock
<1>2. ASSUME NEW t \in Task, NextBatch(t) PROVE FlightBound'
  BY <1>2 DEF NextBatch, BeginCheck, Clock
<1>3. ASSUME NEW t \in Task, TaskDone(t) PROVE FlightBound'
  BY <1>3 DEF TaskDone
<1>4. ASSUME NEW t \in Task, TryMaintainLease(t) PROVE FlightBound'
  BY <1>4 DEF TryMaintainLease, BeginCheck, Clock
<1>5. ASSUME NEW t \in Task, ReadLease(t) PROVE FlightBound'
  BY <1>5 DEF ReadLease, AnswerTrue, AnswerFalse, Valid
<1>6. ASSUME NEW t \in Task, AcquireNewLease(t) PROVE FlightBound'
  BY <1>6 DEF AcquireNewLease, AnswerFalse
<1>7. ASSUME NEW t \in Task, CommitLease(t) PROVE FlightBound'
  BY <1>7 DEF CommitLease, AnswerTrue, NewLease, EndTransaction
<1>8. ASSUME NEW t \in Task, ConditionNotMet(t) PROVE FlightBound'
  BY <1>8 DEF ConditionNotMet, AnswerFalse, EndTransaction
<1>9. ASSUME NEW t \in Task, LeaseError(t) PROVE FlightBound'
  BY <1>9 DEF LeaseError, AnswerErr, BeginCheck, Clock, NewLease, EndTransaction
<1>10. ASSUME NEW t \in Task, Stop(t) PROVE FlightBound'
  BY <1>10 DEF Stop, EndTransaction
<1>11. ASSUME Tick PROVE FlightBound'
  BY <1>11 DEF Tick
<1>12. ASSUME NEW n \in Node, AdjustClock(n) PROVE FlightBound'
  BY <1>12 DEF AdjustClock
<1>13. CASE UNCHANGED vars
  BY <1>13 DEF vars
<1> QED
  BY <1>1, <1>2, <1>3, <1>4, <1>5, <1>6, <1>7, <1>8, <1>9, <1>10, <1>11, <1>12,
     <1>13 DEF Next, TaskStep

\* An answer Ok(true) stays covered by the stored lease until the lease passes on.
LEMMA NextCovered ==
    OneTaskPerNode /\ IInvOne /\ [Next]_vars => Covered'
<1> SUFFICES ASSUME OneTaskPerNode, IInvOne, [Next]_vars PROVE Covered'
  OBVIOUS
<1> USE TaskLeaseAssumption, DurationType
    DEF OneTaskPerNode, IInvOne, IInv, TypeOK, Lease, ClockBound, CommitGuard,
        FlightBound, InFlight, Own, Covered, HeldByOther, Expired, Valid
<1>1. ASSUME NEW t \in Task, HasLease(t) PROVE Covered'
  BY <1>1 DEF HasLease, BeginCheck, Clock
<1>2. ASSUME NEW t \in Task, NextBatch(t) PROVE Covered'
  BY <1>2 DEF NextBatch, BeginCheck, Clock
<1>3. ASSUME NEW t \in Task, TaskDone(t) PROVE Covered'
  BY <1>3 DEF TaskDone
<1>4. ASSUME NEW t \in Task, TryMaintainLease(t) PROVE Covered'
  BY <1>4 DEF TryMaintainLease, BeginCheck, Clock
<1>5. ASSUME NEW t \in Task, ReadLease(t) PROVE Covered'
  BY <1>5 DEF ReadLease, AnswerTrue, AnswerFalse
<1>6. ASSUME NEW t \in Task, AcquireNewLease(t) PROVE Covered'
  BY <1>6 DEF AcquireNewLease, AnswerFalse
<1>7. ASSUME NEW t \in Task, CommitLease(t) PROVE Covered'
  BY <1>7 DEF CommitLease, AnswerTrue, NewLease, EndTransaction
<1>8. ASSUME NEW t \in Task, ConditionNotMet(t) PROVE Covered'
  BY <1>8 DEF ConditionNotMet, AnswerFalse, EndTransaction
<1>9. ASSUME NEW t \in Task, LeaseError(t) PROVE Covered'
  BY <1>9 DEF LeaseError, AnswerErr, BeginCheck, Clock, NewLease, EndTransaction
<1>10. ASSUME NEW t \in Task, Stop(t) PROVE Covered'
  BY <1>10 DEF Stop, EndTransaction
<1>11. ASSUME Tick PROVE Covered'
  BY <1>11 DEF Tick
<1>12. ASSUME NEW n \in Node, AdjustClock(n) PROVE Covered'
  BY <1>12 DEF AdjustClock
<1>13. CASE UNCHANGED vars
  BY <1>13 DEF vars
<1> QED
  BY <1>1, <1>2, <1>3, <1>4, <1>5, <1>6, <1>7, <1>8, <1>9, <1>10, <1>11, <1>12,
     <1>13 DEF Next, TaskStep

\* Type correctness of the lease protocol, for all constants.
THEOREM TypeCorrect == Spec => []TypeOK
<1>1. Init => TypeOK
  BY InitIInv DEF IInv
<1> QED
  BY <1>1, NextTypeOK, PTL DEF Spec

\* The part of the invariant that holds even when tasks of one node interfere.
THEOREM Invariance == Spec => []IInv
<1>1. IInv /\ [Next]_vars => IInv'
  BY NextTypeOK, NextClockBound, NextCommitGuard DEF IInv
<1> QED
  BY <1>1, InitIInv, PTL DEF Spec

\* acquire_new_lease never takes over a lease that has more than the clock skew
\* left, for any number of nodes and of tasks per node, any duration and skew.
THEOREM Handover == Spec => HandoverAfterExpiry
<1>1. IInv /\ [Next]_vars =>
        [(lease # NoLease /\ lease'.owner # lease.owner)
            => lease.expiration < now + Skew]_vars
  <2> SUFFICES ASSUME IInv, Next, lease # NoLease, lease'.owner # lease.owner
               PROVE  lease.expiration < now + Skew
    OBVIOUS
  <2>1. PICK t \in Task : pc[t] = "commit" /\ lease = previous[t]
                             /\ lease' = NewLease(t)
    <3>1. lease' # lease
      OBVIOUS
    <3> QED
      BY <3>1 DEF Next, TaskStep, HasLease, NextBatch, TaskDone, TryMaintainLease,
                  ReadLease, AcquireNewLease, CommitLease, ConditionNotMet,
                  LeaseError, Stop, Tick, AdjustClock
  <2>2. NewLease(t).owner = NodeOf[t]
    BY DEF NewLease
  <2>3. Expired(lease, current[t])
    BY <2>1, <2>2 DEF IInv, CommitGuard, HeldByOther
  <2> QED
    BY <2>1, <2>3, TaskLeaseAssumption DEF IInv, TypeOK, ClockBound, Expired, Lease
<1> QED
  BY <1>1, Invariance, PTL DEF Spec, HandoverAfterExpiry

\* Mutual exclusion: while each node has one lease user, two nodes never both
\* rest on a lease answer with more than twice the clock skew left.
THEOREM Exclusion == OneTaskPerNode => (Spec => []LeaseExclusion)
<1> SUFFICES ASSUME OneTaskPerNode PROVE Spec => []LeaseExclusion
  OBVIOUS
<1>1. Init => IInvOne
  BY InitIInv DEF IInvOne
<1>2. IInvOne /\ [Next]_vars => IInvOne'
  BY NextTypeOK, NextClockBound, NextCommitGuard, NextFlightBound, NextCovered
     DEF IInvOne, IInv
<1>3. IInvOne => LeaseExclusion
  BY TaskLeaseAssumption
     DEF IInvOne, IInv, TypeOK, Lease, Covered, Own, LeaseExclusion
<1> QED
  BY <1>1, <1>2, <1>3, PTL DEF Spec
=============================================================================

----------------------------- MODULE TaskLease -----------------------------
(***************************************************************************)
(* The distributed task lease of kvs/tasklease.rs.  Background tasks of a  *)
(* cluster (changefeed clean-up, index compaction, event processing, ...)  *)
(* share one lease record per task type in the key-value store; a node runs *)
(* the task while LeaseHandler::has_lease answers true, and calls           *)
(* try_maintain_lease while it works.                                       *)
(*                                                                         *)
(* A Task is one user of the lease with a LeaseHandler of its own.  Several *)
(* tasks may run on one node: doc/event.rs hands clones of the handler to   *)
(* spawned workers, and leaves them running when the producer returns early. *)
(* The store gives each transaction a snapshot, and a commit fails when the *)
(* lease changed after it.  `now' is real time; the clock of a node         *)
(* (Utc::now) is at most Skew ahead of it and may be adjusted at any time.  *)
(***************************************************************************)
EXTENDS Integers, FiniteSets

CONSTANTS Node,          \* node ids (the `node' field of a handler)
          Task,          \* lease users
          Worker,        \* those spawned for a batch, still running after it
          NodeOf,        \* the node of each task
          Requested,     \* lease_duration argument of LeaseHandler::new
          MinDuration,   \* the clamp of new_inner (8 seconds in the code)
          MaxAttempts,   \* has_lease: 4, 8, ... < MAX_BACKOFF (13 attempts)
          Skew,          \* bound on the clock offset of a node
          MaxTime,       \* bound on real time
          NoLease        \* the lease key is absent

ASSUME TaskLeaseAssumption ==
    /\ NodeOf \in [Task -> Node]
    /\ Worker \subseteq Task
    /\ Requested \in Nat /\ MinDuration \in Nat \ {0}
    /\ MaxAttempts \in Nat \ {0}
    /\ Skew \in Nat /\ MaxTime \in Nat
    /\ NoLease \notin [owner : Node, expiration : Int]

VARIABLES now,       \* real time
          offset,    \* clock offset of each node
          lease,     \* the committed lease record, or NoLease
          pc,        \* where each task is
          maintain,  \* is the check in progress one of try_maintain_lease?
          current,   \* `current': the clock value the check in progress uses
          previous,  \* previous_lease: the lease its write transaction read
          attempts,  \* iterations of has_lease's retry loop so far
          lastCheck, \* last_maintain_check of the task's handler
          until      \* expiration of the lease behind the task's last Ok(true)

vars == <<now, offset, lease, pc, maintain, current, previous, attempts,
          lastCheck, until>>

\* tasklease.rs new_inner: the lease is clamped from below, the throttle is
\* derived from the requested duration and is at least one second.
LeaseDuration == IF Requested > MinDuration THEN Requested ELSE MinDuration
MaintainPeriod == IF Requested \div 8 > 1 THEN Requested \div 8 ELSE 1

Lease == [owner : Node, expiration : Int]

Clock(n) == now + offset[n]

TypeOK ==
    /\ now \in Nat \ {0}
    /\ offset \in [Node -> 0..Skew]
    /\ lease \in Lease \cup {NoLease}
    /\ pc \in [Task -> {"idle", "read", "acquire", "commit", "work", "dead"}]
    /\ maintain \in [Task -> BOOLEAN]
    /\ current \in [Task -> Int]
    /\ previous \in [Task -> Lease \cup {NoLease}]
    /\ attempts \in [Task -> 0..(MaxAttempts - 1)]
    /\ lastCheck \in [Task -> Int]
    /\ until \in [Task -> Int]

\* The lease was never taken, or an earlier holder let it expire; workers of that
\* earlier batch are still at work.
Init ==
    /\ now = 1
    /\ offset \in [Node -> 0..Skew]
    /\ lease \in {NoLease} \cup [owner : Node, expiration : {0}]
    /\ pc = [t \in Task |-> IF t \in Worker THEN "work" ELSE "idle"]
    /\ maintain = [t \in Task |-> FALSE]
    /\ current = [t \in Task |-> 0]
    /\ previous = [t \in Task |-> NoLease]
    /\ attempts = [t \in Task |-> 0]
    /\ lastCheck = [t \in Task |-> 0]
    /\ until = [t \in Task |-> 0]

----------------------------------------------------------------------------
\* Variants of the definitions below, each with a slip this code could have.
ExpiredWhenRenewable(l, c) == c > l.expiration - (LeaseDuration \div 2)

HeldByOtherEvenExpired(l, t, c) == l # NoLease /\ l.owner # NodeOf[t]

AnswerFalseWaits(t) ==
    /\ pc' = [pc EXCEPT ![t] = IF maintain[t] THEN "work" ELSE "read"]
    /\ until' = [until EXCEPT ![t] = 0]
    /\ attempts' = [attempts EXCEPT ![t] = 0]

\* get_lease: the status of a lease at clock value c.
Expired(l, c) == c > l.expiration
Valid(l, c) == l # NoLease /\ c <= l.expiration - (LeaseDuration \div 2)

HeldByOther(l, t, c) ==
    l # NoLease /\ l.owner # NodeOf[t] /\ ~Expired(l, c)

\* check_lease starts: the clock is read once, before any transaction.
BeginCheck(t, isMaintain) ==
    /\ pc' = [pc EXCEPT ![t] = "read"]
    /\ maintain' = [maintain EXCEPT ![t] = isMaintain]
    /\ current' = [current EXCEPT ![t] = Clock(NodeOf[t])]

\* Ok(true): the caller goes on (or begins) working; u is the expiration of the
\* lease the answer rests on.
AnswerTrue(t, u) ==
    /\ pc' = [pc EXCEPT ![t] = "work"]
    /\ until' = [until EXCEPT ![t] = u]
    /\ attempts' = [attempts EXCEPT ![t] = 0]

\* Ok(false): has_lease's caller returns; try_maintain_lease's callers ignore
\* the answer and complete the batch.  The caller knows the lease is not its own.
AnswerFalse(t) ==
    /\ pc' = [pc EXCEPT ![t] = IF maintain[t] THEN "work" ELSE "idle"]
    /\ until' = [until EXCEPT ![t] = 0]
    /\ attempts' = [attempts EXCEPT ![t] = 0]

\* Variant: one attempt too many.
AnswerErrOnceMore(t) ==
    LET again == ~maintain[t] /\ attempts[t] + 1 <= MaxAttempts
    IN  /\ attempts' = [attempts EXCEPT ![t] = IF again THEN @ + 1 ELSE 0]
        /\ until' = [until EXCEPT ![t] = IF again THEN @ ELSE 0]
        /\ IF again
           THEN BeginCheck(t, FALSE)
           ELSE /\ pc' = [pc EXCEPT ![t] = "idle"]
                /\ UNCHANGED <<maintain, current>>

\* Err: has_lease backs off and checks again, until the backoff is exhausted
\* (QueryTimedout); an Err of try_maintain_lease ends the task (`?').
AnswerErr(t) ==
    LET again == ~maintain[t] /\ attempts[t] + 1 < MaxAttempts
    IN  /\ attempts' = [attempts EXCEPT ![t] = IF again THEN @ + 1 ELSE 0]
        /\ until' = [until EXCEPT ![t] = IF again THEN @ ELSE 0]
        /\ IF again
           THEN BeginCheck(t, FALSE)
           ELSE /\ pc' = [pc EXCEPT ![t] = "idle"]
                /\ UNCHANGED <<maintain, current>>

EndTransaction(t) == previous' = [previous EXCEPT ![t] = NoLease]

----------------------------------------------------------------------------
\* The task loop calls has_lease with a fresh handler.
HasLease(t) ==
    /\ t \notin Worker
    /\ pc[t] = "idle"
    /\ BeginCheck(t, FALSE)
    /\ lastCheck' = [lastCheck EXCEPT ![t] = 0]
    /\ UNCHANGED <<now, offset, lease, previous, attempts, until>>

\* The batch is done; the loop calls has_lease again with the same handler.
NextBatch(t) ==
    /\ t \notin Worker
    /\ pc[t] = "work"
    /\ BeginCheck(t, FALSE)
    /\ UNCHANGED <<now, offset, lease, previous, attempts, lastCheck, until>>

\* The queue of work is empty: the task returns until its next interval.
TaskDone(t) ==
    /\ pc[t] = "work"
    /\ pc' = [pc EXCEPT ![t] = "idle"]
    /\ until' = [until EXCEPT ![t] = 0]
    /\ UNCHANGED <<now, offset, lease, maintain, current, previous, attempts,
                   lastCheck>>

\* try_maintain_lease, not throttled: more than a period since the last check,
\* or the clock went backwards.  (When throttled it answers Ok(true) at once.)
TryMaintainLease(t) ==
    LET c == Clock(NodeOf[t])
    IN  /\ pc[t] = "work"
        /\ c < lastCheck[t] \/ c - lastCheck[t] > MaintainPeriod
        /\ lastCheck' = [lastCheck EXCEPT ![t] = c]
        /\ BeginCheck(t, TRUE)
        /\ UNCHANGED <<now, offset, lease, previous, attempts, until>>

\* read_lease in a read transaction of its own, and the decisions of check_lease.
ReadLease(t) ==
    /\ pc[t] = "read"
    /\ \/ /\ HeldByOther(lease, t, current[t])
          /\ AnswerFalse(t)
       \/ /\ ~HeldByOther(lease, t, current[t])
          /\ Valid(lease, current[t])
          /\ AnswerTrue(t, lease.expiration)
       \/ /\ ~HeldByOther(lease, t, current[t])
          /\ ~Valid(lease, current[t])
          /\ pc' = [pc EXCEPT ![t] = "acquire"]
          /\ UNCHANGED <<attempts, until>>
    /\ UNCHANGED <<now, offset, lease, maintain, current, previous, lastCheck>>

\* acquire_new_lease opens a write transaction and reads the lease again.
AcquireNewLease(t) ==
    /\ pc[t] = "acquire"
    /\ IF HeldByOther(lease, t, current[t])
       THEN AnswerFalse(t) /\ UNCHANGED previous
       ELSE /\ previous' = [previous EXCEPT ![t] = lease]
            /\ pc' = [pc EXCEPT ![t] = "commit"]
            /\ UNCHANGED <<attempts, until>>
    /\ UNCHANGED <<now, offset, lease, maintain, current, lastCheck>>

\* The record acquire_new_lease writes: it extends from `current', the clock
\* value read at the start of check_lease.
NewLease(t) == [owner |-> NodeOf[t], expiration |-> current[t] + LeaseDuration]

\* Variant: set instead of putc, without conflict detection.
CommitLeaseBlindly(t) ==
    /\ pc[t] = "commit"
    /\ lease' = NewLease(t)
    /\ AnswerTrue(t, current[t] + LeaseDuration)
    /\ EndTransaction(t)
    /\ UNCHANGED <<now, offset, maintain, current, lastCheck>>

\* putc and commit succeed: the lease is still the one the transaction read.
CommitLease(t) ==
    /\ pc[t] = "commit"
    /\ lease = previous[t]
    /\ lease' = NewLease(t)
    /\ AnswerTrue(t, current[t] + LeaseDuration)
    /\ EndTransaction(t)
    /\ UNCHANGED <<now, offset, maintain, current, lastCheck>>

\* The lease changed since it was read: putc reports TransactionConditionNotMet
\* on a store that reads the latest value.
ConditionNotMet(t) ==
    /\ pc[t] = "commit"
    /\ lease # previous[t]
    /\ AnswerFalse(t)
    /\ EndTransaction(t)
    /\ UNCHANGED <<now, offset, lease, maintain, current, lastCheck>>

\* A step fails: a lost connection, a commit conflict, or a commit that took
\* effect and whose answer was lost.
LeaseError(t) ==
    /\ pc[t] \in {"read", "acquire", "commit"}
    /\ AnswerErr(t)
    /\ EndTransaction(t)
    /\ \/ UNCHANGED lease
       \/ /\ pc[t] = "commit"
          /\ lease = previous[t]
          /\ lease' = NewLease(t)
    /\ UNCHANGED <<now, offset, lastCheck>>

\* The canceller fires, or the process dies: the task takes no further step.
Stop(t) ==
    /\ pc[t] # "dead"
    /\ pc' = [pc EXCEPT ![t] = "dead"]
    /\ until' = [until EXCEPT ![t] = 0]
    /\ EndTransaction(t)
    /\ UNCHANGED <<now, offset, lease, maintain, current, attempts, lastCheck>>

Tick ==
    /\ now < MaxTime
    /\ now' = now + 1
    /\ UNCHANGED <<offset, lease, pc, maintain, current, previous, attempts,
                   lastCheck, until>>

AdjustClock(n) ==
    /\ \E o \in 0..Skew : offset' = [offset EXCEPT ![n] = o]
    /\ UNCHANGED <<now, lease, pc, maintain, current, previous, attempts,
                   lastCheck, until>>

TaskStep(t) ==
    \/ ReadLease(t) \/ AcquireNewLease(t) \/ CommitLease(t)
    \/ ConditionNotMet(t) \/ LeaseError(t)

Next ==
    \/ \E t \in Task :
          \/ HasLease(t) \/ NextBatch(t) \/ TaskDone(t) \/ TryMaintainLease(t)
          \/ TaskStep(t) \/ Stop(t)
    \/ Tick
    \/ \E n \in Node : AdjustClock(n)

Spec == Init /\ [][Next]_vars

\* The runtime keeps polling a started check, time passes, the task loop is
\* called every interval, a batch ends, and a check that is retried for ever does
\* not fail for ever.
Fairness ==
    /\ WF_vars(Tick)
    /\ \A t \in Task : /\ WF_vars(HasLease(t))
                       /\ WF_vars(NextBatch(t) \/ TaskDone(t))
                       /\ WF_vars(TaskStep(t))
                       /\ SF_vars(ReadLease(t))
                       /\ SF_vars(AcquireNewLease(t))
                       /\ SF_vars(CommitLease(t))

LiveSpec == Spec /\ Fairness

----------------------------------------------------------------------------
\* At most one lease-holding task per node: every task type whose loop does not
\* leave workers behind.
OneTaskPerNode == \A s, t \in Task : NodeOf[s] = NodeOf[t] => s = t

\* Mutual exclusion of check_lease / acquire_new_lease ("only one node can
\* successfully acquire a lease"): two tasks of different nodes never both rest
\* on an Ok(true) whose lease has more than twice the clock skew left, however
\* long the checks are suspended between reading the clock, reading the lease
\* and committing, and whatever fails in between.
LeaseExclusion ==
    \A s, t \in Task :
        NodeOf[s] # NodeOf[t] =>
            ~(until[s] >= now + 2 * Skew /\ until[t] >= now + 2 * Skew)

\* acquire_new_lease takes a lease from another node only after it expired (up to
\* the skew), although the decision uses a clock value that is stale by then.
HandoverAfterExpiry ==
    [][(lease # NoLease /\ lease'.owner # lease.owner)
          => lease.expiration < now + Skew]_vars

\* has_lease and try_maintain_lease always answer: the retry loop is bounded.
CheckAnswers ==
    \A t \in Task : pc[t] \in {"read", "acquire", "commit"}
                       ~> pc[t] \in {"idle", "work", "dead"}

HeldBy(n) == lease # NoLease /\ lease.owner = n

\* The lease of a dead node does not block the task for ever: while some task
\* keeps asking, it passes to another node.
DeadLeaseTakenOver ==
    \A n \in Node :
        (/\ HeldBy(n) /\ lease.expiration < MaxTime
         /\ \A t \in Task : NodeOf[t] = n => pc[t] = "dead")
        ~> (~HeldBy(n) \/ \A t \in Task \ Worker : pc[t] = "dead")
=============================================================================

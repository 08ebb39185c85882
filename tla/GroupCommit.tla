---------------------------- MODULE GroupCommit ----------------------------
(***************************************************************************)
(* Group commit, kvs/rocksdb/commit_coordinator.rs (the SurrealKV engine has *)
(* the same coordinator).  With sync=every a transaction commits on its own   *)
(* thread and then waits for the CommitBatcher thread, which makes the WAL   *)
(* durable once for a batch of waiters.                                      *)
(*                                                                         *)
(* A step under the `buffer' mutex is one action; a condvar wait releases    *)
(* the mutex and parks in the same step.  Notifications are sent after the   *)
(* mutex is released and are lost unless the batcher is parked.  A Caller    *)
(* commits any number of transactions, one at a time.                       *)
(***************************************************************************)
EXTENDS Integers, Sequences, FiniteSets

CONSTANTS Caller,
          WaitThreshold,   \* grouped_commit_wait_threshold
          MaxBatch         \* grouped_commit_max_batch_size

ASSUME GroupCommitAssumption ==
    /\ IsFiniteSet(Caller)
    /\ WaitThreshold \in Nat
    /\ MaxBatch \in Nat \ {0}

VARIABLES wal,       \* callers whose latest transaction is applied, not yet on disk
          flushing,  \* those that were in the WAL when flush_wal(true) was called
          pc,        \* where each caller is in Transaction::commit
          answer,    \* what the caller's latest commit answered
          shutdown,  \* SharedState.shutdown
          buffer,    \* SharedState.buffer, each SyncRequest by its caller
          batcher,   \* where CommitBatcher::run is
          batch,     \* the requests it has drained
          result,    \* flush_result ("ok" while there is none)
          closer     \* where the datastore's shutdown is

vars == <<wal, flushing, pc, answer, shutdown, buffer, batcher, batch, result,
          closer>>

TypeOK ==
    /\ wal \subseteq Caller
    /\ flushing \subseteq Caller
    /\ pc \in [Caller -> {"idle", "commit", "notify", "await", "gone"}]
    /\ answer \in [Caller -> {"idle", "ok", "err"}]
    /\ shutdown \in BOOLEAN
    /\ buffer \in Seq(Caller)
    /\ batcher \in {"check", "parked", "collect", "timed", "woken", "flush",
                    "syncing", "send", "exit"}
    /\ batch \subseteq Caller /\ Cardinality(batch) <= MaxBatch
    /\ result \in {"ok", "err"}
    /\ closer \in {"run", "flagged", "joining", "joined", "closed"}

Init ==
    /\ wal = {} /\ flushing = {}
    /\ pc = [c \in Caller |-> "idle"]
    /\ answer = [c \in Caller |-> "idle"]
    /\ shutdown = FALSE
    /\ buffer = << >>
    /\ batcher = "check"
    /\ batch = {}
    /\ result = "ok"
    /\ closer = "run"

----------------------------------------------------------------------------
\* The condvar: a notification moves a parked batcher on, any other is lost.
NotifyBatcher ==
    batcher' = CASE batcher = "parked" -> "check"
                 [] batcher = "timed" -> "woken"
                 [] OTHER -> batcher

\* Variant: no maximum batch size.
TakeAll == Len(buffer)

\* Drain requests from the front of the buffer up to the maximum batch size.
Take ==
    LET room == MaxBatch - Cardinality(batch)
    IN  IF Len(buffer) < room THEN Len(buffer) ELSE room

Drain ==
    /\ batch' = batch \cup {buffer[i] : i \in 1..Take}
    /\ buffer' = SubSeq(buffer, Take + 1, Len(buffer))

CallerUnchanged == UNCHANGED <<wal, pc, answer>>
BatcherUnchanged == UNCHANGED <<flushing, batch, result>>

----------------------------------------------------------------------------
\* Transaction::commit applies the transaction; it is in the WAL buffer.
Commit(c) ==
    /\ pc[c] = "idle"
    /\ pc' = [pc EXCEPT ![c] = "commit"]
    /\ answer' = [answer EXCEPT ![c] = "idle"]
    /\ wal' = wal \cup {c}
    /\ flushing' = flushing \ {c}
    /\ UNCHANGED <<shutdown, buffer, batcher, batch, result, closer>>

\* Variants of WaitForSync: the shutdown flag is not checked; only a request that
\* fills a batch notifies.
WaitForSyncUnchecked(c) ==
    /\ pc[c] = "commit"
    /\ pc' = [pc EXCEPT ![c] = IF buffer = << >> THEN "notify" ELSE "await"]
    /\ buffer' = Append(buffer, c)
    /\ BatcherUnchanged
    /\ UNCHANGED <<wal, answer, shutdown, batcher, closer>>

WaitForSyncNotifyingFull(c) ==
    /\ pc[c] = "commit"
    /\ ~shutdown
    /\ pc' = [pc EXCEPT ![c] = IF Len(buffer) + 1 = MaxBatch THEN "notify" ELSE "await"]
    /\ buffer' = Append(buffer, c)
    /\ BatcherUnchanged
    /\ UNCHANGED <<wal, answer, shutdown, batcher, closer>>

\* wait_for_sync under the buffer lock: refuse, or push a request and remember
\* whether the batcher must be notified.
WaitForSync(c) ==
    /\ pc[c] = "commit"
    /\ \/ /\ shutdown
          /\ pc' = [pc EXCEPT ![c] = "idle"]
          /\ answer' = [answer EXCEPT ![c] = "err"]
          /\ UNCHANGED buffer
       \/ /\ ~shutdown
          /\ pc' = [pc EXCEPT ![c] = IF buffer = << >> THEN "notify" ELSE "await"]
          /\ buffer' = Append(buffer, c)
          /\ UNCHANGED answer
    /\ BatcherUnchanged
    /\ UNCHANGED <<wal, shutdown, batcher, closer>>

\* notify_one, after the lock is released; the batcher may have answered already.
Notify(c) ==
    /\ pc[c] = "notify"
    /\ NotifyBatcher
    /\ pc' = [pc EXCEPT ![c] = IF answer[c] = "idle" THEN "await" ELSE "idle"]
    /\ BatcherUnchanged
    /\ UNCHANGED <<wal, answer, shutdown, buffer, closer>>

\* The future is dropped at an await; a pushed request stays where it is.
Abandon(c) ==
    /\ pc[c] \in {"commit", "await"}
    /\ pc' = [pc EXCEPT ![c] = IF @ = "commit" THEN "idle" ELSE "gone"]
    /\ BatcherUnchanged
    /\ UNCHANGED <<wal, answer, shutdown, buffer, batcher, closer>>

----------------------------------------------------------------------------
\* Variant: the shutdown flag is checked before the buffer.
CheckBufferShutdownFirst ==
    /\ batcher = "check"
    /\ \/ /\ ~shutdown /\ buffer # << >>
          /\ Drain
          /\ batcher' = IF /\ WaitThreshold <= Cardinality(batch')
                           /\ Cardinality(batch') < MaxBatch
                        THEN "collect" ELSE "flush"
       \/ /\ shutdown \/ buffer = << >>
          /\ batcher' = IF shutdown THEN "exit" ELSE "parked"
          /\ UNCHANGED <<batch, buffer>>
    /\ CallerUnchanged
    /\ UNCHANGED <<flushing, result, shutdown, closer>>

\* CommitBatcher::run, the wait for work: take a batch, return on shutdown, or
\* park.  A wake-up begins it again.
CheckBuffer ==
    /\ batcher = "check"
    /\ \/ /\ buffer # << >>
          /\ Drain
          /\ batcher' = IF /\ WaitThreshold <= Cardinality(batch')
                           /\ Cardinality(batch') < MaxBatch
                        THEN "collect" ELSE "flush"
       \/ /\ buffer = << >>
          /\ batcher' = IF shutdown THEN "exit" ELSE "parked"
          /\ UNCHANGED <<batch, buffer>>
    /\ CallerUnchanged
    /\ UNCHANGED <<flushing, result, shutdown, closer>>

\* The timed wait: the deadline has passed, or wait for a notification.  The
\* buffer is not looked at before the wait.
Collect ==
    /\ batcher = "collect"
    /\ batcher' \in {"flush", "timed"}
    /\ CallerUnchanged /\ BatcherUnchanged
    /\ UNCHANGED <<shutdown, buffer, closer>>

TimedOut ==
    /\ batcher = "timed"
    /\ batcher' = "flush"
    /\ CallerUnchanged /\ BatcherUnchanged
    /\ UNCHANGED <<shutdown, buffer, closer>>

\* Notified in time: flush on shutdown, or take more requests.
Woken ==
    /\ batcher = "woken"
    /\ IF shutdown
       THEN batcher' = "flush" /\ UNCHANGED <<batch, buffer>>
       ELSE /\ Drain
            /\ batcher' = IF Cardinality(batch') < MaxBatch THEN "collect" ELSE "flush"
    /\ CallerUnchanged
    /\ UNCHANGED <<flushing, result, shutdown, closer>>

\* flush_wal(true) is called ...
BeginFlush ==
    /\ batcher = "flush"
    /\ batcher' = "syncing"
    /\ flushing' = wal
    /\ CallerUnchanged
    /\ UNCHANGED <<batch, result, shutdown, buffer, closer>>

\* Variant: the error of flush_wal is dropped.
EndFlushIgnoringError ==
    /\ batcher = "syncing"
    /\ batcher' = "send"
    /\ flushing' = {}
    /\ result' = "ok"
    /\ wal' \in {wal, wal \ flushing}
    /\ UNCHANGED <<batch, pc, answer, shutdown, buffer, closer>>

\* ... and returns.  Ok: what was in the WAL at the call is on disk.
EndFlush ==
    /\ batcher = "syncing"
    /\ batcher' = "send"
    /\ flushing' = {}
    /\ \/ /\ result' = "ok"
          /\ wal' = wal \ flushing
       \/ /\ result' = "err"
          /\ wal' \in {wal, wal \ flushing}
    /\ UNCHANGED <<batch, pc, answer, shutdown, buffer, closer>>

\* Variant: Ok is sent in the error branch as well.
SendOk ==
    /\ batcher = "send"
    /\ \/ \E c \in batch :
             /\ batch' = batch \ {c}
             /\ answer' = [answer EXCEPT ![c] = IF pc[c] = "gone" THEN "idle" ELSE "ok"]
             /\ pc' = [pc EXCEPT ![c] = IF @ = "notify" THEN "notify" ELSE "idle"]
             /\ UNCHANGED <<batcher, result>>
       \/ /\ batch = {}
          /\ batcher' = "check"
          /\ result' = "ok"
          /\ UNCHANGED <<batch, answer, pc>>
    /\ UNCHANGED <<wal, flushing, shutdown, buffer, closer>>

\* The result is sent to one waiter after the other; the one whose future was
\* dropped does not receive it.  At the end flush_result goes out of scope.
Send ==
    /\ batcher = "send"
    /\ \/ \E c \in batch :
             /\ batch' = batch \ {c}
             /\ answer' = [answer EXCEPT ![c] = IF pc[c] = "gone" THEN "idle" ELSE result]
             /\ pc' = [pc EXCEPT ![c] = IF @ = "notify" THEN "notify" ELSE "idle"]
             /\ UNCHANGED <<batcher, result>>
       \/ /\ batch = {}
          /\ batcher' = "check"
          /\ result' = "ok"
          /\ UNCHANGED <<batch, answer, pc>>
    /\ UNCHANGED <<wal, flushing, shutdown, buffer, closer>>

----------------------------------------------------------------------------
\* CommitCoordinator::shutdown, called by the datastore's shutdown: set the flag
\* under the lock, notify, join the batcher; then the datastore flushes the WAL.
BeginShutdown ==
    /\ closer = "run"
    /\ closer' = "flagged"
    /\ shutdown' = TRUE
    /\ CallerUnchanged /\ BatcherUnchanged
    /\ UNCHANGED <<buffer, batcher>>

\* Variant: the batcher is not notified.
NotifyShutdownSilently ==
    /\ closer = "flagged"
    /\ closer' = "joining"
    /\ CallerUnchanged /\ BatcherUnchanged
    /\ UNCHANGED <<shutdown, buffer, batcher>>

NotifyShutdown ==
    /\ closer = "flagged"
    /\ closer' = "joining"
    /\ NotifyBatcher
    /\ CallerUnchanged /\ BatcherUnchanged
    /\ UNCHANGED <<shutdown, buffer>>

JoinBatcher ==
    /\ closer = "joining"
    /\ batcher = "exit"
    /\ closer' = "joined"
    /\ CallerUnchanged /\ BatcherUnchanged
    /\ UNCHANGED <<shutdown, buffer, batcher>>

FinalFlush ==
    /\ closer = "joined"
    /\ closer' = "closed"
    /\ wal' \in {wal, {}}
    /\ BatcherUnchanged
    /\ UNCHANGED <<pc, answer, shutdown, buffer, batcher>>

BatcherStep ==
    CheckBuffer \/ Collect \/ TimedOut \/ Woken \/ BeginFlush \/ EndFlush \/ Send

CloserStep == NotifyShutdown \/ JoinBatcher \/ FinalFlush

Next ==
    \/ \E c \in Caller : Commit(c) \/ WaitForSync(c) \/ Notify(c) \/ Abandon(c)
    \/ BatcherStep
    \/ BeginShutdown \/ CloserStep

Spec == Init /\ [][Next]_vars

\* Threads that can run do run, a timed wait ends and flush_wal returns.  Nobody
\* has to start a commit, to abandon one or to shut down.
Fairness ==
    /\ \A c \in Caller : WF_vars(WaitForSync(c)) /\ WF_vars(Notify(c))
    /\ WF_vars(BatcherStep)
    /\ WF_vars(CloserStep)

LiveSpec == Spec /\ Fairness

----------------------------------------------------------------------------
\* "All committed transactions are fully persisted to disk": a commit answered
\* Ok only when its record was in the WAL before the flush its answer comes from.
AckedDurable == \A c \in Caller : answer[c] = "ok" => c \notin wal

\* Somebody is about to notify the batcher.
Notifying == closer = "flagged" \/ \E c \in Caller : pc[c] = "notify"

\* No lost wake-up: while the batcher is parked without a timeout, there is
\* nothing to do (no request, no shutdown), or a notification is on its way,
\* although a request only notifies when it finds the buffer empty.
NoLostWakeup ==
    batcher = "parked" /\ (buffer # << >> \/ shutdown) => Notifying

\* The batcher does not return while a request is unanswered, so no caller is
\* left waiting for a thread that is gone.
NothingStranded ==
    batcher = "exit" =>
        /\ buffer = << >> /\ batch = {}
        /\ \A c \in Caller : /\ pc[c] \notin {"await", "gone"}
                             /\ pc[c] = "notify" => answer[c] # "idle"

\* shutdown() returns, whatever the batcher was doing.
ShutdownCompletes == closer = "flagged" ~> closer = "closed"

\* The promise of sync=every.  The phase of a caller's latest transaction is what
\* it has been told, or else whether the transaction is on disk.
Phase ==
    [c \in Caller |->
        IF pc[c] \in {"commit", "notify", "await"} /\ answer[c] = "idle"
        THEN IF c \in wal THEN "committed" ELSE "durable"
        ELSE answer[c]]

SC == INSTANCE SyncedCommit WITH phase <- Phase

\* Group commit implements SyncedCommit: in every interleaving of callers,
\* batcher and shutdown a caller is told Ok only for a transaction on disk, and
\* an answer is given once and never taken back.
ImplementsSyncedCommit == SC!Spec

\* Every commit is answered: rx.await never hangs, under any load, in the order
\* of the buffer, and across a shutdown.
CommitAnswered == SC!Answered
=============================================================================

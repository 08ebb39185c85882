# Formal models of SurrealDB's core

TLA+ modules for the parts of SurrealDB's core whose correctness depends on the
order in which nodes, threads and failures act, TLC runs that check them on small
instances, and TLAPS proofs for every instance. Paths below are relative to
`surrealdb/core/src/`.

## The system and its parts

SurrealDB is a multi-model database: a query layer (`syn`, `sql`, `expr`, `exec`,
`dbs`, `doc`, `idx`, `fnc`, `iam`) over a key-value layer (`kvs`) that runs on several
engines (in memory, RocksDB, SurrealKV, Lance, TiKV, IndexedDB). Several nodes may
share one distributed store; they talk to each other only through its transactions.
The query layer is sequential per query. What is hard is below it: background tasks,
caches and protocols built of several transactions each.

| Part | State it keeps | Operations | Hard behaviour | Correct when |
|---|---|---|---|---|
| Task leases, `kvs/tasklease.rs` | one lease record per task type; clock value of a check; throttle | `has_lease`, `try_maintain_lease`, `check_lease`, `acquire_new_lease` | clock read once and used two transactions later, lost commit answers, skew, retries | one node at a time; a dead holder is replaced; a check always ends |
| Id sequences, `kvs/sequences.rs` | stored batches and per-node state; cached position | `next_val`, `load`, `next`, `find_batch_allocation`, `check_batch_allocation`, removal | concurrent allocation on snapshots, crash between two transactions, failed saves | no id twice |
| Group commit, `kvs/rocksdb/commit_coordinator.rs` | request buffer, batch, WAL | `wait_for_sync`, batcher loop, `shutdown` | condvar, notifications outside the lock, timed wait, flush errors | Ok means on disk; everybody is answered |
| Concurrent index build, `kvs/index/*`, `kvs/tx.rs` | build state, generation, appendings, reservations | admission, fence, acquire, takeover, initial scan, replay, online | writers on all nodes during the build, takeover, paused nodes | an online index equals its table |
| Lance transactions, `kvs/lance/mod.rs` | pending buffer, dataset version | get/set/put/putc/del, savepoints, commit | optimistic merge, conditional writes without conflict keys | isolation the other engines give |
| Node membership, `kvs/ds.rs` | node records with heartbeats, live-query records | insert, update, delete, expire, remove | decisions on records read in an earlier transaction | a live node keeps its record and its live queries |
| Live query router, `lq/*`, `doc/live_events.rs` | event keyspace, cursor, cached lists of live queries | capture, router pass, retention | commits that become visible out of versionstamp order, stale caches, removed tables | each change delivered, once, in order |
| Background flusher, disk space manager, `kvs/rocksdb/*` | shutdown flag; restricted mode | periodic flush; mode check at commit | notification without the mutex; threshold | shutdown returns; deletions always possible |
| Async events, `doc/event.rs` | event queue, retries | enqueue, batch, workers | workers that outlive their batch | each event handled at least once |
| Sequence life cycle, `expr/statements/{define,remove}/sequence.rs` | definition and caches | DEFINE, OVERWRITE, REMOVE | stale caches on other nodes | a redefined sequence starts anew |

They meet in the store: leases guard changefeed and live-query clean-up, index
compaction, resumption of index builds and event processing; sequences give ids to
namespaces, databases, tables and indexes; index builds consult node membership to
decide whether a writer is dead; every engine commit with `sync=every` goes through
group commit.

## Modules

`TaskLease`. A `Task` is one user of a lease with a handler of its own. A check is
three steps, as in the code: `BeginCheck` reads the clock, `ReadLease` decides in a
read transaction, `AcquireNewLease` reads again in a write transaction and
`CommitLease`, `ConditionNotMet` or `LeaseError` end it. `until[t]` is the expiration
of the lease behind the task's last `Ok(true)`, that is what the task may rest on.
`LeaseError` covers failures of any step and a commit whose answer was lost. `now` is
real time, a node's clock is ahead of it by an offset of at most `Skew` that changes at
any time. `try_maintain_lease` that is throttled answers `Ok(true)` and changes nothing,
so it is no action.

`IdSequence`. One sequence. A node has one request in progress, since the mutex of the
cached `Sequence` (or the write lock of the cache while it loads) is held across it.
`BeginAllocation` is the scan of `check_batch_allocation` on its snapshot and computes
what the transaction will write; `CommitAllocation` succeeds unless another commit wrote
one of its keys since (`dirty`). `PersistState` saves the position and returns the id.
A `deployment` says which nodes run, whether a node comes back with its id after a
crash, and whether a commit may take effect and be reported as failed (a lost answer, or
the future dropped during the commit).

`GroupCommit`. Callers, the batcher thread and the datastore's shutdown. What happens
under the buffer mutex is one action; parking on the condvar releases the mutex in the
same step; notifications are separate steps after it and are lost unless the batcher is
parked. The flush is two steps, so commits happen during it. `wal` holds the callers
whose latest transaction is applied but not on disk. A caller may drop its future at an
await (`Abandon`); its slot is free again once the batcher has dropped the request.

`SyncedCommit` is the abstract promise of `sync=every`; `GroupCommit!Phase` maps the
detailed state to it and `ImplementsSyncedCommit` states the refinement.

`IndexBuild`. One index of one table, user transactions (`tx`) on nodes of their own, and
builder tasks (`task`). The variables `bs`, `bg`, `bp`, `br` are the keyspaces of that
name: the build state, the queued mutations, the marks of the records queued during the
scan, the reservations. A mutation goes through `Reserve` (a ticket and a reservation in
a transaction of its own), `Fence` (the state is read again) and then queues, or indexes
by itself when the index is ready; later mutations of the transaction re-check a cached
ticket (`MutateCached`). After the transaction has ended the reservation is released;
when that fails the build is failed. A task goes through `Acquire`, `DrainPrior`,
`Publish`, `Clean`, the scan (`ReadBatch`, `LookupBatch`, `IndexBatch`), three rounds of
`ReadQueue` and `Replay` around `MarkClosing` and `WaitReservations`, and `MarkOnline`.
Any task may stop at any point; another one may take over at any time, since leases
expire nondeterministically. `kind` is a non-unique or a COUNT index: the first stores
entries, the second sums. The transaction of `DEFINE INDEX` ends while the build it
started may be anywhere (`DefineCommit`, `DefineRollback`); after a rollback what was built
is removed in a transaction of its own (`Cleanup`), which may fail or never run
(`CleanupFails`).

`NodeMembership`. Node records, the two registrations of live queries (`nlq` by node,
`tlq` by table), running nodes and what their clients listen to. `expire_nodes` and
`remove_nodes` are two steps each, because they read in one transaction and write in
another. A conflict between them ends the task (`TaskFails`). Time is the age of a
record. Heartbeats come when they come, and a node may stop and start again under its id.
A node whose record got older than the limit while it ran, or that came up while a task
still held a reading of its id, is `late` until its next start: to such a node the code
does what it does to a dead one, and the history variable keeps it apart. When a client
disconnects the connection forgets its queries and `delete_queries` unregisters them
(`Disconnect`), or fails, which is only logged (`DeleteFails`).

`LiveQueryRouter`. The Router engine on one node. A transaction opens its snapshot
(`OpenTx`), loads the list of a table it writes and captures an event if the table has a
live query in the snapshot (`Write`), takes its versionstamp (`TakeStamp`) and commits
(`Commit`); a pass opens its snapshot (`OpenPass`), asks for the watermark, which is the
clock, and scans (`Scan`), loads each table's live queries (`OpenTable`), replays the events
in order (`Replay`) and advances the cursor (`Finish`). `cache` is the list of a table's
live queries that the node has cached under the current version; `LIVE SELECT` refreshes
it in its statement (`Live`) and commits later (`LiveCommit`). A removed table makes the
pass fail (`TableGone`). `Collect` is retention. Three history variables record the races
in which an event is not sent: `late`, the stamps of commits that were in flight when a
watermark above them was taken; `lost`, the events collected above the cursor; `raced`, the
queries left out of a list that an older transaction loaded.

They share state the models do not join: the builder of `IndexBuild` asks membership
whether a writer's node is live (there `inactive`, with `PausedNodes` for a node that was
archived and still runs), and the live queries of `NodeMembership` are the ones
`LiveQueryRouter` notifies.

`*Proofs` hold the theorems of a component (see Proofs). Those of `IndexBuild` are in
three modules: what holds in every deployment, the algebra of queued mutations, and
what needs a careful deployment.

`MC*` give the constants values. Definitions called a variant are the code with a
plausible slip; each breaks the property it is paired with in `PROJECT.json`.

## Runs

| Run | Checks | Bounds |
|---|---|---|
| `lease_safety` | `TypeOK`, `LeaseExclusion`, `HandoverAfterExpiry` | 2 nodes, duration 2, 4 ticks, skew 1, 2 attempts: a lease is taken, renewed, expires and is taken over, with every check suspended across it |
| `lease_live` | `CheckAnswers`, `DeadLeaseTakenOver` | duration 1, 3 ticks, no skew; no symmetry |
| `lease_shared` | `LeaseExclusion`, violated | 2 tasks on one node and 1 on the other, 5 ticks |
| `ids_unique` | `TypeOK`, `UniqueIds`, `RangeReserved`, `FrontierAdvances` | 3 nodes with fresh ids, or 1 stable node with ambiguous commits; batches of 2, ids up to 7 (three batches, so a batch is used up, replaced and overtaken) |
| `ids_stable` | `UniqueIds`, violated | 2 nodes that keep their ids |
| `group_commit` | `TypeOK`, `AckedDurable`, `NoLostWakeup`, `NothingStranded`, `ImplementsSyncedCommit`, `CommitAnswered`, `ShutdownCompletes` | 3 callers that commit again and again, batches of 2, wait from 1: a batch fills, overflows and times out |
| `index_build` | `TypeOK`, `OnlineMatchesTable`, `CountBaseline`, `MarksResolve`, `RollbackIsComplete`, `PhaseForward` | 2 writers, 2 tasks, 1 record with 1 value or none, both kinds, 2 builds (begun or taken over), tickets 0 and 1, 2 mutations per transaction: a writer is queued, another one indexes by itself, a build is replaced or resumed |
| `index_overlap` | `OnlineMatchesTable`, violated | the same with `OverlappingAcquires`, non-unique index only |
| `membership` | `TypeOK`, `SessionsKept`, `FoundByNode`, `RunningNodesActive`, `LostQueriesRemoved`, `DeadNodesForgotten` | 2 nodes, 3 starts in all, 1 live query at a time, a record is too old after one tick without a heartbeat: a node is expired and removed while it is down, late, or just started again under its id |
| `router` | `TypeOK`, `NoneSkipped`, `SentOnce`, `InOrder`, `Recovers` | 2 tables with a live query each, 1 writer with one transaction after the other, 2 stamps, 1 table per transaction, 1 query killed, 1 table removed, 1 storage error (after the last stamp): a commit overtaken by the watermark, a list loaded late, events collected unsent all occur, and two transactions at a time are in the two runs below and in the proofs |
| `router_skip` | `WatermarkIsSafe`, violated | `NoneSkipped` without the excuse `late`; 2 writers, 2 tables per transaction |
| `router_cache` | `ListsAreComplete`, violated | `NoneSkipped` without the excuse `raced`; the same bounds |

Deadlock is not checked where the bounded models stop: time ends in `TaskLease`, ids run
out or all nodes are gone in `IdSequence`, the builds and tickets in `IndexBuild`, the
stamps in `LiveQueryRouter`. `GroupCommit` and `NodeMembership` never stop. `IndexBuild`
uses symmetry of writers, tasks, records and values; it has no liveness property.

### What the violated runs show

* `lease_shared`: the expiration a renewal writes is computed from the clock at the
  start of the check, so a renewal that was suspended shortens the lease another task of
  the node has just extended. Event workers that outlive their batch (the producer
  returns with an error in the middle) are such tasks. `TaskLeaseProofs!Exclusion`
  shows it cannot happen with one user per node.
* `ids_stable`: a node allocates a batch, dies before it saves its position, and comes
  back with the same node id. `check_batch_allocation` finds its batch and accepts the
  old position although it is below the batch, in ids that belong to another node. A
  commit that takes effect but reports an error leads to the same state without a crash.
* `index_overlap`: `acquire_build_state` waits until no reservation is left and then,
  in another transaction, publishes the next generation. Of two tasks that do so at a time
  the second may publish after the first one's build has failed; it wipes the
  reservation and the queued mutation of a writer that reserved in between and has yet to
  commit, and its scan may read the record before that commit.
* `router_skip`: a pass opens its snapshot before it asks for the watermark, and on every
  engine here `safe_timestamp` is the clock. A transaction that has its stamp and
  commits in between, or after the pass, is never replayed.
* `router_cache`: `LIVE SELECT` moves the version of the cached list before it commits.
  A transaction or a pass whose snapshot is older than that commit, and that loads the list
  after the move, before or after the commit, caches it without the query under the new
  version; the query hears nothing until the next `LIVE` or `KILL` on the table. Inline
  notification uses the same list.

### Constants that show more

These are not runs of the project; setting the constant reproduces them.

* `IdSequence` with `Batch = 0` (which `DEFINE SEQUENCE` accepts): two nodes issue the
  same ids.
* `IndexBuild`, each violates `OnlineMatchesTable`: `UnseenWriters` (a transaction older
  than `DEFINE INDEX` does not see the index, queues nothing and commits after the scan),
  `LongTransactions` (a transaction opened before a build ended finds it online and
  removes old entries by its snapshot, which has none of them), `PausedNodes` (a node
  that was archived resumes and commits after its reservation was retired).
* `NodeMembership` without the excuse `late` in `SessionsKept` and `RunningNodesActive`: a
  node whose heartbeat is late is archived although it runs, also when the heartbeat is
  written between the two transactions of `expire_nodes`; one that comes back under its id
  loses its record and its clients' queries to a task that read them before. A node that
  was removed that way and then registers a query, and stops before its next heartbeat,
  leaves the query behind with no record to find it by; that is why `LostQueriesRemoved`
  asks for a node that was not late. The queries of a node's former run stay for as long as
  it runs under the same id.
* Group commit delays a full batch: a request pushed between the first drain and the
  timed wait has spent its notification, so the batcher sleeps out its timeout. Delay
  only; `CommitAnswered` and `AckedDurable` hold.

## Fairness

`TaskLease!LiveSpec`: time passes, the runtime polls a check that has started, the task
loops call `has_lease` every interval (they are timers in the server), a batch ends,
and a check that is retried again and again does not fail for ever (strong fairness of
the successful read, re-read and commit; the store is assumed to recover). No
fairness for stopping or for clock changes.

`GroupCommit!LiveSpec`: threads that can run do run, a timed wait ends, `flush_wal`
returns. Nobody has to begin a commit or a shutdown. No fairness between the alternatives
of a step (flush ok or failed, timeout or notification).

`NodeMembership!Spec`: time passes and the expiry and the clean-up task of a running node
tick (`engine/tasks.rs` runs them on intervals). Strong fairness of the two writes, of the
second for each node to remove: a conflict that ends one is a write that another task has
made, so not every attempt fails. At least one node runs. No fairness for heartbeats,
stopping, starting or clients.

`LiveQueryRouter!Spec`: transactions end one way or the other, `LIVE SELECT` ends, the
router and the collection tick. A storage error happens once; errors without end would
stop the router, in the model as in the code.

## Proofs

| Module | Theorems | Assumptions |
|---|---|---|
| `TaskLeaseProofs` | `TypeCorrect`, `Invariance`, `Handover`, `Exclusion` | `TaskLeaseAssumption`; `Exclusion` also `OneTaskPerNode` |
| `IdSequenceProofs` | `Invariance`, `Types`, `Uniqueness`, `Reservation`, `FrontierMonotone` | `IdSequenceAssumption`; `Supported`: every deployment has node ids that are not reused, commits that are not ambiguous and `Batch > 0`, or a single node; `Reservation` also `Batch > 0` |
| `GroupCommitProofs` | `Invariance`, `Types`, `Durability`, `WakeUps`, `Stranding`, `Refinement` | `GroupCommitAssumption` (finitely many callers, `MaxBatch > 0`) |
| `NodeMembershipProofs` | `MembershipInvariant`, `MembershipTypes`, `ClientsKeepTheirQueries`, `RegistrationsFound`, `RunningNodesStayActive` | `NodeMembershipAssumption` |
| `LiveQueryRouterProofs` | `RouterInvariant`, `RouterTypes`, `NoEventSkipped`, `NoEventTwice`, `EventsInOrder` | `LiveQueryRouterAssumption` |
| `IndexBuildProofs` | `Invariance`, `TypeCorrect`, `MarksAlwaysResolve`, `RollbackComplete`, `PhasesForward` | `IndexBuildAssumption`; every deployment |
| `MutationQueueProofs` | lemmas about queued mutations, used by the next module | none |
| `IndexBuildOnlineProofs` | `OnlineInvariance`, `OnlineIndexMatches`, `CountsStartFromBase` | `IndexBuildAssumption`, `Careful` |

*Leases.* `LeaseExclusion` is not inductive: it says nothing of checks in flight. The
strengthening has a bound on every clock value in use (`ClockBound`), the guard a write
transaction passed (`CommitGuard`), a bound on what a check in flight can do to its own
node's lease (`FlightBound`) and the fact that an `Ok(true)` is covered by the stored
lease or about to lapse (`Covered`). `FlightBound` is what fails with two users per node.

*Sequences.* Stored batches do not overlap; what a node has in memory is the rest of
its one batch; an open allocation either sees the current batches or already conflicts
with the one that changed them, because both write the key right after the highest
batch. Hence a new batch lies above every id issued (`IInv`). A single node needs another
argument, as it may come back under its id and a commit reported as failed may have taken
effect: its saved position is above every id it returned, what it goes on with is never
below that position, and the store holds one batch at a time, its own (`SInv`; any
`Batch`, zero too). `RangeReserved` asks for both ends of a batch where ids are fresh and
nothing fails ambiguously. On the single node that restarts it asks for the upper end
alone: there the code does go on below its batch, in ids that are nobody else's, and
`ids_stable` is what becomes of it when they are: with two nodes that restart neither
argument is left.

*Group commit.* A request is in the buffer or the batch, once, exactly while its commit
is unanswered; every transaction of the batch that is not on disk was in the WAL when
the flush began. `Refinement` maps initial states and every step to `SyncedCommit`.

*Membership.* What a task has read must stay true until it writes: a node found expired
or archived is down or late (`ReadsOK`), and one that comes up under an id which a task has
read counts as late. A running node that was never late has an active record on time
(`NodesOK`); its clients' queries are registered (`QueriesOK`).

*Router.* An event up to the watermark of a pass is in the snapshot of the pass, or its
commit was in flight and it is late (`LateOK`), or it was collected and is lost (`KeptOK`).
One in the snapshot is replayed before the cursor moves (`DealtOK`), to a list that lacks a
live query of the snapshot only if that was raced (`CacheOK`, `PassOK`); what is left to
replay is above what was sent (`OrderOK`). Nothing is assumed of the watermark or of
`LIVE SELECT`. `NoEventSkipped` says that the three races are the only ways an event gets
lost; the two violated runs show two of them, and `lost` is the third, which a removed
table brings about.

*Index build.* `IInv` holds in every deployment: the types, what the owner knows of the
phase (`OwnerOK`), that nobody has seen an index that is not in the catalog
(`CatalogOK`), and that a mark resolves. It gives the properties of the build state, and
that nothing is written after a cleanup that has committed: every write of a task reads
the build state, which the cleanup has deleted.

That an online index has the entries of its table needs `JInv` as well. The queued
mutations of a record form a chain: each begins with the values the one before it ended
with, the last ends with the values in the table (`QueueOK`). What the chain begins with is
the base of the record, and the index is compared with the base, not with the table: a
scanned record has the entries of its base, another has none (`IdxScanOK`), a COUNT index
has counted the bases of the scanned records (`CountScanOK`), and after the scan the index
is that of all bases (`CompleteOK`); when the queue is empty, base and table agree. The
steps of the proof are then what happens to a chain. A commit lengthens it at the end
(`JoinChain`, `JoinBase`), a replay cuts a prefix (`PrefixChain`); the last mutation cut
decides the entries (`LastDecides`), and the sum of the differences telescopes
(`Telescope`, `ReplayCounts`). The rest of `JInv` says why the writers' side keeps that up:
a ticket is held by a reservation or its build is over (`AdmissionOK`, `TicketsOK`), what
a transaction will queue joins the chain (`OwnQueueOK`, `OwnMarksOK`), one that
indexes by itself knows the entries it replaces (`DirectOK`, `SnapOK`), a mark points to
the first mutation of its record during the scan (`MarksOK`), and one task at a time begins
a generation (`StartOK`, `TasksOK`). TLC checked `JInv` on the instance of `index_build`
before it was proved. It holds until the definition is rolled back: from then on nobody
maintains the index, so `OnlineInvariance` is `IInv` and (rolled back or `JInv`).

`Careful` is the conjunction of `~PausedNodes`, `~UnseenWriters`, `~LongTransactions` and
`~OverlappingAcquires`: the four behaviours of the code that break the property, each
shown by `index_overlap` or under "Constants that show more". The theorem says that
nothing else does, for any writers, tasks, records and values and both kinds of index. That an
owner may be taken over at any time, while it still runs, is not among them.

Only model-checked: the liveness properties (`CheckAnswers`, `DeadLeaseTakenOver`,
`CommitAnswered`, `ShutdownCompletes`, `LostQueriesRemoved`, `DeadNodesForgotten`,
`Recovers`), which need fairness and are outside the prover's reach. Every invariant and
every action property of a passing run is stated by a theorem.

## Abstractions

* The store: a transaction reads one snapshot and its commit fails when another commit
  wrote one of its keys since. That is what the code relies on for every engine.
* Data are model values; durations and ids small integers. i64 overflow of ids is left
  out (a sequence would need 2^63 ids).
* `TaskLease`: the jitter of the backoff is not modelled, attempts are counted.
* `IdSequence`: the sequence is never removed or redefined. Catalog ids that exist before
  the first use are the constant `CatalogNext`.
* `GroupCommit`: `flush_wal(true)` that returns Ok has synced what was in the WAL when it
  was called; one that fails may have. A second, concurrent call of `shutdown` is left out.
* `IndexBuild`: a transaction that reads and compares the build state is one step, as any
  change in between makes it fail. A user transaction whose commit can only fail is ended
  at once. Heartbeats of a build are not counted: a takeover is possible at any time, also
  from an owner that still runs. A drain that finds its task aborted returns Ok in the
  code; that follows `REMOVE INDEX` or a rollback and is left out. Not modelled: unique,
  full-text, HNSW and DiskANN indexes, compaction, the queues of older versions,
  `REMOVE INDEX` and its tombstones. After a failed cleanup the build state, the queue and
  the entries stay under an index id that no definition has; ids come from a sequence and
  are not given out again, so nothing reads them, and no property is stated of them.
* `NodeMembership`: `garbage_collect` has no caller and is left out. That the connection
  forgets a query and that `delete_queries` commits is one step, since no other action
  reads what the connection knows. A shutdown whose `delete_node` times out is a crash.
* `LiveQueryRouter`: one database and one router; stamps that passes draw are not
  counted; a query that begins to listen after an event was captured may still get it
  (the code replays to the current list), which no property forbids. Retention (an hour
  by default; zero turns the collection off) is longer than the time a pass takes, unless a removed table stops the
  router: then `Collect` may drop what is undelivered. Permissions and the content of
  notifications are data.

## Plan

1. `LanceTx` against an abstract snapshot-isolated store.
2. `Events`: the event queue with its workers as users of `TaskLease`.
3. Sequence life cycle: DEFINE, OVERWRITE and REMOVE against the caches of the nodes.
4. Two indexes in `Closing` that wait for each other's writers; `REMOVE INDEX` during a
   build; liveness of a build whose owner dies; the index build composed with membership.
5. Background flusher and disk space manager.
6. Proofs: refinement of an index that is maintained with every write by `IndexBuild`,
   and of a source of ids, each new, by `IdSequence`; a lease shared by the tasks of a
   node, with the hypothesis that restores exclusion.

## Not modelled

Parsing, formatting, functions on values, access control, network servers and SDKs,
WebAssembly modules and model inference: pure computation or input and output, where TLC
has nothing to add to their tests. The query executor is sequential per query; the
storage engines are adapters to stores whose transactions the modules assume. The
repository is large and most of it is of these kinds, so the modules cover a small share
of its lines: the protocols of several transactions, threads or nodes under
`surrealdb/core/src/kvs` and `lq`.

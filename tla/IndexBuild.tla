----------------------------- MODULE IndexBuild -----------------------------
(***************************************************************************)
(* The durable protocol of concurrent index builds, kvs/index/*, with the   *)
(* reservations of kvs/tx.rs: one index of one table, user transactions of  *)
(* any node, builder tasks of any node.  Transactions read one snapshot     *)
(* and fail to commit when a key they wrote was written since.              *)
(*                                                                         *)
(* A transaction whose outcome depends on !bs compares and sets it, so it is *)
(* one step; what the code reads in an earlier transaction is a step of its *)
(* own.  The index is a non-unique one, its content a set of entries.       *)
(***************************************************************************)
EXTENDS Integers, FiniteSets

CONSTANTS Writer,     \* user transactions at a time, each on a node of its own
          Builder,    \* builder tasks (Building) at a time
          Rec, Value, None,
          Kinds,      \* of index: Idx, not unique, or Count
          MaxRuns, MaxTicket, MaxSeq, \* bounds: builds begun or resumed, tickets, mutations
          \* What the protocol does not exclude and a deployment may:
          PausedNodes,         \* a node that missed its heartbeats still runs
          UnseenWriters,       \* transactions are open while DEFINE INDEX is
          LongTransactions,    \* a transaction that indexes by itself spans one
          OverlappingAcquires  \* two tasks begin a generation at a time

NoOwner == "nobody"

ASSUME IndexBuildAssumption ==
    /\ None \notin Value /\ NoOwner \notin Builder
    /\ Kinds \subseteq {"Idx", "Count"}
    /\ MaxRuns \in Nat /\ MaxTicket \in Nat /\ MaxSeq \in Nat
    /\ {PausedNodes, UnseenWriters, LongTransactions, OverlappingAcquires} \subseteq BOOLEAN

VARIABLES kind,     \* of the index
          table,    \* the records
          index,    \* of each entry <<record, value>> its copies (Count: what it adds)
          catalog,  \* "absent", "open" (DEFINE runs), "defined", or rolled back: "undone",
                    \* then "gone" (cleaned up) or "orphaned" (the cleanup failed)
          bs,       \* !bs, IndexBuildState
          bg,       \* !bg, the queued mutations
          bp,       \* !bp, per record the first mutation queued in the scan
          br,       \* !br, the reservations
          tx,       \* the user transactions
          task,     \* the builder tasks
          runs,     \* a bound: the builds begun or resumed
          inactive  \* writers whose node is archived and whose reservation expired

vars == <<kind, table, index, catalog, bs, bg, bp, br, tx, task, runs, inactive>>

NoState == [gen |-> 0, phase |-> "none", owner |-> NoOwner, ticket |-> 0,
            complete |-> FALSE]

Phase == {"none", "Building", "Closing", "Online", "Error"}
Entry == Rec \X Value
NoEntries == [e \in Entry |-> 0]
Appending == [gen : 1..MaxRuns, ticket : 0..MaxTicket, seq : 0..MaxSeq, rec : Rec,
              old : Value \cup {None}, new : Value \cup {None}]
Primary == [gen : 1..MaxRuns, rec : Rec, ticket : 0..MaxTicket, seq : 0..MaxSeq]
Reservation == [gen : 1..MaxRuns, ticket : 0..MaxTicket, node : Writer]

IdleTx == [pc |-> "idle", sees |-> FALSE, opened |-> 0, snap |-> NoEntries, dirty |-> {},
           gen |-> 0, ticket |-> 0, complete |-> FALSE,
           writes |-> << >>, queue |-> {}, marks |-> {}, put |-> {}, del |-> {}]
IdleTask == [pc |-> "idle", gen |-> 0, resumed |-> FALSE, todo |-> {},
             batch |-> << >>, keys |-> {}]

Active == bs.phase \in {"Building", "Closing"}
Entries(t) == [e \in Entry |-> IF t[e[1]] = e[2] THEN 1 ELSE 0]

\* Conflict keys: <<rec>> a record, <<rec, val>> an entry, <<"bp", gen, rec>>, <<"bs">>.
\* (The entries of a Count index have keys that are never used twice.)
EntriesOf(r, v) == IF v = None THEN {} ELSE {<<r, v>>}
EntryKeys(entries) == IF kind = "Count" THEN {} ELSE entries
MarkKey(m) == <<"bp", m.gen, m.rec>>

TypeOK ==
    /\ table \in [Rec -> Value \cup {None}]
    /\ kind \in Kinds /\ index \in [Entry -> Int]
    /\ catalog \in {"absent", "open", "defined", "undone", "gone", "orphaned"}
    /\ bs \in [gen : 0..MaxRuns, phase : Phase, owner : Builder \cup {NoOwner},
               ticket : 0..(MaxTicket + 1), complete : BOOLEAN]
    /\ Active <=> bs.owner # NoOwner
    /\ bg \subseteq Appending /\ bp \subseteq Primary /\ br \subseteq Reservation
    /\ \A w \in Writer :
          /\ tx[w].pc \in {"idle", "open", "fence", "release", "crashed"}
          /\ tx[w].queue \subseteq Appending /\ tx[w].marks \subseteq Primary
          /\ tx[w].put \subseteq Entry /\ tx[w].del \subseteq Entry
          /\ DOMAIN tx[w].writes \subseteq Rec
    /\ \A b \in Builder :
          /\ task[b].pc \in {"idle", "drain", "publish", "clean", "scan", "lookup",
                             "index", "replay1", "closing", "replay2", "wait",
                             "replay3", "online"}
          /\ task[b].todo \subseteq Rec /\ task[b].keys \subseteq Appending
    /\ runs \in 0..MaxRuns /\ inactive \subseteq Writer

\* A table with an index that is ready, built before there was a build state, or a
\* table without the index.
Init ==
    /\ kind \in Kinds
    /\ table \in [Rec -> Value \cup {None}]
    /\ \/ /\ catalog = "defined" /\ index = Entries(table)
       \/ catalog = "absent" /\ index = NoEntries
    /\ bs = NoState
    /\ bg = {} /\ bp = {} /\ br = {}
    /\ tx = [w \in Writer |-> IdleTx]
    /\ task = [b \in Builder |-> IdleTask]
    /\ runs = 0 /\ inactive = {}

----------------------------------------------------------------------------
\* A transaction that is over, its reservation to be released if it has one.
Closed(t) == IF t.gen = 0 THEN IdleTx
             ELSE [IdleTx EXCEPT !.pc = "release", !.gen = t.gen, !.ticket = t.ticket]

KeysOf(t) ==
    {<<r>> : r \in DOMAIN t.writes} \cup EntryKeys(t.put \cup t.del) \cup {MarkKey(m) : m \in t.marks}

\* A commit that wrote `keys' is remembered by the open transactions, and dooms those
\* that have written one of them, or that have no record left that they could write:
\* all they can do is to fail.
Open(w) == tx[w].pc \in {"open", "fence"}
DirtyTx(keys) ==
    LET doomed(t) == \/ keys \cap KeysOf(t) # {}
                     \/ \A r \in Rec : <<r>> \in keys \cup t.dirty
    IN  [w \in Writer |-> CASE ~Open(w) -> tx[w]
                           [] Open(w) /\ doomed(tx[w]) -> Closed(tx[w])
                           [] OTHER -> [tx[w] EXCEPT !.dirty = @ \cup keys]]

\* The same for the write transaction of a scan, which is tried again.
BatchEntries(t) == UNION {EntriesOf(a.rec, a.new) : a \in t.keys}
DirtyTask(keys) ==
    [b \in Builder |->
        IF task[b].pc = "index" /\ keys \cap ({<<"bs">>} \cup EntryKeys(BatchEntries(task[b]))) # {}
        THEN [task[b] EXCEPT !.pc = "lookup", !.keys = {}] ELSE task[b]]

----------------------------------------------------------------------------
(* User transactions. *)

Begin(w) ==
    /\ tx[w].pc = "idle"
    /\ UnseenWriters \/ catalog # "open"
    /\ tx' = [tx EXCEPT ![w] =
                [IdleTx EXCEPT !.pc = "open", !.sees = catalog = "defined",
                               !.opened = IF Active THEN -1 ELSE bs.gen,
                               !.snap = IF Active /\ ~LongTransactions THEN NoEntries
                                        ELSE index]]
    /\ UNCHANGED <<kind, table, index, catalog, bs, bg, bp, br, task, runs, inactive>>

Current(t, r) == IF r \in DOMAIN t.writes THEN t.writes[r] ELSE table[r]
\* Document::store_index_data calls consume when the value changes.  (The write of a
\* record that was written since the transaction began ends in Cancel.)
Changes(t, r, v) == v # Current(t, r) /\ <<r>> \notin t.dirty
Written(t, r, v) ==
    [t EXCEPT !.pc = "open",
              !.writes = [q \in DOMAIN t.writes \cup {r} |-> IF q = r THEN v ELSE t.writes[q]]]

\* IndexOperation::compute in the user transaction.  delc of an old entry acts only
\* on what the snapshot (or the transaction itself) has; a count is added to or
\* subtracted from, whatever it is.
IndexNormally(t, r, v) ==
    LET new == EntriesOf(r, v)
        old == EntriesOf(r, Current(t, r))
        found == {e \in old : e \in t.put \/ (t.snap[e] = 1 /\ e \notin t.del)}
    IN  IF kind = "Count"
        THEN [Written(t, r, v) EXCEPT !.put = (@ \ old) \cup (new \ t.del),
                                      !.del = (@ \ new) \cup (old \ t.put)]
        ELSE [Written(t, r, v) EXCEPT !.put = (@ \ found) \cup new,
                                      !.del = (@ \cup found) \ new]

\* The index after the entries `put' are added and `del' removed.
Indexed(put, del) ==
    [e \in Entry |-> CASE e \in put -> IF kind = "Count" THEN index[e] + 1 ELSE 1
                      [] e \in del \ put -> IF kind = "Count" THEN index[e] - 1 ELSE 0
                      [] OTHER -> index[e]]

\* Variant: the mark points after the mutation.
EnqueueMarkedAfter(t, r, v) ==
    LET seq == Cardinality(t.queue)
        a == [gen |-> t.gen, ticket |-> t.ticket, seq |-> seq, rec |-> r,
              old |-> Current(t, r), new |-> v]
        m == [gen |-> t.gen, rec |-> r, ticket |-> t.ticket, seq |-> seq + 1]
        marked == \E p \in bp \cup t.marks : MarkKey(p) = MarkKey(m)
    IN  [Written(t, r, v) EXCEPT !.queue = @ \cup {a}, !.snap = NoEntries, !.opened = 0,
                                 !.marks = IF t.complete \/ marked THEN @ ELSE @ \cup {m}]

\* write_admitted_mutation: the mutation, and the mark of its record unless there
\* is one.  A mark that was deleted since the snapshot is still read.
Enqueue(t, r, v) ==
    LET seq == Cardinality(t.queue)
        a == [gen |-> t.gen, ticket |-> t.ticket, seq |-> seq, rec |-> r,
              old |-> Current(t, r), new |-> v]
        m == [gen |-> t.gen, rec |-> r, ticket |-> t.ticket, seq |-> seq]
        marked == \/ MarkKey(m) \in t.dirty
                  \/ \E p \in bp \cup t.marks : MarkKey(p) = MarkKey(m)
    IN  [Written(t, r, v) EXCEPT !.queue = @ \cup {a}, !.snap = NoEntries, !.opened = 0,
                                 !.marks = IF t.complete \/ marked THEN @ ELSE @ \cup {m}]

\* What the write indexes in the transaction itself is assumed to be in its snapshot.
SnapshotCurrent(t) == LongTransactions \/ t.opened = bs.gen

\* A write of a transaction that does not know the index.
MutateUnseen(w, r, v) ==
    /\ tx[w].pc = "open" /\ ~tx[w].sees
    /\ Changes(tx[w], r, v)
    /\ tx' = [tx EXCEPT ![w] = Written(@, r, v)]
    /\ UNCHANGED <<kind, table, index, catalog, bs, bg, bp, br, task, runs, inactive>>

\* consume without a reservation: reserve_durable_admission reads !bs in a transaction
\* of its own.  The index is ready ...
MutateReady(w, r, v) ==
    /\ tx[w].pc = "open" /\ tx[w].sees /\ tx[w].gen = 0
    /\ Changes(tx[w], r, v)
    /\ bs.phase \in {"none", "Online"} /\ SnapshotCurrent(tx[w])
    /\ tx' = [tx EXCEPT ![w] = IndexNormally(@, r, v)]
    /\ UNCHANGED <<kind, table, index, catalog, bs, bg, bp, br, task, runs, inactive>>

\* ... or is being built and gives a ticket, or has failed.  In Closing it waits.
Reserve(w) ==
    LET t == tx[w] IN
    /\ t.pc = "open" /\ t.sees /\ t.gen = 0
    /\ \/ /\ bs.phase = "Error"
          /\ tx' = [tx EXCEPT ![w] = IdleTx]
          /\ UNCHANGED <<bs, br, task>>
       \/ /\ bs.phase = "Building" /\ bs.ticket <= MaxTicket
          /\ bs' = [bs EXCEPT !.ticket = @ + 1]
          /\ br' = br \cup {[gen |-> bs.gen, ticket |-> bs.ticket, node |-> w]}
          /\ tx' = [tx EXCEPT ![w] = [t EXCEPT !.pc = "fence", !.gen = bs.gen,
                                               !.ticket = bs.ticket,
                                               !.complete = bs.complete]]
          /\ task' = DirtyTask({<<"bs">>})
    /\ UNCHANGED <<kind, table, index, catalog, bg, bp, runs, inactive>>

Mine(w) == {x \in br : x.gen = tx[w].gen /\ x.ticket = tx[w].ticket}

\* fence_durable_admission: read !bs again before the mutation is queued.
Fence(w, r, v) ==
    LET t == tx[w] IN
    /\ t.pc = "fence"
    /\ Changes(t, r, v)
    /\ \/ /\ bs.gen = t.gen /\ Active
          /\ tx' = [tx EXCEPT ![w] = Enqueue(t, r, v)]
          /\ UNCHANGED br
       \/ /\ bs.gen = t.gen /\ bs.phase = "Online"
          /\ SnapshotCurrent(t)
          /\ br' = br \ Mine(w)
          /\ tx' = [tx EXCEPT ![w] = IndexNormally([t EXCEPT !.gen = 0], r, v)]
       \/ /\ bs.gen # t.gen \/ bs.phase = "Error"
          /\ tx' = [tx EXCEPT ![w] = Closed(t)]
          /\ UNCHANGED br
    /\ UNCHANGED <<kind, table, index, catalog, bs, bg, bp, task, runs, inactive>>

\* consume with a reservation: recheck_cached_admission, then queue under the cached
\* ticket; or the transaction fails.
MutateCached(w, r, v) ==
    /\ tx[w].pc = "open" /\ tx[w].gen > 0
    /\ Changes(tx[w], r, v) /\ Cardinality(tx[w].queue) < MaxSeq
    /\ tx' = [tx EXCEPT ![w] = IF bs.gen = tx[w].gen /\ Active THEN Enqueue(@, r, v)
                               ELSE Closed(@)]
    /\ UNCHANGED <<kind, table, index, catalog, bs, bg, bp, br, task, runs, inactive>>

\* Transaction::commit, when no key it wrote was written since it began.
Commit(w) ==
    LET t == tx[w] IN
    /\ t.pc = "open" /\ t.writes # << >>
    /\ KeysOf(t) \cap t.dirty = {}
    /\ table' = [r \in Rec |-> Current(t, r)]
    /\ index' = Indexed(t.put, t.del)
    /\ bg' = bg \cup t.queue
    /\ bp' = bp \cup t.marks
    /\ tx' = [DirtyTx(KeysOf(t)) EXCEPT ![w] = Closed(t)]
    /\ task' = DirtyTask(KeysOf(t))
    /\ UNCHANGED <<kind, catalog, bs, br, runs, inactive>>

\* Transaction::cancel, or a commit that fails.
Cancel(w) ==
    /\ Open(w)
    /\ tx' = [tx EXCEPT ![w] = Closed(@)]
    /\ UNCHANGED <<kind, table, index, catalog, bs, bg, bp, br, task, runs, inactive>>

\* IndexBuildReservationRelease::release, after the transaction is closed.
Release(w) ==
    /\ tx[w].pc = "release"
    /\ br' = br \ Mine(w)
    /\ tx' = [tx EXCEPT ![w] = IdleTx]
    /\ UNCHANGED <<kind, table, index, catalog, bs, bg, bp, task, runs, inactive>>

\* Variant: a failed build keeps its owner.
FailedKeepingOwner(s) == [s EXCEPT !.phase = "Error"]

Failed(s) == [s EXCEPT !.phase = "Error", !.owner = NoOwner]

\* The release fails: mark_build_error_if_uncommitted.
ReleaseFails(w) ==
    LET t == tx[w] IN
    /\ t.pc = "release"
    /\ tx' = [tx EXCEPT ![w] = IdleTx]
    /\ IF /\ Mine(w) # {} /\ bs.gen = t.gen /\ Active
          /\ \A a \in bg : ~(a.gen = t.gen /\ a.ticket = t.ticket)
       THEN bs' = Failed(bs) /\ task' = DirtyTask({<<"bs">>})
       ELSE UNCHANGED <<bs, task>>
    /\ UNCHANGED <<kind, table, index, catalog, bg, bp, br, runs, inactive>>

\* The writer's node stops and leaves its reservation (if it has none, this is Cancel).
Crash(w) ==
    /\ tx[w].pc # "idle" /\ tx[w].gen > 0
    /\ tx' = [tx EXCEPT ![w] = [IdleTx EXCEPT !.pc = "crashed"]]
    /\ UNCHANGED <<kind, table, index, catalog, bs, bg, bp, br, task, runs, inactive>>

\* The node's record is archived and the TTL of its reservation has passed.
Archive(w) ==
    /\ w \notin inactive
    /\ PausedNodes \/ tx[w].pc = "crashed"
    /\ inactive' = inactive \cup {w}
    /\ UNCHANGED <<kind, table, index, catalog, bs, bg, bp, br, tx, task, runs>>

----------------------------------------------------------------------------
(* Builder tasks. *)

Starting(b) == task[b].pc \in {"drain", "publish"}

\* acquire_build_state, called by DEFINE INDEX or REBUILD INDEX, when no build is
\* active.  (It returns when one is, and takes over when its owner's lease is over.)
Acquire(b) ==
    /\ task[b].pc = "idle"
    /\ ~Active /\ runs < MaxRuns
    /\ OverlappingAcquires \/ \A c \in Builder : ~Starting(c)
    /\ \/ catalog = "defined" /\ UNCHANGED catalog
       \/ /\ catalog = "absent" /\ catalog' = "open"
          /\ UnseenWriters \/ \A w \in Writer : ~Open(w)
    /\ task' = [task EXCEPT ![b].pc = "drain"]
    /\ UNCHANGED <<kind, table, index, bs, bg, bp, br, tx, runs, inactive>>

\* A reservation is retired when its transaction has committed, or its node is
\* dead (reservation_node_is_live).
Retirable(x) ==
    \/ \E a \in bg : a.gen = x.gen /\ a.ticket = x.ticket
    \/ x.node \in inactive

\* wait_for_prior_generation_reservations, one round.
DrainPrior(b) ==
    /\ task[b].pc = "drain"
    /\ \/ /\ br = {}
          /\ task' = [task EXCEPT ![b].pc = "publish"]
          /\ UNCHANGED br
       \/ /\ \E x \in br : Retirable(x)
          /\ br' = {x \in br : ~Retirable(x)}
          /\ UNCHANGED task
    /\ UNCHANGED <<kind, table, index, catalog, bs, bg, bp, tx, runs, inactive>>

\* The new generation: wipe the queues and publish it, unless a build has become
\* active meanwhile.
Publish(b) ==
    /\ task[b].pc = "publish"
    /\ \/ /\ Active
          /\ task' = [task EXCEPT ![b] = IdleTask]
          /\ UNCHANGED <<bs, bg, bp, br, runs>>
       \/ /\ ~Active
          /\ runs < MaxRuns /\ runs' = runs + 1
          /\ LongTransactions \/ kind = "Idx" \/ \A w \in Writer : tx[w].put \cup tx[w].del = {}
          /\ bs' = [NoState EXCEPT !.gen = bs.gen + 1, !.phase = "Building", !.owner = b]
          /\ bg' = {} /\ bp' = {} /\ br' = {}
          /\ task' = [task EXCEPT ![b] = [IdleTask EXCEPT !.pc = "clean", !.gen = bs.gen + 1]]
    /\ UNCHANGED <<kind, table, index, catalog, tx, inactive>>

\* takeover_expired_build_state (resume_stalled, wait_for_remote_building,
\* acquire_build_state): the same generation goes on where it was.
TakeOver(b) ==
    /\ task[b].pc = "idle" /\ catalog = "defined"
    /\ Active
    /\ runs < MaxRuns /\ runs' = runs + 1
    /\ bs' = [bs EXCEPT !.owner = b]
    /\ task' = [DirtyTask({<<"bs">>}) EXCEPT ![b] =
                  [IdleTask EXCEPT !.gen = bs.gen, !.resumed = bs.phase = "Closing",
                       !.pc = IF bs.phase = "Building" /\ ~bs.complete THEN "clean"
                              ELSE "replay1"]]
    /\ UNCHANGED <<kind, table, index, catalog, bg, bp, br, tx, inactive>>

Owns(b) == bs.gen = task[b].gen /\ bs.owner = b

\* run_acquired: delete the data of the index.
Clean(b) ==
    /\ task[b].pc = "clean"
    /\ Owns(b) /\ bs.phase = "Building"
    /\ index' = NoEntries
    /\ tx' = DirtyTx(EntryKeys({e \in Entry : index[e] # 0}))
    /\ task' = [task EXCEPT ![b].pc = "scan", ![b].todo = Rec]
    /\ UNCHANGED <<kind, table, catalog, bs, bg, bp, br, runs, inactive>>

\* The initial scan reads the next records in a read transaction ...
ReadBatch(b) ==
    /\ task[b].pc = "scan"
    /\ \E S \in (SUBSET task[b].todo) \ {{}} :
          task' = [task EXCEPT ![b].pc = "lookup", ![b].todo = @ \ S,
                     ![b].batch = [r \in S |-> table[r]]]
    /\ UNCHANGED <<kind, table, index, catalog, bs, bg, bp, br, tx, runs, inactive>>

MarkOf(g, r) == {m \in bp : m.gen = g /\ m.rec = r}
Pointed(m) == {a \in bg : a.gen = m.gen /\ a.ticket = m.ticket /\ a.seq = m.seq}

\* Variant: only the records that exist.
ToIndexExisting(t) == {r \in DOMAIN t.batch : t.batch[r] # None}

\* The records of the batch to be indexed: those that exist, and for Count those with
\* a mark that no longer do (index_missing_count_primary_appendings).
ToIndex(t) ==
    {r \in DOMAIN t.batch :
        t.batch[r] # None \/ (kind = "Count" /\ MarkOf(t.gen, r) # {})}

\* A record with a mark is indexed as its first writer saw it.
Seen(t, r) ==
    IF MarkOf(t.gen, r) = {} THEN t.batch[r]
    ELSE (CHOOSE a \in bg : \E m \in MarkOf(t.gen, r) : a \in Pointed(m)).old

\* ... then begins the write transaction, looks for marks ...
LookupBatch(b) ==
    LET t == task[b] IN
    /\ t.pc = "lookup"
    /\ Owns(b) /\ bs.phase = "Building"
    /\ \A r \in ToIndex(t) : \A m \in MarkOf(t.gen, r) : Pointed(m) # {}
    /\ task' = [task EXCEPT ![b].pc = "index",
                  ![b].keys = {[gen |-> t.gen, ticket |-> 0, seq |-> 0, rec |-> r,
                                old |-> None, new |-> Seen(t, r)] : r \in ToIndex(t)}]
    /\ UNCHANGED <<kind, table, index, catalog, bs, bg, bp, br, tx, runs, inactive>>

\* ... and commits.
IndexBatch(b) ==
    LET new == BatchEntries(task[b]) IN
    /\ task[b].pc = "index"
    /\ index' = Indexed(new, {})
    /\ tx' = DirtyTx(EntryKeys(new))
    /\ task' = [task EXCEPT ![b].pc = "scan", ![b].batch = << >>, ![b].keys = {}]
    /\ UNCHANGED <<kind, table, catalog, bs, bg, bp, br, runs, inactive>>

\* mark_durable_initial_complete
InitialComplete(b) ==
    /\ task[b].pc = "scan" /\ task[b].todo = {}
    /\ Owns(b)
    /\ bs' = [bs EXCEPT !.complete = TRUE]
    /\ task' = [task EXCEPT ![b].pc = "replay1"]
    /\ UNCHANGED <<kind, table, index, catalog, bg, bp, br, tx, runs, inactive>>

\* The index after replaying `keys' in the order of ticket and sequence.
Before(a, c) == a.ticket < c.ticket \/ (a.ticket = c.ticket /\ a.seq < c.seq)
Replayed(keys) ==
    LET puts(e) == {a \in keys : a.rec = e[1] /\ a.new = e[2]}
        dels(e) == {a \in keys : a.rec = e[1] /\ a.old = e[2]}
        last(e) == CHOOSE a \in puts(e) \cup dels(e) :
                      \A c \in puts(e) \cup dels(e) : ~Before(a, c)
    IN  [e \in Entry |->
            CASE kind = "Count" -> index[e] + Cardinality(puts(e)) - Cardinality(dels(e))
              [] kind = "Idx" /\ puts(e) \cup dels(e) # {} -> IF last(e) \in puts(e) THEN 1 ELSE 0
              [] OTHER -> index[e]]

AfterReplay(t) ==
    CASE t.pc = "replay1" -> IF t.resumed THEN "replay2" ELSE "closing"
      [] t.pc = "replay2" -> "wait"
      [] t.pc = "replay3" -> "online"

\* index_appending_loop: read the first keys of the queue; when there are none the
\* loop is over.  Both write a report, which only the owner can.
ReadQueue(b) ==
    LET t == task[b]
        queued == {a \in bg : a.gen = t.gen}
    IN  /\ t.pc \in {"replay1", "replay2", "replay3"} /\ t.keys = {}
        /\ Owns(b)
        /\ \/ /\ queued = {}
              /\ task' = [task EXCEPT ![b].pc = AfterReplay(t)]
           \/ \E c \in queued :
                 task' = [task EXCEPT ![b].keys = {a \in queued : ~Before(c, a)}]
        /\ UNCHANGED <<kind, table, index, catalog, bs, bg, bp, br, tx, runs, inactive>>

\* index_durable_appending_range
Replay(b) ==
    LET keys == task[b].keys
        marks == {m \in bp : m.gen = task[b].gen /\ \E a \in keys : a.rec = m.rec}
        changed == {e \in Entry : Replayed(keys)[e] # index[e]}
    IN  /\ task[b].pc \in {"replay1", "replay2", "replay3"} /\ keys # {}
        /\ Owns(b) /\ Active
        /\ index' = Replayed(keys)
        /\ bg' = bg \ keys
        /\ bp' = bp \ marks
        /\ br' = {x \in br : \A a \in keys : ~(a.gen = x.gen /\ a.ticket = x.ticket)}
        /\ tx' = DirtyTx(EntryKeys(changed) \cup {MarkKey(m) : m \in marks})
        /\ task' = [task EXCEPT ![b].keys = {}]
        /\ UNCHANGED <<kind, table, catalog, bs, runs, inactive>>

\* Variant: the phase is written by any task of the generation.
MarkClosingUnowned(b) ==
    /\ task[b].pc = "closing"
    /\ bs.gen = task[b].gen
    /\ bs' = [bs EXCEPT !.phase = "Closing", !.owner = b]
    /\ task' = [task EXCEPT ![b].pc = "replay2"]
    /\ UNCHANGED <<kind, table, index, catalog, bg, bp, br, tx, runs, inactive>>

\* mark_durable_closing: no more reservations.
MarkClosing(b) ==
    /\ task[b].pc = "closing"
    /\ Owns(b)
    /\ bs' = [bs EXCEPT !.phase = "Closing"]
    /\ task' = [task EXCEPT ![b].pc = "replay2"]
    /\ UNCHANGED <<kind, table, index, catalog, bg, bp, br, tx, runs, inactive>>

\* Variant: a reservation that no mutation was committed for is not waited for.
WaitReservationsNot(b) ==
    /\ task[b].pc = "wait"
    /\ task' = [task EXCEPT ![b].pc = "replay3"]
    /\ UNCHANGED <<kind, table, index, catalog, bs, bg, bp, br, tx, runs, inactive>>

\* wait_for_durable_reservations, one round.
WaitReservations(b) ==
    LET held == {x \in br : x.gen = task[b].gen} IN
    /\ task[b].pc = "wait"
    /\ \/ /\ held = {}
          /\ task' = [task EXCEPT ![b].pc = "replay3"]
          /\ UNCHANGED br
       \/ /\ Owns(b) /\ bs.phase = "Closing"
          /\ held # {}
          /\ br' = br \ {x \in held : Retirable(x)}
          /\ UNCHANGED task
    /\ UNCHANGED <<kind, table, index, catalog, bs, bg, bp, tx, runs, inactive>>

\* mark_durable_online
MarkOnline(b) ==
    /\ task[b].pc = "online"
    /\ Owns(b)
    /\ bs' = [bs EXCEPT !.phase = "Online", !.owner = NoOwner, !.complete = TRUE]
    /\ task' = [task EXCEPT ![b] = IdleTask]
    /\ UNCHANGED <<kind, table, index, catalog, bg, bp, br, tx, runs, inactive>>

Running(b) == task[b].pc \notin {"idle", "drain", "publish"}

\* The task stops: on an error (mark_durable_error, which only the owner can, and
\* which may fail too), on an abort, with its node, or because it finds that it no
\* longer owns the build.
Stop(b) ==
    /\ task[b].pc # "idle"
    /\ task' = [task EXCEPT ![b] = IdleTask]
    /\ \/ UNCHANGED bs
       \/ Running(b) /\ Owns(b) /\ bs' = Failed(bs)
    /\ UNCHANGED <<kind, table, index, catalog, bg, bp, br, tx, runs, inactive>>

----------------------------------------------------------------------------
\* The transaction of DEFINE INDEX commits once its build has begun ...
DefineCommit ==
    /\ catalog = "open" /\ bs # NoState
    /\ catalog' = "defined"
    /\ UNCHANGED <<kind, table, index, bs, bg, bp, br, tx, task, runs, inactive>>

\* ... or is rolled back: cancelled, or its commit fails.
DefineRollback ==
    /\ catalog = "open" /\ \A b \in Builder : ~Starting(b)
    /\ catalog' = "undone"
    /\ UNCHANGED <<kind, table, index, bs, bg, bp, br, tx, task, runs, inactive>>

\* Variant: the build state is left behind.
CleanupKeepingState ==
    /\ catalog = "undone" /\ catalog' = "gone"
    /\ index' = NoEntries /\ bg' = {} /\ bp' = {} /\ br' = {}
    /\ UNCHANGED <<kind, table, tx, task, runs, inactive, bs>>

\* PendingUncommittedIndexBuild::cleanup, in a transaction of its own, while the build
\* it belongs to may go on ...
Cleanup ==
    /\ catalog = "undone" /\ catalog' = "gone"
    /\ bs' = NoState
    /\ index' = NoEntries /\ bg' = {} /\ bp' = {} /\ br' = {}
    /\ task' = DirtyTask({<<"bs">>})
    /\ UNCHANGED <<kind, table, tx, runs, inactive>>

\* ... and which is not tried again after an error other than a conflict, nor when the
\* node stops: what was built stays.
CleanupFails ==
    /\ catalog = "undone" /\ catalog' = "orphaned"
    /\ UNCHANGED <<kind, table, index, bs, bg, bp, br, tx, task, runs, inactive>>

WriterStep(w) ==
    \/ Begin(w) \/ Reserve(w) \/ Commit(w) \/ Cancel(w) \/ Release(w) \/ ReleaseFails(w)
    \/ Crash(w) \/ Archive(w)
    \/ \E r \in Rec, v \in Value \cup {None} :
          \/ MutateUnseen(w, r, v) \/ MutateReady(w, r, v) \/ Fence(w, r, v)
          \/ MutateCached(w, r, v)

BuilderStep(b) ==
    \/ Acquire(b) \/ DrainPrior(b) \/ Publish(b) \/ TakeOver(b)
    \/ Clean(b) \/ ReadBatch(b) \/ LookupBatch(b) \/ IndexBatch(b) \/ InitialComplete(b)
    \/ ReadQueue(b) \/ Replay(b) \/ MarkClosing(b) \/ WaitReservations(b)
    \/ MarkOnline(b) \/ Stop(b)

Next ==
    \/ \E w \in Writer : WriterStep(w)
    \/ \E b \in Builder : BuilderStep(b)
    \/ DefineCommit \/ DefineRollback \/ Cleanup \/ CleanupFails

Spec == Init /\ [][Next]_vars

----------------------------------------------------------------------------
\* The definition is rolled back: no transaction maintains the index any more.
RolledBack == catalog \in {"undone", "gone", "orphaned"}

\* An index that queries may use has exactly the entries of its table, whatever
\* transactions committed during the scan, the replay and the switch, and however
\* often the build was restarted or taken over.
OnlineMatchesTable == bs.phase = "Online" /\ ~RolledBack => index = Entries(table)

\* Once the scan of a Count index is complete, a record counts for what its first
\* queued mutation will subtract, and for what it is in the table if none is queued:
\* the replay never subtracts what was not counted, nor counts twice, although the
\* scan has read the records at other times than their writers, in several batches.
CountBaseline ==
    kind = "Count" /\ Active /\ bs.complete /\ ~RolledBack =>
        \A r \in Rec :
            LET queued == {a \in bg : a.gen = bs.gen /\ a.rec = r}
                state == IF queued = {} THEN table[r]
                         ELSE (CHOOSE a \in queued : \A c \in queued : ~Before(c, a)).old
            IN  \A v \in Value : index[<<r, v>>] = IF v = state THEN 1 ELSE 0

\* "Durable appending record is missing" (CorruptedIndex) cannot arise: while the
\* scan may read the mark of a record, the mutation it points to is in the queue.
MarksResolve ==
    Active /\ ~bs.complete =>
        \A m \in bp : m.gen = bs.gen => Pointed(m) # {}

\* After the cleanup of a DEFINE INDEX that was rolled back nothing of it is left, and
\* nothing comes back, although its builder task may be anywhere in the build and goes
\* on until it notices.  (After a cleanup that failed all of it may be left.)
RollbackIsComplete ==
    catalog = "gone" => bs = NoState /\ index = NoEntries /\ bg = {} /\ bp = {} /\ br = {}

\* Generations and phases only go forward: a generation ends in Online, through
\* Closing, or in Error, and no task brings one back, stale or not.
PhaseForward ==
    [][\/ bs'.gen = bs.gen /\ bs'.phase = bs.phase
       \/ bs'.gen = bs.gen /\ <<bs.phase, bs'.phase>> \in
             {<<"Building", "Closing">>, <<"Closing", "Online">>,
              <<"Building", "Error">>, <<"Closing", "Error">>}
       \/ bs'.gen = bs.gen + 1 /\ bs'.phase = "Building" /\ ~Active
       \/ bs' = NoState /\ catalog' = "gone"]_bs
=============================================================================

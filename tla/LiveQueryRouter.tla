-------------------------- MODULE LiveQueryRouter --------------------------
(***************************************************************************)
(* Live queries under the Router engine (lq/).  A write to a table that    *)
(* has a live query leaves an event in the lqe keyspace, keyed by the      *)
(* versionstamp its commit took; a pass of the node's router replays the   *)
(* events above its cursor to the live queries; garbage collection drops   *)
(* the old ones.  The live queries of a table are cached on the node.      *)
(*                                                                         *)
(* A transaction opens (its snapshot), writes, takes its versionstamp and  *)
(* commits in separate steps, as a pass opens its read transaction and     *)
(* then asks for the watermark.  The stamps the passes draw are not        *)
(* counted: only the order among the events' stamps and the watermarks     *)
(* matters.  The history variables record the three races in which an      *)
(* event is not sent: late, lost and raced.                                *)
(***************************************************************************)
EXTENDS Naturals, FiniteSets

CONSTANTS Table, Query, Writer,
          TableOf,    \* the table each live query selects from
          None,       \* no table
          MaxStamp,   \* bound: the versionstamps commits take
          MaxWidth,   \* bound: the tables one transaction writes and captures
          MaxKills,   \* bound: a query is killed when fewer have ended
          Removable   \* bound: the tables that are removed

ASSUME LiveQueryRouterAssumption ==
    /\ TableOf \in [Query -> Table] /\ None \notin Table
    /\ MaxStamp \in Nat /\ MaxWidth \in Nat /\ MaxKills \in Nat
    /\ Removable \subseteq Table

VARIABLES tables,    \* the tables that are defined
          live,      \* each live query: "new", "opening", "live" or "dead"
          cache,     \* the cached list of a table's live queries, if there is one
          clock,     \* the last versionstamp a commit took
          lqe,       \* the stored events
          tx,        \* the write transactions
          cursor,    \* the router's: every event up to it is dealt with
          pass,      \* the router's pass
          delivered, \* history: how often an event was sent, up to twice
          failed,    \* history: whether a pass has failed
          captured,  \* history: every event that was committed
          late,      \* history: stamps of commits that were not in the snapshot of
                     \* the pass whose watermark took the cursor past them
          lost,      \* history: events collected while they were above the cursor
          raced      \* history: queries left out of a list that was loaded after
                     \* their LIVE SELECT had refreshed it

sent == <<delivered, failed>>
races == <<late, lost, raced>>
vars == <<tables, live, cache, clock, lqe, tx, cursor, pass, captured, sent, races>>

Stamp == 1..MaxStamp

\* An event, with the live queries that its transaction saw on the table.
Event == [vs : Stamp, tb : Table, watchers : SUBSET Query]

NoTx == [phase |-> "none", live |-> {}, watched |-> [t \in Table |-> {}], vs |-> 0]
NoPass == [phase |-> "none", tables |-> {}, live |-> {}, lqe |-> {}, late |-> {},
           vs |-> 0, tb |-> None, to |-> {}]

\* The live queries in the snapshot of a transaction, and what it has buffered.
Tx == [phase : {"none", "open", "stamped"}, live : SUBSET Query,
       watched : [Table -> SUBSET Query], vs : 0..MaxStamp]
Pass == [phase : {"none", "open", "replay"}, tables : SUBSET Table,
         live : SUBSET Query, lqe : SUBSET Event, late : SUBSET Stamp,
         vs : 0..MaxStamp, tb : Table \cup {None}, to : SUBSET Query]

TypeOK ==
    /\ tables \subseteq Table
    /\ live \in [Query -> {"new", "opening", "live", "dead"}]
    /\ cache \in [Table -> SUBSET SUBSET Query]
    /\ \A t \in Table : \A k, l \in cache[t] : k = l
    /\ clock \in 0..MaxStamp /\ cursor \in 0..MaxStamp
    /\ lqe \subseteq Event
    /\ tx \in [Writer -> Tx] /\ pass \in Pass
    /\ delivered \in [Query -> [Stamp -> 0..2]] /\ failed \in BOOLEAN
    /\ captured \subseteq Event /\ late \subseteq Stamp
    /\ lost \subseteq Event /\ raced \subseteq Query

Init ==
    /\ tables = Table /\ live = [q \in Query |-> "new"]
    /\ cache = [t \in Table |-> {}]
    /\ clock = 0 /\ lqe = {} /\ tx = [w \in Writer |-> NoTx]
    /\ cursor = 0 /\ pass = NoPass
    /\ failed = FALSE
    /\ delivered = [q \in Query |-> [v \in Stamp |-> 0]]
    /\ captured = {} /\ late = {} /\ lost = {} /\ raced = {}

----------------------------------------------------------------------------
Registered == {q \in Query : live[q] = "live"}

\* The live queries of a table, in a snapshot.
On(t, seen) == {q \in seen : TableOf[q] = t}

\* Variant: what is cached stays.
RefreshNot(t) == cache' = cache

\* set_live_queries_version: what is cached of t is not looked up any more.
Refresh(t) == cache' = [cache EXCEPT ![t] = {}]

\* NsDbTbMutCtx::load, by a transaction that sees the live queries `seen'.
Loaded(t, seen) == IF cache[t] = {} THEN {On(t, seen)} ELSE cache[t]

\* The queries whose LIVE SELECT has refreshed the list that is loaded here without
\* them: it had not committed when this transaction opened.
Overtaken(t, seen) ==
    {q \in Query \ seen : /\ cache[t] = {} /\ TableOf[q] = t
                           /\ live[q] \in {"opening", "live"}}

Load(t, seen) == /\ cache' = [cache EXCEPT ![t] = Loaded(t, seen)]
                 /\ raced' = raced \cup Overtaken(t, seen)

\* LIVE SELECT registers the query and refreshes the cache ...
Live(q) ==
    /\ live[q] = "new" /\ TableOf[q] \in tables
    /\ live' = [live EXCEPT ![q] = "opening"]
    /\ Refresh(TableOf[q])
    /\ UNCHANGED <<tables, clock, lqe, tx, cursor, pass, captured, sent, races>>

\* ... and then commits.  It has only read the table's definition: one that overlaps
\* with REMOVE TABLE may succeed or fail.
LiveCommit(q) ==
    /\ live[q] = "opening"
    /\ \/ live' = [live EXCEPT ![q] = "live"]
       \/ TableOf[q] \notin tables /\ live' = [live EXCEPT ![q] = "dead"]
    /\ UNCHANGED <<tables, cache, clock, lqe, tx, cursor, pass, captured, sent, races>>

\* KILL, or the client disconnects (delete_queries), which leaves the cache as it is.
Kill(q) ==
    /\ live[q] = "live" /\ Cardinality({p \in Query : live[p] = "dead"}) < MaxKills
    /\ live' = [live EXCEPT ![q] = "dead"]
    /\ Refresh(TableOf[q]) \/ UNCHANGED cache
    /\ UNCHANGED <<tables, clock, lqe, tx, cursor, pass, captured, sent, races>>

\* REMOVE TABLE: the live queries of t go with it, its events stay.
RemoveTable(t) ==
    /\ t \in tables \cap Removable
    /\ tables' = tables \ {t}
    /\ live' = [q \in Query |-> IF q \in On(t, Registered) THEN "dead"
                                                           ELSE live[q]]
    /\ Refresh(t)
    /\ UNCHANGED <<clock, lqe, tx, cursor, pass, captured, sent, races>>

\* A transaction opens: its snapshot.
OpenTx(w) ==
    /\ tx[w].phase = "none" /\ clock < MaxStamp
    /\ tx' = [tx EXCEPT ![w] = [phase |-> "open", live |-> Registered,
                                watched |-> [t \in Table |-> {}], vs |-> 0]]
    /\ UNCHANGED <<tables, live, cache, clock, lqe, cursor, pass, captured, sent, races>>

\* It writes table t: it loads the list of t, and process_live_events captures an
\* event when t has a live query in the snapshot.
Write(w, t) ==
    /\ tx[w].phase = "open" /\ (t \in tables \/ On(t, tx[w].live) # {})
    /\ Cardinality({u \in Table \ {t} : tx[w].watched[u] # {}}) < MaxWidth
    /\ Load(t, tx[w].live)
    /\ tx' = [tx EXCEPT ![w].watched[t] = On(t, tx[w].live)]
    /\ UNCHANGED <<tables, live, clock, lqe, cursor, pass, captured, sent, late, lost>>

\* commit, first store_changes: the versionstamp is taken, if there are events.
TakeStamp(w) ==
    /\ tx[w].phase = "open" /\ clock < MaxStamp
    /\ \E t \in Table : tx[w].watched[t] # {}
    /\ clock' = clock + 1
    /\ tx' = [tx EXCEPT ![w] = [phase |-> "stamped", live |-> {},
                                watched |-> tx[w].watched, vs |-> clock + 1]]
    /\ UNCHANGED <<tables, live, cache, lqe, cursor, pass, captured, sent, races>>

\* Variant: the events are keyed by the stamp before the one the commit took.
CapturedEarly(w) ==
    {[vs |-> tx[w].vs - 1, tb |-> t, watchers |-> tx[w].watched[t]] :
        t \in {u \in Table : tx[w].watched[u] # {}}}

Captured(w) ==
    {[vs |-> tx[w].vs, tb |-> t, watchers |-> tx[w].watched[t]] :
        t \in {u \in Table : tx[w].watched[u] # {}}}

\* commit, then the engine's: the events become visible.
Commit(w) ==
    /\ tx[w].phase = "stamped"
    /\ lqe' = lqe \cup Captured(w) /\ captured' = captured \cup Captured(w)
    /\ tx' = [tx EXCEPT ![w] = NoTx]
    /\ UNCHANGED <<tables, live, cache, clock, cursor, pass, sent, races>>

\* cancel, a commit without events, or one the engine refuses.
Abort(w) ==
    /\ tx[w].phase # "none"
    /\ tx' = [tx EXCEPT ![w] = NoTx]
    /\ UNCHANGED <<tables, live, cache, clock, lqe, cursor, pass, captured, sent, races>>

----------------------------------------------------------------------------
\* process opens its read transaction.
OpenPass ==
    /\ pass.phase = "none"
    /\ pass' = [NoPass EXCEPT !.phase = "open", !.tables = tables,
                  !.live = Registered, !.lqe = lqe]
    /\ UNCHANGED <<tables, live, cache, clock, lqe, tx, cursor, captured, sent, races>>

\* safe_timestamp: no engine overrides the default, the clock.
SafeTimestamp == clock

\* The commits up to the watermark that the snapshot of the pass does not hold.
Unseen == {v \in Stamp : /\ cursor < v /\ v <= SafeTimestamp
                         /\ \/ \E w \in Writer : tx[w].phase = "stamped" /\ tx[w].vs = v
                            \/ \E e \in lqe \ pass.lqe : e.vs = v}

\* Variant: events at the cursor are read again.
UndeliveredFrom == {e \in pass.lqe : e.vs >= cursor /\ e.vs <= SafeTimestamp}

Undelivered == {e \in pass.lqe : e.vs > cursor /\ e.vs <= SafeTimestamp}

\* The watermark and the scan, or the early return when nothing is new.
Scan ==
    /\ pass.phase = "open"
    /\ pass' = IF SafeTimestamp <= cursor THEN NoPass
               ELSE [pass EXCEPT !.phase = "replay", !.vs = SafeTimestamp,
                                 !.lqe = Undelivered, !.late = Unseen]
    /\ UNCHANGED <<tables, live, cache, clock, lqe, tx, cursor, captured, sent, races>>

\* The tables that are left, one after the other in any order.
Turn(t) == pass.phase = "replay" /\ pass.tb = None /\ \E e \in pass.lqe : e.tb = t

\* replay_table_live_events loads the live queries of the table, from the cache or
\* from the snapshot of the pass.
OpenTable(t) ==
    /\ Turn(t) /\ t \in pass.tables
    /\ Load(t, pass.live)
    /\ pass' = [pass EXCEPT !.tb = t, !.to = UNION Loaded(t, pass.live)]
    /\ UNCHANGED <<tables, live, clock, lqe, tx, cursor, captured, sent, late, lost>>

\* Variant: the order of the scan is lost.
NextAny(e) == e \in pass.lqe

\* Events of a table are replayed in the order of the scan.
NextEvent(e) == \A f \in pass.lqe : f.tb = e.tb => e.vs <= f.vs

\* replay_live_event: one event goes to the table's live queries.
Replay(e) ==
    LET left == pass.lqe \ {e}
        last == \A f \in left : f.tb # e.tb
    IN
    /\ pass.phase = "replay" /\ e \in pass.lqe /\ pass.tb = e.tb /\ NextEvent(e)
    /\ pass' = [pass EXCEPT !.lqe = left, !.tb = IF last THEN None ELSE @,
                            !.to = IF last THEN {} ELSE @]
    /\ delivered' = [q \in Query |-> [v \in Stamp |->
                        IF q \in pass.to /\ v = e.vs
                        THEN IF failed \/ delivered[q][v] = 0 THEN 1 ELSE 2
                        ELSE delivered[q][v]]]
    /\ UNCHANGED <<tables, live, cache, clock, lqe, tx, cursor, failed, captured, races>>

\* All is replayed: the cursor advances to the watermark.
Finish ==
    /\ pass.phase = "replay" /\ pass.lqe = {}
    /\ cursor' = pass.vs /\ pass' = NoPass
    /\ late' = late \cup pass.late
    /\ UNCHANGED <<tables, live, cache, clock, lqe, tx, captured, sent, lost, raced>>

\* A pass that fails leaves the cursor where it is.
FailPass ==
    /\ pass' = NoPass /\ failed' = TRUE
    /\ UNCHANGED <<tables, live, cache, clock, lqe, tx, cursor, delivered, captured, races>>

\* replay_table_live_events expects the table, which has been removed.
TableGone(t) ==
    /\ Turn(t) /\ t \notin pass.tables
    /\ FailPass

\* Any read or replay may fail.  Bound: it does once, when the stamps are used up.
StorageError == pass.phase = "replay" /\ ~failed /\ clock = MaxStamp /\ FailPass

\* The retention (an hour; zero would turn collection off) outlasts the pass that
\* delivers an event, and a few that fail, but not a router a removed table stops.
Old == IF \E e \in lqe : e.tb \notin tables THEN clock ELSE cursor

Collected(gone) ==
    /\ gone # {} /\ lqe' = lqe \ gone
    /\ lost' = lost \cup {e \in gone : e.vs > cursor}
    /\ UNCHANGED <<tables, live, cache, clock, tx, cursor, pass, captured, sent, late, raced>>

\* Variant: events are collected while their table has a live query only.
CollectWatched(cut) ==
    /\ cut <= Old
    /\ Collected({e \in lqe : e.vs <= cut /\ On(e.tb, Registered) # {}})

\* gc_range.
Collect(cut) ==
    /\ cut <= Old
    /\ Collected({e \in lqe : e.vs <= cut})

ClientStep ==
    \/ \E q \in Query : Live(q) \/ LiveCommit(q) \/ Kill(q)
    \/ \E t \in Table : RemoveTable(t)

TxStep(w) == \/ OpenTx(w) \/ TakeStamp(w) \/ Commit(w) \/ Abort(w)
             \/ \E t \in Table : Write(w, t)

RouterStep == \/ OpenPass \/ Scan \/ Finish
              \/ \E e \in pass.lqe : Replay(e)
              \/ \E t \in Table : OpenTable(t) \/ TableGone(t)

GcStep == \E cut \in Stamp : Collect(cut)

Next == ClientStep \/ (\E w \in Writer : TxStep(w)) \/ RouterStep
        \/ StorageError \/ GcStep

\* Transactions end, the router ticks and the collection runs.
Fairness == /\ \A w \in Writer : WF_vars(Commit(w) \/ Abort(w))
            /\ \A q \in Query : WF_vars(LiveCommit(q))
            /\ WF_vars(RouterStep) /\ WF_vars(GcStep)

Spec == Init /\ [][Next]_vars /\ Fairness

----------------------------------------------------------------------------
\* The cursor is past event e, which was not sent to its watcher q.
Skipped(e, q) == e.vs <= cursor /\ live[q] = "live" /\ delivered[q][e.vs] = 0

(* An event the cursor has passed was sent to every live query that its    *)
(* transaction saw and that has not ended, except in three races: process  *)
(* took its watermark while the event's commit was in flight, gc_range     *)
(* dropped it before a router stopped by a removed table came to it, or    *)
(* the cached list was loaded by a transaction older than the LIVE SELECT. *)
NoneSkipped ==
    \A e \in captured : \A q \in e.watchers :
        Skipped(e, q) => e.vs \in late \/ e \in lost \/ q \in raced

(* safe_timestamp's contract: the cursor never passes a commit that becomes *)
(* visible later, so no event is skipped on that account.                   *)
WatermarkIsSafe ==
    \A e \in captured : \A q \in e.watchers :
        Skipped(e, q) => e \in lost \/ q \in raced

(* What process says of advancing the cursor: everything up to the          *)
(* watermark is delivered, so no live query is left out of the list that    *)
(* an event is replayed to.                                                 *)
ListsAreComplete ==
    \A e \in captured : \A q \in e.watchers :
        Skipped(e, q) => e.vs \in late \/ e \in lost

(* Nothing is sent twice, unless a pass has failed and is repeated.        *)
SentOnce == failed \/ \A q \in Query, v \in Stamp : delivered[q][v] < 2

(* A live query gets its events in the order of their versionstamps.       *)
InOrder ==
    [][failed \/ \A q \in Query, v \in Stamp :
          delivered'[q][v] > delivered[q][v]
              => \A u \in Stamp : u > v => delivered[q][u] = 0]_vars

(* The router deals with every event, also when a table was removed before *)
(* its events were replayed: it is stuck until these are collected.        *)
Recovers ==
    \A v \in Stamp : (\E e \in lqe : e.vs = v) ~> cursor >= v

=============================================================================

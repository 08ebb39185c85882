-------------------------- MODULE IndexBuildProofs --------------------------
(***************************************************************************)
(* Safety of IndexBuild that does not depend on how the deployment behaves: *)
(* types, phases, marks and rollback, for every set of writers, builder     *)
(* tasks, records and values, with paused nodes, long transactions and      *)
(* overlapping builds allowed.                                              *)
(***************************************************************************)
EXTENDS IndexBuild, FiniteSetTheorems, TLAPS

USE IndexBuildAssumption

(* The types of the records that a writer and a builder task keep.          *)
MaybeValue == Value \cup {None}
Partial == UNION {[S -> MaybeValue] : S \in SUBSET Rec}
Key == {<<r>> : r \in Rec} \cup Entry \cup {<<"bp", g, r>> : g \in 1..MaxRuns, r \in Rec}
         \cup {<<"bs">>}
TxType == [pc : {"idle", "open", "fence", "release", "crashed"}, sees : BOOLEAN,
           opened : Int, snap : [Entry -> Int], dirty : SUBSET Key,
           gen : 0..MaxRuns, ticket : 0..MaxTicket, complete : BOOLEAN,
           writes : Partial, queue : SUBSET Appending, marks : SUBSET Primary,
           put : SUBSET Entry, del : SUBSET Entry]
TaskType == [pc : {"idle", "drain", "publish", "clean", "scan", "lookup", "index",
                   "replay1", "closing", "replay2", "wait", "replay3", "online"},
             gen : 0..MaxRuns, resumed : BOOLEAN, todo : SUBSET Rec, batch : Partial,
             keys : SUBSET Appending]
StateType == [gen : 0..MaxRuns, phase : Phase, owner : Builder \cup {NoOwner},
              ticket : 0..(MaxTicket + 1), complete : BOOLEAN]

Replaying == {"replay1", "replay2", "replay3"}

(* A transaction: it queues nothing before the fence, and only one that     *)
(* knows the index; each of its marks points to a mutation it queues.       *)
TxCore(t) ==
    /\ t \in TxType
    /\ IsFiniteSet(t.queue) /\ (t.gen = 0 => t.queue = {})
    /\ ~t.sees => t.queue = {} /\ t.marks = {} /\ t.put = {} /\ t.del = {}
    /\ \A m \in t.marks : \E a \in t.queue : a.gen = m.gen /\ a.ticket = m.ticket /\ a.seq = m.seq
TxOK(t) ==
    /\ TxCore(t)
    /\ t.pc = "fence" => t.queue = {} /\ t.gen > 0 /\ t.sees
    /\ t.pc = "open" /\ t.gen > 0 => t.sees

(* A task: it keeps mutations only while it indexes a batch or replays.     *)
TaskOK(t) ==
    /\ t \in TaskType
    /\ t.pc \notin {"idle", "drain", "publish"} => t.gen > 0
    /\ t.pc \in Replaying => IsFiniteSet(t.keys)
    /\ t.pc \notin Replaying \cup {"index"} => t.keys = {}

(* The build state: a generation has begun once there is a phase, and an    *)
(* owner as long as it is active.                                           *)
StateOK ==
    /\ bs \in StateType
    /\ Active <=> bs.owner # NoOwner
    /\ bs.phase = "none" <=> bs.gen = 0
    /\ bs.phase = "none" => bs = NoState
    /\ bs.phase = "Closing" => bs.complete
    /\ bs.gen <= runs

Types ==
    /\ kind \in Kinds
    /\ table \in [Rec -> MaybeValue]
    /\ index \in [Entry -> Int]
    /\ catalog \in {"absent", "open", "defined", "undone", "gone", "orphaned"}
    /\ bg \in SUBSET Appending /\ IsFiniteSet(bg)
    /\ bp \in SUBSET Primary /\ br \in SUBSET Reservation
    /\ tx \in [Writer -> TxType] /\ \A w \in Writer : TxOK(tx[w])
    /\ task \in [Builder -> TaskType] /\ \A b \in Builder : TaskOK(task[b])
    /\ runs \in 0..MaxRuns /\ inactive \in SUBSET Writer

(* The owner of a generation knows how far it is: it replays when the scan  *)
(* is complete, and is past `closing' when the phase is.                    *)
OwnerOK ==
    \A b \in Builder :
        Owns(b) =>
            /\ task[b].pc \in Replaying \cup {"closing", "wait", "online"} => bs.complete
            /\ task[b].pc \in {"replay2", "wait", "replay3", "online"} => bs.phase = "Closing"
            /\ task[b].resumed => bs.phase = "Closing"

(* Unless the index is defined no transaction knows it, so nothing is queued; *)
(* no task begins a generation of one that was rolled back.                   *)
CatalogOK ==
    /\ catalog # "defined" =>
          /\ bg = {} /\ bp = {} /\ br = {}
          /\ \A w \in Writer : ~tx[w].sees /\ tx[w].gen = 0 /\ tx[w].pc \in {"idle", "open"}
    /\ catalog \in {"absent", "gone"} => bs = NoState
    /\ catalog \notin {"open", "defined"} => \A b \in Builder : ~Starting(b)
    /\ catalog = "gone" =>
          index = NoEntries /\ \A b \in Builder : task[b].pc # "index"

IInv == Types /\ StateOK /\ OwnerOK /\ CatalogOK /\ MarksResolve

----------------------------------------------------------------------------
(* What the operators of the model return. *)

(* A transaction and a task that have not begun are well-formed.            *)
LEMMA IdleOK == TxOK(IdleTx) /\ TaskOK(IdleTask)
<1>1. << >> \in Partial
  <2>1. << >> \in [{} -> MaybeValue]
    OBVIOUS
  <2> QED BY <2>1 DEF Partial
<1>2. NoEntries \in [Entry -> Int]
  BY DEF NoEntries
<1>3. IdleTx \in TxType
  BY <1>1, <1>2 DEF IdleTx, TxType
<1>4. IdleTask \in TaskType
  BY <1>1 DEF IdleTask, TaskType
<1> QED BY <1>3, <1>4, FS_EmptySet DEF TxOK, TxCore, TaskOK, IdleTx, IdleTask, Replaying

(* A transaction that is over queues and indexes nothing.                   *)
LEMMA ClosedOK ==
  ASSUME NEW t, TxOK(t)
  PROVE  /\ TxOK(Closed(t))
         /\ Closed(t).pc \in {"idle", "release"} /\ ~Closed(t).sees
         /\ Closed(t).gen = t.gen
         /\ t.gen = 0 => Closed(t) = IdleTx
         /\ t.gen > 0 => Closed(t).pc = "release" /\ Closed(t).ticket = t.ticket
<1>1. t \in TxType /\ t.gen \in 0..MaxRuns
  BY DEF TxOK, TxCore, TxType
<1>2. CASE t.gen = 0
  BY <1>2, <1>1, IdleOK DEF Closed, IdleTx
<1>3. CASE t.gen # 0
  <2> DEFINE c == [IdleTx EXCEPT !.pc = "release", !.gen = t.gen, !.ticket = t.ticket]
  <2>1. Closed(t) = c
    BY <1>3 DEF Closed
  <2>2. c \in TxType
    BY <1>1, IdleOK DEF TxOK, TxCore, TxType
  <2>3. /\ c.pc = "release" /\ c.gen = t.gen /\ c.ticket = t.ticket /\ c.sees = FALSE
        /\ c.queue = {} /\ c.marks = {} /\ c.put = {} /\ c.del = {}
    BY DEF IdleTx
  <2>4. TxOK(c)
    BY <2>2, <2>3, FS_EmptySet DEF TxOK, TxCore
  <2> HIDE DEF c
  <2> QED BY <2>1, <2>3, <2>4, <1>3, <1>1
<1> QED BY <1>2, <1>3

(* What a transaction writes are keys of the store.                         *)
LEMMA KeysOfType ==
  ASSUME NEW t, TxOK(t)
  PROVE  KeysOf(t) \subseteq Key
<1>1. t.writes \in Partial /\ t.put \subseteq Entry /\ t.del \subseteq Entry /\ t.marks \subseteq Primary
  BY DEF TxOK, TxCore, TxType
<1>2. DOMAIN t.writes \subseteq Rec
  BY <1>1 DEF Partial
<1>3. EntryKeys(t.put \cup t.del) \subseteq Entry
  BY <1>1 DEF EntryKeys
<1>4. \A m \in t.marks : MarkKey(m) \in Key
  BY <1>1 DEF MarkKey, Key, Primary
<1>5. {<<r>> : r \in DOMAIN t.writes} \subseteq Key
  BY <1>2 DEF Key
<1>6. Entry \subseteq Key
  BY DEF Key
<1> QED BY <1>3, <1>4, <1>5, <1>6 DEF KeysOf

(* DirtyTx leaves a transaction as it is, remembers keys or closes it.      *)
LEMMA DirtyTxOK ==
  ASSUME Types, NEW keys, keys \subseteq Key
  PROVE  /\ DirtyTx(keys) \in [Writer -> TxType]
         /\ \A w \in Writer :
               /\ TxOK(DirtyTx(keys)[w])
               /\ \/ ~Open(w) /\ DirtyTx(keys)[w] = tx[w]
                  \/ Open(w) /\ DirtyTx(keys)[w] = Closed(tx[w])
                  \/ Open(w) /\ DirtyTx(keys)[w] = [tx[w] EXCEPT !.dirty = @ \cup keys]
<1> DEFINE d == DirtyTx(keys)
<1>1. ASSUME NEW w \in Writer
      PROVE  \/ ~Open(w) /\ d[w] = tx[w]
             \/ Open(w) /\ d[w] = Closed(tx[w])
             \/ Open(w) /\ d[w] = [tx[w] EXCEPT !.dirty = @ \cup keys]
  BY DEF DirtyTx
<1>2. ASSUME NEW w \in Writer
      PROVE  TxOK(d[w])
  <2>1. TxOK(tx[w])
    BY DEF Types
  <2>2. TxOK(Closed(tx[w]))
    BY <2>1, ClosedOK
  <2>3. TxOK([tx[w] EXCEPT !.dirty = @ \cup keys])
    <3> DEFINE t == [tx[w] EXCEPT !.dirty = @ \cup keys]
    <3>1. t \in TxType
      BY <2>1 DEF TxOK, TxCore, TxType
    <3>2. /\ t.pc = tx[w].pc /\ t.gen = tx[w].gen /\ t.sees = tx[w].sees
          /\ t.queue = tx[w].queue /\ t.marks = tx[w].marks /\ t.put = tx[w].put
          /\ t.del = tx[w].del
      BY <2>1 DEF TxOK, TxCore, TxType
    <3> HIDE DEF t
    <3>3. TxOK(t)
      BY <2>1, <3>1, <3>2 DEF TxOK, TxCore
    <3> QED BY <3>3 DEF t
  <2> QED BY <1>1, <2>1, <2>2, <2>3
<1>3. d = [w \in Writer |-> d[w]]
  BY DEF DirtyTx
<1> HIDE DEF d
<1>4. d \in [Writer -> TxType]
  BY <1>2, <1>3 DEF TxOK, TxCore
<1> QED BY <1>1, <1>2, <1>4 DEF d

(* DirtyTask sends a batch back to the lookup, or leaves the task alone; no *)
(* batch survives a write of !bs.                                           *)
LEMMA DirtyTaskFields ==
  ASSUME Types, NEW keys, NEW b \in Builder, NEW u, u = DirtyTask(keys)[b]
  PROVE  /\ TaskOK(u) /\ u.gen = task[b].gen /\ u.resumed = task[b].resumed
         /\ u.todo = task[b].todo /\ u.batch = task[b].batch
         /\ \/ u.pc = task[b].pc /\ u.keys = task[b].keys
            \/ task[b].pc = "index" /\ u.pc = "lookup" /\ u.keys = {}
         /\ <<"bs">> \in keys => u.pc # "index"
<1>1. TaskOK(task[b]) /\ task[b] \in TaskType
  BY DEF Types, TaskOK
<1>2. CASE /\ task[b].pc = "index"
           /\ keys \cap ({<<"bs">>} \cup EntryKeys(BatchEntries(task[b]))) # {}
  <2>1. u = [task[b] EXCEPT !.pc = "lookup", !.keys = {}]
    BY <1>2 DEF DirtyTask
  <2>2. /\ u \in TaskType /\ u.pc = "lookup" /\ u.keys = {}
        /\ u.gen = task[b].gen /\ u.resumed = task[b].resumed
        /\ u.todo = task[b].todo /\ u.batch = task[b].batch
    BY <1>1, <2>1 DEF TaskType
  <2>3. TaskOK(u)
    BY <1>1, <1>2, <2>2 DEF TaskOK, Replaying
  <2> QED BY <1>2, <2>2, <2>3
<1>3. CASE ~ /\ task[b].pc = "index"
             /\ keys \cap ({<<"bs">>} \cup EntryKeys(BatchEntries(task[b]))) # {}
  <2>1. u = task[b]
    BY <1>3 DEF DirtyTask
  <2>2. <<"bs">> \in keys => task[b].pc # "index"
    BY <1>3
  <2> QED BY <1>1, <2>1, <2>2
<1> QED BY <1>2, <1>3

(* A commit of others keeps the tasks well-formed; at most it sends a batch *)
(* that was about to be indexed back to its lookup.                         *)
LEMMA DirtyTaskOK ==
  ASSUME Types, NEW keys, task' = DirtyTask(keys)
  PROVE  /\ task' \in [Builder -> TaskType]
         /\ \A b \in Builder :
               /\ TaskOK(task'[b]) /\ task'[b].gen = task[b].gen
               /\ task'[b].resumed = task[b].resumed
               /\ task'[b].todo = task[b].todo /\ task'[b].batch = task[b].batch
               /\ \/ task'[b].pc = task[b].pc /\ task'[b].keys = task[b].keys
                  \/ task[b].pc = "index" /\ task'[b].pc = "lookup" /\ task'[b].keys = {}
               /\ <<"bs">> \in keys => task'[b].pc # "index"
<1>1. ASSUME NEW b \in Builder
      PROVE  /\ TaskOK(task'[b]) /\ task'[b].gen = task[b].gen
             /\ task'[b].resumed = task[b].resumed
             /\ task'[b].todo = task[b].todo /\ task'[b].batch = task[b].batch
             /\ \/ task'[b].pc = task[b].pc /\ task'[b].keys = task[b].keys
                \/ task[b].pc = "index" /\ task'[b].pc = "lookup" /\ task'[b].keys = {}
             /\ <<"bs">> \in keys => task'[b].pc # "index"
  <2> DEFINE u == task'[b]
  <2>1. u = DirtyTask(keys)[b]
    OBVIOUS
  <2> HIDE DEF u
  <2>2. /\ TaskOK(u) /\ u.gen = task[b].gen /\ u.resumed = task[b].resumed
        /\ u.todo = task[b].todo /\ u.batch = task[b].batch
        /\ \/ u.pc = task[b].pc /\ u.keys = task[b].keys
           \/ task[b].pc = "index" /\ u.pc = "lookup" /\ u.keys = {}
        /\ <<"bs">> \in keys => u.pc # "index"
    BY <2>1, DirtyTaskFields
  <2> QED BY <2>2 DEF u
<1>2. task' = [b \in Builder |-> task'[b]]
  BY DEF DirtyTask
<1>3. task' \in [Builder -> TaskType]
  BY <1>1, <1>2 DEF TaskOK
<1> QED BY <1>1, <1>3

(* What a transaction reads of a record is a value or none.                 *)
LEMMA CurrentType ==
  ASSUME Types, NEW t \in TxType, NEW r \in Rec
  PROVE  Current(t, r) \in MaybeValue
<1>1. t.writes \in Partial
  BY DEF TxType
<1>2. PICK S \in SUBSET Rec : t.writes \in [S -> MaybeValue]
  BY <1>1 DEF Partial
<1> QED BY <1>2 DEF Current, Types

(* A write keeps all but the written values and ends the fence.             *)
LEMMA WrittenFields ==
  ASSUME NEW t \in TxType, NEW r \in Rec, NEW v \in MaybeValue,
         NEW u, u = Written(t, r, v)
  PROVE  /\ u \in TxType /\ u.pc = "open" /\ u.sees = t.sees /\ u.gen = t.gen
         /\ u.ticket = t.ticket /\ u.complete = t.complete
         /\ u.queue = t.queue /\ u.marks = t.marks /\ u.put = t.put /\ u.del = t.del
         /\ u.snap = t.snap /\ u.opened = t.opened /\ u.dirty = t.dirty
         /\ DOMAIN u.writes = DOMAIN t.writes \cup {r}
         /\ \A q \in DOMAIN u.writes : u.writes[q] = IF q = r THEN v ELSE t.writes[q]
<1> DEFINE f == [q \in DOMAIN t.writes \cup {r} |-> IF q = r THEN v ELSE t.writes[q]]
<1>1. t.writes \in Partial
  BY DEF TxType
<1>2. PICK S \in SUBSET Rec : t.writes \in [S -> MaybeValue]
  BY <1>1 DEF Partial
<1>3. f \in [S \cup {r} -> MaybeValue] /\ S \cup {r} \in SUBSET Rec
  BY <1>2
<1>4. f \in Partial
  BY <1>3 DEF Partial
<1>5. DOMAIN f = DOMAIN t.writes \cup {r} /\ \A q \in DOMAIN f : f[q] = IF q = r THEN v ELSE t.writes[q]
  OBVIOUS
<1>6. u = [t EXCEPT !.pc = "open", !.writes = f]
  BY DEF Written
<1> HIDE DEF f
<1>7. /\ u \in TxType /\ u.pc = "open" /\ u.sees = t.sees /\ u.gen = t.gen
      /\ u.ticket = t.ticket /\ u.complete = t.complete
      /\ u.queue = t.queue /\ u.marks = t.marks /\ u.put = t.put /\ u.del = t.del
      /\ u.snap = t.snap /\ u.opened = t.opened /\ u.dirty = t.dirty
      /\ u.writes = f
  BY <1>4, <1>6 DEF TxType
<1> QED BY <1>5, <1>7

(* Writing a record keeps a transaction well-formed.                        *)
LEMMA WrittenOK ==
  ASSUME NEW t, TxCore(t), t.gen = 0 \/ t.sees, NEW r \in Rec, NEW v \in MaybeValue
  PROVE  TxOK(Written(t, r, v))
<1> DEFINE u == Written(t, r, v)
<1>1. t \in TxType
  BY DEF TxOK, TxCore
<1> HIDE DEF u
<1>2. /\ u \in TxType /\ u.pc = "open" /\ u.sees = t.sees /\ u.gen = t.gen
      /\ u.queue = t.queue /\ u.marks = t.marks /\ u.put = t.put /\ u.del = t.del
  BY <1>1, WrittenFields DEF u
<1>3. TxOK(u)
  BY <1>2 DEF TxOK, TxCore
<1> QED BY <1>3 DEF u

(* Indexing in the transaction itself changes its entries only.             *)
LEMMA PutDelOK ==
  ASSUME NEW u, TxOK(u), u.pc = "open", u.sees,
         NEW P \in SUBSET Entry, NEW D \in SUBSET Entry,
         NEW x, x = [u EXCEPT !.put = P, !.del = D]
  PROVE  TxOK(x) /\ x.pc = "open" /\ x.sees /\ x.gen = u.gen
<1>1. u \in TxType
  BY DEF TxOK, TxCore
<1>2. /\ x \in TxType /\ x.pc = u.pc /\ x.sees = u.sees /\ x.gen = u.gen
      /\ x.queue = u.queue /\ x.marks = u.marks
  BY <1>1 DEF TxType
<1> QED BY <1>2 DEF TxOK, TxCore

(* So does writing it and indexing by oneself.                              *)
LEMMA IndexNormallyOK ==
  ASSUME NEW t, TxCore(t), t.sees = TRUE, NEW r \in Rec, NEW v \in MaybeValue, Types
  PROVE  LET u == IndexNormally(t, r, v) IN
         TxOK(u) /\ u.pc = "open" /\ u.sees /\ u.gen = t.gen
<1> DEFINE u == Written(t, r, v)
           x == IndexNormally(t, r, v)
           new == EntriesOf(r, v)
           old == EntriesOf(r, Current(t, r))
           found == {e \in old : e \in t.put \/ (t.snap[e] = 1 /\ e \notin t.del)}
<1>0. TxOK(u) /\ t \in TxType
  BY WrittenOK DEF TxOK, TxCore
<1> HIDE DEF u
<1>1. TxOK(u) /\ u.pc = "open" /\ u.sees = t.sees /\ u.gen = t.gen
  BY <1>0, WrittenFields DEF u
<1>2. new \subseteq Entry /\ old \subseteq Entry
  <2>1. Current(t, r) \in MaybeValue
    BY <1>0, CurrentType
  <2> QED BY <2>1 DEF EntriesOf, Entry, MaybeValue
<1>3. found \subseteq Entry
  BY <1>2
<1>5. u.put \subseteq Entry /\ u.del \subseteq Entry /\ t.put \subseteq Entry /\ t.del \subseteq Entry
  BY <1>1 DEF TxOK, TxCore, TxType
<1> HIDE DEF u, new, old
<1>6. CASE kind = "Count"
  <2> DEFINE P == (u.put \ old) \cup (new \ t.del)
             D == (u.del \ new) \cup (old \ t.put)
  <2>1. x = [u EXCEPT !.put = P, !.del = D]
    BY <1>6 DEF IndexNormally, u, new, old
  <2>2. P \in SUBSET Entry /\ D \in SUBSET Entry
    BY <1>2, <1>5
  <2> HIDE DEF P, D, x
  <2>3. TxOK(x) /\ x.pc = "open" /\ x.sees /\ x.gen = u.gen
    BY <1>1, <2>1, <2>2, PutDelOK
  <2> QED BY <1>1, <2>3 DEF x
<1>7. CASE kind # "Count"
  <2> DEFINE P == (u.put \ found) \cup new
             D == (u.del \cup found) \ new
  <2>1. x = [u EXCEPT !.put = P, !.del = D]
    BY <1>7 DEF IndexNormally, u, new, old
  <2>2. P \in SUBSET Entry /\ D \in SUBSET Entry
    BY <1>2, <1>3, <1>5
  <2> HIDE DEF P, D, x
  <2>3. TxOK(x) /\ x.pc = "open" /\ x.sees /\ x.gen = u.gen
    BY <1>1, <2>1, <2>2, PutDelOK
  <2> QED BY <1>1, <2>3 DEF x
<1> QED BY <1>6, <1>7

(* Queueing adds one mutation, and a mark that points to it or none.        *)
Queued(t, r, v) ==
    [gen |-> t.gen, ticket |-> t.ticket, seq |-> Cardinality(t.queue), rec |-> r,
     old |-> Current(t, r), new |-> v]
MarkFor(t, r) == [gen |-> t.gen, rec |-> r, ticket |-> t.ticket, seq |-> Cardinality(t.queue)]

(* A queued mutation and the mark of its record are well-formed.            *)
LEMMA QueuedType ==
  ASSUME NEW t, TxOK(t), t.gen > 0, NEW r \in Rec, NEW v \in MaybeValue, Types,
         Cardinality(t.queue) <= MaxSeq
  PROVE  Queued(t, r, v) \in Appending /\ MarkFor(t, r) \in Primary
<1> DEFINE n == Cardinality(t.queue)
<1>1. n \in 0..MaxSeq /\ t.gen \in 1..MaxRuns /\ t.ticket \in 0..MaxTicket
  BY FS_CardinalityType DEF TxOK, TxCore, TxType
<1>2. Current(t, r) \in MaybeValue
  BY CurrentType DEF TxOK, TxCore
<1> HIDE DEF n
<1> QED BY <1>1, <1>2 DEF Appending, Primary, MaybeValue, Queued, MarkFor, n

(* Enqueue adds a mutation and perhaps a mark, writes the record and leaves *)
(* the rest alone.                                                          *)
LEMMA EnqueueFields ==
  ASSUME NEW t, TxOK(t), t.gen > 0, NEW r \in Rec, NEW v \in MaybeValue, Types,
         Cardinality(t.queue) <= MaxSeq,
         NEW x, x = Enqueue(t, r, v)
  PROVE  /\ x \in TxType /\ x.pc = "open" /\ x.sees = t.sees /\ x.gen = t.gen
         /\ x.ticket = t.ticket /\ x.complete = t.complete /\ x.dirty = t.dirty
         /\ x.put = t.put /\ x.del = t.del /\ x.opened = 0
         /\ x.queue = t.queue \cup {Queued(t, r, v)}
         /\ x.marks = t.marks \/ x.marks = t.marks \cup {MarkFor(t, r)}
         /\ DOMAIN x.writes = DOMAIN t.writes \cup {r}
         /\ \A q \in DOMAIN x.writes : x.writes[q] = IF q = r THEN v ELSE t.writes[q]
<1> DEFINE a == Queued(t, r, v)
           m == MarkFor(t, r)
           u == Written(t, r, v)
           N == NoEntries
           z == 0
           Q == u.queue \cup {a}
<1>1. PICK M : /\ x = [u EXCEPT !.queue = Q, !.snap = N, !.opened = z, !.marks = M]
               /\ M = u.marks \/ M = u.marks \cup {m}
  BY DEF Enqueue, Queued, MarkFor
<1>2. a \in Appending /\ m \in Primary
  BY QueuedType
<1>3. N \in [Entry -> Int] /\ z \in Int
  BY DEF NoEntries
<1>4. t \in TxType
  BY DEF TxOK, TxCore
<1> HIDE DEF a, m, u, N, z
<1>5. /\ u \in TxType /\ u.pc = "open" /\ u.sees = t.sees /\ u.gen = t.gen
      /\ u.ticket = t.ticket /\ u.complete = t.complete
      /\ u.queue = t.queue /\ u.marks = t.marks /\ u.put = t.put /\ u.del = t.del
      /\ u.dirty = t.dirty
      /\ DOMAIN u.writes = DOMAIN t.writes \cup {r}
      /\ \A q \in DOMAIN u.writes : u.writes[q] = IF q = r THEN v ELSE t.writes[q]
  BY <1>4, WrittenFields DEF u
<1>6. M \in SUBSET Primary /\ Q \in SUBSET Appending
  BY <1>1, <1>2, <1>5 DEF TxType
<1> HIDE DEF Q
<1>7. /\ x \in TxType /\ x.pc = u.pc /\ x.sees = u.sees /\ x.gen = u.gen
      /\ x.ticket = u.ticket /\ x.complete = u.complete /\ x.dirty = u.dirty
      /\ x.put = u.put /\ x.del = u.del /\ x.opened = z
      /\ x.queue = Q /\ x.marks = M /\ x.writes = u.writes
  <2>1. u \in TxType
    BY <1>5
  <2>2. x = [u EXCEPT !.queue = Q, !.snap = N, !.opened = z, !.marks = M]
    BY <1>1
  <2>3. x \in TxType
    BY <1>3, <1>6, <2>1, <2>2 DEF TxType
  <2>4. /\ x.pc = u.pc /\ x.sees = u.sees /\ x.gen = u.gen /\ x.ticket = u.ticket
        /\ x.complete = u.complete /\ x.dirty = u.dirty
    BY <2>1, <2>2 DEF TxType
  <2>5. /\ x.put = u.put /\ x.del = u.del /\ x.writes = u.writes
        /\ x.opened = z /\ x.queue = Q /\ x.marks = M
    BY <2>1, <2>2 DEF TxType
  <2> QED BY <2>3, <2>4, <2>5
<1>8. x.queue = t.queue \cup {a} /\ x.opened = 0
  BY <1>5, <1>7 DEF Q, z
<1>9. x.marks = t.marks \/ x.marks = t.marks \cup {m}
  BY <1>1, <1>5, <1>7
<1> QED BY <1>5, <1>7, <1>8, <1>9 DEF a, m

(* Enqueue keeps a transaction well-formed.                                 *)
LEMMA EnqueueOK ==
  ASSUME NEW t, TxOK(t), t.sees = TRUE, t.gen > 0, NEW r \in Rec, NEW v \in MaybeValue, Types,
         Cardinality(t.queue) <= MaxSeq
  PROVE  LET u == Enqueue(t, r, v) IN
         TxOK(u) /\ u.pc = "open" /\ u.sees /\ u.gen = t.gen
<1> DEFINE x == Enqueue(t, r, v)
           a == Queued(t, r, v)
           m == MarkFor(t, r)
<1>1. a.gen = m.gen /\ a.ticket = m.ticket /\ a.seq = m.seq
  BY DEF Queued, MarkFor
<1> HIDE DEF x, a, m
<1>2. /\ x \in TxType /\ x.pc = "open" /\ x.sees = t.sees /\ x.gen = t.gen
      /\ x.queue = t.queue \cup {a}
      /\ x.marks = t.marks \/ x.marks = t.marks \cup {m}
  BY EnqueueFields DEF x, a, m
<1>3. IsFiniteSet(x.queue)
  BY <1>2, FS_AddElement DEF TxOK, TxCore
<1>4. \A p \in x.marks : \E c \in x.queue : c.gen = p.gen /\ c.ticket = p.ticket /\ c.seq = p.seq
  <2> SUFFICES ASSUME NEW p \in x.marks
               PROVE  \E c \in x.queue : c.gen = p.gen /\ c.ticket = p.ticket /\ c.seq = p.seq
    OBVIOUS
  <2>1. CASE p \in t.marks
    BY <2>1, <1>2 DEF TxOK, TxCore
  <2>2. CASE p = m
    BY <2>2, <1>1, <1>2
  <2> QED BY <2>1, <2>2, <1>2
<1>5. TxOK(x)
  BY <1>2, <1>3, <1>4 DEF TxOK, TxCore
<1> QED BY <1>2, <1>5 DEF x

----------------------------------------------------------------------------
(* What a step may change without disturbing the rest. *)

(* The invariant holds before DEFINE INDEX.                                 *)
LEMMA InitOK == Init => IInv
<1> SUFFICES ASSUME Init PROVE IInv
  OBVIOUS
<1>1. index \in [Entry -> Int]
  BY DEF Init, NoEntries, Entries
<1>2. TxOK(IdleTx) /\ IdleTx \in TxType /\ TaskOK(IdleTask) /\ IdleTask \in TaskType
  BY IdleOK DEF TxOK, TxCore, TaskOK
<1>3. tx \in [Writer -> TxType] /\ \A w \in Writer : tx[w] = IdleTx
  BY <1>2 DEF Init
<1>4. task \in [Builder -> TaskType] /\ \A b \in Builder : task[b] = IdleTask
  BY <1>2 DEF Init
<1>5. Types
  BY <1>1, <1>2, <1>3, <1>4, FS_EmptySet DEF Init, Types, MaybeValue
<1>6. StateOK
  BY DEF Init, StateOK, StateType, NoState, Phase, Active
<1>7. \A w \in Writer : ~tx[w].sees /\ tx[w].gen = 0 /\ tx[w].pc = "idle"
  BY <1>3 DEF IdleTx
<1>8. OwnerOK
  BY DEF Init, OwnerOK, Owns, NoState
<1>9. CatalogOK
  BY <1>4, <1>7 DEF Init, CatalogOK, Starting, IdleTask
<1>10. MarksResolve
  BY DEF Init, MarksResolve
<1> QED BY <1>5, <1>6, <1>8, <1>9, <1>10 DEF IInv

(* A step of one writer leaves the other transactions as they are.          *)
LEMMA SetTx ==
  ASSUME Types, NEW w \in Writer, NEW u, TxOK(u), tx' = [tx EXCEPT ![w] = u]
  PROVE  /\ tx' \in [Writer -> TxType] /\ \A c \in Writer : TxOK(tx'[c])
         /\ tx'[w] = u /\ \A c \in Writer : c # w => tx'[c] = tx[c]
<1>1. u \in TxType
  BY DEF TxOK, TxCore
<1>2. tx'[w] = u /\ \A c \in Writer : c # w => tx'[c] = tx[c]
  BY DEF Types
<1>3. tx' \in [Writer -> TxType]
  BY <1>1 DEF Types
<1> QED BY <1>2, <1>3 DEF Types

(* A step of one task leaves the other tasks as they are.                   *)
LEMMA SetTask ==
  ASSUME Types, NEW b \in Builder, NEW u, TaskOK(u), task' = [task EXCEPT ![b] = u]
  PROVE  /\ task' \in [Builder -> TaskType] /\ \A c \in Builder : TaskOK(task'[c])
         /\ task'[b] = u /\ \A c \in Builder : c # b => task'[c] = task[c]
<1>1. u \in TaskType
  BY DEF TaskOK
<1>2. task'[b] = u /\ \A c \in Builder : c # b => task'[c] = task[c]
  BY DEF Types
<1>3. task' \in [Builder -> TaskType]
  BY <1>1 DEF Types
<1> QED BY <1>2, <1>3 DEF Types

(* Only transactions, reservations and the set of dead writers change.      *)
LEMMA WriterFrame ==
  ASSUME IInv,
         tx' \in [Writer -> TxType], \A c \in Writer : TxOK(tx'[c]),
         catalog # "defined" =>
            \A c \in Writer : ~tx'[c].sees /\ tx'[c].gen = 0 /\ tx'[c].pc \in {"idle", "open"},
         br' \subseteq br, inactive' \in SUBSET Writer,
         UNCHANGED <<kind, table, index, catalog, bs, bg, bp, task, runs>>
  PROVE  IInv'
<1> USE DEF IInv
<1>1. Types'
  BY DEF Types
<1>2. StateOK' /\ OwnerOK' /\ MarksResolve'
  BY DEF StateOK, OwnerOK, MarksResolve, Owns, Active, Pointed
<1>3. CatalogOK'
  BY DEF CatalogOK, Starting
<1> QED BY <1>1, <1>2, <1>3

(* A step that changes one transaction, and drops reservations at most,     *)
(* keeps the invariant.                                                     *)
LEMMA OneWriterFrame ==
  ASSUME IInv, NEW w \in Writer, NEW u, TxOK(u), tx' = [tx EXCEPT ![w] = u],
         catalog # "defined" => ~u.sees /\ u.gen = 0 /\ u.pc \in {"idle", "open"},
         br' \subseteq br,
         UNCHANGED <<kind, table, index, catalog, bs, bg, bp, task, runs, inactive>>
  PROVE  IInv'
<1>1. /\ tx' \in [Writer -> TxType] /\ \A c \in Writer : TxOK(tx'[c])
      /\ tx'[w] = u /\ \A c \in Writer : c # w => tx'[c] = tx[c]
  BY SetTx DEF IInv
<1>2. catalog # "defined" =>
        \A c \in Writer : ~tx'[c].sees /\ tx'[c].gen = 0 /\ tx'[c].pc \in {"idle", "open"}
  BY <1>1 DEF IInv, CatalogOK
<1>3. inactive' \in SUBSET Writer
  BY DEF IInv, Types
<1> QED BY <1>1, <1>2, <1>3, WriterFrame

(* Only tasks and reservations change, and the owner keeps its promises.    *)
LEMMA TaskFrame ==
  ASSUME IInv,
         task' \in [Builder -> TaskType], \A c \in Builder : TaskOK(task'[c]),
         OwnerOK',
         catalog' \notin {"open", "defined"} => \A c \in Builder : ~Starting(c)',
         catalog' = "gone" => \A c \in Builder : task'[c].pc # "index",
         catalog' = catalog \/ (catalog = "absent" /\ catalog' = "open"),
         br' \subseteq br,
         UNCHANGED <<kind, table, index, bs, bg, bp, tx, runs, inactive>>
  PROVE  IInv'
<1> USE DEF IInv
<1>1. Types'
  BY DEF Types
<1>2. StateOK' /\ MarksResolve'
  BY DEF StateOK, MarksResolve, Active, Pointed
<1>3. CatalogOK'
  BY DEF CatalogOK
<1> QED BY <1>1, <1>2, <1>3

(* A step that changes one task, and begins DEFINE or drops reservations at *)
(* most, keeps the invariant if the task fits the phase.                    *)
LEMMA OneTaskFrame ==
  ASSUME IInv, NEW b \in Builder, NEW u, TaskOK(u), task' = [task EXCEPT ![b] = u],
         Owns(b)' =>
            /\ u.pc \in Replaying \cup {"closing", "wait", "online"} => bs.complete
            /\ u.pc \in {"replay2", "wait", "replay3", "online"} => bs.phase = "Closing"
            /\ u.resumed => bs.phase = "Closing",
         catalog' \notin {"open", "defined"} => u.pc \notin {"drain", "publish"},
         catalog' = "gone" => u.pc # "index",
         catalog' = catalog \/ (catalog = "absent" /\ catalog' = "open"),
         br' \subseteq br,
         UNCHANGED <<kind, table, index, bs, bg, bp, tx, runs, inactive>>
  PROVE  IInv'
<1>1. /\ task' \in [Builder -> TaskType] /\ \A c \in Builder : TaskOK(task'[c])
      /\ task'[b] = u /\ \A c \in Builder : c # b => task'[c] = task[c]
  BY SetTask DEF IInv
<1>2. OwnerOK'
  <2> SUFFICES ASSUME NEW c \in Builder, Owns(c)'
               PROVE  /\ task'[c].pc \in Replaying \cup {"closing", "wait", "online"} => bs'.complete
                      /\ task'[c].pc \in {"replay2", "wait", "replay3", "online"} => bs'.phase = "Closing"
                      /\ task'[c].resumed => bs'.phase = "Closing"
    BY DEF OwnerOK
  <2>1. CASE c = b
    BY <2>1, <1>1
  <2>2. CASE c # b
    <3>1. task'[c] = task[c] /\ Owns(c)
      BY <2>2, <1>1 DEF Owns
    <3> QED BY <3>1 DEF IInv, OwnerOK
  <2> QED BY <2>1, <2>2
<1>3. catalog' \notin {"open", "defined"} => \A c \in Builder : ~Starting(c)'
  BY <1>1 DEF Starting, IInv, CatalogOK
<1>4. catalog' = "gone" => \A c \in Builder : task'[c].pc # "index"
  BY <1>1 DEF IInv, CatalogOK
<1> QED BY <1>1, <1>2, <1>3, <1>4, TaskFrame

----------------------------------------------------------------------------
(* User transactions. *)

(* What a transaction is when it begins.                                    *)
Begun(u) ==
    /\ TxOK(u) /\ u.pc = "open" /\ u.sees = (catalog = "defined") /\ u.gen = 0
    /\ u.opened = IF Active THEN -1 ELSE bs.gen
    /\ u.snap = IF Active /\ ~LongTransactions THEN NoEntries ELSE index
    /\ u.writes = << >> /\ u.dirty = {} /\ u.queue = {} /\ u.marks = {}
    /\ u.put = {} /\ u.del = {}

(* Begin opens a transaction that has written nothing.                      *)
LEMMA BeginFields ==
  ASSUME Types, StateOK, NEW w \in Writer, Begin(w), NEW u, u = tx'[w]
  PROVE  Begun(u) /\ tx' = [tx EXCEPT ![w] = u]
<1> DEFINE s == catalog = "defined"
           o == IF Active THEN -1 ELSE bs.gen
           n == IF Active /\ ~LongTransactions THEN NoEntries ELSE index
           x == [IdleTx EXCEPT !.pc = "open", !.sees = s, !.opened = o, !.snap = n]
<1>1. tx' = [tx EXCEPT ![w] = x]
  BY DEF Begin
<1>2. u = x
  BY <1>1 DEF Types
<1>3. s \in BOOLEAN /\ o \in Int /\ n \in [Entry -> Int]
  BY DEF StateOK, StateType, NoEntries, Types
<1> HIDE DEF s, o, n
<1>4. IdleTx \in TxType
  BY IdleOK DEF TxOK, TxCore
<1>5. x \in TxType
  BY <1>3, <1>4 DEF TxType
<1>6. /\ x.pc = "open" /\ x.sees = s /\ x.opened = o /\ x.snap = n
      /\ x.gen = IdleTx.gen /\ x.writes = IdleTx.writes /\ x.dirty = IdleTx.dirty
      /\ x.queue = IdleTx.queue /\ x.marks = IdleTx.marks /\ x.put = IdleTx.put
      /\ x.del = IdleTx.del
  BY <1>3, <1>4 DEF TxType
<1>7. /\ IdleTx.gen = 0 /\ IdleTx.writes = << >> /\ IdleTx.dirty = {} /\ IdleTx.queue = {}
      /\ IdleTx.marks = {} /\ IdleTx.put = {} /\ IdleTx.del = {}
  BY DEF IdleTx
<1> HIDE DEF x
<1>8. TxOK(x)
  BY <1>5, <1>6, <1>7, FS_EmptySet DEF TxOK, TxCore
<1> QED BY <1>1, <1>2, <1>6, <1>7, <1>8 DEF Begun, s, o, n

(* A transaction that begins keeps the invariant.                           *)
LEMMA BeginOK ==
  ASSUME IInv, NEW w \in Writer, Begin(w)
  PROVE  IInv'
<1> DEFINE u == tx'[w]
<1> HIDE DEF u
<1>1. /\ TxOK(u) /\ tx' = [tx EXCEPT ![w] = u] /\ u.pc = "open"
      /\ u.sees = (catalog = "defined") /\ u.gen = 0
  <2>1. Begun(u) /\ tx' = [tx EXCEPT ![w] = u]
    BY BeginFields DEF IInv, u
  <2> QED BY <2>1 DEF Begun
<1>2. catalog # "defined" => ~u.sees /\ u.gen = 0 /\ u.pc \in {"idle", "open"}
  BY <1>1
<1>3. UNCHANGED <<kind, table, index, catalog, bs, bg, bp, br, task, runs, inactive>>
  BY DEF Begin
<1> QED BY <1>1, <1>2, <1>3, OneWriterFrame

(* So does one that writes without knowing of the index.                    *)
LEMMA MutateUnseenOK ==
  ASSUME IInv, NEW w \in Writer, NEW r \in Rec, NEW v \in MaybeValue, MutateUnseen(w, r, v)
  PROVE  IInv'
<1> DEFINE t == tx[w]
           u == Written(t, r, v)
<1>1. TxOK(t) /\ TxCore(t) /\ t \in TxType
  BY DEF IInv, Types, TxOK, TxCore
<1>2. t.pc = "open" /\ ~t.sees /\ tx' = [tx EXCEPT ![w] = u]
  BY DEF MutateUnseen
<1>3. t.gen = 0
  BY <1>1, <1>2 DEF TxOK, TxCore, TxType
<1>4. TxOK(u)
  BY <1>1, <1>3, WrittenOK
<1> HIDE DEF u
<1>5. u.sees = t.sees /\ u.gen = t.gen /\ u.pc = "open"
  BY <1>1, WrittenFields DEF u
<1>6. catalog # "defined" => ~u.sees /\ u.gen = 0 /\ u.pc \in {"idle", "open"}
  BY <1>2, <1>3, <1>5
<1>7. UNCHANGED <<kind, table, index, catalog, bs, bg, bp, br, task, runs, inactive>>
  BY DEF MutateUnseen
<1> QED BY <1>2, <1>4, <1>6, <1>7, OneWriterFrame

(* The step of a transaction that knows the index: the index is defined.    *)
LEMMA SeeingFrame ==
  ASSUME IInv, NEW w \in Writer, NEW u, TxOK(u), tx' = [tx EXCEPT ![w] = u],
         tx[w].sees = TRUE \/ tx[w].gen > 0,
         br' \subseteq br,
         UNCHANGED <<kind, table, index, catalog, bs, bg, bp, task, runs, inactive>>
  PROVE  IInv'
<1>1. catalog = "defined"
  <2>1. tx[w] \in TxType
    BY DEF IInv, Types
  <2> QED BY <2>1 DEF IInv, CatalogOK, TxType
<1> QED BY <1>1, OneWriterFrame

(* So does one that finds the index ready and indexes by itself.            *)
LEMMA MutateReadyOK ==
  ASSUME IInv, NEW w \in Writer, NEW r \in Rec, NEW v \in MaybeValue, MutateReady(w, r, v)
  PROVE  IInv'
<1> DEFINE u == IndexNormally(tx[w], r, v)
<1>1. TxCore(tx[w]) /\ Types /\ tx[w].sees \in BOOLEAN
  BY DEF IInv, Types, TxOK, TxCore, TxType
<1>2. tx[w].sees = TRUE
  BY <1>1 DEF MutateReady
<1>3. TxOK(u)
  BY <1>1, <1>2, IndexNormallyOK
<1> HIDE DEF u
<1>4. tx' = [tx EXCEPT ![w] = u]
      /\ UNCHANGED <<kind, table, index, catalog, bs, bg, bp, br, task, runs, inactive>>
  BY DEF MutateReady, u
<1> QED BY <1>2, <1>3, <1>4, SeeingFrame

(* The transaction with the ticket that it is given.                        *)
Fenced(t) == [t EXCEPT !.pc = "fence", !.gen = bs.gen, !.ticket = bs.ticket,
                       !.complete = bs.complete]

(* A reservation gives the generation and the ticket of the build state,    *)
(* and changes nothing else of a transaction.                               *)
LEMMA FencedFields ==
  ASSUME Types, StateOK, NEW t \in TxType, bs.phase = "Building", bs.ticket <= MaxTicket,
         NEW u, u = Fenced(t)
  PROVE  /\ u \in TxType /\ u.pc = "fence" /\ u.sees = t.sees /\ u.gen = bs.gen
         /\ u.ticket = bs.ticket /\ u.complete = bs.complete /\ u.dirty = t.dirty
         /\ u.writes = t.writes /\ u.queue = t.queue /\ u.marks = t.marks
         /\ u.put = t.put /\ u.del = t.del /\ u.opened = t.opened /\ u.snap = t.snap
<1> DEFINE g == bs.gen
           k == bs.ticket
           c == bs.complete
<1>1. g \in 0..MaxRuns /\ k \in 0..MaxTicket /\ c \in BOOLEAN
  BY DEF StateOK, StateType
<1>2. u = [t EXCEPT !.pc = "fence", !.gen = g, !.ticket = k, !.complete = c]
  BY DEF Fenced
<1> HIDE DEF g, k, c
<1>3. u \in TxType
  BY <1>1, <1>2, ZenonT(60) DEF TxType
<1>4. u.pc = "fence" /\ u.gen = g /\ u.ticket = k /\ u.complete = c
  BY <1>1, <1>2 DEF TxType
<1>5. /\ u.sees = t.sees /\ u.dirty = t.dirty
      /\ u.writes = t.writes /\ u.queue = t.queue /\ u.marks = t.marks
  BY <1>2 DEF TxType
<1>6. u.put = t.put /\ u.del = t.del /\ u.opened = t.opened /\ u.snap = t.snap
  BY <1>2 DEF TxType
<1> QED BY <1>3, <1>4, <1>5, <1>6 DEF g, k, c

(* After DirtyTask the owner is as far as before.                           *)
LEMMA DirtyTaskOwner ==
  ASSUME IInv, NEW keys, task' = DirtyTask(keys),
         bs'.gen = bs.gen, bs'.owner \in {bs.owner, NoOwner},
         bs'.owner # NoOwner => bs'.phase = bs.phase /\ bs'.complete = bs.complete
  PROVE  OwnerOK'
<1> SUFFICES ASSUME NEW b \in Builder, Owns(b)'
             PROVE  /\ task'[b].pc \in Replaying \cup {"closing", "wait", "online"} => bs'.complete
                    /\ task'[b].pc \in {"replay2", "wait", "replay3", "online"} => bs'.phase = "Closing"
                    /\ task'[b].resumed => bs'.phase = "Closing"
  BY DEF OwnerOK
<1>1. /\ task'[b].gen = task[b].gen /\ task'[b].resumed = task[b].resumed
      /\ task'[b].pc = task[b].pc \/ (task[b].pc = "index" /\ task'[b].pc = "lookup")
  <2>1. Types
    BY DEF IInv
  <2> QED BY <2>1, DirtyTaskOK
<1>2. bs'.owner = b /\ bs'.owner # NoOwner
  BY DEF Owns
<1>3. Owns(b)
  BY <1>1, <1>2 DEF Owns
<1>4. CASE task'[b].pc = task[b].pc
  BY <1>1, <1>2, <1>3, <1>4 DEF IInv, OwnerOK
<1>5. CASE task'[b].pc = "lookup"
  BY <1>1, <1>2, <1>3, <1>5 DEF IInv, OwnerOK, Replaying
<1> QED BY <1>1, <1>4, <1>5

(* Reserving a ticket keeps the invariant.                                  *)
LEMMA ReserveOK ==
  ASSUME IInv, NEW w \in Writer, Reserve(w)
  PROVE  IInv'
<1> DEFINE t == tx[w]
<1>1. TxOK(t) /\ t \in TxType /\ Types /\ StateOK
  BY DEF IInv, Types, TxOK, TxCore
<1>2. t.pc = "open" /\ t.sees = TRUE /\ t.gen = 0
  BY <1>1 DEF Reserve, TxType
<1>3. catalog = "defined"
  BY <1>2 DEF IInv, CatalogOK
<1>4. CASE bs.phase = "Error" /\ tx' = [tx EXCEPT ![w] = IdleTx] /\ UNCHANGED <<bs, br, task>>
  <2>1. UNCHANGED <<kind, table, index, catalog, bs, bg, bp, task, runs, inactive>> /\ br' \subseteq br
    BY <1>4 DEF Reserve
  <2> QED BY <1>2, <1>4, <2>1, IdleOK, SeeingFrame
<1>5. CASE bs.phase # "Error"
  <2> DEFINE u == Fenced(t)
  <2>1. /\ bs.phase = "Building" /\ bs.ticket <= MaxTicket
        /\ bs' = [bs EXCEPT !.ticket = @ + 1]
        /\ br' = br \cup {[gen |-> bs.gen, ticket |-> bs.ticket, node |-> w]}
        /\ tx' = [tx EXCEPT ![w] = u]
        /\ task' = DirtyTask({<<"bs">>})
        /\ UNCHANGED <<kind, table, index, catalog, bg, bp, runs, inactive>>
    BY <1>5 DEF Reserve, Fenced
  <2> HIDE DEF t, u
  <2>2. /\ u \in TxType /\ u.pc = "fence" /\ u.sees = t.sees /\ u.gen = bs.gen
        /\ u.queue = t.queue /\ u.marks = t.marks /\ u.put = t.put /\ u.del = t.del
    BY <1>1, <2>1, FencedFields DEF u
  <2>3. bs.gen \in 1..MaxRuns /\ bs.ticket \in 0..MaxTicket
    BY <1>1, <2>1 DEF StateOK, StateType
  <2>4. TxOK(u)
    BY <1>1, <1>2, <2>2, <2>3 DEF TxOK, TxCore
  <2>5. tx' \in [Writer -> TxType] /\ \A c \in Writer : TxOK(tx'[c])
    BY <1>1, <2>1, <2>4, SetTx
  <2>6. /\ bs'.gen = bs.gen /\ bs'.phase = bs.phase /\ bs'.owner = bs.owner
        /\ bs'.complete = bs.complete /\ bs' \in StateType
    BY <1>1, <2>1 DEF StateOK, StateType
  <2>7. br' \in SUBSET Reservation
    BY <1>1, <2>1, <2>3 DEF Types, Reservation
  <2>8. task' \in [Builder -> TaskType] /\ \A c \in Builder : TaskOK(task'[c])
    BY <1>1, <2>1, DirtyTaskOK
  <2>9. Types'
    BY <1>1, <2>1, <2>5, <2>7, <2>8 DEF Types
  <2>10. StateOK'
    BY <1>1, <2>1, <2>6 DEF StateOK, Active
  <2>11. OwnerOK'
    BY <2>1, <2>6, DirtyTaskOwner
  <2>12. CatalogOK'
    BY <1>3, <2>1 DEF CatalogOK
  <2>13. MarksResolve'
    BY <2>1, <2>6 DEF IInv, MarksResolve, Active, Pointed
  <2> QED BY <2>9, <2>10, <2>11, <2>12, <2>13 DEF IInv
<1> QED BY <1>4, <1>5 DEF Reserve

(* The fence clears the generation when it finds the index ready.           *)
Unreserved(t) == [t EXCEPT !.gen = 0]

(* A transaction that gives its ticket back is as it was before.            *)
LEMMA UnreservedOK ==
  ASSUME NEW t, TxOK(t), t.pc = "fence", NEW u, u = Unreserved(t)
  PROVE  /\ TxCore(u) /\ u.sees = TRUE /\ u.gen = 0 /\ u.put = t.put /\ u.del = t.del
         /\ u.snap = t.snap /\ u.dirty = t.dirty /\ u.queue = {} /\ u.writes = t.writes
         /\ u.opened = t.opened
<1>1. t \in TxType /\ t.sees = TRUE /\ t.queue = {} /\ t.marks = {}
  BY DEF TxOK, TxCore, TxType
<1> DEFINE z == 0
<1>2. z \in 0..MaxRuns /\ u = [t EXCEPT !.gen = z]
  BY DEF Unreserved
<1> HIDE DEF z
<1>3. u \in TxType
  BY <1>1, <1>2 DEF TxType
<1>4. /\ u.gen = z /\ u.sees = t.sees /\ u.put = t.put /\ u.del = t.del /\ u.snap = t.snap
      /\ u.dirty = t.dirty /\ u.queue = t.queue /\ u.writes = t.writes /\ u.opened = t.opened
      /\ u.marks = t.marks
  BY <1>1, <1>2 DEF TxType
<1>5. IsFiniteSet(u.queue)
  BY <1>1, <1>4, FS_EmptySet
<1> QED BY <1>1, <1>3, <1>4, <1>5 DEF TxCore, z

(* The second look at the build state keeps the invariant, whatever it      *)
(* finds.                                                                   *)
LEMMA FenceOK ==
  ASSUME IInv, NEW w \in Writer, NEW r \in Rec, NEW v \in MaybeValue, Fence(w, r, v)
  PROVE  IInv'
<1> DEFINE t == tx[w]
<1>1. TxOK(t) /\ t \in TxType /\ Types
  BY DEF IInv, Types, TxOK, TxCore
<1>2. t.pc = "fence" /\ t.sees = TRUE /\ t.gen > 0 /\ t.queue = {}
  BY <1>1 DEF Fence, TxOK, TxCore, TxType
<1>3. br' \subseteq br
      /\ UNCHANGED <<kind, table, index, catalog, bs, bg, bp, task, runs, inactive>>
  BY DEF Fence
<1>4. CASE tx' = [tx EXCEPT ![w] = Enqueue(t, r, v)]
  <2>1. Cardinality(t.queue) <= MaxSeq
    BY <1>2, FS_EmptySet
  <2>2. TxOK(Enqueue(t, r, v))
    BY <1>1, <1>2, <2>1, EnqueueOK
  <2> QED BY <1>2, <1>3, <1>4, <2>2, SeeingFrame
<1>5. CASE tx' = [tx EXCEPT ![w] = IndexNormally([t EXCEPT !.gen = 0], r, v)]
  <2> DEFINE u == Unreserved(t)
  <2>1. tx' = [tx EXCEPT ![w] = IndexNormally(u, r, v)]
    BY <1>5 DEF Unreserved
  <2> HIDE DEF u, t
  <2>2. TxCore(u) /\ u.sees = TRUE
    BY <1>1, <1>2, UnreservedOK DEF u
  <2>3. TxOK(IndexNormally(u, r, v))
    BY <1>1, <2>2, IndexNormallyOK
  <2> QED BY <1>2, <1>3, <2>1, <2>3, SeeingFrame DEF t
<1>6. CASE tx' = [tx EXCEPT ![w] = Closed(t)]
  <2>1. TxOK(Closed(t))
    BY <1>1, ClosedOK
  <2> QED BY <1>2, <1>3, <1>6, <2>1, SeeingFrame
<1> QED BY <1>4, <1>5, <1>6 DEF Fence

(* So does a mutation with a ticket from an earlier one.                    *)
LEMMA MutateCachedOK ==
  ASSUME IInv, NEW w \in Writer, NEW r \in Rec, NEW v \in MaybeValue, MutateCached(w, r, v)
  PROVE  IInv'
<1> DEFINE t == tx[w]
<1>1. TxOK(t) /\ t \in TxType /\ Types /\ IsFiniteSet(t.queue)
  BY DEF IInv, Types, TxOK, TxCore
<1>2. t.pc = "open" /\ t.sees = TRUE /\ t.gen > 0
  BY <1>1 DEF MutateCached, TxOK, TxCore, TxType
<1>3. br' \subseteq br
      /\ UNCHANGED <<kind, table, index, catalog, bs, bg, bp, task, runs, inactive>>
  BY DEF MutateCached
<1>4. CASE tx' = [tx EXCEPT ![w] = Enqueue(t, r, v)]
  <2>1. Cardinality(t.queue) <= MaxSeq
    BY <1>1, FS_CardinalityType DEF MutateCached
  <2>2. TxOK(Enqueue(t, r, v))
    BY <1>1, <1>2, <2>1, EnqueueOK
  <2> QED BY <1>2, <1>3, <1>4, <2>2, SeeingFrame
<1>5. CASE tx' = [tx EXCEPT ![w] = Closed(t)]
  <2>1. TxOK(Closed(t))
    BY <1>1, ClosedOK
  <2> QED BY <1>2, <1>3, <1>5, <2>1, SeeingFrame
<1> QED BY <1>4, <1>5 DEF MutateCached

(* Cancel, Release and Crash close one transaction.                         *)
LEMMA CancelOK ==
  ASSUME IInv, NEW w \in Writer, Cancel(w)
  PROVE  IInv'
<1> DEFINE u == Closed(tx[w])
<1>1. TxOK(tx[w])
  BY DEF IInv, Types
<1>2. TxOK(u) /\ ~u.sees /\ u.gen = tx[w].gen /\ (tx[w].gen = 0 => u = IdleTx)
  BY <1>1, ClosedOK
<1>3. catalog # "defined" => ~u.sees /\ u.gen = 0 /\ u.pc \in {"idle", "open"}
  BY <1>2 DEF IInv, CatalogOK, IdleTx
<1>4. tx' = [tx EXCEPT ![w] = u]
      /\ UNCHANGED <<kind, table, index, catalog, bs, bg, bp, br, task, runs, inactive>>
  BY DEF Cancel
<1> HIDE DEF u
<1> QED BY <1>2, <1>3, <1>4, OneWriterFrame

(* Releasing a reservation keeps the invariant.                             *)
LEMMA ReleaseOK ==
  ASSUME IInv, NEW w \in Writer, Release(w)
  PROVE  IInv'
<1>1. TxOK(IdleTx) /\ ~IdleTx.sees /\ IdleTx.gen = 0 /\ IdleTx.pc \in {"idle", "open"}
  BY IdleOK DEF IdleTx
<1>2. tx' = [tx EXCEPT ![w] = IdleTx] /\ br' \subseteq br
      /\ UNCHANGED <<kind, table, index, catalog, bs, bg, bp, task, runs, inactive>>
  BY DEF Release
<1> QED BY <1>1, <1>2, OneWriterFrame

(* So does the death of a writer's node.                                    *)
LEMMA CrashOK ==
  ASSUME IInv, NEW w \in Writer, Crash(w)
  PROVE  IInv'
<1> DEFINE u == [IdleTx EXCEPT !.pc = "crashed"]
<1>1. TxOK(IdleTx) /\ IdleTx \in TxType
  BY IdleOK DEF TxOK, TxCore
<1>2. /\ u \in TxType /\ u.pc = "crashed" /\ u.queue = IdleTx.queue /\ u.marks = IdleTx.marks
      /\ u.put = IdleTx.put /\ u.del = IdleTx.del /\ u.sees = IdleTx.sees /\ u.gen = IdleTx.gen
  BY <1>1 DEF TxType
<1>3. tx' = [tx EXCEPT ![w] = u] /\ br' \subseteq br /\ tx[w].gen > 0
      /\ UNCHANGED <<kind, table, index, catalog, bs, bg, bp, task, runs, inactive>>
  BY DEF Crash
<1> HIDE DEF u
<1>4. TxOK(u)
  BY <1>1, <1>2 DEF TxOK, TxCore
<1> QED BY <1>3, <1>4, SeeingFrame

(* So does archiving it.                                                    *)
LEMMA ArchiveOK ==
  ASSUME IInv, NEW w \in Writer, Archive(w)
  PROVE  IInv'
<1>1. /\ tx' \in [Writer -> TxType] /\ \A c \in Writer : TxOK(tx'[c])
      /\ inactive' \in SUBSET Writer
      /\ catalog # "defined" =>
           \A c \in Writer : ~tx'[c].sees /\ tx'[c].gen = 0 /\ tx'[c].pc \in {"idle", "open"}
  BY DEF Archive, IInv, Types, CatalogOK
<1>2. br' \subseteq br /\ UNCHANGED <<kind, table, index, catalog, bs, bg, bp, task, runs>>
  BY DEF Archive
<1> QED BY <1>1, <1>2, WriterFrame

(* A build that fails has no owner any more.                                *)
LEMMA FailedState ==
  ASSUME StateOK, Active, NEW s, s = Failed(bs)
  PROVE  /\ s \in StateType /\ s.gen = bs.gen /\ s.phase = "Error" /\ s.owner = NoOwner
         /\ s.ticket = bs.ticket /\ s.complete = bs.complete
<1>1. bs \in StateType /\ s = [bs EXCEPT !.phase = "Error", !.owner = NoOwner]
  BY DEF StateOK, Failed
<1>2. "Error" \in Phase /\ NoOwner \in Builder \cup {NoOwner}
  BY DEF Phase
<1> QED BY <1>1, <1>2 DEF StateType

(* A reservation that cannot be released fails the build, which keeps the   *)
(* invariant.                                                               *)
LEMMA ReleaseFailsOK ==
  ASSUME IInv, NEW w \in Writer, ReleaseFails(w)
  PROVE  IInv'
<1>1. TxOK(IdleTx) /\ ~IdleTx.sees /\ IdleTx.gen = 0 /\ IdleTx.pc \in {"idle", "open"} /\ Types /\ StateOK
  BY IdleOK DEF IdleTx, IInv
<1>2. /\ tx[w].pc = "release" /\ tx' = [tx EXCEPT ![w] = IdleTx]
      /\ UNCHANGED <<kind, table, index, catalog, bg, bp, br, runs, inactive>>
  BY DEF ReleaseFails
<1>3. CASE UNCHANGED <<bs, task>>
  BY <1>1, <1>2, <1>3, OneWriterFrame
<1>4. CASE Active /\ bs' = Failed(bs) /\ task' = DirtyTask({<<"bs">>})
  <2>1. /\ bs' \in StateType /\ bs'.gen = bs.gen /\ bs'.phase = "Error" /\ bs'.owner = NoOwner
        /\ bs'.complete = bs.complete
    BY <1>1, <1>4, FailedState
  <2>2. tx' \in [Writer -> TxType] /\ \A c \in Writer : TxOK(tx'[c])
    BY <1>1, <1>2, SetTx
  <2>3. task' \in [Builder -> TaskType] /\ \A c \in Builder : TaskOK(task'[c])
    BY <1>1, <1>4, DirtyTaskOK
  <2>4. Types'
    BY <1>1, <1>2, <2>2, <2>3 DEF Types
  <2>5. StateOK'
    BY <1>1, <1>2, <1>4, <2>1 DEF StateOK, Active
  <2>6. OwnerOK'
    BY <1>4, <2>1, DirtyTaskOwner
  <2>7. catalog = "defined"
    BY <1>2 DEF IInv, CatalogOK
  <2>8. CatalogOK'
    BY <1>2, <2>7 DEF CatalogOK
  <2>9. MarksResolve'
    BY <2>1 DEF MarksResolve, Active
  <2> QED BY <2>4, <2>5, <2>6, <2>8, <2>9 DEF IInv
<1> QED BY <1>3, <1>4 DEF ReleaseFails

(* A commit of others ends a transaction or leaves it as it is but for the  *)
(* keys that it now conflicts with.                                         *)
LEMMA DirtyTxFields ==
  ASSUME Types, NEW keys, keys \subseteq Key, NEW w \in Writer, NEW u, u = DirtyTx(keys)[w]
  PROVE  /\ TxOK(u) /\ u.gen = tx[w].gen /\ (u.sees => tx[w].sees)
         /\ \/ u.pc = tx[w].pc
            \/ u.pc = "idle" /\ tx[w].gen = 0
            \/ u.pc = "release" /\ tx[w].gen > 0
<1>1. TxOK(tx[w]) /\ tx[w] \in TxType
  BY DEF Types
<1>2. /\ TxOK(u)
      /\ \/ u = tx[w]
         \/ u = Closed(tx[w])
         \/ u = [tx[w] EXCEPT !.dirty = @ \cup keys]
  BY DirtyTxOK
<1>3. CASE u = tx[w]
  BY <1>1, <1>3
<1>4. CASE u = Closed(tx[w])
  BY <1>1, <1>4, ClosedOK DEF IdleTx, TxType
<1>5. CASE u = [tx[w] EXCEPT !.dirty = @ \cup keys]
  <2>1. u.gen = tx[w].gen /\ u.sees = tx[w].sees /\ u.pc = tx[w].pc
    BY <1>1, <1>5 DEF TxType
  <2> QED BY <1>2, <2>1
<1> QED BY <1>2, <1>3, <1>4, <1>5

(* Hence it keeps what the invariant says of transactions.                  *)
LEMMA DirtyTxFrame ==
  ASSUME IInv, NEW keys, keys \subseteq Key, NEW d, d = DirtyTx(keys)
  PROVE  /\ d \in [Writer -> TxType] /\ \A w \in Writer : TxOK(d[w])
         /\ catalog # "defined" =>
              \A w \in Writer : ~d[w].sees /\ d[w].gen = 0 /\ d[w].pc \in {"idle", "open"}
<1>1. Types
  BY DEF IInv
<1>2. d \in [Writer -> TxType] /\ \A w \in Writer : TxOK(d[w])
  BY <1>1, DirtyTxOK
<1>3. ASSUME catalog # "defined", NEW w \in Writer
      PROVE  ~d[w].sees /\ d[w].gen = 0 /\ d[w].pc \in {"idle", "open"}
  <2> DEFINE u == d[w]
  <2>1. u = DirtyTx(keys)[w]
    OBVIOUS
  <2> HIDE DEF u
  <2>2. /\ u.gen = tx[w].gen /\ (u.sees => tx[w].sees)
        /\ \/ u.pc = tx[w].pc
           \/ u.pc = "idle" /\ tx[w].gen = 0
           \/ u.pc = "release" /\ tx[w].gen > 0
    BY <1>1, <2>1, DirtyTxFields
  <2>3. ~u.sees /\ u.gen = 0 /\ u.pc \in {"idle", "open"}
    BY <1>3, <2>2 DEF IInv, CatalogOK
  <2> QED BY <2>3 DEF u
<1> QED BY <1>2, <1>3

(* Indexing by oneself gives every entry a number.                          *)
LEMMA IndexedType ==
  ASSUME Types, NEW put, NEW del
  PROVE  Indexed(put, del) \in [Entry -> Int]
<1>1. \A e \in Entry : index[e] \in Int /\ index[e] + 1 \in Int /\ index[e] - 1 \in Int
  BY DEF Types
<1> DEFINE f(e) == CASE e \in put -> IF kind = "Count" THEN index[e] + 1 ELSE 1
                     [] e \in del \ put -> IF kind = "Count" THEN index[e] - 1 ELSE 0
                     [] OTHER -> index[e]
<1>2. \A e \in Entry : f(e) \in Int
  BY <1>1
<1>3. Indexed(put, del) = [e \in Entry |-> f(e)]
  BY DEF Indexed
<1> HIDE DEF f
<1> QED BY <1>2, <1>3

(* The commit of a writer keeps the invariant: its marks come with their    *)
(* mutations.                                                               *)
LEMMA CommitOK ==
  ASSUME IInv, NEW w \in Writer, Commit(w)
  PROVE  IInv'
<1> DEFINE t == tx[w]
           d == DirtyTx(KeysOf(t))
<1>1. TxOK(t) /\ t \in TxType /\ Types /\ StateOK
  BY DEF IInv, Types, TxOK, TxCore
<1>2. /\ t.pc = "open"
      /\ table' = [r \in Rec |-> Current(t, r)]
      /\ index' = Indexed(t.put, t.del)
      /\ bg' = bg \cup t.queue
      /\ bp' = bp \cup t.marks
      /\ tx' = [d EXCEPT ![w] = Closed(t)]
      /\ task' = DirtyTask(KeysOf(t))
      /\ UNCHANGED <<kind, catalog, bs, br, runs, inactive>>
  BY DEF Commit
<1>3. KeysOf(t) \subseteq Key
  BY <1>1, KeysOfType
<1> HIDE DEF d, t
<1>4. /\ d \in [Writer -> TxType] /\ \A c \in Writer : TxOK(d[c])
      /\ catalog # "defined" =>
           \A c \in Writer : ~d[c].sees /\ d[c].gen = 0 /\ d[c].pc \in {"idle", "open"}
  BY <1>3, DirtyTxFrame DEF d
<1>5. TxOK(Closed(t)) /\ Closed(t) \in TxType
  BY <1>1, ClosedOK DEF TxOK, TxCore
<1>6. tx'[w] = Closed(t) /\ (\A c \in Writer : c # w => tx'[c] = d[c]) /\ tx' \in [Writer -> TxType]
  BY <1>2, <1>4, <1>5
<1>7. \A c \in Writer : TxOK(tx'[c])
  BY <1>4, <1>5, <1>6
<1>8. table' \in [Rec -> MaybeValue]
  <2>1. \A r \in Rec : Current(t, r) \in MaybeValue
    BY <1>1, CurrentType
  <2> QED BY <1>2, <2>1
<1>9. index' \in [Entry -> Int]
  BY <1>1, <1>2, IndexedType
<1>10. bg' \in SUBSET Appending /\ IsFiniteSet(bg')
  <2>1. IsFiniteSet(bg) /\ IsFiniteSet(t.queue)
    BY <1>1 DEF Types, TxOK, TxCore
  <2>2. IsFiniteSet(bg \cup t.queue)
    BY <2>1, FS_Union
  <2> QED BY <1>1, <1>2, <2>2 DEF Types, TxType
<1>11. bp' \in SUBSET Primary
  BY <1>1, <1>2 DEF Types, TxType
<1>12. task' \in [Builder -> TaskType] /\ \A c \in Builder : TaskOK(task'[c])
  BY <1>1, <1>2, DirtyTaskOK
<1>13. Types'
  BY <1>1, <1>2, <1>6, <1>7, <1>8, <1>9, <1>10, <1>11, <1>12 DEF Types
<1>14. StateOK'
  BY <1>1, <1>2 DEF StateOK, Active
<1>15. OwnerOK'
  BY <1>2, DirtyTaskOwner DEF IInv, StateOK, StateType
<1>16. CatalogOK'
  <2>1. CASE catalog = "defined"
    BY <1>2, <2>1 DEF CatalogOK
  <2>2. CASE catalog # "defined"
    <3>1. t.queue = {} /\ t.marks = {} /\ t.put = {} /\ t.del = {} /\ t.gen = 0
      BY <1>1, <2>2 DEF t, IInv, CatalogOK, TxOK, TxCore
    <3>2. bg' = {} /\ bp' = {} /\ br' = {}
      BY <1>2, <2>2, <3>1 DEF IInv, CatalogOK
    <3>3. Closed(t) = IdleTx
      BY <1>1, <3>1, ClosedOK
    <3>4. \A c \in Writer : ~tx'[c].sees /\ tx'[c].gen = 0 /\ tx'[c].pc \in {"idle", "open"}
      BY <1>4, <1>6, <2>2, <3>3 DEF IdleTx
    <3>5. index' = index
      <4>1. Indexed({}, {}) = [e \in Entry |-> index[e]]
        BY DEF Indexed
      <4> QED BY <1>1, <1>2, <3>1, <4>1 DEF Types
    <3>6. \A b \in Builder : task[b].pc # "index" => task'[b].pc = task[b].pc
      BY <1>1, <1>2, DirtyTaskOK
    <3>7. \A b \in Builder : Starting(b)' => Starting(b)
      <4>1. \A b \in Builder : task'[b].pc = task[b].pc \/ task'[b].pc = "lookup"
        BY <1>1, <1>2, DirtyTaskOK
      <4> QED BY <4>1 DEF Starting
    <3>8. catalog = "gone" => \A b \in Builder : task'[b].pc # "index"
      BY <3>6 DEF IInv, CatalogOK
    <3> QED BY <1>2, <3>2, <3>4, <3>5, <3>7, <3>8 DEF IInv, CatalogOK
  <2> QED BY <2>1, <2>2
<1>17. MarksResolve'
  <2> SUFFICES ASSUME Active, ~bs.complete, NEW m \in bp', m.gen = bs.gen
               PROVE  Pointed(m)' # {}
    BY <1>2 DEF MarksResolve, Active
  <2>1. CASE m \in bp
    <3>1. Pointed(m) # {}
      BY <2>1 DEF IInv, MarksResolve
    <3> QED BY <1>2, <3>1 DEF Pointed
  <2>2. CASE m \in t.marks
    <3>1. PICK a \in t.queue : a.gen = m.gen /\ a.ticket = m.ticket /\ a.seq = m.seq
      BY <1>1, <2>2 DEF TxOK, TxCore
    <3> QED BY <1>2, <3>1 DEF Pointed
  <2> QED BY <1>2, <2>1, <2>2
<1> QED BY <1>13, <1>14, <1>15, <1>16, <1>17 DEF IInv

----------------------------------------------------------------------------
(* Builder tasks. *)

(* A step of a task to the next phase.                                      *)
TaskPc == {"idle", "drain", "publish", "clean", "scan", "lookup", "index",
           "replay1", "closing", "replay2", "wait", "replay3", "online"}
AtPc(t, p) == [t EXCEPT !.pc = p]

(* A task that goes on to another step keeps its data.                      *)
LEMMA AtPcFields ==
  ASSUME NEW t \in TaskType, NEW p \in TaskPc, NEW u, u = AtPc(t, p)
  PROVE  /\ u \in TaskType /\ u.pc = p /\ u.gen = t.gen /\ u.resumed = t.resumed
         /\ u.todo = t.todo /\ u.batch = t.batch /\ u.keys = t.keys
  BY DEF TaskType, TaskPc, AtPc

(* It stays well-formed if only a task with a generation builds.            *)
LEMMA AtPcOK ==
  ASSUME NEW t, TaskOK(t), NEW p \in TaskPc, t.keys = {},
         p \notin {"idle", "drain", "publish"} => t.gen > 0
  PROVE  TaskOK(AtPc(t, p))
<1> DEFINE u == AtPc(t, p)
<1> HIDE DEF u
<1>1. u \in TaskType /\ u.pc = p /\ u.gen = t.gen /\ u.keys = t.keys
  BY AtPcFields DEF TaskOK, u
<1>2. TaskOK(u)
  BY <1>1, FS_EmptySet DEF TaskOK
<1> QED BY <1>2 DEF u

(* A task that asks for the build keeps the invariant.                      *)
LEMMA AcquireOK ==
  ASSUME IInv, NEW b \in Builder, Acquire(b)
  PROVE  IInv'
<1> DEFINE u == AtPc(task[b], "drain")
<1>1. /\ task' = [task EXCEPT ![b] = u] /\ TaskOK(task[b]) /\ task[b].pc = "idle"
      /\ task[b] \in TaskType
  BY DEF Acquire, IInv, Types, AtPc
<1>2. "drain" \in TaskPc /\ task[b].keys = {}
  BY <1>1 DEF TaskPc, TaskOK, Replaying
<1>3. TaskOK(u) /\ u.pc = "drain" /\ u.gen = task[b].gen /\ u.resumed = task[b].resumed
  BY <1>1, <1>2, AtPcOK, AtPcFields
<1> HIDE DEF u
<1>4. /\ catalog' \in {"open", "defined"}
      /\ catalog' = catalog \/ (catalog = "absent" /\ catalog' = "open")
      /\ br' \subseteq br
      /\ UNCHANGED <<kind, table, index, bs, bg, bp, tx, runs, inactive>>
  BY DEF Acquire
<1>5. u.pc \notin Replaying \cup {"closing", "wait", "online", "replay2", "replay3"}
  BY <1>3 DEF Replaying
<1>6. Owns(b)' /\ u.resumed => bs.phase = "Closing"
  <2>1. task'[b] = u
    BY <1>1, <1>3, SetTask DEF IInv
  <2> QED BY <1>3, <1>4, <2>1 DEF Owns, IInv, OwnerOK
<1> QED BY <1>1, <1>3, <1>4, <1>5, <1>6, OneTaskFrame

(* So does one that waits for the reservations of earlier generations.      *)
LEMMA DrainPriorOK ==
  ASSUME IInv, NEW b \in Builder, DrainPrior(b)
  PROVE  IInv'
<1>1. /\ task[b].pc = "drain" /\ TaskOK(task[b]) /\ task[b] \in TaskType /\ br' \subseteq br
      /\ UNCHANGED <<kind, table, index, catalog, bs, bg, bp, tx, runs, inactive>>
  BY DEF DrainPrior, IInv, Types
<1>2. catalog \in {"open", "defined"}
  BY <1>1 DEF IInv, CatalogOK, Starting
<1>3. CASE task' = [task EXCEPT ![b].pc = "publish"]
  <2> DEFINE u == AtPc(task[b], "publish")
  <2>1. task' = [task EXCEPT ![b] = u]
    BY <1>3 DEF AtPc
  <2>2. "publish" \in TaskPc /\ task[b].keys = {}
    BY <1>1 DEF TaskPc, TaskOK, Replaying
  <2>3. TaskOK(u) /\ u.pc = "publish" /\ u.gen = task[b].gen /\ u.resumed = task[b].resumed
    BY <1>1, <2>2, AtPcOK, AtPcFields
  <2> HIDE DEF u
  <2>4. u.pc \notin Replaying \cup {"closing", "wait", "online", "replay2", "replay3"}
    BY <2>3 DEF Replaying
  <2>5. Owns(b)' /\ u.resumed => bs.phase = "Closing"
    <3>1. task'[b] = u
      BY <2>1, <2>3, SetTask DEF IInv
    <3> QED BY <1>1, <2>3, <3>1 DEF Owns, IInv, OwnerOK
  <2> QED BY <1>1, <1>2, <2>1, <2>3, <2>4, <2>5, OneTaskFrame
<1>4. CASE UNCHANGED task
  <2>1. task' \in [Builder -> TaskType] /\ \A c \in Builder : TaskOK(task'[c])
    BY <1>4 DEF IInv, Types
  <2>2. OwnerOK'
    BY <1>1, <1>4 DEF IInv, OwnerOK, Owns
  <2> QED BY <1>1, <1>2, <2>1, <2>2, TaskFrame
<1> QED BY <1>3, <1>4 DEF DrainPrior

(* The new generation, and the task that builds it.                         *)
NewState(b) == [NoState EXCEPT !.gen = bs.gen + 1, !.phase = "Building", !.owner = b]
NewTask == [IdleTask EXCEPT !.pc = "clean", !.gen = bs.gen + 1]

(* What the first state and task of a generation are.                       *)
Published(s, u, b) ==
    /\ s \in StateType /\ s.gen = bs.gen + 1 /\ s.phase = "Building" /\ s.owner = b
    /\ s.ticket = 0 /\ s.complete = FALSE
    /\ TaskOK(u) /\ u.pc = "clean" /\ u.gen = bs.gen + 1 /\ u.resumed = FALSE

(* Publish gives the next generation to the task, with no ticket handed     *)
(* out.                                                                     *)
LEMMA PublishFields ==
  ASSUME Types, StateOK, NEW b \in Builder, runs < MaxRuns,
         NEW s, s = NewState(b), NEW u, u = NewTask
  PROVE  Published(s, u, b)
<1> DEFINE g == bs.gen + 1
<1>1. g \in 0..MaxRuns /\ g > 0
  BY DEF Types, StateOK, StateType
<1>2. NoState \in StateType
  BY DEF NoState, StateType, Phase
<1>3. IdleTask \in TaskType /\ IdleTask.keys = {} /\ IdleTask.resumed = FALSE
  BY IdleOK DEF TaskOK, IdleTask
<1>4. NoState.ticket = 0 /\ NoState.complete = FALSE
  BY DEF NoState
<1>5. "Building" \in Phase /\ b \in Builder \cup {NoOwner}
  BY DEF Phase
<1>6. /\ s = [NoState EXCEPT !.gen = g, !.phase = "Building", !.owner = b]
      /\ u = [IdleTask EXCEPT !.pc = "clean", !.gen = g]
  BY DEF NewState, NewTask
<1> HIDE DEF g
<1>7. /\ s \in StateType /\ s.gen = g /\ s.phase = "Building" /\ s.owner = b
      /\ s.ticket = NoState.ticket /\ s.complete = NoState.complete
  BY <1>1, <1>2, <1>5, <1>6 DEF StateType
<1>8. u \in TaskType /\ u.pc = "clean" /\ u.gen = g /\ u.keys = IdleTask.keys
      /\ u.resumed = IdleTask.resumed
  BY <1>1, <1>3, <1>6 DEF TaskType
<1>9. TaskOK(u)
  BY <1>1, <1>3, <1>8 DEF TaskOK, Replaying
<1> QED BY <1>3, <1>4, <1>7, <1>8, <1>9 DEF Published, g

(* A new generation keeps the invariant: it has neither marks nor           *)
(* mutations.                                                               *)
LEMMA PublishOK ==
  ASSUME IInv, NEW b \in Builder, Publish(b)
  PROVE  IInv'
<1>1. /\ task[b].pc = "publish" /\ Types /\ StateOK
      /\ UNCHANGED <<kind, table, index, catalog, tx, inactive>>
  BY DEF Publish, IInv, Types
<1>2. catalog \in {"open", "defined"}
  BY <1>1 DEF IInv, CatalogOK, Starting
<1>3. CASE task' = [task EXCEPT ![b] = IdleTask] /\ UNCHANGED <<bs, bg, bp, br, runs>>
  <2>1. TaskOK(IdleTask) /\ IdleTask.pc = "idle" /\ ~IdleTask.resumed
    BY IdleOK DEF IdleTask
  <2>2. IdleTask.pc \notin Replaying \cup {"closing", "wait", "online", "replay2", "replay3"}
    BY <2>1 DEF Replaying
  <2>3. br' \subseteq br
    BY <1>3
  <2> QED BY <1>1, <1>2, <1>3, <2>1, <2>2, <2>3, OneTaskFrame
<1>4. CASE ~Active
  <2> DEFINE u == NewTask
             s == NewState(b)
  <2>1. /\ runs < MaxRuns /\ runs' = runs + 1 /\ bs' = s
        /\ bg' = {} /\ bp' = {} /\ br' = {}
        /\ task' = [task EXCEPT ![b] = u]
    BY <1>4 DEF Publish, NewTask, NewState
  <2> HIDE DEF s, u
  <2>2. /\ s \in StateType /\ s.gen = bs.gen + 1 /\ s.phase = "Building" /\ s.owner = b
        /\ TaskOK(u) /\ u.pc = "clean" /\ u.gen = bs.gen + 1 /\ u.resumed = FALSE
    <3>1. Published(s, u, b)
      BY <1>1, <2>1, PublishFields DEF s, u
    <3> QED BY <3>1 DEF Published
  <2>4. /\ task' \in [Builder -> TaskType] /\ \A c \in Builder : TaskOK(task'[c])
        /\ task'[b] = u
    BY <1>1, <2>1, <2>2, SetTask
  <2>5. Types'
    BY <1>1, <2>1, <2>4, FS_EmptySet DEF Types
  <2>6. StateOK'
    BY <1>1, <2>1, <2>2 DEF StateOK, StateType, Active, Types
  <2>7. OwnerOK'
    BY <2>1, <2>2, <2>4 DEF OwnerOK, Owns, Replaying
  <2>9. CatalogOK'
    BY <1>1, <1>2, <2>1 DEF IInv, CatalogOK
  <2>10. MarksResolve'
    BY <2>1 DEF MarksResolve
  <2> QED BY <2>5, <2>6, <2>7, <2>9, <2>10 DEF IInv
<1> QED BY <1>3, <1>4 DEF Publish

(* While a build is active the index is defined or being defined.           *)
LEMMA OwnedActive ==
  ASSUME IInv, NEW b \in Builder, Owns(b)
  PROVE  Active /\ catalog \notin {"absent", "gone"} /\ bs.gen > 0
<1>1. bs.owner # NoOwner
  BY DEF Owns
<1> QED BY <1>1 DEF IInv, StateOK, CatalogOK, NoState, Active, StateType

(* The task that takes a build over.                                        *)
Resumption == [IdleTask EXCEPT !.gen = bs.gen, !.resumed = bs.phase = "Closing",
                   !.pc = IF bs.phase = "Building" /\ ~bs.complete THEN "clean" ELSE "replay1"]

(* A task that takes over starts with the scan if it was not complete, and  *)
(* else with the replay.                                                    *)
LEMMA ResumptionFields ==
  ASSUME StateOK, Active, NEW u, u = Resumption
  PROVE  /\ TaskOK(u) /\ u.gen = bs.gen /\ u.resumed = (bs.phase = "Closing") /\ u.keys = {}
         /\ \/ u.pc = "clean" /\ bs.phase = "Building" /\ ~bs.complete
            \/ u.pc = "replay1" /\ bs.complete
<1> DEFINE g == bs.gen
           c == bs.phase = "Closing"
           p == IF bs.phase = "Building" /\ ~bs.complete THEN "clean" ELSE "replay1"
<1>1. g \in 0..MaxRuns /\ g > 0 /\ c \in BOOLEAN
  BY DEF StateOK, StateType, Active
<1>2. p \in TaskPc /\ \/ p = "clean" /\ bs.phase = "Building" /\ ~bs.complete
                      \/ p = "replay1" /\ bs.complete
  BY DEF TaskPc, StateOK, Active
<1>3. u = [IdleTask EXCEPT !.gen = g, !.resumed = c, !.pc = p]
  BY DEF Resumption
<1>4. IdleTask \in TaskType /\ IdleTask.keys = {}
  BY IdleOK DEF TaskOK, IdleTask
<1> HIDE DEF g, c, p
<1>5. u \in TaskType /\ u.gen = g /\ u.resumed = c /\ u.pc = p /\ u.keys = IdleTask.keys
  BY <1>1, <1>2, <1>3, <1>4 DEF TaskType, TaskPc
<1>6. TaskOK(u)
  BY <1>1, <1>2, <1>4, <1>5, FS_EmptySet DEF TaskOK, Replaying
<1> QED BY <1>2, <1>4, <1>5, <1>6 DEF g, c

(* A takeover keeps the invariant.                                          *)
LEMMA TakeOverOK ==
  ASSUME IInv, NEW b \in Builder, TakeOver(b)
  PROVE  IInv'
<1> DEFINE u == Resumption
           d == DirtyTask({<<"bs">>})
<1>1. /\ task[b].pc = "idle" /\ catalog = "defined" /\ Active
      /\ runs < MaxRuns /\ runs' = runs + 1
      /\ bs' = [bs EXCEPT !.owner = b]
      /\ task' = [d EXCEPT ![b] = u]
      /\ UNCHANGED <<kind, table, index, catalog, bg, bp, br, tx, inactive>>
      /\ Types /\ StateOK
  BY DEF TakeOver, Resumption, IInv
<1> HIDE DEF u, d
<1>2. /\ TaskOK(u) /\ u.gen = bs.gen /\ u.resumed = (bs.phase = "Closing")
      /\ \/ u.pc = "clean" /\ bs.phase = "Building" /\ ~bs.complete
         \/ u.pc = "replay1" /\ bs.complete
  BY <1>1, ResumptionFields DEF u
<1>3. /\ d \in [Builder -> TaskType] /\ \A c \in Builder : TaskOK(d[c])
  <2>1. d = [c \in Builder |-> d[c]]
    BY DEF d, DirtyTask
  <2>2. \A c \in Builder : TaskOK(d[c])
    BY <1>1, DirtyTaskFields DEF d
  <2> QED BY <2>1, <2>2 DEF TaskOK
<1>4. u \in TaskType
  BY <1>2 DEF TaskOK
<1>5. /\ task' \in [Builder -> TaskType] /\ \A c \in Builder : TaskOK(task'[c])
      /\ task'[b] = u
  BY <1>1, <1>2, <1>3, <1>4
<1>6. /\ bs' \in StateType /\ bs'.gen = bs.gen /\ bs'.phase = bs.phase /\ bs'.owner = b
      /\ bs'.complete = bs.complete
  <2>1. bs \in StateType /\ b \in Builder \cup {NoOwner}
    BY <1>1 DEF StateOK
  <2> QED BY <1>1, <2>1 DEF StateType
<1>7. Types'
  BY <1>1, <1>5 DEF Types
<1>8. StateOK'
  BY <1>1, <1>6 DEF StateOK, Active, Types, StateType
<1>9. OwnerOK'
  BY <1>2, <1>5, <1>6 DEF OwnerOK, Owns, Replaying
<1>10. CatalogOK'
  BY <1>1 DEF CatalogOK
<1>11. MarksResolve'
  BY <1>1, <1>6 DEF IInv, MarksResolve, Active, Pointed
<1> QED BY <1>7, <1>8, <1>9, <1>10, <1>11 DEF IInv

(* A step of the owner that changes the state of its generation.            *)
LEMMA OwnerStep ==
  ASSUME IInv, NEW b \in Builder, Owns(b), NEW u, TaskOK(u), task' = [task EXCEPT ![b] = u],
         u.pc \notin {"drain", "publish"},
         bs' \in StateType, bs'.gen = bs.gen, bs'.owner \in {b, NoOwner}, bs'.phase # "none",
         bs'.phase \in {"Building", "Closing"} <=> bs'.owner # NoOwner,
         bs'.phase = "Closing" => bs'.complete, bs.complete => bs'.complete,
         bs'.owner = b =>
            /\ u.pc \in Replaying \cup {"closing", "wait", "online"} => bs'.complete
            /\ u.pc \in {"replay2", "wait", "replay3", "online"} => bs'.phase = "Closing"
            /\ u.resumed => bs'.phase = "Closing",
         UNCHANGED <<kind, table, index, catalog, bg, bp, br, tx, runs, inactive>>
  PROVE  IInv'
<1>1. Active /\ catalog \notin {"absent", "gone"} /\ bs.gen > 0
  BY OwnedActive
<1>2. /\ task' \in [Builder -> TaskType] /\ \A c \in Builder : TaskOK(task'[c])
      /\ task'[b] = u /\ \A c \in Builder : c # b => task'[c] = task[c]
  BY SetTask DEF IInv
<1>3. Types'
  BY <1>2 DEF IInv, Types
<1>4. StateOK'
  BY <1>1 DEF IInv, StateOK, Active
<1>5. OwnerOK'
  BY <1>2 DEF OwnerOK, Owns
<1>6. CatalogOK'
  <2>1. \A c \in Builder : Starting(c)' => Starting(c)
    BY <1>2 DEF Starting
  <2> QED BY <1>1, <2>1 DEF IInv, CatalogOK
<1>7. MarksResolve'
  BY <1>1 DEF IInv, MarksResolve, Active, Pointed
<1> QED BY <1>3, <1>4, <1>5, <1>6, <1>7 DEF IInv

(* The end of the scan keeps the invariant: nothing looks a mark up from    *)
(* then on.                                                                 *)
LEMMA InitialCompleteOK ==
  ASSUME IInv, NEW b \in Builder, InitialComplete(b)
  PROVE  IInv'
<1> DEFINE u == AtPc(task[b], "replay1")
<1>1. /\ task' = [task EXCEPT ![b] = u] /\ TaskOK(task[b]) /\ task[b].pc = "scan"
      /\ task[b] \in TaskType /\ Owns(b) /\ bs' = [bs EXCEPT !.complete = TRUE]
      /\ UNCHANGED <<kind, table, index, catalog, bg, bp, br, tx, runs, inactive>>
      /\ StateOK /\ bs \in StateType
  BY DEF InitialComplete, IInv, StateOK, Types, AtPc
<1>2. "replay1" \in TaskPc /\ task[b].keys = {} /\ task[b].gen > 0
  BY <1>1 DEF TaskPc, TaskOK, Replaying
<1>3. TaskOK(u) /\ u.pc = "replay1" /\ u.resumed = task[b].resumed
  BY <1>1, <1>2, AtPcOK, AtPcFields
<1> HIDE DEF u
<1>4. /\ bs' \in StateType /\ bs'.gen = bs.gen /\ bs'.owner = bs.owner /\ bs'.phase = bs.phase
      /\ bs'.complete = TRUE
  BY <1>1 DEF StateType
<1>5. bs.owner = b /\ Active /\ bs.owner # NoOwner /\ bs.phase # "none"
  BY <1>1, OwnedActive DEF Owns, Active
<1>6. u.resumed => bs.phase = "Closing"
  BY <1>1, <1>3 DEF IInv, OwnerOK
<1> QED BY <1>1, <1>3, <1>4, <1>5, <1>6, OwnerStep DEF Active

(* Closing the queue to new tickets keeps the invariant.                    *)
LEMMA MarkClosingOK ==
  ASSUME IInv, NEW b \in Builder, MarkClosing(b)
  PROVE  IInv'
<1> DEFINE u == AtPc(task[b], "replay2")
<1>1. /\ task' = [task EXCEPT ![b] = u] /\ TaskOK(task[b]) /\ task[b].pc = "closing"
      /\ task[b] \in TaskType /\ Owns(b) /\ bs' = [bs EXCEPT !.phase = "Closing"]
      /\ UNCHANGED <<kind, table, index, catalog, bg, bp, br, tx, runs, inactive>>
      /\ bs \in StateType
  BY DEF MarkClosing, IInv, StateOK, Types, AtPc
<1>2. "replay2" \in TaskPc /\ task[b].keys = {} /\ task[b].gen > 0
  BY <1>1 DEF TaskPc, TaskOK, Replaying
<1>3. TaskOK(u) /\ u.pc = "replay2"
  BY <1>1, <1>2, AtPcOK, AtPcFields
<1> HIDE DEF u
<1>4. /\ bs' \in StateType /\ bs'.gen = bs.gen /\ bs'.owner = bs.owner /\ bs'.phase = "Closing"
      /\ bs'.complete = bs.complete
  <2>1. "Closing" \in Phase
    BY DEF Phase
  <2> QED BY <1>1, <2>1 DEF StateType
<1>5. bs.owner = b /\ bs.owner # NoOwner /\ bs.complete
  BY <1>1 DEF Owns, IInv, OwnerOK
<1> QED BY <1>1, <1>3, <1>4, <1>5, OwnerStep

(* Going online keeps the invariant.                                        *)
LEMMA MarkOnlineOK ==
  ASSUME IInv, NEW b \in Builder, MarkOnline(b)
  PROVE  IInv'
<1>1. /\ task' = [task EXCEPT ![b] = IdleTask] /\ TaskOK(IdleTask) /\ Owns(b)
      /\ bs' = [bs EXCEPT !.phase = "Online", !.owner = NoOwner, !.complete = TRUE]
      /\ UNCHANGED <<kind, table, index, catalog, bg, bp, br, tx, runs, inactive>>
      /\ bs \in StateType
  BY IdleOK DEF MarkOnline, IInv, StateOK
<1>2. /\ bs' \in StateType /\ bs'.gen = bs.gen /\ bs'.owner = NoOwner /\ bs'.phase = "Online"
      /\ bs'.complete = TRUE
  <2>1. "Online" \in Phase /\ NoOwner \in Builder \cup {NoOwner}
    BY DEF Phase
  <2> QED BY <1>1, <2>1 DEF StateType
<1>3. IdleTask.pc \notin {"drain", "publish"}
  BY DEF IdleTask
<1> QED BY <1>1, <1>2, <1>3, OwnerStep

(* A task that fails or is stopped keeps the invariant.                     *)
LEMMA StopOK ==
  ASSUME IInv, NEW b \in Builder, Stop(b)
  PROVE  IInv'
<1>1. /\ task' = [task EXCEPT ![b] = IdleTask] /\ TaskOK(IdleTask)
      /\ UNCHANGED <<kind, table, index, catalog, bg, bp, br, tx, runs, inactive>>
  BY IdleOK DEF Stop
<1>2. IdleTask.pc = "idle" /\ ~IdleTask.resumed
  BY DEF IdleTask
<1>3. CASE UNCHANGED bs
  <2>1. IdleTask.pc \notin Replaying \cup {"closing", "wait", "online", "replay2", "replay3"}
    BY <1>2 DEF Replaying
  <2>2. br' \subseteq br
    BY <1>1
  <2> QED BY <1>1, <1>2, <1>3, <2>1, <2>2, OneTaskFrame
<1>4. CASE Owns(b) /\ bs' = Failed(bs)
  <2>1. Active /\ StateOK
    BY <1>4, OwnedActive DEF IInv
  <2>2. /\ bs' \in StateType /\ bs'.gen = bs.gen /\ bs'.phase = "Error" /\ bs'.owner = NoOwner
        /\ bs'.complete = bs.complete
    BY <1>4, <2>1, FailedState
  <2> QED BY <1>1, <1>2, <1>4, <2>2, OwnerStep
<1> QED BY <1>3, <1>4 DEF Stop

(* Waiting for reservations, and discarding those of dead nodes, keeps the  *)
(* invariant.                                                               *)
LEMMA WaitReservationsOK ==
  ASSUME IInv, NEW b \in Builder, WaitReservations(b)
  PROVE  IInv'
<1>1. /\ task[b].pc = "wait" /\ TaskOK(task[b]) /\ task[b] \in TaskType /\ br' \subseteq br
      /\ UNCHANGED <<kind, table, index, catalog, bs, bg, bp, tx, runs, inactive>>
  BY DEF WaitReservations, IInv, Types
<1>2. CASE task' = [task EXCEPT ![b].pc = "replay3"]
  <2> DEFINE u == AtPc(task[b], "replay3")
  <2>1. task' = [task EXCEPT ![b] = u]
    BY <1>2 DEF AtPc
  <2>2. "replay3" \in TaskPc /\ task[b].keys = {} /\ task[b].gen > 0
    BY <1>1 DEF TaskPc, TaskOK, Replaying
  <2>3. TaskOK(u) /\ u.pc = "replay3" /\ u.gen = task[b].gen /\ u.resumed = task[b].resumed
    BY <1>1, <2>2, AtPcOK, AtPcFields
  <2> HIDE DEF u
  <2>4. Owns(b)' => Owns(b)
    <3>1. task'[b] = u
      BY <2>1, <2>3, SetTask DEF IInv
    <3> QED BY <1>1, <2>3, <3>1 DEF Owns
  <2>5. Owns(b)' => bs.complete /\ bs.phase = "Closing"
    BY <1>1, <2>4 DEF IInv, OwnerOK
  <2> QED BY <1>1, <2>1, <2>3, <2>5, OneTaskFrame
<1>3. CASE UNCHANGED task
  <2>1. task' \in [Builder -> TaskType] /\ \A c \in Builder : TaskOK(task'[c])
    BY <1>3 DEF IInv, Types
  <2>2. OwnerOK'
    BY <1>1, <1>3 DEF IInv, OwnerOK, Owns
  <2>3. /\ catalog' \notin {"open", "defined"} => \A c \in Builder : ~Starting(c)'
        /\ catalog' = "gone" => \A c \in Builder : task'[c].pc # "index"
    BY <1>1, <1>3 DEF IInv, CatalogOK, Starting
  <2> QED BY <1>1, <2>1, <2>2, <2>3, TaskFrame
<1> QED BY <1>2, <1>3 DEF WaitReservations

(* The task after each step of the scan.                                    *)
Scanning(t) == [t EXCEPT !.pc = "scan", !.todo = Rec]
HavingRead(t, T, f) == [t EXCEPT !.pc = "lookup", !.todo = T, !.batch = f]
HavingSeen(t, K) == [t EXCEPT !.pc = "index", !.keys = K]
HavingIndexed(t) == [t EXCEPT !.pc = "scan", !.batch = << >>, !.keys = {}]
HavingKeys(t, K) == [t EXCEPT !.keys = K]

(* A scan begins with all records to do.                                    *)
LEMMA ScanningFields ==
  ASSUME NEW t, TaskOK(t), NEW u, u = Scanning(t)
  PROVE  /\ u \in TaskType /\ u.pc = "scan" /\ u.todo = Rec /\ u.gen = t.gen
         /\ u.resumed = t.resumed /\ u.batch = t.batch /\ u.keys = t.keys
BY DEF TaskOK, TaskType, Scanning

(* A batch that was read has its records looked up next.                    *)
LEMMA HavingReadFields ==
  ASSUME NEW t, TaskOK(t), NEW T \in SUBSET Rec, NEW f \in Partial, NEW u, u = HavingRead(t, T, f)
  PROVE  /\ u \in TaskType /\ u.pc = "lookup" /\ u.todo = T /\ u.gen = t.gen
         /\ u.resumed = t.resumed /\ u.batch = f /\ u.keys = t.keys
BY DEF TaskOK, TaskType, HavingRead

(* A batch that was looked up is indexed next.                              *)
LEMMA HavingSeenFields ==
  ASSUME NEW t, TaskOK(t), NEW K \in SUBSET Appending, NEW u, u = HavingSeen(t, K)
  PROVE  /\ u \in TaskType /\ u.pc = "index" /\ u.todo = t.todo /\ u.gen = t.gen
         /\ u.resumed = t.resumed /\ u.batch = t.batch /\ u.keys = K
BY DEF TaskOK, TaskType, HavingSeen

(* A batch that was indexed is forgotten.                                   *)
LEMMA HavingIndexedFields ==
  ASSUME NEW t, TaskOK(t), NEW u, u = HavingIndexed(t)
  PROVE  /\ u \in TaskType /\ u.pc = "scan" /\ u.todo = t.todo /\ u.gen = t.gen
         /\ u.resumed = t.resumed /\ u.batch = << >> /\ u.keys = {}
<1> DEFINE e == << >>
<1>1. e \in Partial
  <2>1. << >> \in [{} -> MaybeValue]
    OBVIOUS
  <2> QED BY <2>1 DEF Partial
<1>2. u = [t EXCEPT !.pc = "scan", !.batch = e, !.keys = {}]
  BY DEF HavingIndexed
<1> HIDE DEF e
<1>3. /\ u \in TaskType /\ u.pc = "scan" /\ u.todo = t.todo /\ u.gen = t.gen
      /\ u.resumed = t.resumed /\ u.batch = e /\ u.keys = {}
  BY <1>1, <1>2 DEF TaskOK, TaskType
<1> QED BY <1>3 DEF e

(* Reading the queue fixes what is replayed.                                *)
LEMMA HavingKeysFields ==
  ASSUME NEW t, TaskOK(t), NEW K \in SUBSET Appending, NEW u, u = HavingKeys(t, K)
  PROVE  /\ u \in TaskType /\ u.pc = t.pc /\ u.todo = t.todo /\ u.gen = t.gen
         /\ u.resumed = t.resumed /\ u.batch = t.batch /\ u.keys = K
BY DEF TaskOK, TaskType, HavingKeys

(* Cleaning the index keeps the invariant.                                  *)
LEMMA CleanOK ==
  ASSUME IInv, NEW b \in Builder, Clean(b)
  PROVE  IInv'
<1> DEFINE u == Scanning(task[b])
           keys == EntryKeys({e \in Entry : index[e] # 0})
<1>1. /\ task[b].pc = "clean" /\ Owns(b) /\ bs.phase = "Building"
      /\ index' = NoEntries /\ tx' = DirtyTx(keys)
      /\ UNCHANGED <<kind, table, catalog, bs, bg, bp, br, runs, inactive>>
      /\ Types /\ StateOK /\ TaskOK(task[b])
  BY DEF Clean, IInv, Types
<1>2. task' = [task EXCEPT ![b] = u]
  BY DEF Clean, IInv, Types, Scanning
<1>3. keys \subseteq Key
  BY DEF EntryKeys, Key
<1> HIDE DEF u, keys
<1>4. /\ u \in TaskType /\ u.pc = "scan" /\ u.gen = task[b].gen
      /\ u.resumed = task[b].resumed /\ u.keys = task[b].keys
  BY <1>1, ScanningFields DEF u
<1>5. TaskOK(u)
  BY <1>1, <1>4 DEF TaskOK, Replaying
<1>6. /\ task' \in [Builder -> TaskType] /\ \A c \in Builder : TaskOK(task'[c])
      /\ task'[b] = u /\ \A c \in Builder : c # b => task'[c] = task[c]
  BY <1>1, <1>2, <1>5, SetTask
<1>7. /\ tx' \in [Writer -> TxType] /\ \A c \in Writer : TxOK(tx'[c])
      /\ catalog # "defined" =>
           \A c \in Writer : ~tx'[c].sees /\ tx'[c].gen = 0 /\ tx'[c].pc \in {"idle", "open"}
  BY <1>1, <1>3, DirtyTxFrame
<1>8. index' \in [Entry -> Int]
  BY <1>1 DEF NoEntries
<1>9. Types'
  BY <1>1, <1>6, <1>7, <1>8 DEF Types
<1>10. StateOK'
  BY <1>1 DEF StateOK, Active
<1>11. OwnerOK'
  BY <1>1, <1>4, <1>6 DEF IInv, OwnerOK, Owns, Replaying
<1>12. CatalogOK'
  <2>1. \A c \in Builder : Starting(c)' => Starting(c)
    BY <1>4, <1>6 DEF Starting
  <2> QED BY <1>1, <1>7, <2>1, OwnedActive DEF IInv, CatalogOK
<1>13. MarksResolve'
  BY <1>1 DEF IInv, MarksResolve, Active, Pointed
<1> QED BY <1>9, <1>10, <1>11, <1>12, <1>13 DEF IInv

(* Reading a batch of records keeps the invariant.                          *)
LEMMA ReadBatchOK ==
  ASSUME IInv, NEW b \in Builder, ReadBatch(b)
  PROVE  IInv'
<1>1. /\ task[b].pc = "scan" /\ Types /\ TaskOK(task[b]) /\ br' \subseteq br
      /\ UNCHANGED <<kind, table, index, catalog, bs, bg, bp, tx, runs, inactive>>
      /\ task[b] \in TaskType /\ task \in [Builder -> TaskType]
  BY DEF ReadBatch, IInv, Types
<1>2. PICK S \in (SUBSET task[b].todo) \ {{}} :
          task' = [task EXCEPT ![b].pc = "lookup", ![b].todo = @ \ S,
                     ![b].batch = [r \in S |-> table[r]]]
  BY DEF ReadBatch
<1> DEFINE f == [r \in S |-> table[r]]
           T == task[b].todo \ S
           u == HavingRead(task[b], T, f)
<1>3. task' = [task EXCEPT ![b] = u]
  BY <1>1, <1>2 DEF HavingRead
<1>4. T \in SUBSET Rec /\ f \in Partial
  <2>1. S \in SUBSET Rec
    BY <1>1, <1>2 DEF TaskType
  <2>2. f \in [S -> MaybeValue]
    BY <1>1, <2>1 DEF Types
  <2> QED BY <1>1, <2>1, <2>2 DEF TaskType, Partial
<1> HIDE DEF u, T, f
<1>5. /\ u \in TaskType /\ u.pc = "lookup" /\ u.gen = task[b].gen
      /\ u.resumed = task[b].resumed /\ u.keys = task[b].keys
  BY <1>1, <1>4, HavingReadFields DEF u
<1>6. TaskOK(u)
  BY <1>1, <1>5 DEF TaskOK, Replaying
<1>7. Owns(b)' /\ u.resumed => bs.phase = "Closing"
  <2>1. task'[b] = u
    BY <1>1, <1>3, <1>6, SetTask
  <2> QED BY <1>1, <1>5, <2>1 DEF IInv, OwnerOK, Owns
<1>8. u.pc \notin Replaying \cup {"closing", "wait", "online", "replay2", "replay3"}
  BY <1>5 DEF Replaying
<1> QED BY <1>1, <1>3, <1>5, <1>6, <1>7, <1>8, OneTaskFrame

(* What the scan has seen of a record is one of its values.                 *)
LEMMA SeenType ==
  ASSUME Types, NEW t, TaskOK(t), NEW r \in DOMAIN t.batch,
         \A m \in MarkOf(t.gen, r) : Pointed(m) # {}
  PROVE  Seen(t, r) \in MaybeValue
<1>1. t.batch \in Partial
  BY DEF TaskOK, TaskType
<1>2. t.batch[r] \in MaybeValue
  BY <1>1 DEF Partial
<1>3. CASE MarkOf(t.gen, r) = {}
  BY <1>2, <1>3 DEF Seen
<1>4. CASE MarkOf(t.gen, r) # {}
  <2> DEFINE P(a) == \E m \in MarkOf(t.gen, r) : a \in Pointed(m)
  <2>1. \E a \in bg : P(a)
    BY <1>4 DEF Pointed
  <2>2. (CHOOSE a \in bg : P(a)) \in bg
    <3> HIDE DEF P
    <3> QED BY <2>1
  <2>3. (CHOOSE a \in bg : P(a)).old \in MaybeValue
    BY <2>2 DEF Types, Appending, MaybeValue
  <2> QED BY <1>4, <2>3 DEF Seen
<1> QED BY <1>3, <1>4

(* Looking up the marks of a batch keeps the invariant.                     *)
LEMMA LookupBatchOK ==
  ASSUME IInv, NEW b \in Builder, LookupBatch(b)
  PROVE  IInv'
<1> DEFINE K == {[gen |-> task[b].gen, ticket |-> 0, seq |-> 0, rec |-> r, old |-> None,
                  new |-> Seen(task[b], r)] : r \in ToIndex(task[b])}
           u == HavingSeen(task[b], K)
<1>1. /\ task[b].pc = "lookup" /\ Types /\ TaskOK(task[b]) /\ br' \subseteq br /\ Owns(b)
      /\ UNCHANGED <<kind, table, index, catalog, bs, bg, bp, tx, runs, inactive>>
      /\ task[b] \in TaskType /\ task \in [Builder -> TaskType]
      /\ \A r \in ToIndex(task[b]) : \A m \in MarkOf(task[b].gen, r) : Pointed(m) # {}
  BY DEF LookupBatch, IInv, Types
<1>2. task' = [task EXCEPT ![b] = u]
  BY <1>1 DEF LookupBatch, HavingSeen
<1>3. K \in SUBSET Appending
  <2> SUFFICES ASSUME NEW r \in ToIndex(task[b])
               PROVE  [gen |-> task[b].gen, ticket |-> 0, seq |-> 0, rec |-> r, old |-> None,
                       new |-> Seen(task[b], r)] \in Appending
    OBVIOUS
  <2>1. r \in DOMAIN task[b].batch
    BY DEF ToIndex
  <2>2. Seen(task[b], r) \in Value \cup {None}
    BY <1>1, <2>1, SeenType DEF MaybeValue
  <2>3. r \in Rec
    BY <1>1, <2>1 DEF TaskType, Partial
  <2>4. task[b].gen \in 1..MaxRuns
    BY <1>1 DEF TaskOK, TaskType
  <2>5. 0 \in 0..MaxTicket /\ 0 \in 0..MaxSeq
    OBVIOUS
  <2> QED BY <2>2, <2>3, <2>4, <2>5 DEF Appending
<1> HIDE DEF u, K
<1>4. /\ u \in TaskType /\ u.pc = "index" /\ u.gen = task[b].gen
      /\ u.resumed = task[b].resumed /\ u.keys = K
  BY <1>1, <1>3, HavingSeenFields DEF u
<1>5. TaskOK(u)
  BY <1>1, <1>4 DEF TaskOK, Replaying
<1>6. u.resumed => bs.phase = "Closing"
  BY <1>1, <1>4 DEF IInv, OwnerOK
<1>7. u.pc \notin Replaying \cup {"closing", "wait", "online", "replay2", "replay3", "drain", "publish"}
  BY <1>4 DEF Replaying
<1>8. catalog' = catalog /\ catalog \notin {"absent", "gone"}
  BY <1>1, OwnedActive
<1> QED BY <1>1, <1>2, <1>5, <1>6, <1>7, <1>8, OneTaskFrame

(* A batch is committed whoever owns the build by then: its entries are     *)
(* those of an index that has not been rolled back.                         *)
LEMMA IndexBatchOK ==
  ASSUME IInv, NEW b \in Builder, IndexBatch(b)
  PROVE  IInv'
<1> DEFINE new == BatchEntries(task[b])
           keys == EntryKeys(new)
           u == HavingIndexed(task[b])
<1>1. /\ task[b].pc = "index" /\ Types /\ StateOK /\ TaskOK(task[b])
      /\ index' = Indexed(new, {}) /\ tx' = DirtyTx(keys)
      /\ UNCHANGED <<kind, table, catalog, bs, bg, bp, br, runs, inactive>>
      /\ task[b] \in TaskType
  BY DEF IndexBatch, IInv, Types
<1>2. task' = [task EXCEPT ![b] = u]
  BY <1>1 DEF IndexBatch, HavingIndexed, IInv, Types
<1>3. keys \subseteq Key
  <2>1. \A a \in task[b].keys : EntriesOf(a.rec, a.new) \subseteq Entry
    BY <1>1 DEF TaskType, Appending, EntriesOf, Entry
  <2> QED BY <2>1 DEF BatchEntries, EntryKeys, Key
<1>4. index' \in [Entry -> Int]
  BY <1>1, IndexedType
<1> HIDE DEF u, keys, new
<1>5. /\ u \in TaskType /\ u.pc = "scan" /\ u.gen = task[b].gen
      /\ u.resumed = task[b].resumed /\ u.keys = {}
  BY <1>1, HavingIndexedFields DEF u
<1>6. TaskOK(u)
  BY <1>1, <1>5 DEF TaskOK, Replaying
<1>7. /\ task' \in [Builder -> TaskType] /\ \A c \in Builder : TaskOK(task'[c])
      /\ task'[b] = u /\ \A c \in Builder : c # b => task'[c] = task[c]
  BY <1>1, <1>2, <1>6, SetTask
<1>8. /\ tx' \in [Writer -> TxType] /\ \A c \in Writer : TxOK(tx'[c])
      /\ catalog # "defined" =>
           \A c \in Writer : ~tx'[c].sees /\ tx'[c].gen = 0 /\ tx'[c].pc \in {"idle", "open"}
  BY <1>1, <1>3, DirtyTxFrame
<1>9. Types'
  BY <1>1, <1>4, <1>7, <1>8 DEF Types
<1>10. StateOK'
  BY <1>1 DEF StateOK, Active
<1>11. OwnerOK'
  BY <1>1, <1>5, <1>7 DEF IInv, OwnerOK, Owns, Replaying
<1>12. CatalogOK'
  <2>1. catalog # "gone"
    BY <1>1 DEF IInv, CatalogOK
  <2>2. \A c \in Builder : Starting(c)' => Starting(c)
    BY <1>5, <1>7 DEF Starting
  <2> QED BY <1>1, <1>8, <2>1, <2>2 DEF IInv, CatalogOK
<1>13. MarksResolve'
  BY <1>1 DEF IInv, MarksResolve, Active, Pointed
<1> QED BY <1>9, <1>10, <1>11, <1>12, <1>13 DEF IInv

(* Reading the queue keeps the invariant.                                   *)
LEMMA ReadQueueOK ==
  ASSUME IInv, NEW b \in Builder, ReadQueue(b)
  PROVE  IInv'
<1> DEFINE queued == {a \in bg : a.gen = task[b].gen}
<1>1. /\ task[b].pc \in Replaying /\ task[b].keys = {} /\ Owns(b)
      /\ Types /\ TaskOK(task[b]) /\ br' \subseteq br
      /\ UNCHANGED <<kind, table, index, catalog, bs, bg, bp, tx, runs, inactive>>
      /\ task[b] \in TaskType
  BY DEF ReadQueue, IInv, Types, Replaying
<1>2. /\ bs.complete
      /\ task[b].pc \in {"replay2", "replay3"} => bs.phase = "Closing"
      /\ task[b].resumed => bs.phase = "Closing"
  BY <1>1 DEF IInv, OwnerOK
<1>3. CASE task' = [task EXCEPT ![b].pc = AfterReplay(task[b])]
  <2> DEFINE p == AfterReplay(task[b])
             u == AtPc(task[b], p)
  <2>1. task' = [task EXCEPT ![b] = u]
    BY <1>3 DEF AtPc
  <2>2. /\ p \in TaskPc /\ p \notin {"drain", "publish", "index", "replay1"}
        /\ p \in {"replay2", "wait", "replay3", "online"} => bs.phase = "Closing"
    BY <1>1, <1>2 DEF AfterReplay, TaskPc, Replaying
  <2> HIDE DEF p
  <2>3. task[b].gen > 0
    BY <1>1 DEF TaskOK, Replaying
  <2>4. TaskOK(u) /\ u.pc = p /\ u.resumed = task[b].resumed
    BY <1>1, <2>2, <2>3, AtPcOK, AtPcFields
  <2> HIDE DEF u
  <2> QED BY <1>1, <1>2, <2>1, <2>2, <2>4, OneTaskFrame
<1>4. CASE \E c \in queued : task' = [task EXCEPT ![b].keys = {a \in queued : ~Before(c, a)}]
  <2>1. PICK c \in queued : task' = [task EXCEPT ![b].keys = {a \in queued : ~Before(c, a)}]
    BY <1>4
  <2> DEFINE K == {a \in queued : ~Before(c, a)}
             u == HavingKeys(task[b], K)
  <2>2. task' = [task EXCEPT ![b] = u]
    BY <2>1 DEF HavingKeys
  <2>3. K \in SUBSET Appending /\ IsFiniteSet(K)
    <3>1. K \subseteq bg
      OBVIOUS
    <3> HIDE DEF K
    <3> QED BY <1>1, <3>1, FS_Subset DEF Types
  <2> HIDE DEF K, u
  <2>4. /\ u \in TaskType /\ u.pc = task[b].pc /\ u.gen = task[b].gen
        /\ u.resumed = task[b].resumed /\ u.keys = K
    BY <1>1, <2>3, HavingKeysFields DEF u
  <2>5. TaskOK(u)
    BY <1>1, <2>3, <2>4 DEF TaskOK
  <2>6. u.pc \notin {"drain", "publish", "index"}
    BY <1>1, <2>4 DEF Replaying
  <2> QED BY <1>1, <1>2, <2>2, <2>4, <2>5, <2>6, OneTaskFrame DEF Replaying
<1> QED BY <1>3, <1>4 DEF ReadQueue

(* Replaying a finite part of the queue gives every entry a number.         *)
LEMMA ReplayedType ==
  ASSUME Types, NEW keys, IsFiniteSet(keys)
  PROVE  Replayed(keys) \in [Entry -> Int]
<1> DEFINE puts(e) == {a \in keys : a.rec = e[1] /\ a.new = e[2]}
           dels(e) == {a \in keys : a.rec = e[1] /\ a.old = e[2]}
           last(e) == CHOOSE a \in puts(e) \cup dels(e) :
                         \A c \in puts(e) \cup dels(e) : ~Before(a, c)
           f(e) == CASE kind = "Count" -> index[e] + Cardinality(puts(e)) - Cardinality(dels(e))
                     [] kind = "Idx" /\ puts(e) \cup dels(e) # {} ->
                            IF last(e) \in puts(e) THEN 1 ELSE 0
                     [] OTHER -> index[e]
<1>1. Replayed(keys) = [e \in Entry |-> f(e)]
  BY DEF Replayed
<1>2. ASSUME NEW e \in Entry
      PROVE  f(e) \in Int
  <2>1. puts(e) \subseteq keys /\ dels(e) \subseteq keys
    OBVIOUS
  <2> HIDE DEF puts, dels
  <2>2. IsFiniteSet(puts(e)) /\ IsFiniteSet(dels(e))
    BY <2>1, FS_Subset
  <2>3. Cardinality(puts(e)) \in Nat /\ Cardinality(dels(e)) \in Nat
    BY <2>2, FS_CardinalityType
  <2>4. index[e] \in Int
    BY DEF Types
  <2>5. index[e] + Cardinality(puts(e)) - Cardinality(dels(e)) \in Int
    BY <2>3, <2>4
  <2> HIDE DEF last
  <2> QED BY <2>4, <2>5
<1> HIDE DEF f
<1> QED BY <1>1, <1>2

(* A replay keeps the invariant: it removes mutations after the scan only.  *)
LEMMA ReplayOK ==
  ASSUME IInv, NEW b \in Builder, Replay(b)
  PROVE  IInv'
<1> DEFINE keys == task[b].keys
           marks == {m \in bp : m.gen = task[b].gen /\ \E a \in keys : a.rec = m.rec}
           changed == {e \in Entry : Replayed(keys)[e] # index[e]}
           written == EntryKeys(changed) \cup {MarkKey(m) : m \in marks}
           none == {}
           u == HavingKeys(task[b], none)
<1>1. /\ task[b].pc \in Replaying /\ Owns(b) /\ Active
      /\ index' = Replayed(keys) /\ bg' = bg \ keys /\ bp' = bp \ marks
      /\ br' \subseteq br /\ tx' = DirtyTx(written)
      /\ UNCHANGED <<kind, table, catalog, bs, runs, inactive>>
      /\ Types /\ StateOK /\ TaskOK(task[b])
  BY DEF Replay, IInv, Types, Replaying
<1>2. task' = [task EXCEPT ![b] = u]
  BY <1>1 DEF Replay, HavingKeys
<1>3. written \subseteq Key
  <2>1. EntryKeys(changed) \subseteq Entry
    BY DEF EntryKeys
  <2>2. \A m \in marks : MarkKey(m) \in Key
    BY <1>1 DEF Types, MarkKey, Key, Primary
  <2> QED BY <2>1, <2>2 DEF Key
<1>4. index' \in [Entry -> Int]
  <2>1. IsFiniteSet(keys)
    BY <1>1 DEF TaskOK
  <2> QED BY <1>1, <2>1, ReplayedType
<1>5. bg' \in SUBSET Appending /\ IsFiniteSet(bg') /\ bp' \in SUBSET Primary /\ br' \in SUBSET Reservation
  <2>1. bg' \subseteq bg
    BY <1>1
  <2> QED BY <1>1, <2>1, FS_Subset DEF Types
<1>6. none \in SUBSET Appending /\ none = {}
  OBVIOUS
<1> HIDE DEF u, keys, marks, changed, written, none
<1>7. /\ u \in TaskType /\ u.pc = task[b].pc /\ u.gen = task[b].gen
      /\ u.resumed = task[b].resumed /\ u.keys = none
  BY <1>1, <1>6, HavingKeysFields DEF u
<1>8. TaskOK(u)
  BY <1>1, <1>6, <1>7, FS_EmptySet DEF TaskOK
<1>9. /\ task' \in [Builder -> TaskType] /\ \A c \in Builder : TaskOK(task'[c])
      /\ task'[b] = u /\ \A c \in Builder : c # b => task'[c] = task[c]
  BY <1>1, <1>2, <1>8, SetTask
<1>10. /\ tx' \in [Writer -> TxType] /\ \A c \in Writer : TxOK(tx'[c])
       /\ catalog # "defined" =>
            \A c \in Writer : ~tx'[c].sees /\ tx'[c].gen = 0 /\ tx'[c].pc \in {"idle", "open"}
  BY <1>1, <1>3, DirtyTxFrame
<1>11. Types'
  BY <1>1, <1>4, <1>5, <1>9, <1>10 DEF Types
<1>12. StateOK'
  BY <1>1 DEF StateOK, Active
<1>13. OwnerOK'
  BY <1>1, <1>7, <1>9 DEF IInv, OwnerOK, Owns
<1>14. CatalogOK'
  <2>1. catalog \notin {"absent", "gone"}
    BY <1>1, OwnedActive
  <2>2. bg = {} /\ bp = {} /\ br = {} => bg' = {} /\ bp' = {} /\ br' = {}
    BY <1>1
  <2>3. \A c \in Builder : Starting(c)' => Starting(c)
    BY <1>7, <1>9 DEF Starting
  <2> QED BY <1>1, <1>10, <2>1, <2>2, <2>3 DEF IInv, CatalogOK
<1>15. MarksResolve'
  <2>1. bs'.complete
    BY <1>1 DEF IInv, OwnerOK
  <2> QED BY <2>1 DEF MarksResolve
<1> QED BY <1>11, <1>12, <1>13, <1>14, <1>15 DEF IInv

(* The commit of DEFINE INDEX keeps the invariant.                          *)
LEMMA DefineCommitOK ==
  ASSUME IInv, DefineCommit
  PROVE  IInv'
<1>1. /\ catalog' = "defined"
      /\ UNCHANGED <<kind, table, index, bs, bg, bp, br, tx, task, runs, inactive>>
      /\ Types /\ StateOK /\ OwnerOK /\ MarksResolve
  BY DEF DefineCommit, IInv
<1>2. Types'
  BY <1>1 DEF Types
<1>3. StateOK' /\ OwnerOK' /\ MarksResolve'
  BY <1>1 DEF StateOK, OwnerOK, MarksResolve, Active, Owns, Pointed
<1>4. CatalogOK'
  BY <1>1 DEF CatalogOK
<1> QED BY <1>2, <1>3, <1>4 DEF IInv

(* A rollback, and a cleanup that fails, change nothing but the catalog.    *)
LEMMA DefineRollbackOK ==
  ASSUME IInv, DefineRollback \/ CleanupFails
  PROVE  IInv'
<1>1. /\ catalog \in {"open", "undone"} /\ catalog' \in {"undone", "orphaned"}
      /\ \A b \in Builder : ~Starting(b)
      /\ UNCHANGED <<kind, table, index, bs, bg, bp, br, tx, task, runs, inactive>>
      /\ Types /\ StateOK /\ OwnerOK /\ MarksResolve
  BY DEF DefineRollback, CleanupFails, IInv, CatalogOK
<1>2. Types'
  BY <1>1 DEF Types
<1>3. StateOK' /\ OwnerOK' /\ MarksResolve'
  BY <1>1 DEF StateOK, OwnerOK, MarksResolve, Active, Owns, Pointed
<1>4. CatalogOK'
  BY <1>1 DEF IInv, CatalogOK, Starting
<1> QED BY <1>2, <1>3, <1>4 DEF IInv

(* The cleanup leaves no batch that could still be committed.               *)
LEMMA CleanupOK ==
  ASSUME IInv, Cleanup
  PROVE  IInv'
<1>1. /\ catalog = "undone" /\ catalog' = "gone" /\ bs' = NoState /\ index' = NoEntries
      /\ bg' = {} /\ bp' = {} /\ br' = {} /\ task' = DirtyTask({<<"bs">>})
      /\ \A b \in Builder : ~Starting(b)
      /\ UNCHANGED <<kind, table, tx, runs, inactive>>
      /\ Types
  BY DEF Cleanup, IInv, CatalogOK
<1>2. /\ task' \in [Builder -> TaskType]
      /\ \A b \in Builder : /\ TaskOK(task'[b]) /\ task'[b].pc # "index"
                            /\ task'[b].pc = task[b].pc \/ task'[b].pc = "lookup"
  BY <1>1, DirtyTaskOK
<1>3. index' \in [Entry -> Int] /\ IsFiniteSet(bg')
  BY <1>1, FS_EmptySet DEF NoEntries
<1>4. Types'
  BY <1>1, <1>2, <1>3 DEF Types
<1>5. /\ bs' \in StateType /\ bs'.phase = "none" /\ bs'.gen = 0 /\ bs'.owner = NoOwner
      /\ ~Active'
  <2>1. "none" \in Phase /\ NoOwner \in Builder \cup {NoOwner}
    BY DEF Phase
  <2> QED BY <1>1, <2>1 DEF NoState, StateType, Active
<1>6. StateOK'
  BY <1>1, <1>5 DEF StateOK, Types
<1>7. OwnerOK'
  BY <1>5 DEF OwnerOK, Owns
<1>8. CatalogOK'
  BY <1>1, <1>2 DEF IInv, CatalogOK, Starting
<1>9. MarksResolve'
  BY <1>5 DEF MarksResolve
<1> QED BY <1>4, <1>6, <1>7, <1>8, <1>9 DEF IInv

----------------------------------------------------------------------------
(* Every step keeps the invariant.                                          *)
LEMMA NextOK ==
  ASSUME IInv, [Next]_vars
  PROVE  IInv'
<1>1. ASSUME NEW w \in Writer, WriterStep(w)
      PROVE  IInv'
  <2>1. ASSUME NEW r \in Rec, NEW v \in Value \cup {None},
               \/ MutateUnseen(w, r, v) \/ MutateReady(w, r, v) \/ Fence(w, r, v)
               \/ MutateCached(w, r, v)
        PROVE  IInv'
    <3>1. v \in MaybeValue
      BY DEF MaybeValue
    <3> QED BY <2>1, <3>1, MutateUnseenOK, MutateReadyOK, FenceOK, MutateCachedOK
  <2>2. CASE Begin(w) \/ Reserve(w) \/ Commit(w) \/ Cancel(w)
    BY <2>2, BeginOK, ReserveOK, CommitOK, CancelOK
  <2>3. CASE Release(w) \/ ReleaseFails(w) \/ Crash(w) \/ Archive(w)
    BY <2>3, ReleaseOK, ReleaseFailsOK, CrashOK, ArchiveOK
  <2> QED BY <1>1, <2>1, <2>2, <2>3 DEF WriterStep
<1>2. ASSUME NEW b \in Builder, BuilderStep(b)
      PROVE  IInv'
  <2>1. CASE Acquire(b) \/ DrainPrior(b) \/ Publish(b) \/ TakeOver(b)
    BY <2>1, AcquireOK, DrainPriorOK, PublishOK, TakeOverOK
  <2>2. CASE Clean(b) \/ ReadBatch(b) \/ LookupBatch(b) \/ IndexBatch(b) \/ InitialComplete(b)
    BY <2>2, CleanOK, ReadBatchOK, LookupBatchOK, IndexBatchOK, InitialCompleteOK
  <2>3. CASE ReadQueue(b) \/ Replay(b) \/ MarkClosing(b) \/ WaitReservations(b)
    BY <2>3, ReadQueueOK, ReplayOK, MarkClosingOK, WaitReservationsOK
  <2>4. CASE MarkOnline(b) \/ Stop(b)
    BY <2>4, MarkOnlineOK, StopOK
  <2> QED BY <1>2, <2>1, <2>2, <2>3, <2>4 DEF BuilderStep
<1>3. CASE DefineCommit \/ DefineRollback \/ Cleanup \/ CleanupFails
  BY <1>3, DefineCommitOK, DefineRollbackOK, CleanupOK
<1>4. CASE UNCHANGED vars
  <2>1. Types' /\ StateOK' /\ OwnerOK'
    BY <1>4 DEF vars, IInv, Types, StateOK, OwnerOK, Owns, Active
  <2>2. CatalogOK' /\ MarksResolve'
    BY <1>4 DEF vars, IInv, CatalogOK, Starting, MarksResolve, Active, Pointed
  <2> QED BY <2>1, <2>2 DEF IInv
<1> QED BY <1>1, <1>2, <1>3, <1>4 DEF Next

(* The inductive invariant: the types, the owner's view of the phase, an    *)
(* index nobody knows before it is defined, and marks that resolve.         *)
THEOREM Invariance == Spec => []IInv
<1>1. Init => IInv
  BY InitOK
<1>2. IInv /\ [Next]_vars => IInv'
  BY NextOK
<1> QED BY <1>1, <1>2, PTL DEF Spec

----------------------------------------------------------------------------
(* The types of everything the protocol stores and of what the tasks and    *)
(* transactions keep in memory, and: a build state has an owner exactly     *)
(* while its generation is active.                                          *)
THEOREM TypeCorrect == Spec => []TypeOK
<1>1. ASSUME IInv
      PROVE  TypeOK
  <2>1. Types /\ StateOK
    BY <1>1 DEF IInv
  <2>2. /\ table \in [Rec -> Value \cup {None}] /\ kind \in Kinds /\ index \in [Entry -> Int]
        /\ catalog \in {"absent", "open", "defined", "undone", "gone", "orphaned"}
        /\ bg \subseteq Appending /\ bp \subseteq Primary /\ br \subseteq Reservation
        /\ runs \in 0..MaxRuns /\ inactive \subseteq Writer
    BY <2>1 DEF Types, MaybeValue
  <2>3. /\ bs \in [gen : 0..MaxRuns, phase : Phase, owner : Builder \cup {NoOwner},
                   ticket : 0..(MaxTicket + 1), complete : BOOLEAN]
        /\ Active <=> bs.owner # NoOwner
    BY <2>1 DEF StateOK, StateType
  <2>4. ASSUME NEW w \in Writer
        PROVE  /\ tx[w].pc \in {"idle", "open", "fence", "release", "crashed"}
               /\ tx[w].queue \subseteq Appending /\ tx[w].marks \subseteq Primary
               /\ tx[w].put \subseteq Entry /\ tx[w].del \subseteq Entry
               /\ DOMAIN tx[w].writes \subseteq Rec
    <3>1. tx[w] \in TxType
      BY <2>1 DEF Types
    <3> QED BY <3>1 DEF TxType, Partial
  <2>5. ASSUME NEW b \in Builder
        PROVE  /\ task[b].pc \in {"idle", "drain", "publish", "clean", "scan", "lookup",
                                  "index", "replay1", "closing", "replay2", "wait",
                                  "replay3", "online"}
               /\ task[b].todo \subseteq Rec /\ task[b].keys \subseteq Appending
    <3>1. task[b] \in TaskType
      BY <2>1 DEF Types
    <3> QED BY <3>1 DEF TaskType
  <2> QED BY <2>2, <2>3, <2>4, <2>5 DEF TypeOK
<1> QED BY <1>1, Invariance, PTL

(* While the scan may look up the mark of a record, the mutation that it    *)
(* points to is queued: "Durable appending record is missing", which the    *)
(* lookup would report as a corrupted index, cannot arise, whatever tasks   *)
(* and transactions overlap and whatever nodes stop.                        *)
THEOREM MarksAlwaysResolve == Spec => []MarksResolve
<1>1. IInv => MarksResolve
  BY DEF IInv
<1> QED BY <1>1, Invariance, PTL

(* The cleanup of a DEFINE INDEX that was rolled back is final, if it       *)
(* succeeds: no task of the abandoned build, which goes on during and after *)
(* the cleanup, writes an entry, a queued mutation, a mark, a reservation   *)
(* or a build state afterwards.                                             *)
THEOREM RollbackComplete == Spec => []RollbackIsComplete
<1>1. IInv => RollbackIsComplete
  BY DEF IInv, CatalogOK, RollbackIsComplete
<1> QED BY <1>1, Invariance, PTL

(* A generation ends in Online, through Closing, or in Error, and a new one *)
(* begins only when none is active: the compare-and-set of !bs with its     *)
(* owner keeps every stale task from bringing a phase back.                 *)
THEOREM PhasesForward == Spec => PhaseForward
<1> DEFINE Forward ==
      \/ bs'.gen = bs.gen /\ bs'.phase = bs.phase
      \/ bs'.gen = bs.gen /\ <<bs.phase, bs'.phase>> \in
            {<<"Building", "Closing">>, <<"Closing", "Online">>,
             <<"Building", "Error">>, <<"Closing", "Error">>}
      \/ bs'.gen = bs.gen + 1 /\ bs'.phase = "Building" /\ ~Active
      \/ bs' = NoState /\ catalog' = "gone"
<1>1. ASSUME IInv, [Next]_vars
      PROVE  [Forward]_bs
  <2>1. bs \in StateType /\ StateOK
    BY <1>1 DEF IInv, StateOK
  <2>2. ASSUME Active, bs' = Failed(bs)
        PROVE  Forward
    <3>1. bs'.gen = bs.gen /\ bs'.phase = "Error"
      BY <2>1, <2>2, FailedState
    <3> QED BY <2>2, <3>1 DEF Active
  <2>3. ASSUME NEW w \in Writer, WriterStep(w)
        PROVE  [Forward]_bs
    <3>1. CASE Reserve(w)
      <4>1. UNCHANGED bs \/ bs' = [bs EXCEPT !.ticket = @ + 1]
        BY <3>1 DEF Reserve
      <4> QED BY <2>1, <4>1 DEF StateType
    <3>2. CASE ReleaseFails(w)
      <4>1. UNCHANGED bs \/ (Active /\ bs' = Failed(bs))
        BY <3>2 DEF ReleaseFails
      <4> QED BY <2>2, <4>1
    <3>3. CASE ~Reserve(w) /\ ~ReleaseFails(w)
      <4>1. UNCHANGED bs
        BY <2>3, <3>3 DEF WriterStep, Begin, Commit, Cancel, Release, Crash, Archive,
                          MutateUnseen, MutateReady, Fence, MutateCached
      <4> QED BY <4>1
    <3> QED BY <3>1, <3>2, <3>3
  <2>4. ASSUME NEW b \in Builder, BuilderStep(b)
        PROVE  [Forward]_bs
    <3>1. CASE Publish(b)
      <4>1. UNCHANGED bs \/ (/\ ~Active
                             /\ bs' = [NoState EXCEPT !.gen = bs.gen + 1, !.phase = "Building",
                                                      !.owner = b])
        BY <3>1 DEF Publish
      <4> QED BY <4>1 DEF NoState
    <3>2. CASE TakeOver(b)
      <4>1. bs' = [bs EXCEPT !.owner = b]
        BY <3>2 DEF TakeOver
      <4> QED BY <2>1, <4>1 DEF StateType
    <3>3. CASE InitialComplete(b)
      <4>1. bs' = [bs EXCEPT !.complete = TRUE]
        BY <3>3 DEF InitialComplete
      <4> QED BY <2>1, <4>1 DEF StateType
    <3>4. CASE MarkClosing(b)
      <4>1. bs' = [bs EXCEPT !.phase = "Closing"] /\ Owns(b)
        BY <3>4 DEF MarkClosing
      <4>2. bs'.gen = bs.gen /\ bs'.phase = "Closing"
        BY <2>1, <4>1 DEF StateType
      <4>3. bs.phase \in {"Building", "Closing"}
        BY <1>1, <4>1, OwnedActive DEF Active
      <4> QED BY <4>2, <4>3
    <3>5. CASE MarkOnline(b)
      <4>1. /\ bs' = [bs EXCEPT !.phase = "Online", !.owner = NoOwner, !.complete = TRUE]
            /\ Owns(b) /\ task[b].pc = "online"
        BY <3>5 DEF MarkOnline
      <4>2. bs'.gen = bs.gen /\ bs'.phase = "Online"
        BY <2>1, <4>1 DEF StateType
      <4>3. bs.phase = "Closing"
        BY <1>1, <4>1 DEF IInv, OwnerOK
      <4> QED BY <4>2, <4>3
    <3>6. CASE Stop(b)
      <4>1. UNCHANGED bs \/ (Owns(b) /\ bs' = Failed(bs))
        BY <3>6 DEF Stop
      <4>2. Owns(b) => Active
        BY <1>1, OwnedActive
      <4> QED BY <2>2, <4>1, <4>2
    <3>7. CASE /\ ~Publish(b) /\ ~TakeOver(b) /\ ~InitialComplete(b) /\ ~MarkClosing(b)
               /\ ~MarkOnline(b) /\ ~Stop(b)
      <4>1. UNCHANGED bs
        BY <2>4, <3>7 DEF BuilderStep, Acquire, DrainPrior, Clean, ReadBatch, LookupBatch,
                          IndexBatch, ReadQueue, Replay, WaitReservations
      <4> QED BY <4>1
    <3> QED BY <3>1, <3>2, <3>3, <3>4, <3>5, <3>6, <3>7
  <2>5. CASE DefineCommit
    BY <2>5 DEF DefineCommit
  <2>6. CASE DefineRollback \/ Cleanup \/ CleanupFails
    BY <2>6 DEF DefineRollback, Cleanup, CleanupFails
  <2>7. CASE UNCHANGED vars
    BY <2>7 DEF vars
  <2> QED BY <1>1, <2>3, <2>4, <2>5, <2>6, <2>7 DEF Next
<1> QED BY <1>1, Invariance, PTL DEF Spec, PhaseForward
=============================================================================

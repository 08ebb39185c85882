----------------------- MODULE IndexBuildOnlineProofs -----------------------
(***************************************************************************)
(* An index that is online has exactly the entries of its table, for every  *)
(* set of writers, builder tasks, records and values, in a deployment where *)
(* the archived nodes are those that stopped, no transaction is open when   *)
(* the index is defined or spans a build that it does not know of, and one  *)
(* task at a time begins a generation.                                      *)
(***************************************************************************)
EXTENDS IndexBuildProofs, MutationQueueProofs

USE IndexBuildAssumption

Careful == ~PausedNodes /\ ~UnseenWriters /\ ~LongTransactions /\ ~OverlappingAcquires

----------------------------------------------------------------------------
(* The scan and the replay have not begun, or have begun with an index that *)
(* was cleaned.                                                             *)
Cleaned ==
    /\ Active
    /\ \/ bs.complete
       \/ \E b \in Builder : Owns(b) /\ task[b].pc \in {"scan", "lookup", "index"}
Scan == Active /\ ~bs.complete
Ready == bs.phase \in {"none", "Online"}

(* The queues hold the current generation; tickets are given once.          *)
QueueOK ==
    /\ Chain(bg, table)
    /\ \A a \in bg : a.gen = bs.gen /\ a.ticket < bs.ticket
    /\ \A m \in bp : m.gen = bs.gen
    /\ \A x \in br : x.gen = bs.gen /\ x.ticket < bs.ticket
    /\ \A x, y \in br : x.ticket = y.ticket => x = y
    /\ bs.phase = "Online" => bg = {}

(* During the scan, every queued record has a mark, which points to the     *)
(* first mutation of the record.                                            *)
PointsToFirst(Q, m) ==
    \E a \in Q : /\ a.gen = m.gen /\ a.ticket = m.ticket /\ a.seq = m.seq
                 /\ a.rec = m.rec /\ First(Q, a)
MarksOK ==
    Scan => /\ \A m \in bp : PointsToFirst(bg, m)
            /\ \A a \in bg : \E m \in bp : m.rec = a.rec

(* What an open transaction knows: of the catalog, of the generations, and  *)
(* of its reservation, which lasts as long as it is open.  A mutation that  *)
(* is queued has a smaller ticket or a record it can no longer write.       *)
AdmissionOK(t, w) ==
    /\ t.sees <=> catalog = "defined"
    /\ catalog # "open"
    /\ t.opened <= bs.gen /\ (Active => t.opened < bs.gen)
    /\ \A g \in 1..MaxRuns, r \in Rec : <<"bp", g, r>> \in t.dirty => g <= bs.gen
    /\ t.gen > 0 =>
          /\ t.gen = bs.gen /\ t.opened < bs.gen /\ t.ticket < bs.ticket
          /\ bs.phase # "Online"
          /\ t.complete => bs.complete
          /\ [gen |-> t.gen, ticket |-> t.ticket, node |-> w] \in br
          /\ \A a \in bg : a.ticket # t.ticket
          /\ \A a \in bg : a.ticket < t.ticket \/ <<a.rec>> \in t.dirty

(* What it has queued and marked.                                           *)
OwnQueueOK(t) ==
    /\ Chain(t.queue, t.writes)
    /\ \A a \in t.queue :
          /\ a.gen = t.gen /\ a.ticket = t.ticket /\ a.seq < Cardinality(t.queue)
          /\ a.rec \in DOMAIN t.writes
    /\ \A r \in DOMAIN t.writes : <<r>> \notin t.dirty
OwnMarksOK(t) ==
    Scan => /\ \A a \in t.queue : \E m \in bp \cup t.marks : m.rec = a.rec
            /\ \A m \in t.marks : /\ PointsToFirst(t.queue, m) /\ \A p \in bp : p.rec # m.rec
                                  /\ m.gen = t.gen
            /\ \A r \in Rec : <<"bp", bs.gen, r>> \in t.dirty => \E m \in bp : m.rec = r

(* What it has indexed by itself.                                           *)
Direct(t, r) == \E e \in t.put \cup t.del : e[1] = r
DirectOK(t) ==
    /\ \A e \in t.put \cup t.del : e[1] \in DOMAIN t.writes /\ ~About(bg, e[1])
    /\ \A r \in DOMAIN t.writes :
          t.sees => About(t.queue, r) \/ Direct(t, r) \/ t.writes[r] = table[r]
    /\ \A c \in t.queue : First(t.queue, c) => c.old = table[c.rec] \/ Direct(t, c.rec)
DirectIdxOK(t) ==
    kind = "Idx" /\ t.sees =>
        \A e \in Entry :
            /\ e \in t.put => t.writes[e[1]] = e[2] \/ Touched(t.queue, e)
            /\ e[1] \in DOMAIN t.writes =>
                  /\ t.writes[e[1]] = e[2] => e \in t.put \/ Touched(t.queue, e)
                  /\ table[e[1]] = e[2] =>
                        \/ Touched(t.queue, e)
                        \/ e \in t.put \cup t.del /\ index[e] = 1 /\ ~Cleaned
DirectCountOK(t) ==
    kind = "Count" /\ t.sees =>
        /\ ~Ready => t.put = {} /\ t.del = {}
        /\ Ready => \A e \in Entry : e[1] \in DOMAIN t.writes =>
              /\ e \in t.put <=> t.writes[e[1]] = e[2] /\ table[e[1]] # e[2]
              /\ e \in t.del <=> table[e[1]] = e[2] /\ t.writes[e[1]] # e[2]
SnapOK(t) ==
    Ready /\ t.sees /\ t.opened = bs.gen =>
        \A e \in Entry : <<e[1]>> \notin t.dirty => t.snap[e] = Entries(table)[e]

TxInv(t, w) ==
    /\ AdmissionOK(t, w) /\ OwnQueueOK(t) /\ OwnMarksOK(t)
    /\ DirectOK(t) /\ DirectIdxOK(t) /\ DirectCountOK(t) /\ SnapOK(t)
WriterOK == \A w \in Writer : Open(w) => TxInv(tx[w], w)

(* Tickets are given once in a generation, also to the transactions that    *)
(* are over and have their reservation still to release.                    *)
TicketsOK ==
    \A w \in Writer :
        /\ tx[w].gen <= bs.gen
        /\ tx[w].gen = bs.gen /\ bs.gen > 0 =>
              /\ tx[w].ticket < bs.ticket
              /\ \A c \in Writer : c # w /\ tx[c].gen = bs.gen => tx[c].ticket # tx[w].ticket
InactiveOK == \A w \in inactive : tx[w].pc = "crashed"

(* One task at a time begins a generation, when none is active and none of  *)
(* the earlier ones has a reservation left.                                 *)
StartOK ==
    \A b \in Builder :
        Starting(b) => /\ ~Active /\ \A c \in Builder : Starting(c) => c = b
                       /\ task[b].pc = "publish" => br = {}

(* The owner: before `online' no transaction can queue a mutation any more  *)
(* and none is queued; what it replays is queued, with what precedes it.    *)
OwnerTaskOK(t) ==
    /\ t.pc \in {"clean", "scan", "lookup", "index"} => bs.phase = "Building" /\ ~bs.complete
    /\ t.pc \in {"replay3", "online"} => \A w \in Writer : Open(w) => tx[w].gen = 0
    /\ t.pc = "online" => bg = {}
    /\ t.pc \in Replaying => Prefix(t.keys, bg)
TasksOK ==
    \A b \in Builder :
        /\ task[b].pc = "index" => Owns(b)
        /\ task[b].pc \in {"clean", "scan"} => DOMAIN task[b].batch = {}
        /\ Owns(b) => OwnerTaskOK(task[b])

Base(e) == BaseOf(bg, table, e)

(* A non-unique index while it is scanned: entries that are not touched by  *)
(* a queued mutation are those of the table, if their record was reached.   *)
IdxScanOK(t) ==
    \A e \in Entry :
        LET r == e[1] IN
        /\ index[e] \in {0, 1}
        /\ ~Touched(bg, e) =>
             /\ index[e] = 1 => table[r] = e[2]
             /\ r \notin t.todo \cup DOMAIN t.batch /\ table[r] = e[2] => index[e] = 1
             /\ r \in DOMAIN t.batch =>
                  /\ t.batch[r] = e[2] => table[r] = e[2]
                  /\ table[r] = e[2] => t.batch[r] = e[2] \/ index[e] = 1
             /\ t.pc = "index" =>
                  /\ e \in BatchEntries(t) => table[r] = e[2]
                  /\ r \in DOMAIN t.batch /\ table[r] = e[2] => e \in BatchEntries(t) \/ index[e] = 1

(* A Count index while it is scanned: records count for their base value    *)
(* once their batch is committed.                                           *)
CountScanOK(t) ==
    \A e \in Entry :
        LET r == e[1] IN
        /\ r \notin t.todo \/ r \notin DOMAIN t.batch
        /\ r \in t.todo \cup DOMAIN t.batch => index[e] = 0
        /\ r \notin t.todo \cup DOMAIN t.batch => index[e] = IF Base(e) THEN 1 ELSE 0
        /\ r \in DOMAIN t.batch /\ ~About(bg, r) => t.batch[r] = table[r]
        /\ t.pc = "index" => (e \in BatchEntries(t) <=> r \in DOMAIN t.batch /\ Base(e))

ScanOK(t) ==
    t.pc \in {"scan", "lookup", "index"} =>
        /\ kind = "Idx" => IdxScanOK(t)
        /\ kind = "Count" => CountScanOK(t)

(* The index when the scan is complete, and when there is nothing to replay. *)
CompleteOK ==
    \A e \in Entry :
        /\ kind = "Idx" =>
              index[e] \in {0, 1} /\ (~Touched(bg, e) => (index[e] = 1 <=> table[e[1]] = e[2]))
        /\ kind = "Count" => index[e] = IF Base(e) THEN 1 ELSE 0
IndexOK ==
    /\ \A b \in Builder : Owns(b) => ScanOK(task[b])
    /\ Active /\ bs.complete => CompleteOK
    /\ bs.phase = "Online" \/ (bs.phase = "none" /\ catalog = "defined") => index = Entries(table)

JInv ==
    /\ QueueOK /\ MarksOK /\ WriterOK /\ TicketsOK /\ InactiveOK /\ StartOK /\ TasksOK /\ IndexOK

----------------------------------------------------------------------------
(* A transaction that goes on as it was while others commit: all it has     *)
(* learnt is that some keys were written, none of them its records.         *)
Aged(t, u) ==
    /\ u.sees = t.sees /\ u.opened = t.opened /\ u.snap = t.snap /\ u.gen = t.gen
    /\ u.ticket = t.ticket /\ u.complete = t.complete /\ u.writes = t.writes
    /\ u.queue = t.queue /\ u.marks = t.marks /\ u.put = t.put /\ u.del = t.del
    /\ t.dirty \subseteq u.dirty
    /\ \A r \in DOMAIN t.writes : <<r>> \notin u.dirty

(* A ticket stays good while its reservation, its generation and the phase  *)
(* do.                                                                      *)
LEMMA AdmissionFrame ==
  ASSUME NEW t, NEW u, NEW w, AdmissionOK(t, w), Aged(t, u), StateOK, StateOK', TxOK(t),
         catalog' = catalog, bs'.gen = bs.gen, bs.ticket <= bs'.ticket, Active' => Active,
         t.gen > 0 => (bs'.phase = "Online" => bs.phase = "Online"), bs.complete => bs'.complete,
         \A x \in br : x.node = w /\ x.gen = t.gen /\ x.ticket = t.ticket /\ t.gen > 0 => x \in br',
         \A a \in bg' : t.gen > 0 => a \in bg \/ (a.ticket # t.ticket /\ <<a.rec>> \in u.dirty),
         \A g \in 1..MaxRuns, r \in Rec : <<"bp", g, r>> \in u.dirty \ t.dirty => g <= bs.gen
  PROVE  AdmissionOK(u, w)'
<1>1. /\ bs.ticket \in Int /\ bs'.ticket \in Int /\ t.ticket \in Int /\ bs.gen \in Int
      /\ t.opened \in Int
  BY DEF StateOK, StateType, TxOK, TxCore, TxType
<1>2. /\ u.sees <=> catalog' = "defined"
      /\ catalog' # "open"
      /\ u.opened <= bs'.gen /\ (Active' => u.opened < bs'.gen)
      /\ \A g \in 1..MaxRuns, r \in Rec : <<"bp", g, r>> \in u.dirty => g <= bs'.gen
  BY DEF AdmissionOK, Aged
<1>3. ASSUME u.gen > 0
      PROVE  /\ u.gen = bs'.gen /\ u.opened < bs'.gen /\ u.ticket < bs'.ticket
             /\ bs'.phase # "Online"
             /\ u.complete => bs'.complete
             /\ [gen |-> u.gen, ticket |-> u.ticket, node |-> w] \in br'
             /\ \A a \in bg' : a.ticket # u.ticket
             /\ \A a \in bg' : a.ticket < u.ticket \/ <<a.rec>> \in u.dirty
  <2>1. t.gen > 0
    BY <1>3 DEF Aged
  <2>2. /\ t.gen = bs.gen /\ t.opened < bs.gen /\ t.ticket < bs.ticket
        /\ bs.phase # "Online"
        /\ t.complete => bs.complete
        /\ [gen |-> t.gen, ticket |-> t.ticket, node |-> w] \in br
        /\ \A a \in bg : a.ticket # t.ticket
        /\ \A a \in bg : a.ticket < t.ticket \/ <<a.rec>> \in t.dirty
    BY <2>1 DEF AdmissionOK
  <2>3. u.ticket = t.ticket /\ u.gen = t.gen /\ u.opened = t.opened /\ u.complete = t.complete
    BY DEF Aged
  <2>4. u.ticket < bs'.ticket
    BY <1>1, <2>2, <2>3
  <2>5. [gen |-> t.gen, ticket |-> t.ticket, node |-> w] \in br'
    BY <2>1, <2>2
  <2>6. \A a \in bg' : a.ticket # u.ticket
    BY <2>1, <2>2, <2>3
  <2>7. \A a \in bg' : a.ticket < u.ticket \/ <<a.rec>> \in u.dirty
    BY <2>1, <2>2, <2>3 DEF Aged
  <2> QED BY <2>1, <2>2, <2>3, <2>4, <2>5, <2>6, <2>7
<1> QED BY <1>2, <1>3 DEF AdmissionOK

(* What a transaction will queue does not depend on the steps of others.    *)
LEMMA OwnQueueFrame ==
  ASSUME NEW t, NEW u, OwnQueueOK(t), Aged(t, u)
  PROVE  OwnQueueOK(u)
BY DEF OwnQueueOK, Aged

(* Its marks stay the first of their records while others mark other        *)
(* records.                                                                 *)
LEMMA OwnMarksFrame ==
  ASSUME NEW t, NEW u, OwnMarksOK(t), Aged(t, u), Scan' => Scan, bs'.gen = bs.gen,
         Scan' => /\ bp \subseteq bp' /\ \A p \in bp' \ bp, m \in t.marks : p.rec # m.rec
                  /\ \A r \in Rec : <<"bp", bs.gen, r>> \in u.dirty \ t.dirty =>
                                       \E m \in bp' : m.rec = r
  PROVE  OwnMarksOK(u)'
<1> SUFFICES ASSUME Scan'
             PROVE  /\ \A a \in u.queue : \E m \in bp' \cup u.marks : m.rec = a.rec
                    /\ \A m \in u.marks : /\ PointsToFirst(u.queue, m) /\ \A p \in bp' : p.rec # m.rec
                                          /\ m.gen = u.gen
                    /\ \A r \in Rec : <<"bp", bs'.gen, r>> \in u.dirty => \E m \in bp' : m.rec = r
  BY DEF OwnMarksOK
<1>1. /\ \A a \in t.queue : \E m \in bp \cup t.marks : m.rec = a.rec
      /\ \A m \in t.marks : /\ PointsToFirst(t.queue, m) /\ \A p \in bp : p.rec # m.rec
                            /\ m.gen = t.gen
      /\ \A r \in Rec : <<"bp", bs.gen, r>> \in t.dirty => \E m \in bp : m.rec = r
  BY DEF OwnMarksOK
<1>2. \A a \in t.queue : \E m \in bp' \cup t.marks : m.rec = a.rec
  BY <1>1
<1>3. \A m \in t.marks, p \in bp' : p.rec # m.rec
  BY <1>1
<1>4. \A r \in Rec : <<"bp", bs.gen, r>> \in u.dirty => \E m \in bp' : m.rec = r
  BY <1>1
<1>5. u.queue = t.queue /\ u.marks = t.marks /\ u.gen = t.gen
  BY DEF Aged
<1> QED BY <1>1, <1>2, <1>3, <1>4, <1>5

(* What it indexes by itself stays true to the table while nobody writes    *)
(* its records.                                                             *)
LEMMA DirectFrame ==
  ASSUME NEW t, NEW u, DirectOK(t), Aged(t, u), OwnQueueOK(t),
         \A r \in DOMAIN t.writes : table'[r] = table[r] /\ \A a \in bg' : a.rec = r => a \in bg
  PROVE  DirectOK(u)'
<1>1. /\ \A e \in t.put \cup t.del : e[1] \in DOMAIN t.writes /\ ~About(bg, e[1])
      /\ \A r \in DOMAIN t.writes :
            t.sees => About(t.queue, r) \/ Direct(t, r) \/ t.writes[r] = table[r]
      /\ \A c \in t.queue : First(t.queue, c) => c.old = table[c.rec] \/ Direct(t, c.rec)
  BY DEF DirectOK
<1>2. \A e \in t.put \cup t.del : ~About(bg', e[1])
  BY <1>1 DEF About
<1>3. \A r : Direct(u, r) <=> Direct(t, r)
  BY DEF Direct, Aged
<1>4. \A c \in t.queue : c.rec \in DOMAIN t.writes
  BY DEF OwnQueueOK
<1>5. /\ u.put = t.put /\ u.del = t.del /\ u.sees = t.sees /\ u.queue = t.queue
      /\ u.writes = t.writes
  BY DEF Aged
<1>6. \A r \in DOMAIN t.writes :
         t.sees => About(t.queue, r) \/ Direct(u, r) \/ t.writes[r] = table'[r]
  BY <1>1, <1>3
<1>7. \A c \in t.queue : First(t.queue, c) => c.old = table'[c.rec] \/ Direct(u, c.rec)
  BY <1>1, <1>3, <1>4
<1> QED BY <1>1, <1>2, <1>5, <1>6, <1>7 DEF DirectOK

(* The same of the entries of a non-unique index.                           *)
LEMMA DirectIdxFrame ==
  ASSUME NEW t, NEW u, DirectIdxOK(t), Aged(t, u), kind' = kind,
         kind = "Idx" =>
            /\ \A r \in DOMAIN t.writes : table'[r] = table[r]
            /\ \A e \in t.put \cup t.del : index[e] = 1 /\ ~Cleaned => index'[e] = 1 /\ ~Cleaned'
  PROVE  DirectIdxOK(u)'
<1> SUFFICES ASSUME kind = "Idx", t.sees, NEW e \in Entry
             PROVE  /\ e \in t.put => t.writes[e[1]] = e[2] \/ Touched(t.queue, e)
                    /\ e[1] \in DOMAIN t.writes =>
                         /\ t.writes[e[1]] = e[2] => e \in t.put \/ Touched(t.queue, e)
                         /\ table'[e[1]] = e[2] =>
                               \/ Touched(t.queue, e)
                               \/ e \in t.put \cup t.del /\ index'[e] = 1 /\ ~Cleaned'
  BY DEF DirectIdxOK, Aged
<1> QED BY DEF DirectIdxOK

(* The same of the sums of a COUNT index.                                   *)
LEMMA DirectCountFrame ==
  ASSUME NEW t, NEW u, DirectCountOK(t), Aged(t, u), kind' = kind, Ready' <=> Ready,
         \A r \in DOMAIN t.writes : table'[r] = table[r]
  PROVE  DirectCountOK(u)'
<1> SUFFICES ASSUME kind = "Count", t.sees
             PROVE  /\ ~Ready => t.put = {} /\ t.del = {}
                    /\ Ready => \A e \in Entry : e[1] \in DOMAIN t.writes =>
                          /\ e \in t.put <=> t.writes[e[1]] = e[2] /\ table'[e[1]] # e[2]
                          /\ e \in t.del <=> table'[e[1]] = e[2] /\ t.writes[e[1]] # e[2]
  BY DEF DirectCountOK, Aged
<1> QED BY DEF DirectCountOK

(* A snapshot stays that of the table for the records nobody has written    *)
(* since.                                                                   *)
LEMMA SnapFrame ==
  ASSUME NEW t, NEW u, SnapOK(t), Aged(t, u),
         Ready' /\ t.opened = bs'.gen => Ready /\ t.opened = bs.gen,
         \A r \in Rec : <<r>> \notin u.dirty => table'[r] = table[r]
  PROVE  SnapOK(u)'
<1> SUFFICES ASSUME Ready', t.sees, t.opened = bs'.gen, NEW e \in Entry, <<e[1]>> \notin u.dirty
             PROVE  t.snap[e] = Entries(table')[e]
  BY DEF SnapOK, Aged, Entries
<1>1. t.snap[e] = Entries(table)[e]
  BY DEF SnapOK, Aged
<1>2. e[1] \in Rec
  BY DEF Entry
<1> QED BY <1>1, <1>2 DEF Entries

(* A step that leaves the table, the index and the queues alone, and the    *)
(* generation as active and as ready as it was.                             *)
QuietWorld ==
    /\ UNCHANGED <<kind, table, index, catalog, bg, bp>>
    /\ bs'.gen = bs.gen /\ bs.ticket <= bs'.ticket
    /\ Active' => Active
    /\ Ready' <=> Ready
    /\ bs'.phase = "Online" => bs.phase = "Online"
    /\ bs.complete => bs'.complete
    /\ Cleaned' => Cleaned

(* A transaction stays good through a step that changes neither table nor   *)
(* index.                                                                   *)
LEMMA QuietTx ==
  ASSUME NEW t, NEW w, TxInv(t, w), TxOK(t), StateOK, StateOK', QuietWorld,
         \A x \in br : x.node = w /\ x.gen = t.gen /\ x.ticket = t.ticket /\ t.gen > 0 => x \in br'
  PROVE  TxInv(t, w)'
<1>1. Aged(t, t)
  BY DEF TxInv, OwnQueueOK, Aged
<1>2. AdmissionOK(t, w)'
  BY <1>1, AdmissionFrame DEF TxInv, QuietWorld
<1>3. OwnQueueOK(t)
  BY DEF TxInv
<1>4. OwnMarksOK(t)'
  <2>1. Scan' => Scan
    BY DEF QuietWorld, Scan
  <2> QED BY <1>1, <2>1, OwnMarksFrame DEF TxInv, QuietWorld
<1>5. DirectOK(t)'
  BY <1>1, DirectFrame DEF TxInv, QuietWorld
<1>6. DirectIdxOK(t)'
  BY <1>1, DirectIdxFrame DEF TxInv, QuietWorld
<1>7. DirectCountOK(t)'
  BY <1>1, DirectCountFrame DEF TxInv, QuietWorld
<1>8. SnapOK(t)'
  BY <1>1, SnapFrame DEF TxInv, QuietWorld
<1> QED BY <1>2, <1>3, <1>4, <1>5, <1>6, <1>7, <1>8 DEF TxInv

(* Hence all of them do.                                                    *)
LEMMA QuietWriters ==
  ASSUME WriterOK, Types, StateOK, StateOK', QuietWorld,
         \A w \in Writer :
            \/ /\ tx'[w] = tx[w]
               /\ Open(w) /\ tx[w].gen > 0 =>
                    \A x \in br : x.node = w /\ x.gen = tx[w].gen /\ x.ticket = tx[w].ticket
                                     => x \in br'
            \/ Open(w)' => TxInv(tx[w], w)'
  PROVE  WriterOK'
<1> SUFFICES ASSUME NEW w \in Writer, Open(w)',
                    tx'[w] = tx[w],
                    Open(w) /\ tx[w].gen > 0 =>
                       \A x \in br : x.node = w /\ x.gen = tx[w].gen /\ x.ticket = tx[w].ticket
                                        => x \in br'
             PROVE  TxInv(tx[w], w)'
  BY DEF WriterOK
<1>1. PICK t : t = tx[w]
  OBVIOUS
<1>2. Open(w)
  BY DEF Open
<1>3. TxInv(t, w) /\ TxOK(t)
  BY <1>1, <1>2 DEF WriterOK, Types
<1>4. \A x \in br : x.node = w /\ x.gen = t.gen /\ x.ticket = t.ticket /\ t.gen > 0 => x \in br'
  BY <1>1, <1>2
<1>5. TxInv(t, w)'
  BY <1>3, <1>4, QuietTx
<1>6. tx'[w] = t
  BY <1>1
<1> QED BY <1>5, <1>6 DEF TxInv, AdmissionOK, OwnQueueOK, OwnMarksOK, DirectOK, DirectIdxOK,
                          DirectCountOK, SnapOK, Direct

(* Tickets stay below the next one to be given.                             *)
LEMMA TicketsFrame ==
  ASSUME TicketsOK, Types, Types', StateOK, StateOK', bs'.gen = bs.gen, bs.ticket <= bs'.ticket,
         \A w \in Writer :
            tx'[w].gen = 0 \/ (tx'[w].gen = tx[w].gen /\ tx'[w].ticket = tx[w].ticket)
  PROVE  TicketsOK'
<1>1. \A w \in Writer : /\ tx[w].gen \in Nat /\ tx[w].ticket \in Nat
                        /\ tx'[w].gen \in Nat /\ tx'[w].ticket \in Nat
  BY DEF Types, TxType
<1>2. bs.gen \in Nat /\ bs.ticket \in Nat /\ bs'.ticket \in Nat
  BY DEF StateOK, StateType
<1> SUFFICES ASSUME NEW w \in Writer
             PROVE  /\ tx'[w].gen <= bs'.gen
                    /\ tx'[w].gen = bs'.gen /\ bs'.gen > 0 =>
                          /\ tx'[w].ticket < bs'.ticket
                          /\ \A c \in Writer : c # w /\ tx'[c].gen = bs'.gen =>
                                                  tx'[c].ticket # tx'[w].ticket
  BY DEF TicketsOK
<1>3. tx'[w].gen <= bs'.gen
  BY <1>1, <1>2 DEF TicketsOK
<1>4. ASSUME tx'[w].gen = bs'.gen, bs'.gen > 0
      PROVE  /\ tx'[w].ticket < bs'.ticket
             /\ \A c \in Writer : c # w /\ tx'[c].gen = bs'.gen => tx'[c].ticket # tx'[w].ticket
  <2>1. tx[w].gen = bs.gen /\ tx'[w].ticket = tx[w].ticket
    BY <1>2, <1>4
  <2>2. \A c \in Writer : tx'[c].gen = bs'.gen => tx[c].gen = bs.gen /\ tx'[c].ticket = tx[c].ticket
    BY <1>2, <1>4
  <2> QED BY <1>1, <1>2, <1>4, <2>1, <2>2 DEF TicketsOK
<1> QED BY <1>3, <1>4

(* A step of one writer that changes nothing but its own state, and gives   *)
(* up its reservation perhaps.                                              *)
LEMMA WriterWorld ==
  ASSUME IInv, IInv', JInv, NEW w \in Writer, NEW u, tx' = [tx EXCEPT ![w] = u],
         UNCHANGED <<kind, table, index, catalog, bs, bg, bp, task, inactive>>,
         br' \subseteq br, \A x \in br : x \in br' \/ x.node = w \/ ~Open(x.node)
                                          \/ tx[x.node].gen = 0 \/ tx[x.node].ticket # x.ticket,
         u.gen = 0 \/ (u.gen = tx[w].gen /\ u.ticket = tx[w].ticket),
         tx[w].pc = "crashed" => u.pc = "crashed", u.pc \in {"open", "fence"} => TxInv(u, w)',
         u.pc \in {"open", "fence"} => u.gen = 0 \/ (Open(w) /\ tx[w].gen > 0)
  PROVE  JInv'
<1>1. /\ tx'[w] = u /\ \A c \in Writer : c # w => tx'[c] = tx[c]
  BY DEF IInv, Types
<1>2. QuietWorld
  BY DEF QuietWorld, Active, Ready, Cleaned, Owns, IInv, StateOK, StateType
<1>3. WriterOK'
  <2>1. Open(w)' => TxInv(tx[w], w)'
    BY <1>1 DEF Open, TxInv, AdmissionOK, OwnQueueOK, OwnMarksOK, DirectOK, DirectIdxOK,
                DirectCountOK, SnapOK, Direct
  <2>2. ASSUME NEW c \in Writer, c # w, Open(c), tx[c].gen > 0, NEW x \in br, x.node = c,
               x.ticket = tx[c].ticket
        PROVE  x \in br'
    BY <2>2
  <2> QED BY <1>1, <1>2, <2>1, <2>2, QuietWriters DEF IInv, JInv
<1>4. QueueOK' /\ MarksOK' /\ StartOK'
  BY DEF JInv, QueueOK, MarksOK, StartOK, Scan, Active, Starting
<1>5. InactiveOK'
  BY <1>1 DEF JInv, InactiveOK, IInv, Types
<1>8. TicketsOK'
  <2>1. bs.ticket \in Nat /\ Types /\ Types' /\ StateOK /\ StateOK'
    BY DEF IInv, StateOK, StateType
  <2>2. bs'.gen = bs.gen /\ bs.ticket <= bs'.ticket
    BY <2>1
  <2>3. \A c \in Writer :
            tx'[c].gen = 0 \/ (tx'[c].gen = tx[c].gen /\ tx'[c].ticket = tx[c].ticket)
    BY <1>1
  <2> QED BY <2>1, <2>2, <2>3, TicketsFrame DEF JInv
<1>6. TasksOK'
  <2>1. \A c \in Writer : Open(c)' => tx'[c].gen = 0 \/ (Open(c) /\ tx[c].gen # 0)
    <3>1. \A c \in Writer : c # w => (Open(c)' <=> Open(c))
      BY <1>1 DEF Open
    <3>2. Open(w)' => tx'[w].gen = 0 \/ (Open(w) /\ tx[w].gen # 0)
      BY <1>1 DEF Open
    <3> QED BY <1>1, <3>1, <3>2
  <2> QED BY <2>1 DEF JInv, TasksOK, OwnerTaskOK, Owns
<1>7. IndexOK'
  BY DEF JInv, IndexOK, ScanOK, CompleteOK, IdxScanOK, CountScanOK, Owns, Active, Base, BatchEntries
<1> QED BY <1>3, <1>4, <1>5, <1>6, <1>7, <1>8 DEF JInv

(* A step of one transaction that writes nothing to the store keeps the     *)
(* invariant.                                                               *)
LEMMA OwnStep ==
  ASSUME IInv, IInv', JInv, NEW w \in Writer, NEW u, tx' = [tx EXCEPT ![w] = u], TxOK(u),
         UNCHANGED <<kind, table, index, catalog, bs, bg, bp, br, task, inactive>>,
         tx[w].pc = "crashed" => u.pc = "crashed",
         u.gen = 0 \/ (u.gen = tx[w].gen /\ u.ticket = tx[w].ticket),
         u.pc \in {"open", "fence"} => TxInv(u, w) /\ (u.gen = 0 \/ (Open(w) /\ tx[w].gen > 0))
  PROVE  JInv'
<1>1. QuietWorld /\ StateOK /\ StateOK'
  BY DEF QuietWorld, Active, Ready, Cleaned, Owns, IInv, StateOK, StateType
<1>2. u.pc \in {"open", "fence"} => TxInv(u, w)'
  BY <1>1, QuietTx
<1>3. br' \subseteq br /\ \A x \in br : x \in br'
  OBVIOUS
<1> QED BY <1>2, <1>3, WriterWorld

----------------------------------------------------------------------------
(* User transactions. *)

(* The empty queue is a chain.                                              *)
LEMMA EmptyChain == ASSUME NEW f PROVE Chain({}, f)
BY DEF Chain, Distinct, Linked, EndsIn, Moves

(* A transaction that begins has a snapshot with the entries of the table   *)
(* if the index is ready.                                                   *)
LEMMA BeginJ ==
  ASSUME IInv, IInv', JInv, Careful, NEW w \in Writer, Begin(w)
  PROVE  JInv'
<1>1. Types /\ StateOK /\ ~LongTransactions
  BY DEF IInv, Careful
<1>2. PICK u : u = tx'[w]
  OBVIOUS
<1>3. /\ TxOK(u) /\ tx' = [tx EXCEPT ![w] = u]
      /\ u.pc = "open" /\ u.sees = (catalog = "defined") /\ u.gen = 0
      /\ u.opened = IF Active THEN -1 ELSE bs.gen
      /\ u.snap = IF Active /\ ~LongTransactions THEN NoEntries ELSE index
      /\ u.writes = << >> /\ u.dirty = {} /\ u.queue = {} /\ u.marks = {}
      /\ u.put = {} /\ u.del = {}
  <2>1. Begun(u) /\ tx' = [tx EXCEPT ![w] = u]
    BY <1>1, <1>2, BeginFields
  <2> QED BY <2>1 DEF Begun
<1>4. /\ tx[w].pc = "idle" /\ catalog # "open"
      /\ UNCHANGED <<kind, table, index, catalog, bs, bg, bp, br, task, runs, inactive>>
  BY DEF Begin, Careful
<1>5. DOMAIN u.writes = {}
  BY <1>3
<1>6. AdmissionOK(u, w)
  <2>1. bs.gen \in Nat
    BY <1>1 DEF StateOK, StateType
  <2>2. u.sees <=> catalog = "defined"
    BY <1>3
  <2>3. u.opened <= bs.gen /\ (Active => u.opened < bs.gen)
    <3>1. u.opened = IF Active THEN -1 ELSE bs.gen
      BY <1>3
    <3> QED BY <2>1, <3>1
  <2>4. ~(u.gen > 0)
    BY <1>3
  <2> QED BY <1>3, <1>4, <2>2, <2>3, <2>4 DEF AdmissionOK
<1>7. OwnQueueOK(u)
  BY <1>3, <1>5, EmptyChain DEF OwnQueueOK
<1>8. OwnMarksOK(u) /\ DirectOK(u) /\ DirectIdxOK(u) /\ DirectCountOK(u)
  BY <1>3, <1>5 DEF OwnMarksOK, DirectOK, DirectIdxOK, DirectCountOK
<1>9. SnapOK(u)
  <2> SUFFICES ASSUME Ready, u.sees, u.opened = bs.gen
               PROVE  u.snap = Entries(table)
    BY DEF SnapOK
  <2>1. ~Active /\ catalog = "defined"
    BY <1>3 DEF Ready, Active
  <2> QED BY <1>3, <2>1 DEF JInv, IndexOK, Ready
<1>10. TxInv(u, w)
  BY <1>6, <1>7, <1>8, <1>9 DEF TxInv
<1> QED BY <1>3, <1>4, <1>10, OwnStep

(* A transaction that does not know the index writes when there is none.    *)
LEMMA MutateUnseenJ ==
  ASSUME IInv, IInv', JInv, NEW w \in Writer, NEW r \in Rec, NEW v \in MaybeValue,
         MutateUnseen(w, r, v)
  PROVE  JInv'
<1>1. PICK t : t = tx[w]
  OBVIOUS
<1>2. TxOK(t) /\ TxCore(t) /\ t \in TxType
  BY <1>1 DEF IInv, Types, TxOK, TxCore
<1>3. /\ t.pc = "open" /\ ~t.sees /\ Open(w) /\ <<r>> \notin t.dirty
      /\ tx' = [tx EXCEPT ![w] = Written(t, r, v)]
      /\ UNCHANGED <<kind, table, index, catalog, bs, bg, bp, br, task, inactive>>
  BY <1>1 DEF MutateUnseen, Open, Changes
<1>4. t.gen = 0 /\ t.queue = {} /\ t.marks = {} /\ t.put = {} /\ t.del = {}
  BY <1>2, <1>3 DEF TxOK, TxCore, TxType
<1>5. PICK u : u = Written(t, r, v)
  OBVIOUS
<1>6. /\ u.pc = "open" /\ u.sees = t.sees /\ u.gen = t.gen
      /\ u.queue = t.queue /\ u.marks = t.marks /\ u.put = t.put /\ u.del = t.del
      /\ u.snap = t.snap /\ u.opened = t.opened /\ u.dirty = t.dirty
      /\ DOMAIN u.writes = DOMAIN t.writes \cup {r}
  BY <1>2, <1>5, WrittenFields
<1>7. TxOK(u)
  BY <1>2, <1>4, <1>5, WrittenOK
<1>8. TxInv(t, w)
  BY <1>1, <1>3 DEF JInv, WriterOK
<1>9. AdmissionOK(u, w)
  BY <1>4, <1>6, <1>8 DEF TxInv, AdmissionOK
<1>10. OwnQueueOK(u)
  <2>1. \A q \in DOMAIN u.writes : <<q>> \notin u.dirty
    BY <1>3, <1>6, <1>8 DEF TxInv, OwnQueueOK
  <2> QED BY <1>4, <1>6, <2>1, EmptyChain DEF OwnQueueOK
<1>11. OwnMarksOK(u)
  BY <1>6, <1>8 DEF TxInv, OwnMarksOK
<1>12. DirectOK(u) /\ DirectIdxOK(u) /\ DirectCountOK(u) /\ SnapOK(u)
  BY <1>3, <1>4, <1>6 DEF DirectOK, DirectIdxOK, DirectCountOK, SnapOK
<1>13. TxInv(u, w)
  BY <1>9, <1>10, <1>11, <1>12 DEF TxInv
<1> QED BY <1>1, <1>3, <1>4, <1>5, <1>6, <1>7, <1>13, OwnStep

(* The entry of a record is the one with its value.                         *)
LEMMA EntryOf ==
  ASSUME NEW e \in Entry, NEW r, NEW c
  PROVE  e \in EntriesOf(r, c) <=> e[1] = r /\ e[2] = c
<1>1. e = <<e[1], e[2]>> /\ e[2] \in Value
  BY DEF Entry
<1>2. CASE c = None
  BY <1>1, <1>2 DEF EntriesOf
<1>3. CASE c # None
  BY <1>1, <1>3 DEF EntriesOf
<1> QED BY <1>2, <1>3

Putting(u, P, D) == [u EXCEPT !.put = P, !.del = D]
(* Putting and deleting entries changes nothing else of a transaction.      *)
LEMMA PutDelFields ==
  ASSUME NEW u \in TxType, NEW P \in SUBSET Entry, NEW D \in SUBSET Entry,
         NEW x, x = Putting(u, P, D)
  PROVE  /\ x.pc = u.pc /\ x.sees = u.sees /\ x.gen = u.gen /\ x.ticket = u.ticket
         /\ x.complete = u.complete /\ x.queue = u.queue /\ x.marks = u.marks
         /\ x.snap = u.snap /\ x.opened = u.opened /\ x.dirty = u.dirty /\ x.writes = u.writes
         /\ x.put = P /\ x.del = D
<1>1. /\ x.pc = u.pc /\ x.sees = u.sees /\ x.gen = u.gen /\ x.ticket = u.ticket
      /\ x.complete = u.complete /\ x.queue = u.queue /\ x.marks = u.marks
  BY DEF TxType, Putting
<1>2. /\ x.snap = u.snap /\ x.opened = u.opened /\ x.dirty = u.dirty /\ x.writes = u.writes
      /\ x.put = P /\ x.del = D
  BY DEF TxType, Putting
<1> QED BY <1>1, <1>2

(* The entries that a transaction writes by itself, and all else it keeps.  *)
Found(t, old) == {e \in old : e \in t.put \/ (t.snap[e] = 1 /\ e \notin t.del)}
(* What index_normally puts and deletes, by the kind of the index.          *)
LEMMA IndexNormallyFields ==
  ASSUME NEW t \in TxType, NEW r \in Rec, NEW v \in MaybeValue, Types,
         NEW old, old = EntriesOf(r, Current(t, r)), NEW new, new = EntriesOf(r, v),
         NEW found, found = Found(t, old),
         NEW x, x = IndexNormally(t, r, v)
  PROVE  /\ x.pc = "open" /\ x.sees = t.sees /\ x.gen = t.gen /\ x.ticket = t.ticket
         /\ x.complete = t.complete /\ x.queue = t.queue /\ x.marks = t.marks
         /\ x.snap = t.snap /\ x.opened = t.opened /\ x.dirty = t.dirty
         /\ DOMAIN x.writes = DOMAIN t.writes \cup {r}
         /\ \A q \in DOMAIN x.writes : x.writes[q] = IF q = r THEN v ELSE t.writes[q]
         /\ kind = "Count" => /\ x.put = (t.put \ old) \cup (new \ t.del)
                              /\ x.del = (t.del \ new) \cup (old \ t.put)
         /\ kind # "Count" => /\ x.put = (t.put \ found) \cup new
                              /\ x.del = (t.del \cup found) \ new
<1>1. PICK u : u = Written(t, r, v)
  OBVIOUS
<1>2. /\ u \in TxType /\ u.pc = "open" /\ u.sees = t.sees /\ u.gen = t.gen
      /\ u.ticket = t.ticket /\ u.complete = t.complete
      /\ u.queue = t.queue /\ u.marks = t.marks /\ u.put = t.put /\ u.del = t.del
      /\ u.snap = t.snap /\ u.opened = t.opened /\ u.dirty = t.dirty
      /\ DOMAIN u.writes = DOMAIN t.writes \cup {r}
      /\ \A q \in DOMAIN u.writes : u.writes[q] = IF q = r THEN v ELSE t.writes[q]
  BY <1>1, WrittenFields
<1>3. new \subseteq Entry /\ old \subseteq Entry /\ found \subseteq Entry
  <2>1. Current(t, r) \in MaybeValue
    BY CurrentType
  <2> QED BY <2>1 DEF Found, EntriesOf, Entry, MaybeValue
<1>4. t.put \subseteq Entry /\ t.del \subseteq Entry
  BY DEF TxType
<1> DEFINE P == IF kind = "Count" THEN (u.put \ old) \cup (new \ t.del)
                ELSE (u.put \ found) \cup new
           D == IF kind = "Count" THEN (u.del \ new) \cup (old \ t.put)
                ELSE (u.del \cup found) \ new
<1>5. x = Putting(u, P, D)
  BY <1>1 DEF IndexNormally, Putting, Found
<1>6. P \in SUBSET Entry /\ D \in SUBSET Entry
  BY <1>2, <1>3, <1>4
<1> HIDE DEF P, D
<1>7. /\ x.pc = u.pc /\ x.sees = u.sees /\ x.gen = u.gen /\ x.ticket = u.ticket
      /\ x.complete = u.complete /\ x.queue = u.queue /\ x.marks = u.marks
      /\ x.snap = u.snap /\ x.opened = u.opened /\ x.dirty = u.dirty /\ x.writes = u.writes
      /\ x.put = P /\ x.del = D
  BY <1>2, <1>5, <1>6, PutDelFields
<1>8. kind = "Count" => /\ x.put = (t.put \ old) \cup (new \ t.del)
                        /\ x.del = (t.del \ new) \cup (old \ t.put)
  BY <1>2, <1>7 DEF P, D
<1>9. kind # "Count" => /\ x.put = (t.put \ found) \cup new
                        /\ x.del = (t.del \cup found) \ new
  BY <1>2, <1>7 DEF P, D
<1> QED BY <1>2, <1>7, <1>8, <1>9

(* Nothing is queued when the index is ready.                               *)
LEMMA ReadyEmpty ==
  ASSUME IInv, JInv, Ready
  PROVE  bg = {} /\ ~Active /\ ~Cleaned
<1>1. ~Active /\ ~Cleaned
  BY DEF Ready, Active, Cleaned
<1>2. CASE bs.phase = "none"
  <2>1. bs.gen = 0
    BY <1>2 DEF IInv, StateOK
  <2>2. \A a \in bg : a.gen # 0
    BY DEF IInv, Types, Appending
  <2> QED BY <1>1, <2>1, <2>2 DEF JInv, QueueOK
<1>3. CASE bs.phase = "Online"
  BY <1>1, <1>3 DEF JInv, QueueOK
<1> QED BY <1>2, <1>3 DEF Ready

(* A transaction that indexes by itself, in a snapshot that is current.     *)
LEMMA MutateReadyJ ==
  ASSUME IInv, IInv', JInv, Careful, NEW w \in Writer, NEW r \in Rec, NEW v \in MaybeValue,
         MutateReady(w, r, v)
  PROVE  JInv'
<1>1. PICK t : t = tx[w]
  OBVIOUS
<1>2. TxOK(t) /\ TxCore(t) /\ t \in TxType /\ Types /\ StateOK
  BY <1>1 DEF IInv, Types, TxOK, TxCore
<1>3. /\ t.pc = "open" /\ t.sees = TRUE /\ t.gen = 0 /\ Open(w)
      /\ v # Current(t, r) /\ <<r>> \notin t.dirty /\ Ready /\ t.opened = bs.gen
      /\ tx' = [tx EXCEPT ![w] = IndexNormally(t, r, v)]
      /\ UNCHANGED <<kind, table, index, catalog, bs, bg, bp, br, task, inactive>>
  BY <1>1, <1>2 DEF MutateReady, Open, Changes, Ready, SnapshotCurrent, Careful, TxType
<1>4. t.queue = {} /\ t.marks = {} /\ bg = {} /\ ~Cleaned
  BY <1>2, <1>3, ReadyEmpty DEF TxOK, TxCore
<1>5. TxInv(t, w)
  BY <1>1, <1>3 DEF JInv, WriterOK
<1>6. PICK old, new, found, x :
         /\ old = EntriesOf(r, Current(t, r)) /\ new = EntriesOf(r, v)
         /\ found = Found(t, old)
         /\ x = IndexNormally(t, r, v)
  OBVIOUS
<1>7. /\ x.pc = "open" /\ x.sees = t.sees /\ x.gen = t.gen /\ x.ticket = t.ticket
      /\ x.complete = t.complete /\ x.queue = t.queue /\ x.marks = t.marks
      /\ x.snap = t.snap /\ x.opened = t.opened /\ x.dirty = t.dirty
      /\ DOMAIN x.writes = DOMAIN t.writes \cup {r}
      /\ \A q \in DOMAIN x.writes : x.writes[q] = IF q = r THEN v ELSE t.writes[q]
      /\ kind = "Count" => /\ x.put = (t.put \ old) \cup (new \ t.del)
                           /\ x.del = (t.del \ new) \cup (old \ t.put)
      /\ kind # "Count" => /\ x.put = (t.put \ found) \cup new
                           /\ x.del = (t.del \cup found) \ new
  BY <1>2, <1>6, IndexNormallyFields
<1>8. TxOK(x)
  BY <1>2, <1>3, <1>6, IndexNormallyOK
<1>9. /\ \A e \in Entry : e \in new <=> e[1] = r /\ e[2] = v
      /\ \A e \in Entry : e \in old <=> e[1] = r /\ e[2] = Current(t, r)
      /\ new \subseteq Entry /\ old \subseteq Entry
  <2>1. Current(t, r) \in MaybeValue
    BY <1>2, CurrentType
  <2>2. new \subseteq Entry /\ old \subseteq Entry
    BY <1>6, <2>1 DEF EntriesOf, Entry, MaybeValue
  <2> QED BY <1>6, <2>2, EntryOf
<1>10. /\ t.put \subseteq Entry /\ t.del \subseteq Entry
       /\ \A e \in t.put \cup t.del : e[1] \in DOMAIN t.writes
  BY <1>2, <1>5 DEF TxType, TxInv, DirectOK
<1>11. Current(t, r) = IF r \in DOMAIN t.writes THEN t.writes[r] ELSE table[r]
  BY DEF Current
<1>12. \A e : ~Touched(t.queue, e)
  BY <1>4 DEF Touched
<1>13. index = Entries(table) /\ \A e \in Entry : index[e] = IF table[e[1]] = e[2] THEN 1 ELSE 0
  <2>1. catalog = "defined"
    BY <1>3, <1>5 DEF TxInv, AdmissionOK
  <2>2. index = Entries(table)
    BY <1>3, <2>1 DEF JInv, IndexOK, Ready
  <2> QED BY <2>2 DEF Entries
<1>14. kind = "Idx" => found = old
  <2> SUFFICES ASSUME kind = "Idx", NEW e \in old
               PROVE  e \in t.put \/ (t.snap[e] = 1 /\ e \notin t.del)
    BY <1>6 DEF Found
  <2>1. e \in Entry /\ e[1] = r /\ e[2] = Current(t, r)
    BY <1>9
  <2>2. CASE r \in DOMAIN t.writes
    BY <1>3, <1>5, <1>11, <1>12, <2>1, <2>2 DEF TxInv, DirectIdxOK
  <2>3. CASE r \notin DOMAIN t.writes
    <3>1. e \notin t.del /\ table[r] = e[2]
      BY <1>10, <1>11, <2>1, <2>3
    <3>2. t.snap[e] = Entries(table)[e]
      BY <1>3, <1>5, <2>1 DEF TxInv, SnapOK
    <3> QED BY <1>13, <2>1, <3>1, <3>2
  <2> QED BY <2>2, <2>3
<1>15. DirectIdxOK(x)
  <2> SUFFICES ASSUME kind = "Idx", NEW e \in Entry
               PROVE  /\ e \in x.put => x.writes[e[1]] = e[2]
                      /\ e[1] \in DOMAIN x.writes =>
                           /\ x.writes[e[1]] = e[2] => e \in x.put
                           /\ table[e[1]] = e[2] => e \in x.put \cup x.del /\ index[e] = 1
    BY <1>4, <1>7, <1>12 DEF DirectIdxOK
  <2>1. x.put = (t.put \ old) \cup new /\ x.del = (t.del \cup old) \ new
    BY <1>7, <1>14
  <2>2. /\ e \in t.put => t.writes[e[1]] = e[2]
        /\ e[1] \in DOMAIN t.writes =>
             /\ t.writes[e[1]] = e[2] => e \in t.put
             /\ table[e[1]] = e[2] => e \in t.put \cup t.del
    BY <1>3, <1>5, <1>12 DEF TxInv, DirectIdxOK
  <2>3. CASE e[1] = r
    <3>1. e \in x.put => x.writes[e[1]] = e[2]
      BY <1>7, <1>9, <1>10, <1>11, <2>1, <2>2, <2>3
    <3>2. x.writes[e[1]] = e[2] => e \in x.put
      BY <1>7, <1>9, <2>1, <2>3
    <3>3. table[e[1]] = e[2] => e \in x.put \cup x.del
      BY <1>9, <1>11, <2>1, <2>2, <2>3
    <3> QED BY <1>13, <3>1, <3>2, <3>3
  <2>4. CASE e[1] # r
    <3>1. e \notin old /\ e \notin new
      BY <1>9, <2>4
    <3>2. (e \in x.put <=> e \in t.put) /\ (e \in x.del <=> e \in t.del)
      BY <2>1, <3>1
    <3>3. e[1] \in DOMAIN x.writes => e[1] \in DOMAIN t.writes /\ x.writes[e[1]] = t.writes[e[1]]
      BY <1>7, <2>4
    <3> QED BY <1>7, <1>10, <1>13, <2>2, <3>2, <3>3
  <2> QED BY <2>3, <2>4
<1>16. kind = "Count" => \A e \in Entry : e[1] \in DOMAIN x.writes =>
              /\ e \in x.put <=> x.writes[e[1]] = e[2] /\ table[e[1]] # e[2]
              /\ e \in x.del <=> table[e[1]] = e[2] /\ x.writes[e[1]] # e[2]
  <2> SUFFICES ASSUME kind = "Count", NEW e \in Entry, e[1] \in DOMAIN x.writes
               PROVE  /\ e \in x.put <=> x.writes[e[1]] = e[2] /\ table[e[1]] # e[2]
                      /\ e \in x.del <=> table[e[1]] = e[2] /\ x.writes[e[1]] # e[2]
    OBVIOUS
  <2>1. /\ x.put = (t.put \ old) \cup (new \ t.del)
        /\ x.del = (t.del \ new) \cup (old \ t.put)
    BY <1>7
  <2>2. e[1] \in DOMAIN t.writes =>
           /\ e \in t.put <=> t.writes[e[1]] = e[2] /\ table[e[1]] # e[2]
           /\ e \in t.del <=> table[e[1]] = e[2] /\ t.writes[e[1]] # e[2]
    BY <1>3, <1>5 DEF TxInv, DirectCountOK
  <2>3. CASE e[1] = r /\ r \in DOMAIN t.writes
    BY <1>3, <1>7, <1>9, <1>11, <2>1, <2>2, <2>3
  <2>4. CASE e[1] = r /\ r \notin DOMAIN t.writes
    <3>1. e \notin t.put /\ e \notin t.del
      BY <1>10, <2>4
    <3> QED BY <1>3, <1>7, <1>9, <1>11, <2>1, <2>4, <3>1
  <2>5. CASE e[1] # r
    <3>1. e \notin old /\ e \notin new
      BY <1>9, <2>5
    <3> QED BY <1>7, <2>1, <2>2, <2>5, <3>1
  <2> QED BY <2>3, <2>4, <2>5
<1>17. DirectCountOK(x)
  BY <1>3, <1>16 DEF DirectCountOK
<1>18. DirectOK(x)
  <2>1. \A e \in x.put \cup x.del : e \in t.put \cup t.del \cup old \cup new
    BY <1>6, <1>7 DEF Found
  <2>2. \A e \in x.put \cup x.del : e[1] \in DOMAIN x.writes
    BY <1>7, <1>9, <1>10, <2>1
  <2>3. \A q : ~About(bg, q)
    BY <1>4 DEF About
  <2>4. ASSUME NEW q \in DOMAIN x.writes
        PROVE  Direct(x, q) \/ x.writes[q] = table[q]
    <3>1. CASE q # r
      <4>1. q \in DOMAIN t.writes /\ x.writes[q] = t.writes[q]
        BY <1>7, <2>4, <3>1
      <4>2. Direct(t, q) \/ t.writes[q] = table[q]
        BY <1>3, <1>4, <1>5, <4>1 DEF TxInv, DirectOK, About
      <4>3. ASSUME NEW e \in t.put \cup t.del, e[1] = q
            PROVE  e \in x.put \cup x.del
        <5>1. e \notin old /\ e \notin new
          BY <1>9, <3>1, <4>3
        <5> QED BY <1>6, <1>7, <5>1 DEF Found
      <4> QED BY <4>1, <4>2, <4>3 DEF Direct
    <3>2. CASE q = r /\ v # None
      <4> DEFINE e == <<r, v>>
      <4>1. e \in Entry /\ e[1] = r /\ e[2] = v
        BY <3>2 DEF Entry, MaybeValue
      <4> HIDE DEF e
      <4>2. e \in new /\ x.writes[r] = v
        BY <1>7, <1>9, <4>1
      <4>3. kind # "Count" => e \in x.put
        BY <1>7, <4>2
      <4>4. kind = "Count" => e \in x.put \/ table[r] = v
        BY <1>7, <1>16, <4>1, <4>2
      <4> QED BY <3>2, <4>1, <4>2, <4>3, <4>4 DEF Direct
    <3>3. CASE q = r /\ v = None /\ table[r] # None
      <4> DEFINE e == <<r, table[r]>>
      <4>1. e \in Entry /\ e[1] = r /\ e[2] = table[r]
        BY <1>2, <3>3 DEF Entry, Types, MaybeValue
      <4> HIDE DEF e
      <4>2. x.writes[r] = None /\ e[2] # None /\ r \in DOMAIN x.writes
        BY <1>7, <3>3, <4>1
      <4>3. kind = "Count" => e \in x.del
        BY <1>16, <4>1, <4>2
      <4>4. kind = "Idx" => e \in x.put \cup x.del
        BY <1>3, <1>7, <1>15, <4>1, <4>2, <1>12 DEF DirectIdxOK
      <4>5. kind \in {"Idx", "Count"}
        BY <1>2 DEF Types
      <4> QED BY <3>3, <4>1, <4>3, <4>4, <4>5 DEF Direct
    <3>4. CASE q = r /\ v = None /\ table[r] = None
      BY <1>7, <3>4
    <3> QED BY <3>1, <3>2, <3>3, <3>4
  <2> QED BY <1>4, <1>7, <2>2, <2>3, <2>4 DEF DirectOK
<1>19. AdmissionOK(x, w)
  BY <1>3, <1>5, <1>7 DEF TxInv, AdmissionOK
<1>20. OwnQueueOK(x)
  <2>1. \A q \in DOMAIN x.writes : <<q>> \notin x.dirty
    BY <1>3, <1>5, <1>7 DEF TxInv, OwnQueueOK
  <2> QED BY <1>4, <1>7, <2>1, EmptyChain DEF OwnQueueOK
<1>21. OwnMarksOK(x)
  BY <1>3, ReadyEmpty DEF OwnMarksOK, Scan
<1>22. SnapOK(x)
  BY <1>5, <1>7 DEF TxInv, SnapOK
<1>23. TxInv(x, w)
  BY <1>15, <1>17, <1>18, <1>19, <1>20, <1>21, <1>22 DEF TxInv
<1> QED BY <1>1, <1>3, <1>6, <1>7, <1>8, <1>23, OwnStep

(* A mark is written unless the snapshot has one, or had one.               *)
Marked(t, r) ==
    <<"bp", t.gen, r>> \in t.dirty \/ \E p \in bp \cup t.marks : p.gen = t.gen /\ p.rec = r

(* A record is marked during the scan, once.                                *)
LEMMA EnqueueMarks ==
  ASSUME NEW t, TxOK(t), t.gen > 0, NEW r \in Rec, NEW v \in MaybeValue, Types,
         Cardinality(t.queue) <= MaxSeq, NEW x, x = Enqueue(t, r, v)
  PROVE  /\ t.complete \/ Marked(t, r) => x.marks = t.marks
         /\ ~t.complete /\ ~Marked(t, r) => x.marks = t.marks \cup {MarkFor(t, r)}
<1> DEFINE m == MarkFor(t, r)
           marked == \/ MarkKey(m) \in t.dirty
                     \/ \E p \in bp \cup t.marks : MarkKey(p) = MarkKey(m)
           u == Written(t, r, v)
           Q == u.queue \cup {Queued(t, r, v)}
           N == NoEntries
           z == 0
           M == IF t.complete \/ marked THEN u.marks ELSE u.marks \cup {m}
<1>1. x = [u EXCEPT !.queue = Q, !.snap = N, !.opened = z, !.marks = M]
  BY DEF Enqueue, Queued, MarkFor
<1>2. t \in TxType
  BY DEF TxOK, TxCore
<1>3. marked <=> Marked(t, r)
  <2>1. m.gen = t.gen /\ m.rec = r
    BY DEF MarkFor
  <2> HIDE DEF m
  <2> QED BY <2>1 DEF Marked, MarkKey
<1> HIDE DEF m, marked, u, Q, N, z
<1>4. u \in TxType /\ u.marks = t.marks
  BY <1>2, WrittenFields DEF u
<1> HIDE DEF M
<1>5. x.marks = M
  BY <1>1, <1>4 DEF TxType
<1> QED BY <1>3, <1>4, <1>5 DEF M, m

(* A mutation that is queued joins the chain of its record.                 *)
LEMMA EnqueueJ ==
  ASSUME IInv, IInv', JInv, NEW w \in Writer, NEW r \in Rec, NEW v \in MaybeValue,
         NEW t, t = tx[w], Open(w), t.gen > 0, Active, Changes(t, r, v),
         Cardinality(t.queue) <= MaxSeq,
         tx' = [tx EXCEPT ![w] = Enqueue(t, r, v)],
         UNCHANGED <<kind, table, index, catalog, bs, bg, bp, br, task, inactive>>
  PROVE  JInv'
<1>1. TxOK(t) /\ Types /\ StateOK /\ TxInv(t, w) /\ t \in TxType /\ t.sees = TRUE /\ tx[w].pc # "crashed"
  BY DEF JInv, IInv, Types, TxOK, TxCore, WriterOK, Open, TxType
<1>2. PICK x, a, n : x = Enqueue(t, r, v) /\ a = Queued(t, r, v) /\ n = Cardinality(t.queue)
  OBVIOUS
<1>3. /\ x \in TxType /\ x.pc = "open" /\ x.sees = t.sees /\ x.gen = t.gen
      /\ x.ticket = t.ticket /\ x.complete = t.complete /\ x.dirty = t.dirty
      /\ x.put = t.put /\ x.del = t.del /\ x.opened = 0
      /\ x.queue = t.queue \cup {a}
      /\ DOMAIN x.writes = DOMAIN t.writes \cup {r}
      /\ \A q \in DOMAIN x.writes : x.writes[q] = IF q = r THEN v ELSE t.writes[q]
  BY <1>1, <1>2, EnqueueFields
<1>4. /\ t.complete \/ Marked(t, r) => x.marks = t.marks
      /\ ~t.complete /\ ~Marked(t, r) => x.marks = t.marks \cup {MarkFor(t, r)}
  BY <1>1, <1>2, EnqueueMarks
<1>5. /\ a \in Appending /\ a.gen = t.gen /\ a.ticket = t.ticket /\ a.seq = n /\ a.rec = r
      /\ a.old = Current(t, r) /\ a.new = v
  BY <1>1, <1>2, QueuedType DEF Queued
<1>6. /\ Chain(t.queue, t.writes)
      /\ \A c \in t.queue : /\ c.gen = t.gen /\ c.ticket = t.ticket /\ c.seq < n
                            /\ c.rec \in DOMAIN t.writes
      /\ \A q \in DOMAIN t.writes : <<q>> \notin t.dirty
  BY <1>1, <1>2 DEF TxInv, OwnQueueOK
<1>7. IsFiniteSet(t.queue) /\ n \in Nat /\ t.queue \in SUBSET Appending
  BY <1>1, <1>2, FS_CardinalityType DEF TxOK, TxCore, TxType
<1>8. a \notin t.queue
  BY <1>5, <1>6, <1>7
<1>9. Cardinality(x.queue) = n + 1
  <2>1. Cardinality(t.queue \cup {a}) = IF a \in t.queue THEN Cardinality(t.queue)
                                       ELSE Cardinality(t.queue) + 1
    BY <1>7, FS_AddElement
  <2> QED BY <1>2, <1>3, <1>8, <2>1
<1>10. /\ Current(t, r) = IF r \in DOMAIN t.writes THEN t.writes[r] ELSE table[r]
       /\ v # Current(t, r) /\ <<r>> \notin t.dirty
  BY DEF Current, Changes
<1>11. PICK R \in SUBSET Appending : R = {a}
  BY <1>5
<1>12. Follows(R, t.queue)
  BY <1>5, <1>6, <1>7, <1>11 DEF Follows, Before
<1>13. Chain(x.queue, x.writes)
  <2>1. /\ Distinct(R) /\ Linked(R) /\ Moves(R) /\ EndsIn(R, x.writes)
    BY <1>3, <1>5, <1>7, <1>10, <1>11 DEF Distinct, Linked, Moves, EndsIn, Adjacent, Before
  <2>2. \A c \in t.queue, d \in R : c.ticket # d.ticket \/ c.seq # d.seq
    BY <1>5, <1>6, <1>7, <1>11
  <2>3. \A c \in R : First(R, c) /\ About(t.queue, c.rec) => c.old = t.writes[c.rec]
    BY <1>5, <1>6, <1>10, <1>11 DEF About
  <2>4. \A c \in t.queue : ~About(R, c.rec) => x.writes[c.rec] = t.writes[c.rec]
    BY <1>3, <1>5, <1>6, <1>11 DEF About
  <2>5. Chain(t.queue \cup R, x.writes)
    BY <1>6, <1>7, <1>12, <2>1, <2>2, <2>3, <2>4, JoinChain
  <2> QED BY <1>3, <1>11, <2>5
<1>14. OwnQueueOK(x)
  <2>1. \A c \in x.queue : /\ c.gen = x.gen /\ c.ticket = x.ticket /\ c.seq < Cardinality(x.queue)
                           /\ c.rec \in DOMAIN x.writes
    <3>1. \A c \in t.queue : c.seq \in Int
      BY <1>7 DEF Appending
    <3> QED BY <1>3, <1>5, <1>6, <1>7, <1>9, <3>1
  <2>2. \A q \in DOMAIN x.writes : <<q>> \notin x.dirty
    BY <1>3, <1>6, <1>10
  <2> QED BY <1>13, <2>1, <2>2 DEF OwnQueueOK
<1>15. /\ t.gen = bs.gen /\ bs.gen > 0 /\ (t.complete => bs.complete)
       /\ \A p \in bp : p.gen = bs.gen
  <2>1. /\ t.gen = bs.gen /\ (t.complete => bs.complete)
    BY <1>1 DEF TxInv, AdmissionOK
  <2> QED BY <2>1 DEF JInv, QueueOK
<1>16. AdmissionOK(x, w)
  <2>1. /\ t.sees <=> catalog = "defined"
        /\ catalog # "open" /\ t.ticket < bs.ticket /\ bs.phase # "Online"
        /\ \A g \in 1..MaxRuns, q \in Rec : <<"bp", g, q>> \in t.dirty => g <= bs.gen
        /\ [gen |-> t.gen, ticket |-> t.ticket, node |-> w] \in br
        /\ \A c \in bg : c.ticket # t.ticket
        /\ \A c \in bg : c.ticket < t.ticket \/ <<c.rec>> \in t.dirty
    BY <1>1 DEF TxInv, AdmissionOK
  <2>2. x.opened <= bs.gen /\ x.opened < bs.gen
    BY <1>1, <1>3, <1>15 DEF StateOK, StateType
  <2> QED BY <1>3, <1>15, <2>1, <2>2 DEF AdmissionOK
<1>17. \A c \in t.queue : First(x.queue, c) <=> First(t.queue, c)
  <2>1. \A c \in t.queue : First(t.queue \cup R, c) <=> First(t.queue, c)
    BY <1>7, <1>12, JoinFirst
  <2> QED BY <1>3, <1>11, <2>1
<1>18. OwnMarksOK(x)
  <2> SUFFICES ASSUME Scan
               PROVE  /\ \A c \in x.queue : \E m \in bp \cup x.marks : m.rec = c.rec
                      /\ \A m \in x.marks : /\ PointsToFirst(x.queue, m)
                                            /\ \A p \in bp : p.rec # m.rec
                                            /\ m.gen = x.gen
                      /\ \A q \in Rec : <<"bp", bs.gen, q>> \in x.dirty => \E m \in bp : m.rec = q
    BY DEF OwnMarksOK
  <2>1. /\ \A c \in t.queue : \E m \in bp \cup t.marks : m.rec = c.rec
        /\ \A m \in t.marks : PointsToFirst(t.queue, m) /\ (\A p \in bp : p.rec # m.rec) /\ m.gen = t.gen
        /\ \A q \in Rec : <<"bp", bs.gen, q>> \in t.dirty => \E m \in bp : m.rec = q
    BY <1>1 DEF TxInv, OwnMarksOK
  <2>2. ~t.complete
    BY <1>15 DEF Scan
  <2>3. \A m \in t.marks : PointsToFirst(x.queue, m)
    BY <1>3, <1>17, <2>1 DEF PointsToFirst
  <2>4. CASE Marked(t, r)
    <3>1. x.marks = t.marks
      BY <1>4, <2>4
    <3>2. \E m \in bp \cup t.marks : m.rec = r
      BY <1>15, <2>1, <2>4 DEF Marked
    <3>3. \A c \in x.queue : \E m \in bp \cup x.marks : m.rec = c.rec
      BY <1>3, <1>5, <2>1, <3>1, <3>2
    <3> QED BY <1>3, <2>1, <2>3, <3>1, <3>3
  <2>5. CASE ~Marked(t, r)
    <3>1. PICK m : m = MarkFor(t, r)
      OBVIOUS
    <3>2. x.marks = t.marks \cup {m}
      BY <1>4, <2>2, <2>5, <3>1
    <3>3. m.gen = t.gen /\ m.rec = r /\ m.ticket = t.ticket /\ m.seq = n
      BY <1>2, <3>1 DEF MarkFor
    <3>4. \A p \in bp \cup t.marks : p.rec # r
      BY <1>15, <2>1, <2>5 DEF Marked
    <3>5. \A c \in t.queue : c.rec # r
      BY <2>1, <3>4
    <3>6. First(x.queue, a)
      BY <1>3, <1>5, <3>5, Order DEF First
    <3>7. PointsToFirst(x.queue, m)
      BY <1>3, <1>5, <3>3, <3>6 DEF PointsToFirst
    <3>8. \A c \in x.queue : \E q \in bp \cup x.marks : q.rec = c.rec
      BY <1>3, <1>5, <2>1, <3>2, <3>3
    <3>9. \A q \in x.marks : PointsToFirst(x.queue, q) /\ (\A p \in bp : p.rec # q.rec) /\ q.gen = x.gen
      BY <1>3, <2>1, <2>3, <3>2, <3>3, <3>4, <3>7, ZenonT(40)
    <3> QED BY <1>3, <2>1, <3>8, <3>9
  <2> QED BY <2>4, <2>5
<1>19. /\ \A e \in t.put \cup t.del : e[1] \in DOMAIN t.writes /\ ~About(bg, e[1])
       /\ \A q \in DOMAIN t.writes : About(t.queue, q) \/ Direct(t, q) \/ t.writes[q] = table[q]
       /\ \A c \in t.queue : First(t.queue, c) => c.old = table[c.rec] \/ Direct(t, c.rec)
  BY <1>1 DEF TxInv, DirectOK
<1>20. (\A q : Direct(x, q) <=> Direct(t, q)) /\ About(x.queue, r)
       /\ \A q : About(t.queue, q) => About(x.queue, q)
  BY <1>3, <1>5 DEF Direct, About
<1>21. DirectOK(x)
  <2>1. \A q \in DOMAIN x.writes : About(x.queue, q) \/ Direct(x, q) \/ x.writes[q] = table[q]
    BY <1>3, <1>19, <1>20
  <2>2. First(x.queue, a) => a.old = table[r] \/ Direct(x, r)
    <3> SUFFICES ASSUME First(x.queue, a) PROVE a.old = table[r] \/ Direct(x, r)
      OBVIOUS
    <3>1. ~About(t.queue, r)
      BY <1>3, <1>5, <1>11, <1>12 DEF About, First, Follows
    <3> QED BY <1>5, <1>10, <1>19, <1>20, <3>1
  <2>3. \A c \in x.queue : First(x.queue, c) => c.old = table[c.rec] \/ Direct(x, c.rec)
    BY <1>3, <1>5, <1>17, <1>19, <1>20, <2>2
  <2> QED BY <1>3, <1>19, <2>1, <2>3 DEF DirectOK
<1>22. DirectIdxOK(x)
  <2> SUFFICES ASSUME kind = "Idx", NEW e \in Entry
               PROVE  /\ e \in x.put => x.writes[e[1]] = e[2] \/ Touched(x.queue, e)
                      /\ e[1] \in DOMAIN x.writes =>
                           /\ x.writes[e[1]] = e[2] => e \in x.put \/ Touched(x.queue, e)
                           /\ table[e[1]] = e[2] =>
                                 \/ Touched(x.queue, e)
                                 \/ e \in x.put \cup x.del /\ index[e] = 1 /\ ~Cleaned
    BY DEF DirectIdxOK
  <2>1. /\ e \in t.put => t.writes[e[1]] = e[2] \/ Touched(t.queue, e)
        /\ e[1] \in DOMAIN t.writes =>
             /\ t.writes[e[1]] = e[2] => e \in t.put \/ Touched(t.queue, e)
             /\ table[e[1]] = e[2] =>
                   Touched(t.queue, e) \/ (e \in t.put \cup t.del /\ index[e] = 1 /\ ~Cleaned)
    BY <1>1 DEF TxInv, DirectIdxOK
  <2>2. Touched(t.queue, e) => Touched(x.queue, e)
    BY <1>3 DEF Touched
  <2>3. e[1] = r /\ (e[2] = v \/ e[2] = Current(t, r)) => Touched(x.queue, e)
    BY <1>3, <1>5 DEF Touched, Touches
  <2>4. CASE e[1] # r
    BY <1>3, <1>19, <2>1, <2>2, <2>4
  <2>5. CASE e[1] = r
    <3>1. e \in x.put => x.writes[e[1]] = e[2] \/ Touched(x.queue, e)
      BY <1>3, <1>10, <1>19, <2>1, <2>2, <2>3, <2>5
    <3>2. x.writes[e[1]] = e[2] => Touched(x.queue, e)
      BY <1>3, <2>3, <2>5
    <3>3. table[e[1]] = e[2] =>
             Touched(x.queue, e) \/ (e \in x.put \cup x.del /\ index[e] = 1 /\ ~Cleaned)
      BY <1>3, <1>10, <2>1, <2>2, <2>3, <2>5
    <3> QED BY <3>1, <3>2, <3>3
  <2> QED BY <2>4, <2>5
<1>23. ~Ready
  BY DEF Ready, Active
<1>24. DirectCountOK(x) /\ SnapOK(x)
  BY <1>1, <1>3, <1>23 DEF TxInv, DirectCountOK, SnapOK
<1>25. TxInv(x, w)
  BY <1>14, <1>16, <1>18, <1>21, <1>22, <1>24 DEF TxInv
<1>26. TxOK(x)
  BY <1>1, <1>2, EnqueueOK
<1> QED BY <1>1, <1>2, <1>3, <1>25, <1>26, OwnStep

(* A transaction that ends without effect keeps the invariant.              *)
LEMMA OverJ ==
  ASSUME IInv, IInv', JInv, NEW w \in Writer, Open(w), NEW t, t = tx[w],
         tx' = [tx EXCEPT ![w] = Closed(t)],
         UNCHANGED <<kind, table, index, catalog, bs, bg, bp, br, task, inactive>>
  PROVE  JInv'
<1>1. TxOK(t) /\ tx[w].pc # "crashed"
  BY DEF IInv, Types, Open
<1>2. PICK u : u = Closed(t)
  OBVIOUS
<1>3. /\ TxOK(u) /\ u.pc \in {"idle", "release"} /\ u.gen = t.gen
      /\ t.gen > 0 => u.ticket = t.ticket
  BY <1>1, <1>2, ClosedOK
<1>4. u.gen = 0 \/ (u.gen = tx[w].gen /\ u.ticket = tx[w].ticket)
  BY <1>1, <1>3 DEF TxOK, TxCore, TxType
<1> QED BY <1>1, <1>2, <1>3, <1>4, OwnStep

(* So does one that is cancelled.                                           *)
LEMMA CancelJ ==
  ASSUME IInv, IInv', JInv, NEW w \in Writer, Cancel(w)
  PROVE  JInv'
BY OverJ DEF Cancel

(* A reservation lasts until its transaction is over, and an index is not   *)
(* online before: the fence never finds it ready.                           *)
LEMMA FenceJ ==
  ASSUME IInv, IInv', JInv, NEW w \in Writer, NEW r \in Rec, NEW v \in MaybeValue, Fence(w, r, v)
  PROVE  JInv'
<1>1. PICK t : t = tx[w]
  OBVIOUS
<1>2. /\ t.pc = "fence" /\ Open(w) /\ TxOK(t) /\ TxInv(t, w) /\ Changes(t, r, v)
      /\ UNCHANGED <<kind, table, index, catalog, bs, bg, bp, task, runs, inactive>>
  BY <1>1 DEF Fence, Open, IInv, Types, JInv, WriterOK
<1>3. t.gen > 0 /\ t.queue = {} /\ bs.phase # "Online"
  BY <1>2 DEF TxOK, TxInv, AdmissionOK
<1>4. CASE Active /\ tx' = [tx EXCEPT ![w] = Enqueue(t, r, v)] /\ UNCHANGED br
  <2>1. Cardinality(t.queue) <= MaxSeq
    BY <1>3, FS_EmptySet
  <2> QED BY <1>1, <1>2, <1>3, <1>4, <2>1, EnqueueJ
<1>5. CASE tx' = [tx EXCEPT ![w] = Closed(t)] /\ UNCHANGED br
  BY <1>1, <1>2, <1>5, OverJ
<1> QED BY <1>1, <1>3, <1>4, <1>5 DEF Fence

(* A later mutation of a transaction finds its ticket still good, or is     *)
(* refused.                                                                 *)
LEMMA MutateCachedJ ==
  ASSUME IInv, IInv', JInv, NEW w \in Writer, NEW r \in Rec, NEW v \in MaybeValue,
         MutateCached(w, r, v)
  PROVE  JInv'
<1>1. PICK t : t = tx[w]
  OBVIOUS
<1>2. /\ Open(w) /\ TxOK(t) /\ t.gen > 0 /\ Changes(t, r, v) /\ Cardinality(t.queue) < MaxSeq
      /\ UNCHANGED <<kind, table, index, catalog, bs, bg, bp, br, task, runs, inactive>>
  BY <1>1 DEF MutateCached, Open, IInv, Types
<1>3. CASE Active /\ tx' = [tx EXCEPT ![w] = Enqueue(t, r, v)]
  <2>1. Cardinality(t.queue) <= MaxSeq
    BY <1>2, FS_CardinalityType DEF TxOK, TxCore
  <2> QED BY <1>1, <1>2, <1>3, <2>1, EnqueueJ
<1>4. CASE tx' = [tx EXCEPT ![w] = Closed(t)]
  BY <1>1, <1>2, <1>4, OverJ
<1> QED BY <1>1, <1>3, <1>4 DEF MutateCached

(* A reservation is released when its transaction has ended.                *)
LEMMA ReleaseJ ==
  ASSUME IInv, IInv', JInv, NEW w \in Writer, Release(w)
  PROVE  JInv'
<1>1. /\ tx[w].pc = "release" /\ br' = br \ Mine(w) /\ tx' = [tx EXCEPT ![w] = IdleTx]
      /\ UNCHANGED <<kind, table, index, catalog, bs, bg, bp, task, runs, inactive>>
  BY DEF Release
<1>2. IdleTx.gen = 0 /\ IdleTx.pc = "idle"
  BY DEF IdleTx
<1>3. ASSUME NEW x \in br, x \notin br', x.node # w, Open(x.node), tx[x.node].gen # 0,
             tx[x.node].ticket = x.ticket
      PROVE  FALSE
  <2>1. PICK c \in Writer : c = x.node
    BY DEF IInv, Types, Reservation
  <2>2. x.gen = tx[w].gen /\ x.ticket = tx[w].ticket /\ x.gen = bs.gen
    BY <1>1, <1>3 DEF Mine, JInv, QueueOK
  <2>3. tx[c].gen = bs.gen /\ bs.gen > 0
    <3>1. TxInv(tx[c], c) /\ tx[c].gen > 0
      BY <1>3, <2>1 DEF JInv, WriterOK, IInv, Types, TxType
    <3> QED BY <3>1 DEF TxInv, AdmissionOK
  <2> QED BY <1>3, <2>1, <2>2, <2>3 DEF JInv, TicketsOK
<1> QED BY <1>1, <1>2, <1>3, WriterWorld

(* A dead node's transaction will not commit.                               *)
LEMMA CrashJ ==
  ASSUME IInv, IInv', JInv, NEW w \in Writer, Crash(w)
  PROVE  JInv'
<1>1. PICK u : u = [IdleTx EXCEPT !.pc = "crashed"]
  OBVIOUS
<1>2. /\ tx[w].pc # "idle" /\ tx[w].gen > 0 /\ tx' = [tx EXCEPT ![w] = u]
      /\ UNCHANGED <<kind, table, index, catalog, bs, bg, bp, br, task, runs, inactive>>
  BY <1>1 DEF Crash
<1>3. u.gen = 0 /\ u.pc = "crashed"
  BY <1>1 DEF IdleTx
<1>4. /\ tx'[w] = u /\ \A c \in Writer : c # w => tx'[c] = tx[c]
  BY <1>2 DEF IInv, Types
<1>5. TxOK(u)
  BY <1>4 DEF IInv, Types
<1> QED BY <1>2, <1>3, <1>5, OwnStep

(* What the invariant says of the store holds while the store stays the     *)
(* same.                                                                    *)
LEMMA SameJ ==
  ASSUME JInv, UNCHANGED <<kind, table, index, catalog, bs, bg, bp, br, tx, task>>
  PROVE  QueueOK' /\ MarksOK' /\ WriterOK' /\ TicketsOK' /\ StartOK' /\ TasksOK' /\ IndexOK'
<1>1. QueueOK' /\ MarksOK' /\ TicketsOK' /\ StartOK'
  BY DEF JInv, QueueOK, MarksOK, TicketsOK, StartOK, Scan, Active, Starting
<1>2. WriterOK'
  BY DEF JInv, WriterOK, Open, TxInv, AdmissionOK, OwnQueueOK, OwnMarksOK, DirectOK, DirectIdxOK,
         DirectCountOK, SnapOK, Direct, Active, Scan, Ready, Cleaned, Owns
<1>3. TasksOK' /\ IndexOK'
  BY DEF JInv, TasksOK, OwnerTaskOK, IndexOK, ScanOK, CompleteOK, IdxScanOK, CountScanOK, Owns,
         Open, Active, Base, BatchEntries
<1> QED BY <1>1, <1>2, <1>3

(* Only nodes that have stopped are archived.                               *)
LEMMA ArchiveJ ==
  ASSUME IInv, JInv, Careful, NEW w \in Writer, Archive(w)
  PROVE  JInv'
<1>1. UNCHANGED <<kind, table, index, catalog, bs, bg, bp, br, tx, task>>
      /\ tx[w].pc = "crashed" /\ inactive' = inactive \cup {w}
  BY DEF Archive, Careful
<1>2. InactiveOK'
  BY <1>1 DEF JInv, InactiveOK
<1> QED BY <1>1, <1>2, SameJ DEF JInv

(* A write of !bs sends a batch back to the lookup; the owner is as far as  *)
(* before, or there is none any more.                                       *)
LEMMA DirtiedTasks ==
  ASSUME IInv, JInv, task' = DirtyTask({<<"bs">>}),
         UNCHANGED <<kind, table, index, catalog, bg>>, bs'.gen = bs.gen,
         \/ bs'.phase = bs.phase /\ bs'.owner = bs.owner /\ bs'.complete = bs.complete
         \/ Active /\ bs'.phase = "Error" /\ bs'.owner = NoOwner,
         br' \subseteq br \/ Active,
         \A b \in Builder : Owns(b) /\ task[b].pc \in {"replay3", "online"} =>
                               \A w \in Writer : Open(w)' => tx'[w].gen = 0
  PROVE  StartOK' /\ TasksOK' /\ IndexOK'
<1>1. Types /\ <<"bs">> \in {<<"bs">>}
  BY DEF IInv
<1>2. \A b \in Builder :
        /\ task'[b].gen = task[b].gen
        /\ task'[b].todo = task[b].todo /\ task'[b].batch = task[b].batch
        /\ \/ task'[b].pc = task[b].pc /\ task'[b].keys = task[b].keys
           \/ task[b].pc = "index" /\ task'[b].pc = "lookup" /\ task'[b].keys = {}
        /\ task'[b].pc # "index"
  BY <1>1, DirtyTaskOK
<1>3. \A b \in Builder : Starting(b)' <=> Starting(b)
  BY <1>2 DEF Starting
<1>4. Active' => Active
  BY DEF Active
<1>5. StartOK'
  <2>1. Active => \A b \in Builder : ~Starting(b)
    BY DEF JInv, StartOK
  <2>2. \A b \in Builder : task'[b].pc = "publish" => task[b].pc = "publish"
    BY <1>2
  <2> QED BY <1>3, <1>4, <2>1, <2>2 DEF JInv, StartOK
<1>6. \A b \in Builder : Owns(b)' => /\ Owns(b) /\ bs'.phase = bs.phase /\ bs'.complete = bs.complete
  BY <1>2 DEF Owns
<1>7. TasksOK'
  <2> SUFFICES ASSUME NEW b \in Builder
               PROVE  /\ task'[b].pc # "index"
                      /\ task'[b].pc \in {"clean", "scan"} => DOMAIN task'[b].batch = {}
                      /\ Owns(b)' =>
                           /\ task'[b].pc \in {"clean", "scan", "lookup", "index"} =>
                                bs'.phase = "Building" /\ ~bs'.complete
                           /\ task'[b].pc \in {"replay3", "online"} =>
                                \A w \in Writer : Open(w)' => tx'[w].gen = 0
                           /\ task'[b].pc = "online" => bg' = {}
                           /\ task'[b].pc \in Replaying => Prefix(task'[b].keys, bg')
    BY DEF TasksOK, OwnerTaskOK
  <2>1. /\ task'[b].pc # "index"
        /\ task'[b].pc \in {"clean", "scan"} => DOMAIN task'[b].batch = {}
    BY <1>2 DEF JInv, TasksOK
  <2>2. ASSUME Owns(b)'
        PROVE  /\ task'[b].pc \in {"clean", "scan", "lookup", "index"} =>
                     bs'.phase = "Building" /\ ~bs'.complete
               /\ task'[b].pc \in {"replay3", "online"} =>
                     \A w \in Writer : Open(w)' => tx'[w].gen = 0
               /\ task'[b].pc = "online" => bg' = {}
               /\ task'[b].pc \in Replaying => Prefix(task'[b].keys, bg')
    <3>1. OwnerTaskOK(task[b]) /\ Owns(b) /\ bs'.phase = bs.phase /\ bs'.complete = bs.complete
      BY <1>6, <2>2 DEF JInv, TasksOK
    <3>2. CASE task'[b].pc = task[b].pc /\ task'[b].keys = task[b].keys
      BY <3>1, <3>2 DEF OwnerTaskOK
    <3>3. CASE task[b].pc = "index" /\ task'[b].pc = "lookup"
      BY <3>1, <3>3 DEF OwnerTaskOK, Replaying
    <3> QED BY <1>2, <3>2, <3>3
  <2> QED BY <2>1, <2>2
<1>8. IndexOK'
  <2>1. ASSUME NEW b \in Builder, Owns(b)'
        PROVE  ScanOK(task[b])'
    <3>1. ScanOK(task[b])
      BY <1>6, <2>1 DEF JInv, IndexOK
    <3>2. /\ task'[b].pc \in {"scan", "lookup", "index"} => task[b].pc \in {"scan", "lookup", "index"}
          /\ task'[b].pc # "index"
          /\ task'[b].todo = task[b].todo /\ task'[b].batch = task[b].batch
      BY <1>2
    <3> QED BY <3>1, <3>2 DEF ScanOK, IdxScanOK, CountScanOK, Base
  <2>2. Active' /\ bs'.complete => CompleteOK'
    <3>1. Active' => bs'.phase = bs.phase /\ bs'.complete = bs.complete
      BY DEF Active
    <3> QED BY <1>4, <3>1 DEF JInv, IndexOK, CompleteOK, Base
  <2>3. bs'.phase = "Online" \/ (bs'.phase = "none" /\ catalog' = "defined") =>
           index' = Entries(table')
    <3>1. bs'.phase \in {"Online", "none"} => bs'.phase = bs.phase
      OBVIOUS
    <3>2. bs'.phase = "Online" \/ (bs'.phase = "none" /\ catalog' = "defined") =>
             index = Entries(table)
      BY <3>1 DEF JInv, IndexOK
    <3> QED BY <3>2 DEF Entries
  <2> QED BY <2>1, <2>2, <2>3 DEF IndexOK, Entries
<1> QED BY <1>5, <1>7, <1>8

(* A commit of others makes no index a cleaned one.                         *)
LEMMA DirtiedCleaned ==
  ASSUME Types, NEW keys, task' = DirtyTask(keys), bs'.gen = bs.gen,
         \/ bs'.phase = bs.phase /\ bs'.owner = bs.owner /\ bs'.complete = bs.complete
         \/ bs'.phase = "Error"
  PROVE  Cleaned' => Cleaned
<1>1. \A b \in Builder :
        /\ task'[b].gen = task[b].gen
        /\ \/ task'[b].pc = task[b].pc
           \/ task[b].pc = "index" /\ task'[b].pc = "lookup"
  BY DirtyTaskOK
<1> QED BY <1>1 DEF Cleaned, Active, Owns

(* What holds of the next transaction holds of the variable.                *)
LEMMA TxInvPrimed ==
  ASSUME NEW w, NEW u, tx'[w] = u, TxInv(u, w)'
  PROVE  TxInv(tx[w], w)'
BY DEF TxInv, AdmissionOK, OwnQueueOK, OwnMarksOK, DirectOK, DirectIdxOK, DirectCountOK, SnapOK,
       Direct

(* The ticket of a reservation is new.                                      *)
LEMMA ReserveJ ==
  ASSUME IInv, IInv', JInv, NEW w \in Writer, Reserve(w)
  PROVE  JInv'
<1>1. PICK t : t = tx[w]
  OBVIOUS
<1>2. /\ TxOK(t) /\ t \in TxType /\ Types /\ StateOK /\ Types' /\ StateOK'
  BY <1>1 DEF IInv, Types, TxOK, TxCore
<1>3. /\ t.pc = "open" /\ t.sees = TRUE /\ t.gen = 0 /\ Open(w)
      /\ UNCHANGED <<kind, table, index, catalog, bg, bp, runs, inactive>>
  BY <1>1, <1>2 DEF Reserve, TxType, Open
<1>4. TxInv(t, w)
  BY <1>1, <1>3 DEF JInv, WriterOK
<1>5. t.queue = {} /\ t.marks = {}
  BY <1>2, <1>3 DEF TxOK, TxCore
<1>6. CASE bs.phase = "Error" /\ tx' = [tx EXCEPT ![w] = IdleTx] /\ UNCHANGED <<bs, br, task>>
  <2>1. PICK u : u = IdleTx
    OBVIOUS
  <2>2. TxOK(u) /\ u.pc = "idle" /\ u.gen = 0
    BY <2>1, IdleOK DEF IdleTx
  <2> QED BY <1>1, <1>3, <1>6, <2>1, <2>2, OwnStep
<1>7. CASE bs.phase # "Error"
  <2>1. PICK u, n, g : u = Fenced(t) /\ n = bs.ticket /\ g = bs.gen
    OBVIOUS
  <2>2. /\ bs.phase = "Building" /\ bs.ticket <= MaxTicket
        /\ bs' = [bs EXCEPT !.ticket = @ + 1]
        /\ br' = br \cup {[gen |-> g, ticket |-> n, node |-> w]}
        /\ tx' = [tx EXCEPT ![w] = u]
        /\ task' = DirtyTask({<<"bs">>})
    BY <1>1, <1>7, <2>1 DEF Reserve, Fenced
  <2>3. /\ u \in TxType /\ u.pc = "fence" /\ u.sees = t.sees /\ u.gen = g
        /\ u.ticket = n /\ u.complete = bs.complete /\ u.dirty = t.dirty
        /\ u.writes = t.writes /\ u.queue = t.queue /\ u.marks = t.marks
        /\ u.put = t.put /\ u.del = t.del /\ u.opened = t.opened /\ u.snap = t.snap
    BY <1>2, <2>1, <2>2, FencedFields
  <2>4. /\ bs'.gen = g /\ bs'.phase = bs.phase /\ bs'.owner = bs.owner
        /\ bs'.complete = bs.complete /\ bs'.ticket = n + 1 /\ n \in Nat /\ g \in Nat /\ g > 0
    BY <1>2, <2>1, <2>2 DEF StateOK, StateType
  <2>5. /\ tx'[w] = u /\ \A c \in Writer : c # w => tx'[c] = tx[c]
    BY <1>2, <2>2 DEF Types
  <2>6. QuietWorld /\ Active /\ Active'
    <3>1. Cleaned' => Cleaned
      BY <1>2, <2>1, <2>2, <2>4, DirtiedCleaned
    <3>2. bs.ticket <= bs'.ticket
      BY <2>1, <2>4
    <3> QED BY <1>3, <2>1, <2>2, <2>4, <3>1, <3>2 DEF QuietWorld, Active, Ready
  <2>7. TxInv(t, w)'
    <3>1. \A x \in br : x.node = w /\ x.gen = t.gen /\ x.ticket = t.ticket /\ t.gen > 0 => x \in br'
      BY <2>2
    <3> QED BY <1>2, <1>4, <2>6, <3>1, QuietTx
  <2>8. \A a \in bg : a.ticket < n /\ a.ticket # n
    BY <1>2, <2>1 DEF JInv, QueueOK, Types, Appending
  <2>9. AdmissionOK(u, w)'
    <3>1. /\ u.sees <=> catalog' = "defined"
          /\ catalog' # "open" /\ u.opened < bs'.gen
          /\ \A h \in 1..MaxRuns, q \in Rec : <<"bp", h, q>> \in u.dirty => h <= bs'.gen
      BY <2>3, <2>6, <2>7 DEF TxInv, AdmissionOK
    <3>2. u.opened <= bs'.gen
      BY <1>2, <2>3, <2>4, <3>1 DEF TxType
    <3>3. u.gen = bs'.gen /\ u.ticket < bs'.ticket /\ bs'.phase # "Online" /\ (u.complete => bs'.complete)
      BY <2>2, <2>3, <2>4
    <3>4. [gen |-> u.gen, ticket |-> u.ticket, node |-> w] \in br'
      BY <2>2, <2>3
    <3>5. /\ \A a \in bg' : a.ticket # u.ticket
          /\ \A a \in bg' : a.ticket < u.ticket \/ <<a.rec>> \in u.dirty
      BY <1>3, <2>3, <2>8
    <3> QED BY <3>1, <3>2, <3>3, <3>4, <3>5 DEF AdmissionOK
  <2>10. OwnQueueOK(u)
    <3>1. \A r \in DOMAIN u.writes : <<r>> \notin u.dirty
      BY <1>4, <2>3 DEF TxInv, OwnQueueOK
    <3> QED BY <1>5, <2>3, <3>1, EmptyChain DEF OwnQueueOK
  <2>11. OwnMarksOK(u)'
    BY <1>5, <2>3, <2>7 DEF TxInv, OwnMarksOK
  <2>12. DirectOK(u)' /\ DirectIdxOK(u)'
    BY <2>3, <2>7 DEF TxInv, DirectOK, DirectIdxOK, Direct
  <2>13. DirectCountOK(u)' /\ SnapOK(u)'
    BY <2>3, <2>7 DEF TxInv, DirectCountOK, SnapOK
  <2>14. TxInv(u, w)'
    BY <2>9, <2>10, <2>11, <2>12, <2>13 DEF TxInv
  <2>15. WriterOK'
    <3>1. TxInv(tx[w], w)'
      BY <2>5, <2>14, TxInvPrimed
    <3>2. \A c \in Writer : c # w => tx'[c] = tx[c] /\ \A x \in br : x \in br'
      BY <2>2, <2>5
    <3> QED BY <1>2, <2>6, <3>1, <3>2, QuietWriters DEF JInv
  <2>16. QueueOK'
    <3>1. /\ Chain(bg', table') /\ (\A m \in bp' : m.gen = bs'.gen) /\ bs'.phase # "Online"
      BY <1>3, <2>1, <2>2, <2>4 DEF JInv, QueueOK
    <3>2. \A a \in bg' : a.gen = bs'.gen /\ a.ticket < bs'.ticket
      BY <1>2, <1>3, <2>1, <2>4, <2>8 DEF JInv, QueueOK, Types, Appending
    <3>3. \A x \in br : x.gen = g /\ x.ticket < n /\ x.ticket \in Int
      BY <1>2, <2>1 DEF JInv, QueueOK, Types, Reservation
    <3>4. \A x \in br' : x \in br \/ (x.gen = g /\ x.ticket = n /\ x.node = w)
      BY <2>2
    <3>5. \A x \in br' : x.gen = bs'.gen /\ x.ticket < bs'.ticket
      BY <2>4, <3>3, <3>4
    <3>6. ASSUME NEW x \in br', NEW y \in br', x.ticket = y.ticket PROVE x = y
      <4>1. CASE x \in br /\ y \in br
        BY <3>6, <4>1 DEF JInv, QueueOK
      <4>2. CASE x \notin br \/ y \notin br
        <5>1. x = [gen |-> g, ticket |-> n, node |-> w] /\ y = [gen |-> g, ticket |-> n, node |-> w]
          BY <2>2, <2>4, <3>3, <3>4, <3>6, <4>2
        <5> QED BY <5>1
      <4> QED BY <4>1, <4>2
    <3> QED BY <3>1, <3>2, <3>5, <3>6 DEF QueueOK
  <2>17. MarksOK'
    BY <1>3, <2>1, <2>4, <2>6 DEF JInv, MarksOK, Scan
  <2>18. TicketsOK'
    <3>1. \A c \in Writer : tx[c].gen \in Nat /\ tx[c].ticket \in Nat /\ tx[c].gen <= g
      BY <1>2, <2>1 DEF JInv, TicketsOK, Types, TxType
    <3>2. \A c \in Writer : tx[c].gen = g => tx[c].ticket < n
      BY <2>1, <2>4 DEF JInv, TicketsOK
    <3>3. \A c, d \in Writer : c # d /\ tx[c].gen = g /\ tx[d].gen = g => tx[c].ticket # tx[d].ticket
      BY <2>1, <2>4 DEF JInv, TicketsOK
    <3>4. ASSUME NEW c \in Writer
          PROVE  /\ tx'[c].gen <= bs'.gen
                 /\ tx'[c].gen = bs'.gen /\ bs'.gen > 0 =>
                      /\ tx'[c].ticket < bs'.ticket
                      /\ \A d \in Writer : d # c /\ tx'[d].gen = bs'.gen => tx'[d].ticket # tx'[c].ticket
      BY <2>3, <2>4, <2>5, <3>1, <3>2, <3>3
    <3> QED BY <3>4 DEF TicketsOK
  <2>19. InactiveOK'
    BY <1>1, <1>3, <2>5, <1>2 DEF JInv, InactiveOK, Types
  <2>20. StartOK' /\ TasksOK' /\ IndexOK'
    <3>1. \A b \in Builder : Owns(b) => task[b].pc \notin {"replay3", "online"}
      BY <2>2 DEF IInv, OwnerOK
    <3>2. UNCHANGED <<kind, table, index, catalog, bg>> /\ bs'.gen = bs.gen
          /\ bs'.phase = bs.phase /\ bs'.owner = bs.owner /\ bs'.complete = bs.complete
      BY <1>3, <2>1, <2>4
    <3> QED BY <2>2, <2>6, <3>1, <3>2, DirtiedTasks
  <2> QED BY <2>15, <2>16, <2>17, <2>18, <2>19, <2>20 DEF JInv
<1> QED BY <1>1, <1>6, <1>7 DEF Reserve

(* A reservation that cannot be released fails the build.                   *)
LEMMA ReleaseFailsJ ==
  ASSUME IInv, IInv', JInv, NEW w \in Writer, ReleaseFails(w)
  PROVE  JInv'
<1>1. PICK u : u = IdleTx
  OBVIOUS
<1>2. TxOK(u) /\ u.pc = "idle" /\ u.gen = 0
  BY <1>1, IdleOK DEF IdleTx
<1>3. /\ tx[w].pc = "release" /\ tx' = [tx EXCEPT ![w] = u]
      /\ UNCHANGED <<kind, table, index, catalog, bg, bp, br, runs, inactive>>
      /\ Types /\ StateOK /\ Types' /\ StateOK'
  BY <1>1 DEF ReleaseFails, IInv
<1>4. CASE UNCHANGED <<bs, task>>
  BY <1>2, <1>3, <1>4, OwnStep
<1>5. CASE Active /\ bs' = Failed(bs) /\ task' = DirtyTask({<<"bs">>})
  <2>1. /\ bs'.gen = bs.gen /\ bs'.phase = "Error" /\ bs'.owner = NoOwner
        /\ bs'.ticket = bs.ticket /\ bs'.complete = bs.complete /\ bs.ticket \in Nat
    BY <1>3, <1>5, FailedState DEF StateOK, StateType
  <2>2. /\ tx'[w] = u /\ \A c \in Writer : c # w => tx'[c] = tx[c]
    BY <1>3 DEF Types
  <2>3. QuietWorld /\ ~Active'
    <3>1. Cleaned' => Cleaned
      BY <1>3, <1>5, <2>1, DirtiedCleaned
    <3> QED BY <1>3, <1>5, <2>1, <3>1 DEF QuietWorld, Active, Ready
  <2>4. ~Open(w)'
    BY <1>2, <2>2 DEF Open
  <2>5. WriterOK'
    BY <1>3, <2>2, <2>3, <2>4, QuietWriters DEF JInv
  <2>6. QueueOK' /\ MarksOK'
    BY <1>3, <2>1, <2>3 DEF JInv, QueueOK, MarksOK, Scan
  <2>7. TicketsOK'
    <3>1. \A c \in Writer :
            tx'[c].gen = 0 \/ (tx'[c].gen = tx[c].gen /\ tx'[c].ticket = tx[c].ticket)
      BY <1>2, <2>2
    <3>2. bs'.gen = bs.gen /\ bs.ticket <= bs'.ticket
      BY <2>1
    <3> QED BY <1>3, <3>1, <3>2, TicketsFrame DEF JInv
  <2>8. InactiveOK'
    BY <1>3, <2>2 DEF JInv, InactiveOK, Types
  <2>9. StartOK' /\ TasksOK' /\ IndexOK'
    <3>1. \A b \in Builder : Owns(b) /\ task[b].pc \in {"replay3", "online"} =>
             \A c \in Writer : Open(c)' => tx'[c].gen = 0
      <4>1. \A c \in Writer : Open(c)' => Open(c) /\ tx'[c] = tx[c]
        BY <2>2, <2>4 DEF Open
      <4> QED BY <4>1 DEF JInv, TasksOK, OwnerTaskOK
    <3> QED BY <1>3, <1>5, <2>1, <3>1, DirtiedTasks
  <2> QED BY <2>5, <2>6, <2>7, <2>8, <2>9 DEF JInv
<1> QED BY <1>4, <1>5 DEF ReleaseFails

----------------------------------------------------------------------------
(* Builder tasks. *)

(* A step of one task that leaves the transactions, the queues and the      *)
(* index alone.                                                             *)
LEMMA OneTaskStep ==
  ASSUME IInv, IInv', JInv, NEW b \in Builder, NEW u, task' = [task EXCEPT ![b] = u], WriterOK',
         UNCHANGED <<kind, table, index, bg, bp, tx, inactive>>,
         catalog' = "defined" => catalog = "defined",
         br' \subseteq br, bs'.gen = bs.gen, bs.ticket <= bs'.ticket, Active' => Active,
         bs'.phase = "Online" => bs.phase = "Online", bs.complete => bs'.complete,
         bs' = bs \/ (Owns(b) /\ bs'.owner \in {b, NoOwner}),
         u.pc \in {"drain", "publish"} => /\ ~Active' /\ \A c \in Builder : c # b => ~Starting(c)
                                          /\ u.pc = "publish" => br' = {},
         u.pc = "index" => Owns(b)',
         u.pc \in {"clean", "scan"} => DOMAIN u.batch = {},
         Owns(b)' => OwnerTaskOK(u)' /\ ScanOK(u)',
         Active' /\ bs'.complete => CompleteOK'
  PROVE  JInv'
<1>1. /\ Types /\ StateOK /\ Types' /\ StateOK'
      /\ task'[b] = u /\ \A c \in Builder : c # b => task'[c] = task[c]
  BY DEF IInv, Types
<1>2. bs.ticket \in Nat /\ bs'.ticket \in Nat
  BY <1>1 DEF StateOK, StateType
<1>3. QueueOK' /\ MarksOK'
  <2>1. \A a \in bg : a.ticket < bs'.ticket
    BY <1>1, <1>2 DEF JInv, QueueOK, Types, Appending
  <2>2. \A x \in br : x.ticket < bs'.ticket
    BY <1>1, <1>2 DEF JInv, QueueOK, Types, Reservation
  <2>3. QueueOK'
    BY <2>1, <2>2 DEF JInv, QueueOK
  <2> QED BY <2>3 DEF JInv, MarksOK, Scan
<1>4. TicketsOK'
  BY <1>1, TicketsFrame DEF JInv
<1>5. InactiveOK'
  BY DEF JInv, InactiveOK
<1>6. StartOK'
  <2> SUFFICES ASSUME NEW c \in Builder, Starting(c)'
               PROVE  /\ ~Active' /\ \A d \in Builder : Starting(d)' => d = c
                      /\ task'[c].pc = "publish" => br' = {}
    BY DEF StartOK
  <2>1. \A d \in Builder : d # b => (Starting(d)' <=> Starting(d))
    BY <1>1 DEF Starting
  <2>2. CASE c = b
    BY <1>1, <2>1, <2>2 DEF Starting
  <2>3. CASE c # b
    <3>1. Starting(c) /\ task'[c].pc = task[c].pc
      BY <1>1, <2>1, <2>3
    <3>2. u.pc \notin {"drain", "publish"}
      BY <2>3, <3>1
    <3>3. ~Starting(b)'
      BY <1>1, <3>2 DEF Starting
    <3> QED BY <2>1, <3>1, <3>3 DEF JInv, StartOK
  <2> QED BY <2>2, <2>3
<1>7. ASSUME NEW c \in Builder, c # b
      PROVE  /\ Owns(c)' => Owns(c) /\ bs' = bs
             /\ Owns(c) => bs' = bs /\ Owns(c)'
  BY <1>1, <1>7 DEF Owns
<1>8. TasksOK'
  <2> SUFFICES ASSUME NEW c \in Builder
               PROVE  /\ task'[c].pc = "index" => Owns(c)'
                      /\ task'[c].pc \in {"clean", "scan"} => DOMAIN task'[c].batch = {}
                      /\ Owns(c)' => OwnerTaskOK(task[c])'
    BY DEF TasksOK
  <2>1. CASE c = b
    BY <1>1, <2>1 DEF OwnerTaskOK
  <2>2. CASE c # b
    <3>1. /\ task'[c].pc = "index" => Owns(c)'
          /\ task'[c].pc \in {"clean", "scan"} => DOMAIN task'[c].batch = {}
      BY <1>1, <1>7, <2>2 DEF JInv, TasksOK
    <3>2. ASSUME Owns(c)' PROVE OwnerTaskOK(task[c])'
      <4>1. OwnerTaskOK(task[c]) /\ bs' = bs /\ task'[c] = task[c]
        BY <1>1, <1>7, <2>2, <3>2 DEF JInv, TasksOK
      <4> QED BY <4>1 DEF OwnerTaskOK, Open
    <3> QED BY <3>1, <3>2
  <2> QED BY <2>1, <2>2
<1>9. IndexOK'
  <2>1. ASSUME NEW c \in Builder, Owns(c)' PROVE ScanOK(task[c])'
    <3>1. CASE c = b
      BY <1>1, <2>1, <3>1 DEF ScanOK, IdxScanOK, CountScanOK, BatchEntries
    <3>2. CASE c # b
      <4>1. ScanOK(task[c]) /\ task'[c] = task[c]
        BY <1>1, <1>7, <2>1, <3>2 DEF JInv, IndexOK
      <4> QED BY <4>1 DEF ScanOK, IdxScanOK, CountScanOK, BatchEntries, Base
    <3> QED BY <3>1, <3>2
  <2>2. bs'.phase = "Online" \/ (bs'.phase = "none" /\ catalog' = "defined") =>
           index' = Entries(table')
    <3>1. bs'.phase = "none" => bs.phase = "none"
      BY <1>1 DEF StateOK
    <3>2. bs'.phase = "Online" \/ (bs'.phase = "none" /\ catalog' = "defined") =>
             index = Entries(table)
      BY <3>1 DEF JInv, IndexOK
    <3> QED BY <3>2 DEF Entries
  <2> QED BY <2>1, <2>2 DEF IndexOK, Entries
<1> QED BY <1>3, <1>4, <1>5, <1>6, <1>8, <1>9 DEF JInv

(* A step of one task that changes neither table nor index keeps the        *)
(* invariant if the task's own view is right.                               *)
LEMMA OneTaskWorld ==
  ASSUME IInv, IInv', JInv, NEW b \in Builder, NEW u, task' = [task EXCEPT ![b] = u], QuietWorld,
         UNCHANGED <<tx, inactive>>,
         br' \subseteq br, \A x \in br : x \in br' \/ ~Open(x.node) \/ tx[x.node].gen = 0
                                          \/ tx[x.node].ticket # x.ticket,
         bs' = bs \/ (Owns(b) /\ bs'.owner \in {b, NoOwner}),
         u.pc \in {"drain", "publish"} => /\ ~Active' /\ \A c \in Builder : c # b => ~Starting(c)
                                          /\ u.pc = "publish" => br' = {},
         u.pc = "index" => Owns(b)',
         u.pc \in {"clean", "scan"} => DOMAIN u.batch = {},
         Owns(b)' => OwnerTaskOK(u)' /\ ScanOK(u)',
         Active' /\ bs'.complete => CompleteOK'
  PROVE  JInv'
<1>1. WriterOK'
  <2>1. ASSUME NEW w \in Writer
        PROVE  /\ tx'[w] = tx[w]
               /\ Open(w) /\ tx[w].gen > 0 =>
                    \A x \in br : x.node = w /\ x.gen = tx[w].gen /\ x.ticket = tx[w].ticket
                                     => x \in br'
    OBVIOUS
  <2>2. Types /\ StateOK /\ StateOK' /\ WriterOK
    BY DEF IInv, JInv
  <2> QED BY <2>1, <2>2, QuietWriters
<1> QED BY <1>1, OneTaskStep DEF QuietWorld

(* !bs is not written, and the task begins no scan.                         *)
LEMMA QuietTask ==
  ASSUME IInv, NEW b \in Builder, NEW u, task' = [task EXCEPT ![b] = u],
         UNCHANGED <<kind, table, index, catalog, bs, bg, bp>>,
         u.pc \in {"scan", "lookup", "index"} =>
            u.gen = task[b].gen /\ task[b].pc \in {"scan", "lookup", "index"}
  PROVE  QuietWorld
<1>1. /\ task'[b] = u /\ \A c \in Builder : c # b => task'[c] = task[c]
  BY DEF IInv, Types
<1>2. Cleaned' => Cleaned
  BY <1>1 DEF Cleaned, Active, Owns
<1>3. bs.ticket <= bs'.ticket
  BY DEF IInv, StateOK, StateType
<1> QED BY <1>2, <1>3 DEF QuietWorld, Active, Ready

(* The index of the bases stays so while table, queue and index do.         *)
LEMMA CompleteFrame ==
  ASSUME JInv, UNCHANGED <<kind, table, index, bg>>, Active, bs.complete
  PROVE  CompleteOK'
BY DEF JInv, IndexOK, CompleteOK, Base

(* A build with an owner is active.                                         *)
LEMMA OwnerActive ==
  ASSUME IInv, IInv', NEW b \in Builder
  PROVE  /\ Owns(b) => Active /\ bs.gen > 0
         /\ Owns(b)' => Active'
  BY OwnedActive DEF IInv, StateOK, Owns

(* A task that asks for the build is the only one, or finds a build that is *)
(* active.                                                                  *)
LEMMA AcquireJ ==
  ASSUME IInv, IInv', JInv, Careful, NEW b \in Builder, Acquire(b)
  PROVE  JInv'
<1>1. PICK t, u : t = task[b] /\ u = AtPc(t, "drain")
  OBVIOUS
<1>2. /\ ~Active /\ \A c \in Builder : ~Starting(c)
      /\ task' = [task EXCEPT ![b] = u]
      /\ UNCHANGED <<kind, table, index, bs, bg, bp, br, tx, runs, inactive>>
  BY <1>1 DEF Acquire, Careful, AtPc
<1>3. u.pc = "drain"
  BY <1>1, AtPcFields DEF IInv, Types, TaskPc
<1>4. ~Active' /\ ~Owns(b)'
  BY <1>2, OwnerActive DEF Active
<1>5. CASE UNCHANGED catalog
  <2>1. QuietWorld
    BY <1>2, <1>3, <1>5, QuietTask
  <2> QED BY <1>2, <1>3, <1>4, <2>1, OneTaskWorld
<1>6. CASE catalog' = "open" /\ \A w \in Writer : ~Open(w)
  <2>1. WriterOK'
    BY <1>2, <1>6 DEF WriterOK, Open
  <2>2. bs.ticket <= bs'.ticket
    BY <1>2 DEF IInv, StateOK, StateType
  <2> QED BY <1>2, <1>3, <1>4, <1>6, <2>1, <2>2, OneTaskStep
<1> QED BY <1>5, <1>6 DEF Acquire, Careful

(* The reservation of an open transaction is not retired: it has committed  *)
(* nothing, and its node runs.                                              *)
LEMMA RetirableOver ==
  ASSUME IInv, JInv, NEW x \in br, Retirable(x)
  PROVE  ~Open(x.node) \/ tx[x.node].gen = 0 \/ tx[x.node].ticket # x.ticket
<1> SUFFICES ASSUME Open(x.node), tx[x.node].gen # 0, tx[x.node].ticket = x.ticket
             PROVE  FALSE
  OBVIOUS
<1>1. PICK w \in Writer : w = x.node
  BY DEF IInv, Types, Reservation
<1>2. PICK t : t = tx[w]
  OBVIOUS
<1>3. TxInv(t, w) /\ t.gen > 0
  BY <1>1, <1>2 DEF JInv, WriterOK, IInv, Types, TxType
<1>4. \A a \in bg : a.ticket # x.ticket
  BY <1>1, <1>2, <1>3 DEF TxInv, AdmissionOK
<1>5. w \notin inactive
  BY <1>1 DEF JInv, InactiveOK, Open
<1> QED BY <1>1, <1>4, <1>5 DEF Retirable

(* It goes on when no reservation is left.                                  *)
LEMMA DrainPriorJ ==
  ASSUME IInv, IInv', JInv, NEW b \in Builder, DrainPrior(b)
  PROVE  JInv'
<1>1. PICK t : t = task[b]
  OBVIOUS
<1>2. /\ t.pc = "drain" /\ TaskOK(t) /\ t \in TaskType
      /\ UNCHANGED <<kind, table, index, catalog, bs, bg, bp, tx, runs, inactive>>
  BY <1>1 DEF DrainPrior, IInv, Types, TaskOK
<1>3. ~Active /\ \A c \in Builder : c # b => ~Starting(c)
  BY <1>1, <1>2 DEF JInv, StartOK, Starting
<1>4. ~Active' /\ ~Owns(b)'
  BY <1>2, <1>3, OwnerActive DEF Active
<1>5. CASE br = {} /\ task' = [task EXCEPT ![b].pc = "publish"] /\ UNCHANGED br
  <2>1. PICK u : u = AtPc(t, "publish")
    OBVIOUS
  <2>2. u.pc = "publish" /\ task' = [task EXCEPT ![b] = u]
    BY <1>1, <1>2, <1>5, <2>1, AtPcFields DEF TaskPc, AtPc
  <2>3. QuietWorld
    BY <1>2, <2>2, QuietTask
  <2> QED BY <1>2, <1>3, <1>4, <1>5, <2>2, <2>3, OneTaskWorld
<1>6. CASE br' = {x \in br : ~Retirable(x)} /\ UNCHANGED task
  <2>1. task' = [task EXCEPT ![b] = t]
    BY <1>1, <1>6 DEF IInv, Types
  <2>2. QuietWorld
    BY <1>2, <2>1, QuietTask
  <2>3. br' \subseteq br /\ \A x \in br : x \in br' \/ ~Open(x.node) \/ tx[x.node].gen = 0
                                          \/ tx[x.node].ticket # x.ticket
    BY <1>6, RetirableOver
  <2> QED BY <1>2, <1>3, <1>4, <2>1, <2>2, <2>3, OneTaskWorld
<1> QED BY <1>5, <1>6 DEF DrainPrior

(* A task that stops leaves the queue as it is.                             *)
LEMMA StopJ ==
  ASSUME IInv, IInv', JInv, NEW b \in Builder, Stop(b)
  PROVE  JInv'
<1>1. PICK u : u = IdleTask
  OBVIOUS
<1>2. /\ u.pc = "idle" /\ task' = [task EXCEPT ![b] = u] /\ u.gen = 0
      /\ UNCHANGED <<kind, table, index, catalog, bg, bp, br, tx, runs, inactive>>
  BY <1>1 DEF Stop, IdleTask
<1>3. ~Owns(b)'
  <2>1. task'[b] = u
    BY <1>2 DEF IInv, Types
  <2>2. Owns(b)' => bs'.gen = 0 /\ bs'.owner # NoOwner
    BY <1>2, <2>1 DEF Owns
  <2> QED BY <2>2 DEF IInv, StateOK, NoState
<1>4. CASE UNCHANGED bs
  <2>1. QuietWorld
    BY <1>2, <1>4, QuietTask
  <2>2. Active' /\ bs'.complete => CompleteOK'
    BY <1>2, <1>4, CompleteFrame DEF Active
  <2> QED BY <1>2, <1>3, <1>4, <2>1, <2>2, OneTaskWorld
<1>5. CASE Owns(b) /\ bs' = Failed(bs)
  <2>1. Active /\ StateOK
    BY <1>5, OwnerActive DEF IInv
  <2>2. /\ bs'.gen = bs.gen /\ bs'.phase = "Error" /\ bs'.owner = NoOwner
        /\ bs'.ticket = bs.ticket /\ bs'.complete = bs.complete /\ bs.ticket \in Nat
    BY <1>5, <2>1, FailedState DEF StateOK, StateType
  <2>3. QuietWorld /\ ~Active'
    BY <1>2, <2>1, <2>2 DEF QuietWorld, Active, Ready, Cleaned
  <2> QED BY <1>2, <1>3, <1>5, <2>2, <2>3, OneTaskWorld
<1> QED BY <1>4, <1>5 DEF Stop

(* Nothing is a prefix of every queue.                                      *)
LEMMA EmptyPrefix == ASSUME NEW Q PROVE Prefix({}, Q)
BY DEF Prefix

(* What a task reads of the queue is a prefix of it.                        *)
LEMMA ReadQueueJ ==
  ASSUME IInv, IInv', JInv, NEW b \in Builder, ReadQueue(b)
  PROVE  JInv'
<1>1. PICK t : t = task[b]
  OBVIOUS
<1>2. /\ t.pc \in Replaying /\ t.keys = {} /\ Owns(b) /\ TaskOK(t) /\ t \in TaskType
      /\ UNCHANGED <<kind, table, index, catalog, bs, bg, bp, br, tx, runs, inactive>>
  BY <1>1 DEF ReadQueue, IInv, Types, TaskOK, Replaying
<1>3. Active /\ bs.complete /\ Active' /\ bs'.complete /\ CompleteOK' /\ OwnerTaskOK(t)
  <2>1. Active /\ bs.complete
    BY <1>1, <1>2, OwnerActive DEF IInv, OwnerOK
  <2> QED BY <1>1, <1>2, <2>1, CompleteFrame DEF Active, JInv, TasksOK
<1>4. {a \in bg : a.gen = t.gen} = bg
  BY <1>1, <1>2 DEF JInv, QueueOK, Owns
<1>5. CASE bg = {} /\ task' = [task EXCEPT ![b].pc = AfterReplay(t)]
  <2>1. PICK p : p = AfterReplay(t)
    OBVIOUS
  <2>2. /\ p \in {"replay2", "closing", "wait", "online"}
        /\ p = "online" => t.pc = "replay3"
    BY <1>2, <2>1 DEF AfterReplay, Replaying
  <2>3. PICK u : u = AtPc(t, p)
    OBVIOUS
  <2>4. task' = [task EXCEPT ![b] = u] /\ u.pc = p /\ u.keys = {}
    <3>1. p \in TaskPc
      BY <2>2 DEF TaskPc
    <3>2. u.pc = p /\ u.keys = {}
      BY <1>2, <2>3, <3>1, AtPcFields
    <3> QED BY <1>1, <1>5, <2>1, <2>3, <3>2 DEF AtPc
  <2>5. QuietWorld
    BY <1>2, <2>2, <2>4, QuietTask
  <2>6. OwnerTaskOK(u)'
    <3>1. p = "online" => \A w \in Writer : Open(w) => tx[w].gen = 0
      BY <1>3, <2>2 DEF OwnerTaskOK
    <3> QED BY <1>2, <1>5, <2>2, <2>4, <3>1, EmptyPrefix DEF OwnerTaskOK, Open, Replaying
  <2>7. ScanOK(u)'
    BY <2>2, <2>4 DEF ScanOK
  <2> QED BY <1>2, <1>3, <2>2, <2>4, <2>5, <2>6, <2>7, OneTaskWorld
<1>6. ASSUME NEW c \in bg, task' = [task EXCEPT ![b].keys = {a \in bg : ~Before(c, a)}]
      PROVE  JInv'
  <2>1. PICK K, u : K = {a \in bg : ~Before(c, a)} /\ u = HavingKeys(t, K)
    OBVIOUS
  <2>2. K \in SUBSET Appending /\ bg \in SUBSET Appending
    BY <2>1 DEF IInv, Types
  <2>3. task' = [task EXCEPT ![b] = u] /\ u.pc = t.pc /\ u.keys = K
    BY <1>1, <1>2, <1>6, <2>1, <2>2, HavingKeysFields DEF HavingKeys
  <2>4. QuietWorld
    BY <1>2, <2>3, QuietTask DEF Replaying
  <2>5. Prefix(K, bg)
    BY <2>1, <2>2, Order DEF Prefix
  <2>6. OwnerTaskOK(u)'
    BY <1>2, <1>3, <2>3, <2>5 DEF OwnerTaskOK, Open, Replaying
  <2>7. ScanOK(u)' /\ u.pc \notin {"drain", "publish", "index", "clean", "scan"}
    BY <1>2, <2>3 DEF ScanOK, Replaying
  <2> QED BY <1>2, <1>3, <2>3, <2>4, <2>6, <2>7, OneTaskWorld
<1>7. \/ bg = {} /\ task' = [task EXCEPT ![b].pc = AfterReplay(t)]
      \/ \E c \in bg : task' = [task EXCEPT ![b].keys = {a \in bg : ~Before(c, a)}]
  <2>1. \/ {a \in bg : a.gen = t.gen} = {} /\ task' = [task EXCEPT ![b].pc = AfterReplay(t)]
        \/ \E c \in {a \in bg : a.gen = t.gen} :
              task' = [task EXCEPT ![b].keys = {a \in {a \in bg : a.gen = t.gen} : ~Before(c, a)}]
    BY <1>1 DEF ReadQueue
  <2> QED BY <1>4, <2>1
<1> QED BY <1>5, <1>6, <1>7

(* Closing the queue refuses new tickets and touches nothing queued.        *)
LEMMA MarkClosingJ ==
  ASSUME IInv, IInv', JInv, NEW b \in Builder, MarkClosing(b)
  PROVE  JInv'
<1>1. PICK t, u : t = task[b] /\ u = AtPc(t, "replay2")
  OBVIOUS
<1>2. /\ t.pc = "closing" /\ Owns(b) /\ TaskOK(t) /\ t \in TaskType /\ StateOK
      /\ bs' = [bs EXCEPT !.phase = "Closing"] /\ task' = [task EXCEPT ![b] = u]
      /\ UNCHANGED <<kind, table, index, catalog, bg, bp, br, tx, runs, inactive>>
  BY <1>1 DEF MarkClosing, IInv, Types, TaskOK, AtPc
<1>3. u.pc = "replay2" /\ u.keys = {} /\ u.gen = t.gen
  <2>1. "replay2" \in TaskPc /\ t.keys = {}
    BY <1>2 DEF TaskPc, TaskOK, Replaying
  <2> QED BY <1>1, <1>2, <2>1, AtPcFields
<1>4. /\ bs'.gen = bs.gen /\ bs'.phase = "Closing" /\ bs'.owner = b
      /\ bs'.complete = bs.complete /\ bs'.ticket = bs.ticket /\ bs.ticket \in Nat
  BY <1>2 DEF StateOK, StateType, Owns
<1>5. Active /\ bs.complete /\ Active' /\ bs'.complete /\ CompleteOK'
  <2>1. Active /\ bs.complete
    BY <1>1, <1>2, OwnerActive DEF IInv, OwnerOK
  <2> QED BY <1>2, <1>4, <2>1, CompleteFrame DEF Active
<1>6. QuietWorld
  BY <1>2, <1>4, <1>5 DEF QuietWorld, Active, Ready, Cleaned
<1>7. OwnerTaskOK(u)' /\ ScanOK(u)'
  BY <1>3, EmptyPrefix DEF OwnerTaskOK, ScanOK
<1> QED BY <1>2, <1>3, <1>4, <1>5, <1>6, <1>7, OneTaskWorld

(* When no reservation is left, no open transaction can queue any more.     *)
LEMMA NoneHeld ==
  ASSUME IInv, JInv, NEW w \in Writer, Open(w), tx[w].gen # 0
  PROVE  /\ tx[w].gen = bs.gen
         /\ \E x \in br : x.gen = bs.gen
<1>1. PICK t : t = tx[w]
  OBVIOUS
<1>2. TxInv(t, w) /\ t.gen > 0
  BY <1>1 DEF JInv, WriterOK, IInv, Types, TxType
<1>3. t.gen = bs.gen /\ [gen |-> t.gen, ticket |-> t.ticket, node |-> w] \in br
  BY <1>2 DEF TxInv, AdmissionOK
<1> QED BY <1>1, <1>3

(* When no reservation is left nobody can queue any more.                   *)
LEMMA WaitReservationsJ ==
  ASSUME IInv, IInv', JInv, NEW b \in Builder, WaitReservations(b)
  PROVE  JInv'
<1>1. PICK t : t = task[b]
  OBVIOUS
<1>2. /\ t.pc = "wait" /\ TaskOK(t) /\ t \in TaskType /\ t.keys = {}
      /\ UNCHANGED <<kind, table, index, catalog, bs, bg, bp, tx, runs, inactive>>
  BY <1>1 DEF WaitReservations, IInv, Types, TaskOK, Replaying
<1>3. Active' /\ bs'.complete => CompleteOK'
  BY <1>2, CompleteFrame DEF Active
<1>4. CASE {x \in br : x.gen = t.gen} = {} /\ task' = [task EXCEPT ![b].pc = "replay3"] /\ UNCHANGED br
  <2>1. PICK u : u = AtPc(t, "replay3")
    OBVIOUS
  <2>2. task' = [task EXCEPT ![b] = u]
    BY <1>1, <1>4, <2>1 DEF AtPc
  <2>3. u.pc = "replay3" /\ u.keys = {} /\ u.gen = t.gen
    BY <1>2, <2>1, AtPcFields DEF TaskPc
  <2>4. QuietWorld
    BY <1>2, <2>2, <2>3, QuietTask
  <2>5. ASSUME Owns(b)' PROVE OwnerTaskOK(u)'
    <3>1. task'[b] = u
      BY <2>2 DEF IInv, Types
    <3>2. bs.gen = t.gen
      BY <1>2, <2>3, <2>5, <3>1 DEF Owns
    <3>3. \A w \in Writer : Open(w) => tx[w].gen = 0
      BY <1>4, <3>2, NoneHeld
    <3> QED BY <1>2, <2>3, <3>3, EmptyPrefix DEF OwnerTaskOK, Open
  <2>6. ScanOK(u)'
    BY <2>3 DEF ScanOK
  <2> QED BY <1>2, <1>3, <1>4, <2>2, <2>3, <2>4, <2>5, <2>6, OneTaskWorld
<1>5. CASE br' = br \ {x \in {x \in br : x.gen = t.gen} : Retirable(x)} /\ UNCHANGED task
  <2>1. task' = [task EXCEPT ![b] = t]
    BY <1>1, <1>5 DEF IInv, Types
  <2>2. QuietWorld
    BY <1>2, <2>1, QuietTask
  <2>3. br' \subseteq br /\ \A x \in br : x \in br' \/ ~Open(x.node) \/ tx[x.node].gen = 0
                                          \/ tx[x.node].ticket # x.ticket
    BY <1>5, RetirableOver
  <2>4. OwnerTaskOK(t)' /\ ScanOK(t)'
    BY <1>2 DEF OwnerTaskOK, ScanOK, Replaying
  <2> QED BY <1>2, <1>3, <2>1, <2>2, <2>3, <2>4, OneTaskWorld
<1> QED BY <1>1, <1>4, <1>5 DEF WaitReservations

(* The scan is complete when it has read and indexed every record.          *)
LEMMA InitialCompleteJ ==
  ASSUME IInv, IInv', JInv, NEW b \in Builder, InitialComplete(b)
  PROVE  JInv'
<1>1. PICK t, u : t = task[b] /\ u = AtPc(t, "replay1")
  OBVIOUS
<1>2. /\ t.pc = "scan" /\ t.todo = {} /\ Owns(b) /\ TaskOK(t) /\ t \in TaskType /\ StateOK
      /\ bs' = [bs EXCEPT !.complete = TRUE] /\ task' = [task EXCEPT ![b] = u]
      /\ UNCHANGED <<kind, table, index, catalog, bg, bp, br, tx, runs, inactive>>
  BY <1>1 DEF InitialComplete, IInv, Types, TaskOK, AtPc
<1>3. u.pc = "replay1" /\ u.keys = {} /\ u.gen = t.gen
  <2>1. "replay1" \in TaskPc /\ t.keys = {}
    BY <1>2 DEF TaskPc, TaskOK, Replaying
  <2> QED BY <1>1, <1>2, <2>1, AtPcFields
<1>4. /\ bs'.gen = bs.gen /\ bs'.phase = bs.phase /\ bs'.owner = b
      /\ bs'.complete /\ bs'.ticket = bs.ticket /\ bs.ticket \in Nat
  BY <1>2 DEF StateOK, StateType, Owns
<1>5. Active /\ Active' /\ Cleaned
  <2>1. Active
    BY <1>2, OwnerActive
  <2> QED BY <1>1, <1>2, <1>4, <2>1 DEF Active, Cleaned
<1>6. QuietWorld
  BY <1>2, <1>4, <1>5 DEF QuietWorld, Active, Ready
<1>7. CompleteOK'
  <2>1. ScanOK(t) /\ DOMAIN t.batch = {}
    BY <1>1, <1>2 DEF JInv, IndexOK, TasksOK
  <2>2. kind = "Idx" => \A e \in Entry :
           index[e] \in {0, 1} /\ (~Touched(bg, e) => (index[e] = 1 <=> table[e[1]] = e[2]))
    BY <1>2, <2>1 DEF ScanOK, IdxScanOK
  <2>3. kind = "Count" => \A e \in Entry : index[e] = IF BaseOf(bg, table, e) THEN 1 ELSE 0
    BY <1>2, <2>1 DEF ScanOK, CountScanOK, Base
  <2> QED BY <1>2, <2>2, <2>3 DEF CompleteOK, Base
<1>8. OwnerTaskOK(u)' /\ ScanOK(u)'
  BY <1>3, EmptyPrefix DEF OwnerTaskOK, ScanOK
<1> QED BY <1>2, <1>3, <1>4, <1>6, <1>7, <1>8, OneTaskWorld

(* A batch holds what the table had of each record when it was read.        *)
LEMMA ReadBatchJ ==
  ASSUME IInv, IInv', JInv, NEW b \in Builder, ReadBatch(b)
  PROVE  JInv'
<1>1. PICK t : t = task[b]
  OBVIOUS
<1>2. /\ t.pc = "scan" /\ TaskOK(t) /\ t \in TaskType /\ Types
      /\ UNCHANGED <<kind, table, index, catalog, bs, bg, bp, br, tx, runs, inactive>>
  BY <1>1 DEF ReadBatch, IInv, Types, TaskOK
<1>3. PICK S \in SUBSET t.todo :
          task' = [task EXCEPT ![b].pc = "lookup", ![b].todo = @ \ S,
                     ![b].batch = [r \in S |-> table[r]]]
  BY <1>1 DEF ReadBatch
<1>4. PICK f, T, u : f = [r \in S |-> table[r]] /\ T = t.todo \ S /\ u = HavingRead(t, T, f)
  OBVIOUS
<1>5. task' = [task EXCEPT ![b] = u]
  BY <1>1, <1>3, <1>4 DEF HavingRead, IInv, Types
<1>6. T \in SUBSET Rec /\ f \in Partial
  <2>1. S \in SUBSET Rec
    BY <1>2, <1>3 DEF TaskType
  <2>2. f \in [S -> MaybeValue]
    BY <1>2, <1>4, <2>1 DEF Types
  <2> QED BY <1>2, <1>4, <2>1, <2>2 DEF TaskType, Partial
<1>7. u.pc = "lookup" /\ u.todo = T /\ u.gen = t.gen /\ u.batch = f /\ u.keys = t.keys
  BY <1>2, <1>4, <1>6, HavingReadFields
<1>8. DOMAIN f = S /\ \A r \in S : f[r] = table[r]
  BY <1>4
<1>9. QuietWorld
  BY <1>1, <1>2, <1>5, <1>7, QuietTask
<1>10. Active' /\ bs'.complete => CompleteOK'
  BY <1>2, CompleteFrame DEF Active
<1>11. ASSUME Owns(b)' PROVE OwnerTaskOK(u)' /\ ScanOK(u)'
  <2>1. task'[b] = u
    BY <1>5 DEF IInv, Types
  <2>2. Owns(b)
    BY <1>1, <1>2, <1>7, <1>11, <2>1 DEF Owns
  <2>3. OwnerTaskOK(t) /\ ScanOK(t) /\ DOMAIN t.batch = {}
    BY <1>1, <1>2, <2>2 DEF JInv, TasksOK, IndexOK
  <2>4. OwnerTaskOK(u)'
    BY <1>2, <1>7, <2>3 DEF OwnerTaskOK, Replaying
  <2>5. ASSUME kind = "Idx" PROVE IdxScanOK(u)'
    <3>1. IdxScanOK(t)
      BY <1>2, <2>3, <2>5 DEF ScanOK
    <3> SUFFICES ASSUME NEW e \in Entry
                 PROVE  /\ index[e] \in {0, 1}
                        /\ ~Touched(bg, e) =>
                             /\ index[e] = 1 => table[e[1]] = e[2]
                             /\ e[1] \notin T \cup S /\ table[e[1]] = e[2] => index[e] = 1
                             /\ e[1] \in S => (f[e[1]] = e[2] <=> table[e[1]] = e[2])
      BY <1>2, <1>7, <1>8 DEF IdxScanOK
    <3>2. e[1] \notin T \cup S => e[1] \notin t.todo \cup DOMAIN t.batch
      BY <1>4, <2>3
    <3> QED BY <1>8, <3>1, <3>2 DEF IdxScanOK
  <2>6. ASSUME kind = "Count" PROVE CountScanOK(u)'
    <3>1. CountScanOK(t)
      BY <1>2, <2>3, <2>6 DEF ScanOK
    <3> SUFFICES ASSUME NEW e \in Entry
                 PROVE  /\ e[1] \in T \cup S => index[e] = 0
                        /\ e[1] \notin T \cup S => index[e] = IF Base(e) THEN 1 ELSE 0
                        /\ e[1] \in S => f[e[1]] = table[e[1]]
      BY <1>2, <1>4, <1>7, <1>8 DEF CountScanOK, Base
    <3>2. e[1] \in T \cup S <=> e[1] \in t.todo \cup DOMAIN t.batch
      BY <1>3, <1>4, <2>3
    <3> QED BY <1>8, <3>1, <3>2 DEF CountScanOK
  <2> QED BY <1>2, <2>4, <2>5, <2>6 DEF ScanOK
<1> QED BY <1>2, <1>5, <1>7, <1>9, <1>10, <1>11, OneTaskWorld

(* A mark leads the scan to what the first writer of the record found.      *)
LEMMA SeenFirst ==
  ASSUME IInv, JInv, Scan, NEW t, t.gen = bs.gen, NEW r \in Rec
  PROVE  /\ MarkOf(t.gen, r) = {} <=> ~About(bg, r)
         /\ MarkOf(t.gen, r) = {} => Seen(t, r) = t.batch[r]
         /\ MarkOf(t.gen, r) # {} => \E a \in bg : a.rec = r /\ First(bg, a) /\ Seen(t, r) = a.old
<1>1. /\ \A m \in bp : PointsToFirst(bg, m) /\ m.gen = bs.gen
      /\ \A a \in bg : \E m \in bp : m.rec = a.rec
      /\ Distinct(bg)
  BY DEF JInv, MarksOK, QueueOK, Chain
<1>2. MarkOf(t.gen, r) = {} <=> ~About(bg, r)
  BY <1>1 DEF MarkOf, About, PointsToFirst
<1>3. ASSUME MarkOf(t.gen, r) # {}
      PROVE  \E a \in bg : a.rec = r /\ First(bg, a) /\ Seen(t, r) = a.old
  <2> DEFINE P(a) == \E m \in MarkOf(t.gen, r) : a \in Pointed(m)
  <2>1. ASSUME NEW a \in bg, P(a)
        PROVE  a.rec = r /\ First(bg, a)
    <3>1. PICK m \in MarkOf(t.gen, r) : a \in Pointed(m)
      BY <2>1
    <3>2. m \in bp /\ m.rec = r /\ a.ticket = m.ticket /\ a.seq = m.seq
      BY <3>1 DEF MarkOf, Pointed
    <3>3. PICK c \in bg : c.ticket = m.ticket /\ c.seq = m.seq /\ c.rec = m.rec /\ First(bg, c)
      BY <1>1, <3>2 DEF PointsToFirst
    <3>4. a = c
      BY <1>1, <3>2, <3>3 DEF Distinct
    <3> QED BY <3>2, <3>3, <3>4
  <2>2. \E a \in bg : P(a)
    <3>1. PICK m : m \in MarkOf(t.gen, r)
      BY <1>3
    <3>2. m \in bp
      BY <3>1 DEF MarkOf
    <3>3. PICK c \in bg : c.gen = m.gen /\ c.ticket = m.ticket /\ c.seq = m.seq
      BY <1>1, <3>2 DEF PointsToFirst
    <3>4. c \in Pointed(m)
      BY <3>3 DEF Pointed
    <3> QED BY <3>1, <3>4
  <2>3. Seen(t, r) = (CHOOSE a \in bg : P(a)).old
    BY <1>3 DEF Seen
  <2>4. (CHOOSE a \in bg : P(a)) \in bg /\ P(CHOOSE a \in bg : P(a))
    <3> HIDE DEF P
    <3> QED BY <2>2
  <2>5. PICK c : c = CHOOSE a \in bg : P(a)
    OBVIOUS
  <2>6. c \in bg /\ P(c) /\ Seen(t, r) = c.old
    BY <2>3, <2>4, <2>5
  <2> HIDE DEF P
  <2> QED BY <2>1, <2>6
<1> QED BY <1>2, <1>3 DEF Seen

(* The lookup corrects a record that was queued by the base of its chain.   *)
LEMMA LookupBatchJ ==
  ASSUME IInv, IInv', JInv, NEW b \in Builder, LookupBatch(b)
  PROVE  JInv'
<1>1. PICK t : t = task[b]
  OBVIOUS
<1>2. /\ t.pc = "lookup" /\ TaskOK(t) /\ t \in TaskType /\ Types /\ Owns(b) /\ bs.phase = "Building"
      /\ UNCHANGED <<kind, table, index, catalog, bs, bg, bp, br, tx, runs, inactive>>
      /\ \A r \in ToIndex(t) : \A m \in MarkOf(t.gen, r) : Pointed(m) # {}
  BY <1>1 DEF LookupBatch, IInv, Types, TaskOK
<1>3. PICK K : K = {[gen |-> t.gen, ticket |-> 0, seq |-> 0, rec |-> r, old |-> None,
                     new |-> Seen(t, r)] : r \in ToIndex(t)}
  OBVIOUS
<1>4. K \in SUBSET Appending
  <2> SUFFICES ASSUME NEW r \in ToIndex(t)
               PROVE  [gen |-> t.gen, ticket |-> 0, seq |-> 0, rec |-> r, old |-> None,
                       new |-> Seen(t, r)] \in Appending
    BY <1>3
  <2>1. r \in DOMAIN t.batch
    BY DEF ToIndex
  <2>2. Seen(t, r) \in Value \cup {None}
    BY <1>2, <2>1, SeenType DEF MaybeValue
  <2>3. r \in Rec
    BY <1>2, <2>1 DEF TaskType, Partial
  <2>4. t.gen \in 1..MaxRuns
    BY <1>2 DEF TaskOK, TaskType
  <2>5. 0 \in 0..MaxTicket /\ 0 \in 0..MaxSeq
    OBVIOUS
  <2> QED BY <2>2, <2>3, <2>4, <2>5 DEF Appending
<1>5. PICK u : u = HavingSeen(t, K)
  OBVIOUS
<1>6. u.pc = "index" /\ u.gen = t.gen /\ u.todo = t.todo /\ u.batch = t.batch /\ u.keys = K
  BY <1>2, <1>4, <1>5, HavingSeenFields
<1>7. task' = [task EXCEPT ![b] = u]
  BY <1>1, <1>3, <1>5 DEF LookupBatch, HavingSeen
<1>8. QuietWorld
  BY <1>1, <1>2, <1>6, <1>7, QuietTask
<1>9. OwnerTaskOK(t) /\ ScanOK(t) /\ t.gen = bs.gen /\ Scan
  BY <1>1, <1>2 DEF JInv, TasksOK, IndexOK, Owns, OwnerTaskOK, Scan, Active
<1>10. Owns(b)'
  <2>1. task'[b] = u
    BY <1>7 DEF IInv, Types
  <2> QED BY <1>1, <1>2, <1>6, <2>1 DEF Owns
<1>11. OwnerTaskOK(u)'
  BY <1>2, <1>6, <1>9 DEF OwnerTaskOK, Replaying
<1>12. ASSUME NEW e \in Entry
       PROVE  e \in BatchEntries(u) <=> e[1] \in ToIndex(t) /\ Seen(t, e[1]) = e[2]
  <2>1. e \in BatchEntries(u) <=> \E a \in K : e \in EntriesOf(a.rec, a.new)
    BY <1>6 DEF BatchEntries
  <2>2. e \in BatchEntries(u) <=> \E a \in K : e[1] = a.rec /\ e[2] = a.new
    BY <2>1, EntryOf
  <2>3. \A a \in K : a.rec \in ToIndex(t) /\ a.new = Seen(t, a.rec)
    BY <1>3
  <2>4. ASSUME NEW r \in ToIndex(t) PROVE \E a \in K : a.rec = r /\ a.new = Seen(t, r)
    <3>1. [gen |-> t.gen, ticket |-> 0, seq |-> 0, rec |-> r, old |-> None,
           new |-> Seen(t, r)] \in K
      BY <1>3
    <3> QED BY <3>1
  <2> QED BY <2>2, <2>3, <2>4
<1>13. DOMAIN t.batch \subseteq Rec
  BY <1>2 DEF TaskType, Partial
<1>14. ASSUME kind = "Idx" PROVE IdxScanOK(u)'
  <2>1. IdxScanOK(t)
    BY <1>2, <1>9, <1>14 DEF ScanOK
  <2>2. ASSUME NEW e \in Entry, ~Touched(bg, e)
        PROVE  /\ e \in BatchEntries(u) => table[e[1]] = e[2]
               /\ e[1] \in DOMAIN t.batch /\ table[e[1]] = e[2] => e \in BatchEntries(u) \/ index[e] = 1
    <3>1. e[1] \in Rec /\ e[2] # None
      BY DEF Entry
    <3>2. ASSUME e \in BatchEntries(u) PROVE table[e[1]] = e[2]
      <4>1. e[1] \in DOMAIN t.batch /\ Seen(t, e[1]) = e[2]
        BY <1>12, <3>2 DEF ToIndex
      <4>2. CASE MarkOf(t.gen, e[1]) = {}
        <5>1. t.batch[e[1]] = e[2]
          BY <1>9, <3>1, <4>1, <4>2, SeenFirst
        <5> QED BY <2>1, <2>2, <4>1, <5>1 DEF IdxScanOK
      <4>3. CASE MarkOf(t.gen, e[1]) # {}
        <5>1. PICK a \in bg : a.rec = e[1] /\ Seen(t, e[1]) = a.old
          BY <1>9, <3>1, <4>3, SeenFirst
        <5> QED BY <2>2, <4>1, <5>1 DEF Touched, Touches
      <4> QED BY <4>2, <4>3
    <3>3. ASSUME e[1] \in DOMAIN t.batch, table[e[1]] = e[2], index[e] # 1
          PROVE  e \in BatchEntries(u)
      <4>1. t.batch[e[1]] = e[2]
        BY <2>1, <2>2, <3>3 DEF IdxScanOK
      <4>2. e[1] \in ToIndex(t)
        BY <3>1, <3>3, <4>1 DEF ToIndex
      <4>3. ~About(bg, e[1])
        BY <2>2, <3>3, EndTouched DEF JInv, QueueOK, Chain, IInv, Types
      <4>4. Seen(t, e[1]) = e[2]
        BY <1>9, <3>1, <4>1, <4>3, SeenFirst
      <4> QED BY <1>12, <4>2, <4>4
    <3> QED BY <3>2, <3>3
  <2> QED BY <1>2, <1>6, <2>1, <2>2 DEF IdxScanOK, BatchEntries
<1>15. ASSUME kind = "Count" PROVE CountScanOK(u)'
  <2>1. CountScanOK(t)
    BY <1>2, <1>9, <1>15 DEF ScanOK
  <2>2. ASSUME NEW e \in Entry
        PROVE  e \in BatchEntries(u) <=> e[1] \in DOMAIN t.batch /\ Base(e)
    <3>1. e[1] \in Rec /\ e[2] # None
      BY DEF Entry
    <3>2. CASE e[1] \notin DOMAIN t.batch
      BY <1>12, <3>2 DEF ToIndex
    <3>3. CASE e[1] \in DOMAIN t.batch /\ MarkOf(t.gen, e[1]) = {}
      <4>1. ~About(bg, e[1]) /\ Seen(t, e[1]) = t.batch[e[1]]
        BY <1>9, <3>1, <3>3, SeenFirst
      <4>2. t.batch[e[1]] = table[e[1]]
        BY <2>1, <3>3, <4>1 DEF CountScanOK
      <4>3. Base(e) <=> table[e[1]] = e[2]
        BY <4>1 DEF Base, BaseOf
      <4>4. e[1] \in ToIndex(t) <=> t.batch[e[1]] # None
        BY <3>3 DEF ToIndex
      <4> QED BY <1>12, <3>1, <3>3, <4>1, <4>2, <4>3, <4>4
    <3>4. CASE e[1] \in DOMAIN t.batch /\ MarkOf(t.gen, e[1]) # {}
      <4>1. About(bg, e[1]) /\ e[1] \in ToIndex(t)
        BY <1>9, <1>15, <3>1, <3>4, SeenFirst DEF ToIndex
      <4>2. PICK a \in bg : a.rec = e[1] /\ First(bg, a) /\ Seen(t, e[1]) = a.old
        BY <1>9, <3>1, <3>4, SeenFirst
      <4>3. bg \in SUBSET Appending /\ Distinct(bg)
        BY DEF JInv, QueueOK, Chain, IInv, Types
      <4>4. \A c \in bg : c.rec = e[1] /\ First(bg, c) => c = a
        BY <4>2, <4>3, FirstUnique
      <4>5. Base(e) <=> a.old = e[2]
        BY <4>1, <4>2, <4>4 DEF Base, BaseOf
      <4> QED BY <1>12, <3>4, <4>1, <4>2, <4>5
    <3> QED BY <3>2, <3>3, <3>4
  <2> QED BY <1>2, <1>6, <2>1, <2>2 DEF CountScanOK, BatchEntries, Base
<1>16. ScanOK(u)'
  BY <1>2, <1>14, <1>15 DEF ScanOK
<1>17. Active' /\ bs'.complete => CompleteOK'
  BY <1>2, CompleteFrame DEF Active
<1> QED BY <1>2, <1>6, <1>7, <1>8, <1>10, <1>11, <1>16, <1>17, OneTaskWorld

(* The task that takes a build over begins with the scan, or with the       *)
(* replay when the scan is complete; a batch in flight is sent back.        *)
LEMMA TakeOverJ ==
  ASSUME IInv, IInv', JInv, NEW b \in Builder, TakeOver(b)
  PROVE  JInv'
<1>1. PICK u : u = Resumption
  OBVIOUS
<1>2. /\ Active /\ task' = [DirtyTask({<<"bs">>}) EXCEPT ![b] = u]
      /\ bs' = [bs EXCEPT !.owner = b] /\ Types /\ StateOK /\ Types' /\ StateOK'
      /\ UNCHANGED <<kind, table, index, catalog, bg, bp, br, tx, inactive>>
  BY <1>1 DEF TakeOver, Resumption, IInv
<1>3. /\ u.gen = bs.gen /\ u.keys = {}
      /\ \/ u.pc = "clean" /\ bs.phase = "Building" /\ ~bs.complete
         \/ u.pc = "replay1" /\ bs.complete
  BY <1>1, <1>2, ResumptionFields
<1>4. DOMAIN u.batch = {}
  <2>1. u.batch = << >>
    BY <1>1 DEF Resumption, IdleTask
  <2> QED BY <2>1
<1>5. /\ bs'.gen = bs.gen /\ bs'.phase = bs.phase /\ bs'.owner = b
      /\ bs'.complete = bs.complete /\ bs'.ticket = bs.ticket /\ bs.ticket \in Nat
  BY <1>2 DEF StateOK, StateType
<1>6. PICK d : d = DirtyTask({<<"bs">>})
  OBVIOUS
<1>7. /\ task'[b] = u /\ \A c \in Builder : c # b => task'[c] = d[c]
  BY <1>2, <1>6 DEF DirtyTask
<1>8. ASSUME NEW c \in Builder, c # b
      PROVE  /\ task'[c].gen = task[c].gen /\ task'[c].batch = task[c].batch
             /\ task'[c].pc = task[c].pc \/ (task[c].pc = "index" /\ task'[c].pc = "lookup")
             /\ task'[c].pc # "index"
  <2>1. PICK x : x = d[c]
    OBVIOUS
  <2>2. <<"bs">> \in {<<"bs">>}
    OBVIOUS
  <2>3. /\ x.gen = task[c].gen /\ x.batch = task[c].batch
        /\ x.pc = task[c].pc \/ (task[c].pc = "index" /\ x.pc = "lookup")
        /\ x.pc # "index"
    BY <1>2, <1>6, <2>1, <2>2, DirtyTaskFields
  <2> QED BY <1>7, <1>8, <2>1, <2>3
<1>9. \A c \in Builder : Owns(c)' => c = b
  BY <1>5 DEF Owns
<1>10. Active' /\ \A c \in Builder : ~Starting(c)
  BY <1>2, <1>5 DEF Active, JInv, StartOK
<1>11. QuietWorld
  <2>1. Cleaned' => Cleaned
    BY <1>2, <1>3, <1>5, <1>7, <1>9 DEF Cleaned, Active
  <2> QED BY <1>2, <1>5, <2>1 DEF QuietWorld, Active, Ready
<1>12. WriterOK'
  BY <1>2, <1>11, QuietWriters DEF JInv
<1>13. QueueOK' /\ MarksOK' /\ InactiveOK'
  BY <1>2, <1>5 DEF JInv, QueueOK, MarksOK, InactiveOK, Scan, Active
<1>14. TicketsOK'
  <2>1. bs'.gen = bs.gen /\ bs.ticket <= bs'.ticket
    BY <1>5
  <2> QED BY <1>2, <2>1, TicketsFrame DEF JInv
<1>15. StartOK'
  <2>1. \A c \in Builder : ~Starting(c)'
    BY <1>3, <1>7, <1>8, <1>10 DEF Starting
  <2> QED BY <2>1 DEF StartOK
<1>16. OwnerTaskOK(u)'
  BY <1>3, <1>5, EmptyPrefix DEF OwnerTaskOK
<1>17. TasksOK'
  <2>1. \A c \in Builder : task'[c].pc # "index"
    BY <1>3, <1>7, <1>8
  <2>2. \A c \in Builder : task'[c].pc \in {"clean", "scan"} => DOMAIN task'[c].batch = {}
    BY <1>4, <1>7, <1>8 DEF JInv, TasksOK
  <2>3. \A c \in Builder : Owns(c)' => OwnerTaskOK(task[c])'
    BY <1>7, <1>9, <1>16 DEF OwnerTaskOK
  <2> QED BY <2>1, <2>2, <2>3 DEF TasksOK
<1>18. IndexOK'
  <2>1. \A c \in Builder : Owns(c)' => ScanOK(task[c])'
    BY <1>3, <1>7, <1>9 DEF ScanOK
  <2>2. Active' /\ bs'.complete => CompleteOK'
    BY <1>2, <1>5, CompleteFrame
  <2>3. bs'.phase \notin {"Online", "none"}
    BY <1>10 DEF Active
  <2> QED BY <2>1, <2>2, <2>3 DEF IndexOK
<1> QED BY <1>12, <1>13, <1>14, <1>15, <1>17, <1>18 DEF JInv

(* The index is defined once its build has begun, and no transaction is     *)
(* open that does not know of it.                                           *)
LEMMA NoneOpen ==
  ASSUME JInv, catalog = "open"
  PROVE  \A w \in Writer : ~Open(w)
BY DEF JInv, WriterOK, TxInv, AdmissionOK

(* DEFINE INDEX commits when no transaction knows the index.                *)
LEMMA DefineCommitJ ==
  ASSUME IInv, IInv', JInv, DefineCommit
  PROVE  JInv'
<1>1. /\ catalog = "open" /\ bs # NoState
      /\ UNCHANGED <<kind, table, index, bs, bg, bp, br, tx, task, runs, inactive>>
  BY DEF DefineCommit
<1>2. WriterOK'
  BY <1>1, NoneOpen DEF WriterOK, Open
<1>3. bs.phase # "none"
  BY <1>1 DEF IInv, StateOK
<1>4. QueueOK' /\ MarksOK' /\ InactiveOK' /\ TicketsOK' /\ StartOK'
  BY <1>1 DEF JInv, QueueOK, MarksOK, TicketsOK, StartOK, InactiveOK, Scan, Active, Starting
<1>5. TasksOK'
  BY <1>1 DEF JInv, TasksOK, OwnerTaskOK, Owns, Open
<1>6. IndexOK'
  <2>1. bs.phase = "Online" => index = Entries(table)
    BY DEF JInv, IndexOK
  <2>2. \A b \in Builder : Owns(b)' => ScanOK(task[b])'
    BY <1>1 DEF JInv, IndexOK, ScanOK, IdxScanOK, CountScanOK, Owns, Base, BatchEntries
  <2>3. Active' /\ bs'.complete => CompleteOK'
    BY <1>1, CompleteFrame DEF Active
  <2> QED BY <1>1, <1>3, <2>1, <2>2, <2>3 DEF IndexOK, Entries
<1> QED BY <1>2, <1>4, <1>5, <1>6 DEF JInv

(* An open transaction without a ticket has queued nothing.                 *)
LEMMA NoTicket ==
  ASSUME NEW t, TxOK(t), t.gen = 0
  PROVE  t.queue = {} /\ t.marks = {}
BY DEF TxOK, TxCore

(* The switch: nothing is queued, and nobody can queue any more.            *)
LEMMA MarkOnlineJ ==
  ASSUME IInv, IInv', JInv, NEW b \in Builder, MarkOnline(b)
  PROVE  JInv'
<1>1. PICK u : u = IdleTask
  OBVIOUS
<1>2. /\ task[b].pc = "online" /\ Owns(b) /\ task' = [task EXCEPT ![b] = u]
      /\ bs' = [bs EXCEPT !.phase = "Online", !.owner = NoOwner, !.complete = TRUE]
      /\ UNCHANGED <<kind, table, index, catalog, bg, bp, br, tx, runs, inactive>>
      /\ Types /\ StateOK /\ Types' /\ StateOK'
  BY <1>1 DEF MarkOnline, IInv
<1>3. /\ bs'.gen = bs.gen /\ bs'.phase = "Online" /\ bs'.owner = NoOwner
      /\ bs'.ticket = bs.ticket /\ bs.ticket \in Nat
  BY <1>2 DEF StateOK, StateType
<1>4. /\ task'[b] = u /\ (\A c \in Builder : c # b => task'[c] = task[c]) /\ u.pc = "idle"
  BY <1>1, <1>2 DEF Types, IdleTask
<1>5. /\ bg = {} /\ \A w \in Writer : Open(w) => tx[w].gen = 0
  BY <1>2 DEF JInv, TasksOK, OwnerTaskOK
<1>6. Active /\ bs.complete /\ CompleteOK
  <2>1. Active /\ bs.complete
    BY <1>2, OwnerActive DEF IInv, OwnerOK
  <2> QED BY <2>1 DEF JInv, IndexOK
<1>7. ~Active' /\ Ready' /\ ~Ready /\ ~Cleaned' /\ ~Scan'
  BY <1>3, <1>6 DEF Active, Ready, Cleaned, Scan
<1>8. WriterOK'
  <2> SUFFICES ASSUME NEW w \in Writer, Open(w)'
               PROVE  TxInv(tx[w], w)'
    BY DEF WriterOK
  <2>1. PICK t : t = tx[w]
    OBVIOUS
  <2>2. Open(w) /\ tx'[w] = t
    BY <1>2, <2>1 DEF Open
  <2>3. TxInv(t, w) /\ TxOK(t) /\ t.gen = 0 /\ Aged(t, t)
    BY <1>2, <1>5, <2>1, <2>2 DEF JInv, WriterOK, Types, TxInv, OwnQueueOK, Aged
  <2>4. t.queue = {} /\ t.marks = {}
    BY <2>3, NoTicket
  <2>5. AdmissionOK(t, w)'
    BY <1>2, <1>3, <1>7, <2>3 DEF TxInv, AdmissionOK
  <2>6. OwnQueueOK(t) /\ OwnMarksOK(t)'
    BY <1>7, <2>3 DEF TxInv, OwnMarksOK
  <2>7. DirectOK(t)'
    BY <1>2, <2>3 DEF TxInv, DirectOK
  <2>8. DirectIdxOK(t)'
    BY <1>2, <1>7, <2>3, DirectIdxFrame DEF TxInv
  <2>9. DirectCountOK(t)'
    <3> SUFFICES ASSUME kind = "Count", t.sees
                 PROVE  \A e \in Entry : e[1] \in DOMAIN t.writes =>
                           /\ e \in t.put <=> t.writes[e[1]] = e[2] /\ table[e[1]] # e[2]
                           /\ e \in t.del <=> table[e[1]] = e[2] /\ t.writes[e[1]] # e[2]
      BY <1>2, <1>7 DEF DirectCountOK
    <3>1. t.put = {} /\ t.del = {}
      BY <1>7, <2>3 DEF TxInv, DirectCountOK
    <3>2. \A r \in DOMAIN t.writes : t.writes[r] = table[r]
      BY <2>3, <2>4, <3>1 DEF TxInv, DirectOK, Direct, About
    <3> QED BY <3>1, <3>2
  <2>10. SnapOK(t)'
    <3>1. t.opened # bs'.gen
      BY <1>2, <1>3, <1>6, <2>3 DEF TxInv, AdmissionOK, TxOK, TxCore, TxType, StateOK, StateType
    <3> QED BY <3>1 DEF SnapOK
  <2>11. TxInv(t, w)'
    BY <2>5, <2>6, <2>7, <2>8, <2>9, <2>10 DEF TxInv
  <2> QED BY <2>2, <2>11, TxInvPrimed
<1>9. QueueOK' /\ MarksOK' /\ InactiveOK'
  BY <1>2, <1>3, <1>5, <1>7 DEF JInv, QueueOK, MarksOK, InactiveOK
<1>10. TicketsOK'
  <2>1. bs'.gen = bs.gen /\ bs.ticket <= bs'.ticket
    BY <1>3
  <2> QED BY <1>2, <2>1, TicketsFrame DEF JInv
<1>11. StartOK'
  <2>1. \A c \in Builder : ~Starting(c)'
    BY <1>4, <1>6 DEF Starting, JInv, StartOK
  <2> QED BY <2>1 DEF StartOK
<1>12. \A c \in Builder : ~Owns(c)'
  BY <1>3 DEF Owns
<1>13. TasksOK'
  <2>1. \A c \in Builder : task'[c].pc # "index"
    <3>1. \A c \in Builder : task[c].pc = "index" => c = b
      BY <1>2 DEF JInv, TasksOK, Owns
    <3> QED BY <1>4, <3>1
  <2>2. \A c \in Builder : task'[c].pc \in {"clean", "scan"} => DOMAIN task'[c].batch = {}
    BY <1>4 DEF JInv, TasksOK
  <2> QED BY <1>12, <2>1, <2>2 DEF TasksOK
<1>14. index = Entries(table)
  <2>1. \A e \in Entry : index[e] = IF table[e[1]] = e[2] THEN 1 ELSE 0
    <3> SUFFICES ASSUME NEW e \in Entry PROVE index[e] = IF table[e[1]] = e[2] THEN 1 ELSE 0
      OBVIOUS
    <3>1. ~Touched(bg, e) /\ ~About(bg, e[1])
      BY <1>5 DEF Touched, About
    <3>2. CASE kind = "Idx"
      BY <1>6, <3>1, <3>2 DEF CompleteOK
    <3>3. CASE kind = "Count"
      <4>1. Base(e) <=> table[e[1]] = e[2]
        BY <3>1 DEF Base, BaseOf
      <4> QED BY <1>6, <3>3, <4>1 DEF CompleteOK
    <3> QED BY <1>2, <3>2, <3>3 DEF Types
  <2>2. index \in [Entry -> Int]
    BY <1>2 DEF Types
  <2> QED BY <2>1, <2>2 DEF Entries
<1>15. IndexOK'
  BY <1>2, <1>7, <1>12, <1>14 DEF IndexOK, Entries
<1> QED BY <1>8, <1>9, <1>10, <1>11, <1>13, <1>15 DEF JInv

(* A new generation: no transaction has a reservation of the earlier ones.  *)
LEMMA PublishJ ==
  ASSUME IInv, IInv', JInv, Careful, NEW b \in Builder, Publish(b)
  PROVE  JInv'
<1>1. PICK g, u : g = bs.gen /\ u = NewTask
  OBVIOUS
<1>2. /\ ~Active /\ br = {} /\ (\A c \in Builder : Starting(c) => c = b) /\ task[b].pc = "publish"
      /\ Types /\ StateOK /\ Types' /\ StateOK' /\ ~LongTransactions
  BY DEF Publish, JInv, StartOK, Starting, IInv, Careful
<1>3. /\ runs < MaxRuns
      /\ kind = "Idx" \/ \A w \in Writer : tx[w].put \cup tx[w].del = {}
      /\ bs' = NewState(b) /\ bg' = {} /\ bp' = {} /\ br' = {}
      /\ task' = [task EXCEPT ![b] = u]
      /\ UNCHANGED <<kind, table, index, catalog, tx, inactive>>
  BY <1>1, <1>2 DEF Publish, NewState, NewTask
<1>4. /\ bs'.gen = g + 1 /\ bs'.phase = "Building" /\ bs'.owner = b
      /\ bs'.ticket = 0 /\ bs'.complete = FALSE
      /\ u.pc = "clean" /\ u.gen = g + 1 /\ g \in Nat
  <2>1. PICK s : s = NewState(b)
    OBVIOUS
  <2>2. /\ s.gen = bs.gen + 1 /\ s.phase = "Building" /\ s.owner = b
        /\ s.ticket = 0 /\ s.complete = FALSE /\ u.pc = "clean" /\ u.gen = bs.gen + 1
    <3>1. Types /\ StateOK /\ runs < MaxRuns
      BY <1>2, <1>3
    <3>2. u = NewTask
      BY <1>1
    <3>3. Published(s, u, b)
      BY <2>1, <3>1, <3>2, PublishFields
    <3> QED BY <3>3 DEF Published
  <2> QED BY <1>1, <1>2, <1>3, <2>1, <2>2 DEF StateOK, StateType
<1>5. DOMAIN u.batch = {}
  <2>1. u.batch = << >>
    BY <1>1 DEF NewTask, IdleTask
  <2> QED BY <2>1
<1>6. /\ task'[b] = u /\ \A c \in Builder : c # b => task'[c] = task[c]
  BY <1>2, <1>3 DEF Types
<1>7. \A c \in Builder : Owns(c)' => c = b
  BY <1>4 DEF Owns
<1>8. Active' /\ ~Ready' /\ ~Cleaned'
  BY <1>4, <1>6, <1>7 DEF Active, Ready, Cleaned
<1>9. \A w \in Writer : Open(w) => tx[w].gen = 0
  BY <1>2, NoneHeld
<1>10. WriterOK'
  <2> SUFFICES ASSUME NEW w \in Writer, Open(w)'
               PROVE  TxInv(tx[w], w)'
    BY DEF WriterOK
  <2>1. PICK t : t = tx[w]
    OBVIOUS
  <2>2. Open(w) /\ tx'[w] = t
    BY <1>3, <2>1 DEF Open
  <2>3. TxInv(t, w) /\ TxOK(t) /\ t.gen = 0 /\ Aged(t, t)
    BY <1>2, <1>9, <2>1, <2>2 DEF JInv, WriterOK, Types, TxInv, OwnQueueOK, Aged
  <2>4. t.queue = {} /\ t.marks = {}
    BY <2>3, NoTicket
  <2>5. AdmissionOK(t, w)'
    <3>1. /\ t.sees <=> catalog = "defined"
          /\ catalog # "open" /\ t.opened <= g
          /\ \A h \in 1..MaxRuns, r \in Rec : <<"bp", h, r>> \in t.dirty => h <= g
      BY <1>1, <2>3 DEF TxInv, AdmissionOK
    <3>2. t.opened \in Int
      BY <2>3 DEF TxOK, TxCore, TxType
    <3>3. t.opened <= bs'.gen /\ t.opened < bs'.gen
      BY <1>4, <3>1, <3>2
    <3>4. \A h \in 1..MaxRuns, r \in Rec : <<"bp", h, r>> \in t.dirty => h <= bs'.gen
      BY <1>4, <3>1
    <3> QED BY <1>3, <2>3, <3>1, <3>3, <3>4 DEF AdmissionOK
  <2>6. OwnQueueOK(t)
    BY <2>3 DEF TxInv
  <2>7. OwnMarksOK(t)'
    <3>1. \A r \in Rec : <<"bp", bs'.gen, r>> \notin t.dirty
      <4>1. bs'.gen \in 1..MaxRuns
        BY <1>2, <1>4 DEF StateOK, StateType
      <4>2. \A h \in 1..MaxRuns, r \in Rec : <<"bp", h, r>> \in t.dirty => h <= g
        BY <1>1, <2>3 DEF TxInv, AdmissionOK
      <4>3. ~(bs'.gen <= g)
        BY <1>4
      <4> QED BY <4>1, <4>2, <4>3
    <3> QED BY <2>4, <3>1 DEF OwnMarksOK
  <2>8. DirectOK(t)'
    <3>1. \A a \in bg' : a \in bg
      BY <1>3
    <3>2. \A r \in DOMAIN t.writes : table'[r] = table[r] /\ \A a \in bg' : a.rec = r => a \in bg
      BY <1>3, <3>1
    <3> QED BY <2>3, <2>6, <3>2, DirectFrame DEF TxInv
  <2>9. DirectIdxOK(t)'
    BY <1>3, <1>8, <2>3, DirectIdxFrame DEF TxInv
  <2>10. DirectCountOK(t)'
    BY <1>3, <1>8, <2>1 DEF DirectCountOK
  <2>11. SnapOK(t)'
    BY <1>8 DEF SnapOK
  <2>12. TxInv(t, w)'
    BY <2>5, <2>6, <2>7, <2>8, <2>9, <2>10, <2>11 DEF TxInv
  <2> QED BY <2>2, <2>12, TxInvPrimed
<1>11. QueueOK' /\ MarksOK' /\ InactiveOK'
  BY <1>3, <1>4, EmptyChain DEF JInv, QueueOK, MarksOK, InactiveOK
<1>12. TicketsOK'
  <2>1. \A w \in Writer : tx'[w].gen \in Nat /\ tx'[w].gen <= g
    BY <1>1, <1>2, <1>3 DEF JInv, TicketsOK, Types, TxType
  <2> QED BY <1>4, <2>1 DEF TicketsOK
<1>13. StartOK'
  <2>1. \A c \in Builder : ~Starting(c)'
    BY <1>2, <1>4, <1>6 DEF Starting
  <2> QED BY <2>1 DEF StartOK
<1>14. OwnerTaskOK(u)'
  BY <1>4 DEF OwnerTaskOK, Replaying
<1>15. TasksOK'
  <2>1. \A c \in Builder : task[c].pc # "index"
    BY <1>2, OwnerActive DEF JInv, TasksOK
  <2>2. \A c \in Builder : task'[c].pc # "index"
    BY <1>4, <1>6, <2>1
  <2>3. \A c \in Builder : task'[c].pc \in {"clean", "scan"} => DOMAIN task'[c].batch = {}
    BY <1>5, <1>6 DEF JInv, TasksOK
  <2>4. \A c \in Builder : Owns(c)' => OwnerTaskOK(task[c])'
    BY <1>6, <1>7, <1>14 DEF OwnerTaskOK
  <2> QED BY <2>2, <2>3, <2>4 DEF TasksOK
<1>16. IndexOK'
  <2>1. \A c \in Builder : Owns(c)' => ScanOK(task[c])'
    BY <1>4, <1>6, <1>7 DEF ScanOK
  <2> QED BY <1>4, <2>1 DEF IndexOK
<1> QED BY <1>10, <1>11, <1>12, <1>13, <1>15, <1>16 DEF JInv

----------------------------------------------------------------------------
(* Steps that write the index. *)

(* Entries, records and marks are different keys.                           *)
LEMMA TupleKinds ==
  ASSUME NEW e \in Entry, NEW r, NEW g, NEW q
  PROVE  e # <<r>> /\ e # <<"bp", g, q>> /\ <<"bp", g, q>> # <<r>>
<1>1. e = <<e[1], e[2]>>
  BY DEF Entry
<1>2. DOMAIN <<e[1], e[2]>> = 1..2 /\ DOMAIN <<r>> = 1..1 /\ DOMAIN <<"bp", g, q>> = 1..3
  OBVIOUS
<1> QED BY <1>1, <1>2

(* A commit leaves a transaction as it is, but for the keys it remembers,   *)
(* or closes it; the keys are none of those it has written.                 *)
LEMMA DirtyTxAged ==
  ASSUME Types, NEW keys, keys \subseteq Key, NEW w \in Writer, NEW t, t = tx[w],
         NEW u, u = DirtyTx(keys)[w]
  PROVE  /\ u.gen = 0 \/ (u.gen = t.gen /\ u.ticket = t.ticket)
         /\ t.pc = "crashed" => u.pc = "crashed"
         /\ u.pc \in {"open", "fence"} =>
               /\ Open(w) /\ keys \cap KeysOf(t) = {} /\ u.dirty = t.dirty \cup keys
               /\ OwnQueueOK(t) => Aged(t, u)
<1>1. TxOK(t) /\ t \in TxType
  BY DEF Types, TxOK, TxCore
<1>2. CASE ~Open(w)
  <2>1. u = t
    BY <1>2 DEF DirtyTx
  <2> QED BY <1>1, <1>2, <2>1 DEF Open
<1>3. CASE Open(w) /\ u = Closed(t)
  <2>1. u.gen = 0 \/ (u.gen = t.gen /\ u.ticket = t.ticket)
    BY <1>1, <1>3, ClosedOK DEF TxType
  <2>2. u.pc \in {"idle", "release"}
    BY <1>1, <1>3, ClosedOK
  <2> QED BY <1>3, <2>1, <2>2 DEF Open
<1>4. CASE Open(w) /\ keys \cap KeysOf(t) = {} /\ u = [t EXCEPT !.dirty = @ \cup keys]
  <2>1. /\ u.pc = t.pc /\ u.sees = t.sees /\ u.opened = t.opened /\ u.snap = t.snap /\ u.gen = t.gen
        /\ u.ticket = t.ticket /\ u.complete = t.complete /\ u.writes = t.writes
    BY <1>1, <1>4 DEF TxType
  <2>2. /\ u.queue = t.queue /\ u.marks = t.marks /\ u.put = t.put /\ u.del = t.del
        /\ u.dirty = t.dirty \cup keys
    BY <1>1, <1>4 DEF TxType
  <2>3. \A r \in DOMAIN t.writes : <<r>> \notin keys
    BY <1>4 DEF KeysOf
  <2>4. OwnQueueOK(t) => Aged(t, u)
    BY <2>1, <2>2, <2>3 DEF OwnQueueOK, Aged
  <2> QED BY <1>4, <2>1, <2>2, <2>4 DEF Open
<1>5. \/ ~Open(w)
      \/ Open(w) /\ u = Closed(t)
      \/ Open(w) /\ keys \cap KeysOf(t) = {} /\ u = [t EXCEPT !.dirty = @ \cup keys]
  BY DEF DirtyTx
<1> QED BY <1>2, <1>3, <1>4, <1>5

(* A step of the owner that writes the index.                               *)
LEMMA BuilderWrite ==
  ASSUME IInv, IInv', JInv, NEW b \in Builder, Owns(b), NEW u, task' = [task EXCEPT ![b] = u],
         UNCHANGED <<kind, table, catalog, bs, inactive>>,
         NEW keys, keys \subseteq Key, tx' = DirtyTx(keys),
         WriterOK', QueueOK', MarksOK',
         u.pc \notin {"drain", "publish", "index"},
         u.pc \in {"clean", "scan"} => DOMAIN u.batch = {},
         OwnerTaskOK(u)', ScanOK(u)', bs.complete => CompleteOK'
  PROVE  JInv'
<1>1. /\ Types /\ StateOK /\ Types' /\ StateOK' /\ Active
      /\ task'[b] = u /\ \A c \in Builder : c # b => task'[c] = task[c]
  BY OwnerActive DEF IInv, Types
<1>2. \A w \in Writer : /\ tx'[w].gen = 0 \/ (tx'[w].gen = tx[w].gen /\ tx'[w].ticket = tx[w].ticket)
                        /\ tx[w].pc = "crashed" => tx'[w].pc = "crashed"
  <2> SUFFICES ASSUME NEW w \in Writer
               PROVE  /\ tx'[w].gen = 0 \/ (tx'[w].gen = tx[w].gen /\ tx'[w].ticket = tx[w].ticket)
                      /\ tx[w].pc = "crashed" => tx'[w].pc = "crashed"
    OBVIOUS
  <2>1. PICK t, x : t = tx[w] /\ x = DirtyTx(keys)[w]
    OBVIOUS
  <2>2. x = tx'[w]
    BY <2>1
  <2>3. /\ x.gen = 0 \/ (x.gen = t.gen /\ x.ticket = t.ticket)
        /\ t.pc = "crashed" => x.pc = "crashed"
    BY <1>1, <2>1, DirtyTxAged
  <2> QED BY <2>1, <2>2, <2>3
<1>3. TicketsOK'
  <2>1. bs'.gen = bs.gen /\ bs.ticket <= bs'.ticket
    BY <1>1 DEF StateOK, StateType
  <2> QED BY <1>1, <1>2, <2>1, TicketsFrame DEF JInv
<1>4. InactiveOK'
  BY <1>1, <1>2 DEF JInv, InactiveOK, Types
<1>5. StartOK'
  <2>1. \A c \in Builder : ~Starting(c)'
    BY <1>1 DEF Starting, JInv, StartOK
  <2> QED BY <2>1 DEF StartOK
<1>6. \A c \in Builder : c # b => ~Owns(c) /\ ~Owns(c)'
  BY DEF Owns
<1>7. TasksOK'
  <2>1. \A c \in Builder : task'[c].pc # "index"
    BY <1>1, <1>6 DEF JInv, TasksOK
  <2>2. \A c \in Builder : task'[c].pc \in {"clean", "scan"} => DOMAIN task'[c].batch = {}
    BY <1>1 DEF JInv, TasksOK
  <2>3. \A c \in Builder : Owns(c)' => OwnerTaskOK(task[c])'
    BY <1>1, <1>6 DEF OwnerTaskOK
  <2> QED BY <2>1, <2>2, <2>3 DEF TasksOK
<1>8. IndexOK'
  <2>1. \A c \in Builder : Owns(c)' => ScanOK(task[c])'
    BY <1>1, <1>6 DEF ScanOK, IdxScanOK, CountScanOK, BatchEntries
  <2>2. bs'.phase \notin {"Online", "none"}
    BY <1>1 DEF Active
  <2> QED BY <2>1, <2>2 DEF IndexOK
<1> QED BY <1>3, <1>4, <1>5, <1>7, <1>8 DEF JInv

(* The transactions that stay open when the owner has written the index.    *)
LEMMA BuilderWriters ==
  ASSUME IInv, IInv', JInv, Active, UNCHANGED <<kind, table, catalog, bs>>, bg' \subseteq bg,
         Scan => bp' = bp,
         NEW keys, keys \subseteq Key, tx' = DirtyTx(keys),
         \A r : <<r>> \notin keys,
         \A g \in 1..MaxRuns, r \in Rec : <<"bp", g, r>> \in keys => g <= bs.gen /\ ~Scan,
         \A w \in Writer : Open(w) /\ tx[w].gen > 0 =>
            \A x \in br : x.node = w /\ x.gen = tx[w].gen /\ x.ticket = tx[w].ticket => x \in br',
         \A w \in Writer, e \in Entry :
            kind = "Idx" /\ Open(w) /\ e \in tx[w].put \cup tx[w].del /\ e \notin keys
                /\ ~Cleaned /\ index[e] = 1 => index'[e] = 1 /\ ~Cleaned'
  PROVE  WriterOK'
<1> SUFFICES ASSUME NEW w \in Writer, Open(w)'
             PROVE  TxInv(tx[w], w)'
  BY DEF WriterOK
<1>1. PICK t, u : t = tx[w] /\ u = DirtyTx(keys)[w]
  OBVIOUS
<1>2. u = tx'[w] /\ u.pc \in {"open", "fence"} /\ Types /\ StateOK /\ StateOK'
  BY <1>1 DEF Open, IInv
<1>3. /\ Open(w) /\ keys \cap KeysOf(t) = {} /\ u.dirty = t.dirty \cup keys
      /\ OwnQueueOK(t) => Aged(t, u)
  BY <1>1, <1>2, DirtyTxAged
<1>4. TxInv(t, w) /\ TxOK(t) /\ t \in TxType
  BY <1>1, <1>2, <1>3 DEF JInv, WriterOK, Types, TxOK, TxCore
<1>5. Aged(t, u) /\ OwnQueueOK(t) /\ OwnQueueOK(u)
  BY <1>3, <1>4, OwnQueueFrame DEF TxInv
<1>6. AdmissionOK(u, w)'
  <2>1. /\ bs'.gen = bs.gen /\ bs.ticket <= bs'.ticket /\ (Active' => Active)
        /\ bs'.phase = bs.phase /\ (bs.complete => bs'.complete)
    BY <1>2 DEF Active, StateOK, StateType
  <2>2. \A x \in br : x.node = w /\ x.gen = t.gen /\ x.ticket = t.ticket /\ t.gen > 0 => x \in br'
    BY <1>1, <1>3
  <2>3. \A a \in bg' : t.gen > 0 => a \in bg \/ (a.ticket # t.ticket /\ <<a.rec>> \in u.dirty)
    OBVIOUS
  <2>4. \A g \in 1..MaxRuns, r \in Rec : <<"bp", g, r>> \in u.dirty \ t.dirty => g <= bs.gen
    BY <1>3
  <2> QED BY <1>2, <1>4, <1>5, <2>1, <2>2, <2>3, <2>4, AdmissionFrame DEF TxInv
<1>7. OwnMarksOK(u)'
  <2>1. Scan' => Scan
    BY DEF Scan, Active
  <2>2. Scan' => /\ bp \subseteq bp' /\ \A p \in bp' \ bp, m \in t.marks : p.rec # m.rec
    BY <2>1
  <2>3. Scan' => \A r \in Rec : <<"bp", bs.gen, r>> \notin u.dirty \ t.dirty
    <3>1. bs.gen \in 1..MaxRuns
      BY <1>2 DEF StateOK, StateType, Active
    <3> QED BY <1>3, <2>1, <3>1
  <2> QED BY <1>4, <1>5, <2>1, <2>2, <2>3, OwnMarksFrame DEF TxInv
<1>8. DirectOK(u)'
  BY <1>4, <1>5, DirectFrame DEF TxInv
<1>9. DirectIdxOK(u)'
  <2>1. t.put \subseteq Entry /\ t.del \subseteq Entry
    BY <1>4 DEF TxType
  <2>2. kind = "Idx" => \A e \in t.put \cup t.del : e \notin keys
    BY <1>3 DEF KeysOf, EntryKeys
  <2>3. kind = "Idx" =>
           /\ \A r \in DOMAIN t.writes : table'[r] = table[r]
           /\ \A e \in t.put \cup t.del : index[e] = 1 /\ ~Cleaned => index'[e] = 1 /\ ~Cleaned'
    BY <1>1, <1>3, <2>1, <2>2
  <2> QED BY <1>4, <1>5, <2>3, DirectIdxFrame DEF TxInv
<1>10. DirectCountOK(u)'
  <2>1. Ready' <=> Ready
    BY DEF Ready
  <2> QED BY <1>4, <1>5, <2>1, DirectCountFrame DEF TxInv
<1>11. SnapOK(u)'
  <2>1. ~Ready'
    BY DEF Ready, Active
  <2> QED BY <2>1 DEF SnapOK
<1>12. TxInv(u, w)'
  BY <1>5, <1>6, <1>7, <1>8, <1>9, <1>10, <1>11 DEF TxInv
<1> QED BY <1>2, <1>12, TxInvPrimed

(* The owner deletes the data of the index, which fails the transactions    *)
(* that have deleted some of it.                                            *)
LEMMA CleanJ ==
  ASSUME IInv, IInv', JInv, NEW b \in Builder, Clean(b)
  PROVE  JInv'
<1>1. PICK t, u, keys : /\ t = task[b] /\ u = Scanning(t)
                        /\ keys = EntryKeys({e \in Entry : index[e] # 0})
  OBVIOUS
<1>2. /\ t.pc = "clean" /\ Owns(b) /\ bs.phase = "Building" /\ Active /\ TaskOK(t)
      /\ index' = NoEntries /\ tx' = DirtyTx(keys)
      /\ UNCHANGED <<kind, table, catalog, bs, bg, bp, br, runs, inactive>>
  BY <1>1 DEF Clean, IInv, Types, Active
<1>3. task' = [task EXCEPT ![b] = u]
  BY <1>1 DEF Clean, IInv, Types, Scanning
<1>4. keys \subseteq Entry /\ keys \subseteq Key
  BY <1>1 DEF EntryKeys, Key
<1>5. kind = "Idx" => \A e \in Entry : index[e] = 1 => e \in keys
  BY <1>1 DEF EntryKeys
<1>6. u.pc = "scan" /\ u.todo = Rec /\ u.batch = t.batch /\ u.keys = t.keys
  BY <1>1, <1>2, ScanningFields
<1>7. OwnerTaskOK(t) /\ DOMAIN t.batch = {}
  BY <1>1, <1>2 DEF JInv, TasksOK
<1>8. \A r : <<r>> \notin keys
  BY <1>4, TupleKinds
<1>9. \A g \in 1..MaxRuns, r \in Rec : <<"bp", g, r>> \notin keys
  BY <1>4, TupleKinds
<1>10. WriterOK'
  BY <1>2, <1>4, <1>5, <1>8, <1>9, BuilderWriters
<1>11. QueueOK' /\ MarksOK'
  BY <1>2 DEF JInv, QueueOK, MarksOK, Scan, Active
<1>12. OwnerTaskOK(u)' /\ ~bs.complete
  BY <1>2, <1>6, <1>7 DEF OwnerTaskOK, Replaying
<1>13. ScanOK(u)'
  <2>1. \A e \in Entry : index'[e] = 0 /\ e[1] \in Rec
    BY <1>2 DEF NoEntries, Entry
  <2>2. IdxScanOK(u)'
    BY <1>6, <1>7, <2>1 DEF IdxScanOK
  <2>3. CountScanOK(u)'
    BY <1>6, <1>7, <2>1 DEF CountScanOK
  <2> QED BY <2>2, <2>3 DEF ScanOK
<1> QED BY <1>2, <1>3, <1>4, <1>6, <1>7, <1>10, <1>11, <1>12, <1>13, BuilderWrite

(* The owner commits a batch: what the scan is to have of its records.      *)
LEMMA IndexBatchJ ==
  ASSUME IInv, IInv', JInv, NEW b \in Builder, IndexBatch(b)
  PROVE  JInv'
<1>1. PICK t, u, new, keys : /\ t = task[b] /\ u = HavingIndexed(t)
                             /\ new = BatchEntries(t) /\ keys = EntryKeys(new)
  OBVIOUS
<1>2. /\ t.pc = "index" /\ TaskOK(t) /\ t \in TaskType
      /\ index' = Indexed(new, {}) /\ tx' = DirtyTx(keys)
      /\ UNCHANGED <<kind, table, catalog, bs, bg, bp, br, runs, inactive>>
  BY <1>1 DEF IndexBatch, IInv, Types, TaskOK
<1>3. task' = [task EXCEPT ![b] = u]
  BY <1>1, <1>2 DEF IndexBatch, HavingIndexed, IInv, Types
<1>4. Owns(b) /\ OwnerTaskOK(t) /\ ScanOK(t)
  BY <1>1, <1>2 DEF JInv, TasksOK, IndexOK
<1>5. Active /\ Cleaned
  <2>1. Active
    BY <1>4, OwnerActive
  <2> QED BY <1>1, <1>2, <1>4, <2>1 DEF Cleaned
<1>6. new \subseteq Entry /\ keys \subseteq Entry /\ keys \subseteq Key
  <2>1. \A a \in t.keys : EntriesOf(a.rec, a.new) \subseteq Entry
    BY <1>2 DEF TaskType, Appending, EntriesOf, Entry
  <2> QED BY <1>1, <2>1 DEF BatchEntries, EntryKeys, Key
<1>7. u.pc = "scan" /\ u.todo = t.todo /\ u.batch = << >> /\ u.keys = {} /\ DOMAIN u.batch = {}
  BY <1>1, <1>2, HavingIndexedFields
<1>8. \A r : <<r>> \notin keys
  BY <1>6, TupleKinds
<1>9. \A g \in 1..MaxRuns, r \in Rec : <<"bp", g, r>> \notin keys
  BY <1>6, TupleKinds
<1>10. WriterOK'
  BY <1>2, <1>5, <1>6, <1>8, <1>9, BuilderWriters
<1>11. QueueOK' /\ MarksOK'
  BY <1>2 DEF JInv, QueueOK, MarksOK, Scan, Active
<1>12. OwnerTaskOK(u)' /\ ~bs.complete
  BY <1>2, <1>4, <1>7 DEF OwnerTaskOK, Replaying
<1>13. \A e \in Entry : index[e] \in Int /\ index'[e] = IF e \in new THEN (IF kind = "Count" THEN index[e] + 1 ELSE 1)
                                      ELSE index[e]
  BY <1>2 DEF Indexed, IInv, Types
<1>14. ASSUME kind = "Idx" PROVE IdxScanOK(u)'
  <2>1. IdxScanOK(t)
    BY <1>2, <1>4, <1>14 DEF ScanOK
  <2> SUFFICES ASSUME NEW e \in Entry
               PROVE  /\ index'[e] \in {0, 1}
                      /\ ~Touched(bg, e) =>
                           /\ index'[e] = 1 => table[e[1]] = e[2]
                           /\ e[1] \notin t.todo /\ table[e[1]] = e[2] => index'[e] = 1
    BY <1>2, <1>7 DEF IdxScanOK
  <2>2. index'[e] = IF e \in new THEN 1 ELSE index[e]
    BY <1>13, <1>14
  <2> QED BY <1>1, <1>2, <2>1, <2>2 DEF IdxScanOK
<1>15. ASSUME kind = "Count" PROVE CountScanOK(u)'
  <2>1. CountScanOK(t)
    BY <1>2, <1>4, <1>15 DEF ScanOK
  <2> SUFFICES ASSUME NEW e \in Entry
               PROVE  /\ e[1] \in t.todo => index'[e] = 0
                      /\ e[1] \notin t.todo => index'[e] = IF Base(e) THEN 1 ELSE 0
    BY <1>2, <1>7 DEF CountScanOK, Base
  <2>2. index'[e] = IF e \in new THEN index[e] + 1 ELSE index[e]
    BY <1>13, <1>15
  <2> QED BY <1>1, <1>2, <2>1, <2>2 DEF CountScanOK
<1>16. ScanOK(u)'
  BY <1>2, <1>14, <1>15 DEF ScanOK
<1> QED BY <1>2, <1>3, <1>4, <1>6, <1>7, <1>10, <1>11, <1>12, <1>16, BuilderWrite

(* What the replay makes of an entry: for a count, what the mutations add   *)
(* and remove; otherwise what the last one that touches it says.            *)
LEMMA ReplayedCount ==
  ASSUME kind = "Count", NEW K, NEW e \in Entry
  PROVE  Replayed(K)[e] = index[e] + Cardinality(Adding(K, e)) - Cardinality(Removing(K, e))
BY DEF Replayed, Adding, Removing

(* A replay sets an entry by the last mutation that touches it.             *)
LEMMA ReplayedIdx ==
  ASSUME kind = "Idx", NEW K \in SUBSET Appending, NEW e \in Entry
  PROVE  /\ ~Touched(K, e) => Replayed(K)[e] = index[e]
         /\ Touched(K, e) => \E a \in K :
               /\ Touches(a, e) /\ \A c \in K : Touches(c, e) => ~Before(a, c)
               /\ Replayed(K)[e] = IF a.new = e[2] THEN 1 ELSE 0
<1> DEFINE puts == {a \in K : a.rec = e[1] /\ a.new = e[2]}
           dels == {a \in K : a.rec = e[1] /\ a.old = e[2]}
           last == CHOOSE a \in puts \cup dels : \A c \in puts \cup dels : ~Before(a, c)
<1>1. Replayed(K)[e] = IF puts \cup dels # {} THEN IF last \in puts THEN 1 ELSE 0 ELSE index[e]
  BY DEF Replayed
<1>2. \A a : a \in puts \cup dels <=> a \in K /\ Touches(a, e)
  BY DEF Touches
<1>3. \A a \in K : Touches(a, e) => (a \in puts <=> a.new = e[2])
  BY DEF Touches
<1>4. puts \cup dels # {} <=> Touched(K, e)
  BY <1>2 DEF Touched
<1> HIDE DEF puts, dels
<1>5. ASSUME Touched(K, e)
      PROVE  last \in puts \cup dels /\ \A c \in puts \cup dels : ~Before(last, c)
  <2>1. puts \cup dels \in SUBSET Appending
    BY <1>2
  <2>2. \E a \in puts \cup dels : \A c \in puts \cup dels : ~Before(a, c)
    BY <1>4, <1>5, <2>1, MaxExists
  <2> QED BY <2>2
<1> HIDE DEF last
<1> QED BY <1>1, <1>2, <1>3, <1>4, <1>5

(* The replay takes the index from what the queue found to what is left of  *)
(* the queue.                                                               *)
LEMMA ReplayComplete ==
  ASSUME Types, CompleteOK, NEW K, Prefix(K, bg), IsFiniteSet(K), Chain(bg, table),
         index' = Replayed(K), bg' = bg \ K, UNCHANGED <<kind, table>>
  PROVE  CompleteOK'
<1>1. bg \in SUBSET Appending /\ K \in SUBSET Appending /\ K \subseteq bg
  BY DEF Types, Prefix
<1>2. ASSUME NEW e \in Entry, kind = "Idx"
      PROVE  index'[e] \in {0, 1} /\ (~Touched(bg', e) => (index'[e] = 1 <=> table[e[1]] = e[2]))
  <2>1. index[e] \in {0, 1} /\ (~Touched(bg, e) => (index[e] = 1 <=> table[e[1]] = e[2]))
    BY <1>2 DEF CompleteOK
  <2>2. CASE ~Touched(K, e)
    <3>1. index'[e] = index[e]
      BY <1>1, <1>2, <2>2, ReplayedIdx
    <3>2. ~Touched(bg', e) => ~Touched(bg, e)
      BY <2>2 DEF Touched
    <3> QED BY <2>1, <3>1, <3>2
  <2>3. CASE Touched(K, e)
    <3>1. PICK a \in K : /\ Touches(a, e) /\ \A c \in K : Touches(c, e) => ~Before(a, c)
                         /\ index'[e] = IF a.new = e[2] THEN 1 ELSE 0
      BY <1>1, <1>2, <2>3, ReplayedIdx
    <3>2. ~Touched(bg \ K, e) => (a.new = e[2] <=> table[e[1]] = e[2])
      BY <1>1, <3>1, LastDecides
    <3> QED BY <3>1, <3>2
  <2> QED BY <2>2, <2>3
<1>3. ASSUME NEW e \in Entry, kind = "Count"
      PROVE  index'[e] = IF BaseOf(bg', table, e) THEN 1 ELSE 0
  <2>1. index[e] = One(BaseOf(bg, table, e))
    BY <1>3 DEF CompleteOK, Base, One
  <2>2. index'[e] = index[e] + Cardinality(Adding(K, e)) - Cardinality(Removing(K, e))
    BY <1>3, ReplayedCount
  <2>3. One(BaseOf(bg, table, e)) + Cardinality(Adding(K, e)) - Cardinality(Removing(K, e))
            = One(BaseOf(bg \ K, table, e))
    BY <1>1, ReplayCounts
  <2> QED BY <2>1, <2>2, <2>3 DEF One
<1> QED BY <1>2, <1>3 DEF CompleteOK, Base

(* A replay cuts a prefix of every chain and moves the index to the new     *)
(* bases.                                                                   *)
LEMMA ReplayJ ==
  ASSUME IInv, IInv', JInv, NEW b \in Builder, Replay(b)
  PROVE  JInv'
<1>1. PICK t, none, u, marks, changed, keys :
         /\ t = task[b] /\ none = {} /\ u = HavingKeys(t, none)
         /\ marks = {m \in bp : m.gen = t.gen /\ \E a \in t.keys : a.rec = m.rec}
         /\ changed = {e \in Entry : Replayed(t.keys)[e] # index[e]}
         /\ keys = EntryKeys(changed) \cup {MarkKey(m) : m \in marks}
  OBVIOUS
<1>2. /\ t.pc \in Replaying /\ Owns(b) /\ Active /\ Types /\ TaskOK(t)
      /\ index' = Replayed(t.keys) /\ bg' = bg \ t.keys /\ bp' = bp \ marks
      /\ br' = {x \in br : \A a \in t.keys : ~(a.gen = x.gen /\ a.ticket = x.ticket)}
      /\ tx' = DirtyTx(keys)
      /\ UNCHANGED <<kind, table, catalog, bs, runs, inactive>>
  BY <1>1 DEF Replay, IInv, Types, Replaying
<1>3. task' = [task EXCEPT ![b] = u]
  BY <1>1, <1>2 DEF Replay, HavingKeys
<1>4. /\ bs.complete /\ CompleteOK /\ ~Scan /\ Cleaned /\ OwnerTaskOK(t)
      /\ Prefix(t.keys, bg) /\ IsFiniteSet(t.keys)
  <2>1. bs.complete
    BY <1>1, <1>2 DEF IInv, OwnerOK
  <2>2. CompleteOK /\ ~Scan /\ Cleaned
    BY <1>2, <2>1 DEF JInv, IndexOK, Scan, Cleaned
  <2>3. OwnerTaskOK(t)
    BY <1>1, <1>2 DEF JInv, TasksOK
  <2> QED BY <1>2, <2>1, <2>2, <2>3 DEF OwnerTaskOK, TaskOK
<1>5. u.pc = t.pc /\ u.keys = {}
  <2>1. none \in SUBSET Appending
    BY <1>1
  <2> QED BY <1>1, <1>2, <2>1, HavingKeysFields
<1>6. EntryKeys(changed) \subseteq Entry /\ marks \subseteq bp
  BY <1>1 DEF EntryKeys
<1>7. keys \subseteq Key
  <2>1. \A m \in marks : MarkKey(m) \in Key
    BY <1>2, <1>6 DEF Types, MarkKey, Key, Primary
  <2> QED BY <1>1, <1>6, <2>1 DEF Key
<1>8. \A r : <<r>> \notin keys
  BY <1>1, <1>6, TupleKinds DEF MarkKey
<1>9. \A g \in 1..MaxRuns, r \in Rec : <<"bp", g, r>> \in keys => g <= bs.gen
  <2> SUFFICES ASSUME NEW g \in 1..MaxRuns, NEW r \in Rec, <<"bp", g, r>> \in keys
               PROVE  g <= bs.gen
    OBVIOUS
  <2>1. PICK m \in marks : <<"bp", g, r>> = MarkKey(m)
    BY <1>1, <1>6, TupleKinds
  <2>2. m.gen = bs.gen
    BY <1>6, <2>1 DEF JInv, QueueOK
  <2>3. g = m.gen
    BY <2>1 DEF MarkKey
  <2> QED BY <2>2, <2>3
<1>10. ASSUME NEW w \in Writer, Open(w), tx[w].gen > 0,
              NEW x \in br, x.node = w, x.gen = tx[w].gen, x.ticket = tx[w].ticket
       PROVE  x \in br'
  <2>1. PICK d : d = tx[w]
    OBVIOUS
  <2>2. TxInv(d, w)
    BY <1>10, <2>1 DEF JInv, WriterOK
  <2>3. \A a \in bg : a.ticket # d.ticket
    BY <1>10, <2>1, <2>2 DEF TxInv, AdmissionOK
  <2> QED BY <1>2, <1>4, <1>10, <2>1, <2>3 DEF Prefix
<1>11. WriterOK'
  <2>1. bg' \subseteq bg
    BY <1>2
  <2> QED BY <1>2, <1>4, <1>7, <1>8, <1>9, <1>10, <2>1, BuilderWriters
<1>12. QueueOK' /\ MarksOK'
  <2>1. Chain(bg', table')
    BY <1>2, <1>4, PrefixChain DEF JInv, QueueOK, Types
  <2>2. QueueOK'
    BY <1>2, <2>1 DEF JInv, QueueOK
  <2> QED BY <1>2, <1>4, <2>2 DEF MarksOK, Scan, Active
<1>13. CompleteOK'
  BY <1>2, <1>4, ReplayComplete DEF JInv, QueueOK
<1>14. OwnerTaskOK(u)'
  <2>1. ASSUME t.pc = "replay3", NEW w \in Writer, Open(w)'
        PROVE  tx'[w].gen = 0
    <3>1. PICK d, x : d = tx[w] /\ x = DirtyTx(keys)[w]
      OBVIOUS
    <3>2. x = tx'[w] /\ x.pc \in {"open", "fence"}
      BY <1>2, <2>1, <3>1 DEF Open
    <3>3. Open(w) /\ (x.gen = 0 \/ x.gen = d.gen)
      BY <1>2, <1>7, <3>1, <3>2, DirtyTxAged
    <3>4. d.gen = 0
      BY <1>4, <2>1, <3>1, <3>3 DEF OwnerTaskOK
    <3> QED BY <3>2, <3>3, <3>4
  <2> QED BY <1>2, <1>5, <2>1, EmptyPrefix DEF OwnerTaskOK, Replaying
<1>15. ScanOK(u)' /\ u.pc \notin {"drain", "publish", "index", "clean", "scan"}
  BY <1>2, <1>5 DEF ScanOK, Replaying
<1> QED BY <1>2, <1>3, <1>7, <1>11, <1>12, <1>13, <1>14, <1>15, BuilderWrite

----------------------------------------------------------------------------
(* A transaction that commits. *)

(* What a commit writes, and what the invariant says of it.                 *)
LEMMA CommitFacts ==
  ASSUME IInv, JInv, NEW w \in Writer, Commit(w), NEW t, t = tx[w]
  PROVE  /\ Types /\ StateOK /\ TxOK(t) /\ t \in TxType /\ TxInv(t, w) /\ t.pc = "open" /\ Open(w)
         /\ KeysOf(t) \subseteq Key /\ DOMAIN t.writes \subseteq Rec
         /\ \A r \in Rec : table'[r] = IF r \in DOMAIN t.writes THEN t.writes[r] ELSE table[r]
         /\ \A r : <<r>> \in KeysOf(t) <=> r \in DOMAIN t.writes
         /\ t.queue # {} => t.gen > 0 /\ t.gen = bs.gen
         /\ \A a \in t.queue : /\ a.gen = bs.gen /\ a.ticket = t.ticket /\ a \in Appending
                               /\ a.rec \in DOMAIN t.writes
         /\ \A m \in t.marks : m.gen = bs.gen /\ t.gen > 0
         /\ bg' = bg \cup t.queue /\ bp' = bp \cup t.marks /\ index' = Indexed(t.put, t.del)
         /\ task' = DirtyTask(KeysOf(t))
         /\ UNCHANGED <<kind, catalog, bs, br, runs, inactive>>
<1>1. /\ t.pc = "open" /\ table' = [r \in Rec |-> Current(t, r)]
      /\ bg' = bg \cup t.queue /\ bp' = bp \cup t.marks /\ index' = Indexed(t.put, t.del)
      /\ task' = DirtyTask(KeysOf(t))
      /\ UNCHANGED <<kind, catalog, bs, br, runs, inactive>>
  BY DEF Commit
<1>2. Types /\ StateOK /\ TxOK(t) /\ t \in TxType
  BY DEF IInv, Types, TxOK, TxCore
<1>3. Open(w) /\ TxInv(t, w)
  <2>1. Open(w)
    BY <1>1 DEF Open
  <2> QED BY <2>1 DEF JInv, WriterOK
<1>4. KeysOf(t) \subseteq Key
  BY <1>2, KeysOfType
<1>5. DOMAIN t.writes \subseteq Rec
  BY <1>2 DEF TxType, Partial
<1>6. \A r \in Rec : table'[r] = IF r \in DOMAIN t.writes THEN t.writes[r] ELSE table[r]
  BY <1>1 DEF Current
<1>7. \A r : <<r>> \in KeysOf(t) <=> r \in DOMAIN t.writes
  <2>1. EntryKeys(t.put \cup t.del) \subseteq Entry
    BY <1>2 DEF EntryKeys, TxType
  <2>2. ASSUME NEW r PROVE <<r>> \notin EntryKeys(t.put \cup t.del)
    BY <2>1, TupleKinds
  <2>3. ASSUME NEW r, NEW m PROVE <<r>> # MarkKey(m)
    BY DEF MarkKey
  <2> QED BY <2>2, <2>3 DEF KeysOf
<1>8. t.gen \in Nat /\ (t.queue # {} => t.gen > 0)
  BY <1>2 DEF TxOK, TxCore, TxType
<1>9. t.gen > 0 => t.gen = bs.gen
  BY <1>3 DEF TxInv, AdmissionOK
<1>10. \A a \in t.queue : /\ a.gen = bs.gen /\ a.ticket = t.ticket /\ a \in Appending
                          /\ a.rec \in DOMAIN t.writes
  BY <1>2, <1>3, <1>8, <1>9 DEF TxInv, OwnQueueOK, TxType
<1>11. \A m \in t.marks : m.gen = bs.gen /\ t.gen > 0
  BY <1>2, <1>8, <1>10 DEF TxOK, TxCore
<1> QED BY <1>1, <1>2, <1>3, <1>4, <1>5, <1>6, <1>7, <1>8, <1>9, <1>10, <1>11

(* Its mutations follow those that are queued, and begin where they end.    *)
LEMMA CommitFollows ==
  ASSUME IInv, JInv, NEW w \in Writer, Commit(w), NEW t, t = tx[w]
  PROVE  /\ Follows(t.queue, bg)
         /\ Chain(t.queue, t.writes)
         /\ \A a \in bg, c \in t.queue : a.ticket # c.ticket
         /\ \A r \in Rec : About(bg, r) => ~Direct(t, r)
         /\ \A c \in t.queue : First(t.queue, c) => c.old = table[c.rec] \/ Direct(t, c.rec)
         /\ \A r \in Rec : (catalog = "defined" /\ ~About(t.queue, r) /\ ~Direct(t, r))
                              => table'[r] = table[r]
<1>1. /\ TxInv(t, w) /\ Types /\ DOMAIN t.writes \subseteq Rec
      /\ \A r \in Rec : table'[r] = IF r \in DOMAIN t.writes THEN t.writes[r] ELSE table[r]
      /\ t.queue # {} => t.gen > 0
      /\ \A a \in t.queue : a.ticket = t.ticket /\ a.rec \in DOMAIN t.writes
  BY CommitFacts
<1>2. Chain(t.queue, t.writes) /\ \A r \in DOMAIN t.writes : <<r>> \notin t.dirty
  BY <1>1 DEF TxInv, OwnQueueOK
<1>3. t.gen > 0 => /\ \A a \in bg : a.ticket # t.ticket
                   /\ \A a \in bg : a.ticket < t.ticket \/ <<a.rec>> \in t.dirty
  BY <1>1 DEF TxInv, AdmissionOK
<1>4. \A a \in bg, c \in t.queue : a.ticket # c.ticket
  BY <1>1, <1>3
<1>5. Follows(t.queue, bg)
  BY <1>1, <1>2, <1>3 DEF Follows, Before
<1>6. /\ \A e \in t.put \cup t.del : e[1] \in DOMAIN t.writes /\ ~About(bg, e[1])
      /\ \A r \in DOMAIN t.writes :
            t.sees => About(t.queue, r) \/ Direct(t, r) \/ t.writes[r] = table[r]
      /\ \A c \in t.queue : First(t.queue, c) => c.old = table[c.rec] \/ Direct(t, c.rec)
  BY <1>1 DEF TxInv, DirectOK
<1>7. \A r \in Rec : About(bg, r) => ~Direct(t, r)
  BY <1>6 DEF Direct
<1>8. t.sees <=> catalog = "defined"
  BY <1>1 DEF TxInv, AdmissionOK
<1>9. \A r \in Rec : (catalog = "defined" /\ ~About(t.queue, r) /\ ~Direct(t, r))
                        => table'[r] = table[r]
  BY <1>1, <1>6, <1>8
<1> QED BY <1>2, <1>4, <1>5, <1>6, <1>7, <1>9

(* A commit joins its mutations to the chains, which end in the new table;  *)
(* marks point to the first ones.                                           *)
LEMMA CommitQueue ==
  ASSUME IInv, IInv', JInv, NEW w \in Writer, Commit(w)
  PROVE  QueueOK' /\ MarksOK'
<1>1. PICK t : t = tx[w]
  OBVIOUS
<1>2. /\ Types /\ TxInv(t, w) /\ t \in TxType /\ DOMAIN t.writes \subseteq Rec
      /\ \A r \in Rec : table'[r] = IF r \in DOMAIN t.writes THEN t.writes[r] ELSE table[r]
      /\ t.queue # {} => t.gen > 0 /\ t.gen = bs.gen
      /\ \A a \in t.queue : /\ a.gen = bs.gen /\ a.ticket = t.ticket /\ a \in Appending
                            /\ a.rec \in DOMAIN t.writes
      /\ \A m \in t.marks : m.gen = bs.gen
      /\ bg' = bg \cup t.queue /\ bp' = bp \cup t.marks
      /\ UNCHANGED <<catalog, bs, br>>
  BY <1>1, CommitFacts
<1>3. /\ Follows(t.queue, bg) /\ Chain(t.queue, t.writes)
      /\ \A a \in bg, c \in t.queue : a.ticket # c.ticket
      /\ \A r \in Rec : About(bg, r) => ~Direct(t, r)
      /\ \A c \in t.queue : First(t.queue, c) => c.old = table[c.rec] \/ Direct(t, c.rec)
      /\ \A r \in Rec : (catalog = "defined" /\ ~About(t.queue, r) /\ ~Direct(t, r))
                           => table'[r] = table[r]
  BY <1>1, CommitFollows
<1>4. bg \in SUBSET Appending /\ t.queue \in SUBSET Appending /\ QueueOK /\ Chain(bg, table)
  BY <1>2 DEF Types, TxType, JInv, QueueOK
<1>5. Chain(bg', table')
  <2>1. Distinct(t.queue) /\ Linked(t.queue) /\ Moves(t.queue) /\ EndsIn(t.queue, table')
    BY <1>2, <1>3 DEF Chain, EndsIn
  <2>2. \A c \in t.queue : First(t.queue, c) /\ About(bg, c.rec) => c.old = table[c.rec]
    BY <1>2, <1>3
  <2>3. ASSUME NEW a \in bg, ~About(t.queue, a.rec)
        PROVE  table'[a.rec] = table[a.rec]
    <3>1. a.rec \in Rec /\ About(bg, a.rec)
      BY <1>4 DEF Appending, About
    <3>2. catalog = "defined"
      BY DEF IInv, CatalogOK
    <3> QED BY <1>3, <2>3, <3>1, <3>2
  <2>4. Chain(bg \cup t.queue, table')
    BY <1>3, <1>4, <2>1, <2>2, <2>3, JoinChain
  <2> QED BY <1>2, <2>4
<1>6. QueueOK'
  <2>1. t.gen > 0 => t.ticket < bs.ticket /\ bs.phase # "Online"
    BY <1>2 DEF TxInv, AdmissionOK
  <2>2. \A a \in bg' : a.gen = bs.gen /\ a.ticket < bs.ticket
    BY <1>2, <1>4, <2>1 DEF QueueOK
  <2>3. bs.phase = "Online" => bg' = {}
    BY <1>2, <1>4, <2>1 DEF QueueOK
  <2>4. \A m \in bp' : m.gen = bs.gen
    BY <1>2, <1>4 DEF QueueOK
  <2> QED BY <1>2, <1>4, <1>5, <2>2, <2>3, <2>4 DEF QueueOK
<1>7. ASSUME Scan
      PROVE  /\ \A m \in bp' : PointsToFirst(bg', m)
             /\ \A a \in bg' : \E m \in bp' : m.rec = a.rec
  <2>1. /\ \A m \in bp : PointsToFirst(bg, m)
        /\ \A a \in bg : \E m \in bp : m.rec = a.rec
    BY <1>7 DEF JInv, MarksOK
  <2>2. /\ \A a \in t.queue : \E m \in bp \cup t.marks : m.rec = a.rec
        /\ \A m \in t.marks : PointsToFirst(t.queue, m) /\ \A p \in bp : p.rec # m.rec
    BY <1>2, <1>7 DEF TxInv, OwnMarksOK
  <2>3. ASSUME NEW m \in bp PROVE PointsToFirst(bg', m)
    <3>1. PICK a \in bg : /\ a.gen = m.gen /\ a.ticket = m.ticket /\ a.seq = m.seq
                          /\ a.rec = m.rec /\ First(bg, a)
      BY <2>1 DEF PointsToFirst
    <3>2. First(bg \cup t.queue, a)
      BY <1>3, <1>4, <3>1, JoinFirst
    <3> QED BY <1>2, <3>1, <3>2 DEF PointsToFirst
  <2>4. ASSUME NEW m \in t.marks PROVE PointsToFirst(bg', m)
    <3>1. PICK a \in t.queue : /\ a.gen = m.gen /\ a.ticket = m.ticket /\ a.seq = m.seq
                               /\ a.rec = m.rec /\ First(t.queue, a)
      BY <2>2 DEF PointsToFirst
    <3>2. \A c \in bg : c.rec # a.rec
      BY <2>1, <2>2, <3>1
    <3>3. First(bg \cup t.queue, a)
      BY <3>1, <3>2 DEF First
    <3> QED BY <1>2, <3>1, <3>3 DEF PointsToFirst
  <2> QED BY <1>2, <2>1, <2>2, <2>3, <2>4
<1>8. Scan' => Scan
  BY <1>2 DEF Scan, Active
<1>9. MarksOK'
  BY <1>7, <1>8 DEF MarksOK
<1> QED BY <1>6, <1>9

(* The transactions that stay open have written other records, and tickets  *)
(* of their own.                                                            *)
LEMMA CommitOther ==
  ASSUME IInv, IInv', JInv, NEW w \in Writer, Commit(w), NEW v \in Writer, v # w,
         NEW d, d = tx[v], NEW u, u = DirtyTx(KeysOf(tx[w]))[v], u.pc \in {"open", "fence"}
  PROVE  TxInv(u, v)'
<1>1. PICK t : t = tx[w]
  OBVIOUS
<1>2. /\ Types /\ StateOK /\ TxInv(t, w) /\ t \in TxType /\ Open(w)
      /\ KeysOf(t) \subseteq Key /\ DOMAIN t.writes \subseteq Rec
      /\ \A r \in Rec : table'[r] = IF r \in DOMAIN t.writes THEN t.writes[r] ELSE table[r]
      /\ \A r : <<r>> \in KeysOf(t) <=> r \in DOMAIN t.writes
      /\ \A a \in t.queue : /\ a.gen = bs.gen /\ a.ticket = t.ticket /\ a.rec \in DOMAIN t.writes
      /\ \A m \in t.marks : m.gen = bs.gen
  BY <1>1, CommitFacts
<1>3. /\ t.queue # {} => t.gen > 0 /\ t.gen = bs.gen
      /\ bg' = bg \cup t.queue /\ bp' = bp \cup t.marks /\ index' = Indexed(t.put, t.del)
      /\ task' = DirtyTask(KeysOf(t))
      /\ UNCHANGED <<kind, catalog, bs, br, runs, inactive>>
  BY <1>1, CommitFacts
<1>4. /\ Open(v) /\ KeysOf(t) \cap KeysOf(d) = {} /\ u.dirty = d.dirty \cup KeysOf(t)
      /\ OwnQueueOK(d) => Aged(d, u)
  <2>1. PICK keys : keys = KeysOf(t)
    OBVIOUS
  <2>2. keys \subseteq Key /\ u = DirtyTx(keys)[v]
    BY <1>1, <1>2, <2>1
  <2>3. /\ Open(v) /\ keys \cap KeysOf(d) = {} /\ u.dirty = d.dirty \cup keys
        /\ OwnQueueOK(d) => Aged(d, u)
    BY <1>2, <2>2, DirtyTxAged
  <2> QED BY <2>1, <2>3
<1>5. TxInv(d, v) /\ TxOK(d) /\ d \in TxType /\ StateOK'
  BY <1>2, <1>4 DEF JInv, WriterOK, Types, TxOK, TxCore, IInv
<1>6. Aged(d, u) /\ OwnQueueOK(d) /\ OwnQueueOK(u)
  BY <1>4, <1>5, OwnQueueFrame DEF TxInv
<1>7. DOMAIN d.writes \subseteq Rec /\ \A r \in DOMAIN d.writes : r \notin DOMAIN t.writes
  <2>1. DOMAIN d.writes \subseteq Rec
    BY <1>5 DEF TxType, Partial
  <2>2. \A r \in DOMAIN d.writes : <<r>> \in KeysOf(d)
    BY DEF KeysOf
  <2> QED BY <1>2, <1>4, <2>1, <2>2
<1>8. \A r \in DOMAIN d.writes : table'[r] = table[r]
  BY <1>2, <1>7
<1>9. ASSUME NEW g, NEW r, <<"bp", g, r>> \in KeysOf(t)
      PROVE  g = bs.gen /\ \E m \in t.marks : m.rec = r
  <2>1. EntryKeys(t.put \cup t.del) \subseteq Entry
    BY <1>2 DEF EntryKeys, TxType
  <2>2. PICK m \in t.marks : <<"bp", g, r>> = MarkKey(m)
    BY <1>9, <2>1, TupleKinds DEF KeysOf
  <2>3. g = m.gen /\ r = m.rec
    BY <2>2 DEF MarkKey
  <2> QED BY <1>2, <2>3
<1>10. AdmissionOK(u, v)'
  <2>1. /\ bs'.gen = bs.gen /\ bs.ticket <= bs'.ticket /\ (Active' => Active)
        /\ bs'.phase = bs.phase /\ (bs.complete => bs'.complete)
    BY <1>2, <1>3 DEF Active, StateOK, StateType
  <2>2. ASSUME NEW a \in bg', d.gen > 0
        PROVE  a \in bg \/ (a.ticket # d.ticket /\ <<a.rec>> \in u.dirty)
    <3> SUFFICES ASSUME a \in t.queue
                 PROVE  a.ticket # d.ticket /\ <<a.rec>> \in u.dirty
      BY <1>3
    <3>1. d.gen = bs.gen
      BY <1>5, <2>2 DEF TxInv, AdmissionOK
    <3>2. t.gen = bs.gen /\ bs.gen > 0
      BY <1>3
    <3>3. t.ticket # d.ticket
      BY <1>1, <3>1, <3>2 DEF JInv, TicketsOK
    <3> QED BY <1>2, <1>4, <3>3
  <2>3. \A g \in 1..MaxRuns, r \in Rec : <<"bp", g, r>> \in u.dirty \ d.dirty => g <= bs.gen
    BY <1>4, <1>9
  <2> QED BY <1>2, <1>3, <1>5, <1>6, <2>1, <2>2, <2>3, AdmissionFrame DEF TxInv
<1>11. OwnMarksOK(u)'
  <2>1. Scan' => Scan
    BY <1>3 DEF Scan, Active
  <2>2. ASSUME Scan, NEW p \in t.marks, NEW m \in d.marks
        PROVE  p.rec # m.rec
    <3>1. m.gen = d.gen
      BY <1>5, <2>2 DEF TxInv, OwnMarksOK
    <3>2. d.gen > 0
      BY <1>5 DEF TxOK, TxCore, TxType
    <3>3. d.gen = bs.gen /\ p.gen = bs.gen
      BY <1>2, <1>5, <3>2 DEF TxInv, AdmissionOK
    <3>4. MarkKey(p) \in KeysOf(t) /\ MarkKey(m) \in KeysOf(d)
      BY DEF KeysOf
    <3> QED BY <1>4, <3>1, <3>3, <3>4 DEF MarkKey
  <2>3. Scan' => /\ bp \subseteq bp' /\ \A p \in bp' \ bp, m \in d.marks : p.rec # m.rec
    BY <1>3, <2>1, <2>2
  <2>4. Scan' => \A r \in Rec : <<"bp", bs.gen, r>> \in u.dirty \ d.dirty =>
                                   \E m \in bp' : m.rec = r
    BY <1>3, <1>4, <1>9
  <2> QED BY <1>3, <1>5, <1>6, <2>1, <2>3, <2>4, OwnMarksFrame DEF TxInv
<1>12. DirectOK(u)'
  <2>1. \A r \in DOMAIN d.writes : \A a \in bg' : a.rec = r => a \in bg
    BY <1>2, <1>3, <1>7
  <2> QED BY <1>5, <1>6, <1>8, <2>1, DirectFrame DEF TxInv
<1>13. DirectIdxOK(u)'
  <2>1. Cleaned' => Cleaned
    BY <1>2, <1>3, DirtiedCleaned
  <2>2. ASSUME kind = "Idx", NEW e \in d.put \cup d.del, index[e] = 1
        PROVE  index'[e] = 1
    <3>1. e \in Entry
      BY <1>5 DEF TxType
    <3>2. e \notin t.put \cup t.del
      BY <1>4, <2>2 DEF KeysOf, EntryKeys
    <3> QED BY <1>3, <2>2, <3>1, <3>2 DEF Indexed
  <2>3. kind = "Idx" =>
           /\ \A r \in DOMAIN d.writes : table'[r] = table[r]
           /\ \A e \in d.put \cup d.del : index[e] = 1 /\ ~Cleaned => index'[e] = 1 /\ ~Cleaned'
    BY <1>8, <2>1, <2>2
  <2> QED BY <1>3, <1>5, <1>6, <2>3, DirectIdxFrame DEF TxInv
<1>14. DirectCountOK(u)'
  <2>1. Ready' <=> Ready
    BY <1>3 DEF Ready
  <2> QED BY <1>3, <1>5, <1>6, <1>8, <2>1, DirectCountFrame DEF TxInv
<1>15. SnapOK(u)'
  <2>1. Ready' /\ d.opened = bs'.gen => Ready /\ d.opened = bs.gen
    BY <1>3 DEF Ready
  <2>2. \A r \in Rec : <<r>> \notin u.dirty => table'[r] = table[r]
    BY <1>2, <1>4
  <2> QED BY <1>5, <1>6, <2>1, <2>2, SnapFrame DEF TxInv
<1> QED BY <1>6, <1>10, <1>11, <1>12, <1>13, <1>14, <1>15 DEF TxInv

(* The other transactions stay good or can no longer commit.                *)
LEMMA CommitWriters ==
  ASSUME IInv, IInv', JInv, NEW w \in Writer, Commit(w)
  PROVE  /\ WriterOK' /\ TicketsOK' /\ InactiveOK'
         /\ \A v \in Writer : Open(v)' => Open(v) /\ (tx'[v].gen = 0 \/ tx'[v].gen = tx[v].gen)
<1>1. PICK t, keys, c : t = tx[w] /\ keys = KeysOf(t) /\ c = Closed(t)
  OBVIOUS
<1>2. /\ Types /\ StateOK /\ TxOK(t) /\ Open(w) /\ keys \subseteq Key /\ t.pc = "open"
      /\ UNCHANGED <<kind, catalog, bs, br, runs, inactive>>
  BY <1>1, CommitFacts
<1>3. /\ c.pc \in {"idle", "release"} /\ c.gen = t.gen
      /\ t.gen = 0 \/ c.ticket = t.ticket
  <2>1. t.gen = 0 \/ t.gen > 0
    BY <1>2 DEF TxOK, TxCore, TxType
  <2> QED BY <1>1, <1>2, <2>1, ClosedOK
<1>4. tx'[w] = c /\ \A v \in Writer : v # w => tx'[v] = DirtyTx(keys)[v]
  <2>1. tx' = [DirtyTx(keys) EXCEPT ![w] = c]
    BY <1>1 DEF Commit
  <2>2. w \in DOMAIN DirtyTx(keys)
    BY DEF DirtyTx
  <2> QED BY <2>1, <2>2
<1>5. ASSUME NEW v \in Writer, v # w
      PROVE  /\ tx'[v].gen = 0 \/ (tx'[v].gen = tx[v].gen /\ tx'[v].ticket = tx[v].ticket)
             /\ tx[v].pc = "crashed" => tx'[v].pc = "crashed"
             /\ Open(v)' => Open(v) /\ TxInv(tx[v], v)'
  <2>1. PICK d, u : d = tx[v] /\ u = DirtyTx(keys)[v]
    OBVIOUS
  <2>2. u = tx'[v]
    BY <1>4, <1>5, <2>1
  <2>3. /\ u.gen = 0 \/ (u.gen = d.gen /\ u.ticket = d.ticket)
        /\ d.pc = "crashed" => u.pc = "crashed"
        /\ u.pc \in {"open", "fence"} => Open(v)
    BY <1>2, <2>1, DirtyTxAged
  <2>4. u.pc \in {"open", "fence"} => TxInv(u, v)'
    BY <1>1, <1>5, <2>1, CommitOther
  <2>5. Open(v)' => u.pc \in {"open", "fence"}
    BY <2>2 DEF Open
  <2>6. Open(v)' => TxInv(tx[v], v)'
    BY <2>2, <2>4, <2>5, TxInvPrimed
  <2> QED BY <2>1, <2>2, <2>3, <2>5, <2>6
<1>6. ~Open(w)'
  BY <1>3, <1>4 DEF Open
<1>7. WriterOK'
  BY <1>5, <1>6 DEF WriterOK
<1>8. TicketsOK'
  <2>1. bs'.gen = bs.gen /\ bs.ticket <= bs'.ticket /\ Types' /\ StateOK' /\ TicketsOK
    BY <1>2 DEF StateOK, StateType, IInv, JInv
  <2>2. \A v \in Writer :
           tx'[v].gen = 0 \/ (tx'[v].gen = tx[v].gen /\ tx'[v].ticket = tx[v].ticket)
    BY <1>1, <1>3, <1>4, <1>5
  <2> QED BY <1>2, <2>1, <2>2, TicketsFrame
<1>9. InactiveOK'
  <2>1. w \notin inactive
    BY <1>1, <1>2 DEF JInv, InactiveOK
  <2> QED BY <1>2, <1>5, <2>1 DEF JInv, InactiveOK, Types
<1>10. \A v \in Writer : Open(v)' => Open(v) /\ (tx'[v].gen = 0 \/ tx'[v].gen = tx[v].gen)
  BY <1>5, <1>6
<1> QED BY <1>7, <1>8, <1>9, <1>10

(* It knows the index that is built or that is ready.                       *)
LEMMA CommitSees ==
  ASSUME IInv, JInv, NEW w \in Writer, Commit(w), NEW t, t = tx[w], bs.phase # "none",
         ~RolledBack
  PROVE  catalog = "defined" /\ t.sees
<1>1. TxInv(t, w)
  BY CommitFacts
<1>2. (t.sees <=> catalog = "defined") /\ catalog # "open"
  BY <1>1 DEF TxInv, AdmissionOK
<1>3. catalog # "absent"
  BY DEF IInv, CatalogOK, NoState
<1> QED BY <1>2, <1>3 DEF IInv, Types, RolledBack

(* In a scan or a replay of a non-unique index, an entry that no mutation   *)
(* touches is left alone or follows its record.                             *)
LEMMA CommitIdx ==
  ASSUME IInv, JInv, NEW w \in Writer, Commit(w), ~RolledBack, kind = "Idx", Cleaned,
         NEW e \in Entry, ~Touched(bg', e)
  PROVE  /\ ~Touched(bg, e)
         /\ \/ table'[e[1]] = table[e[1]] /\ index'[e] = index[e]
            \/ /\ table[e[1]] # e[2]
               /\ table'[e[1]] = e[2] => index'[e] = 1
               /\ index'[e] = 1 => table'[e[1]] = e[2] \/ index[e] = 1
<1>1. PICK t : t = tx[w]
  OBVIOUS
<1>2. /\ TxInv(t, w) /\ t \in TxType /\ index' = Indexed(t.put, t.del)
      /\ \A r \in Rec : table'[r] = IF r \in DOMAIN t.writes THEN t.writes[r] ELSE table[r]
      /\ bg' = bg \cup t.queue
  BY <1>1, CommitFacts
<1>3. ~Touched(bg, e) /\ ~Touched(t.queue, e) /\ e[1] \in Rec
  BY <1>2 DEF Touched, Entry
<1>4. t.sees
  BY <1>1, CommitSees DEF Cleaned, Active
<1>5. index'[e] = IF e \in t.put THEN 1 ELSE IF e \in t.del THEN 0 ELSE index[e]
  BY <1>2 DEF Indexed
<1>6. CASE e[1] \notin DOMAIN t.writes
  <2>1. e \notin t.put \cup t.del
    BY <1>2, <1>6 DEF TxInv, DirectOK
  <2> QED BY <1>2, <1>3, <1>5, <1>6, <2>1
<1>7. CASE e[1] \in DOMAIN t.writes
  <2>1. /\ e \in t.put => t.writes[e[1]] = e[2]
        /\ t.writes[e[1]] = e[2] => e \in t.put
        /\ table[e[1]] # e[2]
    BY <1>2, <1>3, <1>4, <1>7 DEF TxInv, DirectIdxOK
  <2>2. table'[e[1]] = t.writes[e[1]]
    BY <1>2, <1>3, <1>7
  <2> QED BY <1>3, <1>5, <2>1, <2>2
<1> QED BY <1>6, <1>7

(* In a build of a Count index a transaction only queues, which leaves the  *)
(* base of the queue as it was.                                             *)
LEMMA CommitCount ==
  ASSUME IInv, JInv, NEW w \in Writer, Commit(w), ~RolledBack, kind = "Count", Active,
         NEW e \in Entry
  PROVE  /\ index'[e] = index[e]
         /\ BaseOf(bg', table', e) <=> BaseOf(bg, table, e)
         /\ ~About(bg', e[1]) => ~About(bg, e[1]) /\ table'[e[1]] = table[e[1]]
<1>1. PICK t : t = tx[w]
  OBVIOUS
<1>2. /\ Types /\ TxInv(t, w) /\ t \in TxType /\ index' = Indexed(t.put, t.del)
      /\ bg' = bg \cup t.queue
      /\ \A a \in t.queue : a.rec \in DOMAIN t.writes
  BY <1>1, CommitFacts
<1>3. t.sees /\ catalog = "defined" /\ ~Ready /\ e[1] \in Rec
  BY <1>1, CommitSees DEF Active, Ready, Entry
<1>4. t.put = {} /\ t.del = {}
  BY <1>2, <1>3 DEF TxInv, DirectCountOK
<1>5. index'[e] = index[e]
  BY <1>2, <1>4 DEF Indexed
<1>6. \A r : ~Direct(t, r)
  BY <1>4 DEF Direct
<1>7. /\ Follows(t.queue, bg) /\ Distinct(t.queue)
      /\ \A c \in t.queue : First(t.queue, c) => c.old = table[c.rec] \/ Direct(t, c.rec)
      /\ \A r \in Rec : (catalog = "defined" /\ ~About(t.queue, r) /\ ~Direct(t, r))
                           => table'[r] = table[r]
  <2>1. Chain(t.queue, t.writes) => Distinct(t.queue)
    BY DEF Chain
  <2> QED BY <1>1, <2>1, CommitFollows
<1>8. \A c \in t.queue : First(t.queue, c) /\ ~About(bg, c.rec) => c.old = table[c.rec]
  BY <1>6, <1>7
<1>9. ~About(t.queue, e[1]) => table'[e[1]] = table[e[1]]
  BY <1>3, <1>6, <1>7
<1>10. bg \in SUBSET Appending /\ t.queue \in SUBSET Appending
  BY <1>2 DEF Types, TxType
<1>11. BaseOf(bg \cup t.queue, table', e) <=> BaseOf(bg, table, e)
  BY <1>7, <1>8, <1>9, <1>10, JoinBase
<1>12. ~About(bg', e[1]) => ~About(bg, e[1]) /\ ~About(t.queue, e[1])
  BY <1>2 DEF About
<1> QED BY <1>2, <1>5, <1>9, <1>11, <1>12

(* In an index that is ready it replaces the entries of what it has written. *)
LEMMA CommitReady ==
  ASSUME IInv, JInv, NEW w \in Writer, Commit(w), Ready, catalog = "defined",
         index = Entries(table)
  PROVE  index' = Entries(table')
<1>1. PICK t : t = tx[w]
  OBVIOUS
<1>2. /\ Types /\ StateOK /\ TxInv(t, w) /\ t \in TxType /\ index' = Indexed(t.put, t.del)
      /\ \A r \in Rec : table'[r] = IF r \in DOMAIN t.writes THEN t.writes[r] ELSE table[r]
      /\ t.queue # {} => t.gen > 0
  BY <1>1, CommitFacts
<1>3. t.sees /\ (t.gen > 0 => t.gen = bs.gen /\ bs.phase # "Online")
  BY <1>2 DEF TxInv, AdmissionOK
<1>4. t.queue = {}
  BY <1>2, <1>3 DEF StateOK, Ready
<1>5. ASSUME NEW e \in Entry
      PROVE  index'[e] = IF table'[e[1]] = e[2] THEN 1 ELSE 0
  <2>1. index[e] = IF table[e[1]] = e[2] THEN 1 ELSE 0
    BY DEF Entries
  <2>2. e[1] \in Rec
    BY DEF Entry
  <2>3. CASE e[1] \notin DOMAIN t.writes
    <3>1. e \notin t.put \cup t.del
      BY <1>2, <2>3 DEF TxInv, DirectOK
    <3> QED BY <1>2, <2>1, <2>2, <2>3, <3>1 DEF Indexed
  <2>4. CASE e[1] \in DOMAIN t.writes
    <3>1. table'[e[1]] = t.writes[e[1]]
      BY <1>2, <2>2, <2>4
    <3>2. CASE kind = "Idx"
      <4>1. /\ e \in t.put <=> t.writes[e[1]] = e[2]
            /\ table[e[1]] = e[2] => e \in t.put \cup t.del
        BY <1>2, <1>3, <1>4, <2>4, <3>2 DEF TxInv, DirectIdxOK, Touched
      <4>2. index'[e] = IF e \in t.put THEN 1 ELSE IF e \in t.del THEN 0 ELSE index[e]
        BY <1>2, <3>2 DEF Indexed
      <4> QED BY <2>1, <3>1, <4>1, <4>2
    <3>3. CASE kind = "Count"
      <4>1. /\ e \in t.put <=> t.writes[e[1]] = e[2] /\ table[e[1]] # e[2]
            /\ e \in t.del <=> table[e[1]] = e[2] /\ t.writes[e[1]] # e[2]
        BY <1>2, <1>3, <2>4, <3>3 DEF TxInv, DirectCountOK
      <4>2. index'[e] = IF e \in t.put THEN index[e] + 1
                        ELSE IF e \in t.del THEN index[e] - 1 ELSE index[e]
        BY <1>2, <3>3 DEF Indexed
      <4> QED BY <2>1, <3>1, <4>1, <4>2
    <3> QED BY <1>2, <3>2, <3>3 DEF Types
  <2> QED BY <2>3, <2>4
<1>6. index' = [e \in Entry |-> index'[e]]
  BY <1>2 DEF Indexed
<1> QED BY <1>5, <1>6 DEF Entries

(* A commit leaves the bases that the scan has indexed, and conflicts with  *)
(* a batch that is about to be.                                             *)
LEMMA CommitScan ==
  ASSUME IInv, IInv', JInv, NEW w \in Writer, Commit(w), ~RolledBack, NEW b \in Builder, Owns(b),
         NEW k, k = task[b], NEW u, u.todo = k.todo, u.batch = k.batch,
         (u.pc = k.pc /\ u.keys = k.keys) \/ (k.pc = "index" /\ u.pc = "lookup")
  PROVE  ScanOK(u)'
<1> SUFFICES ASSUME u.pc \in {"scan", "lookup", "index"}
             PROVE  ScanOK(u)'
  BY DEF ScanOK
<1>1. Active /\ Cleaned /\ ScanOK(k) /\ k.pc \in {"scan", "lookup", "index"}
  <2>1. Active
    BY OwnerActive
  <2> QED BY <2>1 DEF JInv, IndexOK, Cleaned
<1>2. PICK t : t = tx[w]
  OBVIOUS
<1>3. index' = Indexed(t.put, t.del) /\ kind' = kind
  BY <1>2, CommitFacts
<1>4. u.pc = "index" => k.pc = "index" /\ BatchEntries(u) = BatchEntries(k)
  BY DEF BatchEntries
<1>5. ASSUME kind = "Idx" PROVE IdxScanOK(u)'
  <2>1. IdxScanOK(k)
    BY <1>1, <1>5 DEF ScanOK
  <2> SUFFICES ASSUME NEW e \in Entry
        PROVE  /\ index'[e] \in {0, 1}
               /\ ~Touched(bg', e) =>
                    /\ index'[e] = 1 => table'[e[1]] = e[2]
                    /\ e[1] \notin k.todo \cup DOMAIN k.batch /\ table'[e[1]] = e[2] => index'[e] = 1
                    /\ e[1] \in DOMAIN k.batch =>
                         /\ k.batch[e[1]] = e[2] => table'[e[1]] = e[2]
                         /\ table'[e[1]] = e[2] => k.batch[e[1]] = e[2] \/ index'[e] = 1
                    /\ u.pc = "index" =>
                         /\ e \in BatchEntries(k) => table'[e[1]] = e[2]
                         /\ e[1] \in DOMAIN k.batch /\ table'[e[1]] = e[2] =>
                               e \in BatchEntries(k) \/ index'[e] = 1
    BY <1>4 DEF IdxScanOK
  <2>2. index[e] \in {0, 1}
    BY <2>1 DEF IdxScanOK
  <2>3. index'[e] \in {0, 1}
    BY <1>3, <1>5, <2>2 DEF Indexed
  <2>4. ASSUME ~Touched(bg', e)
        PROVE  /\ index'[e] = 1 => table'[e[1]] = e[2]
               /\ e[1] \notin k.todo \cup DOMAIN k.batch /\ table'[e[1]] = e[2] => index'[e] = 1
               /\ e[1] \in DOMAIN k.batch =>
                    /\ k.batch[e[1]] = e[2] => table'[e[1]] = e[2]
                    /\ table'[e[1]] = e[2] => k.batch[e[1]] = e[2] \/ index'[e] = 1
               /\ u.pc = "index" =>
                    /\ e \in BatchEntries(k) => table'[e[1]] = e[2]
                    /\ e[1] \in DOMAIN k.batch /\ table'[e[1]] = e[2] =>
                          e \in BatchEntries(k) \/ index'[e] = 1
    <3>1. /\ ~Touched(bg, e)
          /\ \/ table'[e[1]] = table[e[1]] /\ index'[e] = index[e]
             \/ /\ table[e[1]] # e[2]
                /\ table'[e[1]] = e[2] => index'[e] = 1
                /\ index'[e] = 1 => table'[e[1]] = e[2] \/ index[e] = 1
      BY <1>1, <1>5, <2>4, CommitIdx
    <3>2. /\ index[e] = 1 => table[e[1]] = e[2]
          /\ e[1] \notin k.todo \cup DOMAIN k.batch /\ table[e[1]] = e[2] => index[e] = 1
          /\ e[1] \in DOMAIN k.batch =>
               /\ k.batch[e[1]] = e[2] => table[e[1]] = e[2]
               /\ table[e[1]] = e[2] => k.batch[e[1]] = e[2] \/ index[e] = 1
          /\ k.pc = "index" =>
               /\ e \in BatchEntries(k) => table[e[1]] = e[2]
               /\ e[1] \in DOMAIN k.batch /\ table[e[1]] = e[2] =>
                     e \in BatchEntries(k) \/ index[e] = 1
      BY <2>1, <3>1 DEF IdxScanOK
    <3>3. e \in BatchEntries(k) /\ u.pc = "index" => table[e[1]] = e[2]
      BY <1>4, <3>2
    <3> QED BY <1>4, <3>1, <3>2, <3>3
  <2> QED BY <2>3, <2>4
<1>6. ASSUME kind = "Count" PROVE CountScanOK(u)'
  <2>1. CountScanOK(k)
    BY <1>1, <1>6 DEF ScanOK
  <2> SUFFICES ASSUME NEW e \in Entry
        PROVE  /\ e[1] \notin k.todo \/ e[1] \notin DOMAIN k.batch
               /\ e[1] \in k.todo \cup DOMAIN k.batch => index'[e] = 0
               /\ e[1] \notin k.todo \cup DOMAIN k.batch =>
                     index'[e] = IF BaseOf(bg', table', e) THEN 1 ELSE 0
               /\ e[1] \in DOMAIN k.batch /\ ~About(bg', e[1]) => k.batch[e[1]] = table'[e[1]]
               /\ u.pc = "index" =>
                     (e \in BatchEntries(k) <=> e[1] \in DOMAIN k.batch /\ BaseOf(bg', table', e))
    BY <1>4 DEF CountScanOK, Base
  <2>2. /\ index'[e] = index[e]
        /\ BaseOf(bg', table', e) <=> BaseOf(bg, table, e)
        /\ ~About(bg', e[1]) => ~About(bg, e[1]) /\ table'[e[1]] = table[e[1]]
    BY <1>1, <1>6, CommitCount
  <2> QED BY <1>4, <2>1, <2>2 DEF CountScanOK, Base
<1> QED BY <1>3, <1>5, <1>6 DEF ScanOK

(* A commit leaves all bases, or changes index and table alike.             *)
LEMMA CommitComplete ==
  ASSUME IInv, IInv', JInv, NEW w \in Writer, Commit(w), ~RolledBack, Active, bs.complete
  PROVE  CompleteOK'
<1>1. Cleaned /\ CompleteOK
  BY DEF Cleaned, JInv, IndexOK
<1>2. PICK t : t = tx[w]
  OBVIOUS
<1>3. index' = Indexed(t.put, t.del) /\ kind' = kind
  BY <1>2, CommitFacts
<1>4. ASSUME NEW e \in Entry, kind = "Idx"
      PROVE  index'[e] \in {0, 1} /\ (~Touched(bg', e) => (index'[e] = 1 <=> table'[e[1]] = e[2]))
  <2>1. index[e] \in {0, 1} /\ (~Touched(bg, e) => (index[e] = 1 <=> table[e[1]] = e[2]))
    BY <1>1, <1>4 DEF CompleteOK
  <2>2. index'[e] \in {0, 1}
    BY <1>3, <1>4, <2>1 DEF Indexed
  <2>3. ~Touched(bg', e) => (index'[e] = 1 <=> table'[e[1]] = e[2])
    BY <1>1, <1>4, <2>1, CommitIdx
  <2> QED BY <2>2, <2>3
<1>5. ASSUME NEW e \in Entry, kind = "Count"
      PROVE  index'[e] = IF BaseOf(bg', table', e) THEN 1 ELSE 0
  <2>1. index[e] = IF BaseOf(bg, table, e) THEN 1 ELSE 0
    BY <1>1, <1>5 DEF CompleteOK, Base
  <2> QED BY <1>5, <2>1, CommitCount
<1> QED BY <1>3, <1>4, <1>5 DEF CompleteOK, Base

(* The commit of a writer keeps the invariant.                              *)
LEMMA CommitJ ==
  ASSUME IInv, IInv', JInv, NEW w \in Writer, Commit(w), ~RolledBack
  PROVE  JInv'
<1>1. PICK t : t = tx[w]
  OBVIOUS
<1>2. /\ Types /\ StateOK /\ Open(w) /\ bg' = bg \cup t.queue /\ task' = DirtyTask(KeysOf(t))
      /\ UNCHANGED <<kind, catalog, bs, br, runs, inactive>>
      /\ t.queue # {} => t.gen > 0
  BY <1>1, CommitFacts
<1>3. /\ QueueOK' /\ MarksOK' /\ WriterOK' /\ TicketsOK' /\ InactiveOK'
      /\ \A v \in Writer : Open(v)' => Open(v) /\ (tx'[v].gen = 0 \/ tx'[v].gen = tx[v].gen)
  BY CommitQueue, CommitWriters
<1>4. \A b \in Builder :
        /\ task'[b].gen = task[b].gen
        /\ task'[b].todo = task[b].todo /\ task'[b].batch = task[b].batch
        /\ \/ task'[b].pc = task[b].pc /\ task'[b].keys = task[b].keys
           \/ task[b].pc = "index" /\ task'[b].pc = "lookup" /\ task'[b].keys = {}
  BY <1>2, DirtyTaskOK
<1>5. \A b \in Builder : (Starting(b)' <=> Starting(b)) /\ (Owns(b)' <=> Owns(b))
  BY <1>2, <1>4 DEF Starting, Owns
<1>6. Active' <=> Active
  BY <1>2 DEF Active
<1>7. StartOK'
  <2>1. \A b \in Builder : task'[b].pc = "publish" => task[b].pc = "publish"
    BY <1>4
  <2> QED BY <1>2, <1>5, <1>6, <2>1 DEF JInv, StartOK
<1>8. TasksOK'
  <2> SUFFICES ASSUME NEW b \in Builder
               PROVE  /\ task'[b].pc = "index" => Owns(b)'
                      /\ task'[b].pc \in {"clean", "scan"} => DOMAIN task'[b].batch = {}
                      /\ Owns(b)' =>
                           /\ task'[b].pc \in {"clean", "scan", "lookup", "index"} =>
                                bs'.phase = "Building" /\ ~bs'.complete
                           /\ task'[b].pc \in {"replay3", "online"} =>
                                \A v \in Writer : Open(v)' => tx'[v].gen = 0
                           /\ task'[b].pc = "online" => bg' = {}
                           /\ task'[b].pc \in Replaying => Prefix(task'[b].keys, bg')
    BY DEF TasksOK, OwnerTaskOK
  <2>1. /\ task'[b].pc = "index" => Owns(b)'
        /\ task'[b].pc \in {"clean", "scan"} => DOMAIN task'[b].batch = {}
    BY <1>4, <1>5 DEF JInv, TasksOK
  <2>2. ASSUME Owns(b)'
        PROVE  /\ task'[b].pc \in {"clean", "scan", "lookup", "index"} =>
                     bs'.phase = "Building" /\ ~bs'.complete
               /\ task'[b].pc \in {"replay3", "online"} =>
                     \A v \in Writer : Open(v)' => tx'[v].gen = 0
               /\ task'[b].pc = "online" => bg' = {}
               /\ task'[b].pc \in Replaying => Prefix(task'[b].keys, bg')
    <3>1. OwnerTaskOK(task[b])
      BY <1>5, <2>2 DEF JInv, TasksOK
    <3>2. CASE task[b].pc = "index" /\ task'[b].pc = "lookup"
      BY <1>2, <3>1, <3>2 DEF OwnerTaskOK, Replaying
    <3>3. CASE task'[b].pc = task[b].pc /\ task'[b].keys = task[b].keys
      <4>1. task'[b].pc \in {"clean", "scan", "lookup", "index"} =>
               bs'.phase = "Building" /\ ~bs'.complete
        BY <1>2, <3>1, <3>3 DEF OwnerTaskOK
      <4>2. task'[b].pc \in {"replay3", "online"} =>
               \A v \in Writer : Open(v)' => tx'[v].gen = 0
        BY <1>3, <3>1, <3>3 DEF OwnerTaskOK
      <4>3. task'[b].pc = "online" => bg' = {}
        <5>1. task'[b].pc = "online" => t.gen = 0 /\ bg = {}
          BY <1>1, <1>2, <3>1, <3>3 DEF OwnerTaskOK
        <5> QED BY <1>2, <5>1
      <4>4. task'[b].pc \in Replaying => Prefix(task'[b].keys, bg')
        <5>1. task'[b].pc \in Replaying => Prefix(task[b].keys, bg)
          BY <3>1, <3>3 DEF OwnerTaskOK
        <5>2. Follows(t.queue, bg)
          BY <1>1, CommitFollows
        <5>3. Prefix(task[b].keys, bg) => Prefix(task[b].keys, bg \cup t.queue)
          BY <5>2 DEF Prefix, Follows
        <5> QED BY <1>2, <3>3, <5>1, <5>3
      <4> QED BY <4>1, <4>2, <4>3, <4>4
    <3> QED BY <1>4, <3>2, <3>3
  <2> QED BY <2>1, <2>2
<1>9. IndexOK'
  <2>1. ASSUME NEW b \in Builder, Owns(b)' PROVE ScanOK(task[b])'
    <3>1. PICK k, u : k = task[b] /\ u = task'[b]
      OBVIOUS
    <3>2. Owns(b) /\ u.todo = k.todo /\ u.batch = k.batch
          /\ ((u.pc = k.pc /\ u.keys = k.keys) \/ (k.pc = "index" /\ u.pc = "lookup"))
      BY <1>4, <1>5, <2>1, <3>1
    <3>3. ScanOK(u)'
      BY <3>1, <3>2, CommitScan
    <3> QED BY <3>1, <3>3 DEF ScanOK, IdxScanOK, CountScanOK, BatchEntries
  <2>2. Active' /\ bs'.complete => CompleteOK'
    BY <1>2, <1>6, CommitComplete
  <2>3. bs'.phase = "Online" \/ (bs'.phase = "none" /\ catalog' = "defined") =>
           index' = Entries(table')
    <3>1. bs.phase = "Online" => catalog = "defined"
      BY <1>1, CommitSees
    <3> QED BY <1>2, <3>1, CommitReady DEF JInv, IndexOK, Ready
  <2> QED BY <2>1, <2>2, <2>3 DEF IndexOK, Entries
<1> QED BY <1>3, <1>7, <1>8, <1>9 DEF JInv

----------------------------------------------------------------------------
(* The invariant holds before DEFINE INDEX.                                 *)
LEMMA InitJ == Init => JInv
<1> SUFFICES ASSUME Init PROVE JInv
  OBVIOUS
<1>1. /\ bs = NoState /\ bg = {} /\ bp = {} /\ br = {} /\ inactive = {}
      /\ tx = [w \in Writer |-> IdleTx] /\ task = [b \in Builder |-> IdleTask]
      /\ (catalog = "defined" => index = Entries(table))
  BY DEF Init
<1>2. /\ bs.gen = 0 /\ bs.phase = "none" /\ bs.owner = NoOwner /\ ~Active
      /\ \A w \in Writer : tx[w].gen = 0 /\ ~Open(w)
      /\ \A b \in Builder : task[b].pc = "idle" /\ ~Owns(b)
  BY <1>1 DEF NoState, IdleTx, IdleTask, Open, Active, Owns
<1>3. QueueOK /\ MarksOK
  BY <1>1, <1>2, EmptyChain DEF QueueOK, MarksOK, Scan
<1>4. WriterOK /\ TicketsOK /\ InactiveOK /\ StartOK
  BY <1>1, <1>2 DEF WriterOK, TicketsOK, InactiveOK, StartOK, Starting
<1>5. TasksOK /\ IndexOK
  BY <1>1, <1>2 DEF TasksOK, IndexOK
<1> QED BY <1>3, <1>4, <1>5 DEF JInv

(* A definition that was rolled back does not come back.                    *)
LEMMA StaysRolledBack ==
  ASSUME RolledBack, [Next]_vars
  PROVE  RolledBack'
<1> USE DEF RolledBack
<1>1. ASSUME NEW w \in Writer, WriterStep(w) PROVE RolledBack'
  BY <1>1 DEF WriterStep, Begin, Reserve, Commit, Cancel, Release, ReleaseFails, Crash,
              Archive, MutateUnseen, MutateReady, Fence, MutateCached
<1>2. ASSUME NEW b \in Builder, BuilderStep(b) PROVE RolledBack'
  BY <1>2 DEF BuilderStep, Acquire, DrainPrior, Publish, TakeOver, Clean, ReadBatch,
              LookupBatch, IndexBatch, InitialComplete, ReadQueue, Replay, MarkClosing,
              WaitReservations, MarkOnline, Stop
<1>3. CASE DefineCommit \/ DefineRollback \/ Cleanup \/ CleanupFails
  BY <1>3 DEF DefineCommit, DefineRollback, Cleanup, CleanupFails
<1>4. CASE UNCHANGED vars
  BY <1>4 DEF vars
<1> QED BY <1>1, <1>2, <1>3, <1>4 DEF Next

(* Every step of a careful deployment keeps the invariant, until DEFINE     *)
(* INDEX is rolled back.                                                    *)
LEMMA NextJ ==
  ASSUME IInv, IInv', JInv, Careful, [Next]_vars, ~RolledBack, ~RolledBack'
  PROVE  JInv'
<1>1. ASSUME NEW w \in Writer, WriterStep(w)
      PROVE  JInv'
  <2>1. ASSUME NEW r \in Rec, NEW v \in Value \cup {None},
               \/ MutateUnseen(w, r, v) \/ MutateReady(w, r, v) \/ Fence(w, r, v)
               \/ MutateCached(w, r, v)
        PROVE  JInv'
    <3>1. v \in MaybeValue
      BY DEF MaybeValue
    <3> QED BY <2>1, <3>1, MutateUnseenJ, MutateReadyJ, FenceJ, MutateCachedJ
  <2>2. CASE Begin(w) \/ Reserve(w) \/ Commit(w) \/ Cancel(w)
    BY <2>2, BeginJ, ReserveJ, CommitJ, CancelJ
  <2>3. CASE Release(w) \/ ReleaseFails(w) \/ Crash(w) \/ Archive(w)
    BY <2>3, ReleaseJ, ReleaseFailsJ, CrashJ, ArchiveJ
  <2> QED BY <1>1, <2>1, <2>2, <2>3 DEF WriterStep
<1>2. ASSUME NEW b \in Builder, BuilderStep(b)
      PROVE  JInv'
  <2>1. CASE Acquire(b) \/ DrainPrior(b) \/ Publish(b) \/ TakeOver(b)
    BY <2>1, AcquireJ, DrainPriorJ, PublishJ, TakeOverJ
  <2>2. CASE Clean(b) \/ ReadBatch(b) \/ LookupBatch(b) \/ IndexBatch(b) \/ InitialComplete(b)
    BY <2>2, CleanJ, ReadBatchJ, LookupBatchJ, IndexBatchJ, InitialCompleteJ
  <2>3. CASE ReadQueue(b) \/ Replay(b) \/ MarkClosing(b) \/ WaitReservations(b)
    BY <2>3, ReadQueueJ, ReplayJ, MarkClosingJ, WaitReservationsJ
  <2>4. CASE MarkOnline(b) \/ Stop(b)
    BY <2>4, MarkOnlineJ, StopJ
  <2> QED BY <1>2, <2>1, <2>2, <2>3, <2>4 DEF BuilderStep
<1>3. CASE DefineCommit
  BY <1>3, DefineCommitJ
<1>4. CASE UNCHANGED vars
  <2>1. UNCHANGED <<kind, table, index, catalog, bs, bg, bp, br, tx, task>> /\ UNCHANGED inactive
    BY <1>4 DEF vars
  <2>2. InactiveOK'
    BY <2>1 DEF JInv, InactiveOK
  <2> QED BY <2>1, <2>2, SameJ DEF JInv
<1>5. ~(DefineRollback \/ Cleanup \/ CleanupFails)
  BY DEF RolledBack, DefineRollback, Cleanup, CleanupFails
<1> QED BY <1>1, <1>2, <1>3, <1>4, <1>5 DEF Next

(* The inductive invariant of a careful deployment: the queue of a record   *)
(* is a chain from what the scan counts to what the table has, every open   *)
(* transaction extends it or is indexed by itself, and the index lags       *)
(* behind the table by the queue alone; all that while the definition is    *)
(* not rolled back.                                                         *)
THEOREM OnlineInvariance ==
  ASSUME Careful
  PROVE  Spec => [](IInv /\ (RolledBack \/ JInv))
<1>1. Init => IInv /\ (RolledBack \/ JInv)
  BY InitOK, InitJ
<1>2. IInv /\ (RolledBack \/ JInv) /\ [Next]_vars => (IInv /\ (RolledBack \/ JInv))'
  BY NextOK, NextJ, StaysRolledBack
<1> QED BY <1>1, <1>2, PTL DEF Spec

(* An index that queries may use (mark_durable_online) has exactly the      *)
(* entries of its table, whatever transactions committed during the scan,   *)
(* the replay and the switch, however often tasks stopped and took over,    *)
(* and whichever writers crashed with a reservation.                        *)
THEOREM OnlineIndexMatches ==
  ASSUME Careful
  PROVE  Spec => []OnlineMatchesTable
<1>1. RolledBack \/ JInv => OnlineMatchesTable
  BY DEF JInv, IndexOK, OnlineMatchesTable
<1> QED BY <1>1, OnlineInvariance, PTL

(* When the scan of a Count index is complete, a record counts for what its *)
(* first queued mutation found (index_missing_count_primary_appendings      *)
(* included), or for its value: replaying the queue counts nothing twice    *)
(* and subtracts nothing that was not counted.                              *)
THEOREM CountsStartFromBase ==
  ASSUME Careful
  PROVE  Spec => []CountBaseline
<1>1. ASSUME IInv, RolledBack \/ JInv PROVE CountBaseline
  <2> SUFFICES ASSUME JInv, kind = "Count", Active, bs.complete, NEW r \in Rec, NEW v \in Value
               PROVE  LET queued == {a \in bg : a.gen = bs.gen /\ a.rec = r}
                          state == IF queued = {} THEN table[r]
                                   ELSE (CHOOSE a \in queued : \A c \in queued : ~Before(c, a)).old
                      IN  index[<<r, v>>] = IF v = state THEN 1 ELSE 0
    BY <1>1 DEF CountBaseline
  <2> DEFINE queued == {a \in bg : a.gen = bs.gen /\ a.rec = r}
             first == CHOOSE a \in queued : \A c \in queued : ~Before(c, a)
             state == IF queued = {} THEN table[r] ELSE first.old
  <2>1. PICK e : e = <<r, v>>
    OBVIOUS
  <2>2. e \in Entry /\ e[1] = r /\ e[2] = v
    BY <2>1 DEF Entry
  <2>3. index[e] = IF BaseOf(bg, table, e) THEN 1 ELSE 0
    BY <1>1, <2>2 DEF JInv, IndexOK, CompleteOK, Base
  <2>4. \A a : a \in queued <=> a \in bg /\ a.rec = r
    BY <1>1 DEF JInv, QueueOK
  <2>5. bg \in SUBSET Appending /\ Distinct(bg)
    BY <1>1 DEF IInv, Types, JInv, QueueOK, Chain
  <2> HIDE DEF queued
  <2>6. CASE queued = {}
    <3>1. ~About(bg, e[1])
      BY <2>2, <2>4, <2>6 DEF About
    <3>2. BaseOf(bg, table, e) <=> v = state
      BY <2>2, <2>6, <3>1 DEF BaseOf
    <3> QED BY <2>1, <2>3, <3>2 DEF queued
  <2>7. CASE queued # {}
    <3>1. About(bg, e[1]) /\ queued \in SUBSET Appending
      BY <2>2, <2>4, <2>5, <2>7 DEF About
    <3>2. \E a \in queued : \A c \in queued : ~Before(c, a)
      BY <2>7, <3>1, MinExists
    <3>3. first \in queued /\ \A c \in queued : ~Before(c, first)
      BY <3>2
    <3> HIDE DEF first
    <3>4. first \in bg /\ first.rec = r /\ First(bg, first)
      BY <2>4, <3>3 DEF First
    <3>5. \A a \in bg : a.rec = r /\ First(bg, a) => a = first
      BY <2>5, <3>4, FirstUnique
    <3>6. BaseOf(bg, table, e) <=> first.old = v
      BY <2>2, <3>1, <3>4, <3>5 DEF BaseOf
    <3>7. state = first.old
      BY <2>7
    <3>8. index[<<r, v>>] = IF v = state THEN 1 ELSE 0
      BY <2>1, <2>3, <3>6, <3>7
    <3> QED BY <3>8 DEF first, queued
  <2> QED BY <2>6, <2>7
<1> QED BY <1>1, OnlineInvariance, PTL
=============================================================================

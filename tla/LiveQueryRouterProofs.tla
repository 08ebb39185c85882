----------------------- MODULE LiveQueryRouterProofs -----------------------
(***************************************************************************)
(* Safety of LiveQueryRouter for any tables, live queries, transactions    *)
(* and stamps.  The argument: an event up to the watermark of a pass is in *)
(* the snapshot of the pass, or its commit was in flight (late), or it was *)
(* collected (lost); one in the snapshot is replayed before the cursor     *)
(* moves, to a list that lacks a live query of the snapshot only when an   *)
(* older transaction loaded it (raced).                                    *)
(***************************************************************************)
EXTENDS LiveQueryRouter, TLAPS

Stamped(w) == tx[w].phase = "stamped"
Replaying == pass.phase = "replay"

(* The watchers of a write were registered, and are of its table.          *)
LiveOK ==
    /\ \A w \in Writer : \A q \in tx[w].live : live[q] \in {"live", "dead"}
    /\ \A w \in Writer, t \in Table : \A q \in tx[w].watched[t] :
          TableOf[q] = t /\ live[q] \in {"live", "dead"}
    /\ \A e \in captured : \A q \in e.watchers :
          TableOf[q] = e.tb /\ live[q] \in {"live", "dead"}

(* A cached list is of its table and lacks only queries that were raced.   *)
CacheOK ==
    /\ \A t \in Table : \A l \in cache[t] : \A q \in l : TableOf[q] = t
    /\ \A q \in Query : live[q] \in {"opening", "live"} /\ q \notin raced
          => \A l \in cache[TableOf[q]] : q \in l

(* A stamp belongs to one transaction.                                     *)
StampOK ==
    /\ \A w \in Writer : Stamped(w) => tx[w].vs \in 1..clock
    /\ \A v, w \in Writer : Stamped(v) /\ Stamped(w) /\ tx[v].vs = tx[w].vs => v = w
    /\ \A e \in captured : e.vs <= clock /\ \A w \in Writer : Stamped(w) => tx[w].vs # e.vs
    /\ \A e, f \in captured : e.vs = f.vs /\ e.tb = f.tb => e = f

(* What is in flight below the cursor or the watermark of the pass is late. *)
LateOK ==
    /\ cursor <= clock /\ (Replaying => pass.vs <= clock /\ cursor < pass.vs)
    /\ \A w \in Writer : Stamped(w) =>
          /\ tx[w].vs <= cursor => tx[w].vs \in late
          /\ Replaying /\ tx[w].vs <= pass.vs => tx[w].vs \in late \cup pass.late

(* Events above the cursor are stored, unless they were lost.              *)
KeptOK ==
    /\ lqe \subseteq captured /\ pass.lqe \subseteq captured
    /\ \A e \in captured : e \in lqe \/ e.vs <= cursor \/ e \in lost

(* A pass knows the queries it has to notify.                              *)
PassOK ==
    /\ pass.phase = "none" => pass.lqe = {} /\ pass.tb = None
    /\ Replaying => \A e \in pass.lqe : cursor < e.vs /\ e.vs <= pass.vs
    /\ \A e \in pass.lqe : \A q \in e.watchers : live[q] = "live" => q \in pass.live
    /\ \A q \in pass.live : live[q] \in {"live", "dead"}
    /\ \A q \in pass.to : TableOf[q] = pass.tb
    /\ \A q \in pass.live :
          live[q] = "live" /\ TableOf[q] = pass.tb /\ q \notin raced => q \in pass.to

(* What the cursor or the pass has dealt with was sent, or had a reason.   *)
Done(e, q) == delivered[q][e.vs] > 0 \/ e \in lost \/ q \in raced
DealtOK ==
    \A e \in captured : \A q \in e.watchers : live[q] = "live" =>
        /\ e.vs <= cursor => Done(e, q) \/ e.vs \in late
        /\ Replaying /\ e.vs <= pass.vs /\ e \notin pass.lqe
              => Done(e, q) \/ e.vs \in late \cup pass.late

(* Until a pass fails, what was sent is below what is left to send.        *)
Below(q, v) ==
    \/ v <= cursor
    \/ Replaying /\ v <= pass.vs /\ \A f \in pass.lqe : f.tb = TableOf[q] => f.vs > v
OrderOK == failed \/ \A q \in Query, v \in Stamp : delivered[q][v] > 0 => Below(q, v)

IInv == /\ TypeOK /\ LiveOK /\ CacheOK /\ StampOK /\ LateOK /\ KeptOK /\ PassOK
        /\ DealtOK /\ OrderOK /\ SentOnce

USE LiveQueryRouterAssumption

(* The initial transaction and pass, and the least stamp, have their types. *)
LEMMA Types == NoTx \in Tx /\ NoPass \in Pass /\ 0 \in 0..MaxStamp
<1>1. 0 \in 0..MaxStamp
  OBVIOUS
<1>2. [t \in Table |-> {}] \in [Table -> SUBSET Query]
  OBVIOUS
<1>3. NoTx \in Tx
  BY <1>1, <1>2 DEF NoTx, Tx
<1>4. NoPass \in Pass
  BY <1>1 DEF NoPass, Pass
<1> QED BY <1>1, <1>3, <1>4

(* What the type invariant says of the fields.                             *)
LEMMA TypeFacts ==
  ASSUME TypeOK
  PROVE  /\ clock \in Nat /\ cursor \in Nat /\ pass.vs \in Nat
         /\ pass.phase \in {"none", "open", "replay"}
         /\ pass.lqe \subseteq Event /\ pass.live \subseteq Query /\ pass.to \subseteq Query
         /\ \A e \in Event :
               e.vs \in Stamp /\ e.vs \in Nat /\ e.tb \in Table /\ e.watchers \subseteq Query
         /\ \A w \in Writer :
               /\ tx[w] \in Tx /\ tx[w].vs \in Nat /\ tx[w].live \subseteq Query
               /\ tx[w].watched \in [Table -> SUBSET Query]
<1>1. clock \in Nat /\ cursor \in Nat
  BY DEF TypeOK
<1>2. /\ pass.vs \in Nat /\ pass.phase \in {"none", "open", "replay"}
      /\ pass.lqe \subseteq Event /\ pass.live \subseteq Query /\ pass.to \subseteq Query
  BY DEF TypeOK, Pass
<1>3. \A e \in Event :
         e.vs \in Stamp /\ e.vs \in Nat /\ e.tb \in Table /\ e.watchers \subseteq Query
  BY DEF Event, Stamp
<1>4. \A w \in Writer : /\ tx[w] \in Tx /\ tx[w].vs \in Nat /\ tx[w].live \subseteq Query
                        /\ tx[w].watched \in [Table -> SUBSET Query]
  BY DEF TypeOK, Tx
<1> QED BY <1>1, <1>2, <1>3, <1>4

LEMMA InitOK == Init => IInv
<1> SUFFICES ASSUME Init PROVE IInv
  OBVIOUS
<1>1. TypeOK
  <2>1. delivered \in [Query -> [Stamp -> 0..2]]
    BY DEF Init
  <2>2. failed \in BOOLEAN
    BY DEF Init
  <2>3. /\ tables \subseteq Table /\ live \in [Query -> {"new", "opening", "live", "dead"}]
        /\ cache \in [Table -> SUBSET SUBSET Query]
        /\ \A t \in Table : \A k, l \in cache[t] : k = l
        /\ clock \in 0..MaxStamp /\ cursor \in 0..MaxStamp /\ lqe \subseteq Event
        /\ tx \in [Writer -> Tx] /\ pass \in Pass
        /\ captured \subseteq Event /\ late \subseteq Stamp
        /\ lost \subseteq Event /\ raced \subseteq Query
    BY Types DEF Init
  <2> QED BY <2>1, <2>2, <2>3 DEF TypeOK
<1>2. LiveOK /\ CacheOK /\ KeptOK
  BY DEF Init, LiveOK, CacheOK, KeptOK, NoTx, NoPass
<1>3. StampOK /\ LateOK /\ PassOK
  BY DEF Init, StampOK, LateOK, PassOK, Stamped, Replaying, NoTx, NoPass
<1>4. DealtOK /\ OrderOK /\ SentOnce
  BY DEF Init, DealtOK, OrderOK, SentOnce
<1> QED BY <1>1, <1>2, <1>3, <1>4 DEF IInv

(* A refresh empties the list of one table.                                *)
LEMMA RefreshFacts ==
  ASSUME TypeOK, NEW t \in Table, Refresh(t)
  PROVE  /\ cache' \in [Table -> SUBSET SUBSET Query] /\ cache'[t] = {}
         /\ \A u \in Table : cache'[u] \subseteq cache[u]
BY DEF Refresh, TypeOK

(* A load leaves a list of the table, which lacks only queries that it      *)
(* counts as raced.                                                         *)
LEMMA LoadFacts ==
  ASSUME TypeOK, CacheOK, NEW t \in Table, NEW seen \in SUBSET Query, Load(t, seen),
         live' = live
  PROVE  /\ cache' \in [Table -> SUBSET SUBSET Query]
         /\ \A u \in Table : \A k, l \in cache'[u] : k = l
         /\ raced \subseteq raced' /\ raced' \subseteq Query /\ CacheOK'
         /\ cache'[t] = Loaded(t, seen) /\ Loaded(t, seen) # {}
         /\ \A q \in seen : live[q] = "live" /\ TableOf[q] = t /\ q \notin raced'
               => \A l \in Loaded(t, seen) : q \in l
<1> DEFINE new == Loaded(t, seen)
<1>1. /\ cache' = [cache EXCEPT ![t] = new]
      /\ raced' = raced \cup Overtaken(t, seen)
  BY DEF Load
<1>2. On(t, seen) \subseteq Query /\ \A q \in On(t, seen) : TableOf[q] = t
  BY DEF On
<1>3. /\ new \in SUBSET SUBSET Query /\ new # {} /\ \A k, l \in new : k = l
      /\ \A l \in new : l \in cache[t] \/ (cache[t] = {} /\ l = On(t, seen))
  BY <1>2 DEF Loaded, TypeOK
<1> HIDE DEF new
<1>4. /\ cache' \in [Table -> SUBSET SUBSET Query] /\ cache'[t] = new
      /\ \A u \in Table \ {t} : cache'[u] = cache[u]
  BY <1>1, <1>3 DEF TypeOK
<1>5. \A u \in Table : \A k, l \in cache'[u] : k = l
  BY <1>3, <1>4 DEF TypeOK
<1>6. raced \subseteq raced' /\ raced' \subseteq Query
  BY <1>1 DEF Overtaken, TypeOK
<1>7. \A q \in Query : live[q] \in {"opening", "live"} /\ TableOf[q] = t /\ q \notin raced'
         => \A l \in new : q \in l
  <2> SUFFICES ASSUME NEW q \in Query, live[q] \in {"opening", "live"}, TableOf[q] = t,
                      q \notin raced', NEW l \in new
               PROVE  q \in l
    OBVIOUS
  <2>1. CASE l \in cache[t]
    BY <1>6, <2>1 DEF CacheOK
  <2>2. CASE cache[t] = {} /\ l = On(t, seen)
    <3>1. q \in seen
      BY <1>1, <2>2 DEF Overtaken
    <3> QED BY <2>2, <3>1 DEF On
  <2> QED BY <1>3, <2>1, <2>2
<1>8. CacheOK'
  <2>1. \A u \in Table : \A l \in cache'[u] : \A q \in l : TableOf[q] = u
    BY <1>2, <1>3, <1>4 DEF CacheOK
  <2>2. \A q \in Query : live'[q] \in {"opening", "live"} /\ q \notin raced'
           => \A l \in cache'[TableOf[q]] : q \in l
    <3> SUFFICES ASSUME NEW q \in Query, live[q] \in {"opening", "live"}, q \notin raced',
                        NEW l \in cache'[TableOf[q]]
                 PROVE  q \in l
      OBVIOUS
    <3>1. TableOf[q] \in Table
      OBVIOUS
    <3>2. CASE TableOf[q] = t
      BY <1>4, <1>7, <3>2
    <3>3. CASE TableOf[q] # t
      BY <1>4, <1>6, <3>1, <3>3 DEF CacheOK
    <3> QED BY <3>2, <3>3
  <2> QED BY <2>1, <2>2 DEF CacheOK
<1> QED BY <1>3, <1>4, <1>5, <1>6, <1>7, <1>8 DEF new

(* The steps of clients: a query becomes live when nothing is cached of    *)
(* its table, and only one that was not registered does.                   *)
LEMMA ClientOK ==
  ASSUME IInv, ClientStep
  PROVE  IInv'
<1> USE DEF IInv
<1>1. UNCHANGED <<clock, lqe, tx, cursor, pass, delivered, failed, captured, late, lost, raced>>
  BY DEF ClientStep, Live, LiveCommit, Kill, RemoveTable, sent, races
<1>2. /\ live' \in [Query -> {"new", "opening", "live", "dead"}] /\ tables' \subseteq Table
      /\ cache' \in [Table -> SUBSET SUBSET Query]
      /\ \A t \in Table : cache'[t] \subseteq cache[t]
      /\ \A q \in Query :
            /\ live[q] \in {"live", "dead"} => live'[q] \in {"live", "dead"}
            /\ live'[q] = "live" => live[q] \in {"opening", "live"}
            /\ live'[q] = "opening" => live[q] = "opening" \/ cache'[TableOf[q]] = {}
            /\ live[q] = "dead" => live'[q] = "dead"
  <2>1. CASE \E q \in Query : Live(q)
    <3>1. PICK q \in Query : Live(q)
      BY <2>1
    <3>2. /\ live' = [live EXCEPT ![q] = "opening"]
          /\ live[q] = "new" /\ Refresh(TableOf[q]) /\ tables' = tables
      BY <3>1 DEF Live
    <3>3. /\ live' \in [Query -> {"new", "opening", "live", "dead"}]
          /\ live'[q] = "opening" /\ \A p \in Query : p # q => live'[p] = live[p]
      BY <3>2 DEF TypeOK
    <3>4. /\ cache' \in [Table -> SUBSET SUBSET Query] /\ cache'[TableOf[q]] = {}
          /\ \A t \in Table : cache'[t] \subseteq cache[t]
      BY <3>2, RefreshFacts
    <3>5. tables' \subseteq Table
      BY <3>2 DEF TypeOK
    <3> QED BY <3>2, <3>3, <3>4, <3>5
  <2>2. CASE \E q \in Query : LiveCommit(q)
    <3>1. PICK q \in Query : LiveCommit(q)
      BY <2>2
    <3>2. /\ live[q] = "opening" /\ tables' = tables /\ cache' = cache
          /\ \E s \in {"live", "dead"} : live' = [live EXCEPT ![q] = s]
      BY <3>1 DEF LiveCommit
    <3>3. /\ live' \in [Query -> {"new", "opening", "live", "dead"}]
          /\ live'[q] \in {"live", "dead"} /\ \A p \in Query : p # q => live'[p] = live[p]
      BY <3>2 DEF TypeOK
    <3>4. tables' \subseteq Table /\ cache' \in [Table -> SUBSET SUBSET Query]
      BY <3>2 DEF TypeOK
    <3> QED BY <3>2, <3>3, <3>4
  <2>3. CASE \E q \in Query : Kill(q)
    <3>1. PICK q \in Query : Kill(q)
      BY <2>3
    <3>2. /\ live' = [live EXCEPT ![q] = "dead"] /\ tables' = tables
          /\ Refresh(TableOf[q]) \/ cache' = cache
      BY <3>1 DEF Kill
    <3>3. /\ live' \in [Query -> {"new", "opening", "live", "dead"}]
          /\ live'[q] = "dead" /\ \A p \in Query : p # q => live'[p] = live[p]
      BY <3>2 DEF TypeOK
    <3>4. /\ cache' \in [Table -> SUBSET SUBSET Query]
          /\ \A t \in Table : cache'[t] \subseteq cache[t]
      BY <3>2, RefreshFacts DEF TypeOK
    <3>5. tables' \subseteq Table
      BY <3>2 DEF TypeOK
    <3> QED BY <3>3, <3>4, <3>5
  <2>4. CASE \E t \in Table : RemoveTable(t)
    <3>1. PICK t \in Table : RemoveTable(t)
      BY <2>4
    <3>2. /\ live' = [q \in Query |-> IF q \in On(t, Registered) THEN "dead" ELSE live[q]]
          /\ Refresh(t) /\ tables' = tables \ {t}
      BY <3>1 DEF RemoveTable
    <3>3. /\ live' \in [Query -> {"new", "opening", "live", "dead"}]
          /\ \A q \in Query : live'[q] = live[q] \/ (live[q] = "live" /\ live'[q] = "dead")
      BY <3>2 DEF TypeOK, On, Registered
    <3>4. /\ cache' \in [Table -> SUBSET SUBSET Query]
          /\ \A u \in Table : cache'[u] \subseteq cache[u]
      BY <3>2, RefreshFacts
    <3>5. tables' \subseteq Table
      BY <3>2 DEF TypeOK
    <3> QED BY <3>3, <3>4, <3>5
  <2> QED BY <2>1, <2>2, <2>3, <2>4 DEF ClientStep
<1>3. TypeOK'
  BY <1>1, <1>2 DEF TypeOK
<1>4. LiveOK'
  BY <1>1, <1>2, TypeFacts DEF LiveOK, TypeOK
<1>5. CacheOK'
  BY <1>1, <1>2 DEF CacheOK, TypeOK
<1>6. StampOK' /\ LateOK' /\ KeptOK' /\ OrderOK' /\ SentOnce'
  BY <1>1 DEF StampOK, LateOK, KeptOK, OrderOK, Below, SentOnce, Stamped, Replaying
<1>7. \A q \in Query : live[q] \in {"live", "dead"} => (live'[q] = "live" => live[q] = "live")
  BY <1>2
<1>8. \A e \in captured : \A q \in e.watchers :
         q \in Query /\ (live'[q] = "live" => live[q] = "live")
  BY <1>7, TypeFacts DEF LiveOK, TypeOK
<1>9. PassOK'
  <2>1. \A q \in pass.live : q \in Query /\ live'[q] \in {"live", "dead"}
                             /\ (live'[q] = "live" => live[q] = "live")
    BY <1>2, <1>7, TypeFacts DEF PassOK
  <2>2. pass.lqe \subseteq captured
    BY DEF KeptOK
  <2> QED BY <1>1, <1>8, <2>1, <2>2 DEF PassOK, Replaying
<1>10. DealtOK'
  BY <1>1, <1>8 DEF DealtOK, Done, Replaying
<1> QED BY <1>3, <1>4, <1>5, <1>6, <1>9, <1>10

(* The snapshot of a transaction has registered queries only.               *)
LEMMA OpenTxOK ==
  ASSUME IInv, NEW w \in Writer, OpenTx(w)
  PROVE  IInv'
<1> USE DEF IInv
<1> DEFINE open == [phase |-> "open", live |-> Registered,
                    watched |-> [t \in Table |-> {}], vs |-> 0]
<1>1. /\ tx' = [tx EXCEPT ![w] = open]
      /\ UNCHANGED <<tables, live, cache, clock, lqe, cursor, pass, delivered, failed,
                     captured, late, lost, raced>>
  BY DEF OpenTx, sent, races
<1>2. open \in Tx
  BY Types DEF Tx, Registered
<1>3. /\ tx'[w].phase = "open" /\ tx'[w].live = Registered
      /\ \A t \in Table : tx'[w].watched[t] = {}
      /\ \A v \in Writer \ {w} : tx'[v] = tx[v]
  BY <1>1 DEF TypeOK
<1>4. tx' \in [Writer -> Tx]
  BY <1>1, <1>2 DEF TypeOK
<1> HIDE DEF open
<1>5. TypeOK'
  BY <1>1, <1>4 DEF TypeOK
<1>6. LiveOK'
  BY <1>1, <1>3 DEF LiveOK, Registered
<1>7. \A v \in Writer : Stamped(v)' => Stamped(v) /\ tx'[v].vs = tx[v].vs
  BY <1>3 DEF Stamped
<1>8. StampOK' /\ LateOK'
  BY <1>1, <1>7 DEF StampOK, LateOK, Replaying
<1>9. CacheOK' /\ KeptOK' /\ PassOK' /\ DealtOK' /\ OrderOK' /\ SentOnce'
  BY <1>1 DEF CacheOK, KeptOK, PassOK, DealtOK, Done, OrderOK, Below, SentOnce, Replaying
<1> QED BY <1>5, <1>6, <1>8, <1>9

(* A transaction that writes t loads the list of t from its snapshot.       *)
LEMMA WriteOK ==
  ASSUME IInv, NEW w \in Writer, NEW t \in Table, Write(w, t)
  PROVE  IInv'
<1> USE DEF IInv
<1> DEFINE on == On(t, tx[w].live)
           new == [tx[w].watched EXCEPT ![t] = on]
<1>1. /\ tx' = [tx EXCEPT ![w] = [tx[w] EXCEPT !.watched = new]]
      /\ tx[w].phase = "open" /\ Load(t, tx[w].live)
      /\ UNCHANGED <<tables, live, clock, lqe, cursor, pass, delivered, failed,
                     captured, late, lost>>
  BY TypeFacts DEF Write, sent, TypeOK, Tx
<1>2. on \subseteq Query /\ \A q \in on : TableOf[q] = t /\ live[q] \in {"live", "dead"}
  BY TypeFacts DEF On, LiveOK
<1>3. /\ new \in [Table -> SUBSET Query] /\ new[t] = on
      /\ \A u \in Table \ {t} : new[u] = tx[w].watched[u]
  BY <1>2, TypeFacts
<1> HIDE DEF new, on
<1>4. /\ tx' \in [Writer -> Tx] /\ tx'[w].phase = "open"
      /\ tx'[w].live = tx[w].live /\ tx'[w].watched = new
      /\ \A v \in Writer \ {w} : tx'[v] = tx[v]
  BY <1>1, <1>3 DEF TypeOK, Tx
<1>5. tx[w].live \in SUBSET Query
  BY TypeFacts
<1>6. /\ cache' \in [Table -> SUBSET SUBSET Query]
      /\ \A u \in Table : \A k, l \in cache'[u] : k = l
      /\ raced \subseteq raced' /\ raced' \subseteq Query /\ CacheOK'
  BY <1>1, <1>5, LoadFacts
<1>7. TypeOK'
  BY <1>1, <1>4, <1>6 DEF TypeOK
<1>8. LiveOK'
  BY <1>1, <1>2, <1>3, <1>4 DEF LiveOK
<1>9. \A v \in Writer : Stamped(v)' => Stamped(v) /\ tx'[v].vs = tx[v].vs
  BY <1>4 DEF Stamped
<1>10. StampOK' /\ LateOK'
  BY <1>1, <1>9 DEF StampOK, LateOK, Replaying
<1>11. KeptOK' /\ PassOK' /\ DealtOK' /\ OrderOK' /\ SentOnce'
  BY <1>1, <1>6 DEF KeptOK, PassOK, DealtOK, Done, OrderOK, Below, SentOnce, Replaying
<1> QED BY <1>6, <1>7, <1>8, <1>10, <1>11

(* A new stamp is above everything.                                        *)
LEMMA TakeStampOK ==
  ASSUME IInv, NEW w \in Writer, TakeStamp(w)
  PROVE  IInv'
<1> USE DEF IInv
<1> DEFINE new == [phase |-> "stamped", live |-> {}, watched |-> tx[w].watched,
                   vs |-> clock + 1]
<1>1. /\ tx' = [tx EXCEPT ![w] = new]
      /\ clock' = clock + 1 /\ clock < MaxStamp
      /\ UNCHANGED <<tables, live, cache, lqe, cursor, pass, delivered, failed,
                     captured, late, lost, raced>>
  BY DEF TakeStamp, sent, races
<1>2. /\ clock \in Nat /\ clock' \in 0..MaxStamp /\ cursor \in Nat /\ pass.vs \in Nat
      /\ \A e \in captured : e.vs \in Nat
      /\ \A v \in Writer : tx[v].vs \in Nat
  BY <1>1, TypeFacts DEF TypeOK
<1>3. new \in Tx
  BY <1>1, <1>2, TypeFacts DEF Tx
<1>4. /\ tx'[w].phase = "stamped" /\ tx'[w].vs = clock + 1 /\ tx'[w].live = {}
      /\ tx'[w].watched = tx[w].watched
      /\ \A v \in Writer \ {w} : tx'[v] = tx[v]
  BY <1>1 DEF TypeOK
<1>5. tx' \in [Writer -> Tx]
  BY <1>1, <1>3 DEF TypeOK
<1> HIDE DEF new
<1>6. TypeOK'
  BY <1>1, <1>2, <1>5 DEF TypeOK
<1>7. LiveOK'
  BY <1>1, <1>4 DEF LiveOK
<1>8. StampOK'
  BY <1>1, <1>2, <1>4 DEF StampOK, Stamped
<1>9. LateOK'
  BY <1>1, <1>2, <1>4 DEF LateOK, Stamped, Replaying
<1>10. CacheOK' /\ KeptOK' /\ PassOK' /\ DealtOK' /\ OrderOK' /\ SentOnce'
  BY <1>1 DEF CacheOK, KeptOK, PassOK, DealtOK, Done, OrderOK, Below, SentOnce, Replaying
<1> QED BY <1>6, <1>7, <1>8, <1>9, <1>10

(* The events of a commit carry its own stamp; if the cursor or the         *)
(* watermark of the pass has passed it, it is late.                         *)
LEMMA CommitOK ==
  ASSUME IInv, NEW w \in Writer, Commit(w)
  PROVE  IInv'
<1> USE DEF IInv
<1>1. /\ Stamped(w) /\ lqe' = lqe \cup Captured(w) /\ captured' = captured \cup Captured(w)
      /\ tx' = [tx EXCEPT ![w] = NoTx]
      /\ UNCHANGED <<tables, live, cache, clock, cursor, pass, delivered, failed,
                     late, lost, raced>>
  BY DEF Commit, Stamped, sent, races
<1>2. \A e \in Captured(w) :
         /\ e.vs = tx[w].vs /\ e.tb \in Table /\ e.watchers = tx[w].watched[e.tb]
         /\ e = [vs |-> tx[w].vs, tb |-> e.tb, watchers |-> tx[w].watched[e.tb]]
  BY DEF Captured
<1>3. tx[w].vs \in Stamp /\ tx[w].vs \in 1..clock
  BY <1>1, TypeFacts DEF StampOK, TypeOK, Stamp
<1>4. Captured(w) \subseteq Event
  BY <1>2, <1>3, TypeFacts DEF Event
<1>5. /\ tx'[w] = NoTx /\ ~Stamped(w)'
      /\ \A v \in Writer \ {w} : tx'[v] = tx[v]
  BY <1>1 DEF TypeOK, Stamped, NoTx
<1>6. TypeOK'
  BY <1>1, <1>4, Types DEF TypeOK
<1>7. LiveOK'
  <2>1. tx'[w].live = {} /\ \A t \in Table : tx'[w].watched[t] = {}
    BY <1>5 DEF NoTx
  <2> QED BY <1>1, <1>2, <1>5, <2>1 DEF LiveOK
<1>8. StampOK'
  <2>1. \A v \in Writer : Stamped(v)' => v # w /\ Stamped(v) /\ tx'[v].vs = tx[v].vs
    BY <1>5 DEF Stamped
  <2>2. \A v \in Writer : Stamped(v)' => tx[v].vs # tx[w].vs
    BY <1>1, <2>1 DEF StampOK
  <2>3. \A e \in captured' : e.vs <= clock' /\ \A v \in Writer : Stamped(v)' => tx'[v].vs # e.vs
    BY <1>1, <1>2, <1>3, <2>1, <2>2 DEF StampOK
  <2>4. \A e, f \in captured' : e.vs = f.vs /\ e.tb = f.tb => e = f
    BY <1>1, <1>2 DEF StampOK
  <2> QED BY <1>1, <2>1, <2>3, <2>4 DEF StampOK
<1>9. LateOK'
  BY <1>1, <1>5 DEF LateOK, Stamped, Replaying
<1>10. KeptOK'
  BY <1>1 DEF KeptOK
<1>11. CacheOK' /\ PassOK' /\ OrderOK' /\ SentOnce'
  BY <1>1 DEF CacheOK, PassOK, OrderOK, Below, SentOnce, Replaying
<1>12. DealtOK'
  <2>1. \A e \in Captured(w) :
           /\ e.vs <= cursor => e.vs \in late
           /\ Replaying /\ e.vs <= pass.vs => e.vs \in late \cup pass.late
    BY <1>1, <1>2 DEF LateOK
  <2> QED BY <1>1, <2>1 DEF DealtOK, Done, Replaying
<1> QED BY <1>6, <1>7, <1>8, <1>9, <1>10, <1>11, <1>12

LEMMA AbortOK ==
  ASSUME IInv, NEW w \in Writer, Abort(w)
  PROVE  IInv'
<1> USE DEF IInv
<1>1. /\ tx' = [tx EXCEPT ![w] = NoTx]
      /\ UNCHANGED <<tables, live, cache, clock, lqe, cursor, pass, delivered, failed,
                     captured, late, lost, raced>>
  BY DEF Abort, sent, races
<1>2. /\ tx'[w] = NoTx /\ ~Stamped(w)'
      /\ \A v \in Writer \ {w} : tx'[v] = tx[v]
  BY <1>1 DEF TypeOK, Stamped, NoTx
<1>3. TypeOK'
  BY <1>1, Types DEF TypeOK
<1>4. LiveOK'
  <2>1. tx'[w].live = {} /\ \A t \in Table : tx'[w].watched[t] = {}
    BY <1>2 DEF NoTx
  <2> QED BY <1>1, <1>2, <2>1 DEF LiveOK
<1>5. StampOK' /\ LateOK'
  BY <1>1, <1>2 DEF StampOK, LateOK, Stamped, Replaying
<1>6. CacheOK' /\ KeptOK' /\ PassOK' /\ DealtOK' /\ OrderOK' /\ SentOnce'
  BY <1>1 DEF CacheOK, KeptOK, PassOK, DealtOK, Done, OrderOK, Below, SentOnce, Replaying
<1> QED BY <1>3, <1>4, <1>5, <1>6

(* The snapshot of a pass has the queries the events in it are for.         *)
LEMMA OpenPassOK ==
  ASSUME IInv, OpenPass
  PROVE  IInv'
<1> USE DEF IInv
<1>1. /\ pass.phase = "none"
      /\ pass' = [phase |-> "open", tables |-> tables, live |-> Registered, lqe |-> lqe,
                  late |-> {}, vs |-> 0, tb |-> None, to |-> {}]
      /\ UNCHANGED <<tables, live, cache, clock, lqe, tx, cursor, delivered, failed,
                     captured, late, lost, raced>>
  BY DEF OpenPass, NoPass, sent, races
<1>2. /\ ~Replaying /\ ~Replaying' /\ pass'.phase = "open" /\ pass'.lqe = lqe
      /\ pass'.live = Registered /\ pass'.tb = None /\ pass'.to = {}
  BY <1>1 DEF Replaying
<1>3. pass' \in Pass
  <2>1. Registered \subseteq Query
    BY DEF Registered
  <2> QED BY <1>1, <2>1, Types DEF Pass, TypeOK
<1>4. TypeOK'
  BY <1>1, <1>3 DEF TypeOK
<1>5. LiveOK' /\ CacheOK' /\ StampOK' /\ KeptOK'
  BY <1>1, <1>2 DEF LiveOK, CacheOK, StampOK, KeptOK, Stamped
<1>6. LateOK' /\ DealtOK' /\ OrderOK' /\ SentOnce'
  BY <1>1, <1>2 DEF LateOK, DealtOK, Done, OrderOK, Below, SentOnce, Stamped
<1>7. PassOK'
  <2>1. \A q \in Registered : q \in Query /\ live[q] = "live" /\ TableOf[q] # None
    BY DEF Registered
  <2>2. \A e \in lqe : \A q \in e.watchers : q \in Query
    BY TypeFacts DEF TypeOK
  <2> QED BY <1>1, <1>2, <2>1, <2>2 DEF PassOK, Registered
<1> QED BY <1>4, <1>5, <1>6, <1>7

(* Up to the watermark, what is not in the snapshot is late or lost.        *)
LEMMA ScanOK ==
  ASSUME IInv, Scan
  PROVE  IInv'
<1> USE DEF IInv
<1>1. /\ pass.phase = "open"
      /\ pass' = IF clock <= cursor THEN NoPass
                 ELSE [pass EXCEPT !.phase = "replay", !.vs = clock,
                                   !.lqe = Undelivered, !.late = Unseen]
      /\ UNCHANGED <<tables, live, cache, clock, lqe, tx, cursor, delivered, failed,
                     captured, late, lost, raced>>
  BY DEF Scan, SafeTimestamp, sent, races
<1>2. CASE clock <= cursor
  <2>1. pass' = NoPass /\ ~Replaying /\ ~Replaying'
    BY <1>1, <1>2 DEF NoPass, Replaying
  <2>2. TypeOK'
    BY <1>1, <2>1, Types DEF TypeOK
  <2>3. LiveOK' /\ CacheOK' /\ StampOK'
    BY <1>1, <2>1 DEF LiveOK, CacheOK, StampOK, Stamped
  <2>4. LateOK' /\ DealtOK' /\ OrderOK' /\ SentOnce'
    BY <1>1, <2>1 DEF LateOK, DealtOK, Done, OrderOK, Below, SentOnce, Stamped
  <2>5. PassOK' /\ KeptOK'
    BY <1>1, <2>1 DEF PassOK, KeptOK, NoPass, Replaying
  <2> QED BY <2>2, <2>3, <2>4, <2>5
<1>3. CASE ~(clock <= cursor)
  <2>1. pass' = [pass EXCEPT !.phase = "replay", !.vs = clock, !.lqe = Undelivered,
                             !.late = Unseen]
    BY <1>1, <1>3
  <2>2. Undelivered \subseteq pass.lqe /\ Undelivered \subseteq Event /\ Unseen \subseteq Stamp
    BY TypeFacts DEF Undelivered, Unseen
  <2>3. /\ pass'.phase = "replay" /\ pass'.vs = clock /\ pass'.lqe = Undelivered
        /\ pass'.late = Unseen
        /\ pass'.live = pass.live /\ pass'.tb = pass.tb /\ pass'.to = pass.to
        /\ Replaying' /\ ~Replaying
    BY <1>1, <2>1 DEF TypeOK, Pass, Replaying
  <2>4. clock \in Nat /\ cursor \in Nat /\ clock > cursor
    BY <1>3, TypeFacts
  <2>5. pass' \in Pass
    BY <2>1, <2>2 DEF TypeOK, Pass
  <2>6. TypeOK'
    BY <1>1, <2>5 DEF TypeOK
  <2>7. LiveOK' /\ CacheOK' /\ StampOK'
    BY <1>1 DEF LiveOK, CacheOK, StampOK, Stamped
  <2>8. LateOK'
    <3>1. \A w \in Writer : Stamped(w) => tx[w].vs \in Stamp /\ tx[w].vs \in Nat
                                          /\ tx[w].vs <= clock
      BY TypeFacts DEF StampOK, Stamp, TypeOK
    <3>2. \A w \in Writer : Stamped(w) => tx[w].vs <= cursor \/ tx[w].vs \in Unseen
      BY <2>4, <3>1 DEF Unseen, SafeTimestamp, Stamped
    <3> QED BY <1>1, <2>3, <2>4, <3>2 DEF LateOK, Stamped
  <2>9. PassOK' /\ KeptOK'
    BY <1>1, <2>2, <2>3 DEF PassOK, KeptOK, Undelivered, SafeTimestamp
  <2>10. DealtOK'
    <3>1. \A e \in captured : e \notin Undelivered
             => e.vs <= cursor \/ e \in lost \/ e.vs \in Unseen
      <4> SUFFICES ASSUME NEW e \in captured, e \notin Undelivered,
                          ~(e.vs <= cursor), e \notin lost
                   PROVE  e.vs \in Unseen
        OBVIOUS
      <4>1. e.vs \in Stamp /\ e.vs \in Nat /\ e.vs <= clock /\ cursor < e.vs
        BY <2>4, TypeFacts DEF TypeOK, StampOK
      <4>2. e \in lqe \ pass.lqe
        BY <4>1 DEF KeptOK, Undelivered, SafeTimestamp
      <4> QED BY <4>1, <4>2 DEF Unseen, SafeTimestamp
    <3> QED BY <1>1, <2>3, <3>1 DEF DealtOK, Done
  <2>11. OrderOK' /\ SentOnce'
    BY <1>1, <2>3 DEF OrderOK, Below, SentOnce
  <2> QED BY <2>6, <2>7, <2>8, <2>9, <2>10, <2>11
<1> QED BY <1>2, <1>3

(* A pass loads a list that lacks no live query of its snapshot, unless     *)
(* raced.                                                                   *)
LEMMA OpenTableOK ==
  ASSUME IInv, NEW t \in Table, OpenTable(t)
  PROVE  IInv'
<1> USE DEF IInv
<1> DEFINE lists == Loaded(t, pass.live)
           to == UNION lists
<1>1. /\ Replaying /\ Load(t, pass.live)
      /\ pass' = [pass EXCEPT !.tb = t, !.to = to]
      /\ UNCHANGED <<tables, live, clock, lqe, tx, cursor, delivered, failed,
                     captured, late, lost>>
  BY DEF OpenTable, Turn, Replaying, sent
<1>2. pass.live \in SUBSET Query
  BY TypeFacts
<1>3. /\ cache' \in [Table -> SUBSET SUBSET Query]
      /\ \A u \in Table : \A k, l \in cache'[u] : k = l
      /\ raced \subseteq raced' /\ raced' \subseteq Query /\ CacheOK'
      /\ cache'[t] = lists /\ lists # {}
      /\ \A q \in pass.live : live[q] = "live" /\ TableOf[q] = t /\ q \notin raced'
            => \A l \in lists : q \in l
  BY <1>1, <1>2, LoadFacts
<1> HIDE DEF lists
<1>4. /\ to \subseteq Query /\ \A q \in to : TableOf[q] = t
      /\ \A q \in pass.live : live[q] = "live" /\ TableOf[q] = t /\ q \notin raced'
            => q \in to
  <2>1. lists \in SUBSET SUBSET Query /\ \A l \in lists : \A q \in l : TableOf[q] = t
    BY <1>3 DEF CacheOK
  <2> QED BY <1>3, <2>1
<1> HIDE DEF to
<1>5. /\ pass'.phase = pass.phase /\ pass'.vs = pass.vs /\ pass'.live = pass.live
      /\ pass'.lqe = pass.lqe /\ pass'.late = pass.late /\ pass'.tb = t /\ pass'.to = to
      /\ Replaying'
  BY <1>1 DEF TypeOK, Pass, Replaying
<1>6. TypeOK'
  <2>1. pass' \in Pass
    BY <1>1, <1>4 DEF TypeOK, Pass
  <2> QED BY <1>1, <1>3, <2>1 DEF TypeOK
<1>7. LiveOK' /\ StampOK' /\ KeptOK'
  BY <1>1, <1>5 DEF LiveOK, StampOK, KeptOK, Stamped
<1>8. LateOK' /\ DealtOK'
  BY <1>1, <1>3, <1>5 DEF LateOK, DealtOK, Done, Stamped
<1>9. OrderOK' /\ SentOnce'
  BY <1>1, <1>5 DEF OrderOK, Below, SentOnce, Replaying
<1>10. PassOK'
  BY <1>1, <1>4, <1>5 DEF PassOK, Replaying
<1> QED BY <1>3, <1>6, <1>7, <1>8, <1>9, <1>10

(* An event is sent once per pass, and before the later ones of its table.  *)
LEMMA ReplayOK ==
  ASSUME IInv, NEW e \in pass.lqe, Replay(e)
  PROVE  /\ IInv'
         /\ failed \/ \A q \in Query, v \in Stamp :
               delivered'[q][v] > delivered[q][v]
                   => \A u \in Stamp : u > v => delivered[q][u] = 0
<1> USE DEF IInv
<1> DEFINE left == pass.lqe \ {e}
           last == \A f \in left : f.tb # e.tb
           tb == IF last THEN None ELSE pass.tb
           to == IF last THEN {} ELSE pass.to
           hit(q, v) == q \in pass.to /\ v = e.vs
<1>1. /\ Replaying /\ NextEvent(e) /\ pass.tb = e.tb
      /\ pass' = [pass EXCEPT !.lqe = left, !.tb = tb, !.to = to]
      /\ delivered' = [q \in Query |-> [v \in Stamp |->
                         IF hit(q, v) THEN IF failed \/ delivered[q][v] = 0 THEN 1 ELSE 2
                         ELSE delivered[q][v]]]
      /\ UNCHANGED <<tables, live, cache, clock, lqe, tx, cursor, failed,
                     captured, late, lost, raced>>
  BY DEF Replay, Replaying, TypeOK, Pass, races
<1>2. /\ e.vs \in Stamp /\ e.vs \in Nat /\ e.tb \in Table /\ e.watchers \subseteq Query
      /\ left \subseteq Event /\ tb \in Table \cup {None} /\ to \subseteq Query
  BY <1>1, TypeFacts
<1>3. /\ \A q \in pass.to : q \in Query /\ TableOf[q] = e.tb
      /\ \A q \in pass.live :
            live[q] = "live" /\ TableOf[q] = e.tb /\ q \notin raced => q \in pass.to
  BY <1>1, TypeFacts DEF PassOK
<1>4. /\ pass'.phase = pass.phase /\ pass'.vs = pass.vs /\ pass'.live = pass.live
      /\ pass'.lqe = left /\ pass'.late = pass.late /\ pass'.tb = tb /\ pass'.to = to
      /\ Replaying'
  BY <1>1 DEF TypeOK, Pass, Replaying
<1>5. \A q \in Query, v \in Stamp :
         /\ delivered[q][v] \in 0..2
         /\ delivered'[q][v] = IF hit(q, v) THEN IF failed \/ delivered[q][v] = 0 THEN 1 ELSE 2
                               ELSE delivered[q][v]
  BY <1>1 DEF TypeOK
<1>6. TypeOK'
  <2>1. delivered' \in [Query -> [Stamp -> 0..2]]
    BY <1>1 DEF TypeOK
  <2>2. pass' \in Pass
    BY <1>1, <1>2 DEF TypeOK, Pass
  <2> QED BY <1>1, <2>1, <2>2 DEF TypeOK
<1>7. e \in captured
  BY DEF KeptOK
<1>8. LiveOK' /\ CacheOK' /\ StampOK' /\ KeptOK'
  BY <1>1, <1>4 DEF LiveOK, CacheOK, StampOK, KeptOK, Stamped
<1>9. LateOK'
  BY <1>1, <1>4 DEF LateOK, Stamped, Replaying
<1>10. PassOK'
  <2>1. (tb = None /\ to = {}) \/ (tb = pass.tb /\ to = pass.to)
    OBVIOUS
  <2>2. \A q \in pass.live : TableOf[q] # None
    BY TypeFacts
  <2> QED BY <1>1, <1>4, <2>1, <2>2 DEF PassOK, Replaying
(* What was sent of e's table is below e.                                   *)
<1>11. ~failed => \A q \in Query, v \in Stamp :
          TableOf[q] = e.tb /\ delivered[q][v] > 0 => v < e.vs
  <2> SUFFICES ASSUME ~failed, NEW q \in Query, NEW v \in Stamp,
                      TableOf[q] = e.tb, delivered[q][v] > 0
               PROVE  v < e.vs
    OBVIOUS
  <2>1. Below(q, v)
    BY DEF OrderOK
  <2>2. v \in Nat /\ cursor < e.vs
    BY <1>1 DEF Stamp, PassOK
  <2> QED BY <1>2, <2>1, <2>2, TypeFacts DEF Below
<1>12. DealtOK'
  <2>1. \A f \in captured : \A q \in f.watchers :
           q \in Query /\ f.vs \in Stamp /\ (Done(f, q) => Done(f, q)')
    <3> SUFFICES ASSUME NEW f \in captured, NEW q \in f.watchers
                 PROVE  q \in Query /\ f.vs \in Stamp /\ (Done(f, q) => Done(f, q)')
      OBVIOUS
    <3>1. q \in Query /\ f.vs \in Stamp
      BY TypeFacts DEF TypeOK
    <3> QED BY <1>1, <1>5, <3>1 DEF Done
  <2>2. \A q \in e.watchers : live[q] = "live" => Done(e, q)'
    <3> SUFFICES ASSUME NEW q \in e.watchers, live[q] = "live", q \notin raced
                 PROVE  delivered'[q][e.vs] > 0
      BY <1>1 DEF Done
    <3>1. q \in pass.to
      BY <1>3, <1>7 DEF LiveOK, PassOK
    <3> QED BY <1>2, <1>5, <3>1
  <2> SUFFICES ASSUME NEW f \in captured, NEW q \in f.watchers, live[q] = "live"
               PROVE  /\ f.vs <= cursor => Done(f, q)' \/ f.vs \in late
                      /\ f.vs <= pass.vs /\ f \notin left
                            => Done(f, q)' \/ f.vs \in late \cup pass.late
    BY <1>1, <1>4 DEF DealtOK
  <2>3. CASE f = e
    BY <2>2, <2>3
  <2>4. CASE f # e
    BY <1>1, <2>1, <2>4 DEF DealtOK
  <2> QED BY <2>3, <2>4
<1>13. OrderOK'
  <2> SUFFICES ASSUME ~failed, NEW q \in Query, NEW v \in Stamp, delivered'[q][v] > 0
               PROVE  Below(q, v)'
    BY <1>1 DEF OrderOK
  <2>1. CASE delivered[q][v] > 0
    BY <1>1, <1>4, <2>1 DEF OrderOK, Below
  <2>2. CASE ~(delivered[q][v] > 0)
    <3>1. TableOf[q] = e.tb /\ v = e.vs
      BY <1>3, <1>5, <2>2
    <3>2. \A f \in left : f.tb = e.tb => f.vs > e.vs
      <4> SUFFICES ASSUME NEW f \in left, f.tb = e.tb PROVE f.vs > e.vs
        OBVIOUS
      <4>1. e.vs <= f.vs /\ f.vs \in Nat
        BY <1>1, TypeFacts DEF NextEvent
      <4>2. e.vs # f.vs
        BY DEF StampOK, KeptOK
      <4> QED BY <1>2, <4>1, <4>2
    <3>3. v <= pass.vs
      BY <1>1, <3>1 DEF PassOK
    <3> QED BY <1>4, <3>1, <3>2, <3>3 DEF Below
  <2> QED BY <2>1, <2>2
<1>14. SentOnce'
  <2> SUFFICES ASSUME ~failed, NEW q \in Query, NEW v \in Stamp PROVE delivered'[q][v] < 2
    BY <1>1 DEF SentOnce
  <2>1. hit(q, v) => delivered[q][v] = 0
    BY <1>3, <1>2, <1>5, <1>11
  <2>2. delivered[q][v] < 2
    BY DEF SentOnce
  <2> QED BY <1>5, <2>1, <2>2
<1>15. failed \/ \A q \in Query, v \in Stamp :
          delivered'[q][v] > delivered[q][v] => \A u \in Stamp : u > v => delivered[q][u] = 0
  <2> SUFFICES ASSUME ~failed, NEW q \in Query, NEW v \in Stamp, NEW u \in Stamp,
                      delivered'[q][v] > delivered[q][v], u > v
               PROVE  delivered[q][u] = 0
    OBVIOUS
  <2>1. TableOf[q] = e.tb /\ v = e.vs
    BY <1>3, <1>5
  <2>2. ~(u < e.vs)
    BY <1>2, <2>1 DEF Stamp
  <2> QED BY <1>5, <1>11, <2>1, <2>2
<1> QED BY <1>6, <1>8, <1>9, <1>10, <1>12, <1>13, <1>14, <1>15

LEMMA FinishOK ==
  ASSUME IInv, Finish
  PROVE  IInv'
<1> USE DEF IInv
<1>1. /\ Replaying /\ pass.lqe = {} /\ cursor' = pass.vs /\ pass' = NoPass
      /\ late' = late \cup pass.late
      /\ UNCHANGED <<tables, live, cache, clock, lqe, tx, delivered, failed,
                     captured, lost, raced>>
  BY DEF Finish, Replaying, sent
<1>2. ~Replaying' /\ pass'.lqe = {} /\ cursor < pass.vs /\ pass.vs <= clock
  BY <1>1 DEF Replaying, NoPass, LateOK
<1>3. TypeOK'
  <2>1. pass.vs \in 0..MaxStamp /\ pass.late \subseteq Stamp
    BY DEF TypeOK, Pass
  <2> QED BY <1>1, <2>1, Types DEF TypeOK
<1>4. LiveOK' /\ CacheOK' /\ StampOK'
  BY <1>1 DEF LiveOK, CacheOK, StampOK, Stamped
<1>5. LateOK'
  BY <1>1, <1>2 DEF LateOK, Stamped
<1>6. PassOK'
  BY <1>1, <1>2 DEF PassOK, NoPass
<1>7. DealtOK'
  BY <1>1, <1>2 DEF DealtOK, Done
<1>9. KeptOK'
  <2>1. \A e \in captured : e.vs \in Nat
    BY TypeFacts DEF TypeOK
  <2> QED BY <1>1, <1>2, <2>1, TypeFacts DEF KeptOK
<1>8. OrderOK' /\ SentOnce'
  <2>1. \A q \in Query, v \in Stamp : Below(q, v) => v <= pass.vs
    BY <1>1, TypeFacts DEF Below, LateOK, Stamp
  <2> QED BY <1>1, <2>1 DEF OrderOK, Below, SentOnce
<1> QED BY <1>3, <1>4, <1>5, <1>6, <1>7, <1>8, <1>9

LEMMA FailPassOK ==
  ASSUME IInv, FailPass
  PROVE  IInv'
<1> USE DEF IInv
<1>1. /\ pass' = NoPass /\ failed' = TRUE
      /\ UNCHANGED <<tables, live, cache, clock, lqe, tx, cursor, delivered,
                     captured, late, lost, raced>>
  BY DEF FailPass, races
<1>2. ~Replaying' /\ pass'.lqe = {}
  BY <1>1 DEF Replaying, NoPass
<1>3. TypeOK'
  <2>1. failed' \in BOOLEAN
    BY <1>1
  <2> QED BY <1>1, <2>1, Types DEF TypeOK
<1>4. LiveOK' /\ CacheOK' /\ StampOK' /\ LateOK' /\ KeptOK'
  BY <1>1, <1>2 DEF LiveOK, CacheOK, StampOK, LateOK, KeptOK, Stamped
<1>5. PassOK'
  BY <1>1, <1>2 DEF PassOK, NoPass
<1>6. DealtOK'
  BY <1>1, <1>2 DEF DealtOK, Done
<1>7. OrderOK' /\ SentOnce'
  BY <1>1 DEF OrderOK, SentOnce
<1> QED BY <1>3, <1>4, <1>6, <1>7, <1>5

(* What is collected above the cursor is lost.                              *)
LEMMA CollectOK ==
  ASSUME IInv, NEW cut \in Stamp, Collect(cut)
  PROVE  IInv'
<1> USE DEF IInv
<1> DEFINE gone == {e \in lqe : e.vs <= cut}
<1>1. /\ lqe' = lqe \ gone /\ lost' = lost \cup {e \in gone : e.vs > cursor}
      /\ UNCHANGED <<tables, live, cache, clock, tx, cursor, pass, delivered, failed,
                     captured, late, raced>>
  BY DEF Collect, Collected, sent
<1>2. lqe' \subseteq lqe /\ lost \subseteq lost' /\ lost' \subseteq lost \cup lqe
  BY <1>1
<1>3. TypeOK'
  BY <1>1, <1>2 DEF TypeOK
<1>4. LiveOK' /\ StampOK' /\ LateOK'
  BY <1>1 DEF LiveOK, StampOK, LateOK, Stamped, Replaying
<1>5. KeptOK'
  <2>1. \A e \in captured : e.vs \in Nat
    BY TypeFacts DEF TypeOK
  <2> QED BY <1>1, <1>2, <2>1, TypeFacts DEF KeptOK
<1> HIDE DEF gone
<1>6. CacheOK' /\ PassOK' /\ OrderOK' /\ SentOnce'
  BY <1>1 DEF CacheOK, PassOK, OrderOK, Below, SentOnce, Replaying
<1>7. DealtOK'
  BY <1>1, <1>2 DEF DealtOK, Done, Replaying
<1> QED BY <1>3, <1>4, <1>5, <1>6, <1>7

(* The order of one step; only a replay sends.                              *)
Ordered ==
    failed \/ \A q \in Query, v \in Stamp :
        delivered'[q][v] > delivered[q][v]
            => \A u \in Stamp : u > v => delivered[q][u] = 0

LEMMA NextOK ==
  ASSUME IInv, [Next]_vars
  PROVE  IInv' /\ Ordered
<1>1. delivered' = delivered => Ordered
  <2> SUFFICES ASSUME delivered' = delivered, NEW q \in Query, NEW v \in Stamp
               PROVE  ~(delivered'[q][v] > delivered[q][v])
    BY DEF Ordered
  <2>1. delivered[q][v] \in 0..2
    BY DEF IInv, TypeOK
  <2> QED BY <2>1
<1>2. CASE ClientStep
  BY <1>1, <1>2, ClientOK DEF ClientStep, Live, LiveCommit, Kill, RemoveTable, sent
<1>3. CASE \E w \in Writer : TxStep(w)
  <2>1. PICK w \in Writer : \/ OpenTx(w) \/ TakeStamp(w) \/ Commit(w) \/ Abort(w)
                            \/ \E t \in Table : Write(w, t)
    BY <1>3 DEF TxStep
  <2>2. delivered' = delivered
    BY <2>1 DEF OpenTx, TakeStamp, Commit, Abort, Write, sent
  <2> QED BY <1>1, <2>1, <2>2, OpenTxOK, TakeStampOK, CommitOK, AbortOK, WriteOK
<1>4. CASE OpenPass
  BY <1>1, <1>4, OpenPassOK DEF OpenPass, sent
<1>5. CASE Scan
  BY <1>1, <1>5, ScanOK DEF Scan, sent
<1>6. CASE Finish
  BY <1>1, <1>6, FinishOK DEF Finish, sent
<1>7. CASE \E e \in pass.lqe : Replay(e)
  BY <1>7, ReplayOK DEF Ordered
<1>8. CASE (\E t \in Table : TableGone(t)) \/ StorageError
  <2>1. FailPass
    BY <1>8, SMTT(30) DEF TableGone, StorageError
  <2> QED BY <1>1, <2>1, FailPassOK DEF FailPass
<1>9. CASE \E t \in Table : OpenTable(t)
  BY <1>1, <1>9, OpenTableOK DEF OpenTable, sent
<1>10. CASE GcStep
  BY <1>1, <1>10, CollectOK DEF GcStep, Collect, Collected, sent
<1>11. CASE UNCHANGED vars
  <2> USE <1>11 DEF vars, sent, races
  <2>1. TypeOK' /\ LiveOK' /\ CacheOK' /\ StampOK' /\ LateOK' /\ KeptOK'
    BY DEF IInv, TypeOK, LiveOK, CacheOK, StampOK, LateOK, KeptOK, Stamped, Replaying
  <2>2. PassOK' /\ DealtOK' /\ OrderOK' /\ SentOnce'
    BY DEF IInv, PassOK, DealtOK, Done, OrderOK, Below, SentOnce, Replaying
  <2> QED BY <1>1, <2>1, <2>2 DEF IInv
<1> QED BY <1>2, <1>3, <1>4, <1>5, <1>6, <1>7, <1>8, <1>10, <1>11, <1>9
        DEF Next, RouterStep

(* The invariant the properties follow from.                                *)
THEOREM RouterInvariant == Spec => []IInv
<1>1. IInv /\ [Next]_vars => IInv'
  BY NextOK
<1> QED BY InitOK, <1>1, PTL DEF Spec

(* Every variable keeps its type: LiveQueryRouter's TypeOK.                 *)
THEOREM RouterTypes == Spec => []TypeOK
<1>1. IInv => TypeOK
  BY DEF IInv
<1> QED BY <1>1, RouterInvariant, PTL

(* Whatever commits, is registered, removed or collected during a pass of   *)
(* process: an event below its cursor was sent to each live query that its  *)
(* transaction saw, or is late, lost, or that query was raced.              *)
THEOREM NoEventSkipped == Spec => []NoneSkipped
<1>1. IInv => NoneSkipped
  <2> SUFFICES ASSUME IInv, NEW e \in captured, NEW q \in e.watchers, Skipped(e, q)
               PROVE  e.vs \in late \/ e \in lost \/ q \in raced
    BY DEF NoneSkipped
  <2>1. ~(delivered[q][e.vs] > 0)
    BY DEF Skipped
  <2>2. live[q] = "live" /\ e.vs <= cursor
    BY DEF Skipped
  <2> QED BY <2>1, <2>2 DEF IInv, DealtOK, Done
<1> QED BY <1>1, RouterInvariant, PTL

(* Until a pass fails, replay_live_event sends an event to a query once.    *)
THEOREM NoEventTwice == Spec => []SentOnce
<1>1. IInv => SentOnce
  BY DEF IInv
<1> QED BY <1>1, RouterInvariant, PTL

(* Until a pass fails, a live query is sent events in commit order.         *)
THEOREM EventsInOrder == Spec => InOrder
<1>1. IInv /\ [Next]_vars => [Ordered]_vars
  BY NextOK
<1> QED BY <1>1, RouterInvariant, PTL DEF Spec, InOrder, Ordered

=============================================================================

--------------------------- MODULE NodeMembership ---------------------------
(***************************************************************************)
(* Cluster membership, kvs/ds.rs: the record of every node (!nd), written  *)
(* by its heartbeats, archived when they stop, and removed together with   *)
(* the live queries of the node, which are stored twice (by node and by    *)
(* table).  Every node runs the three tasks of engine/tasks.rs.            *)
(*                                                                         *)
(* expire_nodes and remove_nodes read in one transaction and write in      *)
(* another: each is two steps.  Time is the age of a record.               *)
(***************************************************************************)
EXTENDS Naturals, FiniteSets

CONSTANTS Node, Query,
          MaxAge,     \* the heartbeat age a record may have (30 seconds)
          MaxStarts   \* bound: how often a node is started

ASSUME NodeMembershipAssumption ==
    MaxAge \in Nat /\ MaxStarts \in Nat

VARIABLES nd,      \* the node records
          nlq,     \* live queries by node, <<node, query>>
          tlq,     \* live queries by table, each with its node
          up,      \* the nodes that run
          starts,  \* how often one was started
          session, \* the live queries a client of a running node listens to
          expire,  \* expire_nodes of each node: the nodes found inactive
          remove,  \* remove_nodes of each node: the nodes found archived
          late     \* history: running nodes whose heartbeat was too old at a time, or
                   \* that came up while a task still held a reading of their id

tasks == <<expire, remove>>
vars == <<nd, nlq, tlq, up, starts, session, tasks, late>>

NoRecord == [state |-> "none"]
Record == {NoRecord} \cup [state : {"active", "archived"}, age : 0..(MaxAge + 1)]
Fresh == [state |-> "active", age |-> 0]

TypeOK ==
    /\ nd \in [Node -> Record]
    /\ nlq \subseteq Node \X Query /\ tlq \subseteq Node \X Query
    /\ session \subseteq Node \X Query
    /\ up \subseteq Node /\ starts \in 0..MaxStarts /\ late \subseteq Node
    /\ expire \in [Node -> SUBSET Node] /\ remove \in [Node -> SUBSET Node]

Init ==
    /\ nd = [n \in Node |-> NoRecord]
    /\ nlq = {} /\ tlq = {} /\ session = {} /\ late = {}
    /\ up = {} /\ starts = 0
    /\ expire = [n \in Node |-> {}] /\ remove = [n \in Node |-> {}]

----------------------------------------------------------------------------
\* insert_node, when the node starts.
Start(n) ==
    /\ n \notin up
    /\ starts < MaxStarts
    /\ up' = up \cup {n}
    /\ starts' = starts + 1
    /\ nd' = [nd EXCEPT ![n] = Fresh]
    /\ late' = IF \E k \in Node : n \in expire[k] \cup remove[k]
               THEN late \cup {n} ELSE late \ {n}
    /\ UNCHANGED <<nlq, tlq, session, tasks>>

\* update_node, the refresh task.
Heartbeat(n) ==
    /\ n \in up
    /\ nd' = [nd EXCEPT ![n] = Fresh]
    /\ UNCHANGED <<nlq, tlq, up, starts, session, tasks, late>>

\* Time passes, and a running node may not get its heartbeat written in time.  (No one
\* reads the heartbeat of an archived record.)
Tick ==
    /\ nd' = [n \in Node |-> IF nd[n].state = "active" /\ nd[n].age <= MaxAge
                             THEN [nd[n] EXCEPT !.age = @ + 1] ELSE nd[n]]
    /\ nd' # nd
    /\ late' = late \cup {n \in up : nd'[n].state = "active" /\ nd'[n].age > MaxAge}
    /\ UNCHANGED <<nlq, tlq, up, starts, session, tasks>>

\* The node stops, by a crash ...
Down(n) ==
    /\ n \in up
    /\ up \ {n} # {}
    /\ up' = up \ {n}
    /\ session' = {s \in session : s[1] # n}
    /\ expire' = [expire EXCEPT ![n] = {}] /\ remove' = [remove EXCEPT ![n] = {}]
    /\ UNCHANGED <<nlq, tlq, starts, late>>

Crash(n) == Down(n) /\ UNCHANGED nd

\* ... or by a shutdown: delete_node, which fails when the record is not there.
Archived(r) == [r EXCEPT !.state = "archived"]

\* Variant: the record is taken to be there.
ShutdownUnchecked(n) ==
    /\ Down(n)
    /\ nd' = [nd EXCEPT ![n] = Archived(@)]

Shutdown(n) ==
    /\ Down(n)
    /\ nd' = [nd EXCEPT ![n] = IF @.state = "none" THEN @ ELSE Archived(@)]

\* Variant: the age may not reach the limit.
ExpiredEarly(r) == r.state = "active" /\ r.age >= MaxAge

Expired(r) == r.state = "active" /\ r.age > MaxAge

\* expire_nodes: find the inactive nodes ...
ExpireRead(k) ==
    /\ k \in up /\ expire[k] = {}
    /\ expire' = [expire EXCEPT ![k] = {n \in Node : Expired(nd[n])}]
    /\ UNCHANGED <<nd, nlq, tlq, up, starts, session, remove, late>>

\* ... and write the records that were read, archived, over what is there now.
ExpireWrite(k) ==
    /\ k \in up /\ expire[k] # {}
    /\ nd' = [n \in Node |-> IF n \in expire[k] THEN [state |-> "archived", age |-> MaxAge + 1]
                             ELSE nd[n]]
    /\ expire' = [expire EXCEPT ![k] = {}]
    /\ UNCHANGED <<nlq, tlq, up, starts, session, remove, late>>

\* remove_nodes: find the archived nodes ...
RemoveRead(k) ==
    /\ k \in up /\ remove[k] = {}
    /\ remove' = [remove EXCEPT ![k] = {n \in Node : nd[n].state = "archived"}]
    /\ UNCHANGED <<nd, nlq, tlq, up, starts, session, expire, late>>

\* Variants: the queries are left in the table; the range of the scan is too wide; only
\* the record is removed; only the queries are.
RemoveOneByNode(k, n) ==
    /\ k \in up /\ n \in remove[k]
    /\ nlq' = {s \in nlq : s[1] # n}
    /\ nd' = [nd EXCEPT ![n] = NoRecord]
    /\ remove' = [remove EXCEPT ![k] = @ \ {n}]
    /\ UNCHANGED <<tlq, up, starts, session, expire, late>>
RemoveOneWide(k, n) ==
    /\ k \in up /\ n \in remove[k]
    /\ tlq' = {} /\ nlq' = {}
    /\ nd' = [nd EXCEPT ![n] = NoRecord]
    /\ remove' = [remove EXCEPT ![k] = @ \ {n}]
    /\ UNCHANGED <<up, starts, session, expire, late>>
RemoveOneRecord(k, n) ==
    /\ k \in up /\ n \in remove[k]
    /\ nd' = [nd EXCEPT ![n] = NoRecord]
    /\ remove' = [remove EXCEPT ![k] = @ \ {n}]
    /\ UNCHANGED <<nlq, tlq, up, starts, session, expire, late>>
RemoveOneQueries(k, n) ==
    /\ k \in up /\ n \in remove[k]
    /\ tlq' = {s \in tlq : s[1] # n} /\ nlq' = {s \in nlq : s[1] # n}
    /\ remove' = [remove EXCEPT ![k] = @ \ {n}]
    /\ UNCHANGED <<nd, up, starts, session, expire, late>>

\* ... and remove each with its live queries, in a transaction of its own.
RemoveOne(k, n) ==
    /\ k \in up /\ n \in remove[k]
    /\ tlq' = tlq \ {s \in nlq : s[1] = n}
    /\ nlq' = {s \in nlq : s[1] # n}
    /\ nd' = [nd EXCEPT ![n] = NoRecord]
    /\ remove' = [remove EXCEPT ![k] = @ \ {n}]
    /\ UNCHANGED <<up, starts, session, expire, late>>

\* A task fails, on a conflict for instance: it ends until its next interval.
TaskFails(k) ==
    /\ k \in up
    /\ \/ expire[k] # {} /\ expire' = [expire EXCEPT ![k] = {}] /\ UNCHANGED remove
       \/ remove[k] # {} /\ remove' = [remove EXCEPT ![k] = {}] /\ UNCHANGED expire
    /\ UNCHANGED <<nd, nlq, tlq, up, starts, session, late>>

\* LIVE SELECT on a running node; the id of the query is new.
Live(n, q) ==
    /\ n \in up
    /\ \A m \in Node : <<m, q>> \notin nlq \cup tlq \cup session
    /\ nlq' = nlq \cup {<<n, q>>} /\ tlq' = tlq \cup {<<n, q>>}
    /\ session' = session \cup {<<n, q>>}
    /\ UNCHANGED <<nd, up, starts, tasks, late>>

\* KILL and delete_queries find the query by node.
Unregister(n, q) ==
    /\ n \in up
    /\ nlq' = nlq \ {<<n, q>>}
    /\ tlq' = IF <<n, q>> \in nlq THEN tlq \ {<<n, q>>} ELSE tlq
    /\ session' = session \ {<<n, q>>}
    /\ UNCHANGED <<nd, up, starts, tasks, late>>

\* KILL fails when it does not find it.
Kill(n, q) == <<n, q>> \in nlq /\ Unregister(n, q)

\* The client disconnects, or its LIVE is answered after it did: the connection forgets
\* the query, and delete_queries removes it ...
Disconnect(n, q) == <<n, q>> \in session /\ Unregister(n, q)

\* ... or fails, which is only logged: the query stays registered without a client.
DeleteFails(n, q) ==
    /\ <<n, q>> \in session
    /\ session' = session \ {<<n, q>>}
    /\ UNCHANGED <<nd, nlq, tlq, up, starts, tasks, late>>

\* REMOVE TABLE, which the queries S select from: their clients are told, and only the
\* registrations by table go.
RemoveTable(S) ==
    /\ \E s \in tlq : s[2] \in S
    /\ tlq' = {s \in tlq : s[2] \notin S}
    /\ session' = {s \in session : s[2] \notin S}
    /\ UNCHANGED <<nd, nlq, up, starts, tasks, late>>

Next ==
    \/ Tick
    \/ \E n \in Node :
          \/ Start(n) \/ Heartbeat(n) \/ Crash(n) \/ Shutdown(n)
          \/ ExpireRead(n) \/ ExpireWrite(n) \/ RemoveRead(n) \/ TaskFails(n)
          \/ \E m \in Node : RemoveOne(n, m)
          \/ \E q \in Query : \/ Live(n, q) \/ Kill(n, q) \/ Disconnect(n, q) \/ DeleteFails(n, q)
    \/ \E S \in SUBSET Query : RemoveTable(S)

\* The tasks run at their intervals.  A conflict that makes the write of one fail is
\* a write that another has made, hence strong fairness for the writes.
Fairness ==
    /\ WF_vars(Tick)
    /\ \A n \in Node :
          /\ WF_vars(ExpireRead(n)) /\ WF_vars(RemoveRead(n))
          /\ SF_vars(ExpireWrite(n)) /\ \A m \in Node : SF_vars(RemoveOne(n, m))

Spec == Init /\ [][Next]_vars /\ Fairness

----------------------------------------------------------------------------
\* update_node "ensures that the node is not marked as expired by any garbage
\* collection tasks, preventing any data cleanup for this node": a live query that a
\* client of a running node listens to is registered, by node and by table, whatever
\* the tasks of other nodes do with what they have read before.  Only a node whose
\* heartbeat was late, or whose id a task had read before it came up, may lose it.
SessionsKept == \A s \in session : s[1] \notin late => s \in nlq \cap tlq

\* Who is notified of a write is registered by node as well, and so can be found when
\* the client or the node goes, also after REMOVE TABLE has taken one of the two.
FoundByNode == tlq \subseteq nlq

\* A query whose node is gone is unregistered in the end, also one that a failed
\* delete_queries has left without a client.  (Not one that a node registered after
\* it had been removed as dead and before its next heartbeat.)
LostQueriesRemoved ==
    \A n \in Node, q \in Query :
        <<n, q>> \in tlq /\ n \notin up \cup late
            ~> <<n, q>> \notin tlq \/ n \in up

\* A node that is gone is forgotten in the end, although a late expire_nodes may
\* bring back the record that another node has just removed.
DeadNodesForgotten ==
    \A n \in Node : n \notin up ~> nd[n].state = "none" \/ n \in up

\* A node that runs and is on time is known to the others as active: it is not only
\* re-registered in time, no task ever takes its record away.
RunningNodesActive == \A n \in up \ late : nd[n].state = "active"
=============================================================================

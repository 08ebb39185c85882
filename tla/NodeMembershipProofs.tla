----------------------- MODULE NodeMembershipProofs ------------------------
(***************************************************************************)
(* Safety of NodeMembership for every set of nodes and queries, also when  *)
(* ids are used again.  The argument: the tasks act on what they have read *)
(* in an earlier transaction, so the reads must stay true; a node found    *)
(* expired or archived was down or late, and a node that comes up under an *)
(* id which a task has read counts as late from its start.                 *)
(***************************************************************************)
EXTENDS NodeMembership, TLAPS

(* A running node that was never late has an active record, on time.       *)
NodesOK ==
    \A n \in up \ late : nd[n].state = "active" /\ nd[n].age <= MaxAge

(* What a task has read stays true: the nodes it means to archive or to    *)
(* remove are down or late.                                                *)
ReadsOK ==
    \A k \in Node : \A n \in expire[k] \cup remove[k] : n \notin up \ late

(* Clients are connected to running nodes, and their queries registered.   *)
QueriesOK == /\ tlq \subseteq nlq
             /\ \A s \in session : s[1] \in up /\ (s[1] \notin late => s \in tlq)

IInv == TypeOK /\ NodesOK /\ ReadsOK /\ QueriesOK

USE NodeMembershipAssumption DEF tasks

LEMMA InitOK == Init => IInv
  BY DEF Init, IInv, TypeOK, NodesOK, ReadsOK, QueriesOK, Record, NoRecord

(* A node comes up: late if a task has read its id, else on time.          *)
LEMMA StartOK ==
  ASSUME IInv, NEW n \in Node, Start(n)
  PROVE  IInv'
<1> USE DEF IInv
<1>1. nd'[n] = Fresh /\ \A m \in Node \ {n} : nd'[m] = nd[m]
  BY DEF Start, TypeOK
<1>2. TypeOK'
  BY DEF Start, TypeOK, Record, Fresh
<1>3. \A m \in Node \ {n} : m \in up' \ late' => m \in up \ late
  BY DEF Start
<1>4. NodesOK'
  <2>1. Fresh.state = "active" /\ Fresh.age <= MaxAge
    BY DEF Fresh
  <2> QED BY <1>1, <1>2, <1>3, <2>1 DEF NodesOK, TypeOK
<1>5. ReadsOK'
  <2> SUFFICES ASSUME NEW k \in Node, NEW m \in expire[k] \cup remove[k]
               PROVE  m \notin up' \ late'
    BY DEF Start, ReadsOK
  <2>1. m \in Node /\ m \notin up \ late
    BY DEF ReadsOK, TypeOK
  <2>2. CASE m = n
    BY <2>2 DEF Start
  <2> QED BY <1>3, <2>1, <2>2
<1>6. QueriesOK'
  BY DEF Start, QueriesOK
<1> QED BY <1>2, <1>4, <1>5, <1>6

LEMMA HeartbeatOK ==
  ASSUME IInv, NEW n \in Node, Heartbeat(n)
  PROVE  IInv'
<1> USE DEF IInv
<1>1. TypeOK'
  BY DEF Heartbeat, TypeOK, Record, Fresh
<1>2. NodesOK'
  <2>1. Fresh.state = "active" /\ Fresh.age <= MaxAge
    BY DEF Fresh
  <2> QED BY <2>1 DEF Heartbeat, NodesOK, TypeOK
<1>3. ReadsOK' /\ QueriesOK'
  BY DEF Heartbeat, ReadsOK, QueriesOK
<1> QED BY <1>1, <1>2, <1>3

(* Time passes: a running node whose record becomes too old is late.       *)
LEMMA TickOK ==
  ASSUME IInv, Tick
  PROVE  IInv'
<1> USE DEF IInv
<1>1. ASSUME NEW n \in Node
      PROVE  /\ nd'[n] \in Record /\ nd'[n].state = nd[n].state
             /\ n \in up' \ late' => n \in up \ late /\ nd'[n].age <= MaxAge
  <2>1. nd[n] \in Record
    BY DEF TypeOK
  <2>2. CASE ~(nd[n].state = "active" /\ nd[n].age <= MaxAge)
    BY <2>1, <2>2 DEF Tick, NodesOK
  <2>3. CASE nd[n].state = "active" /\ nd[n].age <= MaxAge
    <3>1. nd'[n] = [nd[n] EXCEPT !.age = nd[n].age + 1]
      BY <2>3 DEF Tick
    <3>2. nd[n] \in [state : {"active", "archived"}, age : 0..(MaxAge + 1)]
      BY <2>1, <2>3 DEF Record, NoRecord
    <3>3. nd'[n] \in Record /\ nd'[n].state = "active" /\ nd'[n].age \in Nat
      BY <2>3, <3>1, <3>2 DEF Record
    <3> QED BY <2>3, <3>3 DEF Tick
  <2> QED BY <2>2, <2>3
<1>2. TypeOK'
  <2>1. nd' \in [Node -> Record]
    BY <1>1 DEF Tick
  <2> QED BY <2>1 DEF Tick, TypeOK
<1>3. NodesOK'
  BY <1>1, <1>2 DEF Tick, NodesOK, TypeOK
<1>4. ReadsOK' /\ QueriesOK'
  BY DEF Tick, ReadsOK, QueriesOK
<1> QED BY <1>2, <1>3, <1>4

(* A node that stops leaves its record as it is or archived.               *)
LEMMA DownOK ==
  ASSUME IInv, NEW n \in Node, Down(n),
         nd' = nd \/ nd' = [nd EXCEPT ![n] = IF @.state = "none" THEN @ ELSE Archived(@)]
  PROVE  IInv'
<1> USE DEF IInv
<1>1. ASSUME NEW m \in Node
      PROVE  nd'[m] \in Record /\ (m # n => nd'[m] = nd[m])
  <2>1. nd[m] \in Record
    BY DEF TypeOK
  <2>2. nd[m].state # "none" => Archived(nd[m]) \in Record
    BY <2>1 DEF Record, NoRecord, Archived
  <2> QED BY <2>1, <2>2 DEF TypeOK
<1>2. nd' \in [Node -> Record]
  BY <1>1 DEF TypeOK
<1>3. TypeOK'
  BY <1>2 DEF Down, TypeOK
<1>4. NodesOK'
  BY <1>1 DEF Down, NodesOK, TypeOK
<1>5. ReadsOK'
  BY DEF Down, ReadsOK, TypeOK
<1>6. QueriesOK'
  BY DEF Down, QueriesOK, TypeOK
<1> QED BY <1>3, <1>4, <1>5, <1>6

(* expire_nodes finds nodes that are down, and archives only those.        *)
LEMMA ExpireOK ==
  ASSUME IInv, NEW k \in Node, ExpireRead(k) \/ ExpireWrite(k)
  PROVE  IInv'
<1> USE DEF IInv
<1>1. CASE ExpireRead(k)
  <2>1. \A n \in Node : Expired(nd[n]) => n \notin up \ late
    <3> SUFFICES ASSUME NEW n \in Node, Expired(nd[n]), nd[n].age <= MaxAge
                 PROVE  FALSE
      BY DEF NodesOK
    <3>1. nd[n].age \in Nat
      BY DEF Expired, TypeOK, Record, NoRecord
    <3> QED BY <3>1 DEF Expired
  <2>2. ReadsOK'
    BY <1>1, <2>1 DEF ExpireRead, ReadsOK, TypeOK
  <2>3. TypeOK' /\ NodesOK' /\ QueriesOK'
    BY <1>1 DEF ExpireRead, TypeOK, NodesOK, QueriesOK
  <2> QED BY <2>2, <2>3
<1>2. CASE ExpireWrite(k)
  <2>1. TypeOK'
    BY <1>2 DEF ExpireWrite, TypeOK, Record
  <2>2. NodesOK'
    BY <1>2 DEF ExpireWrite, NodesOK, ReadsOK, TypeOK
  <2>3. ReadsOK' /\ QueriesOK'
    BY <1>2 DEF ExpireWrite, ReadsOK, QueriesOK, TypeOK
  <2> QED BY <2>1, <2>2, <2>3
<1> QED BY <1>1, <1>2

(* remove_nodes finds nodes that are down or late, and takes only their    *)
(* queries.                                                                *)
LEMMA RemoveOK ==
  ASSUME IInv, NEW k \in Node, NEW n \in Node, RemoveRead(k) \/ RemoveOne(k, n)
  PROVE  IInv'
<1> USE DEF IInv
<1>1. CASE RemoveRead(k)
  <2>1. \A m \in Node : nd[m].state = "archived" => m \notin up \ late
    BY DEF NodesOK
  <2>2. ReadsOK'
    BY <1>1, <2>1 DEF RemoveRead, ReadsOK, TypeOK
  <2>3. TypeOK' /\ NodesOK' /\ QueriesOK'
    BY <1>1 DEF RemoveRead, TypeOK, NodesOK, QueriesOK
  <2> QED BY <2>2, <2>3
<1>2. CASE RemoveOne(k, n)
  <2>1. n \notin up \ late
    BY <1>2 DEF RemoveOne, ReadsOK
  <2>2. TypeOK'
    BY <1>2 DEF RemoveOne, TypeOK, Record
  <2>3. NodesOK'
    BY <1>2, <2>1 DEF RemoveOne, NodesOK, TypeOK
  <2>4. ReadsOK'
    BY <1>2 DEF RemoveOne, ReadsOK, TypeOK
  <2>5. QueriesOK'
    BY <1>2, <2>1 DEF RemoveOne, QueriesOK
  <2> QED BY <2>2, <2>3, <2>4, <2>5
<1> QED BY <1>1, <1>2

LEMMA TaskFailsOK ==
  ASSUME IInv, NEW k \in Node, TaskFails(k)
  PROVE  IInv'
<1> USE DEF IInv
<1>1. TypeOK'
  BY DEF TaskFails, TypeOK
<1>2. ReadsOK'
  BY DEF TaskFails, ReadsOK, TypeOK
<1>3. NodesOK' /\ QueriesOK'
  BY DEF TaskFails, NodesOK, QueriesOK
<1> QED BY <1>1, <1>2, <1>3

(* LIVE, KILL and a client that goes change the registrations only.        *)
LEMMA QueryOK ==
  ASSUME IInv, NEW n \in Node, NEW q \in Query,
         Live(n, q) \/ Kill(n, q) \/ Disconnect(n, q) \/ DeleteFails(n, q)
  PROVE  IInv'
<1> USE DEF IInv, Kill, Disconnect
<1>1. TypeOK'
  BY DEF Live, Unregister, DeleteFails, TypeOK
<1>2. NodesOK' /\ ReadsOK'
  BY DEF Live, Unregister, DeleteFails, NodesOK, ReadsOK
<1>3. CASE Live(n, q)
  BY <1>1, <1>2, <1>3 DEF Live, QueriesOK
<1>4. CASE Unregister(n, q)
  BY <1>1, <1>2, <1>4 DEF Unregister, QueriesOK
<1>5. CASE DeleteFails(n, q)
  BY <1>1, <1>2, <1>5 DEF DeleteFails, QueriesOK
<1> QED BY <1>3, <1>4, <1>5

LEMMA RemoveTableOK ==
  ASSUME IInv, NEW S \in SUBSET Query, RemoveTable(S)
  PROVE  IInv'
<1> USE DEF IInv
<1>1. TypeOK'
  BY DEF RemoveTable, TypeOK
<1>2. NodesOK' /\ ReadsOK' /\ QueriesOK'
  BY DEF RemoveTable, NodesOK, ReadsOK, QueriesOK
<1> QED BY <1>1, <1>2

LEMMA NextOK ==
  ASSUME IInv, [Next]_vars
  PROVE  IInv'
<1>1. CASE Tick
  BY <1>1, TickOK
<1>2. ASSUME NEW n \in Node,
             \/ Start(n) \/ Heartbeat(n) \/ Crash(n) \/ Shutdown(n)
             \/ ExpireRead(n) \/ ExpireWrite(n) \/ RemoveRead(n) \/ TaskFails(n)
             \/ \E m \in Node : RemoveOne(n, m)
             \/ \E q \in Query : Live(n, q) \/ Kill(n, q) \/ Disconnect(n, q) \/ DeleteFails(n, q)
      PROVE  IInv'
  <2>1. CASE Crash(n) \/ Shutdown(n)
    BY <2>1, DownOK DEF Crash, Shutdown
  <2> QED BY <1>2, <2>1, StartOK, HeartbeatOK, ExpireOK, RemoveOK, TaskFailsOK, QueryOK
<1>3. CASE UNCHANGED vars
  BY <1>3 DEF vars, IInv, TypeOK, NodesOK, ReadsOK, QueriesOK
<1>4. CASE \E S \in SUBSET Query : RemoveTable(S)
  BY <1>4, RemoveTableOK
<1> QED BY <1>1, <1>2, <1>3, <1>4 DEF Next

(* The invariant behind the theorems.                                      *)
THEOREM MembershipInvariant ==
  Spec => []IInv
<1>1. IInv /\ [Next]_vars => IInv'
  BY NextOK
<1> QED BY InitOK, <1>1, PTL DEF Spec

(* Every variable keeps its type: NodeMembership's TypeOK.                 *)
THEOREM MembershipTypes ==
  Spec => []TypeOK
<1>1. IInv => TypeOK
  BY DEF IInv
<1> QED BY <1>1, MembershipInvariant, PTL

(* No task of any node, on however old a reading, unregisters a live query *)
(* that a client of a running node listens to, unless that node was late:  *)
(* remove_nodes.                                                           *)
THEOREM ClientsKeepTheirQueries ==
  Spec => []SessionsKept
<1>1. IInv => SessionsKept
  BY DEF IInv, QueriesOK, SessionsKept
<1> QED BY <1>1, MembershipInvariant, PTL

(* A query that writers notify is registered by its node: remove_nodes and *)
(* delete_queries find it.                                                 *)
THEOREM RegistrationsFound ==
  Spec => []FoundByNode
<1>1. IInv => FoundByNode
  BY DEF IInv, QueriesOK, FoundByNode
<1> QED BY <1>1, MembershipInvariant, PTL

(* The record of a running node that was never late is not archived and    *)
(* not removed: the write of expire_nodes replaces records it has read,    *)
(* yet never a heartbeat that was in time.                                 *)
THEOREM RunningNodesStayActive ==
  Spec => []RunningNodesActive
<1>1. IInv => RunningNodesActive
  BY DEF IInv, NodesOK, RunningNodesActive
<1> QED BY <1>1, MembershipInvariant, PTL
=============================================================================

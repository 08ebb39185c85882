---------------------------- MODULE MCTaskLease ----------------------------
(* TaskLease with one lease user on each of two nodes, and with two users   *)
(* (a task loop and a worker an earlier batch left behind) on the first.    *)
EXTENDS TaskLease, TLC

CONSTANTS n1, n2, t1, t2, t3

OneEach == (t1 :> n1) @@ (t2 :> n2)
TwoOnFirst == (t1 :> n1) @@ (t2 :> n2) @@ (t3 :> n1)
============================================================================

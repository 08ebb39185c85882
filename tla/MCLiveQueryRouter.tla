------------------------- MODULE MCLiveQueryRouter -------------------------
(* LiveQueryRouter for few tables, live queries and transactions.           *)
EXTENDS LiveQueryRouter, TLC

CONSTANTS t1, t2, q1, q2, w1, w2

OneEach == q1 :> t1 @@ q2 :> t2
=============================================================================

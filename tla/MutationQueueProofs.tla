------------------------- MODULE MutationQueueProofs -------------------------
(***************************************************************************)
(* Facts about sets of queued mutations (!bg) of one generation: the        *)
(* mutations of a record form a chain, which a commit makes longer at its   *)
(* end and the replay shorter at its beginning.                             *)
(***************************************************************************)
EXTENDS IndexBuild, FiniteSetTheorems, WellFoundedInduction, TLAPS

(* The mutations of a record, in the order of ticket and sequence.          *)
About(Q, r) == \E a \in Q : a.rec = r
Touches(a, e) == a.rec = e[1] /\ (a.old = e[2] \/ a.new = e[2])
Touched(Q, e) == \E a \in Q : Touches(a, e)
First(Q, a) == \A c \in Q : c.rec = a.rec => ~Before(c, a)
Last(Q, a) == \A c \in Q : c.rec = a.rec => ~Before(a, c)
Adjacent(Q, a, c) ==
    /\ a.rec = c.rec /\ Before(a, c)
    /\ \A d \in Q : d.rec = a.rec => ~(Before(a, d) /\ Before(d, c))

(* They lead from one value to the next, the last one to what the record is. *)
Distinct(Q) == \A a, c \in Q : a.ticket = c.ticket /\ a.seq = c.seq => a = c
Linked(Q) == \A a, c \in Q : Adjacent(Q, a, c) => c.old = a.new
EndsIn(Q, f) == \A a \in Q : Last(Q, a) => a.new = f[a.rec]
Moves(Q) == \A a \in Q : a.old # a.new
Chain(Q, f) == Distinct(Q) /\ Linked(Q) /\ EndsIn(Q, f) /\ Moves(Q)

(* What the first of them found: the value of the record if there are none. *)
BaseOf(Q, f, e) ==
    IF About(Q, e[1]) THEN \E a \in Q : a.rec = e[1] /\ First(Q, a) /\ a.old = e[2]
    ELSE f[e[1]] = e[2]

(* A part of the queue that has, with a mutation, all that precede it.      *)
Prefix(K, Q) == K \subseteq Q /\ \A a \in K, c \in Q : c.rec = a.rec /\ ~Before(a, c) => c \in K

(* All mutations of R come after those of Q on the same record.             *)
Follows(R, Q) == \A a \in Q, c \in R : a.rec = c.rec => Before(a, c)

----------------------------------------------------------------------------
(* Mutations are ordered by ticket and sequence.                            *)
LEMMA Order ==
  ASSUME NEW a \in Appending, NEW c \in Appending, NEW d \in Appending
  PROVE  /\ ~Before(a, a)
         /\ Before(a, c) => ~Before(c, a)
         /\ Before(a, c) /\ Before(c, d) => Before(a, d)
         /\ Before(a, c) \/ Before(c, a) \/ (a.ticket = c.ticket /\ a.seq = c.seq)
         /\ ~Before(a, c) /\ Before(a, d) => Before(c, d)
         /\ ~Before(c, a) /\ Before(d, a) => Before(d, c)
<1>1. /\ a.ticket \in Int /\ a.seq \in Int /\ c.ticket \in Int /\ c.seq \in Int
      /\ d.ticket \in Int /\ d.seq \in Int
  BY IndexBuildAssumption DEF Appending
<1> QED BY <1>1 DEF Before

(* A set of numbers has a least one.                                        *)
LEMMA NatMin ==
  ASSUME NEW T \in SUBSET Nat, T # {}
  PROVE  \E n \in T : \A m \in T : n <= m
<1> DEFINE R == {ss \in Nat \X Nat : ss[1] < ss[2]}
<1>1. IsWellFoundedOn(R, Nat)
  BY NatLessThanWellFounded DEF OpToRel
<1>2. \E n \in T : \A m \in T : <<m, n>> \notin R
  <2> HIDE DEF R
  <2> QED BY <1>1, WFMin
<1>3. ASSUME NEW n \in Nat, NEW m \in Nat, <<m, n>> \notin R
      PROVE  n <= m
  <2>1. ~(m < n)
    BY <1>3
  <2> QED BY <2>1
<1> HIDE DEF R
<1> QED BY <1>2, <1>3

(* A set of mutations has an earliest one.                                  *)
LEMMA MinExists ==
  ASSUME NEW S \in SUBSET Appending, S # {}
  PROVE  \E a \in S : \A c \in S : ~Before(c, a)
<1>1. \A a \in S : a.ticket \in Nat /\ a.seq \in Nat
  BY IndexBuildAssumption DEF Appending
<1>2. \E n \in {a.ticket : a \in S} : \A m \in {a.ticket : a \in S} : n <= m
  <2> DEFINE T == {a.ticket : a \in S}
  <2>1. T \in SUBSET Nat /\ T # {}
    BY <1>1
  <2> HIDE DEF T
  <2>2. \E n \in T : \A m \in T : n <= m
    BY <2>1, NatMin
  <2> QED BY <2>2 DEF T
<1>3. PICK a0 \in S : \A c \in S : a0.ticket <= c.ticket
  BY <1>2
<1> DEFINE U == {a.seq : a \in {a \in S : a.ticket = a0.ticket}}
<1>4. \E n \in U : \A m \in U : n <= m
  <2>1. U \in SUBSET Nat /\ U # {}
    BY <1>1
  <2> HIDE DEF U
  <2> QED BY <2>1, NatMin
<1>5. PICK a \in S : a.ticket = a0.ticket /\ \A c \in S : c.ticket = a0.ticket => a.seq <= c.seq
  BY <1>4
<1> QED BY <1>1, <1>3, <1>5 DEF Before

(* A set of mutations has a latest one: tickets and sequences are bounded.  *)
LEMMA MaxExists ==
  ASSUME NEW S \in SUBSET Appending, S # {}
  PROVE  \E a \in S : \A c \in S : ~Before(a, c)
<1>1. \A a \in S : a.ticket \in 0..MaxTicket /\ a.seq \in 0..MaxSeq
  BY DEF Appending
<1>2. \E n \in {MaxTicket - a.ticket : a \in S} : \A m \in {MaxTicket - a.ticket : a \in S} : n <= m
  <2> DEFINE T == {MaxTicket - a.ticket : a \in S}
  <2>1. T \in SUBSET Nat /\ T # {}
    BY <1>1, IndexBuildAssumption
  <2> HIDE DEF T
  <2>2. \E n \in T : \A m \in T : n <= m
    BY <2>1, NatMin
  <2> QED BY <2>2 DEF T
<1>3. PICK a0 \in S : \A c \in S : c.ticket <= a0.ticket
  <2>1. PICK a0 \in S : \A c \in S : MaxTicket - a0.ticket <= MaxTicket - c.ticket
    BY <1>2
  <2>2. \A c \in S : c.ticket <= a0.ticket
    BY <1>1, <2>1, IndexBuildAssumption
  <2> QED BY <2>2
<1> DEFINE U == {MaxSeq - a.seq : a \in {a \in S : a.ticket = a0.ticket}}
<1>4. \E n \in U : \A m \in U : n <= m
  <2>1. U \in SUBSET Nat /\ U # {}
    BY <1>1, IndexBuildAssumption
  <2> HIDE DEF U
  <2> QED BY <2>1, NatMin
<1>5. PICK a \in S : a.ticket = a0.ticket /\ \A c \in S : c.ticket = a0.ticket => c.seq <= a.seq
  <2>1. PICK a \in S : /\ a.ticket = a0.ticket
                      /\ \A c \in S : c.ticket = a0.ticket => MaxSeq - a.seq <= MaxSeq - c.seq
    BY <1>4
  <2>2. \A c \in S : c.ticket = a0.ticket => c.seq <= a.seq
    BY <1>1, <2>1, IndexBuildAssumption
  <2> QED BY <2>1, <2>2
<1> QED BY <1>1, <1>3, <1>5, IndexBuildAssumption DEF Before

(* A record that is queued has a first mutation.                            *)
LEMMA FirstExists ==
  ASSUME NEW Q \in SUBSET Appending, NEW r, About(Q, r)
  PROVE  \E a \in Q : a.rec = r /\ First(Q, a)
<1> DEFINE S == {a \in Q : a.rec = r}
<1>1. S \in SUBSET Appending /\ S # {}
  BY DEF About
<1> HIDE DEF S
<1>2. \E a \in S : \A c \in S : ~Before(c, a)
  BY <1>1, MinExists
<1> QED BY <1>2 DEF S, First

(* A record that is queued has a last mutation.                             *)
LEMMA LastExists ==
  ASSUME NEW Q \in SUBSET Appending, NEW r, About(Q, r)
  PROVE  \E a \in Q : a.rec = r /\ Last(Q, a)
<1> DEFINE S == {a \in Q : a.rec = r}
<1>1. S \in SUBSET Appending /\ S # {}
  BY DEF About
<1> HIDE DEF S
<1>2. \E a \in S : \A c \in S : ~Before(a, c)
  BY <1>1, MaxExists
<1> QED BY <1>2 DEF S, Last

(* The first and the last mutation of a record are unique.                  *)
LEMMA FirstUnique ==
  ASSUME NEW Q \in SUBSET Appending, Distinct(Q), NEW a \in Q, NEW c \in Q, a.rec = c.rec
  PROVE  /\ First(Q, a) /\ First(Q, c) => a = c
         /\ Last(Q, a) /\ Last(Q, c) => a = c
BY Order DEF First, Last, Distinct

(* A value that a record has is touched by its mutations.                   *)
LEMMA EndTouched ==
  ASSUME NEW Q \in SUBSET Appending, NEW f, EndsIn(Q, f), NEW e \in Entry,
         About(Q, e[1]), f[e[1]] = e[2]
  PROVE  Touched(Q, e)
BY LastExists DEF EndsIn, Touched, Touches

(* Where a mutation is not the last, there is a next one.                   *)
LEMMA NextExists ==
  ASSUME NEW Q \in SUBSET Appending, NEW a \in Q, ~Last(Q, a)
  PROVE  \E c \in Q : Adjacent(Q, a, c)
<1> DEFINE S == {c \in Q : c.rec = a.rec /\ Before(a, c)}
<1>1. S \in SUBSET Appending /\ S # {}
  BY DEF Last
<1> HIDE DEF S
<1>2. PICK c \in S : \A d \in S : ~Before(d, c)
  BY <1>1, MinExists
<1> QED BY <1>2 DEF S, Adjacent

(* A mutation that is not the first has one right before it.                *)
LEMMA PreviousExists ==
  ASSUME NEW Q \in SUBSET Appending, NEW c \in Q, ~First(Q, c)
  PROVE  \E a \in Q : Adjacent(Q, a, c)
<1> DEFINE S == {a \in Q : a.rec = c.rec /\ Before(a, c)}
<1>1. S \in SUBSET Appending /\ S # {}
  BY DEF First
<1> HIDE DEF S
<1>2. PICK a \in S : \A d \in S : ~Before(a, d)
  BY <1>1, MaxExists
<1> QED BY <1>2 DEF S, Adjacent

----------------------------------------------------------------------------
(* Mutations that follow a chain, and begin where it ends, make it longer;  *)
(* what the first one of a record found stays the same.                     *)
LEMMA JoinChain ==
  ASSUME NEW Q \in SUBSET Appending, NEW R \in SUBSET Appending, NEW f, NEW g,
         Chain(Q, f), Distinct(R), Linked(R), Moves(R), EndsIn(R, g), Follows(R, Q),
         \A a \in Q, c \in R : a.ticket # c.ticket \/ a.seq # c.seq,
         \A c \in R : First(R, c) /\ About(Q, c.rec) => c.old = f[c.rec],
         \A a \in Q : ~About(R, a.rec) => g[a.rec] = f[a.rec]
  PROVE  Chain(Q \cup R, g)
<1>1. Distinct(Q \cup R)
  BY DEF Chain, Distinct
<1>2. Moves(Q \cup R)
  BY DEF Chain, Moves
<1>3. Linked(Q \cup R)
  <2> SUFFICES ASSUME NEW a \in Q \cup R, NEW c \in Q \cup R, Adjacent(Q \cup R, a, c)
               PROVE  c.old = a.new
    BY DEF Linked
  <2>1. a.rec = c.rec /\ Before(a, c) /\ ~Before(c, a)
    BY Order DEF Adjacent
  <2>2. CASE a \in Q /\ c \in Q
    <3>1. Adjacent(Q, a, c)
      BY DEF Adjacent
    <3> QED BY <2>2, <3>1 DEF Chain, Linked
  <2>3. CASE a \in R /\ c \in R
    <3>1. Adjacent(R, a, c)
      BY DEF Adjacent
    <3> QED BY <2>3, <3>1 DEF Linked
  <2>4. CASE a \in R /\ c \in Q
    BY <2>1, <2>4 DEF Follows
  <2>5. CASE a \in Q /\ c \in R
    <3>1. Last(Q, a)
      BY <2>1, <2>5 DEF Last, Adjacent, Follows
    <3>2. First(R, c)
      BY <2>1, <2>5 DEF First, Adjacent, Follows
    <3>3. About(Q, c.rec)
      BY <2>1, <2>5 DEF About
    <3> QED BY <2>1, <2>5, <3>1, <3>2, <3>3 DEF Chain, EndsIn
  <2> QED BY <2>2, <2>3, <2>4, <2>5
<1>4. EndsIn(Q \cup R, g)
  <2> SUFFICES ASSUME NEW a \in Q \cup R, Last(Q \cup R, a)
               PROVE  a.new = g[a.rec]
    BY DEF EndsIn
  <2>1. CASE a \in R
    BY <2>1 DEF EndsIn, Last
  <2>2. CASE a \in Q
    <3>1. Last(Q, a) /\ ~About(R, a.rec)
      BY <2>2 DEF Last, About, Follows
    <3> QED BY <2>2, <3>1 DEF Chain, EndsIn
  <2> QED BY <2>1, <2>2
<1> QED BY <1>1, <1>2, <1>3, <1>4 DEF Chain

(* Mutations that follow a queue leave its first ones first.                *)
LEMMA JoinFirst ==
  ASSUME NEW Q \in SUBSET Appending, NEW R \in SUBSET Appending, Follows(R, Q), NEW a \in Q
  PROVE  First(Q \cup R, a) <=> First(Q, a)
<1>1. \A c \in R : c.rec = a.rec => ~Before(c, a)
  BY Order DEF Follows
<1> QED BY <1>1 DEF First

(* A commit leaves the base of every record as it is.                       *)
LEMMA JoinBase ==
  ASSUME NEW Q \in SUBSET Appending, NEW R \in SUBSET Appending, NEW f, NEW g, NEW e \in Entry,
         Follows(R, Q), Distinct(R),
         \A c \in R : First(R, c) /\ ~About(Q, c.rec) => c.old = f[c.rec],
         ~About(R, e[1]) => g[e[1]] = f[e[1]]
  PROVE  BaseOf(Q \cup R, g, e) <=> BaseOf(Q, f, e)
<1>1. CASE About(Q, e[1])
  <2>1. About(Q \cup R, e[1])
    BY <1>1 DEF About
  <2>2. ASSUME NEW c \in R, c.rec = e[1]
        PROVE  ~First(Q \cup R, c)
    BY <1>1, <2>2 DEF About, First, Follows
  <2>3. \A a \in Q : First(Q \cup R, a) <=> First(Q, a)
    BY JoinFirst
  <2> QED BY <1>1, <2>1, <2>2, <2>3 DEF BaseOf
<1>2. CASE ~About(Q, e[1]) /\ ~About(R, e[1])
  <2>1. ~About(Q \cup R, e[1])
    BY <1>2 DEF About
  <2> QED BY <1>2, <2>1 DEF BaseOf
<1>3. CASE ~About(Q, e[1]) /\ About(R, e[1])
  <2>1. About(Q \cup R, e[1])
    BY <1>3 DEF About
  <2>2. ASSUME NEW a \in Q \cup R, a.rec = e[1]
        PROVE  a \in R /\ (First(Q \cup R, a) <=> First(R, a))
    BY <1>3, <2>2 DEF About, First
  <2>3. PICK c \in R : c.rec = e[1] /\ First(R, c)
    BY <1>3, FirstExists
  <2>4. c.old = f[e[1]]
    BY <1>3, <2>3
  <2>5. \A a \in Q \cup R : a.rec = e[1] /\ First(Q \cup R, a) => a = c
    BY <2>2, <2>3, FirstUnique
  <2> QED BY <1>3, <2>1, <2>2, <2>3, <2>4, <2>5 DEF BaseOf
<1> QED BY <1>1, <1>2, <1>3

(* What is left of a chain when a part that nothing precedes is removed is  *)
(* a chain.                                                                 *)
LEMMA PrefixChain ==
  ASSUME NEW Q \in SUBSET Appending, NEW K, NEW f, Chain(Q, f), Prefix(K, Q)
  PROVE  Chain(Q \ K, f)
<1>1. Distinct(Q \ K) /\ Moves(Q \ K)
  BY DEF Chain, Distinct, Moves
<1>2. ASSUME NEW a \in Q, NEW d \in Q, a \notin K, a.rec = d.rec, Before(a, d)
      PROVE  d \notin K
  <2>1. ~Before(d, a)
    BY <1>2, Order
  <2> QED BY <1>2, <2>1 DEF Prefix
<1>3. Linked(Q \ K)
  <2> SUFFICES ASSUME NEW a \in Q \ K, NEW c \in Q \ K, Adjacent(Q \ K, a, c)
               PROVE  Adjacent(Q, a, c)
    BY DEF Chain, Linked
  <2> QED BY <1>2 DEF Adjacent
<1>4. EndsIn(Q \ K, f)
  <2> SUFFICES ASSUME NEW a \in Q \ K, Last(Q \ K, a)
               PROVE  Last(Q, a)
    BY DEF Chain, EndsIn
  <2> QED BY <1>2 DEF Last
<1> QED BY <1>1, <1>3, <1>4 DEF Chain

(* The last of the replayed mutations that touch an entry decides, when no  *)
(* mutation that is left touches it, whether the record has that value.     *)
LEMMA LastDecides ==
  ASSUME NEW Q \in SUBSET Appending, NEW K, NEW f, Chain(Q, f), Prefix(K, Q), NEW e \in Entry,
         ~Touched(Q \ K, e), NEW a \in K, Touches(a, e),
         \A c \in K : Touches(c, e) => ~Before(a, c)
  PROVE  a.new = e[2] <=> f[e[1]] = e[2]
<1>1. a \in Q /\ a.rec = e[1] /\ a.old # a.new
  BY DEF Prefix, Touches, Chain, Moves
<1>2. \A c \in Q : Touches(c, e) => ~Before(a, c)
  BY DEF Touched
<1>3. ASSUME a.new = e[2]
      PROVE  Last(Q, a)
  <2> SUFFICES ASSUME ~Last(Q, a) PROVE FALSE
    OBVIOUS
  <2>1. PICK c \in Q : Adjacent(Q, a, c)
    BY <1>1, NextExists
  <2>2. c.old = a.new /\ c.rec = e[1] /\ Before(a, c)
    BY <1>1, <2>1 DEF Adjacent, Chain, Linked
  <2> QED BY <1>2, <1>3, <2>2 DEF Touches
<1>4. ASSUME a.new # e[2]
      PROVE  f[e[1]] # e[2]
  <2>1. About(Q, e[1])
    BY <1>1 DEF About
  <2>2. PICK z \in Q : z.rec = e[1] /\ Last(Q, z)
    BY <2>1, LastExists
  <2>3. z.new = f[e[1]]
    BY <2>2 DEF Chain, EndsIn
  <2>4. CASE z = a
    BY <1>4, <2>3, <2>4
  <2>5. CASE z # a
    <3>1. Before(a, z)
      BY <1>1, <2>2, <2>5, Order DEF Last, Chain, Distinct
    <3>2. ~Touches(z, e)
      BY <1>2, <3>1
    <3> QED BY <2>2, <2>3, <3>2 DEF Touches
  <2> QED BY <2>4, <2>5
<1>5. a.new = e[2] => f[e[1]] = e[2]
  BY <1>1, <1>3 DEF Chain, EndsIn
<1> QED BY <1>4, <1>5

----------------------------------------------------------------------------
(* In a linked set, what the mutations of a record add and subtract cancels *)
(* but for the value the first one found and the value the last one left.   *)
Adding(K, e) == {a \in K : a.rec = e[1] /\ a.new = e[2]}
Removing(K, e) == {a \in K : a.rec = e[1] /\ a.old = e[2]}
One(b) == IF b THEN 1 ELSE 0

(* Along a chain, what is added less what is removed is the last value less *)
(* the first.                                                               *)
LEMMA Telescope ==
  ASSUME NEW K \in SUBSET Appending, IsFiniteSet(K), Distinct(K), Linked(K), NEW e \in Entry,
         NEW p \in K, p.rec = e[1], First(K, p), NEW q \in K, q.rec = e[1], Last(K, q)
  PROVE  /\ Cardinality(Adding(K, e)) \in Nat /\ Cardinality(Removing(K, e)) \in Nat
         /\ Cardinality(Adding(K, e)) - One(q.new = e[2])
               = Cardinality(Removing(K, e)) - One(p.old = e[2])
<1> DEFINE A == Adding(K, e) \ {q}
           B == Removing(K, e) \ {p}
           G == [a \in A |-> CHOOSE c \in K : Adjacent(K, a, c)]
<1>1. ASSUME NEW a \in A
      PROVE  G[a] \in K /\ Adjacent(K, a, G[a])
  <2>1. a \in K /\ a.rec = q.rec /\ a # q
    BY DEF Adding
  <2>2. ~Last(K, a)
    BY <2>1, FirstUnique
  <2>3. \E c \in K : Adjacent(K, a, c)
    BY <2>1, <2>2, NextExists
  <2> QED BY <2>3
<1>2. ASSUME NEW a \in K, NEW c \in K, Adjacent(K, a, c), a.rec = e[1]
      PROVE  a \in A <=> c \in B
  <2>1. c.old = a.new /\ c.rec = e[1]
    BY <1>2 DEF Linked, Adjacent
  <2>2. a # q /\ c # p
    BY <1>2 DEF Adjacent, First, Last
  <2> QED BY <1>2, <2>1, <2>2 DEF Adding, Removing
<1>3. ASSUME NEW a \in A PROVE a \in K /\ a.rec = e[1]
  BY DEF Adding
<1>4. ASSUME NEW c \in B PROVE c \in K /\ c.rec = e[1] /\ c # p
  BY DEF Removing
<1>5. \A a \in A : G[a] \in B
  BY <1>1, <1>2, <1>3
<1>6. G = [a \in A |-> G[a]]
  OBVIOUS
<1> HIDE DEF A, B, G
<1>7. G \in [A -> B]
  BY <1>5, <1>6
<1>8. ASSUME NEW a \in A, NEW b \in A, G[a] = G[b]
      PROVE  a = b
  <2>1. Adjacent(K, a, G[a]) /\ Adjacent(K, b, G[a]) /\ a \in K /\ b \in K /\ a.rec = b.rec
    BY <1>1, <1>3, <1>8
  <2> QED BY <2>1, Order DEF Adjacent, Distinct
<1>9. ASSUME NEW c \in B
      PROVE  \E a \in A : G[a] = c
  <2>1. c \in K /\ c.rec = e[1] /\ ~First(K, c)
    BY <1>4, FirstUnique
  <2>2. PICK a \in K : Adjacent(K, a, c)
    BY <2>1, PreviousExists
  <2>3. a.rec = e[1]
    BY <2>1, <2>2 DEF Adjacent
  <2>4. a \in A
    BY <1>2, <2>1, <2>2, <2>3
  <2>5. Adjacent(K, a, G[a]) /\ G[a] \in K
    BY <1>1, <2>4
  <2>6. G[a] = c
    BY <2>1, <2>2, <2>5, Order DEF Adjacent, Distinct
  <2> QED BY <2>4, <2>6
<1>10. ExistsBijection(A, B)
  BY <1>7, <1>8, <1>9 DEF ExistsBijection, Bijection, Injection, Surjection, IsInjective
<1>11. IsFiniteSet(Adding(K, e)) /\ IsFiniteSet(Removing(K, e))
  <2>1. Adding(K, e) \in SUBSET K /\ Removing(K, e) \in SUBSET K
    BY DEF Adding, Removing
  <2> QED BY <2>1, FS_Subset
<1>12. Cardinality(Adding(K, e)) \in Nat /\ Cardinality(Removing(K, e)) \in Nat
  BY <1>11, FS_CardinalityType
<1>13. IsFiniteSet(A) /\ Cardinality(A) = Cardinality(Adding(K, e)) - One(q.new = e[2])
  <2>1. q \in Adding(K, e) <=> q.new = e[2]
    BY DEF Adding
  <2>2. IsFiniteSet(A) /\ Cardinality(A) = IF q \in Adding(K, e) THEN Cardinality(Adding(K, e)) - 1
                                           ELSE Cardinality(Adding(K, e))
    BY <1>11, FS_RemoveElement DEF A
  <2> QED BY <1>12, <2>1, <2>2 DEF One
<1>14. Cardinality(B) = Cardinality(Removing(K, e)) - One(p.old = e[2])
  <2>1. p \in Removing(K, e) <=> p.old = e[2]
    BY DEF Removing
  <2>2. Cardinality(B) = IF p \in Removing(K, e) THEN Cardinality(Removing(K, e)) - 1
                         ELSE Cardinality(Removing(K, e))
    BY <1>11, FS_RemoveElement DEF B
  <2> QED BY <1>12, <2>1, <2>2 DEF One
<1>15. Cardinality(A) = Cardinality(B)
  BY <1>10, <1>13, FS_Bijection
<1> QED BY <1>12, <1>13, <1>14, <1>15

(* The replay of a part of the queue takes the count of an entry from the   *)
(* base of the queue to the base of what is left.                           *)
LEMMA ReplayCounts ==
  ASSUME NEW Q \in SUBSET Appending, NEW K, IsFiniteSet(K), NEW f, Chain(Q, f), Prefix(K, Q),
         NEW e \in Entry
  PROVE  One(BaseOf(Q, f, e)) + Cardinality(Adding(K, e)) - Cardinality(Removing(K, e))
            = One(BaseOf(Q \ K, f, e))
<1>1. K \in SUBSET Appending /\ K \subseteq Q
  BY DEF Prefix
<1>2. CASE ~About(K, e[1])
  <2>1. Adding(K, e) = {} /\ Removing(K, e) = {}
    BY <1>2 DEF Adding, Removing, About
  <2>2. About(Q \ K, e[1]) <=> About(Q, e[1])
    BY <1>2 DEF About
  <2>3. \A a \in Q : a.rec = e[1] => a \in Q \ K /\ (First(Q, a) <=> First(Q \ K, a))
    BY <1>2 DEF About, First
  <2>4. BaseOf(Q \ K, f, e) <=> BaseOf(Q, f, e)
    BY <2>2, <2>3 DEF BaseOf
  <2>5. One(BaseOf(Q \ K, f, e)) = One(BaseOf(Q, f, e))
    BY <2>4 DEF One
  <2> QED BY <2>1, <2>5, FS_EmptySet DEF One
<1>3. CASE About(K, e[1])
  <2>1. Distinct(K)
    BY <1>1 DEF Chain, Distinct
  <2>2. ASSUME NEW a \in K, NEW c \in K, Adjacent(K, a, c)
        PROVE  Adjacent(Q, a, c)
    <3> SUFFICES ASSUME NEW d \in Q, d.rec = a.rec, Before(a, d), Before(d, c)
                 PROVE  FALSE
      BY <2>2 DEF Adjacent
    <3>1. ~Before(c, d) /\ d.rec = c.rec
      BY <1>1, <2>2, Order DEF Adjacent
    <3>2. d \in K
      BY <3>1 DEF Prefix
    <3> QED BY <2>2, <3>2 DEF Adjacent
  <2>3. Linked(K)
    BY <1>1, <2>2 DEF Linked, Chain
  <2>4. PICK p \in Q : p.rec = e[1] /\ First(Q, p)
    <3>1. About(Q, e[1])
      BY <1>1, <1>3 DEF About
    <3> QED BY <3>1, FirstExists
  <2>5. p \in K /\ First(K, p)
    <3>1. PICK a \in K : a.rec = e[1]
      BY <1>3 DEF About
    <3>2. ~Before(a, p)
      BY <1>1, <2>4, <3>1 DEF First
    <3> QED BY <1>1, <2>4, <3>1, <3>2 DEF Prefix, First
  <2>6. PICK q \in K : q.rec = e[1] /\ Last(K, q)
    BY <1>1, <1>3, LastExists
  <2>7. /\ Cardinality(Adding(K, e)) \in Nat /\ Cardinality(Removing(K, e)) \in Nat
        /\ Cardinality(Adding(K, e)) - One(q.new = e[2])
             = Cardinality(Removing(K, e)) - One(p.old = e[2])
    BY <1>1, <2>1, <2>3, <2>4, <2>5, <2>6, Telescope
  <2>8. BaseOf(Q, f, e) <=> p.old = e[2]
    <3>1. About(Q, e[1])
      BY <2>4 DEF About
    <3>2. \A a \in Q : a.rec = e[1] /\ First(Q, a) => a = p
      BY <2>4, FirstUnique DEF Chain
    <3> QED BY <2>4, <3>1, <3>2 DEF BaseOf
  <2>9. BaseOf(Q \ K, f, e) <=> q.new = e[2]
    <3>1. CASE ~About(Q \ K, e[1])
      <4>1. Last(Q, q)
        BY <2>6, <3>1 DEF About, Last
      <4>2. q.new = f[e[1]]
        BY <1>1, <2>6, <4>1 DEF Chain, EndsIn
      <4> QED BY <3>1, <4>2 DEF BaseOf
    <3>2. CASE About(Q \ K, e[1])
      <4>1. ASSUME NEW c \in Q \ K, c.rec = e[1], First(Q \ K, c)
            PROVE  c.old = q.new
        <5>1. Before(q, c)
          BY <2>6, <4>1 DEF Prefix
        <5>2. Adjacent(Q, q, c)
          BY <2>6, <4>1, <5>1 DEF Adjacent, Last, First
        <5> QED BY <1>1, <5>2 DEF Chain, Linked
      <4>2. \E c \in Q \ K : c.rec = e[1] /\ First(Q \ K, c)
        BY <3>2, FirstExists
      <4> QED BY <3>2, <4>1, <4>2 DEF BaseOf
    <3> QED BY <3>1, <3>2
  <2>10. One(BaseOf(Q, f, e)) = One(p.old = e[2]) /\ One(BaseOf(Q \ K, f, e)) = One(q.new = e[2])
    BY <2>8, <2>9 DEF One
  <2>11. One(p.old = e[2]) \in Int /\ One(q.new = e[2]) \in Int
    BY DEF One
  <2> QED BY <2>7, <2>10, <2>11
<1> QED BY <1>2, <1>3
=============================================================================

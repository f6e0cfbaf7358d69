-------------------------- MODULE ShipGraphProofs --------------------------
(***************************************************************************)
(* What the proofs about several modules need to know of the road network; *)
(* and that a search is right about every distance when its result can be  *)
(* certified.                                                              *)
(***************************************************************************)
EXTENDS ShipGraph, FiniteSetTheorems, WellFoundedInduction, TLAPS

(***************************************************************************)
(* Numbers: induction, and functions defined by recursion.                 *)
(***************************************************************************)
\* The library's well-founded induction, as the existence of a least number.
LEMMA LeastNumber ==
  ASSUME NEW S, S \subseteq Nat, S # {}
  PROVE  \E m \in S : \A n \in S : m <= n
<1> DEFINE R == {ss \in Nat \X Nat : ss[1] < ss[2]}
<1>1. IsWellFoundedOn(R, Nat)
  BY NatLessThanWellFounded DEF OpToRel
<1>2. \E x \in S : \A y \in S : ~ (<<y, x>> \in R)
  BY <1>1, WFMin
<1>3. PICK x \in S : \A y \in S : ~ (<<y, x>> \in R)
  BY <1>2
<1>4. \A y \in S : x <= y
  <2> SUFFICES ASSUME NEW y \in S PROVE x <= y
    OBVIOUS
  <2>1. x \in Nat /\ y \in Nat /\ ~(<<y, x>> \in R)
    BY <1>3
  <2>2. <<y, x>> \in Nat \X Nat /\ <<y, x>>[1] = y /\ <<y, x>>[2] = x
    BY <2>1
  <2>3. ~(y < x)
    BY <2>1, <2>2
  <2> QED BY <2>1, <2>3
<1> QED BY <1>4

\* Induction, for a set of numbers.
LEMMA Induction ==
  ASSUME NEW S, 0 \in S, \A n \in Nat : n \in S => n + 1 \in S
  PROVE  Nat \subseteq S
<1> SUFFICES ASSUME Nat \ S # {} PROVE FALSE
  OBVIOUS
<1>1. PICK m \in Nat \ S : \A n \in Nat \ S : m <= n
  BY LeastNumber
<1>2. m # 0 /\ m - 1 \in Nat
  BY <1>1
<1>3. m - 1 \in S
  BY <1>1, <1>2
<1> QED BY <1>1, <1>2, <1>3

\* A function over the numbers may be defined by its first value and a step.
LEMMA Recursion ==
  ASSUME NEW T, NEW x0 \in T, NEW step \in [T -> T]
  PROVE  \E f \in [Nat -> T] : f[0] = x0 /\ \A n \in Nat : f[n + 1] = step[f[n]]
<1> DEFINE Upto(n) == {h \in [0 .. n -> T] : /\ h[0] = x0
                                             /\ \A k \in 0 .. n - 1 : h[k + 1] = step[h[k]]}
<1>1. \A n \in Nat : Upto(n) # {}
  <2> DEFINE S == {n \in Nat : Upto(n) # {}}
  <2>1. 0 \in S
    <3>1. [k \in 0 .. 0 |-> x0] \in Upto(0)
      OBVIOUS
    <3> QED BY <3>1
  <2>2. ASSUME NEW n \in Nat, n \in S PROVE n + 1 \in S
    <3>1. PICK h \in Upto(n) : TRUE
      BY <2>2
    <3> DEFINE more == [k \in 0 .. n + 1 |-> IF k = n + 1 THEN step[h[n]] ELSE h[k]]
    <3>2. h \in [0 .. n -> T] /\ h[0] = x0 /\ \A k \in 0 .. n - 1 : h[k + 1] = step[h[k]]
      BY <3>1
    <3>3. step[h[n]] \in T
      BY <3>2
    <3>4. more \in [0 .. n + 1 -> T]
      BY <3>2, <3>3
    <3>5. more[0] = x0
      BY <3>2
    <3>6. ASSUME NEW k \in 0 .. n PROVE more[k + 1] = step[more[k]]
      <4>1. CASE k = n
        BY <3>2, <4>1
      <4>2. CASE k \in 0 .. n - 1
        BY <3>2, <4>2
      <4> QED BY <4>1, <4>2
    <3> HIDE DEF more
    <3>7. more \in Upto(n + 1)
      BY <3>4, <3>5, <3>6
    <3> QED BY <3>7
  <2> HIDE DEF S
  <2>3. Nat \subseteq S
    BY <2>1, <2>2, Induction
  <2> QED BY <2>3 DEF S
<1> DEFINE the == [n \in Nat |-> CHOOSE h : h \in Upto(n)]
           f   == [n \in Nat |-> the[n][n]]
<1>2. \A n \in Nat : the[n] \in Upto(n)
  BY <1>1
<1> HIDE DEF the
<1>3. ASSUME NEW n \in Nat PROVE \A k \in 0 .. n : the[n][k] = the[n + 1][k]
  <2> DEFINE S == {k \in Nat : k <= n => the[n][k] = the[n + 1][k]}
  <2>1. /\ the[n][0] = x0 /\ \A k \in 0 .. n - 1 : the[n][k + 1] = step[the[n][k]]
        /\ the[n + 1][0] = x0 /\ \A k \in 0 .. n : the[n + 1][k + 1] = step[the[n + 1][k]]
    BY <1>2
  <2>2. 0 \in S
    BY <2>1
  <2>3. ASSUME NEW k \in Nat, k \in S PROVE k + 1 \in S
    BY <2>1, <2>3
  <2> HIDE DEF S
  <2>4. Nat \subseteq S
    BY <2>2, <2>3, Induction
  <2> QED BY <2>4 DEF S
<1>4. f \in [Nat -> T]
  BY <1>2
<1>5. f[0] = x0
  BY <1>2
<1>6. ASSUME NEW n \in Nat PROVE f[n + 1] = step[f[n]]
  <2>1. f[n + 1] = the[n + 1][n + 1] /\ f[n] = the[n][n]
    OBVIOUS
  <2>2. the[n + 1][n + 1] = step[the[n + 1][n]]
    BY <1>2
  <2>3. the[n + 1][n] = the[n][n]
    BY <1>3
  <2> QED BY <2>1, <2>2, <2>3
<1> QED BY <1>4, <1>5, <1>6

\* The same over 0 .. L, with a step that depends on the number too.
Follows(f, L, x0, step) == f[0] = x0 /\ \A n \in 1 .. L : f[n] = step[<<n, f[n - 1]>>]

LEMMA Stepwise ==
  ASSUME NEW T, NEW x0 \in T, NEW L \in Nat, NEW step, step \in [(1 .. L) \X T -> T]
  PROVE  \E f \in [0 .. L -> T] : Follows(f, L, x0, step)
<1> DEFINE U == T \X Nat
           value(p) == IF p[2] + 1 \in 1 .. L THEN step[<<p[2] + 1, p[1]>>] ELSE p[1]
           next == [p \in U |-> <<value(p), p[2] + 1>>]
           start == <<x0, 0>>
<1>1. next \in [U -> U] /\ start \in U
  OBVIOUS
<1>2. \A p \in U : next[p][1] = value(p) /\ next[p][2] = p[2] + 1
  OBVIOUS
<1>3. start[1] = x0 /\ start[2] = 0 /\ \A p \in U : p[1] \in T /\ p[2] \in Nat
  OBVIOUS
<1> HIDE DEF next, start, U
<1>4. PICK h \in [Nat -> U] : h[0] = start /\ \A n \in Nat : h[n + 1] = next[h[n]]
  BY ONLY <1>1, Recursion
<1>5. \A n \in Nat : h[n][2] = n
  <2> DEFINE S == {n \in Nat : h[n][2] = n}
  <2>1. 0 \in S
    BY <1>3, <1>4
  <2>2. ASSUME NEW n \in Nat, n \in S PROVE n + 1 \in S
    <3>1. h[n] \in U /\ h[n + 1] = next[h[n]]
      BY <1>4
    <3>2. next[h[n]][2] = h[n][2] + 1
      BY <1>2, <3>1
    <3> QED BY <2>2, <3>1, <3>2
  <2> HIDE DEF S
  <2>3. Nat \subseteq S
    BY <2>1, <2>2, Induction
  <2> QED BY <2>3 DEF S
<1> DEFINE f == [n \in 0 .. L |-> h[n][1]]
<1>6. f \in [0 .. L -> T]
  BY <1>3, <1>4
<1>7. ASSUME NEW n \in 0 .. L PROVE f[n] = IF n = 0 THEN x0 ELSE step[<<n, f[n - 1]>>]
  <2>1. CASE n = 0
    BY <1>3, <1>4, <2>1
  <2>2. CASE n # 0
    <3> DEFINE m == n - 1
    <3>1. m \in Nat /\ m + 1 = n /\ n \in 1 .. L /\ m \in 0 .. L
      BY <2>2
    <3>2. f[n] = h[n][1] /\ f[m] = h[m][1]
      BY <3>1
    <3> HIDE DEF m, f
    <3>3. h[n] = next[h[m]] /\ h[m] \in U /\ h[m][2] = m
      BY <1>4, <1>5, <3>1
    <3>4. h[n][1] = value(h[m])
      BY <1>2, <3>3
    <3>5. h[n][1] = step[<<n, h[m][1]>>]
      BY <3>1, <3>3, <3>4
    <3> QED BY <2>2, <3>2, <3>5 DEF m
  <2> QED BY <2>1, <2>2
<1> HIDE DEF f
<1>8. f[0] = x0
  <2>1. 0 \in 0 .. L
    OBVIOUS
  <2> QED BY <1>7, <2>1
<1>9. ASSUME NEW n \in 1 .. L PROVE f[n] = step[<<n, f[n - 1]>>]
  <2>1. n \in 0 .. L /\ n # 0
    OBVIOUS
  <2> QED BY <1>7, <2>1
<1> QED BY <1>6, <1>8, <1>9 DEF Follows

-----------------------------------------------------------------------------
(***************************************************************************)
(* Networks and least distances.                                           *)
(***************************************************************************)
LEMMA LeastFacts ==
  ASSUME NEW S, S \subseteq Nat, S # {}, NEW default
  PROVE  LeastOf(S, default) \in S /\ \A x \in S : LeastOf(S, default) <= x
<1>1. \E x \in S : \A y \in S : x <= y
  BY LeastNumber
<1> QED BY <1>1 DEF LeastOf

\* The offset array is increasing, and addresses exactly the edges that leave
\* a node.
LEMMA OffsetFacts ==
  ASSUME NEW g, IsGraph(g), NEW v \in Nodes
  PROVE  /\ g.offsets[v] \in Nat /\ g.offsets[v + 1] \in Nat
         /\ g.offsets[v] <= g.offsets[v + 1]
         /\ g.offsets[N] \in Nat /\ g.offsets[v + 1] <= g.offsets[N]
<1>1. v \in 0 .. N /\ v + 1 \in 0 .. N /\ N \in 0 .. N
  BY SizeAssumption DEF Nodes
<1> QED BY <1>1 DEF IsGraph

LEMMA OutEdgeFacts ==
  ASSUME NEW g, IsGraph(g), NEW v \in Nodes, NEW e \in OutEdges(g, v)
  PROVE  /\ e \in Edges(g) /\ g.sources[e] = v
         /\ g.targets[e] \in Nodes /\ g.costs[e] \in Nat
<1>1. e \in Edges(g)
  BY OffsetFacts DEF OutEdges, Edges
<1> QED BY <1>1 DEF IsGraph

LEMMA EdgeFacts ==
  ASSUME NEW g, IsGraph(g), NEW e \in Edges(g)
  PROVE  g.sources[e] \in Nodes /\ g.targets[e] \in Nodes /\ g.costs[e] \in Nat
BY DEF IsGraph

-----------------------------------------------------------------------------
(***************************************************************************)
(* The recurrence of Bellman and Ford.                                     *)
(***************************************************************************)
Lengths == [Nodes -> 0 .. MaxInt]

LEMMA RoundFacts ==
  ASSUME NEW g, IsGraph(g), NEW D \in Lengths
  PROVE  /\ Round(g, D) \in Lengths
         /\ \A v \in Nodes : Round(g, D)[v] <= D[v]
         /\ \A e \in Edges(g) : D[g.sources[e]] < MaxInt =>
              Round(g, D)[g.targets[e]] <= D[g.sources[e]] + g.costs[e]
         /\ \A v \in Nodes :
              \/ Round(g, D)[v] = D[v]
              \/ \E e \in Edges(g) : /\ g.targets[e] = v /\ D[g.sources[e]] < MaxInt
                                     /\ Round(g, D)[v] = D[g.sources[e]] + g.costs[e]
<1> DEFINE into(v) == {f \in Edges(g) : g.targets[f] = v /\ D[g.sources[f]] < MaxInt}
           offers(v) == {D[v]} \cup {D[g.sources[e]] + g.costs[e] : e \in into(v)}
<1> USE SizeAssumption
<1>1. ASSUME NEW v \in Nodes
      PROVE  /\ D[v] \in 0 .. MaxInt /\ Round(g, D)[v] = LeastOf(offers(v), MaxInt)
             /\ offers(v) \subseteq Nat /\ offers(v) # {}
  <2>1. D[v] \in 0 .. MaxInt
    BY DEF Lengths
  <2>2. ASSUME NEW e \in into(v) PROVE D[g.sources[e]] + g.costs[e] \in Nat
    BY EdgeFacts DEF Lengths
  <2>3. Round(g, D)[v] = LeastOf(offers(v), MaxInt)
    BY DEF Round
  <2> QED BY <2>1, <2>2, <2>3
<1>2. ASSUME NEW v \in Nodes
      PROVE  /\ Round(g, D)[v] \in offers(v)
             /\ \A x \in offers(v) : Round(g, D)[v] <= x
  <2> HIDE DEF offers
  <2> QED BY <1>1, LeastFacts
<1>3. ASSUME NEW v \in Nodes
      PROVE  Round(g, D)[v] \in 0 .. MaxInt /\ Round(g, D)[v] <= D[v]
  <2>1. D[v] \in offers(v)
    OBVIOUS
  <2> HIDE DEF offers
  <2> QED BY <1>1, <1>2, <2>1
<1>4. Round(g, D) \in Lengths
  BY <1>3 DEF Round, Lengths
<1>5. ASSUME NEW e \in Edges(g), D[g.sources[e]] < MaxInt
      PROVE  Round(g, D)[g.targets[e]] <= D[g.sources[e]] + g.costs[e]
  <2>1. g.targets[e] \in Nodes /\ e \in into(g.targets[e])
    BY <1>5, EdgeFacts
  <2>2. D[g.sources[e]] + g.costs[e] \in offers(g.targets[e])
    BY <2>1
  <2> QED BY <1>2, <2>1, <2>2
<1>6. ASSUME NEW v \in Nodes, Round(g, D)[v] # D[v]
      PROVE  \E e \in Edges(g) : /\ g.targets[e] = v /\ D[g.sources[e]] < MaxInt
                                 /\ Round(g, D)[v] = D[g.sources[e]] + g.costs[e]
  BY <1>2, <1>6
<1> QED BY <1>3, <1>4, <1>5, <1>6

LEMMA RoundsExist ==
  ASSUME NEW g, IsGraph(g), NEW s \in Nodes
  PROVE  \E D \in [Nat -> Lengths] :
           /\ D[0] = Unsearched(s)
           /\ \A n \in Nat : D[n + 1] = Round(g, D[n])
           /\ RefDistances(g, s) = D[N - 1]
<1> DEFINE step == [D \in Lengths |-> Round(g, D)]
           Dist[n \in Nat] == IF n = 0 THEN Unsearched(s) ELSE Round(g, Dist[n - 1])
           body(f) == [n \in Nat |-> IF n = 0 THEN Unsearched(s) ELSE Round(g, f[n - 1])]
<1>1. step \in [Lengths -> Lengths]
  BY RoundFacts
<1>2. Unsearched(s) \in Lengths
  BY SizeAssumption DEF Unsearched, Lengths
<1> HIDE DEF step
<1>3. PICK f \in [Nat -> Lengths] : f[0] = Unsearched(s) /\ \A n \in Nat : f[n + 1] = step[f[n]]
  BY <1>1, <1>2, Recursion
<1>4. f = body(f)
  <2>1. ASSUME NEW n \in Nat PROVE f[n] = body(f)[n]
    <3>1. CASE n = 0
      BY <1>3, <3>1
    <3>2. CASE n # 0
      <4>1. n - 1 \in Nat /\ n = (n - 1) + 1
        BY <3>2
      <4>2. f[n] = step[f[n - 1]] /\ f[n - 1] \in Lengths
        BY <1>3, <4>1
      <4> QED BY <3>2, <4>2 DEF step
    <3> QED BY <3>1, <3>2
  <2> QED BY <1>3, <2>1
<1>5. Dist = body(Dist)
  BY <1>4
<1> HIDE DEF Dist
<1>6. /\ Dist[0] = Unsearched(s)
      /\ \A n \in Nat : Dist[n + 1] = Round(g, Dist[n])
  BY <1>5
<1>7. Dist \in [Nat -> Lengths]
  <2> DEFINE S == {n \in Nat : Dist[n] \in Lengths}
  <2>1. 0 \in S
    BY <1>2, <1>6
  <2>2. ASSUME NEW n \in Nat, n \in S PROVE n + 1 \in S
    BY <1>6, <2>2, RoundFacts
  <2> HIDE DEF S
  <2>3. Nat \subseteq S
    BY <2>1, <2>2, Induction
  <2>4. \A n \in Nat : Dist[n] \in Lengths
    BY <2>3 DEF S
  <2> QED BY <1>5, <2>4
<1>8. RefDistances(g, s) = Dist[N - 1]
  BY DEF RefDistances, Dist
<1> QED BY <1>6, <1>7, <1>8

-----------------------------------------------------------------------------
(***************************************************************************)
(* How one sees that the distances d from s are right: no edge improves    *)
(* them, and each node reached has an edge that accounts for its distance  *)
(* and comes from a node of smaller rank, down to s.                       *)
(***************************************************************************)
Accounts(g, d, e) == /\ d[g.sources[e]] < MaxInt
                     /\ d[g.targets[e]] = d[g.sources[e]] + g.costs[e]

Ranks(g, s, d, rank) ==
  \A v \in Nodes \ {s} : d[v] < MaxInt =>
    \E e \in Edges(g) : /\ g.targets[e] = v /\ Accounts(g, d, e)
                       /\ rank[g.sources[e]] < rank[v]

Certified(g, s, d) ==
  /\ d \in Lengths /\ d[s] = 0
  /\ \A e \in Edges(g) : d[g.sources[e]] < MaxInt =>
       /\ d[g.targets[e]] <= d[g.sources[e]] + g.costs[e]
       /\ d[g.targets[e]] < MaxInt
  /\ \E rank \in [Nodes -> 0 .. N - 1] : Ranks(g, s, d, rank)

\* Certified distances are those of the recurrence: after n rounds no node is
\* nearer than they say, and those of rank n or less are no further.
LEMMA CertifiedIsReference ==
  ASSUME NEW g, IsGraph(g), NEW s \in Nodes, NEW d, Certified(g, s, d)
  PROVE  d = RefDistances(g, s)
<1> USE SizeAssumption
<1>1. /\ d \in Lengths /\ d[s] = 0
      /\ \A e \in Edges(g) : d[g.sources[e]] < MaxInt =>
           d[g.targets[e]] <= d[g.sources[e]] + g.costs[e]
  BY DEF Certified
<1>2. PICK rank \in [Nodes -> 0 .. N - 1] : Ranks(g, s, d, rank)
  BY DEF Certified
<1>3. PICK D \in [Nat -> Lengths] : /\ D[0] = Unsearched(s)
                                    /\ \A n \in Nat : D[n + 1] = Round(g, D[n])
                                    /\ RefDistances(g, s) = D[N - 1]
  BY RoundsExist
<1>t. \A v \in Nodes, n \in Nat : d[v] \in 0 .. MaxInt /\ D[n][v] \in 0 .. MaxInt
  BY <1>1, <1>3 DEF Lengths
<1> DEFINE S == {n \in Nat : /\ \A v \in Nodes : d[v] <= D[n][v]
                             /\ \A v \in Nodes : rank[v] <= n \/ v = s => D[n][v] <= d[v]}
<1>4. 0 \in S
  <2>1. \A v \in Nodes : D[0][v] = IF v = s THEN 0 ELSE MaxInt
    BY <1>3 DEF Unsearched
  <2>2. ASSUME NEW v \in Nodes PROVE d[v] <= D[0][v]
    BY <1>1, <1>t, <2>1
  <2>3. ASSUME NEW v \in Nodes, rank[v] <= 0 \/ v = s PROVE D[0][v] <= d[v]
    <3>1. CASE v = s
      BY <1>1, <2>1, <3>1
    <3>2. CASE v # s
      <4>1. ~(d[v] < MaxInt)
        <5> SUFFICES ASSUME d[v] < MaxInt PROVE FALSE
          OBVIOUS
        <5>1. PICK e \in Edges(g) : rank[g.sources[e]] < rank[v]
          BY <1>2, <3>2 DEF Ranks
        <5> QED BY <1>2, <2>3, <3>2, <5>1, EdgeFacts
      <4> QED BY <1>t, <2>1, <3>2, <4>1
    <3> QED BY <3>1, <3>2
  <2> QED BY <2>2, <2>3
<1>5. ASSUME NEW n \in Nat, n \in S PROVE n + 1 \in S
  <2>1. /\ D[n] \in Lengths /\ D[n + 1] = Round(g, D[n])
        /\ \A v \in Nodes : d[v] <= D[n][v]
        /\ \A v \in Nodes : rank[v] <= n \/ v = s => D[n][v] <= d[v]
    BY <1>3, <1>5
  <2>2. ASSUME NEW v \in Nodes PROVE d[v] <= D[n + 1][v]
    <3>1. CASE D[n + 1][v] = D[n][v]
      BY <2>1, <3>1
    <3>2. ASSUME NEW e \in Edges(g), g.targets[e] = v, D[n][g.sources[e]] < MaxInt,
                 D[n + 1][v] = D[n][g.sources[e]] + g.costs[e]
          PROVE  d[v] <= D[n + 1][v]
      <4>1. g.sources[e] \in Nodes /\ g.costs[e] \in Nat
        BY EdgeFacts
      <4>2. d[g.sources[e]] <= D[n][g.sources[e]]
        BY <2>1, <4>1
      <4>3. d[v] <= d[g.sources[e]] + g.costs[e]
        BY <1>1, <1>t, <3>2, <4>1, <4>2
      <4> QED BY <1>t, <3>2, <4>1, <4>2, <4>3
    <3> QED BY <2>1, <3>1, <3>2, RoundFacts
  <2>3. ASSUME NEW v \in Nodes, rank[v] <= n + 1 \/ v = s PROVE D[n + 1][v] <= d[v]
    <3>1. D[n + 1][v] <= D[n][v]
      BY <2>1, RoundFacts
    <3>2. CASE rank[v] <= n \/ v = s
      BY <1>t, <2>1, <3>1, <3>2
    <3>3. CASE d[v] = MaxInt
      BY <1>t, <3>3
    <3>4. CASE v # s /\ d[v] < MaxInt /\ ~(rank[v] <= n)
      <4>1. PICK e \in Edges(g) : /\ g.targets[e] = v /\ Accounts(g, d, e)
                                  /\ rank[g.sources[e]] < rank[v]
        BY <1>2, <3>4 DEF Ranks
      <4>2. g.sources[e] \in Nodes /\ g.costs[e] \in Nat
        BY EdgeFacts
      <4>3. rank[g.sources[e]] <= n
        BY <1>2, <2>3, <3>4, <4>1, <4>2
      <4>4. D[n][g.sources[e]] <= d[g.sources[e]] /\ d[g.sources[e]] < MaxInt
        BY <2>1, <4>1, <4>2, <4>3 DEF Accounts
      <4>5. D[n + 1][v] <= D[n][g.sources[e]] + g.costs[e]
        BY <1>t, <2>1, <4>1, <4>2, <4>4, RoundFacts
      <4>6. d[v] = d[g.sources[e]] + g.costs[e]
        BY <4>1 DEF Accounts
      <4> QED BY <1>t, <4>2, <4>4, <4>5, <4>6
    <3> QED BY <1>t, <3>2, <3>3, <3>4
  <2> QED BY <2>2, <2>3
<1> HIDE DEF S
<1>6. Nat \subseteq S
  BY <1>4, <1>5, Induction
<1>7. N - 1 \in S
  BY <1>6
<1>8. \A v \in Nodes : d[v] = D[N - 1][v]
  <2> SUFFICES ASSUME NEW v \in Nodes PROVE d[v] = D[N - 1][v]
    OBVIOUS
  <2>1. rank[v] <= N - 1 /\ N - 1 \in Nat
    BY <1>2
  <2>2. d[v] <= D[N - 1][v] /\ D[N - 1][v] <= d[v]
    BY <1>7, <2>1 DEF S
  <2>3. d[v] \in Int /\ D[N - 1][v] \in Int
    BY <1>t, <2>1
  <2> QED BY <2>2, <2>3
<1>9. d \in [Nodes -> 0 .. MaxInt] /\ D[N - 1] \in [Nodes -> 0 .. MaxInt]
  BY <1>1, <1>3 DEF Lengths
<1> QED BY <1>3, <1>8, <1>9

-----------------------------------------------------------------------------
(***************************************************************************)
(* The search that settles the nearest node in each turn.                  *)
(***************************************************************************)
Pairs == Nodes \X Nat
SettledIn(S) == {p[1] : p \in S}

\* The pairs entered from S are those that edges from S to nodes of A give.
EntersRight(g, A, S) ==
  /\ Entered(g, A, S) \subseteq Pairs
  /\ \A r \in Entered(g, A, S) :
       \E p \in S : \E e \in Edges(g) :
         /\ g.sources[e] = p[1] /\ g.targets[e] \notin SettledIn(S)
         /\ r = <<g.targets[e], p[2] + g.costs[e]>>
  /\ \A p \in S : \A e \in Edges(g) :
       g.sources[e] = p[1] /\ g.targets[e] \in A \ SettledIn(S) =>
         <<g.targets[e], p[2] + g.costs[e]>> \in Entered(g, A, S)

LEMMA EnteredWithin ==
  ASSUME NEW g, IsGraph(g), NEW A, A \subseteq Nodes, NEW S, S \subseteq Pairs
  PROVE  EntersRight(g, A, S)
<1> DEFINE open == {e \in Edges(g) : /\ g.sources[e] \in SettledIn(S)
                                     /\ g.targets[e] \in A \ SettledIn(S)}
           via  == {y \in S \X open : g.sources[y[2]] = y[1][1]}
           to(x) == <<g.targets[x[2]], x[1][2] + g.costs[x[2]]>>
<1>1. Entered(g, A, S) = {to(x) : x \in via}
  BY DEF Entered, SettledIn
<1>2. ASSUME NEW x \in via
      PROVE  /\ x[1] \in S /\ x[2] \in Edges(g) /\ g.sources[x[2]] = x[1][1]
             /\ g.targets[x[2]] \in Nodes /\ g.targets[x[2]] \notin SettledIn(S)
             /\ x[1][2] \in Nat /\ g.costs[x[2]] \in Nat
  BY EdgeFacts DEF Pairs
<1>3. Entered(g, A, S) \subseteq Pairs
  BY <1>1, <1>2 DEF Pairs
<1>4. ASSUME NEW r \in Entered(g, A, S)
      PROVE  \E p \in S : \E e \in Edges(g) :
               /\ g.sources[e] = p[1] /\ g.targets[e] \notin SettledIn(S)
               /\ r = <<g.targets[e], p[2] + g.costs[e]>>
  <2>1. PICK x \in via : r = to(x)
    BY <1>1
  <2> QED BY <1>2, <2>1
<1>5. ASSUME NEW p \in S, NEW e \in Edges(g), g.sources[e] = p[1],
             g.targets[e] \in A \ SettledIn(S)
      PROVE  <<g.targets[e], p[2] + g.costs[e]>> \in Entered(g, A, S)
  <2>1. p[1] \in SettledIn(S)
    BY DEF SettledIn
  <2>2. <<p, e>> \in via
    BY <1>5, <2>1
  <2>3. to(<<p, e>>) = <<g.targets[e], p[2] + g.costs[e]>>
    OBVIOUS
  <2> QED BY <1>1, <2>2, <2>3
<1> QED BY <1>3, <1>4, <1>5 DEF EntersRight

LEMMA EnteredFacts ==
  ASSUME NEW g, IsGraph(g), NEW S, S \subseteq Pairs
  PROVE  /\ Entered(g, Nodes, S) \subseteq Pairs
         /\ \A r \in Entered(g, Nodes, S) :
              \E p \in S : \E e \in Edges(g) :
                /\ g.sources[e] = p[1] /\ g.targets[e] \notin SettledIn(S)
                /\ r = <<g.targets[e], p[2] + g.costs[e]>>
         /\ \A p \in S : \A e \in Edges(g) :
              g.sources[e] = p[1] /\ g.targets[e] \notin SettledIn(S) =>
                <<g.targets[e], p[2] + g.costs[e]>> \in Entered(g, Nodes, S)
<1>1. \A e \in Edges(g) : g.targets[e] \in Nodes
  BY EdgeFacts
<1>2. EntersRight(g, Nodes, S)
  BY EnteredWithin
<1> QED BY <1>1, <1>2 DEF EntersRight

\* A turn settles one of the nearest pairs entered, if there is one.
SettlesRight(g, A, S) ==
  /\ Settle(g, A, S) \in SUBSET Pairs
  /\ Entered(g, A, S) = {} => Settle(g, A, S) = S
  /\ Entered(g, A, S) # {} =>
       \E r \in Entered(g, A, S) : /\ \A o \in Entered(g, A, S) : r[2] <= o[2]
                                   /\ Settle(g, A, S) = S \cup {r}

LEMMA SettleWithin ==
  ASSUME NEW g, IsGraph(g), NEW A, A \subseteq Nodes, NEW S, S \subseteq Pairs
  PROVE  SettlesRight(g, A, S)
<1> DEFINE E == Entered(g, A, S)
           away == {r[2] : r \in E}
           r == CHOOSE q \in E : \A o \in E : q[2] <= o[2]
<1>1. E \subseteq Pairs
  BY EnteredWithin DEF EntersRight
<1>2. CASE E = {}
  BY <1>2 DEF Settle, SettlesRight
<1>3. CASE E # {}
  <2>1. away \subseteq Nat /\ away # {}
    BY <1>1, <1>3 DEF Pairs
  <2> HIDE DEF E
  <2>2. PICK m \in away : \A n \in away : m <= n
    BY <2>1, LeastNumber
  <2>3. PICK q \in E : m = q[2]
    OBVIOUS
  <2>4. \A o \in E : q[2] <= o[2]
    BY <2>2, <2>3
  <2>5. r \in E /\ \A o \in E : r[2] <= o[2]
    BY <2>4
  <2>6. Settle(g, A, S) = S \cup {r}
    BY <1>3 DEF Settle, E
  <2> HIDE DEF r
  <2> QED BY <1>1, <1>3, <2>5, <2>6 DEF E, SettlesRight
<1> QED BY <1>2, <1>3 DEF SettlesRight

LEMMA SettleFacts ==
  ASSUME NEW g, IsGraph(g), NEW S, S \subseteq Pairs
  PROVE  /\ Settle(g, Nodes, S) \in SUBSET Pairs
         /\ Entered(g, Nodes, S) = {} => Settle(g, Nodes, S) = S
         /\ Entered(g, Nodes, S) # {} =>
              \E r \in Entered(g, Nodes, S) :
                /\ \A o \in Entered(g, Nodes, S) : r[2] <= o[2]
                /\ Settle(g, Nodes, S) = S \cup {r}
<1>1. SettlesRight(g, Nodes, S)
  BY SettleWithin
<1> QED BY <1>1 DEF SettlesRight

\* T[n] is what is settled after n turns.
TurnsWithin(g, s, A, T) ==
  /\ T \in [Nat -> SUBSET Pairs]
  /\ T[0] = {<<s, 0>>}
  /\ \A n \in Nat : T[n + 1] = Settle(g, A, T[n])
  /\ DistancesWithin(g, s, A) =
       [v \in Nodes |-> LeastOf({p[2] : p \in {q \in T[N - 1] : q[1] = v}}, MaxInt)]

LEMMA TurnsWithinExist ==
  ASSUME NEW g, IsGraph(g), NEW s \in Nodes, NEW A, A \subseteq Nodes
  PROVE  \E T : TurnsWithin(g, s, A, T)
<1> DEFINE step == [S \in SUBSET Pairs |-> Settle(g, A, S)]
           first == {<<s, 0>>}
           Turn[n \in Nat] == IF n = 0 THEN first ELSE Settle(g, A, Turn[n - 1])
           body(f) == [n \in Nat |-> IF n = 0 THEN first ELSE Settle(g, A, f[n - 1])]
           sets == SUBSET Pairs
<1>1. step \in [sets -> sets]
  BY SettleWithin DEF SettlesRight, step, sets
<1>2. first \in sets
  BY DEF Pairs
<1> HIDE DEF step, first, sets
<1>3. PICK f \in [Nat -> sets] : /\ f[0] = first
                                /\ \A n \in Nat : f[n + 1] = step[f[n]]
  BY <1>1, <1>2, Recursion
<1>4. f = body(f)
  <2>1. ASSUME NEW n \in Nat PROVE f[n] = body(f)[n]
    <3>1. CASE n = 0
      BY <1>3, <3>1
    <3>2. CASE n # 0
      <4>1. n - 1 \in Nat /\ n = (n - 1) + 1
        BY <3>2
      <4>2. f[n] = step[f[n - 1]] /\ f[n - 1] \in sets
        BY <1>3, <4>1
      <4> QED BY <3>2, <4>2 DEF step, sets
    <3> QED BY <3>1, <3>2
  <2> QED BY <1>3, <2>1
<1>5. Turn = body(Turn)
  BY <1>4
<1> HIDE DEF Turn
<1>6. /\ Turn[0] = first
      /\ \A n \in Nat : Turn[n + 1] = Settle(g, A, Turn[n])
  BY <1>5
<1>7. Turn \in [Nat -> SUBSET Pairs]
  <2> DEFINE K == {n \in Nat : Turn[n] \in SUBSET Pairs}
  <2>1. 0 \in K
    BY <1>2, <1>6 DEF sets
  <2>2. ASSUME NEW n \in Nat, n \in K PROVE n + 1 \in K
    <3>1. Turn[n] \subseteq Pairs /\ Turn[n + 1] = Settle(g, A, Turn[n])
      BY <1>6, <2>2
    <3>2. Settle(g, A, Turn[n]) \in SUBSET Pairs
      BY <3>1, SettleWithin DEF SettlesRight
    <3> QED BY <3>1, <3>2
  <2> HIDE DEF K
  <2>3. Nat \subseteq K
    BY <2>1, <2>2, Induction
  <2>4. \A n \in Nat : Turn[n] \in SUBSET Pairs
    BY <2>3 DEF K
  <2> QED BY <1>5, <2>4
<1>8. DistancesWithin(g, s, A) =
        [v \in Nodes |-> LeastOf({p[2] : p \in {q \in Turn[N - 1] : q[1] = v}}, MaxInt)]
  BY DEF DistancesWithin, Turn, first
<1> QED BY <1>6, <1>7, <1>8 DEF first, TurnsWithin

Turns(g, s, T) == TurnsWithin(g, s, Nodes, T)

LEMMA TurnsExist ==
  ASSUME NEW g, IsGraph(g), NEW s \in Nodes
  PROVE  \E T : Turns(g, s, T)
<1>1. Nodes \subseteq Nodes
  OBVIOUS
<1> QED BY <1>1, TurnsWithinExist DEF Turns

\* While the pairs settled are right, the nearest pair entered is right too:
\* the node has a predecessor not yet passed that is no further than it is,
\* and of those the one of least rank is entered at its own distance.
LEMMA NearestIsRight ==
  ASSUME NEW g, IsGraph(g), NEW s \in Nodes, NEW d, Certified(g, s, d),
         NEW S \in SUBSET Pairs, <<s, 0>> \in S,
         \A p \in S : d[p[1]] = p[2] /\ p[2] < MaxInt,
         NEW r \in Entered(g, Nodes, S), \A o \in Entered(g, Nodes, S) : r[2] <= o[2]
  PROVE  /\ r \in Pairs /\ r[1] \notin SettledIn(S)
         /\ d[r[1]] = r[2] /\ r[2] < MaxInt
<1> USE SizeAssumption
<1>1. /\ d \in [Nodes -> 0 .. MaxInt]
      /\ \A e \in Edges(g) : d[g.sources[e]] < MaxInt =>
           /\ d[g.targets[e]] <= d[g.sources[e]] + g.costs[e]
           /\ d[g.targets[e]] < MaxInt
  BY DEF Certified, Lengths
<1>2. PICK rank \in [Nodes -> 0 .. N - 1] : Ranks(g, s, d, rank)
  BY DEF Certified
<1>3. r \in Pairs
  BY EnteredFacts
<1>4. PICK p \in S : \E e \in Edges(g) :
                       /\ g.sources[e] = p[1] /\ g.targets[e] \notin SettledIn(S)
                       /\ r = <<g.targets[e], p[2] + g.costs[e]>>
  BY EnteredFacts
<1>5. PICK e \in Edges(g) : /\ g.sources[e] = p[1] /\ g.targets[e] \notin SettledIn(S)
                            /\ r = <<g.targets[e], p[2] + g.costs[e]>>
  BY <1>4
<1>6. r[1] \in Nodes /\ r[2] \in Nat /\ r[1] \notin SettledIn(S) /\ d[r[1]] \in 0 .. MaxInt
  BY <1>1, <1>3, <1>5 DEF Pairs
<1>7. d[r[1]] <= r[2] /\ d[r[1]] < MaxInt
  BY <1>1, <1>5
<1> DEFINE Near == {v \in Nodes \ SettledIn(S) : d[v] <= d[r[1]]}
<1>8. PICK v \in Near : \A w \in Near : rank[v] <= rank[w]
  <2> DEFINE R == {rank[w] : w \in Near}
  <2>1. r[1] \in Near
    BY <1>6
  <2>2. R \subseteq Nat /\ R # {}
    BY <1>2, <2>1
  <2> HIDE DEF R
  <2>3. PICK m \in R : \A n \in R : m <= n
    BY <2>2, LeastNumber
  <2> QED BY <2>3 DEF R
<1>9. v \in Nodes /\ v \notin SettledIn(S) /\ d[v] <= d[r[1]] /\ d[v] < MaxInt /\ v # s
  <2>1. s \in SettledIn(S)
    BY DEF SettledIn
  <2> QED BY <1>1, <1>6, <1>7, <2>1
<1>10. PICK f \in Edges(g) : /\ g.targets[f] = v /\ Accounts(g, d, f)
                             /\ rank[g.sources[f]] < rank[v]
  BY <1>2, <1>9 DEF Ranks
<1>11. /\ g.sources[f] \in Nodes /\ g.costs[f] \in Nat
       /\ d[v] = d[g.sources[f]] + g.costs[f]
  BY <1>10, EdgeFacts DEF Accounts
<1>12. g.sources[f] \in SettledIn(S)
  <2>1. d[g.sources[f]] <= d[r[1]]
    BY <1>1, <1>6, <1>9, <1>11
  <2>2. rank[g.sources[f]] \in Nat /\ rank[v] \in Nat
    BY <1>2, <1>9, <1>11
  <2> QED BY <1>8, <1>10, <1>11, <2>1, <2>2
<1>13. PICK q \in S : g.sources[f] = q[1]
  BY <1>12 DEF SettledIn
<1>14. <<v, q[2] + g.costs[f]>> \in Entered(g, Nodes, S)
  BY <1>9, <1>10, <1>13, EnteredFacts
<1>15. q[2] = d[g.sources[f]]
  BY <1>13
<1>16. r[2] <= d[v]
  BY <1>11, <1>14, <1>15
<1> QED BY <1>1, <1>3, <1>6, <1>7, <1>9, <1>16

LEMMA CertifiedIsSettled ==
  ASSUME NEW g, IsGraph(g), NEW s \in Nodes, NEW d, Certified(g, s, d)
  PROVE  d = Distances(g, s)
<1> USE SizeAssumption
<1>1. /\ d \in [Nodes -> 0 .. MaxInt] /\ d[s] = 0
      /\ \A e \in Edges(g) : d[g.sources[e]] < MaxInt => d[g.targets[e]] < MaxInt
  BY DEF Certified, Lengths
<1>2. PICK rank \in [Nodes -> 0 .. N - 1] : Ranks(g, s, d, rank)
  BY DEF Certified
<1>p. PICK T : Turns(g, s, T)
  BY TurnsExist
<1>3. /\ T \in [Nat -> SUBSET Pairs]
      /\ T[0] = {<<s, 0>>}
      /\ \A n \in Nat : T[n + 1] = Settle(g, Nodes, T[n])
      /\ Distances(g, s) =
           [v \in Nodes |-> LeastOf({p[2] : p \in {q \in T[N - 1] : q[1] = v}}, MaxInt)]
  BY <1>p DEF Turns, TurnsWithin, Distances
<1>4. ASSUME NEW S \in SUBSET Pairs
      PROVE  /\ SettledIn(S) \subseteq Nodes
             /\ IsFiniteSet(SettledIn(S)) /\ Cardinality(SettledIn(S)) \in 0 .. N
             /\ Cardinality(SettledIn(S)) = N => SettledIn(S) = Nodes
  <2>1. IsFiniteSet(Nodes) /\ Cardinality(Nodes) = N
    BY FS_Interval DEF Nodes
  <2>2. SettledIn(S) \subseteq Nodes
    BY DEF SettledIn, Pairs
  <2>3. /\ IsFiniteSet(SettledIn(S)) /\ Cardinality(SettledIn(S)) <= N
        /\ Cardinality(SettledIn(S)) = N => SettledIn(S) = Nodes
    BY <2>1, <2>2, FS_Subset
  <2> QED BY <2>2, <2>3, FS_CardinalityType
<1> DEFINE Right(S) == <<s, 0>> \in S /\ \A p \in S : d[p[1]] = p[2] /\ p[2] < MaxInt
           K == {n \in Nat : /\ Right(T[n])
                             /\ \/ Entered(g, Nodes, T[n]) = {}
                                \/ Cardinality(SettledIn(T[n])) >= n + 1}
<1>5. 0 \in K
  <2>1. Right(T[0])
    BY <1>1, <1>3
  <2>2. SettledIn(T[0]) = {s}
    BY <1>3 DEF SettledIn
  <2>3. Cardinality(SettledIn(T[0])) = 1
    BY <2>2, FS_Singleton
  <2> QED BY <2>1, <2>3
<1>6. ASSUME NEW n \in Nat, n \in K PROVE n + 1 \in K
  <2> DEFINE S == T[n]
  <2>1. /\ S \in SUBSET Pairs /\ Right(S) /\ T[n + 1] = Settle(g, Nodes, S)
        /\ Entered(g, Nodes, S) = {} \/ Cardinality(SettledIn(S)) >= n + 1
    BY <1>3, <1>6
  <2> HIDE DEF S
  <2>2. CASE Entered(g, Nodes, S) = {}
    <3>1. T[n + 1] = S
      BY <2>1, <2>2, SettleFacts
    <3> QED BY <2>1, <2>2, <3>1
  <2>3. CASE Entered(g, Nodes, S) # {}
    <3>1. PICK r \in Entered(g, Nodes, S) :
            /\ \A o \in Entered(g, Nodes, S) : r[2] <= o[2]
            /\ T[n + 1] = S \cup {r}
      BY <2>1, <2>3, SettleFacts
    <3>2. r \in Pairs /\ r[1] \notin SettledIn(S) /\ d[r[1]] = r[2] /\ r[2] < MaxInt
      BY <2>1, <3>1, NearestIsRight
    <3>3. Right(T[n + 1])
      BY <2>1, <3>1, <3>2
    <3>4. SettledIn(T[n + 1]) = SettledIn(S) \cup {r[1]}
      BY <3>1 DEF SettledIn
    <3>5. Cardinality(SettledIn(T[n + 1])) = Cardinality(SettledIn(S)) + 1
      BY <1>4, <2>1, <3>2, <3>4, FS_AddElement
    <3>6. Cardinality(SettledIn(S)) \in Nat /\ Cardinality(SettledIn(S)) >= n + 1
      BY <1>4, <2>1, <2>3
    <3> QED BY <3>3, <3>5, <3>6
  <2> QED BY <2>2, <2>3
<1> HIDE DEF K
<1>7. Nat \subseteq K
  BY <1>5, <1>6, Induction
<1> DEFINE S == T[N - 1]
<1>8. /\ N - 1 \in Nat /\ S \in SUBSET Pairs /\ <<s, 0>> \in S
      /\ \A p \in S : d[p[1]] = p[2] /\ p[2] < MaxInt
      /\ Entered(g, Nodes, S) = {} \/ Cardinality(SettledIn(S)) >= N
  BY <1>3, <1>7 DEF K
<1> HIDE DEF S
<1>9. ASSUME NEW e \in Edges(g), g.sources[e] \in SettledIn(S)
      PROVE  g.targets[e] \in SettledIn(S)
  <2>1. CASE Entered(g, Nodes, S) = {}
    <3>1. PICK p \in S : g.sources[e] = p[1]
      BY <1>9 DEF SettledIn
    <3> QED BY <1>8, <2>1, <3>1, EnteredFacts
  <2>2. CASE Cardinality(SettledIn(S)) >= N
    <3>1. SettledIn(S) = Nodes
      BY <1>4, <1>8, <2>2
    <3> QED BY <3>1, EdgeFacts
  <2> QED BY <1>8, <2>1, <2>2
<1>10. ASSUME NEW v \in Nodes, d[v] < MaxInt PROVE v \in SettledIn(S)
  <2> DEFINE Left == {w \in Nodes : d[w] < MaxInt /\ w \notin SettledIn(S)}
             R == {rank[w] : w \in Left}
  <2> SUFFICES ASSUME Left # {} PROVE FALSE
    BY <1>10
  <2>1. R \subseteq Nat /\ R # {}
    BY <1>2
  <2> HIDE DEF R
  <2>2. PICK m \in R : \A n \in R : m <= n
    BY <2>1, LeastNumber
  <2>3. PICK w \in Left : \A x \in Left : rank[w] <= rank[x]
    BY <2>2 DEF R
  <2>4. s \in SettledIn(S)
    BY <1>8 DEF SettledIn
  <2>5. PICK f \in Edges(g) : /\ g.targets[f] = w /\ Accounts(g, d, f)
                              /\ rank[g.sources[f]] < rank[w]
    BY <1>2, <2>3, <2>4 DEF Ranks
  <2>6. g.sources[f] \in Nodes /\ d[g.sources[f]] < MaxInt
    BY <2>5, EdgeFacts DEF Accounts
  <2>7. rank[g.sources[f]] \in Nat /\ rank[w] \in Nat
    BY <1>2, <2>3, <2>6
  <2>8. g.sources[f] \in SettledIn(S)
    BY <2>3, <2>5, <2>6, <2>7
  <2> QED BY <1>9, <2>3, <2>5, <2>8
<1>11. ASSUME NEW v \in Nodes PROVE d[v] = Distances(g, s)[v]
  <2> DEFINE found == {p[2] : p \in {q \in S : q[1] = v}}
  <2>1. Distances(g, s)[v] = LeastOf(found, MaxInt)
    BY <1>3 DEF S
  <2>2. \A x \in found : x = d[v] /\ x < MaxInt
    BY <1>8
  <2>3. CASE d[v] < MaxInt
    <3>1. v \in SettledIn(S)
      BY <1>10, <2>3
    <3>2. PICK p \in S : p[1] = v
      BY <3>1 DEF SettledIn
    <3>3. p[2] \in found
      BY <3>2
    <3>4. found # {} /\ found \subseteq Nat
      BY <1>1, <2>2, <3>3
    <3> HIDE DEF found
    <3>5. LeastOf(found, MaxInt) \in found
      BY <3>4, LeastFacts
    <3> QED BY <2>1, <2>2, <3>5
  <2>4. CASE ~(d[v] < MaxInt)
    <3>1. found = {}
      BY <2>2, <2>4
    <3> HIDE DEF found
    <3>2. LeastOf(found, MaxInt) = MaxInt
      BY <3>1 DEF LeastOf
    <3> QED BY <1>1, <2>1, <2>4, <3>2
  <2> QED BY <2>3, <2>4
<1>12. Distances(g, s) = [v \in Nodes |-> Distances(g, s)[v]]
  BY <1>3
<1> QED BY <1>1, <1>11, <1>12
-----------------------------------------------------------------------------
(***************************************************************************)
(* On a network whose costs are bounded the search settles certified       *)
(* distances: it is right whatever the network.                            *)
(***************************************************************************)
BoundedBy(g, C) == N * C < MaxInt /\ \A e \in Edges(g) : g.costs[e] <= C
Bounded(g) == \E C \in Nat : BoundedBy(g, C)

\* Settled pairs are one per node, feasible with respect to each other, and no
\* further than what they lead to.
Sound(g, s, S) ==
  /\ <<s, 0>> \in S
  /\ \A p, q \in S : p[1] = q[1] => p[2] = q[2]
  /\ \A p, q \in S, e \in Edges(g) :
       g.sources[e] = p[1] /\ g.targets[e] = q[1] => q[2] <= p[2] + g.costs[e]
  /\ \A p \in S, r \in Entered(g, Nodes, S) : p[2] <= r[2]

LEMMA SettleSound ==
  ASSUME NEW g, IsGraph(g), NEW s \in Nodes, NEW S \in SUBSET Pairs, Sound(g, s, S),
         NEW r \in Entered(g, Nodes, S), \A o \in Entered(g, Nodes, S) : r[2] <= o[2]
  PROVE  Sound(g, s, S \cup {r})
<1> DEFINE E == Entered(g, Nodes, S)
           X == S \cup {r}
           F == Entered(g, Nodes, X)
<1>1. /\ r \in Pairs /\ E \subseteq Pairs /\ X \in SUBSET Pairs
      /\ \A p \in S : p[2] \in Nat /\ p[2] <= r[2]
      /\ r[2] \in Nat /\ r[1] \notin SettledIn(S)
  <2>1. E \subseteq Pairs /\ r \in Pairs
    BY EnteredFacts
  <2>2. r[1] \notin SettledIn(S)
    <3>1. PICK p \in S : \E e \in Edges(g) :
                 /\ g.sources[e] = p[1] /\ g.targets[e] \notin SettledIn(S)
                 /\ r = <<g.targets[e], p[2] + g.costs[e]>>
      BY EnteredFacts
    <3> QED BY <3>1
  <2> QED BY <2>1, <2>2 DEF Sound, Pairs
<1>2. \A p \in S : p[1] # r[1]
  BY <1>1 DEF SettledIn
<1>3. \A p, q \in X : p[1] = q[1] => p[2] = q[2]
  BY <1>2 DEF Sound
<1>4. ASSUME NEW p \in X, NEW q \in X, NEW e \in Edges(g), g.sources[e] = p[1], g.targets[e] = q[1]
      PROVE  q[2] <= p[2] + g.costs[e]
  <2>1. g.costs[e] \in Nat /\ p[2] \in Nat /\ q[2] \in Nat
    BY <1>1, EdgeFacts
  <2>2. CASE p \in S /\ q \in S
    BY <1>4, <2>2 DEF Sound
  <2>3. CASE p \in S /\ q = r
    <3>1. g.targets[e] \notin SettledIn(S)
      BY <1>1, <1>4, <2>3
    <3>2. <<g.targets[e], p[2] + g.costs[e]>> \in E
      BY <1>4, <2>3, <3>1, EnteredFacts
    <3>3. r[2] <= <<g.targets[e], p[2] + g.costs[e]>>[2]
      BY <3>2
    <3> QED BY <2>3, <3>3
  <2>4. CASE p = r
    <3>1. q[2] <= r[2]
      BY <1>1
    <3> QED BY <2>1, <2>4, <3>1
  <2> QED BY <2>2, <2>3, <2>4
<1>5. ASSUME NEW p \in X, NEW o \in F PROVE p[2] <= o[2]
  <2>1. PICK q \in X : \E e \in Edges(g) :
               /\ g.sources[e] = q[1] /\ g.targets[e] \notin SettledIn(X)
               /\ o = <<g.targets[e], q[2] + g.costs[e]>>
    BY <1>1, EnteredFacts
  <2>2. PICK e \in Edges(g) : /\ g.sources[e] = q[1] /\ g.targets[e] \notin SettledIn(X)
                              /\ o = <<g.targets[e], q[2] + g.costs[e]>>
    BY <2>1
  <2>3. p[2] <= r[2] /\ p[2] \in Nat /\ q[2] \in Nat /\ g.costs[e] \in Nat
    BY <1>1, EdgeFacts
  <2>4. CASE q = r
    <3>1. o[2] = r[2] + g.costs[e]
      BY <2>2, <2>4
    <3> QED BY <1>1, <2>3, <3>1
  <2>5. CASE q \in S
    <3>1. g.targets[e] \notin SettledIn(S)
      BY <2>2 DEF SettledIn
    <3>2. o \in E
      BY <2>2, <2>5, <3>1, EnteredFacts
    <3>3. r[2] <= o[2] /\ o[2] \in Nat
      BY <1>1, <3>2 DEF Pairs
    <3> QED BY <1>1, <2>3, <3>3
  <2> QED BY <2>4, <2>5
<1>6. <<s, 0>> \in X
  BY DEF Sound
<1> QED BY <1>3, <1>4, <1>5, <1>6 DEF Sound

\* After n turns: the pairs are sound, not further than n longest edges, and at
\* least n + 1 unless nothing more can be entered.
LEMMA TurnsSound ==
  ASSUME NEW g, IsGraph(g), NEW s \in Nodes, NEW C \in Nat, \A e \in Edges(g) : g.costs[e] <= C,
         NEW T, Turns(g, s, T)
  PROVE  \A n \in Nat : /\ T[n] \in SUBSET Pairs /\ Sound(g, s, T[n])
                        /\ \A p \in T[n] : p[2] <= n * C
                        /\ \/ Entered(g, Nodes, T[n]) = {}
                           \/ Cardinality(SettledIn(T[n])) >= n + 1
<1>1. /\ T \in [Nat -> SUBSET Pairs] /\ T[0] = {<<s, 0>>}
      /\ \A n \in Nat : T[n + 1] = Settle(g, Nodes, T[n])
  BY DEF Turns, TurnsWithin, Distances
<1>2. ASSUME NEW S \in SUBSET Pairs
      PROVE  IsFiniteSet(SettledIn(S)) /\ Cardinality(SettledIn(S)) \in Nat
  <2>1. IsFiniteSet(Nodes)
    <3>1. 0 \in Int /\ N - 1 \in Int
      BY SizeAssumption
    <3> QED BY <3>1, FS_Interval DEF Nodes
  <2>2. SettledIn(S) \subseteq Nodes
    BY DEF SettledIn, Pairs
  <2> QED BY <2>1, <2>2, FS_Subset, FS_CardinalityType
<1> DEFINE Far(n) == \A p \in T[n] : p[2] <= n * C
           Many(n) == Entered(g, Nodes, T[n]) = {} \/ Cardinality(SettledIn(T[n])) >= n + 1
           K == {n \in Nat : Sound(g, s, T[n]) /\ Far(n) /\ Many(n)}
<1>3. 0 \in K
  <2> DEFINE S == {<<s, 0>>}
  <2>1. S \in SUBSET Pairs
    BY DEF Pairs
  <2>2. ASSUME NEW p \in S, NEW q \in S PROVE p[2] = 0 /\ q[2] = 0
    OBVIOUS
  <2>3. ASSUME NEW e \in Edges(g) PROVE 0 <= 0 + g.costs[e]
    BY EdgeFacts
  <2>4. ASSUME NEW r \in Entered(g, Nodes, S) PROVE 0 <= r[2]
    <3>1. r \in Pairs
      BY <2>1, EnteredFacts
    <3> QED BY <3>1 DEF Pairs
  <2>5. Sound(g, s, S)
    BY <2>2, <2>3, <2>4 DEF Sound
  <2>6. SettledIn(S) = {s}
    BY DEF SettledIn
  <2>7. Cardinality(SettledIn(S)) = 1
    BY <2>6, FS_Singleton
  <2>8. 0 <= 0 * C
    OBVIOUS
  <2>9. Sound(g, s, T[0]) /\ Many(0)
    BY <1>1, <2>5, <2>7
  <2>10. Far(0)
    BY <1>1, <2>2, <2>8
  <2> QED BY <2>9, <2>10
<1>4. ASSUME NEW n \in Nat, n \in K PROVE n + 1 \in K
  <2> DEFINE S == T[n]
  <2>1. /\ S \in SUBSET Pairs /\ Sound(g, s, S) /\ T[n + 1] = Settle(g, Nodes, S)
        /\ \A p \in S : p[2] <= n * C /\ p[2] \in Nat
        /\ Entered(g, Nodes, S) = {} \/ Cardinality(SettledIn(S)) >= n + 1
    BY <1>1, <1>4 DEF Pairs
  <2>2. (n + 1) * C = n * C + C /\ n * C \in Nat
    OBVIOUS
  <2> HIDE DEF S
  <2>3. CASE Entered(g, Nodes, S) = {}
    <3>1. T[n + 1] = S
      BY <2>1, <2>3, SettleFacts
    <3>2. \A p \in S : p[2] <= n * C + C
      BY <2>1, <2>2
    <3> QED BY <2>1, <2>2, <2>3, <3>1, <3>2
  <2>4. CASE Entered(g, Nodes, S) # {}
    <3>1. PICK r \in Entered(g, Nodes, S) :
            /\ \A o \in Entered(g, Nodes, S) : r[2] <= o[2]
            /\ T[n + 1] = S \cup {r}
      BY <2>1, <2>4, SettleFacts
    <3>2. Sound(g, s, T[n + 1])
      BY <2>1, <3>1, SettleSound
    <3>3. PICK p \in S : \E e \in Edges(g) :
                 /\ g.sources[e] = p[1] /\ g.targets[e] \notin SettledIn(S)
                 /\ r = <<g.targets[e], p[2] + g.costs[e]>>
      BY <2>1, EnteredFacts
    <3>4. PICK e \in Edges(g) : /\ g.targets[e] \notin SettledIn(S)
                                /\ r = <<g.targets[e], p[2] + g.costs[e]>>
      BY <3>3
    <3>5. r[2] <= n * C + C /\ r[1] \notin SettledIn(S)
      <4>1. r[2] = p[2] + g.costs[e] /\ p[2] \in Nat /\ p[2] <= n * C
        BY <2>1, <3>4
      <4>2. g.costs[e] \in Nat /\ g.costs[e] <= C
        BY EdgeFacts
      <4>3. r[1] = g.targets[e]
        BY <3>4
      <4> QED BY <2>2, <3>4, <4>1, <4>2, <4>3
    <3>6. \A q \in S : q[2] <= n * C + C
      BY <2>1, <2>2
    <3>7. Far(n + 1)
      BY <2>2, <3>1, <3>5, <3>6
    <3>8. SettledIn(T[n + 1]) = SettledIn(S) \cup {r[1]}
      BY <3>1 DEF SettledIn
    <3>9. Cardinality(SettledIn(T[n + 1])) = Cardinality(SettledIn(S)) + 1
      BY <1>2, <2>1, <3>5, <3>8, FS_AddElement
    <3>10. Cardinality(SettledIn(S)) \in Nat /\ Cardinality(SettledIn(S)) >= n + 1
      BY <1>2, <2>1, <2>4
    <3> QED BY <3>2, <3>7, <3>9, <3>10
  <2> QED BY <2>3, <2>4
<1> HIDE DEF K
<1>5. Nat \subseteq K
  BY <1>3, <1>4, Induction
<1> QED BY <1>1, <1>5 DEF K

\* The turn in which a node is settled is its rank.
RankedBy(g, s, S, rank) ==
  \A v \in SettledIn(S) \ {s} : \E p \in S, e \in Edges(g) :
    /\ g.sources[e] = p[1] /\ g.targets[e] = v
    /\ <<v, p[2] + g.costs[e]>> \in S /\ rank[p[1]] < rank[v]

LEMMA TurnsRank ==
  ASSUME NEW g, IsGraph(g), NEW s \in Nodes, NEW T, Turns(g, s, T)
  PROVE  \E rank \in [Nodes -> 0 .. N - 1] : RankedBy(g, s, T[N - 1], rank)
<1> USE SizeAssumption
<1>1. /\ T \in [Nat -> SUBSET Pairs] /\ T[0] = {<<s, 0>>}
      /\ \A n \in Nat : T[n + 1] = Settle(g, Nodes, T[n])
  BY DEF Turns, TurnsWithin, Distances
<1>2. ASSUME NEW n \in Nat PROVE T[n] \subseteq T[n + 1]
  BY <1>1, SettleFacts
<1> DEFINE When(v) == {n \in 0 .. N - 1 : v \in SettledIn(T[n])}
           rank == [v \in Nodes |-> LeastOf(When(v), 0)]
<1>3. ASSUME NEW v \in Nodes, When(v) # {}
      PROVE  rank[v] \in When(v) /\ \A n \in When(v) : rank[v] <= n
  <2>1. When(v) \subseteq Nat
    OBVIOUS
  <2> HIDE DEF When
  <2> QED BY <1>3, <2>1, LeastFacts
<1>4. rank \in [Nodes -> 0 .. N - 1]
  <2> SUFFICES ASSUME NEW v \in Nodes PROVE LeastOf(When(v), 0) \in 0 .. N - 1
    OBVIOUS
  <2>1. CASE When(v) = {}
    BY <2>1 DEF LeastOf
  <2>2. CASE When(v) # {}
    <3>1. rank[v] \in When(v)
      BY <1>3, <2>2
    <3> QED BY <3>1
  <2> QED BY <2>1, <2>2
<1> HIDE DEF rank
<1>5. N - 1 \in Nat
  OBVIOUS
<1>6. ASSUME NEW m \in Nat PROVE \A n \in 0 .. m : T[n] \subseteq T[m]
  <2> DEFINE K == {k \in Nat : \A n \in 0 .. k : T[n] \subseteq T[k]}
  <2>1. 0 \in K
    OBVIOUS
  <2>2. ASSUME NEW k \in Nat, k \in K PROVE k + 1 \in K
    <3>1. \A n \in 0 .. k + 1 : n \in 0 .. k \/ n = k + 1
      OBVIOUS
    <3> QED BY <1>2, <2>2, <3>1
  <2> HIDE DEF K
  <2>3. Nat \subseteq K
    BY <2>1, <2>2, Induction
  <2> QED BY <2>3 DEF K
<1>7. ASSUME NEW v \in SettledIn(T[N - 1]), v # s
      PROVE  \E p \in T[N - 1], e \in Edges(g) :
               /\ g.sources[e] = p[1] /\ g.targets[e] = v
               /\ <<v, p[2] + g.costs[e]>> \in T[N - 1] /\ rank[p[1]] < rank[v]
  <2> DEFINE m == rank[v]
  <2>1. v \in Nodes /\ N - 1 \in When(v)
    BY <1>1, <1>5, <1>7 DEF SettledIn, Pairs
  <2>2. m \in 0 .. N - 1 /\ v \in SettledIn(T[m]) /\ \A n \in When(v) : m <= n
    BY <1>3, <2>1
  <2> HIDE DEF m
  <2>3. m # 0
    <3>1. SettledIn(T[0]) = {s}
      BY <1>1 DEF SettledIn
    <3> QED BY <1>7, <2>2, <3>1
  <2> DEFINE k == m - 1
  <2>4. k \in Nat /\ k \in 0 .. N - 1 /\ m = k + 1
    BY <2>2, <2>3
  <2> HIDE DEF k
  <2>5. v \notin SettledIn(T[k])
    BY <2>2, <2>4
  <2>6. T[k] \in SUBSET Pairs /\ T[m] = Settle(g, Nodes, T[k])
    BY <1>1, <2>4
  <2>7. Entered(g, Nodes, T[k]) # {}
    BY <2>2, <2>5, <2>6, SettleFacts
  <2>8. PICK r \in Entered(g, Nodes, T[k]) : T[m] = T[k] \cup {r}
    BY <2>6, <2>7, SettleFacts
  <2>9. r[1] = v
    BY <2>2, <2>5, <2>8 DEF SettledIn
  <2>10. PICK p \in T[k] : \E e \in Edges(g) :
               /\ g.sources[e] = p[1] /\ g.targets[e] \notin SettledIn(T[k])
               /\ r = <<g.targets[e], p[2] + g.costs[e]>>
    BY <2>6, EnteredFacts
  <2>11. PICK e \in Edges(g) : g.sources[e] = p[1] /\ r = <<g.targets[e], p[2] + g.costs[e]>>
    BY <2>10
  <2>12. T[k] \subseteq T[N - 1] /\ T[m] \subseteq T[N - 1]
    BY <1>5, <1>6, <2>2, <2>4
  <2>13. rank[p[1]] <= k
    <3>1. p[1] \in Nodes /\ k \in When(p[1])
      BY <2>4, <2>6, <2>10 DEF SettledIn, Pairs
    <3> QED BY <1>3, <3>1
  <2>14. rank[p[1]] < rank[v]
    <3>1. rank[p[1]] \in Int
      BY <1>4, <2>6, <2>10 DEF Pairs
    <3> QED BY <2>4, <2>13, <3>1 DEF m
  <2>15. g.targets[e] = v /\ <<v, p[2] + g.costs[e]>> \in T[N - 1]
    BY <2>8, <2>9, <2>11, <2>12
  <2> QED BY <2>10, <2>11, <2>12, <2>14, <2>15
<1> QED BY <1>4, <1>7 DEF RankedBy

LEMMA DistancesCertified ==
  ASSUME NEW g, IsGraph(g), Bounded(g), NEW s \in Nodes
  PROVE  Certified(g, s, Distances(g, s))
<1> USE SizeAssumption
<1>1. PICK C \in Nat : BoundedBy(g, C)
  BY DEF Bounded
<1>2. PICK T : Turns(g, s, T)
  BY TurnsExist
<1> DEFINE S == T[N - 1]
           d == Distances(g, s)
           found(v) == {p[2] : p \in {q \in S : q[1] = v}}
<1>3. /\ S \in SUBSET Pairs /\ Sound(g, s, S)
      /\ \A p \in S : p[2] < MaxInt
      /\ Entered(g, Nodes, S) = {} \/ Cardinality(SettledIn(S)) >= N
  <2>1. N - 1 \in Nat /\ (N - 1) + 1 = N /\ N * C < MaxInt /\ (N - 1) * C <= N * C
    <3>1. N * C = (N - 1) * C + C
      OBVIOUS
    <3>2. (N - 1) * C \in Int /\ N * C < MaxInt
      BY <1>1 DEF BoundedBy
    <3> DEFINE x == (N - 1) * C
               y == N * C
    <3>3. y = x + C /\ x \in Int /\ C \in Nat
      BY <3>1, <3>2
    <3> HIDE DEF x, y
    <3>4. x <= y
      BY <3>3
    <3> QED BY <3>2, <3>4 DEF x, y
  <2>2. /\ S \in SUBSET Pairs /\ Sound(g, s, S) /\ \A p \in S : p[2] <= (N - 1) * C
        /\ Entered(g, Nodes, S) = {} \/ Cardinality(SettledIn(S)) >= N
    <3>1. \A e \in Edges(g) : g.costs[e] <= C
      BY <1>1 DEF BoundedBy
    <3>2. /\ S \in SUBSET Pairs /\ Sound(g, s, S) /\ \A p \in S : p[2] <= (N - 1) * C
          /\ Entered(g, Nodes, S) = {} \/ Cardinality(SettledIn(S)) >= (N - 1) + 1
      BY <1>2, <2>1, <3>1, TurnsSound
    <3> QED BY <2>1, <3>2
  <2> DEFINE a == (N - 1) * C
             b == N * C
  <2>3. a \in Int /\ b \in Int
    OBVIOUS
  <2>4. a <= b /\ b < MaxInt /\ \A p \in S : p[2] <= a
    BY <2>1, <2>2
  <2> HIDE DEF a, b, S
  <2>5. \A p \in S : p[2] < MaxInt
    <3> SUFFICES ASSUME NEW p \in S PROVE p[2] < MaxInt
      OBVIOUS
    <3>1. p[2] \in Nat /\ p[2] <= a
      BY <2>2, <2>4 DEF Pairs
    <3> QED BY <2>3, <2>4, <3>1
  <2> QED BY <2>2, <2>5
<1>4. d = [v \in Nodes |-> LeastOf(found(v), MaxInt)]
  BY <1>2 DEF Turns, TurnsWithin, Distances
<1> HIDE DEF S, d
<1>5. ASSUME NEW p \in S PROVE d[p[1]] = p[2] /\ p[1] \in Nodes /\ p[2] \in Nat /\ p[2] < MaxInt
  <2>1. p[1] \in Nodes /\ p[2] \in Nat /\ p[2] < MaxInt
    BY <1>3 DEF Pairs
  <2>2. found(p[1]) = {p[2]}
    BY <1>3 DEF Sound
  <2>3. LeastOf({p[2]}, MaxInt) = p[2]
    <3>1. {p[2]} \subseteq Nat /\ {p[2]} # {}
      BY <2>1
    <3>2. LeastOf({p[2]}, MaxInt) \in {p[2]}
      BY <3>1, LeastFacts
    <3> QED BY <3>2
  <2>4. d[p[1]] = LeastOf(found(p[1]), MaxInt)
    BY <1>4, <2>1
  <2> QED BY <2>1, <2>2, <2>3, <2>4
<1>6. ASSUME NEW v \in Nodes, v \notin SettledIn(S) PROVE d[v] = MaxInt
  <2>1. found(v) = {}
    BY <1>6 DEF SettledIn
  <2>2. d[v] = LeastOf(found(v), MaxInt)
    BY <1>4
  <2> QED BY <2>1, <2>2 DEF LeastOf
<1>7. d \in Lengths
  <2> SUFFICES ASSUME NEW v \in Nodes PROVE d[v] \in 0 .. MaxInt
    BY <1>4 DEF Lengths
  <2>1. CASE v \in SettledIn(S)
    <3>1. PICK p \in S : v = p[1]
      BY <2>1 DEF SettledIn
    <3> QED BY <1>5, <3>1
  <2>2. CASE v \notin SettledIn(S)
    BY <1>6, <2>2
  <2> QED BY <2>1, <2>2
<1>8. d[s] = 0
  BY <1>3, <1>5 DEF Sound
<1>9. Entered(g, Nodes, S) = {}
  <2>1. IsFiniteSet(Nodes) /\ Cardinality(Nodes) = N
    BY FS_Interval DEF Nodes
  <2>2. SettledIn(S) \subseteq Nodes
    BY <1>3 DEF SettledIn, Pairs
  <2>3. CASE Cardinality(SettledIn(S)) >= N
    <3>1. SettledIn(S) = Nodes
      <4>1. Cardinality(SettledIn(S)) <= N /\ IsFiniteSet(SettledIn(S))
        BY <2>1, <2>2, FS_Subset
      <4>2. Cardinality(SettledIn(S)) = N
        BY <2>3, <4>1, FS_CardinalityType
      <4> QED BY <2>1, <2>2, <4>2, FS_Subset
    <3> SUFFICES ASSUME NEW r \in Entered(g, Nodes, S) PROVE FALSE
      OBVIOUS
    <3>2. PICK p \in S : \E e \in Edges(g) : g.targets[e] \notin SettledIn(S)
      BY <1>3, EnteredFacts
    <3> QED BY <3>1, <3>2, EdgeFacts
  <2> QED BY <1>3, <2>3
<1>10. ASSUME NEW e \in Edges(g), d[g.sources[e]] < MaxInt
       PROVE  d[g.targets[e]] <= d[g.sources[e]] + g.costs[e] /\ d[g.targets[e]] < MaxInt
  <2>1. g.sources[e] \in Nodes /\ g.targets[e] \in Nodes /\ g.costs[e] \in Nat
    BY EdgeFacts
  <2>2. g.sources[e] \in SettledIn(S)
    BY <1>6, <1>10, <2>1
  <2>3. PICK p \in S : g.sources[e] = p[1]
    BY <2>2 DEF SettledIn
  <2>4. g.targets[e] \in SettledIn(S)
    BY <1>3, <1>9, <2>3, EnteredFacts
  <2>5. PICK q \in S : g.targets[e] = q[1]
    BY <2>4 DEF SettledIn
  <2>6. q[2] <= p[2] + g.costs[e]
    BY <1>3, <2>3, <2>5 DEF Sound
  <2> QED BY <1>5, <2>3, <2>5, <2>6
<1>11. \E rank \in [Nodes -> 0 .. N - 1] : Ranks(g, s, d, rank)
  <2>1. PICK rank \in [Nodes -> 0 .. N - 1] : RankedBy(g, s, S, rank)
    BY <1>2, TurnsRank DEF S
  <2>2. ASSUME NEW v \in Nodes \ {s}, d[v] < MaxInt
        PROVE  \E e \in Edges(g) : /\ g.targets[e] = v /\ Accounts(g, d, e)
                                   /\ rank[g.sources[e]] < rank[v]
    <3>1. v \in SettledIn(S)
      BY <1>6, <2>2
    <3>2. PICK p \in S, e \in Edges(g) :
             /\ g.sources[e] = p[1] /\ g.targets[e] = v
             /\ <<v, p[2] + g.costs[e]>> \in S /\ rank[p[1]] < rank[v]
      BY <2>1, <2>2, <3>1 DEF RankedBy
    <3>3. d[v] = p[2] + g.costs[e]
      <4> DEFINE q == <<v, p[2] + g.costs[e]>>
      <4>1. d[q[1]] = q[2]
        BY <1>5, <3>2
      <4> QED BY <4>1
    <3> QED BY <1>5, <3>2, <3>3 DEF Accounts
  <2> QED BY <2>2 DEF Ranks
<1> QED BY <1>7, <1>8, <1>10, <1>11 DEF Certified, d

\* Both definitions of distance agree: the greedy one the larger runs use and the
\* recurrence (ShipGraph).
THEOREM SearchIsReference ==
  ASSUME NEW g, IsGraph(g), Bounded(g), NEW s \in Nodes
  PROVE  Distances(g, s) = RefDistances(g, s)
BY DistancesCertified, CertifiedIsReference

-----------------------------------------------------------------------------
(***************************************************************************)
(* What holds of a node, when it holds of the one before it on a shortest  *)
(* path, holds of every node that can be reached.  With it: distances are  *)
(* no longer than the ways over an edge, and the same in both directions   *)
(* when every edge has its opposite.                                       *)
(***************************************************************************)
LEMMA AlongShortestPaths ==
  ASSUME NEW g, IsGraph(g), NEW s \in Nodes, NEW d, Certified(g, s, d), NEW P, s \in P,
         \A e \in Edges(g) : Accounts(g, d, e) /\ g.sources[e] \in P => g.targets[e] \in P
  PROVE  \A v \in Nodes : d[v] < MaxInt => v \in P
<1>1. PICK rank \in [Nodes -> 0 .. N - 1] : Ranks(g, s, d, rank)
  BY DEF Certified
<1> DEFINE Left == {v \in Nodes : d[v] < MaxInt /\ v \notin P}
           R == {rank[v] : v \in Left}
<1> SUFFICES ASSUME Left # {} PROVE FALSE
  OBVIOUS
<1>2. R \subseteq Nat /\ R # {}
  BY <1>1
<1> HIDE DEF R
<1>3. PICK m \in R : \A n \in R : m <= n
  BY <1>2, LeastNumber
<1>4. PICK w \in Left : \A x \in Left : rank[w] <= rank[x]
  BY <1>3 DEF R
<1>5. PICK e \in Edges(g) : /\ g.targets[e] = w /\ Accounts(g, d, e)
                            /\ rank[g.sources[e]] < rank[w]
  BY <1>1, <1>4 DEF Ranks
<1>6. g.sources[e] \in Nodes /\ d[g.sources[e]] < MaxInt
  BY <1>5, EdgeFacts DEF Accounts
<1>7. rank[g.sources[e]] \in Nat /\ rank[w] \in Nat
  BY <1>1, <1>4, <1>6
<1>8. g.sources[e] \in P
  BY <1>4, <1>5, <1>6, <1>7
<1> QED BY <1>4, <1>5, <1>8

LEMMA DistanceFacts ==
  ASSUME NEW g, IsGraph(g), Bounded(g), NEW s \in Nodes
  PROVE  /\ Distances(g, s) \in [Nodes -> 0 .. MaxInt]
         /\ Distances(g, s)[s] = 0
         /\ \A e \in Edges(g) : Distances(g, s)[g.sources[e]] < MaxInt =>
              /\ Distances(g, s)[g.targets[e]] <= Distances(g, s)[g.sources[e]] + g.costs[e]
              /\ Distances(g, s)[g.targets[e]] < MaxInt
BY DistancesCertified DEF Certified, Lengths

LEMMA Triangle ==
  ASSUME NEW g, IsGraph(g), Bounded(g), NEW u \in Nodes, NEW w \in Nodes, NEW x \in Nodes,
         Distances(g, u)[w] < MaxInt, Distances(g, w)[x] < MaxInt
  PROVE  /\ Distances(g, u)[x] <= Distances(g, u)[w] + Distances(g, w)[x]
         /\ Distances(g, u)[x] < MaxInt
<1> DEFINE du == Distances(g, u)
           dw == Distances(g, w)
           P == {v \in Nodes : du[v] < MaxInt /\ du[v] <= du[w] + dw[v]}
<1>1. /\ du \in [Nodes -> 0 .. MaxInt]
      /\ \A f \in Edges(g) : du[g.sources[f]] < MaxInt =>
           du[g.targets[f]] <= du[g.sources[f]] + g.costs[f] /\ du[g.targets[f]] < MaxInt
  BY DistanceFacts
<1>2. dw \in [Nodes -> 0 .. MaxInt] /\ dw[w] = 0 /\ Certified(g, w, dw)
  BY DistanceFacts, DistancesCertified
<1>3. w \in P
  BY <1>1, <1>2
<1>4. ASSUME NEW f \in Edges(g), Accounts(g, dw, f), g.sources[f] \in P PROVE g.targets[f] \in P
  <2>1. g.sources[f] \in Nodes /\ g.targets[f] \in Nodes /\ g.costs[f] \in Nat
    BY EdgeFacts
  <2> HIDE DEF du, dw
  <2>2. dw[g.targets[f]] = dw[g.sources[f]] + g.costs[f]
    BY <1>4 DEF Accounts
  <2>3. du[g.sources[f]] <= du[w] + dw[g.sources[f]] /\ du[g.sources[f]] < MaxInt
    BY <1>4
  <2>4. du[g.targets[f]] <= du[g.sources[f]] + g.costs[f] /\ du[g.targets[f]] < MaxInt
    BY <1>1, <2>3
  <2> QED BY <1>1, <1>2, <2>1, <2>2, <2>3, <2>4
<1> HIDE DEF P
<1>5. \A v \in Nodes : dw[v] < MaxInt => v \in P
  BY <1>2, <1>3, <1>4, AlongShortestPaths
<1>6. x \in P
  BY <1>5
<1> QED BY <1>6 DEF P

LEMMA OverAnEdge ==
  ASSUME NEW g, IsGraph(g), Bounded(g), NEW e \in Edges(g), NEW x \in Nodes,
         Distances(g, g.targets[e])[x] < MaxInt
  PROVE  /\ Distances(g, g.sources[e])[x] <= g.costs[e] + Distances(g, g.targets[e])[x]
         /\ Distances(g, g.sources[e])[x] < MaxInt
<1> DEFINE u == g.sources[e]
           w == g.targets[e]
           a == Distances(g, u)[w]
           b == Distances(g, w)[x]
           c == Distances(g, u)[x]
<1>1. u \in Nodes /\ w \in Nodes /\ g.costs[e] \in Nat
  BY EdgeFacts
<1>2. a \in Nat /\ b \in Nat /\ c \in Nat /\ Distances(g, u)[u] = 0
  BY <1>1, DistanceFacts
<1>3. a <= 0 + g.costs[e] /\ a < MaxInt
  BY <1>1, <1>2, DistanceFacts, SizeAssumption
<1>4. c <= a + b /\ c < MaxInt
  BY <1>1, <1>3, Triangle
<1> HIDE DEF a, b, c
<1>5. c <= g.costs[e] + b
  BY <1>1, <1>2, <1>3, <1>4
<1> QED BY <1>4, <1>5 DEF a, b, c

BothWays(g) ==
  \A e \in Edges(g) : \E f \in Edges(g) :
    /\ g.sources[f] = g.targets[e] /\ g.targets[f] = g.sources[e] /\ g.costs[f] = g.costs[e]

LEMMA NotFurtherBack ==
  ASSUME NEW g, IsGraph(g), Bounded(g), BothWays(g), NEW s \in Nodes, NEW t \in Nodes,
         Distances(g, s)[t] < MaxInt
  PROVE  Distances(g, t)[s] <= Distances(g, s)[t] /\ Distances(g, t)[s] < MaxInt
<1> DEFINE d == Distances(g, s)
           P == {v \in Nodes : Distances(g, v)[s] <= d[v] /\ Distances(g, v)[s] < MaxInt}
<1>1. d \in [Nodes -> 0 .. MaxInt] /\ d[s] = 0 /\ Certified(g, s, d)
  BY DistanceFacts, DistancesCertified
<1>2. s \in P
  BY <1>1, SizeAssumption
<1>3. ASSUME NEW e \in Edges(g), Accounts(g, d, e), g.sources[e] \in P PROVE g.targets[e] \in P
  <2> DEFINE y == g.sources[e]
             v == g.targets[e]
  <2>1. y \in Nodes /\ v \in Nodes /\ g.costs[e] \in Nat
    BY EdgeFacts
  <2>2. PICK f \in Edges(g) : g.sources[f] = v /\ g.targets[f] = y /\ g.costs[f] = g.costs[e]
    BY DEF BothWays
  <2>3. Distances(g, y)[s] <= d[y] /\ Distances(g, y)[s] < MaxInt
    BY <1>3
  <2>4. Distances(g, v)[s] <= g.costs[e] + Distances(g, y)[s] /\ Distances(g, v)[s] < MaxInt
    BY <2>2, <2>3, OverAnEdge
  <2>5. d[v] = d[y] + g.costs[e]
    BY <1>3 DEF Accounts
  <2>6. Distances(g, y)[s] \in Nat /\ Distances(g, v)[s] \in Nat /\ d[y] \in Nat /\ d[v] \in Nat
    BY <1>1, <2>1, DistanceFacts
  <2> HIDE DEF d, y, v
  <2>7. Distances(g, v)[s] <= d[v]
    BY <2>1, <2>3, <2>4, <2>5, <2>6
  <2> QED BY <2>1, <2>4, <2>7 DEF v
<1> HIDE DEF P, d
<1>4. \A v \in Nodes : d[v] < MaxInt => v \in P
  BY <1>1, <1>2, <1>3, AlongShortestPaths
<1>5. t \in P
  BY <1>4 DEF d
<1> QED BY <1>5 DEF P, d

LEMMA SameBothWays ==
  ASSUME NEW g, IsGraph(g), Bounded(g), BothWays(g), NEW s \in Nodes, NEW t \in Nodes
  PROVE  Distances(g, s)[t] = Distances(g, t)[s]
<1> DEFINE a == Distances(g, s)[t]
           b == Distances(g, t)[s]
<1>1. a \in 0 .. MaxInt /\ b \in 0 .. MaxInt
  BY DistanceFacts
<1>2. a < MaxInt => b <= a
  BY NotFurtherBack
<1>3. b < MaxInt => a <= b
  BY NotFurtherBack
<1> HIDE DEF a, b
<1>4. a = b
  BY <1>1, <1>2, <1>3, SizeAssumption
<1> QED BY <1>4 DEF a, b
-----------------------------------------------------------------------------
\* A search that may not enter every node finds no shorter way than one that
\* may: all it settles lies at the end of a way.
LEMMA NotNearerWithin ==
  ASSUME NEW g, IsGraph(g), Bounded(g), NEW s \in Nodes, NEW A, A \subseteq Nodes, NEW v \in Nodes
  PROVE  /\ DistancesWithin(g, s, A)[v] \in Nat
         /\ Distances(g, s)[v] <= DistancesWithin(g, s, A)[v]
<1> USE SizeAssumption
<1>1. PICK T : TurnsWithin(g, s, A, T)
  BY TurnsWithinExist
<1>2. /\ T \in [Nat -> SUBSET Pairs] /\ T[0] = {<<s, 0>>}
      /\ \A n \in Nat : T[n + 1] = Settle(g, A, T[n])
      /\ DistancesWithin(g, s, A) =
           [u \in Nodes |-> LeastOf({p[2] : p \in {q \in T[N - 1] : q[1] = u}}, MaxInt)]
  BY <1>1 DEF TurnsWithin
<1> DEFINE d == Distances(g, s)
           K == {n \in Nat : \A p \in T[n] : d[p[1]] <= p[2]}
<1>3. /\ d \in [Nodes -> 0 .. MaxInt] /\ d[s] = 0
      /\ \A e \in Edges(g) : d[g.sources[e]] < MaxInt =>
           d[g.targets[e]] <= d[g.sources[e]] + g.costs[e]
  BY DistanceFacts
<1> HIDE DEF d
<1>4. 0 \in K
  BY <1>2, <1>3
<1>5. ASSUME NEW n \in Nat, n \in K PROVE n + 1 \in K
  <2>1. T[n] \subseteq Pairs /\ T[n + 1] = Settle(g, A, T[n])
    BY <1>2
  <2>2. SettlesRight(g, A, T[n]) /\ EntersRight(g, A, T[n])
    BY <2>1, SettleWithin, EnteredWithin
  <2>3. ASSUME NEW r \in Entered(g, A, T[n]) PROVE d[r[1]] <= r[2]
    <3>1. PICK p \in T[n], e \in Edges(g) : /\ g.sources[e] = p[1]
                                            /\ r = <<g.targets[e], p[2] + g.costs[e]>>
      BY <2>2 DEF EntersRight
    <3>2. /\ p[1] \in Nodes /\ p[2] \in Nat /\ d[p[1]] <= p[2]
          /\ g.targets[e] \in Nodes /\ g.costs[e] \in Nat
      BY <1>5, <2>1, EdgeFacts DEF Pairs
    <3>3. d[p[1]] \in 0 .. MaxInt /\ d[g.targets[e]] \in 0 .. MaxInt
      BY <1>3, <3>2
    <3>4. d[g.targets[e]] <= p[2] + g.costs[e]
      <4>1. CASE d[p[1]] < MaxInt
        <5>1. d[g.targets[e]] <= d[p[1]] + g.costs[e]
          BY <1>3, <3>1, <4>1
        <5> QED BY <3>2, <3>3, <5>1
      <4>2. CASE ~(d[p[1]] < MaxInt)
        BY <3>2, <3>3, <4>2
      <4> QED BY <4>1, <4>2
    <3> QED BY <3>1, <3>4
  <2>4. \A p \in T[n + 1] : p \in T[n] \/ p \in Entered(g, A, T[n])
    BY <2>1, <2>2 DEF SettlesRight
  <2> QED BY <1>5, <2>3, <2>4
<1> HIDE DEF K
<1>6. N - 1 \in K
  <2>1. Nat \subseteq K
    BY <1>4, <1>5, Induction
  <2> QED BY <2>1
<1> DEFINE lengths == {p[2] : p \in {q \in T[N - 1] : q[1] = v}}
<1>7. /\ lengths \subseteq Nat /\ \A x \in lengths : d[v] <= x
      /\ DistancesWithin(g, s, A)[v] = LeastOf(lengths, MaxInt)
  <2>1. T[N - 1] \subseteq Pairs
    BY <1>2
  <2> QED BY <1>2, <1>6, <2>1 DEF K, Pairs
<1> HIDE DEF lengths
<1>8. CASE lengths = {}
  BY <1>3, <1>7, <1>8 DEF LeastOf, d
<1>9. CASE lengths # {}
  BY <1>7, <1>9, LeastFacts DEF d
<1> QED BY <1>8, <1>9

LEMMA WithinTyped ==
  ASSUME NEW g, IsGraph(g), NEW s \in Nodes, NEW A, A \subseteq Nodes
  PROVE  DistancesWithin(g, s, A) \in [Nodes -> Nat]
<1> USE SizeAssumption
<1>1. PICK T : TurnsWithin(g, s, A, T)
  BY TurnsWithinExist
<1>2. /\ T[N - 1] \subseteq Pairs
      /\ DistancesWithin(g, s, A) =
           [u \in Nodes |-> LeastOf({p[2] : p \in {q \in T[N - 1] : q[1] = u}}, MaxInt)]
  BY <1>1 DEF TurnsWithin
<1>3. ASSUME NEW u \in Nodes PROVE LeastOf({p[2] : p \in {q \in T[N - 1] : q[1] = u}}, MaxInt) \in Nat
  <2> DEFINE lengths == {p[2] : p \in {q \in T[N - 1] : q[1] = u}}
  <2>1. lengths \subseteq Nat
    BY <1>2 DEF Pairs
  <2> HIDE DEF lengths
  <2>2. CASE lengths = {}
    BY <2>2 DEF LeastOf, lengths
  <2>3. CASE lengths # {}
    BY <2>1, <2>3, LeastFacts DEF lengths
  <2> QED BY <2>2, <2>3
<1> QED BY <1>2, <1>3

\* No distance it finds is more than the dearest ways add up to.
LEMMA WithinBound ==
  ASSUME NEW g, IsGraph(g), NEW C \in Nat, \A e \in Edges(g) : g.costs[e] <= C,
         NEW s \in Nodes, NEW A, A \subseteq Nodes, NEW v \in Nodes,
         DistancesWithin(g, s, A)[v] # MaxInt
  PROVE  DistancesWithin(g, s, A)[v] <= (N - 1) * C
<1> USE SizeAssumption
<1>1. PICK T : TurnsWithin(g, s, A, T)
  BY TurnsWithinExist
<1>2. /\ T \in [Nat -> SUBSET Pairs] /\ T[0] = {<<s, 0>>}
      /\ \A n \in Nat : T[n + 1] = Settle(g, A, T[n])
      /\ DistancesWithin(g, s, A) =
           [u \in Nodes |-> LeastOf({p[2] : p \in {q \in T[N - 1] : q[1] = u}}, MaxInt)]
  BY <1>1 DEF TurnsWithin
<1> DEFINE K == {n \in Nat : \A p \in T[n] : p[2] <= n * C}
<1>3. 0 \in K
  BY <1>2
<1>4. ASSUME NEW n \in Nat, n \in K PROVE n + 1 \in K
  <2> DEFINE most == n * C
             next == (n + 1) * C
  <2>1. most \in Nat /\ next = most + C /\ \A p \in T[n] : p[2] <= most
    BY <1>4
  <2> HIDE DEF most, next
  <2>2. T[n] \subseteq Pairs /\ T[n + 1] = Settle(g, A, T[n])
    BY <1>2
  <2>3. SettlesRight(g, A, T[n]) /\ EntersRight(g, A, T[n])
    BY <2>2, SettleWithin, EnteredWithin
  <2>4. ASSUME NEW r \in Entered(g, A, T[n]) PROVE r[2] <= next
    <3>1. PICK p \in T[n], e \in Edges(g) : r = <<g.targets[e], p[2] + g.costs[e]>>
      BY <2>3 DEF EntersRight
    <3>2. p[2] \in Nat /\ p[2] <= most /\ g.costs[e] \in Nat /\ g.costs[e] <= C
      BY <2>1, <2>2, EdgeFacts DEF Pairs
    <3> QED BY <2>1, <3>1, <3>2
  <2>5. \A p \in T[n] : p[2] \in Nat /\ p[2] <= next
    BY <2>1, <2>2 DEF Pairs
  <2>6. \A p \in T[n + 1] : p \in T[n] \/ p \in Entered(g, A, T[n])
    BY <2>2, <2>3 DEF SettlesRight
  <2>7. \A p \in T[n + 1] : p[2] <= next
    BY <2>4, <2>5, <2>6
  <2> QED BY <2>7 DEF next
<1> HIDE DEF K
<1>5. N - 1 \in K
  <2>1. Nat \subseteq K
    BY <1>3, <1>4, Induction
  <2> QED BY <2>1
<1> DEFINE lengths == {p[2] : p \in {q \in T[N - 1] : q[1] = v}}
           most == (N - 1) * C
<1>6. /\ lengths \subseteq Nat /\ \A x \in lengths : x <= most
      /\ DistancesWithin(g, s, A)[v] = LeastOf(lengths, MaxInt)
  <2>1. T[N - 1] \subseteq Pairs /\ \A p \in T[N - 1] : p[2] <= most
    BY <1>2, <1>5 DEF K
  <2> HIDE DEF most
  <2> QED BY <1>2, <2>1 DEF Pairs
<1> HIDE DEF lengths, most
<1>7. lengths # {}
  BY <1>6 DEF LeastOf
<1>8. DistancesWithin(g, s, A)[v] <= most
  BY <1>6, <1>7, LeastFacts
<1> QED BY <1>8 DEF most
=============================================================================

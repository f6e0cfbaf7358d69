-------------------------- MODULE PathQueryProofs --------------------------
(***************************************************************************)
(* Path queries for every network whose edges go both ways and whose costs *)
(* stay within int, on tables that answer as TablesFit says: the walks     *)
(* stay on shortest paths, and where only one path is shortest they meet   *)
(* on it and are joined to it.  Then what the tables are worth: where the  *)
(* lines of the sweep meet the shortest paths of the network, distance     *)
(* queries are exact, and they fit the walks.                              *)
(***************************************************************************)
EXTENDS PathQuery, TransitNodesProofs

Far(g, u, v) == Distances(g, u)[v]

\* The networks spoken of.
Searchable(g) == IsGraph(g) /\ HasCells(g) /\ Bounded(g) /\ BothWays(g)

LEMMA FarFacts ==
  ASSUME NEW g, Searchable(g), NEW u \in Nodes, NEW v \in Nodes, NEW w \in Nodes
  PROVE  /\ Far(g, u, v) \in 0 .. MaxInt /\ Far(g, u, u) = 0
         /\ Far(g, u, v) = Far(g, v, u)
         /\ Far(g, u, v) < MaxInt /\ Far(g, v, w) < MaxInt =>
              Far(g, u, w) <= Far(g, u, v) + Far(g, v, w) /\ Far(g, u, w) < MaxInt
BY DistanceFacts, SameBothWays, Triangle DEF Far, Searchable

LEMMA FarTyped ==
  ASSUME NEW g, Searchable(g), NEW u \in Nodes, NEW v \in Nodes
  PROVE  Far(g, u, v) \in Nat /\ Far(g, u, v) = Far(g, v, u)
BY FarFacts

\* An edge from u to w that brings one nearer to the goal by its cost.
Nearer(g, u, w, goal) ==
  \E e \in OutEdges(g, u) :
    g.targets[e] = w /\ Far(g, u, goal) = g.costs[e] + Far(g, w, goal)

\* An edge and its opposite.
LEMMA Opposite ==
  ASSUME NEW g, Searchable(g), NEW u \in Nodes, NEW e \in OutEdges(g, u)
  PROVE  /\ g.targets[e] \in Nodes /\ g.costs[e] \in Nat /\ e \in Edges(g)
         /\ \E f \in OutEdges(g, g.targets[e]) : g.targets[f] = u /\ g.costs[f] = g.costs[e]
         /\ \A x \in Nodes : Far(g, g.targets[e], x) < MaxInt =>
              /\ Far(g, u, x) <= g.costs[e] + Far(g, g.targets[e], x)
              /\ Far(g, u, x) < MaxInt
<1>1. /\ e \in Edges(g) /\ g.sources[e] = u
      /\ g.targets[e] \in Nodes /\ g.costs[e] \in Nat
  BY OutEdgeFacts DEF Searchable
<1>2. PICK f \in Edges(g) : /\ g.sources[f] = g.targets[e] /\ g.targets[f] = g.sources[e]
                            /\ g.costs[f] = g.costs[e]
  BY <1>1 DEF Searchable, BothWays
<1>3. f \in OutEdges(g, g.targets[e])
  BY <1>1, <1>2 DEF Searchable, IsGraph
<1>4. \A x \in Nodes : Far(g, g.targets[e], x) < MaxInt =>
              /\ Far(g, u, x) <= g.costs[e] + Far(g, g.targets[e], x)
              /\ Far(g, u, x) < MaxInt
  BY <1>1, OverAnEdge DEF Searchable, Far
<1> QED BY <1>1, <1>2, <1>3, <1>4

\* Whatever can be reached is reached over a first edge.
LEMMA FirstStep ==
  ASSUME NEW g, Searchable(g), NEW u \in Nodes, NEW x \in Nodes, u # x, Far(g, u, x) < MaxInt
  PROVE  \E w \in Nodes : Nearer(g, u, w, x) /\ Far(g, w, x) < MaxInt
<1> DEFINE d == Distances(g, u)
           P == {v \in Nodes : v = u \/ \E w \in Nodes : Nearer(g, u, w, v) /\ Far(g, w, v) < MaxInt}
<1>1. Certified(g, u, d) /\ d \in [Nodes -> 0 .. MaxInt] /\ d[u] = 0 /\ u \in P
  BY DistanceFacts, DistancesCertified DEF Searchable
<1>2. ASSUME NEW e \in Edges(g), Accounts(g, d, e), g.sources[e] \in P PROVE g.targets[e] \in P
  <2>1. /\ g.sources[e] \in Nodes /\ g.targets[e] \in Nodes /\ g.costs[e] \in Nat
        /\ e \in OutEdges(g, g.sources[e])
    BY EdgeFacts DEF Searchable, IsGraph
  <2> DEFINE v == g.sources[e]
             t == g.targets[e]
  <2>2. Far(g, u, v) < MaxInt /\ Far(g, u, t) = Far(g, u, v) + g.costs[e]
    BY <1>2 DEF Accounts, Far
  <2>3. CASE v = u
    <3>1. Far(g, u, u) = 0 /\ Far(g, t, t) = 0
      BY <2>1, FarFacts
    <3>2. Far(g, u, t) = g.costs[e] + Far(g, t, t)
      BY <2>1, <2>2, <2>3, <3>1
    <3>3. Nearer(g, u, t, t) /\ Far(g, t, t) < MaxInt
      BY <2>1, <2>3, <3>1, <3>2, SizeAssumption DEF Nearer
    <3> QED BY <2>1, <3>3
  <2>4. CASE v # u
    <3>1. PICK w \in Nodes : Nearer(g, u, w, v) /\ Far(g, w, v) < MaxInt
      BY <1>2, <2>4
    <3>2. PICK f \in OutEdges(g, u) : g.targets[f] = w /\ Far(g, u, v) = g.costs[f] + Far(g, w, v)
      BY <3>1 DEF Nearer
    <3>3. Far(g, w, t) <= Far(g, w, v) + g.costs[e] /\ Far(g, w, t) < MaxInt
      BY <2>1, <3>1, DistanceFacts DEF Searchable, Far
    <3>4. g.costs[f] \in Nat /\ Far(g, u, t) <= g.costs[f] + Far(g, w, t)
      BY <2>1, <3>2, <3>3, Opposite
    <3>5. /\ Far(g, u, t) \in Nat /\ Far(g, u, v) \in Nat
          /\ Far(g, w, t) \in Nat /\ Far(g, w, v) \in Nat
      BY <2>1, FarFacts
    <3>6. Far(g, u, t) = g.costs[f] + Far(g, w, t)
      BY <2>1, <2>2, <3>2, <3>3, <3>4, <3>5
    <3>7. Nearer(g, u, w, t)
      BY <3>2, <3>6 DEF Nearer
    <3> QED BY <2>1, <3>3, <3>7
  <2> QED BY <2>3, <2>4
<1> HIDE DEF P
<1>3. \A v \in Nodes : d[v] < MaxInt => v \in P
  BY <1>1, <1>2, AlongShortestPaths DEF Searchable
<1>4. x \in P
  BY <1>3 DEF Far
<1> QED BY <1>4 DEF P

-----------------------------------------------------------------------------
\* u lies on a shortest path from s to t.
OnTheWay(g, u, s, t) == Far(g, s, u) + Far(g, u, t) = Far(g, s, t)

LEMMA WayFacts ==
  ASSUME NEW g, Searchable(g), NEW s \in Nodes, NEW t \in Nodes, NEW u \in Nodes,
         Far(g, s, t) < MaxInt, OnTheWay(g, u, s, t)
  PROVE  OnTheWay(g, u, t, s) /\ Far(g, s, u) < MaxInt /\ Far(g, u, t) < MaxInt
<1>1. /\ Far(g, s, u) \in Nat /\ Far(g, u, t) \in Nat
      /\ Far(g, t, u) = Far(g, u, t) /\ Far(g, u, s) = Far(g, s, u) /\ Far(g, t, s) = Far(g, s, t)
  BY FarFacts
<1> QED BY <1>1, SizeAssumption DEF OnTheWay

\* A step nearer to t leads along the way, and seen from t it is a step nearer to s.
LEMMA NearerStays ==
  ASSUME NEW g, Searchable(g), NEW s \in Nodes, NEW t \in Nodes, NEW u \in Nodes, NEW w,
         Far(g, s, t) < MaxInt, OnTheWay(g, u, s, t), Nearer(g, u, w, t)
  PROVE  w \in Nodes /\ OnTheWay(g, w, s, t) /\ Nearer(g, w, u, s)
<1>1. PICK e \in OutEdges(g, u) : g.targets[e] = w /\ Far(g, u, t) = g.costs[e] + Far(g, w, t)
  BY DEF Nearer
<1>2. w \in Nodes /\ g.costs[e] \in Nat
  BY <1>1, Opposite
<1>3. PICK f \in OutEdges(g, w) : g.targets[f] = u /\ g.costs[f] = g.costs[e]
  BY <1>1, Opposite
<1> DEFINE c == g.costs[e]
           su == Far(g, s, u)
           ut == Far(g, u, t)
           wt == Far(g, w, t)
           sw == Far(g, s, w)
           st == Far(g, s, t)
<1>4. su \in Nat /\ ut \in Nat /\ wt \in Nat /\ sw \in Nat /\ st \in Nat
  BY <1>2, FarFacts
<1>5. Far(g, w, s) = sw /\ Far(g, u, s) = su
  BY <1>2, FarFacts
<1>6. su + ut = st /\ ut = c + wt /\ st < MaxInt
  BY <1>1 DEF OnTheWay
<1>7. c \in Nat /\ MaxInt \in Nat
  BY <1>2, SizeAssumption
<1>8. su < MaxInt => sw <= c + su /\ sw < MaxInt
  <2>1. Far(g, g.targets[f], s) < MaxInt =>
          Far(g, w, s) <= g.costs[f] + Far(g, g.targets[f], s) /\ Far(g, w, s) < MaxInt
    BY <1>2, Opposite
  <2> QED BY <1>3, <1>5, <2>1
<1>9. sw < MaxInt /\ wt < MaxInt => st <= sw + wt
  BY <1>2, FarFacts
<1> HIDE DEF c, su, ut, wt, sw, st
<1>10. sw = c + su /\ sw + wt = st
  BY <1>4, <1>6, <1>7, <1>8, <1>9
<1>11. OnTheWay(g, w, s, t)
  BY <1>10 DEF OnTheWay, sw, wt, st
<1>12. Far(g, w, s) = g.costs[f] + Far(g, u, s)
  BY <1>3, <1>5, <1>10 DEF c
<1>13. Nearer(g, w, u, s)
  BY <1>3, <1>12 DEF Nearer
<1> QED BY <1>2, <1>11, <1>13

\* No edge is free.
AllCost(g) == \A e \in Edges(g) : g.costs[e] > 0

\* Of the shortest paths from s to t there is only one, and it has no edges of
\* cost 0: no node on it has two steps nearer to t or to s.
OnlyWay(g, s, t) ==
  /\ AllCost(g)
  /\ \A u, w, x \in Nodes :
       OnTheWay(g, u, s, t) =>
         /\ Nearer(g, u, w, t) /\ Nearer(g, u, x, t) => w = x
         /\ Nearer(g, u, w, s) /\ Nearer(g, u, x, s) => w = x

LEMMA OnlyWayBack ==
  ASSUME NEW g, Searchable(g), NEW s \in Nodes, NEW t \in Nodes,
         Far(g, s, t) < MaxInt, OnlyWay(g, s, t)
  PROVE  OnlyWay(g, t, s)
<1>1. Far(g, t, s) < MaxInt
  BY FarFacts
<1>2. \A u \in Nodes : OnTheWay(g, u, t, s) => OnTheWay(g, u, s, t)
  BY <1>1, WayFacts
<1> QED BY <1>2 DEF OnlyWay

\* From s first comes x, then y, then t.
InLine(g, x, y, s, t) == Far(g, s, x) + Far(g, x, y) + Far(g, y, t) = Far(g, s, t)

LEMMA InLineFacts ==
  ASSUME NEW g, Searchable(g), NEW s \in Nodes, NEW t \in Nodes, NEW x \in Nodes, NEW y \in Nodes,
         Far(g, s, t) < MaxInt, InLine(g, x, y, s, t)
  PROVE  /\ InLine(g, y, x, t, s)
         /\ OnTheWay(g, x, s, t)
         /\ Far(g, x, t) = Far(g, x, y) + Far(g, y, t)
         /\ Far(g, s, y) = Far(g, s, x) + Far(g, x, y)
<1> DEFINE sx == Far(g, s, x)
           xy == Far(g, x, y)
           yt == Far(g, y, t)
           st == Far(g, s, t)
           sy == Far(g, s, y)
           xt == Far(g, x, t)
<1>1. sx \in Nat /\ xy \in Nat /\ yt \in Nat /\ st \in Nat /\ sy \in Nat /\ xt \in Nat
  BY FarFacts
<1>2. sx + xy + yt = st /\ st < MaxInt /\ MaxInt \in Nat
  BY SizeAssumption DEF InLine
<1>3. xy < MaxInt /\ yt < MaxInt => xt <= xy + yt /\ xt < MaxInt
  BY FarFacts
<1>4. sx < MaxInt /\ xy < MaxInt => sy <= sx + xy /\ sy < MaxInt
  BY FarFacts
<1>5. sx < MaxInt /\ xt < MaxInt => st <= sx + xt
  BY FarFacts
<1>6. sy < MaxInt /\ yt < MaxInt => st <= sy + yt
  BY FarFacts
<1>7. Far(g, x, s) = sx /\ Far(g, y, x) = xy /\ Far(g, t, y) = yt /\ Far(g, t, s) = st
  BY FarFacts
<1> HIDE DEF sx, xy, yt, st, sy, xt
<1>8. sx < MaxInt /\ xy < MaxInt /\ yt < MaxInt
  BY <1>1, <1>2
<1>9. xt = xy + yt /\ sy = sx + xy /\ yt + xy + sx = st /\ sx + xt = st
  BY <1>1, <1>2, <1>3, <1>4, <1>5, <1>6, <1>8
<1> QED BY <1>7, <1>9 DEF sx, xy, yt, st, sy, xt, InLine, OnTheWay

\* Where there is only one way, a step nearer to t is a step towards any node
\* that lies between.
LEMMA StepTowards ==
  ASSUME NEW g, Searchable(g), NEW s \in Nodes, NEW t \in Nodes, NEW x \in Nodes, NEW y \in Nodes,
         Far(g, s, t) < MaxInt, OnlyWay(g, s, t), InLine(g, x, y, s, t), x # y,
         NEW w \in Nodes, Nearer(g, x, w, t)
  PROVE  InLine(g, w, y, s, t)
<1>1. /\ OnTheWay(g, x, s, t)
      /\ Far(g, x, t) = Far(g, x, y) + Far(g, y, t)
  BY InLineFacts
<1>2. Far(g, x, y) < MaxInt /\ Far(g, y, t) < MaxInt /\ Far(g, x, t) < MaxInt
  <2>1. Far(g, x, y) \in Nat /\ Far(g, y, t) \in Nat /\ Far(g, x, t) \in Nat
    BY FarFacts
  <2>2. Far(g, x, t) < MaxInt
    BY <1>1, WayFacts
  <2> QED BY <1>1, <2>1, <2>2, SizeAssumption
<1>3. PICK v \in Nodes : Nearer(g, x, v, y) /\ Far(g, v, y) < MaxInt
  BY <1>2, FirstStep
<1>4. PICK e \in OutEdges(g, x) : g.targets[e] = v /\ Far(g, x, y) = g.costs[e] + Far(g, v, y)
  BY <1>3 DEF Nearer
<1> DEFINE c == g.costs[e]
           vy == Far(g, v, y)
           yt == Far(g, y, t)
           vt == Far(g, v, t)
           xt == Far(g, x, t)
<1>5. vy \in Nat /\ yt \in Nat /\ vt \in Nat /\ xt \in Nat
  BY FarFacts
<1>6. c \in Nat
  BY Opposite
<1>7. vt <= vy + yt /\ vt < MaxInt
  BY <1>2, <1>3, FarFacts
<1>8. xt <= c + vt
  BY <1>4, <1>7, Opposite
<1>9. xt = c + vy + yt
  BY <1>1, <1>4
<1> HIDE DEF c, vy, yt, vt, xt
<1>10. xt = c + vt /\ vt = vy + yt
  BY <1>5, <1>6, <1>7, <1>8, <1>9
<1>11. Nearer(g, x, v, t)
  BY <1>4, <1>10 DEF Nearer, c, vt, xt
<1>12. w = v
  BY <1>1, <1>11 DEF OnlyWay
<1>13. Far(g, s, v) + vt = Far(g, s, t)
  BY <1>1, <1>11, NearerStays DEF OnTheWay, vt
<1>14. Far(g, s, v) \in Nat
  BY FarFacts
<1>15. Far(g, s, v) + vy + yt = Far(g, s, t)
  BY <1>5, <1>10, <1>13, <1>14
<1> QED BY <1>12, <1>15 DEF InLine, vy, yt

-----------------------------------------------------------------------------
(***************************************************************************)
(* The walks.                                                              *)
(***************************************************************************)
\* TablesFit, of a network and its tables.
AnswersFit(g, tn) ==
  \A s, t \in Nodes :
    /\ TQ!QueryAlg(g, tn, s, t) \in Far(g, s, t) .. MaxInt - 1
    /\ ~LessThanNGridCellsAway(g, s, t, 4) => TQ!QueryAlg(g, tn, s, t) = Far(g, s, t)

\* A walk from start: it stays on the way to the goal, each step brings it
\* nearer, and what is left of the length is the distance still to go.
WalkInv(g, walk, start, goal) ==
  /\ walk.path \in Seq(Nodes) /\ Len(walk.path) > 0 /\ walk.path[1] = start
  /\ walk.rem = Far(g, Last(walk.path), goal)
  /\ \A k \in 1 .. Len(walk.path) : OnTheWay(g, walk.path[k], start, goal)
  /\ \A k \in 1 .. Len(walk.path) - 1 : Nearer(g, walk.path[k], walk.path[k + 1], goal)

\* u is the last but one node of a walk.
CameFrom(walk, u) == Len(walk.path) > 1 /\ walk.path[Len(walk.path) - 1] = u

\* The other nodes of a walk are nearer to its start than its end.
Behind(g, walk, start) ==
  \A k \in 1 .. Len(walk.path) :
    \/ walk.path[k] = Last(walk.path)
    \/ Far(g, start, walk.path[k]) < Far(g, start, Last(walk.path))

LEMMA LastFacts ==
  ASSUME NEW p \in Seq(Nodes), Len(p) > 0
  PROVE  Last(p) \in Nodes /\ Last(p) = p[Len(p)] /\ Len(p) \in 1 .. Len(p)
BY DEF Last

LEMMA WalkStarts ==
  ASSUME NEW g, Searchable(g), NEW s \in Nodes, NEW t \in Nodes
  PROVE  LET walk == [path |-> <<s>>, rem |-> Far(g, s, t)]
         IN WalkInv(g, walk, s, t) /\ Behind(g, walk, s) /\ Last(walk.path) = s
<1> DEFINE p == <<s>>
<1>1. p \in Seq(Nodes) /\ Len(p) = 1 /\ p[1] = s /\ Last(p) = s
  BY DEF Last
<1>2. OnTheWay(g, s, s, t)
  BY FarFacts DEF OnTheWay
<1> HIDE DEF p
<1>3. \A k \in 1 .. Len(p) : k = 1
  BY <1>1
<1>4. \A k \in 1 .. Len(p) - 1 : FALSE
  BY <1>1
<1> QED BY <1>1, <1>2, <1>3, <1>4 DEF WalkInv, Behind, p

\* What appending a node that is nearer to the goal does to a walk.
LEMMA WalkGoesOn ==
  ASSUME NEW g, Searchable(g), NEW s \in Nodes, NEW t \in Nodes, Far(g, s, t) < MaxInt,
         NEW walk, WalkInv(g, walk, s, t), NEW w \in Nodes, Nearer(g, Last(walk.path), w, t),
         NEW next, next.path = Append(walk.path, w), next.rem = Far(g, w, t)
  PROVE  /\ WalkInv(g, next, s, t)
         /\ Last(next.path) = w
         /\ CameFrom(next, Last(walk.path))
         /\ AllCost(g) /\ Behind(g, walk, s) => Behind(g, next, s)
<1> DEFINE p == walk.path
           q == next.path
           n == Len(p)
           u == Last(p)
<1>1. p \in Seq(Nodes) /\ n > 0 /\ p[1] = s /\ n \in Nat
  BY DEF WalkInv
<1>2. /\ q \in Seq(Nodes) /\ Len(q) = n + 1 /\ q[n + 1] = w
      /\ \A k \in 1 .. n : q[k] = p[k]
  BY <1>1
<1>3. u \in Nodes /\ u = p[n]
  BY <1>1, LastFacts
<1>4. /\ \A k \in 1 .. n : OnTheWay(g, p[k], s, t)
      /\ \A k \in 1 .. n - 1 : Nearer(g, p[k], p[k + 1], t)
      /\ Nearer(g, u, w, t)
  BY DEF WalkInv
<1>5. Last(q) = w
  BY <1>2 DEF Last
<1>6. \A k \in 1 .. n : p[k] \in Nodes
  BY <1>1
<1>7. next.rem = Far(g, w, t)
  OBVIOUS
<1> HIDE DEF p, q, n, u
<1>8. OnTheWay(g, u, s, t)
  BY <1>1, <1>3, <1>4
<1>9. OnTheWay(g, w, s, t) /\ Nearer(g, w, u, s)
  BY <1>3, <1>4, <1>8, NearerStays
<1>10. \A k \in 1 .. Len(q) : OnTheWay(g, q[k], s, t)
  <2> TAKE k \in 1 .. Len(q)
  <2>1. k \in 1 .. n \/ k = n + 1
    BY <1>1, <1>2
  <2> QED BY <2>1, <1>2, <1>4, <1>9
<1>11. \A k \in 1 .. Len(q) - 1 : Nearer(g, q[k], q[k + 1], t)
  <2> TAKE k \in 1 .. Len(q) - 1
  <2>1. k \in 1 .. n /\ (k = n \/ (k \in 1 .. n - 1 /\ k + 1 \in 1 .. n))
    BY <1>1, <1>2
  <2>2. CASE k = n
    BY <2>1, <2>2, <1>2, <1>3, <1>4
  <2>3. CASE k \in 1 .. n - 1 /\ k + 1 \in 1 .. n
    BY <2>1, <2>3, <1>2, <1>4
  <2> QED BY <2>1, <2>2, <2>3
<1>12. q[1] = s /\ Len(q) > 0
  BY <1>1, <1>2
<1>13. WalkInv(g, next, s, t)
  BY <1>2, <1>5, <1>7, <1>10, <1>11, <1>12 DEF WalkInv, q
<1>14. Len(q) > 1 /\ q[Len(q) - 1] = u
  BY <1>1, <1>2, <1>3
<1>15. ASSUME AllCost(g), Behind(g, walk, s) PROVE Behind(g, next, s)
  <2>1. PICK e \in OutEdges(g, w) : g.targets[e] = u /\ Far(g, w, s) = g.costs[e] + Far(g, u, s)
    BY <1>9 DEF Nearer
  <2>2. g.costs[e] \in Nat /\ e \in Edges(g)
    BY Opposite
  <2>3. g.costs[e] > 0
    BY <1>15, <2>2 DEF AllCost
  <2>4. /\ Far(g, w, s) = Far(g, s, w) /\ Far(g, u, s) = Far(g, s, u)
        /\ Far(g, s, u) \in Nat /\ Far(g, s, w) \in Nat
    BY <1>3, FarTyped
  <2>5. Far(g, s, u) < Far(g, s, w)
    BY <2>1, <2>2, <2>3, <2>4
  <2>6. \A k \in 1 .. n : Far(g, s, p[k]) < Far(g, s, w)
    <3> TAKE k \in 1 .. n
    <3>1. p[k] = u \/ Far(g, s, p[k]) < Far(g, s, u)
      BY <1>15 DEF Behind, p, n, u
    <3>2. p[k] \in Nodes
      BY <1>6
    <3>3. Far(g, s, p[k]) \in Nat
      BY <3>2, FarTyped
    <3> QED BY <3>1, <3>3, <2>4, <2>5
  <2>7. \A k \in 1 .. Len(q) : q[k] = w \/ Far(g, s, q[k]) < Far(g, s, w)
    <3> TAKE k \in 1 .. Len(q)
    <3>1. k \in 1 .. n \/ k = n + 1
      BY <1>1, <1>2
    <3> QED BY <3>1, <1>2, <2>6
  <2> QED BY <2>7, <1>5 DEF Behind, q
<1> QED BY <1>5, <1>13, <1>14, <1>15 DEF q, p, u, CameFrom

\* Advance either leaves a walk where it is or takes it a step nearer: the
\* answer it looks at is never less than a distance, so where it makes up the
\* rest with an edge it is one.
LEMMA AdvanceFacts ==
  ASSUME Searchable(graph), AnswersFit(graph, tnData),
         NEW s \in Nodes, NEW t \in Nodes, Far(graph, s, t) < MaxInt,
         NEW walk, WalkInv(graph, walk, s, t)
  PROVE  \/ Advance(walk, t) = walk
         \/ \E w \in Nodes : /\ Nearer(graph, Last(walk.path), w, t)
                             /\ Advance(walk, t).path = Append(walk.path, w)
                             /\ Advance(walk, t).rem = Far(graph, w, t)
<1> DEFINE u == Last(walk.path)
           fits == {i \in OutEdges(graph, u) :
                      QueryAlg(graph.targets[i], t) + graph.costs[i] = walk.rem}
           i == LeastOf(fits, NoNode)
           w == graph.targets[i]
           answer == QueryAlg(w, t)
<1> SUFFICES ASSUME ~(LessThanNGridCellsAway(graph, u, t, 4) \/ fits = {})
             PROVE  \E x \in Nodes : /\ Nearer(graph, u, x, t)
                                     /\ Advance(walk, t).path = Append(walk.path, x)
                                     /\ Advance(walk, t).rem = Far(graph, x, t)
  BY DEF Advance
<1>1. u \in Nodes /\ walk.rem = Far(graph, u, t) /\ OnTheWay(graph, u, s, t)
  BY LastFacts DEF WalkInv
<1>2. \A e \in OutEdges(graph, u) : e \in Nat
  <2>1. graph.offsets[u] \in Nat /\ graph.offsets[u + 1] \in Nat
    BY <1>1, OffsetFacts DEF Searchable
  <2> QED BY <2>1 DEF OutEdges
<1>3. i \in fits
  <2>1. fits \subseteq Nat /\ fits # {}
    BY <1>2
  <2> HIDE DEF fits
  <2> QED BY <2>1, LeastFacts
<1>4. i \in OutEdges(graph, u) /\ answer + graph.costs[i] = walk.rem
  BY <1>3
<1>5. Advance(walk, t) = [path |-> Append(walk.path, w), rem |-> walk.rem - graph.costs[i]]
  BY DEF Advance
<1> HIDE DEF fits, i
<1>6. w \in Nodes /\ graph.costs[i] \in Nat
  BY <1>1, <1>4, Opposite
<1>7. answer \in Far(graph, w, t) .. MaxInt - 1
  BY <1>6 DEF AnswersFit, QueryAlg
<1>8. Far(graph, w, t) \in Nat /\ Far(graph, u, t) \in Nat
  BY <1>1, <1>6, FarFacts
<1>9. Far(graph, w, t) < MaxInt /\ answer \in Int /\ Far(graph, w, t) <= answer
  BY <1>7, <1>8, SizeAssumption
<1>10. Far(graph, u, t) <= graph.costs[i] + Far(graph, w, t)
  BY <1>1, <1>4, <1>9, Opposite
<1> HIDE DEF answer
<1>11. /\ Far(graph, u, t) = graph.costs[i] + Far(graph, w, t)
       /\ walk.rem - graph.costs[i] = Far(graph, w, t)
  BY <1>1, <1>4, <1>6, <1>8, <1>9, <1>10
<1>12. Nearer(graph, u, w, t)
  BY <1>4, <1>11 DEF Nearer
<1> QED BY <1>5, <1>6, <1>11, <1>12

LEMMA AdvanceKeeps ==
  ASSUME Searchable(graph), AnswersFit(graph, tnData),
         NEW s \in Nodes, NEW t \in Nodes, Far(graph, s, t) < MaxInt,
         NEW walk, WalkInv(graph, walk, s, t), NEW next, next = Advance(walk, t)
  PROVE  /\ WalkInv(graph, next, s, t)
         /\ AllCost(graph) /\ Behind(graph, walk, s) =>
              Behind(graph, next, s)
         /\ \/ next = walk
            \/ /\ Nearer(graph, Last(walk.path), Last(next.path), t)
               /\ CameFrom(next, Last(walk.path))
<1>1. CASE next = walk
  BY <1>1
<1>2. CASE next # walk
  <2>1. PICK w \in Nodes : /\ Nearer(graph, Last(walk.path), w, t)
                           /\ next.path = Append(walk.path, w)
                           /\ next.rem = Far(graph, w, t)
    BY <1>2, AdvanceFacts
  <2>2. /\ WalkInv(graph, next, s, t) /\ Last(next.path) = w
        /\ CameFrom(next, Last(walk.path))
        /\ AllCost(graph) /\ Behind(graph, walk, s) =>
             Behind(graph, next, s)
    <3>1. WalkInv(graph, next, s, t)
      BY <2>1, WalkGoesOn
    <3>2. Last(next.path) = w
      <4>1. walk.path \in Seq(Nodes)
        BY DEF WalkInv
      <4> QED BY <2>1, <4>1 DEF Last
    <3>3. CameFrom(next, Last(walk.path))
      BY <2>1, WalkGoesOn
    <3>4. AllCost(graph) /\ Behind(graph, walk, s) => Behind(graph, next, s)
      BY <2>1, WalkGoesOn
    <3> QED BY <3>1, <3>2, <3>3, <3>4
  <2> QED BY <2>1, <2>2
<1> QED BY <1>1, <1>2

-----------------------------------------------------------------------------
(***************************************************************************)
(* How the walks meet.                                                     *)
(***************************************************************************)
\* The walks end on the same node, or have just stepped past each other.
Joined(f, b) == Last(b.path) = Last(f.path) \/ CameFrom(f, Last(b.path))

\* The way that path_query returns.
Route(F, B) == Front(F) \o Reverse(B)

\* The nodes of F but the last, then those of B backwards.
IsRoute(p, F, B) ==
  /\ Len(p) = Len(F) - 1 + Len(B)
  /\ \A k \in 1 .. Len(F) - 1 : p[k] = F[k]
  /\ \A k \in Len(F) .. Len(p) : p[k] = B[Len(B) + Len(F) - k]

LEMMA RouteFacts ==
  ASSUME NEW F \in Seq(Nodes), NEW B \in Seq(Nodes), Len(F) > 0, Len(B) > 0,
         NEW p, p = Route(F, B)
  PROVE  IsRoute(p, F, B)
<1> DEFINE n == Len(F)
           m == Len(B)
           front == Front(F)
           back == Reverse(B)
<1>1. n \in Nat /\ m \in Nat /\ n > 0 /\ m > 0
  OBVIOUS
<1>2. /\ front \in Seq(Nodes) /\ Len(front) = n - 1
      /\ \A k \in 1 .. n - 1 : front[k] = F[k]
  <2>1. front = SubSeq(F, 1, n - 1) /\ 1 \in Nat /\ n - 1 \in Nat
    BY <1>1 DEF Front
  <2>4. \A k \in 1 .. n - 1 : F[k] \in Nodes
    BY <1>1
  <2> HIDE DEF front, n
  <2>2. front \in Seq(Nodes) /\ Len(front) = n - 1
    BY <1>1, <2>1, <2>4, SubSeqProperties
  <2>3. \A k \in 1 .. n - 1 : front[k] = F[k]
    BY <1>1, <2>1, <2>4, SubSeqProperties
  <2> QED BY <2>2, <2>3
<1>3. back \in Seq(Nodes) /\ Len(back) = m /\ \A k \in 1 .. m : back[k] = B[(m - k) + 1]
  <2>1. \A k \in 1 .. m : (m - k) + 1 \in 1 .. m
    BY <1>1
  <2>2. \A k \in 1 .. m : B[(m - k) + 1] \in Nodes
    BY <2>1
  <2>3. back = [k \in 1 .. m |-> B[(m - k) + 1]]
    BY DEF Reverse
  <2> HIDE DEF back, m
  <2>4. back \in [1 .. m -> Nodes]
    BY <2>2, <2>3
  <2> QED BY <1>1, <2>3, <2>4
<1>4. p = front \o back
  BY DEF Route
<1> HIDE DEF n, m, front, back
<1>5. /\ Len(p) = n - 1 + m
      /\ \A k \in 1 .. n - 1 : p[k] = front[k]
      /\ \A k \in n .. Len(p) : p[k] = back[k - (n - 1)]
  <2>1. Len(p) = n - 1 + m
    BY <1>1, <1>2, <1>3, <1>4, ConcatProperties
  <2>2. \A k \in 1 .. n - 1 : p[k] = front[k]
    BY <1>1, <1>2, <1>3, <1>4, ConcatProperties
  <2>3. \A k \in n .. Len(p) : p[k] = back[k - (n - 1)]
    <3> TAKE k \in n .. Len(p)
    <3>1. k \in 1 .. Len(front) + Len(back) /\ ~(k <= Len(front))
      BY <1>1, <1>2, <1>3, <2>1
    <3>2. p[k] = back[k - Len(front)]
      BY <1>2, <1>3, <1>4, <3>1, ConcatProperties
    <3> QED BY <1>2, <3>2
  <2> QED BY <2>1, <2>2, <2>3
<1>6. \A k \in n .. Len(p) : p[k] = B[m + n - k]
  <2> TAKE k \in n .. Len(p)
  <2>1. k - (n - 1) \in 1 .. m /\ (m - (k - (n - 1))) + 1 = m + n - k
    BY <1>1, <1>5
  <2> QED BY <2>1, <1>3, <1>5
<1> QED BY <1>2, <1>5, <1>6 DEF n, m, IsRoute

\* Walks that are joined make a shortest path.
LEMMA JoinedIsShortest ==
  ASSUME NEW g, Searchable(g), NEW s \in Nodes, NEW t \in Nodes, Far(g, s, t) < MaxInt,
         NEW f, WalkInv(g, f, s, t), NEW b, WalkInv(g, b, t, s), Joined(f, b),
         NEW p, p = Route(f.path, b.path)
  PROVE  /\ p[1] = s /\ Last(p) = t
         /\ \A k \in 1 .. Len(p) - 1 : p[k] = p[k + 1] \/ Nearer(g, p[k], p[k + 1], t)
<1> DEFINE F == f.path
           B == b.path
           n == Len(F)
           m == Len(B)
<1>1. /\ F \in Seq(Nodes) /\ n \in Nat /\ n > 0 /\ F[1] = s
      /\ B \in Seq(Nodes) /\ m \in Nat /\ m > 0 /\ B[1] = t
  BY DEF WalkInv
<1>2. /\ Len(p) = n - 1 + m
      /\ \A k \in 1 .. n - 1 : p[k] = F[k]
      /\ \A k \in n .. Len(p) : p[k] = B[m + n - k]
  <2>1. p = Route(F, B)
    OBVIOUS
  <2> HIDE DEF F, B
  <2>2. F \in Seq(Nodes) /\ B \in Seq(Nodes) /\ Len(F) > 0 /\ Len(B) > 0
    BY <1>1
  <2>3. IsRoute(p, F, B)
    BY <2>1, <2>2, RouteFacts
  <2> QED BY <2>3 DEF IsRoute
<1>3. \A k \in 1 .. n - 1 : Nearer(g, F[k], F[k + 1], t)
  BY DEF WalkInv
<1>4. \A j \in 1 .. m - 1 : Nearer(g, B[j + 1], B[j], t)
  <2> TAKE j \in 1 .. m - 1
  <2>1. Nearer(g, B[j], B[j + 1], s)
    BY DEF WalkInv
  <2>2. j \in 1 .. m
    BY <1>1
  <2>3. B[j] \in Nodes /\ OnTheWay(g, B[j], t, s)
    BY <1>1, <2>2 DEF WalkInv
  <2>4. Far(g, t, s) < MaxInt
    BY FarTyped
  <2> HIDE DEF B, m
  <2> QED BY <2>1, <2>3, <2>4, NearerStays
<1>5. B[m] = F[n] \/ (n > 1 /\ B[m] = F[n - 1])
  BY DEF Joined, CameFrom, Last
<1> HIDE DEF F, B, n, m
<1>6. p[1] = s
  <2>1. CASE n = 1
    BY <1>1, <1>2, <1>5, <2>1
  <2>2. CASE n > 1
    <3>1. 1 \in 1 .. n - 1
      BY <1>1, <2>2
    <3> QED BY <1>1, <1>2, <3>1
  <2> QED BY <1>1, <2>1, <2>2
<1>7. Last(p) = t
  <2>1. Len(p) \in n .. Len(p) /\ m + n - Len(p) = 1
    BY <1>1, <1>2
  <2>2. p[Len(p)] = B[1]
    BY <1>2, <2>1
  <2> QED BY <1>1, <2>2 DEF Last
<1>8. ASSUME NEW k \in 1 .. Len(p) - 1 PROVE p[k] = p[k + 1] \/ Nearer(g, p[k], p[k + 1], t)
  <2>1. CASE k < n - 1
    <3>1. k \in 1 .. n - 1 /\ k + 1 \in 1 .. n - 1
      BY <1>1, <2>1
    <3> QED BY <1>2, <1>3, <3>1
  <2>2. CASE k = n - 1
    <3>1. k \in 1 .. n - 1 /\ k + 1 \in n .. Len(p) /\ m + n - (k + 1) = m /\ k + 1 = n
      <4>1. Len(p) = n - 1 + m /\ k \in Int
        BY <1>2
      <4>2. n \in Nat /\ n > 0 /\ m \in Nat /\ m > 0
        BY <1>1
      <4> QED BY <2>2, <4>1, <4>2
    <3>2. p[k] = F[k] /\ p[k + 1] = B[m]
      BY <1>2, <3>1
    <3>3. CASE B[m] = F[n]
      BY <1>3, <3>1, <3>2, <3>3
    <3>4. CASE n > 1 /\ B[m] = F[n - 1]
      BY <2>2, <3>2, <3>4
    <3> QED BY <1>5, <3>3, <3>4
  <2>3. CASE k > n - 1
    <3> DEFINE j == m + n - (k + 1)
    <3>1. /\ k \in n .. Len(p) /\ k + 1 \in n .. Len(p)
          /\ j \in 1 .. m - 1 /\ m + n - k = j + 1
      BY <1>1, <1>2, <2>3
    <3>2. p[k] = B[j + 1] /\ p[k + 1] = B[j]
      BY <1>2, <3>1
    <3> HIDE DEF j
    <3> QED BY <1>4, <3>1, <3>2
  <2> QED BY <1>1, <1>2, <2>1, <2>2, <2>3
<1> QED BY <1>6, <1>7, <1>8

\* After a turn the ends are still one behind the other, or have changed places.
LEMMA TurnKeepsLine ==
  ASSUME NEW g, Searchable(g), NEW s \in Nodes, NEW t \in Nodes, Far(g, s, t) < MaxInt,
         OnlyWay(g, s, t), NEW x \in Nodes, NEW y \in Nodes, x # y, InLine(g, x, y, s, t),
         NEW v \in Nodes, v = x \/ Nearer(g, x, v, t),
         NEW w \in Nodes, w = y \/ Nearer(g, y, w, s)
  PROVE  InLine(g, v, w, s, t) \/ (v = y /\ w \in {x, y})
<1>1. InLine(g, v, y, s, t)
  BY StepTowards
<1>2. Far(g, t, s) < MaxInt /\ OnlyWay(g, t, s)
  BY FarTyped, OnlyWayBack
<1>3. CASE v # y
  <2>1. InLine(g, y, v, t, s)
    BY <1>1, InLineFacts
  <2>2. InLine(g, w, v, t, s)
    BY <1>2, <1>3, <2>1, StepTowards
  <2> QED BY <1>2, <2>2, InLineFacts
<1>4. CASE v = y /\ w # y
  <2>1. OnTheWay(g, x, s, t)
    BY InLineFacts
  <2>2. Nearer(g, x, y, t)
    BY <1>4
  <2>3. OnTheWay(g, y, s, t) /\ Nearer(g, y, x, s)
    BY <2>1, <2>2, NearerStays
  <2>4. Nearer(g, y, w, s)
    BY <1>4
  <2>5. w = x
    BY <2>3, <2>4 DEF OnlyWay
  <2> QED BY <1>4, <2>5
<1> QED BY <1>3, <1>4

\* Ends that are one behind the other can only meet in one node.
LEMMA MeetAtTheEnds ==
  ASSUME NEW g, Searchable(g), NEW s \in Nodes, NEW t \in Nodes, Far(g, s, t) < MaxInt,
         NEW f, WalkInv(g, f, s, t), Behind(g, f, s),
         NEW b, WalkInv(g, b, t, s), Behind(g, b, t),
         InLine(g, Last(f.path), Last(b.path), s, t), Meet(f, b)
  PROVE  Last(b.path) = Last(f.path)
<1> DEFINE x == Last(f.path)
           y == Last(b.path)
<1>1. f.path \in Seq(Nodes) /\ b.path \in Seq(Nodes)
  BY DEF WalkInv
<1>2. x \in Nodes /\ y \in Nodes
  BY LastFacts DEF WalkInv
<1>3. (\E k \in 1 .. Len(f.path) : y = f.path[k]) \/ (\E k \in 1 .. Len(b.path) : x = b.path[k])
  BY <1>1 DEF Meet, Range
<1>4. y = x \/ Far(g, s, y) < Far(g, s, x) \/ Far(g, t, x) < Far(g, t, y)
  BY <1>3 DEF Behind
<1> HIDE DEF x, y
<1>5. InLine(g, x, y, s, t)
  BY DEF x, y
<1>6. /\ Far(g, s, y) = Far(g, s, x) + Far(g, x, y)
      /\ Far(g, x, t) = Far(g, x, y) + Far(g, y, t)
  BY <1>2, <1>5, InLineFacts
<1>7. Far(g, s, y) \in Nat /\ Far(g, s, x) \in Nat /\ Far(g, x, y) \in Nat
  BY <1>2, FarTyped
<1>8. Far(g, x, t) \in Nat /\ Far(g, y, t) \in Nat /\ Far(g, t, x) = Far(g, x, t) /\ Far(g, t, y) = Far(g, y, t)
  BY <1>2, FarTyped
<1>9. y = x
  BY <1>4, <1>6, <1>7, <1>8
<1> QED BY <1>9 DEF x, y

-----------------------------------------------------------------------------
(***************************************************************************)
(* The invariant of a path query: WalksInv holds whatever the network is,  *)
(* MeetInv is about a pair of nodes with only one way between them.        *)
(***************************************************************************)
WalksInv ==
  /\ graph \in Networks
  /\ query \in {"none", "walk", "done"}
  /\ query # "none" =>
       /\ phase = "done" /\ AnswersFit(graph, tnData)
       /\ source \in Nodes /\ target \in Nodes /\ Far(graph, source, target) < MaxInt
       /\ WalkInv(graph, fwd, source, target) /\ WalkInv(graph, bwd, target, source)
  /\ Walking => pathLength = Far(graph, source, target)
  /\ Found => /\ pathLength = Far(graph, source, target)
              /\ shopa = Route(fwd.path, bwd.path)

MeetInv ==
  query # "none" /\ OnlyWay(graph, source, target) =>
    /\ Behind(graph, fwd, source) /\ Behind(graph, bwd, target)
    /\ Walking => /\ Last(fwd.path) # Last(bwd.path)
                  /\ InLine(graph, Last(fwd.path), Last(bwd.path), source, target)
    /\ Found => Joined(fwd, bwd)

\* What is asked of the networks.
AllSearchable == \A g \in Networks : Bounded(g) /\ BothWays(g)

LEMMA NetworkSearchable ==
  ASSUME AllSearchable, graph \in Networks
  PROVE  Searchable(graph)
BY NetworksAssumption DEF AllSearchable, Searchable

\* Nodes more than eight cells apart are more than four apart, and are not the same.
LEMMA FarApart ==
  ASSUME NEW g, Searchable(g), NEW s \in Nodes, NEW t \in Nodes,
         ~LessThanNGridCellsAway(g, s, t, 8)
  PROVE  ~LessThanNGridCellsAway(g, s, t, 4) /\ s # t
<1>1. /\ g.cellX[s] \in Int /\ g.cellX[t] \in Int /\ GridSize \in Int
      /\ g.cellY[s] \in Int /\ g.cellY[t] \in Int
  BY GridSizeAssumption DEF Searchable, HasCells, Columns
<1> QED BY <1>1 DEF LessThanNGridCellsAway, Apart

\* A request starts with walks of one node each, a length apart.
LEMMA AskPathKeeps ==
  ASSUME AllSearchable, WalksInv, TablesFit, AskPath
  PROVE  WalksInv' /\ MeetInv'
<1>1. /\ phase = "done" /\ query = "none" /\ query' = "walk"
      /\ source' \in Nodes /\ target' \in Nodes
      /\ ~LessThanNGridCellsAway(graph, source', target', 8)
      /\ pathLength' = QueryAlg(source', target')
      /\ fwd' = [path |-> <<source'>>, rem |-> pathLength']
      /\ bwd' = [path |-> <<target'>>, rem |-> pathLength']
      /\ graph' = graph /\ phase' = phase /\ tnData' = tnData
  BY DEF AskPath, vars
<1>2. graph \in Networks /\ Searchable(graph)
  BY NetworkSearchable DEF WalksInv
<1>3. AnswersFit(graph, tnData)
  BY <1>1 DEF TablesFit, AnswersFit, QueryAlg, TrueDistance, Far
<1> DEFINE s == source'
           t == target'
           d == pathLength'
<1>4. ~LessThanNGridCellsAway(graph, s, t, 4) /\ s # t
  BY <1>1, <1>2, FarApart
<1>5. d = Far(graph, s, t) /\ d \in Far(graph, s, t) .. MaxInt - 1
  BY <1>1, <1>3, <1>4 DEF AnswersFit, QueryAlg
<1>6. Far(graph, s, t) < MaxInt /\ Far(graph, s, t) = Far(graph, t, s)
  <2>1. Far(graph, s, t) \in Nat /\ Far(graph, s, t) = Far(graph, t, s)
    BY <1>1, <1>2, FarTyped
  <2> QED BY <1>5, <2>1, SizeAssumption
<1>7. WalkInv(graph, fwd', s, t) /\ Behind(graph, fwd', s) /\ Last(fwd'.path) = s
  <2>1. fwd' = [path |-> <<s>>, rem |-> Far(graph, s, t)]
    BY <1>1, <1>5
  <2> QED BY <1>1, <1>2, <2>1, WalkStarts
<1>8. WalkInv(graph, bwd', t, s) /\ Behind(graph, bwd', t) /\ Last(bwd'.path) = t
  <2>1. bwd' = [path |-> <<t>>, rem |-> Far(graph, t, s)]
    BY <1>1, <1>5, <1>6
  <2> QED BY <1>1, <1>2, <2>1, WalkStarts
<1>9. WalksInv'
  BY <1>1, <1>2, <1>3, <1>5, <1>6, <1>7, <1>8 DEF WalksInv, Walking, Found
<1>10. InLine(graph, s, t, s, t)
  <2>1. /\ Far(graph, s, s) = 0 /\ Far(graph, t, t) = 0
        /\ Far(graph, s, t) \in Nat
    BY <1>1, <1>2, FarFacts
  <2> QED BY <2>1 DEF InLine
<1>11. MeetInv'
  BY <1>1, <1>4, <1>7, <1>8, <1>10 DEF MeetInv, Walking, Found
<1> QED BY <1>9, <1>11

LEMMA TurnKeeps ==
  ASSUME AllSearchable, WalksInv, Turn
  PROVE  WalksInv'
<1>1. /\ query = "walk" /\ fwd' = Advance(fwd, target) /\ bwd' = Advance(bwd, source)
      /\ graph' = graph /\ phase' = phase /\ tnData' = tnData
      /\ source' = source /\ target' = target
  BY DEF Turn, vars
<1>2. /\ query' \in {"walk", "done"}
      /\ pathLength' \in {-1, pathLength}
      /\ query' = "walk" => pathLength' = pathLength
      /\ query' = "done" => shopa' = Route(fwd'.path, bwd'.path)
  BY <1>1 DEF Turn, Route
<1>3. /\ graph \in Networks /\ Searchable(graph)
      /\ phase = "done" /\ AnswersFit(graph, tnData)
      /\ source \in Nodes /\ target \in Nodes /\ Far(graph, source, target) < MaxInt
      /\ WalkInv(graph, fwd, source, target) /\ WalkInv(graph, bwd, target, source)
      /\ pathLength = Far(graph, source, target)
  BY <1>1, NetworkSearchable DEF WalksInv, Walking
<1>4. Far(graph, target, source) < MaxInt
  BY <1>3, FarTyped
<1>5. WalkInv(graph, fwd', source, target)
  BY <1>1, <1>3, AdvanceKeeps
<1>6. WalkInv(graph, bwd', target, source)
  BY <1>1, <1>3, <1>4, AdvanceKeeps
<1> QED BY <1>1, <1>2, <1>3, <1>5, <1>6 DEF WalksInv, Walking, Found

LEMMA TurnMeets ==
  ASSUME AllSearchable, WalksInv, MeetInv, Turn
  PROVE  MeetInv'
<1> SUFFICES ASSUME OnlyWay(graph', source', target') PROVE MeetInv'
  BY DEF MeetInv
<1>1. /\ query = "walk" /\ fwd' = Advance(fwd, target) /\ bwd' = Advance(bwd, source)
      /\ graph' = graph /\ source' = source /\ target' = target
  BY DEF Turn, vars
<1>2. /\ query' \in {"walk", "done"}
      /\ query' = "walk" => ~Meet(fwd', bwd')
      /\ query' = "done" /\ pathLength' # -1 => Meet(fwd', bwd')
  BY <1>1 DEF Turn
<1>3. /\ Searchable(graph) /\ AnswersFit(graph, tnData)
      /\ source \in Nodes /\ target \in Nodes /\ Far(graph, source, target) < MaxInt
      /\ WalkInv(graph, fwd, source, target) /\ WalkInv(graph, bwd, target, source)
  BY <1>1, NetworkSearchable DEF WalksInv, Walking
<1>4. Far(graph, target, source) < MaxInt
  BY <1>3, FarTyped
<1>5. OnlyWay(graph, source, target) /\ AllCost(graph)
  BY <1>1 DEF OnlyWay
<1> DEFINE x == Last(fwd.path)
           y == Last(bwd.path)
           v == Last(fwd'.path)
           w == Last(bwd'.path)
<1>6. /\ Behind(graph, fwd, source) /\ Behind(graph, bwd, target)
      /\ x # y /\ InLine(graph, x, y, source, target)
  BY <1>1, <1>5 DEF MeetInv, Walking
<1>7. /\ WalkInv(graph, fwd', source, target) /\ Behind(graph, fwd', source)
      /\ fwd' = fwd \/ (Nearer(graph, x, v, target) /\ CameFrom(fwd', x))
  BY <1>1, <1>3, <1>5, <1>6, AdvanceKeeps
<1>8. /\ WalkInv(graph, bwd', target, source) /\ Behind(graph, bwd', target)
      /\ bwd' = bwd \/ (Nearer(graph, y, w, source) /\ CameFrom(bwd', y))
  BY <1>1, <1>3, <1>4, <1>5, <1>6, AdvanceKeeps
<1>9. x \in Nodes /\ y \in Nodes /\ v \in Nodes /\ w \in Nodes
  BY <1>3, <1>7, <1>8, LastFacts DEF WalkInv
<1>10. v = x \/ (Nearer(graph, x, v, target) /\ CameFrom(fwd', x))
  BY <1>7
<1>11. w = y \/ Nearer(graph, y, w, source)
  BY <1>8
<1>12. InLine(graph, v, w, source, target) \/ (v = y /\ w \in {x, y})
  BY <1>3, <1>5, <1>6, <1>9, <1>10, <1>11, TurnKeepsLine
<1>13. ASSUME Meet(fwd', bwd') PROVE Joined(fwd', bwd')
  <2>1. CASE InLine(graph, v, w, source, target)
    BY <1>3, <1>7, <1>8, <1>13, <2>1, MeetAtTheEnds DEF Joined
  <2>2. CASE v = y /\ w = y
    BY <2>2 DEF Joined
  <2>3. CASE v = y /\ w = x
    BY <1>6, <1>10, <2>3 DEF Joined
  <2> QED BY <1>12, <2>1, <2>2, <2>3
<1>14. ASSUME ~Meet(fwd', bwd') PROVE v # w /\ InLine(graph, v, w, source, target)
  <2>1. fwd'.path \in Seq(Nodes) /\ Len(fwd'.path) > 0 /\ v = fwd'.path[Len(fwd'.path)]
    BY <1>7 DEF WalkInv, Last
  <2>2. v \in Range(fwd'.path)
    BY <2>1 DEF Range
  <2>3. w # v
    BY <1>14, <2>2 DEF Meet
  <2>4. CASE v = y /\ w = x
    <3>1. CameFrom(fwd', x)
      BY <1>6, <1>10, <2>4
    <3>2. x \in Range(fwd'.path)
      BY <2>1, <3>1 DEF CameFrom, Range
    <3> QED BY <1>14, <2>4, <3>2 DEF Meet
  <2> QED BY <1>12, <2>3, <2>4
<1> HIDE DEF x, y, v, w
<1> QED BY <1>1, <1>2, <1>7, <1>8, <1>13, <1>14 DEF MeetInv, Walking, Found, v, w

\* Whatever else happens while a request is made leaves everything as it is.
LEMMA OtherSteps ==
  ASSUME AllSearchable, WalksInv, MeetInv, Preprocess \/ UNCHANGED <<vars, request>>
  PROVE  WalksInv' /\ MeetInv'
<1>1. graph' = graph /\ UNCHANGED request
  BY DEF Preprocess, Next, FindEdgeBuckets, SweepNode, SweepDone, FindTransitNode,
         AssignDistances, Collect, Done, vars
<1>2. phase = "done" => phase' = phase /\ tnData' = tnData
  BY DEF Preprocess, Next, FindEdgeBuckets, SweepNode, SweepDone, FindTransitNode,
         AssignDistances, Collect, Done, vars
<1>3. /\ query' = query /\ source' = source /\ target' = target /\ fwd' = fwd /\ bwd' = bwd
      /\ pathLength' = pathLength /\ shopa' = shopa
  BY <1>1 DEF request
<1>4. WalksInv'
  <2>1. CASE query = "none"
    BY <1>1, <1>3, <2>1 DEF WalksInv, Walking, Found
  <2>2. CASE query # "none"
    <3>1. phase' = phase /\ tnData' = tnData
      BY <1>2, <2>2 DEF WalksInv
    <3> QED BY <1>1, <1>3, <3>1 DEF WalksInv, Walking, Found
  <2> QED BY <2>1, <2>2
<1>5. MeetInv'
  BY <1>1, <1>3 DEF MeetInv, Walking, Found
<1> QED BY <1>4, <1>5

\* On networks whose edges go both ways and whose costs stay within int, and
\* on tables that answer as they should, a path query keeps its invariant.
THEOREM WalksStayOnTheWay ==
  ASSUME AllSearchable
  PROVE  PathSpec /\ []TablesFit => [](WalksInv /\ MeetInv)
<1>1. PathInit => WalksInv /\ MeetInv
  BY DEF PathInit, Init, WalksInv, MeetInv, Walking, Found
<1>2. WalksInv /\ MeetInv /\ TablesFit /\ [PathNext]_<<vars, request>> => (WalksInv /\ MeetInv)'
  <2> SUFFICES ASSUME WalksInv, MeetInv, TablesFit, [PathNext]_<<vars, request>>
               PROVE  WalksInv' /\ MeetInv'
    OBVIOUS
  <2>1. CASE AskPath
    BY <2>1, AskPathKeeps
  <2>2. CASE Turn
    BY <2>2, TurnKeeps, TurnMeets
  <2>3. CASE Preprocess \/ UNCHANGED <<vars, request>>
    BY <2>3, OtherSteps
  <2> QED BY <2>1, <2>2, <2>3 DEF PathNext
<1> QED BY <1>1, <1>2, PTL DEF PathSpec

\* What is left of the length is, for both walks at every turn, the distance of
\* their end from where they go: path_query never leaves the shortest paths,
\* although an edge is taken on an answer that may be too large
\* (TransitNodesQuery.cpp:64-93).
THEOREM RestIsDistance ==
  ASSUME AllSearchable
  PROVE  PathSpec /\ []TablesFit => []RemainingIsDistance
<1>1. WalksInv => RemainingIsDistance
  BY DEF WalksInv, RemainingIsDistance, Walking, WalkInv, TrueDistance, Far
<1> QED BY <1>1, WalksStayOnTheWay, PTL

\* What is returned with a length is a shortest path (TransitNodesQuery.cpp:
\* 95-113) whenever the walks meet at their ends, and they do so between nodes
\* that have only one shortest way in a network without free edges.
THEOREM ReturnsShortest ==
  ASSUME AllSearchable
  PROVE  PathSpec /\ []TablesFit =>
           []((Found => Joined(fwd, bwd) \/ OnlyWay(graph, source, target)) => PathIsShortest)
<1>1. ASSUME WalksInv, MeetInv, Found, Joined(fwd, bwd) \/ OnlyWay(graph, source, target)
      PROVE  PathIsShortest
  <2>1. /\ Searchable(graph) /\ source \in Nodes /\ target \in Nodes
        /\ Far(graph, source, target) < MaxInt
        /\ WalkInv(graph, fwd, source, target) /\ WalkInv(graph, bwd, target, source)
        /\ pathLength = Far(graph, source, target) /\ shopa = Route(fwd.path, bwd.path)
    BY <1>1, NetworkSearchable DEF WalksInv, Found
  <2>2. Joined(fwd, bwd)
    BY <1>1 DEF MeetInv, Found
  <2>3. /\ shopa[1] = source /\ Last(shopa) = target
        /\ \A k \in 1 .. Len(shopa) - 1 :
             shopa[k] = shopa[k + 1] \/ Nearer(graph, shopa[k], shopa[k + 1], target)
    BY <2>1, <2>2, JoinedIsShortest
  <2> QED BY <2>1, <2>3 DEF PathIsShortest, Nearer, TrueDistance, Far
<1>2. WalksInv /\ MeetInv =>
        ((Found => Joined(fwd, bwd) \/ OnlyWay(graph, source, target)) => PathIsShortest)
  BY <1>1 DEF PathIsShortest
<1> QED BY <1>2, WalksStayOnTheWay, PTL

-----------------------------------------------------------------------------
(***************************************************************************)
(* What the tables are worth.                                              *)
(***************************************************************************)
\* One water of moderate extent: any two nodes are connected, three distances can be
\* added, and none is as large as what stands for "unknown".
OneWater(g) ==
  /\ Bounded(g) /\ BothWays(g)
  /\ \A u, v \in Nodes : /\ Far(g, u, v) < Unset
                         /\ 3 * Far(g, u, v) <= MaxInt
  /\ Unset < MaxInt /\ Unset \in Nat

LEMMA TablesTrue ==
  ASSUME TypeInv, TablesInv, phase = "done", LocalDistancesExact, LocalDistancesComplete,
         OneWater(graph), NEW v \in Nodes, NEW k \in TQ!CellTns(graph, tnData, v)
  PROVE  /\ k \in transitNodeTmp /\ k \in Nodes
         /\ tnData.local[<<v, k>>] = Far(graph, k, v)
         /\ \A u \in Nodes : tnData.between[k][u] = Far(graph, k, u)
<1> DEFINE needed == {x \in Nodes \X transitNodeTmp : HasTransitNode(x[1], x[2])}
<1>1. tnData = [ cells   |-> transitNodesOfCells,
                 local   |-> [x \in needed |-> IF x \in DOMAIN localTransitNodes
                                               THEN localTransitNodes[x] ELSE Unset],
                 between |-> [t \in transitNodeTmp |-> Distances(graph, t)] ]
  BY DEF TablesInv, Collected
<1>2. <<graph.cellX[v], graph.cellY[v], k>> \in transitNodesOfCells
  <2>1. PICK c \in transitNodesOfCells : c[1] = graph.cellX[v] /\ c[2] = graph.cellY[v] /\ c[3] = k
    BY <1>1 DEF TQ!CellTns
  <2> QED BY <2>1 DEF TablesInv
<1>3. k \in transitNodeTmp
  BY <1>2 DEF TablesInv
<1>4. k \in Nodes
  BY <1>3 DEF TypeInv, Results
<1>5. <<v, k>> \in needed
  BY <1>2, <1>3 DEF HasTransitNode
<1> HIDE DEF needed
<1>6. tnData.local[<<v, k>>] = IF <<v, k>> \in DOMAIN localTransitNodes
                               THEN localTransitNodes[<<v, k>>] ELSE Unset
  BY <1>1, <1>5
<1>7. <<v, k>> \in DOMAIN tnData.local
  BY <1>1, <1>5
<1>8. \A u \in Nodes : tnData.between[k][u] = Far(graph, k, u)
  BY <1>1, <1>3 DEF Far
<1>9. CASE <<v, k>> \in DOMAIN localTransitNodes
  <2>1. localTransitNodes[<<v, k>>] = TrueDistance(k, v)
    BY <1>9, <1>4 DEF LocalDistancesExact, TrueDistance
  <2>2. tnData.local[<<v, k>>] = localTransitNodes[<<v, k>>]
    BY <1>6, <1>9
  <2>3. TrueDistance(k, v) = Far(graph, k, v)
    BY DEF TrueDistance, Far
  <2>4. tnData.local[<<v, k>>] = Far(graph, k, v)
    BY <2>1, <2>2, <2>3, Zenon
  <2> QED BY <2>4, <1>3, <1>4, <1>8, Zenon
<1>10. CASE <<v, k>> \notin DOMAIN localTransitNodes
  <2>1. TrueDistance(k, v) = MaxInt
    BY <1>6, <1>7, <1>10 DEF LocalDistancesComplete
  <2>2. Far(graph, k, v) < Unset /\ Unset < MaxInt /\ Unset \in Nat
    BY <1>4 DEF OneWater
  <2> QED BY <2>1, <2>2, SizeAssumption DEF TrueDistance, Far
<1> QED BY <1>3, <1>4, <1>9, <1>10, <1>8

\* A way from s to t over two transit nodes.
Via(g, s, k, l, t) == Far(g, k, s) + Far(g, l, t) + Far(g, k, l)

LEMMA MaxOfTwo ==
  ASSUME NEW x \in Int, NEW y \in Int, y <= x
  PROVE  TQ!Max({x, y}) = x
BY DEF TQ!Max

LEMMA MinOfSome ==
  ASSUME NEW S, S \subseteq Nat, S # {}
  PROVE  TQ!Min(S) \in S /\ \A x \in S : TQ!Min(S) <= x
BY LeastNumber DEF TQ!Min

LEMMA ViaFacts ==
  ASSUME NEW g, Searchable(g), OneWater(g),
         NEW s \in Nodes, NEW t \in Nodes, NEW k \in Nodes, NEW l \in Nodes
  PROVE  /\ Via(g, s, k, l, t) \in Nat /\ Far(g, s, t) <= Via(g, s, k, l, t)
         /\ TQ!Max({TQ!IntAdd(TQ!IntAdd(Far(g, k, s), Far(g, l, t)), Far(g, k, l)), Far(g, k, l)})
              = Via(g, s, k, l, t)
<1> DEFINE a == Far(g, k, s)
           b == Far(g, l, t)
           c == Far(g, k, l)
           sl == Far(g, s, l)
           st == Far(g, s, t)
<1>1. a \in Nat /\ b \in Nat /\ c \in Nat /\ sl \in Nat /\ st \in Nat
  BY FarTyped
<1>2. a < MaxInt /\ b < MaxInt /\ c < MaxInt /\ sl < MaxInt
  <2>1. a < Unset /\ b < Unset /\ c < Unset /\ sl < Unset /\ Unset < MaxInt /\ Unset \in Nat
    BY DEF OneWater
  <2> HIDE DEF a, b, c, sl
  <2> QED BY <1>1, <2>1, SizeAssumption
<1>3. 3 * a <= MaxInt /\ 3 * b <= MaxInt /\ 3 * c <= MaxInt
  BY DEF OneWater
<1>4. sl <= a + c
  <2>1. Far(g, s, k) = a /\ Far(g, s, k) < MaxInt
    BY <1>2, FarTyped
  <2> QED BY <1>2, <2>1, FarFacts
<1>5. st <= sl + b
  BY <1>2, FarFacts
<1>6. Via(g, s, k, l, t) = a + b + c
  BY DEF Via
<1> HIDE DEF a, b, c, sl, st
<1>7. a + b \in Nat /\ a + b + c \in Nat /\ a + b <= MaxInt /\ a + b + c <= MaxInt /\ c <= a + b + c
  BY <1>1, <1>3, SizeAssumption
<1>8. st <= a + b + c
  BY <1>1, <1>4, <1>5
<1>9. TQ!IntAdd(a, b) = a + b
  BY <1>1, <1>7, SizeAssumption DEF TQ!IntAdd
<1>10. TQ!IntAdd(a + b, c) = a + b + c
  BY <1>1, <1>7, SizeAssumption DEF TQ!IntAdd
<1>11. TQ!Max({a + b + c, c}) = a + b + c
  BY <1>1, <1>7, MaxOfTwo
<1> QED BY <1>6, <1>7, <1>8, <1>9, <1>10, <1>11 DEF a, b, c, st

\* A transit node of each of the two cells.
Linking(s, t, k, l) == k \in TQ!CellTns(graph, tnData, s) /\ l \in TQ!CellTns(graph, tnData, t)

\* Two that query_alg takes for connected with s, t and each other: no distance is
\* by accident the one that stands for "not connected".
Connecting(s, t, k, l) ==
  /\ Linking(s, t, k, l)
  /\ TQ!Known(Far(graph, k, s)) /\ TQ!Known(Far(graph, l, t)) /\ TQ!Known(Far(graph, k, l))

LEMMA AlgFacts ==
  ASSUME AllSearchable, TypeInv, TablesInv, phase = "done",
         LocalDistancesExact, LocalDistancesComplete,
         OneWater(graph), NEW s \in Nodes, NEW t \in Nodes
  PROVE  /\ QueryAlg(s, t) = -1 \/ QueryAlg(s, t) \in Far(graph, s, t) .. Unset
         /\ (\E k, l : Connecting(s, t, k, l)) =>
              /\ QueryAlg(s, t) # -1
              /\ \A k, l : Linking(s, t, k, l) => QueryAlg(s, t) <= Via(graph, s, k, l, t)
<1>1. Searchable(graph)
  BY NetworkSearchable DEF TablesInv
<1> DEFINE Pairs0 == TQ!CellTns(graph, tnData, s) \X TQ!CellTns(graph, tnData, t)
           src(p) == tnData.local[<<s, p[1]>>]
           trg(p) == tnData.local[<<t, p[2]>>]
           btw(p) == tnData.between[p[1]][p[2]]
           dist(p) == TQ!Max({TQ!IntAdd(TQ!IntAdd(src(p), trg(p)), btw(p)), btw(p)})
           valid == \E p \in Pairs0 : TQ!Known(src(p)) /\ TQ!Known(trg(p)) /\ TQ!Known(btw(p))
           S == {dist(p) : p \in Pairs0} \cup {Unset}
<1>2. QueryAlg(s, t) = IF valid THEN TQ!Min(S) ELSE -1
  BY DEF QueryAlg, TQ!QueryAlg
<1>3. ASSUME NEW p \in Pairs0
      PROVE  /\ p[1] \in Nodes /\ p[2] \in Nodes
             /\ src(p) = Far(graph, p[1], s) /\ trg(p) = Far(graph, p[2], t)
             /\ btw(p) = Far(graph, p[1], p[2])
  <2>1. p[1] \in TQ!CellTns(graph, tnData, s) /\ p[2] \in TQ!CellTns(graph, tnData, t)
    OBVIOUS
  <2>2. /\ p[1] \in Nodes /\ src(p) = Far(graph, p[1], s)
        /\ \A u \in Nodes : tnData.between[p[1]][u] = Far(graph, p[1], u)
    BY <2>1, TablesTrue
  <2>3. p[2] \in Nodes /\ trg(p) = Far(graph, p[2], t)
    BY <2>1, TablesTrue
  <2> QED BY <2>2, <2>3
<1>4. ASSUME NEW p \in Pairs0
      PROVE  /\ dist(p) = Via(graph, s, p[1], p[2], t) /\ dist(p) \in Nat
             /\ Far(graph, s, t) <= dist(p)
  <2>1. dist(p) = TQ!Max({TQ!IntAdd(TQ!IntAdd(Far(graph, p[1], s), Far(graph, p[2], t)),
                                    Far(graph, p[1], p[2])), Far(graph, p[1], p[2])})
    BY <1>3
  <2> QED BY <1>1, <1>3, <2>1, ViaFacts
<1>5. Unset \in Nat /\ Far(graph, s, t) < Unset /\ Far(graph, s, t) \in Nat
  BY <1>1, FarTyped DEF OneWater
<1> HIDE DEF Pairs0, dist, valid
<1>6. S \subseteq Nat /\ S # {} /\ \A x \in S : Far(graph, s, t) <= x
  BY <1>4, <1>5
<1>7. /\ TQ!Min(S) \in Nat /\ Far(graph, s, t) <= TQ!Min(S) /\ TQ!Min(S) <= Unset
      /\ \A p \in Pairs0 : TQ!Min(S) <= dist(p)
  <2>1. Unset \in S /\ \A p \in Pairs0 : dist(p) \in S
    OBVIOUS
  <2> HIDE DEF S
  <2> QED BY <1>6, <2>1, MinOfSome
<1> HIDE DEF S
<1>8. QueryAlg(s, t) = -1 \/ QueryAlg(s, t) \in Far(graph, s, t) .. Unset
  BY <1>2, <1>5, <1>7
<1>9. ASSUME NEW k, NEW l, Connecting(s, t, k, l) PROVE valid
  <2> DEFINE p == <<k, l>>
  <2>1. p \in Pairs0 /\ p[1] = k /\ p[2] = l
    BY <1>9 DEF Connecting, Linking, Pairs0
  <2> HIDE DEF p
  <2> QED BY <1>3, <1>9, <2>1 DEF Connecting, valid
<1>10. ASSUME NEW k, NEW l, Linking(s, t, k, l), valid
       PROVE  QueryAlg(s, t) <= Via(graph, s, k, l, t)
  <2> DEFINE p == <<k, l>>
  <2>1. p \in Pairs0 /\ p[1] = k /\ p[2] = l
    BY <1>10 DEF Linking, Pairs0
  <2> HIDE DEF p
  <2>2. QueryAlg(s, t) <= dist(p)
    BY <1>2, <1>7, <1>10, <2>1
  <2>3. dist(p) = Via(graph, s, k, l, t)
    BY <1>4, <2>1
  <2> QED BY <2>2, <2>3
<1>11. valid => QueryAlg(s, t) # -1
  BY <1>2, <1>7
<1> QED BY <1>8, <1>9, <1>10, <1>11

\* Of the paths between two nodes in cells further apart than four, a shortest one
\* passes through a transit node of each cell, and a pair of them is connected.
ShortestPass ==
  phase = "done" =>
    \A s, t \in Nodes : ~LessThanNGridCellsAway(graph, s, t, 4) =>
      /\ \E k, l : Connecting(s, t, k, l)
      /\ \E k, l : Linking(s, t, k, l) /\ Via(graph, s, k, l, t) = Far(graph, s, t)

\* Any two nodes, however near, have transit nodes with known distances.
CellsConnected == phase = "done" => \A s, t \in Nodes : \E k, l : Connecting(s, t, k, l)

\* What a line stores of a boundary node is its distance ...
LEMMA StoredAtBoundary ==
  ASSUME NEW g \in Networks, OneWater(g), BoundariesReached(g), NEW l \in SweepLines,
         NEW side, NEW n, NEW v, <<side, n, v>> \in DOMAIN Passed(g, l).distanceToV
  PROVE  n \in Nodes /\ v \in Nodes /\ Passed(g, l).distanceToV[<<side, n, v>>] = Far(g, v, n)
<1> DEFINE t == Passed(g, l)
           k == <<side, n, v>>
<1>1. l \in Nat
  BY GridSizeAssumption DEF SweepLines
<1>2. TablesTyped(g, t) /\ Kept(g, l, t)
  BY <1>1, PassFacts
<1>3. k \in Sides \X Nodes \X Nodes
  <2>1. t.distanceToV \in Partial(Sides \X Nodes \X Nodes, Nat)
    BY <1>2 DEF TablesTyped, TableRecords
  <2> HIDE DEF t, k
  <2>2. DOMAIN t.distanceToV \subseteq Sides \X Nodes \X Nodes
    BY <2>1, PartialFacts
  <2> QED BY <2>2 DEF t, k
<1>4. n \in Nodes /\ v \in Nodes /\ k[1] = side /\ k[2] = n /\ k[3] = v
  BY <1>3
<1>5. PICK x \in Swept(g, l) :
        /\ x.v = v /\ <<side, n>> \in BoundaryAt(g, Axis(l), x.pos)
        /\ t.distanceToV[k] = StoredDistance(LocalDistances(g, v, x.pos), side, n)
  BY <1>2, <1>4 DEF Kept
<1>6. LocalDistances(g, v, x.pos)[n] = Far(g, v, n)
  <2> DEFINE b == <<side, n>>
  <2>1. b \in BoundaryAt(g, Axis(l), x.pos) /\ b[2] = n
    BY <1>5
  <2> HIDE DEF b
  <2>2. LocalDistances(g, x.v, x.pos)[b[2]] = Distances(g, x.v)[b[2]]
    BY <2>1 DEF BoundariesReached
  <2> QED BY <1>5, <2>1, <2>2 DEF Far
<1>7. Far(g, v, n) < MaxInt
  <2>1. Searchable(g)
    BY NetworksAssumption DEF OneWater, Searchable
  <2>2. Far(g, v, n) \in Nat /\ Far(g, v, n) < Unset /\ Unset < MaxInt /\ Unset \in Nat
    BY <1>4, <2>1, FarTyped DEF OneWater
  <2> QED BY <2>2, SizeAssumption
<1> QED BY <1>4, <1>5, <1>6, <1>7 DEF StoredDistance

\* ... so the sums it compares are the lengths of the connections.
LEMMA MiddleIsNearest ==
  ASSUME NEW g \in Networks, OneWater(g), LinesMeetPaths(g), NEW l \in SweepLines, NEW p
  PROVE  /\ NearestIn(Passed(g, l), p) = Middle(g, Passed(g, l), p)
         /\ Middle(g, Passed(g, l), p) \subseteq Nodes
<1> DEFINE t == Passed(g, l)
<1>1. Searchable(g) /\ BoundariesReached(g)
  BY NetworksAssumption DEF OneWater, Searchable, LinesMeetPaths
<1>2. ASSUME NEW u \in Nodes, NEW v \in Nodes PROVE Far(g, u, v) + Far(g, u, v) < Unset
  <2> DEFINE d == [w \in Nodes |-> Distances(g, w)]
  <2>1. d[u][v] + d[u][v] < Unset
    BY DEF LinesMeetPaths
  <2> QED BY <2>1 DEF Far
<1>3. ASSUME NEW v \in CommonIn(t, p)
      PROVE  v \in Nodes /\ SumIn(t, p, v) = Detour(g, p, v) /\ Detour(g, p, v) < Unset
  <2>1. /\ <<"negative", p[1], v>> \in DOMAIN t.distanceToV
        /\ <<"positive", p[2], v>> \in DOMAIN t.distanceToV
    BY <1>3 DEF CommonIn
  <2>2. /\ v \in Nodes /\ p[1] \in Nodes /\ p[2] \in Nodes
        /\ t.distanceToV[<<"negative", p[1], v>>] = Far(g, v, p[1])
        /\ t.distanceToV[<<"positive", p[2], v>>] = Far(g, v, p[2])
    BY <1>1, <2>1, StoredAtBoundary
  <2> DEFINE a == Far(g, v, p[1])
             b == Far(g, v, p[2])
  <2>3. a \in Nat /\ b \in Nat /\ a + a < Unset /\ b + b < Unset /\ Unset < MaxInt /\ Unset \in Nat
    BY <1>1, <1>2, <2>2, FarTyped DEF OneWater
  <2>4. SumIn(t, p, v) = IntAdd(a, b) /\ Detour(g, p, v) = a + b
    BY <2>2 DEF SumIn, Detour, Far
  <2> HIDE DEF a, b
  <2>5. a + b < Unset /\ a + b <= MaxInt /\ a + b \in Nat
    BY <2>3, SizeAssumption
  <2>6. IntAdd(a, b) = a + b
    BY <2>3, <2>5, SizeAssumption DEF IntAdd
  <2> QED BY <2>2, <2>4, <2>5, <2>6
<1> HIDE DEF t
<1>4. NearestIn(t, p) = Middle(g, t, p) /\ Middle(g, t, p) \subseteq Nodes
  BY <1>3 DEF NearestIn, Middle
<1> QED BY <1>4 DEF t

\* Whatever serves the cell of a node has given it one of its middle nodes.
LEMMA CellServed ==
  ASSUME TypeInv, TablesInv, EveryPairTaken, phase = "done", OneWater(graph), LinesMeetPaths(graph),
         NEW n \in Nodes, NEW m \in Serve(graph, Meetings(graph), n)
  PROVE  \E k \in m.middle : k \in Nodes /\ k \in TQ!CellTns(graph, tnData, n)
<1> DEFINE c == <<graph.cellX[n], graph.cellY[n]>>
<1>1. m \in Meetings(graph) /\ m.middle # {} /\ c \in m.cells
  BY DEF Serve
<1>2. PICK l \in SweepLines :
        m \in {[cells |-> CellsOfPair(graph, l, Passed(graph, l), p),
                middle |-> Middle(graph, Passed(graph, l), p)] : p \in PairsOf(Passed(graph, l))}
  BY <1>1 DEF Meetings
<1>3. PICK p \in PairsOf(Passed(graph, l)) :
        /\ m.cells = CellsOfPair(graph, l, Passed(graph, l), p)
        /\ m.middle = Middle(graph, Passed(graph, l), p)
  BY <1>2
<1>4. NearestIn(Passed(graph, l), p) = m.middle /\ m.middle \subseteq Nodes
  <2>1. graph \in Networks
    BY DEF TablesInv
  <2> QED BY <1>3, <2>1, MiddleIsNearest
<1>5. Taken(graph, l, p, transitNodesOfCells)
  BY DEF EveryPairTaken
<1>6. PICK k \in m.middle : \A x \in m.cells : <<x[1], x[2], k>> \in transitNodesOfCells
  BY <1>1, <1>3, <1>4, <1>5 DEF Taken
<1>7. <<graph.cellX[n], graph.cellY[n], k>> \in transitNodesOfCells
  <2>1. c[1] = graph.cellX[n] /\ c[2] = graph.cellY[n]
    OBVIOUS
  <2> HIDE DEF c
  <2> QED BY <1>1, <1>6, <2>1
<1>8. tnData.cells = transitNodesOfCells
  BY DEF TablesInv, Collected
<1>9. k \in TQ!CellTns(graph, tnData, n)
  <2> DEFINE x == <<graph.cellX[n], graph.cellY[n], k>>
  <2>1. x \in tnData.cells /\ x[1] = graph.cellX[n] /\ x[2] = graph.cellY[n] /\ x[3] = k
    BY <1>7, <1>8
  <2> HIDE DEF x
  <2> QED BY <2>1 DEF TQ!CellTns
<1> QED BY <1>4, <1>6, <1>9

LEMMA LinesConnected ==
  ASSUME TypeInv, TablesInv, EveryPairTaken, phase = "done", OneWater(graph), LinesMeetPaths(graph),
         NEW s \in Nodes, NEW t \in Nodes
  PROVE  LET meetings == Meetings(graph)
             d == [v \in Nodes |-> Distances(graph, v)]
         IN /\ Connected(graph, d, meetings, s, t) => \E k, l : Connecting(s, t, k, l)
            /\ OnShortest(graph, d, meetings, s, t) =>
                 \E k, l : Linking(s, t, k, l) /\ Via(graph, s, k, l, t) = Far(graph, s, t)
<1> DEFINE meetings == Meetings(graph)
           d == [v \in Nodes |-> Distances(graph, v)]
<1>1. Searchable(graph)
  BY NetworksAssumption DEF TablesInv, OneWater, Searchable
<1>2. \A u, v \in Nodes : d[u][v] = Far(graph, u, v)
  BY DEF Far
<1> HIDE DEF d
<1>3. ASSUME NEW a \in Serve(graph, meetings, s), NEW c \in Serve(graph, meetings, t)
      PROVE  \E k \in a.middle : \E l \in c.middle : k \in Nodes /\ l \in Nodes /\ Linking(s, t, k, l)
  <2>1. \E k \in a.middle : k \in Nodes /\ k \in TQ!CellTns(graph, tnData, s)
    BY CellServed
  <2>2. \E l \in c.middle : l \in Nodes /\ l \in TQ!CellTns(graph, tnData, t)
    BY CellServed
  <2> QED BY <2>1, <2>2 DEF Linking
<1>4. ASSUME Connected(graph, d, meetings, s, t) PROVE \E k, l : Connecting(s, t, k, l)
  <2>1. PICK a \in Serve(graph, meetings, s), c \in Serve(graph, meetings, t) :
          \A k \in a.middle, m \in c.middle : Missing \notin {d[k][s], d[k][m], d[m][t]}
    BY <1>4 DEF Connected
  <2>2. PICK k \in a.middle, l \in c.middle : k \in Nodes /\ l \in Nodes /\ Linking(s, t, k, l)
    BY <1>3
  <2>3. /\ Far(graph, k, s) # Missing /\ Far(graph, l, t) # Missing /\ Far(graph, k, l) # Missing
    BY <1>2, <2>1, <2>2
  <2>4. \A u, v \in Nodes : Far(graph, u, v) # Unset
    <3>1. \A u, v \in Nodes : Far(graph, u, v) \in Nat /\ Far(graph, u, v) < Unset /\ Unset \in Nat
      BY <1>1, FarTyped DEF OneWater
    <3> QED BY <3>1
  <2> QED BY <2>2, <2>3, <2>4 DEF Connecting, TQ!Known
<1>5. ASSUME OnShortest(graph, d, meetings, s, t)
      PROVE  \E k, l : Linking(s, t, k, l) /\ Via(graph, s, k, l, t) = Far(graph, s, t)
  <2>1. PICK a \in Serve(graph, meetings, s), c \in Serve(graph, meetings, t) :
          \A k \in a.middle, m \in c.middle : Over(d, s, k, m, t) = d[s][t]
    BY <1>5 DEF OnShortest
  <2>2. PICK k \in a.middle, l \in c.middle : k \in Nodes /\ l \in Nodes /\ Linking(s, t, k, l)
    BY <1>3
  <2>3. Far(graph, k, s) + Far(graph, k, l) + Far(graph, l, t) = Far(graph, s, t)
    BY <1>2, <2>1, <2>2 DEF Over
  <2>4. Far(graph, k, s) \in Nat /\ Far(graph, k, l) \in Nat /\ Far(graph, l, t) \in Nat
    BY <1>1, <2>2, FarTyped
  <2>5. Via(graph, s, k, l, t) = Far(graph, s, t)
    BY <2>3, <2>4 DEF Via
  <2> QED BY <2>2, <2>5
<1> QED BY <1>4, <1>5 DEF d

\* So what the tables need for the queries follows from the network.
LEMMA PathsPass ==
  ASSUME \A g \in Networks : OneWater(g) /\ LinesMeetPaths(g), TypeInv, TablesInv, EveryPairTaken
  PROVE  /\ ShortestPass
         /\ (\A g \in Networks : LinesConnect(g)) => CellsConnected
<1> DEFINE meetings == Meetings(graph)
           d == [v \in Nodes |-> Distances(graph, v)]
<1>1. graph \in Networks /\ OneWater(graph) /\ LinesMeetPaths(graph)
  BY DEF TablesInv
<1>2. ASSUME phase = "done", NEW s \in Nodes, NEW t \in Nodes, ~LessThanNGridCellsAway(graph, s, t, 4)
      PROVE  /\ \E k, l : Connecting(s, t, k, l)
             /\ \E k, l : Linking(s, t, k, l) /\ Via(graph, s, k, l, t) = Far(graph, s, t)
  <2>1. Connected(graph, d, meetings, s, t) /\ OnShortest(graph, d, meetings, s, t)
    BY <1>1, <1>2 DEF LinesMeetPaths
  <2> QED BY <1>1, <1>2, <2>1, LinesConnected
<1>3. ASSUME phase = "done", NEW s \in Nodes, NEW t \in Nodes, \A g \in Networks : LinesConnect(g)
      PROVE  \E k, l : Connecting(s, t, k, l)
  <2>1. Connected(graph, d, meetings, s, t)
    BY <1>1, <1>3 DEF LinesConnect
  <2> QED BY <1>1, <1>3, <2>1, LinesConnected
<1> QED BY <1>2, <1>3 DEF ShortestPass, CellsConnected

TablesRight == LocalDistancesExact /\ LocalDistancesComplete /\ ShortestPass

LEMMA FarQueriesExact ==
  ASSUME \A g \in Networks : OneWater(g), TypeInv, TablesInv, TablesRight, phase = "done",
         NEW s \in Nodes, NEW t \in Nodes, ~LessThanNGridCellsAway(graph, s, t, 4)
  PROVE  QueryAlg(s, t) = Far(graph, s, t)
<1>1. AllSearchable /\ OneWater(graph) /\ Searchable(graph)
  <2>1. AllSearchable
    BY DEF AllSearchable, OneWater
  <2> QED BY <2>1, NetworkSearchable DEF TablesInv
<1>2. /\ \E k, l : Connecting(s, t, k, l)
      /\ \E k, l : Linking(s, t, k, l) /\ Via(graph, s, k, l, t) = Far(graph, s, t)
  BY DEF TablesRight, ShortestPass
<1>3. QueryAlg(s, t) \in Far(graph, s, t) .. Unset /\ QueryAlg(s, t) <= Far(graph, s, t)
  <2>1. /\ QueryAlg(s, t) \in Far(graph, s, t) .. Unset
        /\ \A k, l : Linking(s, t, k, l) => QueryAlg(s, t) <= Via(graph, s, k, l, t)
    BY <1>1, <1>2, AlgFacts DEF TablesRight
  <2> QED BY <1>2, <2>1
<1>4. Far(graph, s, t) \in Nat /\ Unset \in Nat
  BY <1>1, FarTyped DEF OneWater
<1> QED BY <1>3, <1>4

\* TransitNodesQuery speaks of the same distances and of the same cells.
LEMMA SameOperators ==
  ASSUME NEW s, NEW t
  PROVE  /\ TQ!Distances(graph, s) = Distances(graph, s)
         /\ TQ!LessThanNGridCellsAway(graph, s, t, 4) = LessThanNGridCellsAway(graph, s, t, 4)
<1>1. TQ!Distances(graph, s) = Distances(graph, s)
  BY Zenon DEF TQ!Distances, Distances, TQ!DistancesWithin, DistancesWithin, TQ!Settle, Settle,
               TQ!Entered, Entered, TQ!LeastOf, LeastOf, TQ!Nodes, Nodes, TQ!Edges, Edges
<1>2. TQ!LessThanNGridCellsAway(graph, s, t, 4) = LessThanNGridCellsAway(graph, s, t, 4)
  BY Zenon DEF TQ!LessThanNGridCellsAway, LessThanNGridCellsAway, TQ!Apart, Apart
<1> QED BY <1>1, <1>2

LEMMA QueriesRight ==
  ASSUME \A g \in Networks : OneWater(g)
  PROVE  TypeInv /\ TablesInv /\ TablesRight => QueryExact
<1>1. TypeInv /\ TablesInv /\ TablesRight => QueryExact
  <2> SUFFICES ASSUME TypeInv, TablesInv, TablesRight, phase = "done", NEW s \in Nodes, NEW t \in Nodes
               PROVE  Answer(s, t) = DijkstraAnswers(s)[t]
    BY DEF QueryExact
  <2>1. /\ TQ!Distances(graph, s) = Distances(graph, s)
        /\ TQ!LessThanNGridCellsAway(graph, s, t, 4) = LessThanNGridCellsAway(graph, s, t, 4)
    BY SameOperators
  <2>2. CASE LessThanNGridCellsAway(graph, s, t, 4)
    BY <2>1, <2>2 DEF Answer, TQ!Query, DijkstraAnswers
  <2>3. CASE ~LessThanNGridCellsAway(graph, s, t, 4)
    <3>1. Answer(s, t) = QueryAlg(s, t)
      BY <2>1, <2>3 DEF Answer, TQ!Query, QueryAlg
    <3>2. QueryAlg(s, t) = Far(graph, s, t)
      BY <2>3, FarQueriesExact
    <3>3. Far(graph, s, t) # MaxInt
      <4>1. OneWater(graph) /\ Searchable(graph)
        BY NetworksAssumption DEF TablesInv, OneWater, Searchable
      <4>2. Far(graph, s, t) < Unset /\ Unset < MaxInt /\ Unset \in Nat /\ Far(graph, s, t) \in Nat
        BY <4>1, FarTyped DEF OneWater
      <4> QED BY <4>2, SizeAssumption
    <3> QED BY <3>1, <3>2, <3>3 DEF DijkstraAnswers, Far
  <2> QED BY <2>2, <2>3
<1> QED BY <1>1

\* What a network needs for its tables to be right: see SearchesSuffice.
Tabled(g) == OneWater(g) /\ SearchesSuffice(g)

LEMMA EntriesRight ==
  ASSUME \A g \in Networks : Tabled(g)
  PROVE  Spec => []LocalDistancesExact /\ []LocalDistancesComplete
<1>1. \A g \in Networks : /\ SearchesSuffice(g) /\ Bounded(g)
                         /\ \A u, v \in Nodes : Distances(g, u)[v] # Unset
  <2>1. ASSUME NEW g \in Networks, NEW u \in Nodes, NEW v \in Nodes
        PROVE  Distances(g, u)[v] # Unset
    <3>1. Bounded(g) /\ IsGraph(g) /\ Distances(g, u)[v] < Unset
      BY NetworksAssumption DEF Tabled, OneWater, Far
    <3>2. Distances(g, u)[v] \in Nat
      BY <3>1, DistanceFacts
    <3> QED BY <3>1, <3>2
  <2> QED BY <2>1 DEF Tabled, OneWater
<1>2. Spec => []LocalDistancesExact
  BY <1>1, StoredExact
<1>3. Spec => []LocalDistancesComplete
  BY <1>1, NoneLeftUnknown
<1> QED BY <1>2, <1>3

\* A distance query answers what Dijkstra's search answers (TransitNodesQuery.cpp:7-44),
\* on networks on which the searches suffice and whose lines meet the shortest paths.
THEOREM QueriesExact ==
  ASSUME \A g \in Networks : Tabled(g) /\ LinesMeetPaths(g)
  PROVE  Spec => []QueryExact
<1>1. \A g \in Networks : OneWater(g)
  BY DEF Tabled
<1>2. TypeInv /\ TablesInv /\ EveryPairTaken /\ LocalDistancesExact /\ LocalDistancesComplete => QueryExact
  <2>1. TypeInv /\ TablesInv /\ EveryPairTaken => ShortestPass
    BY <1>1, PathsPass
  <2> QED BY <1>1, <2>1, QueriesRight DEF TablesRight
<1>3. Spec => []LocalDistancesExact /\ []LocalDistancesComplete
  BY EntriesRight
<1> QED BY <1>2, <1>3, TypeInvHolds, TablesCollected, PairsTaken, PTL

\* And without any condition on the paths no answer is shorter than the way there is: of
\* tables with right entries the sentinels never add up to a distance (TransitNodesQuery.
\* cpp:15-36).  This takes one water: between two, they do.
THEOREM AnswersNotShorter ==
  ASSUME \A g \in Networks : Tabled(g)
  PROVE  Spec => []NeverShorter
<1>1. TypeInv /\ TablesInv /\ LocalDistancesExact /\ LocalDistancesComplete => NeverShorter
  <2> SUFFICES ASSUME TypeInv, TablesInv, LocalDistancesExact, LocalDistancesComplete, phase = "done",
                      NEW s \in Nodes, NEW t \in Nodes
               PROVE  Answer(s, t) \in {-1, Unset} \/ Answer(s, t) >= TrueDistance(s, t)
    BY DEF NeverShorter
  <2>1. AllSearchable /\ OneWater(graph) /\ Searchable(graph)
    <3>1. AllSearchable /\ graph \in Networks
      BY DEF AllSearchable, Tabled, OneWater, TablesInv
    <3> QED BY <3>1, NetworkSearchable DEF Tabled
  <2>2. TrueDistance(s, t) = Far(graph, s, t) /\ Far(graph, s, t) \in Nat
    BY <2>1, FarTyped DEF TrueDistance, Far
  <2>3. /\ TQ!Distances(graph, s) = Distances(graph, s)
        /\ TQ!LessThanNGridCellsAway(graph, s, t, 4) = LessThanNGridCellsAway(graph, s, t, 4)
    BY SameOperators
  <2>4. CASE LessThanNGridCellsAway(graph, s, t, 4)
    <3>1. Answer(s, t) \in {-1, Far(graph, s, t)}
      BY <2>3, <2>4 DEF Answer, TQ!Query, Far
    <3> QED BY <2>2, <3>1
  <2>5. CASE ~LessThanNGridCellsAway(graph, s, t, 4)
    <3>1. Answer(s, t) = QueryAlg(s, t)
      BY <2>3, <2>5 DEF Answer, TQ!Query, QueryAlg
    <3>2. QueryAlg(s, t) = -1 \/ QueryAlg(s, t) \in Far(graph, s, t) .. Unset
      BY <2>1, AlgFacts
    <3>3. Unset \in Nat
      BY <2>1 DEF OneWater
    <3> QED BY <2>2, <3>1, <3>2, <3>3
  <2> QED BY <2>4, <2>5
<1>2. Spec => []LocalDistancesExact /\ []LocalDistancesComplete
  BY EntriesRight
<1> QED BY <1>1, <1>2, TypeInvHolds, TablesCollected, PTL

\* Path queries work on what the preprocessing does: they change nothing of it.
THEOREM PreprocessingFirst == PathSpec => Spec
<1>1. PathInit => Init
  BY DEF PathInit
<1>2. [PathNext]_<<vars, request>> => [Next]_vars
  BY Zenon DEF PathNext, Preprocess, AskPath, Turn
<1> QED BY <1>1, <1>2, PTL DEF PathSpec, Spec

\* What path_query takes for granted of query_alg's answers (TransitNodesQuery.cpp:
\* 53-79), it may, on such networks if their lines also connect cells near each other.
THEOREM AnswersFitPaths ==
  ASSUME \A g \in Networks : Tabled(g) /\ LinesMeetPaths(g) /\ LinesConnect(g)
  PROVE  PathSpec => []TablesFit
<1>0. \A g \in Networks : OneWater(g)
  BY DEF Tabled
<1>1. TypeInv /\ TablesInv /\ TablesRight /\ CellsConnected => TablesFit
  <2> SUFFICES ASSUME TypeInv, TablesInv, TablesRight, CellsConnected, phase = "done",
                      NEW s \in Nodes, NEW t \in Nodes
               PROVE  /\ QueryAlg(s, t) \in TrueDistance(s, t) .. MaxInt - 1
                      /\ ~LessThanNGridCellsAway(graph, s, t, 4) =>
                           QueryAlg(s, t) = TrueDistance(s, t)
    BY DEF TablesFit
  <2>1. AllSearchable /\ OneWater(graph) /\ Searchable(graph)
    <3>1. AllSearchable
      BY <1>0 DEF AllSearchable, OneWater
    <3> QED BY <1>0, <3>1, NetworkSearchable DEF TablesInv
  <2>2. QueryAlg(s, t) \in Far(graph, s, t) .. Unset
    BY <2>1, AlgFacts DEF TablesRight, CellsConnected
  <2>3. Far(graph, s, t) \in Nat /\ Unset \in Nat /\ Unset < MaxInt
    BY <2>1, FarTyped DEF OneWater
  <2>4. QueryAlg(s, t) \in Far(graph, s, t) .. MaxInt - 1
    BY <2>2, <2>3, SizeAssumption
  <2>5. ~LessThanNGridCellsAway(graph, s, t, 4) => QueryAlg(s, t) = Far(graph, s, t)
    BY <1>0, FarQueriesExact
  <2> QED BY <2>4, <2>5 DEF TrueDistance, Far
<1>2. TypeInv /\ TablesInv /\ EveryPairTaken /\ LocalDistancesExact /\ LocalDistancesComplete => TablesFit
  <2>1. TypeInv /\ TablesInv /\ EveryPairTaken => ShortestPass /\ CellsConnected
    BY <1>0, PathsPass
  <2> QED BY <1>1, <2>1 DEF TablesRight
<1>3. Spec => []LocalDistancesExact /\ []LocalDistancesComplete
  BY EntriesRight
<1> QED BY <1>2, <1>3, TypeInvHolds, TablesCollected, PairsTaken, PreprocessingFirst, PTL

\* Preprocessing and path query together, of networks alone: where in addition between
\* any two nodes there is only one shortest way and no edge is free, the walks stay on
\* it and path_query returns it (TransitNodesQuery.cpp:46-115).
THEOREM PathsAreShortest ==
  ASSUME \A g \in Networks : /\ Tabled(g) /\ LinesMeetPaths(g) /\ LinesConnect(g)
                             /\ \A s, t \in Nodes : OnlyWay(g, s, t)
  PROVE  PathSpec => []RemainingIsDistance /\ []PathIsShortest
<1>1. AllSearchable
  BY DEF AllSearchable, Tabled, OneWater
<1>2. PathSpec => []TablesFit
  BY AnswersFitPaths
<1>3. PathSpec /\ []TablesFit => []RemainingIsDistance
  BY <1>1, RestIsDistance
<1>4. PathSpec /\ []TablesFit => [](WalksInv /\ MeetInv)
  BY <1>1, WalksStayOnTheWay
<1>5. PathSpec /\ []TablesFit =>
        []((Found => Joined(fwd, bwd) \/ OnlyWay(graph, source, target)) => PathIsShortest)
  BY <1>1, ReturnsShortest
<1>6. TablesInv /\ WalksInv /\ Found => OnlyWay(graph, source, target)
  BY DEF TablesInv, WalksInv, Found
<1>7. ~Found => PathIsShortest
  BY DEF PathIsShortest
<1> QED BY <1>2, <1>3, <1>4, <1>5, <1>6, <1>7, TablesCollected, PreprocessingFirst, PTL
=============================================================================

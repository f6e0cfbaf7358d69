---------------------------- MODULE LineMeetings ----------------------------
(***************************************************************************)
(* What the sweep can make of a network, whatever node it takes among      *)
(* equally near ones: the tables of each line's pass, the pairs of         *)
(* boundary nodes it compares, and the nodes over which it connects them.  *)
(* From these, the condition under which distance queries are exact.       *)
(***************************************************************************)
EXTENDS TransitNodes

LineNodes(g, l) == SweepNodes(g, EdgeBuckets(g), Axis(l), l % GridSize)

\* The tables of a line's pass after each of its nodes, and after the last one.
Pass(g, l) ==
  LET nodes == LineNodes(g, l)
      buckets == EdgeBuckets(g)
      after[k \in 0 .. Len(nodes)] ==
        IF k = 0 THEN NewTables ELSE ProcessSingleNode(g, buckets, Axis(l), nodes[k], after[k - 1])
  IN after
Passed(g, l) == Pass(g, l)[Len(LineNodes(g, l))]

\* SweepDone, Common and CellsOf, of the tables t of line l.
PairsOf(t) ==
  {p \in (DOMAIN t.first.negative) \X (DOMAIN t.first.positive) :
     ~TooFar(t.first.negative[p[1]], t.first.positive[p[2]])}
CommonIn(t, p) == {v \in DOMAIN t.distancesToNearest :
                     /\ <<"negative", p[1], v>> \in DOMAIN t.distanceToV
                     /\ <<"positive", p[2], v>> \in DOMAIN t.distanceToV}
CellsIn(g, l, t, side, n) ==
  LET ends == UNION {{g.sources[e], g.targets[e]} : e \in t.boundaryEdges[n]}
      k == (IF side = "negative" THEN l + GridSize - 3 ELSE l + 2) % GridSize
  IN IF Axis(l) = "vertical" THEN {<<k, g.cellY[w]>> : w \in ends}
                             ELSE {<<g.cellX[w], k>> : w \in ends}
CellsOfPair(g, l, t, p) == CellsIn(g, l, t, "negative", p[1]) \cup CellsIn(g, l, t, "positive", p[2])

\* The nodes over which the connection of a pair is shortest, by the distances of the
\* whole network.
Detour(g, p, v) == Distances(g, v)[p[1]] + Distances(g, v)[p[2]]
Middle(g, t, p) ==
  {v \in CommonIn(t, p) : \A w \in CommonIn(t, p) : Detour(g, p, v) <= Detour(g, p, w)}

\* The pairs of all lines: the cells of each, and the nodes of which one connects it.
Meetings(g) ==
  UNION {LET t == Passed(g, l)
         IN {[cells |-> CellsOfPair(g, l, t, p), middle |-> Middle(g, t, p)] : p \in PairsOf(t)}
           : l \in SweepLines}

\* The meetings that give the cell of node n one of their middle nodes.
Serve(g, meetings, n) ==
  {m \in meetings : m.middle # {} /\ <<g.cellX[n], g.cellY[n]>> \in m.cells}

\* The search around a node of a line finds the distances of the boundary nodes met there.
BoundariesReached(g) ==
  \A l \in SweepLines : \A x \in Swept(g, l) :
    LET found == LocalDistances(g, x.v, x.pos)
        true  == Distances(g, x.v)
    IN \A b \in BoundaryAt(g, Axis(l), x.pos) : found[b[2]] = true[b[2]]

\* A way from s to t over two transit nodes, by the distances d of the network.
Over(d, s, k, m, t) == d[k][s] + d[k][m] + d[m][t]

\* Whichever of the middle nodes the lines take, the cells of s and t get two that are
\* connected, no distance being by accident the one that query_alg takes for "not connected".
Connected(g, d, meetings, s, t) ==
  \E a \in Serve(g, meetings, s), c \in Serve(g, meetings, t) :
    \A k \in a.middle, m \in c.middle : Missing \notin {d[k][s], d[k][m], d[m][t]}

\* ... two that lie on a shortest path.
OnShortest(g, d, meetings, s, t) ==
  \E a \in Serve(g, meetings, s), c \in Serve(g, meetings, t) :
    \A k \in a.middle, m \in c.middle : Over(d, s, k, m, t) = d[s][t]

\* A network whose lines meet its paths: between cells more than four apart.
LinesMeetPaths(g) ==
  LET meetings == Meetings(g)
      d == [v \in Nodes |-> Distances(g, v)]
  IN /\ BoundariesReached(g)
     /\ \A u, v \in Nodes : d[u][v] + d[u][v] < Unset
     /\ \A s, t \in Nodes : ~LessThanNGridCellsAway(g, s, t, 4) =>
          Connected(g, d, meetings, s, t) /\ OnShortest(g, d, meetings, s, t)

\* A network whose lines connect all cells with each other.
LinesConnect(g) ==
  LET meetings == Meetings(g)
      d == [v \in Nodes |-> Distances(g, v)]
  IN \A s, t \in Nodes : Connected(g, d, meetings, s, t)
=============================================================================

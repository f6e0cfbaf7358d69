---------------------------- MODULE TransitNodes ----------------------------
(***************************************************************************)
(* Preprocessing and query together: what the tables built by the sweep    *)
(* and the answers computed from them are worth.  The references are the   *)
(* geometry of the grid and the least distances in the network.            *)
(***************************************************************************)
EXTENDS TransitNodesRouting

CONSTANT Missing   \* 20000000, see TransitNodesQuery

TQ == INSTANCE TransitNodesQuery

ASSUME NetworksAssumption == \A g \in Networks : IsGraph(g) /\ HasCells(g)

TrueDistance(s, t) == Distances(graph, s)[t]

\* What Graph::dijkstra answers to each target.
DijkstraAnswers(s) ==
  LET true == Distances(graph, s) IN [t \in Nodes |-> IF true[t] = MaxInt THEN -1 ELSE true[t]]

Answer(s, t) == TQ!Query(graph, tnData, s, t)

\* The borders between columns that an edge crosses the short way round.
ColumnBorders(e) ==
  LET a == graph.cellX[graph.sources[e]]
      b == graph.cellX[graph.targets[e]]
      eastward == (b - a + GridSize) % GridSize
  IN IF eastward <= GridSize \div 2
     THEN {(a + k) % GridSize : k \in 1 .. eastward}
     ELSE {(b + k) % GridSize : k \in 1 .. GridSize - eastward}
-----------------------------------------------------------------------------
TypeOK ==
  /\ phase \in {"buckets", "sweep", "find", "collect", "done"}
  /\ line \in 0 .. 2 * GridSize
  /\ \A j \in DOMAIN todo : todo[j].v \in Nodes
  /\ pairs \subseteq Nodes \X Nodes
  /\ transitNodeTmp \subseteq Nodes
  /\ transitNodesOfCells \subseteq Columns \X Columns \X transitNodeTmp
  /\ DOMAIN localTransitNodes \subseteq Nodes \X transitNodeTmp
  /\ tnData.cells \subseteq transitNodesOfCells

\* Every column border an edge crosses, over the antimeridian too, has the
\* edge in one of its buckets, or the sweep of that line would not see the
\* crossing ("find all cell crossings of edges", TransitNodesRouting.cpp:194).
AllCrossingsFiled ==
  phase # "buckets" =>
    \A e \in Edges(graph) : \A x \in ColumnBorders(e) :
      \E c \in DOMAIN edgeBuckets["vertical"] :
        /\ c[1] = x
        /\ \E j \in DOMAIN edgeBuckets["vertical"][c] : edgeBuckets["vertical"][c][j] = e

\* Each search around a node v is cut off outside a cross of seven columns and
\* rows (SingleTnPass.cpp:223); what it stores for the nodes of the cells v is
\* a transit node of is their distance in the whole network all the same.
LocalDistancesExact ==
  \A v \in Nodes :
    LET true == Distances(graph, v)
    IN \A n \in Nodes :
         <<n, v>> \in DOMAIN localTransitNodes => localTransitNodes[<<n, v>>] = true[n]

\* A transit node is added to a cell by one line and its distances come from
\* the searches of the lines it lies on (SingleTnPass.cpp:322-344).  After the
\* last line none is left unknown (TransitNodesRouting.cpp:66) to a node of
\* the cell that can reach it.
LocalDistancesComplete ==
  phase = "done" =>
    \A k \in DOMAIN tnData.local :
      tnData.local[k] = Unset => TrueDistance(k[2], k[1]) = MaxInt

\* "localTransitNodes[i] contains some nodes two times" (TransitNodesRouting.
\* cpp:69): two lines may each store a distance for one node and one transit
\* node.  They agree, so it does not matter that the last one is used.
DuplicatesAgree ==
  [][\A k \in DOMAIN localTransitNodes : localTransitNodes'[k] = localTransitNodes[k]]_vars

\* A distance query answers what Dijkstra's search answers, the comparison the
\* evaluation makes (TransitNodesEvaluation.cpp:61-71, main.cpp:213-219): of the
\* paths between two nodes in cells further apart than four, a shortest one
\* passes through transit nodes of both cells.
QueryExact ==
  phase = "done" =>
    \A s \in Nodes :
      LET dijkstra == DijkstraAnswers(s) IN \A t \in Nodes : Answer(s, t) = dijkstra[t]

\* An answer is never shorter than the shortest path: whatever is missing in
\* the tables, the sentinels (2000000000, 2147483647) do not add up to a
\* distance (TransitNodesQuery.cpp:15-36).
NeverShorter ==
  phase = "done" =>
    \A s, t \in Nodes : Answer(s, t) \in {-1, Unset} \/ Answer(s, t) >= TrueDistance(s, t)
-----------------------------------------------------------------------------
(***************************************************************************)
(* The networks the theorems about the tables speak of.  What the sweep    *)
(* has to do with a node depends on the network alone.                     *)
(***************************************************************************)
\* Edges span less than half the globe, or go over the antimeridian from the last
\* column: from one further west none of the borders crossed would be filed.
PlainCrossings(g) ==
  \A e \in Edges(g) :
    LET a == g.cellX[g.sources[e]]
        b == g.cellX[g.targets[e]]
    IN \/ 2 * Apart(a, b) < GridSize
       \/ 2 * Apart(a, b) > GridSize /\ GridSize - 1 \in {a, b}

\* The two nodes of an edge, and the lines in the order of the sweep.
Ends(g, e) == {g.sources[e], g.targets[e]}
SweepLines == 0 .. 2 * GridSize - 1

\* The nodes of a line, each with the cell it is met at.
Swept(g, l) ==
  LET s == SweepNodes(g, EdgeBuckets(g), Axis(l), l % GridSize) IN {s[j] : j \in DOMAIN s}

\* The boundary nodes around a position, with their side.
BoundaryAt(g, axis, pos) ==
  LET found == FoundEdges(EdgeBuckets(g), axis, pos)
  IN {<<found[j].side, LowerEnd(g, found[j].edge)>> : j \in DOMAIN found}

\* The cells a boundary node stands for when all its edges are boundary edges.
CellsBeyond(g, l, side, n) ==
  LET ends == UNION {Ends(g, e) : e \in {f \in Edges(g) : n \in Ends(g, f)}}
      k == (IF side = "negative" THEN l + GridSize - 3 ELSE l + 2) % GridSize
  IN IF Axis(l) = "vertical" THEN {<<k, g.cellY[w]>> : w \in ends}
                             ELSE {<<g.cellX[w], k>> : w \in ends}

\* The cells that may get x.v as a transit node when x is met on line l.
CellsServed(g, l, x) ==
  UNION {CellsBeyond(g, l, b[1], b[2]) : b \in BoundaryAt(g, Axis(l), x.pos)}

\* A network on which the restricted searches suffice, a matter of its geometry alone:
\* the search around a node of a line finds the distance of every node in the cells the
\* line serves from there; of nodes in cells that only another line serves from there it
\* finds no way at all or a shortest one.
SearchesSuffice(g) ==
  \A l \in SweepLines : \A x \in Swept(g, l) : \A n \in Nodes :
    LET cell  == <<g.cellX[n], g.cellY[n]>>
        found == LocalDistances(g, x.v, x.pos)[n]
    IN /\ cell \in CellsServed(g, l, x) => found = Distances(g, x.v)[n]
       /\ (\E k \in SweepLines : \E y \in Swept(g, k) : y.v = x.v /\ cell \in CellsServed(g, k, y))
            => found \in {Distances(g, x.v)[n], MaxInt}
=============================================================================

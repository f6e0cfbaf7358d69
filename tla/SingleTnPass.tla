---------------------------- MODULE SingleTnPass ----------------------------
(***************************************************************************)
(* What SingleTnPass (src/src/transit_nodes/SingleTnPass.cpp) computes for *)
(* one node v on a sweep line: the boundary nodes of the cells two columns *)
(* (or rows) to either side, and the distances of a search around v.       *)
(*                                                                         *)
(* An axis is "vertical" (the line is a column border, x = the line, and   *)
(* the pass walks along y) or "horizontal".                                *)
(***************************************************************************)
EXTENDS TransitCells

\* f, and h where f has no value.
Overlay(f, h) == [x \in DOMAIN f \cup DOMAIN h |-> IF x \in DOMAIN f THEN f[x] ELSE h[x]]

\* insert of a C++ map: an entry for a, unless there is one.
Added(f, a, b) == Overlay(f, [x \in {a} |-> b])

Other(axis) == IF axis = "vertical" THEN "horizontal" ELSE "vertical"

\* Where the pass along a line stands at its k-th cell: <<sweepIndexX, sweepIndexY>>.
Position(axis, line, k) == IF axis = "vertical" THEN <<line, k>> ELSE <<k, line>>

(***************************************************************************)
(* The nodes of the sweep line in the order processSingleNode meets them,  *)
(* each once, with the cell it is met at: the end with the smaller number  *)
(* of every edge that crosses the line.                                    *)
(***************************************************************************)
LowerEnd(g, e) == LeastOf({g.sources[e], g.targets[e]}, 0)

SweepNodes(g, buckets, axis, line) ==
  LET At(k) == LET pos == Position(axis, line, k)
                   list == Bucket(buckets, axis, pos)
               IN [j \in DOMAIN list |-> [v |-> LowerEnd(g, list[j]), pos |-> pos]]
      met == FlattenSeq([k \in 1 .. GridSize |-> At(k - 1)])
      first == {j \in DOMAIN met : \A i \in 1 .. j - 1 : met[i].v # met[j].v}
      order == Ascending(first, Len(met) + 1)
  IN [k \in DOMAIN order |-> met[order[k]]]

(***************************************************************************)
(* searchVertical and searchHorizontal: the cells whose buckets hold the   *)
(* boundary of the neighbour on the negative and on the positive side, i   *)
(* cells along the line.  "main" buckets are those of the sweep's own axis.*)
(***************************************************************************)
NegativeCell(axis, pos, i, cell, main) ==
  IF axis = "vertical"
  THEN <<(pos[1] + cell - 3 + GridSize) % GridSize, pos[2] + i>>
  ELSE <<(pos[1] + i + GridSize) % GridSize, pos[2] - cell - (IF main THEN 2 ELSE 3)>>

\* A faulty variant: the border of the next cell.
PositiveCell_OneFurther(axis, pos, i, cell, main) ==
  IF axis = "vertical"
  THEN <<(pos[1] + cell + 3) % GridSize, pos[2] + i>>
  ELSE <<(pos[1] + i + GridSize) % GridSize, pos[2] - cell + (IF main THEN 4 ELSE 3)>>

PositiveCell(axis, pos, i, cell, main) ==
  IF axis = "vertical"
  THEN <<(pos[1] + cell + 2) % GridSize, pos[2] + i>>
  ELSE <<(pos[1] + i + GridSize) % GridSize, pos[2] - cell + (IF main THEN 3 ELSE 2)>>

\* The cells processSingleNode probes, in order: two borders of five cells in
\* the sweep's axis, then one border of six in the other; rows end at the grid.
Probes(axis, pos) ==
  LET minCell == IF axis = "vertical" /\ pos[2] < 2 THEN -pos[2] ELSE -2
      maxCell == IF axis = "vertical" THEN LeastOf({GridSize - 1 - pos[2], 2}, 2) ELSE 2
      maxOrthogonal == IF axis = "vertical"
                       THEN LeastOf({maxCell + 1, GridSize - 1 - pos[2]}, 3) ELSE 3
      Both(i, cell, main) ==
        << [side |-> "negative", main |-> main, cell |-> NegativeCell(axis, pos, i, cell, main)],
           [side |-> "positive", main |-> main, cell |-> PositiveCell(axis, pos, i, cell, main)] >>
  IN FlattenSeq([k \in 1 .. maxCell - minCell + 1 |->
                   Both(minCell + k - 1, 0, TRUE) \o Both(minCell + k - 1, 1, TRUE)])
     \o FlattenSeq([k \in 1 .. maxOrthogonal - minCell + 1 |->
                   Both(minCell + k - 1, 0, FALSE)])

(***************************************************************************)
(* findBoundaryNodesNegative and ...Positive.  A pass keeps, in tables:    *)
(* per side the coordinate along the line at which a boundary node was     *)
(* first met, and the boundaryEdges of each node.  marked holds the        *)
(* boundary nodes of this v, with their side.  Edges of a node already     *)
(* marked are added to its boundaryEdges on the positive side only: the    *)
(* negative side puts them where nobody looks.                             *)
(***************************************************************************)
MeetEdge(g, tables, x) ==
  LET ends == << g.sources[x.edge], g.targets[x.edge] >>
      node == LowerEnd(g, x.edge)
  IN IF \E k \in 1 .. 2 : ends[k] \in DOMAIN tables.marked
     THEN LET known == IF ends[1] \in DOMAIN tables.marked THEN ends[1] ELSE ends[2]
          IN IF x.side = "negative" THEN tables
             ELSE [tables EXCEPT !.boundaryEdges[known] = @ \cup {x.edge}]
     ELSE [tables EXCEPT
             !.first[x.side] = Added(@, node, x.at),
             !.boundaryEdges = Added(@, node, {x.edge}),
             !.marked = Added(@, node, x.side)]

\* The edges in the cells probed, in the order they are met.
FoundEdges(buckets, axis, pos) ==
  LET along(cell) == IF axis = "vertical" THEN cell[2] ELSE cell[1]
      Of(p) == LET list == Bucket(buckets, IF p.main THEN axis ELSE Other(axis), p.cell)
               IN [j \in DOMAIN list |-> [side |-> p.side, at |-> along(p.cell), edge |-> list[j]]]
      probes == Probes(axis, pos)
  IN FlattenSeq([j \in DOMAIN probes |-> Of(probes[j])])

\* All probes for one v.
ScanBoundary(g, buckets, axis, pos, tables) ==
  LET found == FoundEdges(buckets, axis, pos)
      after[k \in 0 .. Len(found)] ==
        IF k = 0 THEN [tables EXCEPT !.marked = << >>] ELSE MeetEdge(g, after[k - 1], found[k])
  IN after[Len(found)]

(***************************************************************************)
(* The search around v: it settles what it can reach through nodes whose   *)
(* column or whose row is within 3 of the sweep position (Dijkstra's loop, *)
(* which module Dijkstra shows to find least distances).                   *)
(***************************************************************************)
\* Faulty variants: both distances must be small, up to three cells, up to half
\* the grid, up to two cells.
Region_Both(g, pos) ==
  {w \in Nodes : Apart(g.cellX[w], pos[1]) <= 3 /\ Apart(g.cellY[w], pos[2]) <= 3}

Region_HalfGrid(g, pos) ==
  {w \in Nodes : /\ Apart(g.cellX[w], pos[1]) <= GridSize \div 2
                 /\ Apart(g.cellY[w], pos[2]) <= GridSize \div 2}

Region_Small(g, pos) ==
  {w \in Nodes : Apart(g.cellX[w], pos[1]) <= 2 /\ Apart(g.cellY[w], pos[2]) <= 2}

Region(g, pos) ==
  {w \in Nodes : Apart(g.cellX[w], pos[1]) <= 3 \/ Apart(g.cellY[w], pos[2]) <= 3}

LocalDistances(g, v, pos) == DistancesWithin(g, v, Region(g, pos))

\* What is stored for a boundary node: its distance, or, when the search did
\* not get there, the value the entry was made with.
StoredDistance(d, side, node) ==
  IF d[node] < MaxInt THEN d[node]
  ELSE IF side = "negative" THEN 0 ELSE MaxInt

NewTables ==
  [ first |-> [negative |-> << >>, positive |-> << >>],
    boundaryEdges |-> << >>, marked |-> << >>,
    distanceToV |-> << >>,        \* <<side, boundary node, v>> :> distance
    distancesToNearest |-> << >>  \* v :> distances of the settled nodes to v
  ]

\* processSingleNode: scan, search, store.
ProcessSingleNode(g, buckets, axis, x, tables) ==
  LET scanned == ScanBoundary(g, buckets, axis, x.pos, tables)
      d == LocalDistances(g, x.v, x.pos)
      Stored == [k \in {<<scanned.marked[n], n, x.v>> : n \in DOMAIN scanned.marked} |->
                   StoredDistance(d, k[1], k[2])]
  IN [scanned EXCEPT
        !.distanceToV = Overlay(@, Stored),
        !.distancesToNearest = Added(@, x.v, d)]
=============================================================================

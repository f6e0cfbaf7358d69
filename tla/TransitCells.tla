---------------------------- MODULE TransitCells ----------------------------
(***************************************************************************)
(* The square grid laid over the network.  A network carries the cell of   *)
(* each node, graph.cellX[v] and graph.cellY[v]; the projected positions   *)
(* themselves are not modelled.  No node lies exactly on a grid line, so   *)
(* the code's ceil of a position is its floor plus one.                    *)
(***************************************************************************)
EXTENDS ShipGraph, SequencesExt

CONSTANT GridSize

ASSUME GridSizeAssumption == GridSize \in Nat \ {0}

Columns == 0 .. GridSize - 1

Apart(a, b) == IF a > b THEN a - b ELSE b - a

\* Cells of the right range.  The projection keeps latitudes in the lower half
\* of the grid.  No water lies in the three southernmost rows (all of them
\* south of 78 degrees for the grid in use), so no search leaves the grid.
HasCells(g) ==
  /\ g.cellX \in [Nodes -> Columns]
  /\ g.cellY \in [Nodes -> 3 .. GridSize \div 2]

\* In x the distance is also taken the other way around the globe.
LessThanNGridCellsAway(g, v, w, n) ==
  LET dx == Apart(g.cellX[v], g.cellX[w])
  IN (dx <= n \/ dx >= GridSize - n) /\ Apart(g.cellY[v], g.cellY[w]) <= n

(***************************************************************************)
(* The vertical grid lines an edge is filed under: those between the cells *)
(* of its ends, or, when these are more than half the globe apart, those   *)
(* crossed on the way over the antimeridian.  Line x is the western border *)
(* of column x.  The row is that of the end further east on the map.       *)
(***************************************************************************)
\* A faulty variant: no case for the antimeridian.
VerticalLines_NoAntimeridian(g, e) ==
  LET a == g.cellX[g.sources[e]]
      b == g.cellX[g.targets[e]]
  IN LeastOf({a, b}, a) + 1 .. IF a > b THEN a ELSE b

VerticalLines(g, e) ==
  LET a == g.cellX[g.sources[e]]
      b == g.cellX[g.targets[e]]
      firstIndexX == LeastOf({a, b}, a) + 1
      lastIndexX  == IF a > b THEN a + 1 ELSE b + 1
  IN IF lastIndexX - firstIndexX > GridSize \div 2
     THEN {x % GridSize : x \in lastIndexX % GridSize .. firstIndexX - 1}
     ELSE {x % GridSize : x \in firstIndexX .. lastIndexX - 1}

VerticalRow(g, e) ==
  LET s == g.sources[e]
      t == g.targets[e]
  IN IF g.cellX[s] > g.cellX[t] THEN g.cellY[s] ELSE g.cellY[t]

HorizontalLines(g, e) ==
  LET a == g.cellY[g.sources[e]]
      b == g.cellY[g.targets[e]]
  IN LeastOf({a, b}, a) + 1 .. IF a > b THEN a ELSE b

HorizontalColumn(g, e) ==
  LET s == g.sources[e]
      t == g.targets[e]
  IN IF g.cellY[s] > g.cellY[t] THEN g.cellX[s] ELSE g.cellX[t]

\* The members below n of a set of numbers, in ascending order.
Ascending(S, n) ==
  LET upto[k \in 0 .. n] ==
        IF k = 0 THEN << >>
        ELSE IF k - 1 \in S THEN Append(upto[k - 1], k - 1) ELSE upto[k - 1]
  IN upto[n]

(***************************************************************************)
(* findEdgeBuckets: per direction and cell the edges filed there, in the   *)
(* order of their numbers; cells without edges are left out.               *)
(***************************************************************************)
Axes == {"vertical", "horizontal"}

Filed(g, axis, e) ==
  IF axis = "vertical" THEN VerticalLines(g, e) \X {VerticalRow(g, e)}
                       ELSE {HorizontalColumn(g, e)} \X HorizontalLines(g, e)

EdgeBuckets(g) ==
  LET used(axis) == UNION {Filed(g, axis, e) : e \in Edges(g)}
      inCell(axis, c) == {e \in Edges(g) : c \in Filed(g, axis, e)}
  IN [axis \in Axes |-> [c \in used(axis) |-> Ascending(inCell(axis, c), g.offsets[N])]]

Bucket(buckets, axis, c) ==
  IF c \in DOMAIN buckets[axis] THEN buckets[axis][c] ELSE << >>
=============================================================================

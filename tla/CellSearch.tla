----------------------------- MODULE CellSearch -----------------------------
(***************************************************************************)
(* The nearest-node search (utils/GraphUtils.cpp): SphericalGrid files the *)
(* nodes by cell, CellSearch looks for the nearest one in each of the four *)
(* quarters around a place, and findClosestPoint takes the best of them.   *)
(*                                                                         *)
(* The globe is scaled: a degree is as wide as a cell, as it is with 360   *)
(* columns and 180 rows, and there are NLon of them around the equator.    *)
(* Places lie on half degrees, <<lat, lon>> counts them.  Distances are    *)
(* compared by the term under the arcus tangent of Vec2Sphere::dist.       *)
(***************************************************************************)
EXTENDS Integers, Sequences, FiniteSets, SequencesExt

CONSTANTS
  NLon,      \* columns of cells, and degrees around the globe
  Reach,     \* how far findClosestPoint looks, as Dist counts
  Cos, Hav,  \* cos and sin^2(x/2) of whole numbers of half degrees, scaled
  Places, NodesAround(_)  \* the places asked for, and where nodes may lie then

NLat == NLon \div 2

\* Nodes lie west of the antimeridian or on it with a longitude of -180 degrees;
\* the page sends a longitude above 180 degrees for a place beyond it.
NodePlaces == (1 - NLat .. NLat - 1) \X (-NLon .. NLon - 1)

ASSUME GridAssumption == NLon \in Nat /\ NLon > 2 /\ NLon % 2 = 0
ASSUME PlacesAssumption ==
  \A p \in Places : p \in (-NLat .. NLat - 1) \X (-NLon .. 3 * NLon - 1) /\ NodesAround(p) \subseteq NodePlaces

Magnitude(k) == IF k < 0 THEN -k ELSE k

Dist(p, r) ==
  10000 * Hav[Magnitude(p[1] - r[1])]
    + Cos[Magnitude(p[1])] * Cos[Magnitude(r[1])] * Hav[Magnitude(p[2] - r[2])]

IndexLat(p) == (p[1] + NLat) \div 2
IndexLon(p) == ((IF p[2] > NLon THEN p[2] - 2 * NLon ELSE p[2]) + NLon) \div 2

NotFound == [index |-> -1, dist |-> Reach + 1, inside |-> TRUE]

NotAsked == [NotFound EXCEPT !.index = -2]

VARIABLES
  nodes,    \* the places of the nodes
  cells,    \* cell -> the indices of its nodes, for the cells that have some
  filed,    \* how many nodes are filed
  loc,      \* the place asked for
  found,    \* quarter -> the result of its search, in the order of the searches
  closest   \* what findClosestPoint returned

vars == <<nodes, cells, filed, loc, found, closest>>

PointsAt(cell) == IF cell \in DOMAIN cells THEN cells[cell] ELSE << >>

Quarters == <<"leftBottom", "rightBottom", "leftTop", "rightTop">>

DirLat(q) == IF q \in {"leftBottom", "rightBottom"} THEN -1 ELSE 1
DirLon(q) == IF q \in {"leftBottom", "leftTop"} THEN -1 ELSE 1

\* checkLeft, checkRight: the other hemisphere is on both sides.
CheckLeft(comp) == (loc[2] < 0 /\ comp[2] > 0) \/ comp[2] < loc[2]
CheckRight(comp) == (loc[2] > 0 /\ comp[2] < 0) \/ comp[2] > loc[2]

InQuarter(q, comp) ==
  /\ IF DirLon(q) = -1 THEN CheckLeft(comp) ELSE CheckRight(comp)
  /\ IF DirLat(q) = -1 THEN comp[1] < loc[1] ELSE comp[1] > loc[1]

Better(best, other) ==
  [IF other.dist < best.dist THEN other ELSE best
     EXCEPT !.inside = best.inside /\ other.inside]

\* The nodes of one cell, in the order they were filed.
ScanCell(cell, q) ==
  LET update(best, v) ==
        IF InQuarter(q, nodes[v + 1])
        THEN Better(best, [index |-> v, dist |-> Dist(nodes[v + 1], loc), inside |-> TRUE])
        ELSE best
  IN FoldLeft(update, NotFound, PointsAt(cell))

\* The border (or corner) of a cell in a direction.  Beyond the last row the
\* modulus leads to the other pole.
\* Faulty variants: no modulus for the row; the border of the cell on the near
\* side in the east.
BoundaryCoords_NoModulus(i, j, dirLat, dirLon) ==
  << CASE dirLat = -1 -> 2 * i - NLat
       [] dirLat = 1  -> 2 * (i + 1) - NLat
       [] OTHER       -> loc[1],
     CASE dirLon = -1 -> 2 * j - NLon
       [] dirLon = 1  -> 2 * ((j + 1 + NLon) % NLon) - NLon
       [] OTHER       -> loc[2] >>

BoundaryCoords_CellTooFar(i, j, dirLat, dirLon) ==
  << CASE dirLat = -1 -> 2 * i - NLat
       [] dirLat = 1  -> 2 * ((i + 1 + NLat) % NLat) - NLat
       [] OTHER       -> loc[1],
     CASE dirLon = -1 -> 2 * j - NLon
       [] dirLon = 1  -> 2 * ((j + 2 + NLon) % NLon) - NLon
       [] OTHER       -> loc[2] >>

BoundaryCoords(i, j, dirLat, dirLon) ==
  << CASE dirLat = -1 -> 2 * i - NLat
       [] dirLat = 1  -> 2 * ((i + 1 + NLat) % NLat) - NLat
       [] OTHER       -> loc[1],
     CASE dirLon = -1 -> 2 * j - NLon
       [] dirLon = 1  -> 2 * ((j + 1 + NLon) % NLon) - NLon
       [] OTHER       -> loc[2] >>

\* The best node of quarter q from cell (i, j) on: in a straight direction
\* cell by cell; in a diagonal one along the diagonal, and from each of its
\* cells straight on to both sides.  What a read beyond the last row would
\* return is unknown, so it is only noted.
RECURSIVE ExpandSearch(_, _, _, _, _, _)
ExpandSearch(i, j, dirLat, dirLon, q, iterCount) ==
  LET diagonal == dirLat # 0 /\ dirLon # 0
      newLon == (j + dirLon + NLon) % NLon
      Beyond(dLat, dLon, best) == Dist(loc, BoundaryCoords(i, j, dLat, dLon)) < best.dist
      here == ScanCell(<<j, i>>, q)
      ahead == IF Beyond(dirLat, dirLon, here)
               THEN Better(here, ExpandSearch(i + dirLat, newLon, dirLat, dirLon, q, iterCount + 1))
               ELSE here
      lonBest == IF diagonal /\ Beyond(0, dirLon, ahead)
                 THEN Better(ahead, ExpandSearch(i, newLon, 0, dirLon, q, 0))
                 ELSE ahead
  IN CASE i < 0 \/ i > NLat -> NotFound
       [] dirLat # 0 /\ dirLon = 0 /\ iterCount >= NLat -> NotFound
       [] dirLat = 0 /\ dirLon # 0 /\ iterCount >= NLon -> NotFound
       [] i = NLat -> [NotFound EXCEPT !.inside = FALSE]
       [] OTHER ->
            IF diagonal /\ Beyond(dirLat, 0, lonBest)
            THEN Better(lonBest, ExpandSearch(i + dirLat, j, dirLat, 0, q, 0))
            ELSE lonBest

Init ==
  /\ loc \in Places /\ nodes \in NodesAround(loc) \X NodesAround(loc)
  /\ cells = << >> /\ filed = 0
  /\ found = << >> /\ closest = NotAsked

\* The constructor: addPoint for one node after the other.
AddPoint ==
  /\ filed < Len(nodes) /\ filed' = filed + 1
  /\ LET p == nodes[filed + 1]
         cell == <<IndexLon(p), IndexLat(p)>>
     IN cells' = (cell :> Append(PointsAt(cell), filed)) @@ cells
  /\ UNCHANGED <<nodes, loc, found, closest>>

\* startSearch: one quarter after the other.
Search ==
  /\ filed = Len(nodes) /\ Len(found) < 4
  /\ LET q == Quarters[Len(found) + 1]
     IN found' = Append(found, ExpandSearch(IndexLat(loc), IndexLon(loc), DirLat(q), DirLon(q), q, 0))
  /\ UNCHANGED <<nodes, cells, filed, loc, closest>>

\* findClosestPoint: left before right and bottom before top on equal distances.
\* A faulty variant: the last quarter is forgotten.
FindClosestPoint_NoRightTop ==
  /\ Len(found) = 4 /\ closest = NotAsked
  /\ closest' = Better(Better(found[1], found[3]), found[2])
  /\ UNCHANGED <<nodes, cells, filed, loc, found>>

FindClosestPoint ==
  /\ Len(found) = 4 /\ closest = NotAsked
  /\ closest' = Better(Better(Better(found[1], found[3]), found[2]), found[4])
  /\ UNCHANGED <<nodes, cells, filed, loc, found>>

Next == AddPoint \/ Search \/ FindClosestPoint

Spec == Init /\ [][Next]_vars
-----------------------------------------------------------------------------
\* Where a node lies from loc, by the shorter way around: what the searches of
\* the four quarters are for, written down without cells.  A node on the same
\* parallel or meridian lies in none.
Eastwards(v) == (nodes[v + 1][2] - loc[2] + 4 * NLon) % (2 * NLon)
Northwards(v) == nodes[v + 1][1] - loc[1]
LiesIn(q, v) ==
  /\ Northwards(v) * DirLat(q) > 0
  /\ IF DirLon(q) = 1 THEN Eastwards(v) \in 1 .. NLon - 1
                      ELSE Eastwards(v) \in NLon + 1 .. 2 * NLon - 1

InReach(q) == {v \in 0 .. Len(nodes) - 1 : LiesIn(q, v) /\ Dist(nodes[v + 1], loc) <= Reach}

\* No search reads beyond the last row of cells, although its first test lets
\* that row through (GraphUtils.cpp:100): the border the modulus sends to the
\* other pole is always too far away.
StaysInside == \A k \in DOMAIN found : found[k].inside

\* What the search of a quarter returns is a nearest node of that quarter in
\* reach, if there is one: no cell that holds a nearer one was left out because
\* its border was taken to be too far, in the next column over the antimeridian
\* or on the diagonal, and none was missed next to the meridian of Greenwich,
\* where the test for left and right has its special case.
QuarterExact ==
  loc[2] <= NLon => \A k \in DOMAIN found :
    LET near == InReach(Quarters[k])
    IN IF near = {} THEN found[k].index = -1
       ELSE /\ found[k].index \in near
            /\ \A v \in near : found[k].dist <= Dist(nodes[v + 1], loc)

\* The index that goes on to the queries is -1 only when no node is in reach
\* in any quarter, and else that of a nearest node.
Reached == UNION {InReach(Quarters[k]) : k \in 1 .. 4}
ClosestExact ==
  closest # NotAsked =>
    /\ closest.index = -1 => Reached = {}
    /\ closest.index # -1 => closest.dist = Dist(nodes[closest.index + 1], loc)
    /\ \A v \in Reached : closest.dist <= Dist(nodes[v + 1], loc)
=============================================================================

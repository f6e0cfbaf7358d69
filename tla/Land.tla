-------------------------------- MODULE Land --------------------------------
(***************************************************************************)
(* Where the generator puts no nodes: the pieces of coast are stitched     *)
(* together, InPolyTest takes a box around every coastline, and a place is *)
(* land if it lies in a box and inside the coastline of that box           *)
(* (generate_graph, Graph::generate, GraphGenerator::addNodeConcurrent).   *)
(***************************************************************************)
EXTENDS CoastlineStitcher, InPolyTest

CONSTANT Points    \* the places to ask for

VARIABLES
  bps,       \* the boxes, << >> before they are made
  point,     \* the place asked for last
  onLand     \* the answer

landVars == <<vars, bps, point, onLand>>

Nowhere == [lat |-> -90, lon |-> 0]

LandInit == Init /\ bps = << >> /\ point = Nowhere /\ onLand = FALSE

StitchCoasts == Stitch /\ UNCHANGED <<bps, point, onLand>>

\* The constructor of InPolyTest.
MakeBoxes ==
  /\ Stitched /\ bps = << >>
  /\ bps' = [k \in DOMAIN result |-> BoundingPolygon(result[k])]
  /\ UNCHANGED <<vars, point, onLand>>

AskPoint ==
  /\ bps # << >> /\ point = Nowhere
  /\ point' \in Points
  /\ onLand' = PerformPointInPolyTest(result, bps, point')
  /\ UNCHANGED <<vars, bps>>

LandNext == StitchCoasts \/ MakeBoxes \/ AskPoint

LandSpec == LandInit /\ [][LandNext]_landVars /\ WF_landVars(StitchCoasts)
-----------------------------------------------------------------------------
\* Land, defined without boxes, meridians and the pole: a coastline is the sum
\* of the triangles its stretches make with its first node, and a place inside
\* lies in one more of those that turn one way than of those that turn back.
Side(u, v, w) == Sign(Dot(u, Cross(v, w)))
Corners(polygon, n) == <<Vector(polygon[1]), Vector(polygon[n]), Vector(polygon[n + 1])>>
Sides(c, p) == <<Side(c[1], c[2], Vector(p)), Side(c[2], c[3], Vector(p)), Side(c[3], c[1], Vector(p))>>
Triangles(polygon, p, turn) ==
  {n \in 2 .. Len(polygon) - 2 :
     LET c == Corners(polygon, n)
     IN Side(c[1], c[2], c[3]) = turn /\ Sides(c, p) = <<turn, turn, turn>>}
Surrounds(polygon, p) ==
  Cardinality(Triangles(polygon, p, 1)) # Cardinality(Triangles(polygon, p, -1))

\* The answer is not to be relied on due south or due north of two kinds of
\* nodes: those where a coastline turns back, from going east to going west or
\* the other way (only the stretch after a node meets the node's meridian, so
\* such a turn counts as a crossing), and the one it starts with (a stretch of no
\* length closes the coastline there, whose bearing is that of rounding errors).
TurnsBack(polygon, n) ==
  LET before == polygon[IF n = 1 THEN Len(polygon) - 1 ELSE n - 1]
  IN IsEastOrWest(before.lon, polygon[n].lon) # IsEastOrWest(polygon[n].lon, polygon[n + 1].lon)

\* Places that are decided: on no such meridian, on no side of a triangle.
Plain(p) ==
  \A k \in DOMAIN result :
    LET polygon == result[k]
    IN /\ IsEastOrWest(polygon[1].lon, p.lon) # 0
       /\ \A n \in 1 .. Len(polygon) - 1 : TurnsBack(polygon, n) => p.lon # polygon[n].lon
       /\ \A n \in 2 .. Len(polygon) - 2 :
            \A s \in {1, 2, 3} : Sides(Corners(polygon, n), p)[s] # 0

\* A place is taken for land exactly if a coastline surrounds it: also in bays,
\* on both sides of the antimeridian, around the south pole, with a corner of the
\* coast on its meridian, and in whatever pieces and order the file has the
\* coastlines.
LandIsLand ==
  point # Nowhere /\ Plain(point) =>
    (onLand <=> \E k \in DOMAIN result : Surrounds(result[k], point))
=============================================================================

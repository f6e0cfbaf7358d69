----------------------------- MODULE InPolyTest -----------------------------
(***************************************************************************)
(* Point in polygon on the sphere (graph/InPolyTest.cpp): the number of    *)
(* times the great circle from a point to the north pole crosses a         *)
(* coastline decides on land or water.                                     *)
(*                                                                         *)
(* Places have the latitudes and longitudes (degrees, rounded) for which   *)
(* Parallel and Meridian give an exact direction in space, as integers.    *)
(* transformLongitude is the bearing from one place to another; two of     *)
(* them are only ever compared, which determinants do without rounding.    *)
(***************************************************************************)
EXTENDS Integers, Sequences, FiniteSets, FiniteSetsExt

CONSTANTS
  Parallel,    \* latitude -> <<radius, height>>
  Meridian,    \* longitude -> <<x, y, Sqrt(x^2 + y^2)>>
  SouthPole    \* the place (-85, 45), south of every coast

NorthPole == <<0, 0, 1>>

\* The reference point (90, 90), seen from elsewhere: with pi = 3.14159 it lies
\* a little south of the pole, in the direction of 90 degrees east.
Ref == <<0, 1, 200>>

Vector(p) ==
  LET h == Parallel[p.lat]
      m == Meridian[p.lon]
  IN <<h[1] * m[1], h[1] * m[2], h[2] * m[3]>>

Cross(u, v) ==
  <<u[2] * v[3] - u[3] * v[2], u[3] * v[1] - u[1] * v[3], u[1] * v[2] - u[2] * v[1]>>
Dot(u, v) == u[1] * v[1] + u[2] * v[2] + u[3] * v[3]
Sign(x) == IF x > 0 THEN 1 ELSE IF x < 0 THEN -1 ELSE 0

\* isEastOrWest for two longitudes: WEST is 1, EAST is -1, NONE is 0.
IsEastOrWest(lonA, lonB) ==
  LET diff == lonB - lonA
      turned == IF diff > 180 THEN diff - 360 ELSE IF diff < -180 THEN diff + 360 ELSE diff
  IN IF turned \in {-180, 180} THEN 0 ELSE Sign(turned)

\* isEastOrWest for the bearings from a to u and to v.  The bearing from a place
\* to itself is atan2(0, 0) = 0, which is north.
Towards(a, u) == IF Cross(a, u) = <<0, 0, 0>> THEN NorthPole ELSE u
Turn(a, u, v) == -Sign(Dot(a, Cross(Towards(a, u), Towards(a, v))))
SameBearing(a, u, v) ==
  Turn(a, u, v) = 0 /\ Dot(Cross(a, Towards(a, u)), Cross(a, Towards(a, v))) > 0

Place2(node) == [lat |-> node.lat, lon |-> node.lon]

\* The corner A or the great circle to the next corner B lies on the way from
\* the point to the north pole.
\* A faulty variant: a corner on the meridian does not count.
Strike_NoCorner(a, b, p) ==
  LET ab == IsEastOrWest(a.lon, b.lon)
  IN ab = IsEastOrWest(a.lon, p.lon) /\ ab = IsEastOrWest(p.lon, b.lon) /\ p.lon # a.lon

Strike(a, b, p) ==
  LET ab == IsEastOrWest(a.lon, b.lon)
  IN p.lon = a.lon \/ (ab = IsEastOrWest(a.lon, p.lon) /\ ab = IsEastOrWest(p.lon, b.lon))

OnBoundary(a, b, p) ==
  Strike(a, b, p) /\ (Place2(p) = Place2(a) \/ SameBearing(Vector(a), Vector(p), Vector(b)))

Crosses(a, b, p) ==
  /\ Strike(a, b, p)
  /\ Turn(Vector(a), Vector(b), Ref) # Turn(Vector(a), Vector(b), Vector(p))

\* The polygon is closed from its last node to its first, also when both are at
\* the same place, as those of the stitcher are.
IsPointInPolygon(polygon, p) ==
  LET A(n) == polygon[n]
      B(n) == polygon[(n % Len(polygon)) + 1]
      crossings == {n \in DOMAIN polygon : Crosses(A(n), B(n), p)}
  IN IF (p.lat = -90 /\ p.lon = -90) \/ \E n \in DOMAIN polygon : OnBoundary(A(n), B(n), p)
     THEN "BOUNDARY"
     ELSE IF Cardinality(crossings) % 2 = 0 THEN "OUTSIDE" ELSE "INSIDE"

\* A polygon is taken to cross the antimeridian by the longitudes of two
\* neighbouring nodes; the first two are never looked at.
CrossesAntimeridian(polygon) ==
  \E n \in 2 .. Len(polygon) :
    LET start == polygon[n].lon
        end == polygon[(n % Len(polygon)) + 1].lon
    IN (start > 170 /\ end < -170) \/ (start < -170 /\ end > 170)

\* Its box then reaches from its largest longitude to its smallest one, counted
\* on beyond 180; a polygon around the south pole has the whole south.
\* A faulty variant: no south pole.
BoundingPolygon_NoPole(polygon) ==
  LET lats == {polygon[n].lat : n \in DOMAIN polygon}
      lons == {polygon[n].lon : n \in DOMAIN polygon}
      over == CrossesAntimeridian(polygon)
  IN [latMin |-> Min(lats), latMax |-> Max(lats),
      lonMin |-> IF over THEN Max(lons) ELSE Min(lons),
      lonMax |-> IF over THEN 360 + Min(lons) ELSE Max(lons)]

BoundingPolygon(polygon) ==
  LET lats == {polygon[n].lat : n \in DOMAIN polygon}
      lons == {polygon[n].lon : n \in DOMAIN polygon}
      over == CrossesAntimeridian(polygon)
      south == IsPointInPolygon(polygon, SouthPole) = "INSIDE"
  IN [latMin |-> IF south THEN -90 ELSE Min(lats), latMax |-> Max(lats),
      lonMin |-> IF south THEN -180 ELSE IF over THEN Max(lons) ELSE Min(lons),
      lonMax |-> IF south THEN 180 ELSE IF over THEN 360 + Min(lons) ELSE Max(lons)]

IsInside(bp, p) ==
  LET newLon == IF bp.lonMax > 180 /\ p.lon < 0 THEN 360 + p.lon ELSE p.lon
  IN p.lat \in bp.latMin .. bp.latMax /\ newLon \in bp.lonMin .. bp.lonMax

PerformPointInPolyTest(polygons, bps, p) ==
  \E k \in DOMAIN polygons :
    IsInside(bps[k], p) /\ IsPointInPolygon(polygons[k], p) \in {"INSIDE", "BOUNDARY"}
=============================================================================

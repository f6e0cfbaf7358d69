------------------------------- MODULE MCLand -------------------------------
(***************************************************************************)
(* Small worlds for Land: coastlines cut into pieces in every way Cuts     *)
(* allows, with the pieces in every order.                                 *)
(***************************************************************************)
EXTENDS Land

\* Directions with whole-numbered components: 3-4-5, 5-12-13, 7-24-25, 13-84-85.
MeridianTable ==
  (-180 :> <<-1, 0, 1>>) @@ (-171 :> <<-84, -13, 85>>) @@ (-164 :> <<-24, -7, 25>>)
  @@ (-143 :> <<-4, -3, 5>>) @@ (-90 :> <<0, -1, 1>>) @@ (-53 :> <<3, -4, 5>>)
  @@ (-37 :> <<4, -3, 5>>) @@ (-23 :> <<12, -5, 13>>) @@ (-16 :> <<24, -7, 25>>)
  @@ (0 :> <<1, 0, 1>>) @@ (16 :> <<24, 7, 25>>) @@ (23 :> <<12, 5, 13>>)
  @@ (37 :> <<4, 3, 5>>) @@ (53 :> <<3, 4, 5>>) @@ (90 :> <<0, 1, 1>>)
  @@ (143 :> <<-4, 3, 5>>) @@ (164 :> <<-24, 7, 25>>) @@ (171 :> <<-84, 13, 85>>)

\* Latitudes with a whole-numbered tangent or cotangent.
ParallelTable ==
  (-90 :> <<0, -1>>) @@ (-81 :> <<1, -6>>) @@ (-76 :> <<1, -4>>) @@ (-72 :> <<1, -3>>)
  @@ (-63 :> <<1, -2>>) @@ (-45 :> <<1, -1>>) @@ (-27 :> <<2, -1>>) @@ (-18 :> <<3, -1>>)
  @@ (-9 :> <<6, -1>>) @@ (0 :> <<1, 0>>) @@ (9 :> <<6, 1>>) @@ (18 :> <<3, 1>>)
  @@ (27 :> <<2, 1>>) @@ (45 :> <<1, 1>>) @@ (63 :> <<1, 2>>)

South == [lat |-> -81, lon |-> 53]

AllPoints ==
  {[lat |-> a, lon |-> o] : a \in DOMAIN ParallelTable \ {-90}, o \in DOMAIN MeridianTable}

\* Coastlines as corners in order: an island with a bay in the north, one over
\* the antimeridian, two that touch, and the continent in the south.
Bay == <<<<-18, -23>>, <<-18, 37>>, <<27, 37>>, <<0, 16>>, <<27, -23>>>>
Beyond180 == <<<<-18, 171>>, <<-27, -171>>, <<18, -171>>, <<27, 171>>>>
West == <<<<-9, 37>>, <<-9, -16>>, <<18, -16>>>>
East == <<<<-9, 37>>, <<-18, 90>>, <<18, 90>>>>
Antarctica == <<<<-72, -171>>, <<-63, -143>>, <<-72, -53>>, <<-63, 23>>, <<-72, 90>>, <<-63, 143>>, <<-72, 171>>>>

\* Corner n of coastline k, numbered like the nodes of the file.
Node(coast, k, n) == [lat |-> coast[n][1], lon |-> coast[n][2], id |-> 10 * k + n]

\* The piece from corner a on to corner b (around the coast, at least one step).
Piece(coast, k, a, b) ==
  LET L == Len(coast)
      steps == IF b > a THEN b - a ELSE b - a + L
  IN [s \in 1 .. steps + 1 |-> Node(coast, k, ((a + s - 2) % L) + 1)]

\* A coast cut at the corners of C.
CutAt(coast, k, C) ==
  LET next(a) == IF \E b \in C : b > a THEN Min({b \in C : b > a}) ELSE Min(C)
  IN {Piece(coast, k, a, next(a)) : a \in C}

Cuts(coast) == {C \in SUBSET DOMAIN coast : Cardinality(C) \in 1 .. 2}

Orders(pieces) == SetToSeqs(pieces)

SomeWorlds ==
  UNION {Orders(CutAt(Bay, 1, C) \cup CutAt(Beyond180, 2, {d})) : C \in Cuts(Bay), d \in {1, 3}}
  \cup UNION {Orders(CutAt(Antarctica, 1, C)) : C \in Cuts(Antarctica)}
  \cup UNION {Orders(CutAt(West, 1, {c}) \cup CutAt(East, 2, {d})) : c \in {1, 2}, d \in {1, 3}}

\* Both of the coasts that touch are cut, at the corner they share and at another.
TouchingWorlds ==
  UNION {Orders(CutAt(West, 1, {1, c}) \cup CutAt(East, 2, {1, d})) : c, d \in {2, 3}}
=============================================================================

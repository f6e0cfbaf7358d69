----------------------------- MODULE MCCellSearch -----------------------------
(***************************************************************************)
(* A globe of 24 columns and 12 rows: a cell is 15 degrees wide and a half *)
(* degree of the module is 7.5 degrees.                                    *)
(***************************************************************************)
EXTENDS CellSearch

CONSTANT Far

CosTable ==
  LET c == <<100, 99, 97, 92, 87, 79, 71, 61, 50, 38, 26, 13, 0>> IN [k \in 0 .. 12 |-> c[k + 1]]

HavTable ==
  LET h == <<0, 428, 1704, 3806, 6699, 10332, 14645, 19562, 25000, 30866, 37059, 43474, 50000,
             56526, 62941, 69134, 75000, 80438, 85355, 89668, 93301, 96194, 98296, 99572, 100000>>
  IN [k \in 0 .. 96 |-> h[1 + (IF k % 48 <= 24 THEN k % 48 ELSE 48 - (k % 48))]]

\* Nodes up to Far half degrees north or south of a place and twice as many
\* east or west.
Around(p) ==
  {<<a, ((o + 5 * NLon) % (2 * NLon)) - NLon>> :
     a \in (p[1] - Far .. p[1] + Far) \cap (1 - NLat .. NLat - 1), o \in p[2] - 2 * Far .. p[2] + 2 * Far}

\* In the middle of a cell and on its borders, in the last rows, west of Greenwich
\* and on it, on both sides of the antimeridian, and with a longitude above 180
\* degrees.
SomePlaces == {-11, -8, -3, 0, 1, 6, 11} \X {-1, 0, 23, -23, 25}
=============================================================================

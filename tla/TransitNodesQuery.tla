------------------------- MODULE TransitNodesQuery -------------------------
(***************************************************************************)
(* The distance query over the transit nodes of two cells                  *)
(* (src/src/transit_nodes/TransitNodesQuery.cpp).                          *)
(***************************************************************************)
EXTENDS TransitCells

CONSTANTS
  Unset,      \* 2000000000: distance unknown, and the initial minimum
  Missing     \* 20000000: the other value the query takes for "not connected"

CellTns(g, tn, v) == {k[3] : k \in {c \in tn.cells : c[1] = g.cellX[v] /\ c[2] = g.cellY[v]}}

Known(d) == d # Missing /\ d # Unset

\* query_alg: the least sum over all pairs of transit nodes, provided one pair
\* consists of known distances; a sum that wraps around is not taken.
QueryAlg(g, tn, source, target) ==
  LET Pairs == CellTns(g, tn, source) \X CellTns(g, tn, target)
      srcToTn(p) == tn.local[<<source, p[1]>>]
      trgToTn(p) == tn.local[<<target, p[2]>>]
      between(p) == tn.between[p[1]][p[2]]
      dist(p) == Max({IntAdd(IntAdd(srcToTn(p), trgToTn(p)), between(p)), between(p)})
      isValid == \E p \in Pairs : Known(srcToTn(p)) /\ Known(trgToTn(p)) /\ Known(between(p))
  IN IF isValid THEN Min({dist(p) : p \in Pairs} \cup {Unset}) ELSE -1

Query(g, tn, source, target) ==
  IF LessThanNGridCellsAway(g, source, target, 4)
  THEN LET d == Distances(g, source)[target] IN IF d = MaxInt THEN -1 ELSE d
  ELSE QueryAlg(g, tn, source, target)
=============================================================================

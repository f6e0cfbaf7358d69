----------------------------- MODULE MCDijkstra -----------------------------
(***************************************************************************)
(* Dijkstra on every directed graph of three nodes without parallel edges, *)
(* with costs 0 and 2 (an edge of cost 0 joins two nodes less than a metre *)
(* apart, and makes detours worth while), from every source to             *)
(* every target and for every SSSP call.                                   *)
(***************************************************************************)
EXTENDS DijkstraInvariant

CONSTANT Costs

Arcs == {a \in Nodes \X Nodes : a[1] # a[2]}
Before(a, b) == a[1] < b[1] \/ (a[1] = b[1] /\ a[2] < b[2])

\* The FMI file of a set of arcs with their costs: sorted by source.
Lines(S, cost) ==
  LET order == SetToSortSeq(S, Before)
  IN [k \in DOMAIN order |-> <<order[k][1], order[k][2], cost[order[k]]>>]

AllGraphs ==
  UNION {{BuildFromFMI(Lines(S, cost)) : cost \in [S -> Costs]} : S \in SUBSET Arcs}
=============================================================================

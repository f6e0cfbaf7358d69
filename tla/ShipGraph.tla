----------------------------- MODULE ShipGraph -----------------------------
(***************************************************************************)
(* The road network every part of the router works on: class Graph of      *)
(* src/src/graph/Graph.h.  Edges are kept in three parallel arrays         *)
(* (sources, targets, costs) sorted by source, and offsets[u] ..           *)
(* offsets[u + 1] - 1 are the edges that leave u.  Nodes and edges are     *)
(* numbered from 0, as in the code; costs are metres.                      *)
(***************************************************************************)
EXTENDS Integers, FiniteSets

CONSTANTS
  N,        \* number of nodes (graph.nodes.size())
  MaxInt    \* the largest int: 2147483647 in the code, smaller in TLC's runs

ASSUME SizeAssumption == N \in Nat \ {0} /\ MaxInt \in Nat \ {0}

Nodes  == 0 .. N - 1
NoNode == -1                        \* "no predecessor", "no node found"

Edges(g) == 0 .. g.offsets[N] - 1

OutEdges(g, v) == g.offsets[v] .. g.offsets[v + 1] - 1

\* What a Graph object must satisfy before a search may run on it.
IsGraph(g) ==
  /\ g.offsets \in [0 .. N -> Nat]
  /\ g.sources \in [Edges(g) -> Nodes]
  /\ g.targets \in [Edges(g) -> Nodes]
  /\ g.costs \in [Edges(g) -> Nat]
  /\ \A v \in Nodes : /\ g.offsets[v] <= g.offsets[v + 1]
                      /\ g.offsets[v + 1] <= g.offsets[N]
  /\ \A v \in Nodes, e \in Edges(g) : e \in OutEdges(g, v) <=> g.sources[e] = v

(***************************************************************************)
(* Graph::buildFromFMI and readEdges: the edge lines <<source, target,     *)
(* cost>> of the file in their order.  Offsets are counted per source and  *)
(* then summed up, so offsets[v] is the number of edges whose source is    *)
(* smaller than v.                                                         *)
(***************************************************************************)
Offsets(lines) == [v \in 0 .. N |-> Cardinality({k \in DOMAIN lines : lines[k][1] < v})]

BuildFromFMI(lines) ==
  LET ids == {k - 1 : k \in DOMAIN lines}
  IN [ sources |-> [e \in ids |-> lines[e + 1][1]],
       targets |-> [e \in ids |-> lines[e + 1][2]],
       costs   |-> [e \in ids |-> lines[e + 1][3]],
       offsets |-> Offsets(lines) ]

\* Sum of two ints as the build computes it (two's complement), b not negative.
IntAdd(a, b) == IF a + b > MaxInt THEN a + b - 2 * (MaxInt + 1) ELSE a + b

LeastOf(S, default) ==
  IF S = {} THEN default ELSE CHOOSE x \in S : \A y \in S : x <= y

(***************************************************************************)
(* Reference distances from s: the cost of the cheapest path of less than  *)
(* N edges, by the recurrence of Bellman and Ford; MaxInt is "no path".    *)
(***************************************************************************)
Unsearched(s) == [v \in Nodes |-> IF v = s THEN 0 ELSE MaxInt]

\* One edge more at the end of each path.
Round(g, D) ==
  [v \in Nodes |->
     LeastOf({D[v]} \cup {D[g.sources[e]] + g.costs[e] : e \in
               {f \in Edges(g) : g.targets[f] = v /\ D[g.sources[f]] < MaxInt}}, MaxInt)]

RefDistances(g, s) ==
  LET Dist[n \in Nat] == IF n = 0 THEN Unsearched(s) ELSE Round(g, Dist[n - 1])
  IN Dist[N - 1]

(***************************************************************************)
(* What a search of Dijkstra's kind computes when it may only enter nodes  *)
(* of a given set: the nodes settled, with their distances, nearest first. *)
(* Module Dijkstra models the loops of such a search step by step.         *)
(***************************************************************************)
\* The nodes that the edges leaving the settled pairs S lead to, each with
\* the distance it has along one of those edges.
Entered(g, allowed, S) ==
  LET settled == {p[1] : p \in S}
      open == {e \in Edges(g) : /\ g.sources[e] \in settled
                               /\ g.targets[e] \in allowed \ settled}
  IN {<<g.targets[x[2]], x[1][2] + g.costs[x[2]]>> :
        x \in {y \in S \X open : g.sources[y[2]] = y[1][1]}}

Settle(g, allowed, S) ==
  LET entered == Entered(g, allowed, S)
  IN IF entered = {} THEN S
     ELSE S \cup {CHOOSE r \in entered : \A o \in entered : r[2] <= o[2]}

DistancesWithin(g, s, allowed) ==
  LET Turn[n \in Nat] == IF n = 0 THEN {<<s, 0>>} ELSE Settle(g, allowed, Turn[n - 1])
      settled == Turn[N - 1]
  IN [v \in Nodes |-> LeastOf({p[2] : p \in {q \in settled : q[1] = v}}, MaxInt)]

Distances(g, s) == DistancesWithin(g, s, Nodes)
=============================================================================

---------------------------- MODULE ShortestPath ----------------------------
(***************************************************************************)
(* What Graph::dijkstra(source, target) promises its callers, with nothing *)
(* of how it searches: one reply, which is a shortest path and its length, *)
(* or -1 and no path when the target cannot be reached.                    *)
(*                                                                         *)
(* Being shortest is stated by a certificate instead of a minimum over all *)
(* paths: a potential p that no edge overruns (p[target] <= p[source] +    *)
(* cost, so every walk from s to t costs at least p[t] - p[s]) and that    *)
(* each step of the replied path meets with equality (so that path costs   *)
(* exactly p[t] - p[s]).  Unreachability is stated by a set of nodes that  *)
(* holds the source, not the target, and that no edge leaves.              *)
(***************************************************************************)
EXTENDS ShipGraph, Sequences

VARIABLES graph, source, target, done, result
vars == <<graph, source, target, done, result>>

Potentials == [Nodes -> 0 .. MaxInt]

Feasible(g, p) ==
  \A e \in Edges(g) : p[g.targets[e]] <= p[g.sources[e]] + g.costs[e]

TightStep(g, p, v, w) ==
  \E e \in Edges(g) : /\ g.sources[e] = v
                      /\ g.targets[e] = w
                      /\ p[w] = p[v] + g.costs[e]

\* The path leaves out its first node s, as the code's does.
TightWalk(g, p, s, path, t) ==
  IF path = << >> THEN s = t
  ELSE /\ TightStep(g, p, s, path[1])
       /\ \A k \in 1 .. Len(path) - 1 : TightStep(g, p, path[k], path[k + 1])
       /\ path[Len(path)] = t

Separated(g, s, t) ==
  \E S \in SUBSET Nodes :
    /\ s \in S /\ t \notin S
    /\ \A e \in Edges(g) : g.sources[e] \in S => g.targets[e] \in S

IsAnswer(g, s, t, r) ==
  \/ /\ r.distance = -1 /\ r.path = << >>
     /\ Separated(g, s, t)
  \/ \E p \in Potentials :
       /\ Feasible(g, p)
       /\ p[s] = 0 /\ p[t] = r.distance
       /\ TightWalk(g, p, s, r.path, t)

Init ==
  /\ IsGraph(graph)
  /\ source \in Nodes
  /\ target \in Nodes \cup {NoNode}
  /\ done = FALSE
  /\ result = [path |-> << >>, distance |-> -1]

Reply ==
  /\ ~done
  /\ done' = TRUE
  /\ IsAnswer(graph, source, target, result')
  /\ UNCHANGED <<graph, source, target>>

Spec == Init /\ [][Reply]_vars
=============================================================================

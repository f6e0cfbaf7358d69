------------------------- MODULE DijkstraInvariant -------------------------
(***************************************************************************)
(* Why the search of module Dijkstra is right: the facts that hold between *)
(* any two of its steps, strong enough that each step preserves them.      *)
(* DijkstraProofs proves that they do.                                     *)
(***************************************************************************)
EXTENDS Dijkstra

Searching == pc \in {"pop", "relax"}
Answering == pc \in {"trace", "done"} /\ target # NoNode

\* Edge e of the node being settled is not relaxed yet.
Pending(e) == pc = "relax" /\ graph.sources[e] = u /\ e >= i

\* Some edge from v to w accounts for the distance of w exactly.
TightEdge(v, w) ==
  \E e \in Edges(graph) : /\ graph.sources[e] = v
                          /\ graph.targets[e] = w
                          /\ dist[w] = dist[v] + graph.costs[e]

\* The source is a root: nothing ever improves on its distance.
Root == dist[source] = 0 /\ prev[source] = NoNode

\* prev is a tree of tight edges over settled nodes, and holds exactly the
\* nodes reached, the source apart.
Tree ==
  \A v \in Nodes :
    /\ prev[v] # NoNode => /\ prev[v] \in explored
                           /\ TightEdge(prev[v], v)
    /\ dist[v] < MaxInt <=> (prev[v] # NoNode \/ v = source)

\* Every node that is reached and not settled waits in the queue at its
\* present distance; what else the queue holds is older, hence no smaller.
QueueCovers ==
  /\ Searching => \A v \in Nodes \ explored : dist[v] < MaxInt => <<dist[v], v>> \in pq
  /\ \A e \in pq : dist[e[2]] <= e[1] /\ e[1] < MaxInt

\* Settled nodes are no further than anything in the queue, nor than the node
\* whose edges are being relaxed.
Frontier ==
  /\ SettledInOrder
  /\ pc = "relax" => u \in explored /\ i \in OutEdges(graph, u) \cup {graph.offsets[u + 1]}
                     /\ \A v \in explored : dist[v] <= dist[u]

\* Settled nodes have been reached, the target is not one of them, and no
\* edge leaving them could still improve a distance.
Settled ==
  /\ target \notin explored
  /\ \A v \in explored : dist[v] < MaxInt
  /\ \A e \in Edges(graph) :
       graph.sources[e] \in explored /\ ~Pending(e) =>
         /\ dist[graph.targets[e]] <= dist[graph.sources[e]] + graph.costs[e]
         /\ dist[graph.targets[e]] < MaxInt

\* Once the loop is left, the target lies between the settled nodes and all
\* the others.
Cut ==
  Answering => /\ \A v \in explored : dist[v] <= dist[target]
               /\ \A v \in Nodes \ explored : dist[target] <= dist[v]

\* The walk back: a chain of tight edges from the current node to the target,
\* or the target alone when it was not reached.
Chain ==
  pc = "trace" =>
    /\ target # NoNode
    /\ dist[target] = MaxInt => currentNode \in {target, NoNode}
    /\ dist[target] < MaxInt =>
         /\ currentNode \in Nodes /\ dist[currentNode] <= dist[target]
         /\ IF path = << >> THEN currentNode = target
            ELSE /\ path[1] = target
                 /\ TightEdge(currentNode, path[Len(path)])
                 /\ \A k \in 1 .. Len(path) - 1 : TightEdge(path[k + 1], path[k])
                 /\ \A k \in 1 .. Len(path) : dist[path[k]] <= dist[target]

Unanswered ==
  /\ Searching => path = << >>
  /\ pc # "done" => result = [path |-> << >>, distance |-> -1]

\* The inductive invariant of the search (Graph.cpp:90-145): what makes the
\* early exit, the skipped stale entries and the walk over prev correct.
IInv == /\ TypeOK /\ Root /\ Tree /\ QueueCovers /\ Frontier
        /\ Settled /\ Cut /\ Chain /\ Unanswered

\* Numbered in the order in which they were settled, nodes come after their
\* predecessors: following prev always ends, even over edges of cost 0.
Ranked ==
  \E rank \in [Nodes -> 0 .. N - 1] :
    \A v \in explored : /\ rank[v] < Cardinality(explored)
                        /\ v # source => rank[prev[v]] < rank[v]

\* A search without a target returns when nothing reached is left unsettled.
Drained ==
  pc = "done" /\ target = NoNode => \A v \in Nodes \ explored : dist[v] = MaxInt

Inv == IInv /\ Ranked /\ Drained

\* With edges no longer than C, a node is reached within C per settled node.
Budget(C) ==
  /\ graph \in Graphs
  /\ \A v \in explored : dist[v] + C <= Cardinality(explored) * C
  /\ \A v \in Nodes : dist[v] < MaxInt => dist[v] <= Cardinality(explored) * C

\* No path has as many as N edges, so no sum can overflow when N times the
\* longest edge stays below MaxInt.
CostsBounded ==
  \E C \in Nat : /\ N * C < MaxInt
                 /\ \A g \in Graphs : \A e \in Edges(g) : g.costs[e] <= C
=============================================================================

------------------------------ MODULE Dijkstra ------------------------------
(***************************************************************************)
(* One call of Graph::dijkstra (src/src/graph/Graph.cpp), a step per turn  *)
(* of each of its loops: pop the queue, relax the edges of the settled     *)
(* node one by one, walk the predecessors back from the target.            *)
(*                                                                         *)
(* The same search without a target is TransitNodesRouting::dijkstraSSSP,  *)
(* which fills the table of distances between transit nodes: it never      *)
(* stops early and returns dist.  A call with target = NoNode is one of    *)
(* those.                                                                  *)
(***************************************************************************)
EXTENDS ShipGraph, SequencesExt

CONSTANT Graphs
ASSUME GraphsAssumption == \A g \in Graphs : IsGraph(g)

VARIABLES
  graph, source, target,   \* the object and the arguments of the call
  dist, prev,              \* per node: tentative distance, predecessor
  pq,                      \* the priority queue of pairs <<distance, node>>
  explored,                \* the nodes already settled
  pc, u, i,                \* control: the node being settled, its next edge
  currentNode, path,       \* the walk back from the target
  result                   \* the ResultDTO returned

call   == <<graph, source, target>>
search == <<dist, prev, pq, explored, u, i>>
walk   == <<currentNode, path, result>>
vars   == <<call, search, walk, pc>>

(***************************************************************************)
(* Faulty variants of definitions below, to see that the properties notice *)
(* them: every node is queued at the start; the queue has its largest      *)
(* entry on top; an improved node is not queued, or keeps its old          *)
(* predecessor; the walk back does not stop at -1; the path is not         *)
(* reversed.                                                               *)
(***************************************************************************)
Init_AllQueued ==
  /\ graph \in Graphs /\ source \in Nodes /\ target \in Nodes \cup {NoNode}
  /\ dist = [v \in Nodes |-> IF v = source THEN 0 ELSE MaxInt]
  /\ prev = [v \in Nodes |-> NoNode] /\ explored = {}
  /\ pq = {<<dist[v], v>> : v \in Nodes}
  /\ pc = "pop" /\ u = source /\ i = 0
  /\ currentNode = NoNode /\ path = << >>
  /\ result = [path |-> << >>, distance |-> -1]

IsTop_Largest(e) ==
  e \in pq /\ \A f \in pq : e[1] > f[1] \/ (e[1] = f[1] /\ e[2] >= f[2])

RelaxWith(Queue(_, _), Pred(_)) ==
  /\ pc = "relax" /\ i < graph.offsets[u + 1]
  /\ LET v == graph.targets[i]
         altDist == IntAdd(dist[u], graph.costs[i])
     IN IF v \notin explored /\ altDist < dist[v]
        THEN /\ dist' = [dist EXCEPT ![v] = altDist]
             /\ prev' = Pred(v)
             /\ pq' = Queue(altDist, v)
        ELSE UNCHANGED <<dist, prev, pq>>
  /\ i' = i + 1
  /\ UNCHANGED <<call, explored, u, walk, pc>>

Relax_NotQueued ==
  LET Same(d, v) == pq
      Set(v) == [prev EXCEPT ![v] = u]
  IN RelaxWith(Same, Set)

Relax_OldPrev ==
  LET Push(d, v) == pq \cup {<<d, v>>}
      Keep(v) == IF prev[v] = NoNode THEN [prev EXCEPT ![v] = u] ELSE prev
  IN RelaxWith(Push, Keep)

TraceFail_NotTested ==
  pc = "trace" /\ currentNode # source /\ currentNode = NoNode /\ UNCHANGED vars

TraceEnd_NotReversed ==
  /\ pc = "trace" /\ currentNode = source
  /\ result' = [path |-> path, distance |-> dist[target]]
  /\ pc' = "done"
  /\ UNCHANGED <<call, search, currentNode, path>>
-----------------------------------------------------------------------------
Init ==
  /\ graph \in Graphs
  /\ source \in Nodes
  /\ target \in Nodes \cup {NoNode}
  /\ dist = [v \in Nodes |-> IF v = source THEN 0 ELSE MaxInt]
  /\ prev = [v \in Nodes |-> NoNode]
  /\ pq = {<<0, source>>}
  /\ explored = {}
  /\ pc = "pop" /\ u = source /\ i = 0
  /\ currentNode = NoNode /\ path = << >>
  /\ result = [path |-> << >>, distance |-> -1]

\* std::greater on pairs: smallest distance first, then smallest node.
IsTop(e) ==
  /\ e \in pq
  /\ \A f \in pq : e[1] < f[1] \/ (e[1] = f[1] /\ e[2] <= f[2])

Pop(e) == pc = "pop" /\ IsTop(e) /\ pq' = pq \ {e}

\* if (explored[u]) continue;
PopStale ==
  \E e \in pq :
    /\ Pop(e)
    /\ e[2] \in explored
    /\ UNCHANGED <<call, dist, prev, explored, u, i, walk, pc>>

\* if (u == target) break;
PopTarget ==
  \E e \in pq :
    /\ Pop(e)
    /\ e[2] \notin explored /\ e[2] = target
    /\ pc' = "trace" /\ currentNode' = target
    /\ UNCHANGED <<call, dist, prev, explored, u, i, path, result>>

PopSettle ==
  \E e \in pq :
    /\ Pop(e)
    /\ e[2] \notin explored /\ e[2] # target
    /\ explored' = explored \cup {e[2]}
    /\ u' = e[2] /\ i' = graph.offsets[e[2]]
    /\ pc' = "relax"
    /\ UNCHANGED <<call, dist, prev, walk>>

\* One turn of the loop over the edges of u.
Relax ==
  /\ pc = "relax" /\ i < graph.offsets[u + 1]
  /\ LET v == graph.targets[i]
         altDist == IntAdd(dist[u], graph.costs[i])
     IN IF v \notin explored /\ altDist < dist[v]
        THEN /\ dist' = [dist EXCEPT ![v] = altDist]
             /\ prev' = [prev EXCEPT ![v] = u]
             /\ pq' = pq \cup {<<altDist, v>>}
        ELSE UNCHANGED <<dist, prev, pq>>
  /\ i' = i + 1
  /\ UNCHANGED <<call, explored, u, walk, pc>>

RelaxEnd ==
  /\ pc = "relax" /\ i >= graph.offsets[u + 1]
  /\ pc' = "pop"
  /\ UNCHANGED <<call, search, walk>>

\* The queue ran empty: the target was not reached.
Exhausted ==
  /\ pc = "pop" /\ pq = {} /\ target # NoNode
  /\ pc' = "trace" /\ currentNode' = target
  /\ UNCHANGED <<call, search, path, result>>

\* The queue ran empty in dijkstraSSSP: return dist.
SsspReturn ==
  /\ pc = "pop" /\ pq = {} /\ target = NoNode
  /\ pc' = "done"
  /\ UNCHANGED <<call, search, walk>>

TraceStep ==
  /\ pc = "trace" /\ currentNode # source /\ currentNode # NoNode
  /\ path' = Append(path, currentNode)
  /\ currentNode' = prev[currentNode]
  /\ UNCHANGED <<call, search, result, pc>>

\* currentNode == -1: the target can't be reached from source.
TraceFail ==
  /\ pc = "trace" /\ currentNode # source /\ currentNode = NoNode
  /\ result' = [path |-> << >>, distance |-> -1]
  /\ pc' = "done"
  /\ UNCHANGED <<call, search, currentNode, path>>

TraceEnd ==
  /\ pc = "trace" /\ currentNode = source
  /\ result' = [path |-> Reverse(path), distance |-> dist[target]]
  /\ pc' = "done"
  /\ UNCHANGED <<call, search, currentNode, path>>

Return == pc = "done" /\ UNCHANGED vars

Next ==
  \/ PopStale \/ PopTarget \/ PopSettle \/ Relax \/ RelaxEnd
  \/ Exhausted \/ SsspReturn \/ TraceStep \/ TraceFail \/ TraceEnd
  \/ Return

\* The call runs on one thread that never waits: every enabled step is taken.
Spec == Init /\ [][Next]_vars /\ WF_vars(Next)

-----------------------------------------------------------------------------
Entries == (0 .. MaxInt) \X Nodes

TypeOK ==
  /\ IsGraph(graph) /\ source \in Nodes /\ target \in Nodes \cup {NoNode}
  /\ dist \in [Nodes -> 0 .. MaxInt]
  /\ prev \in [Nodes -> Nodes \cup {NoNode}]
  /\ pq \subseteq Entries
  /\ explored \subseteq Nodes
  /\ pc \in {"pop", "relax", "trace", "done"}
  /\ u \in Nodes /\ i \in Nat
  /\ currentNode \in Nodes \cup {NoNode}
  /\ path \in Seq(Nodes)
  /\ result \in [path : Seq(Nodes), distance : -1 .. MaxInt]

(***************************************************************************)
(* No sum leaves the range of int, nor reaches the value that stands for   *)
(* "not reached" (Graph.cpp:117).  The proofs assume it of the network;    *)
(* the runs check it for theirs.                                           *)
(***************************************************************************)
NoOverflow ==
  pc = "relax" /\ i < graph.offsets[u + 1] => dist[u] + graph.costs[i] < MaxInt

\* Nodes are settled in the order of their distance: whatever is still in
\* the queue is at least as far as everything already explored, or the early
\* exit on the target (Graph.cpp:109) would return too long a path.
SettledInOrder ==
  \A v \in explored, e \in pq : dist[v] <= e[1]

\* The call implements the abstract promise: what it returns is a shortest
\* path with its length, or -1 when no path exists (Graph.cpp:126-144).
SP == INSTANCE ShortestPath WITH done <- (pc = "done" /\ target # NoNode)
IsShortestPath == SP!Spec

\* dijkstraSSSP returns every node's distance: nothing reachable is left at
\* MaxInt, nothing unreachable gets a distance (TransitNodesRouting.cpp:91-125).
SsspExact ==
  pc = "done" /\ target = NoNode =>
    dist = RefDistances(graph, source) /\ dist = Distances(graph, source)

\* dijkstra and dijkstraSSSP always return: the queue drains, and the walk
\* over prev reaches source or -1 even across edges of cost 0.
Termination == <>(pc = "done")
=============================================================================

----------------------------- MODULE PathQuery -----------------------------
(***************************************************************************)
(* TransitNodesQuery::path_query on the tables the preprocessing built: a  *)
(* walk forward from the source and one back from the target, each taking  *)
(* the first edge after which the distance query fits what is left of the  *)
(* length, until one of them steps on a node the other has visited.        *)
(*                                                                         *)
(* Only pairs more than eight cells apart get here; for the others         *)
(* path_query returns what Graph::dijkstra returns (module Dijkstra).      *)
(***************************************************************************)
EXTENDS TransitNodes

VARIABLES
  query,       \* "none", "walk", "done"
  source, target,
  fwd, bwd,    \* the walks: path (its last node is u_fwd, u_bwd), remaining length
  pathLength, shopa

QueryAlg(s, t) == TQ!QueryAlg(graph, tnData, s, t)

request == <<query, source, target, fwd, bwd, pathLength, shopa>>

PathInit ==
  /\ Init
  /\ query = "none" /\ source = NoNode /\ target = NoNode
  /\ fwd = [path |-> << >>, rem |-> -1] /\ bwd = fwd
  /\ pathLength = -1 /\ shopa = << >>

Preprocess == Next /\ UNCHANGED request

AskPath ==
  /\ phase = "done" /\ query = "none" /\ query' = "walk"
  /\ source' \in Nodes /\ target' \in Nodes
  /\ ~LessThanNGridCellsAway(graph, source', target', 8)
  /\ pathLength' = QueryAlg(source', target')
  /\ fwd' = [path |-> <<source'>>, rem |-> pathLength']
  /\ bwd' = [path |-> <<target'>>, rem |-> pathLength']
  /\ UNCHANGED <<vars, shopa>>

\* One step of a walk towards goal; the walk stays where it is when its end
\* is near the goal or no edge fits.
\* A faulty variant: the remaining length stays as it was.
Advance_SameLength(walk, goal) ==
  LET u == Last(walk.path)
      fits == {i \in OutEdges(graph, u) :
                 QueryAlg(graph.targets[i], goal) + graph.costs[i] = walk.rem}
  IN IF LessThanNGridCellsAway(graph, u, goal, 4) \/ fits = {} THEN walk
     ELSE [walk EXCEPT !.path = Append(@, graph.targets[LeastOf(fits, NoNode)])]

Advance(walk, goal) ==
  LET u == Last(walk.path)
      fits == {i \in OutEdges(graph, u) :
                 QueryAlg(graph.targets[i], goal) + graph.costs[i] = walk.rem}
      i == LeastOf(fits, NoNode)
  IN IF LessThanNGridCellsAway(graph, u, goal, 4) \/ fits = {} THEN walk
     ELSE [path |-> Append(walk.path, graph.targets[i]), rem |-> walk.rem - graph.costs[i]]

\* One turn of the loop: both walks advance, then the tests whether to stop.
Meet(f, b) == Last(b.path) \in Range(f.path) \/ Last(f.path) \in Range(b.path)

\* Faulty variants: the backward half is not reversed; the loop does not stop
\* when neither walk advances.
Turn_NotReversed ==
  /\ query = "walk"
  /\ fwd' = Advance(fwd, target) /\ bwd' = Advance(bwd, source)
  /\ IF Meet(fwd', bwd') THEN query' = "done" /\ shopa' = Front(fwd'.path) \o bwd'.path
                         ELSE UNCHANGED <<query, shopa>>
  /\ UNCHANGED <<vars, source, target, pathLength>>

Turn_NoProgress ==
  /\ query = "walk"
  /\ fwd' = Advance(fwd, target) /\ bwd' = Advance(bwd, source)
  /\ IF Meet(fwd', bwd') THEN query' = "done" /\ shopa' = Front(fwd'.path) \o Reverse(bwd'.path)
                         ELSE UNCHANGED <<query, shopa>>
  /\ UNCHANGED <<vars, source, target, pathLength>>

Turn ==
  /\ query = "walk"
  /\ fwd' = Advance(fwd, target)
  /\ bwd' = Advance(bwd, source)
  /\ LET noProgress == fwd' = fwd /\ bwd' = bwd
     IN /\ pathLength' = IF noProgress THEN -1 ELSE pathLength
        /\ IF noProgress \/ Meet(fwd', bwd')
           THEN /\ query' = "done"
                /\ shopa' = Front(fwd'.path) \o Reverse(bwd'.path)
           ELSE UNCHANGED <<query, shopa>>
  /\ UNCHANGED <<vars, source, target>>

PathNext == Preprocess \/ AskPath \/ Turn

PathSpec == PathInit /\ [][PathNext]_<<vars, request>> /\ WF_<<vars, request>>(Turn)
-----------------------------------------------------------------------------
\* What path_query takes for granted: whatever the distance queries answer it is
\* not less than the distance and not a sentinel that could be mistaken for a
\* length (-1 is what query_alg answers for "not connected", INT_MAX what
\* Dijkstra's search does), and it is the distance where query would ask the tables.
TablesFit ==
  phase = "done" /\ query = "none" =>
    \A s, t \in Nodes :
      /\ QueryAlg(s, t) \in TrueDistance(s, t) .. MaxInt - 1
      /\ ~LessThanNGridCellsAway(graph, s, t, 4) => QueryAlg(s, t) = TrueDistance(s, t)

Walking == query = "walk"
Found == query = "done" /\ pathLength # -1

\* A walk has spent what its path costs: what is left of the length is the
\* distance of its end from the goal.
RemainingIsDistance ==
  Walking => /\ fwd.rem = TrueDistance(Last(fwd.path), target)
             /\ bwd.rem = TrueDistance(Last(bwd.path), source)

\* What is returned with a length is a shortest path: it starts and ends where
\* it should and every step is an edge that brings it nearer to the target by
\* its cost (the node where the walks met may be there twice).
PathIsShortest ==
  Found =>
    /\ pathLength = TrueDistance(source, target)
    /\ shopa[1] = source /\ Last(shopa) = target
    /\ \A k \in 1 .. Len(shopa) - 1 :
         \/ shopa[k] = shopa[k + 1]
         \/ \E e \in OutEdges(graph, shopa[k]) :
              /\ graph.targets[e] = shopa[k + 1]
              /\ TrueDistance(shopa[k], target) = graph.costs[e] + TrueDistance(shopa[k + 1], target)

\* The loop of path_query ends: as long as one walk advances the other need
\* not, and with costs above zero neither can go around in circles.
WalksEnd == Walking ~> query = "done"
=============================================================================

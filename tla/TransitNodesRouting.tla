------------------------ MODULE TransitNodesRouting ------------------------
(***************************************************************************)
(* The preprocessing of TransitNodesRouting::sweepLineTransitNodesMain: a  *)
(* sweep over the vertical, then over the horizontal grid lines.  Each     *)
(* line collects the nodes v of the edges that cross it, searches around   *)
(* every v, and for each pair of boundary nodes on the two sides makes the *)
(* v of the shortest connection a transit node of the cells on both sides. *)
(*                                                                         *)
(* The code numbers transit nodes in the order they are found and keeps    *)
(* vectors indexed by these numbers; here a transit node is its graph node *)
(* and the vectors are sets and functions.                                 *)
(***************************************************************************)
EXTENDS SingleTnPass

CONSTANTS
  Networks,   \* the graphs, with cells, to run on
  Unset       \* 2000000000: no distance known (also "no minimum found yet")

VARIABLES
  graph, edgeBuckets,
  phase,                 \* "buckets", "sweep", "find", "collect", "done"
  line,                  \* vertical lines 0 .. GridSize - 1, then the horizontal ones
  todo, tables,          \* the pass: nodes v still to process, what it stored
  pairs,                 \* pairs of boundary nodes still to be looked at
  transitNodeTmp,        \* the transit nodes found
  transitNodesOfCells,   \* <<column, row, transit node>>
  localTransitNodes,     \* <<node, transit node>> :> distance, the last one stored
  tnData                 \* the result

vars == <<graph, edgeBuckets, phase, line, todo, tables, pairs,
          transitNodeTmp, transitNodesOfCells, localTransitNodes, tnData>>

Axis(k) == IF k < GridSize THEN "vertical" ELSE "horizontal"

NoData == [cells |-> {}, local |-> << >>, between |-> << >>]

Init ==
  /\ graph \in Networks
  /\ edgeBuckets = << >> /\ phase = "buckets" /\ line = 0
  /\ todo = << >> /\ tables = NewTables /\ pairs = {}
  /\ transitNodeTmp = {} /\ transitNodesOfCells = {} /\ localTransitNodes = << >>
  /\ tnData = NoData

FindEdgeBuckets ==
  /\ phase = "buckets"
  /\ edgeBuckets' = EdgeBuckets(graph)
  /\ phase' = "sweep"
  /\ todo' = SweepNodes(graph, edgeBuckets', Axis(0), 0)
  /\ UNCHANGED <<graph, line, tables, pairs, transitNodeTmp, transitNodesOfCells,
                 localTransitNodes, tnData>>

\* singleSweepLinePass, one node v.
SweepNode ==
  /\ phase = "sweep" /\ todo # << >>
  /\ tables' = ProcessSingleNode(graph, edgeBuckets, Axis(line), Head(todo), tables)
  /\ todo' = Tail(todo)
  /\ UNCHANGED <<graph, edgeBuckets, phase, line, pairs, transitNodeTmp,
                 transitNodesOfCells, localTransitNodes, tnData>>

\* Cells more than four apart along the line are skipped; the second part is
\* for the antimeridian.
TooFar(a, b) == Apart(a, b) > 4 /\ GridSize - Apart(a, b) > 4

SweepDone ==
  /\ phase = "sweep" /\ todo = << >>
  /\ pairs' = {p \in (DOMAIN tables.first.negative) \X (DOMAIN tables.first.positive) :
                 ~TooFar(tables.first.negative[p[1]], tables.first.positive[p[2]])}
  /\ phase' = "find"
  /\ UNCHANGED <<graph, edgeBuckets, line, todo, tables, transitNodeTmp,
                 transitNodesOfCells, localTransitNodes, tnData>>

\* The sums compared for a pair: over every v that stored both distances.
Common(p) == {v \in DOMAIN tables.distancesToNearest :
                /\ <<"negative", p[1], v>> \in DOMAIN tables.distanceToV
                /\ <<"positive", p[2], v>> \in DOMAIN tables.distanceToV}

Sum(p, v) == IntAdd(tables.distanceToV[<<"negative", p[1], v>>],
                    tables.distanceToV[<<"positive", p[2], v>>])

\* The loop runs over an unordered set: any of the v with the least sum may
\* be the first one met.
\* A faulty variant: any v with a sum at all.
Nearest_Any(p) == {v \in Common(p) : Sum(p, v) < Unset}

Nearest(p) ==
  {v \in Common(p) : Sum(p, v) < Unset /\ \A w \in Common(p) : Sum(p, v) <= Sum(p, w)}

\* The cells a boundary node n stands for: those of the ends of its boundary
\* edges along the line, in the column (row) of the neighbour on that side.
\* A faulty variant: the column is not taken modulo the grid.
CellsOf_NotWrapped(side, n) ==
  LET ends == UNION {{graph.sources[e], graph.targets[e]} : e \in tables.boundaryEdges[n]}
      k == IF side = "negative" THEN line - 3 ELSE line + 2
  IN IF Axis(line) = "vertical" THEN {<<k, graph.cellY[w]>> : w \in ends}
                                ELSE {<<graph.cellX[w], k>> : w \in ends}

CellsOf(side, n) ==
  LET ends == UNION {{graph.sources[e], graph.targets[e]} : e \in tables.boundaryEdges[n]}
      k == (IF side = "negative" THEN line + GridSize - 3
                                 ELSE line + 2) % GridSize
  IN IF Axis(line) = "vertical" THEN {<<k, graph.cellY[w]>> : w \in ends}
                                ELSE {<<graph.cellX[w], k>> : w \in ends}

\* findTransitNodes, one pair.  The order of the pairs only decides on the
\* numbering of the transit nodes.
FindTransitNode ==
  /\ phase = "find" /\ pairs # {}
  /\ LET p == CHOOSE x \in pairs : TRUE
     IN /\ pairs' = pairs \ {p}
        /\ \/ /\ Nearest(p) = {}
              /\ UNCHANGED <<transitNodeTmp, transitNodesOfCells>>
           \/ \E v \in Nearest(p) :
                /\ transitNodeTmp' = transitNodeTmp \cup {v}
                /\ transitNodesOfCells' = transitNodesOfCells \cup
                     {<<c[1], c[2], v>> : c \in CellsOf("negative", p[1]) \cup CellsOf("positive", p[2])}
  /\ UNCHANGED <<graph, edgeBuckets, phase, line, todo, tables, localTransitNodes, tnData>>

HasTransitNode(n, t) == <<graph.cellX[n], graph.cellY[n], t>> \in transitNodesOfCells

\* assignDistances, and on to the next line.  What an earlier line stored for
\* the same node and transit node is superseded: the last one wins.
AssignDistances ==
  /\ phase = "find" /\ pairs = {}
  /\ LET near == tables.distancesToNearest
         found == {k \in Nodes \X (transitNodeTmp \cap DOMAIN near) :
                     near[k[2]][k[1]] < MaxInt /\ HasTransitNode(k[1], k[2])}
     IN localTransitNodes' = Overlay([k \in found |-> near[k[2]][k[1]]], localTransitNodes)
  /\ tables' = NewTables
  /\ line' = line + 1
  /\ IF line + 1 < 2 * GridSize
     THEN /\ phase' = "sweep"
          /\ todo' = SweepNodes(graph, edgeBuckets, Axis(line + 1), (line + 1) % GridSize)
     ELSE phase' = "collect" /\ UNCHANGED todo
  /\ UNCHANGED <<graph, edgeBuckets, pairs, transitNodeTmp, transitNodesOfCells, tnData>>

\* collectTransitNodes, computeDistancesBetweenTransitNodes (one SSSP search
\* per transit node) and postprocessTransitNodes.
Collect ==
  /\ phase = "collect" /\ phase' = "done"
  /\ LET needed == {k \in Nodes \X transitNodeTmp : HasTransitNode(k[1], k[2])}
     IN tnData' = [ cells   |-> transitNodesOfCells,
                    local   |-> [k \in needed |-> IF k \in DOMAIN localTransitNodes
                                                  THEN localTransitNodes[k] ELSE Unset],
                    between |-> [t \in transitNodeTmp |-> Distances(graph, t)] ]
  /\ UNCHANGED <<graph, edgeBuckets, line, todo, tables, pairs, transitNodeTmp,
                 transitNodesOfCells, localTransitNodes>>

Done == phase = "done" /\ UNCHANGED vars

Next == \/ FindEdgeBuckets \/ SweepNode \/ SweepDone \/ FindTransitNode
        \/ AssignDistances \/ Collect \/ Done

Spec == Init /\ [][Next]_vars
=============================================================================

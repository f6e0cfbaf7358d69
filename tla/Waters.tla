------------------------------- MODULE Waters -------------------------------
(***************************************************************************)
(* Families of small networks for the runs.  A road <<v, w, c>> is a pair  *)
(* of edges in the two directions, as the generator makes them.            *)
(***************************************************************************)
EXTENDS TransitCells

Lines(roads) ==
  LET both == roads \cup {<<r[2], r[1], r[3]>> : r \in roads}
  IN FlattenSeq([v \in 1 .. N |-> SetToSeq({r \in both : r[1] = v - 1})])

Network(cell(_), roads) ==
  BuildFromFMI(Lines(roads)) @@
    [cellX |-> [v \in Nodes |-> cell(v)[1]], cellY |-> [v \in Nodes |-> cell(v)[2]]]

\* The places along a road may be numbered from either end: "the node with the
\* smaller number" is then on the one or on the other side of a border.
Numberings == {[k \in Nodes |-> k], [k \in Nodes |-> N - 1 - k]}

\* Every other place has a smaller number than its neighbours on both sides.
Alternating == [k \in Nodes |-> IF k % 2 = 1 THEN N - k ELSE k]

East == <<1, 0>>
South == <<0, 1>>
Stay == <<0, 0>>
Slants == {<<1, 1>>, <<1, -1>>}

\* The cells of a walk from start with the given steps.
Walk(start, steps) ==
  LET at[k \in 0 .. Len(steps)] ==
        IF k = 0 THEN start
        ELSE LET last == at[k - 1]
             IN <<(last[1] + steps[k][1] + GridSize) % GridSize, last[2] + steps[k][2]>>
  IN at

\* A single coast road along a walk; the costs of its parts alternate 1, 2.  The
\* other nodes have no edges: they are ponds, all in one cell.
Course(walk, number) ==
  LET road == DOMAIN walk
  IN Network(LAMBDA v : IF v \in road THEN walk[number[v]] ELSE <<GridSize - 5, 4>>,
             {<<number[k - 1], number[k], 2 - (k % 2)>> : k \in road \ {0}})

Coasts(length, columns, row, Steps) ==
  LET road == 0 .. length - 1
  IN {Course(w, f) : f \in {[k \in road |-> k], [k \in road |-> length - 1 - k]},
        w \in {x \in {Walk(<<o, row>>, s) : o \in columns, s \in [1 .. length - 1 -> Steps]} :
                 \A k \in road : x[k][2] \in 3 .. GridSize \div 2}}

\* No node has an edge to another column and an edge to another row.
NoCorner(g) ==
  \A e, f \in Edges(g) :
    g.sources[e] = g.sources[f] => VerticalLines(g, e) = {} \/ HorizontalLines(g, f) = {}

\* A road around the globe, one node per column, with a slow part that is worth
\* going around at some column and a less slow one.
Rings(columns, slowParts) ==
  {Network(LAMBDA v : <<(o + f[v]) % GridSize, 4>>,
           {<<f[k], f[(k + 1) % N], IF k = 0 THEN 20 ELSE IF k = slow THEN 3 ELSE 1>> : k \in Nodes})
     : f \in Numberings \cup {Alternating}, o \in columns, slow \in slowParts}

\* Two parallel lanes through the same cells, joined where R says; the cost of
\* the parts of the second lane is 3, except for the fast ones.
Lanes(columns, R, fast) ==
  LET half == N \div 2
  IN {Network(LAMBDA v : <<(o + (f[v] % half)) % GridSize, 4>>,
              {<<f[k], f[k + 1], 2>> : k \in 0 .. half - 2} \cup
              {<<f[k], f[k + 1], IF k - half \in fast THEN 1 ELSE 3>> : k \in half .. N - 2} \cup
              {<<f[k], f[k + half], 1>> : k \in R})
        : f \in Numberings \cup {Alternating}, o \in columns}

(***************************************************************************)
(* A road around an island: width parts along a straight shore, then to a  *)
(* cape half as many rows and columns away, and back; two nodes at each    *)
(* turn, more at the last one.  dir is 1 for a cape in the south and -1    *)
(* for one in the north; the parts along the shore and those around the    *)
(* cape cost what costs says.  Searches from the shore are cut off on the  *)
(* way around the cape, where it leaves the cross in column and row.       *)
(***************************************************************************)
Islands(width, corner, dir, costs) ==
  LET half == width \div 2
      there == width + 2 .. width + 1 + half
      back == width + 3 + half .. width + 2 + 2 * half
      walk == Walk(corner, [k \in 1 .. N - 1 |->
                IF k <= width THEN East
                ELSE IF k \in there THEN <<-1, dir>>
                ELSE IF k \in back THEN <<-1, -dir>> ELSE Stay])
  IN {Network(LAMBDA v : walk[f[v]],
              {<<f[k], f[(k + 1) % N], IF k <= width THEN costs[1] ELSE costs[2]>> : k \in Nodes})
        : f \in Numberings \cup {Alternating}}
=============================================================================

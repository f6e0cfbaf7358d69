--------------------------- MODULE DijkstraProofs ---------------------------
(***************************************************************************)
(* Proofs about module Dijkstra for every network, source and target.      *)
(***************************************************************************)
EXTENDS DijkstraInvariant, ShipGraphProofs

LEMMA InitInv == Init => IInv
<1> SUFFICES ASSUME Init PROVE IInv
  OBVIOUS
<1> USE SizeAssumption
<1>1. TypeOK
  BY GraphsAssumption DEF Init, TypeOK, Nodes, NoNode, Entries
<1>2. Root /\ Tree /\ Unanswered
  BY DEF Init, Root, Tree, Unanswered, Nodes, NoNode
<1>3. QueueCovers
  BY DEF Init, QueueCovers, Searching, Nodes
<1>4. Frontier /\ Settled /\ Cut /\ Chain
  BY DEF Init, Frontier, SettledInOrder, Settled, Cut, Answering, Chain
<1> QED BY <1>1, <1>2, <1>3, <1>4 DEF IInv

-----------------------------------------------------------------------------
LEMMA PopStaleInv == IInv /\ PopStale => IInv'
<1> SUFFICES ASSUME IInv, NEW e \in pq, Pop(e), e[2] \in explored,
                    UNCHANGED <<call, dist, prev, explored, u, i, walk, pc>>
             PROVE  IInv'
  BY DEF PopStale
<1> USE DEF IInv, call, walk
<1>1. TypeOK'
  BY DEF TypeOK, Pop
<1>2. Root' /\ Tree' /\ Cut'
  BY DEF Root, Tree, TightEdge, Cut, Answering
<1>3. Settled'
  BY DEF Settled, Pending
<1>4. Chain' /\ Unanswered'
  BY DEF Chain, Unanswered, Searching, Pop
<1>5. QueueCovers'
  BY DEF QueueCovers, Searching, Pop
<1>6. Frontier'
  BY DEF Frontier, SettledInOrder, Pop
<1> QED BY <1>1, <1>2, <1>3, <1>4, <1>5, <1>6

\* The entry on top is that of its node's present distance, unless it is stale.
LEMMA TopIsCurrent ==
  ASSUME IInv, NEW e \in pq, Pop(e), e[2] \notin explored
  PROVE  /\ e = <<e[1], e[2]>> /\ e[2] \in Nodes /\ e[1] \in 0 .. MaxInt - 1
         /\ dist[e[2]] = e[1]
         /\ \A v \in Nodes \ explored : dist[e[2]] <= dist[v]
         /\ \A v \in explored : dist[v] <= dist[e[2]]
         /\ \A f \in pq : dist[e[2]] <= f[1]
<1> USE SizeAssumption DEF IInv
<1>1. e = <<e[1], e[2]>> /\ e[2] \in Nodes /\ e[1] \in 0 .. MaxInt - 1
  BY DEF TypeOK, QueueCovers, Entries
<1>2. <<dist[e[2]], e[2]>> \in pq /\ dist[e[2]] <= e[1]
  BY <1>1 DEF QueueCovers, Searching, Pop, TypeOK
<1>3. ASSUME NEW f \in pq PROVE e[1] <= f[1]
  <2>1. f[1] \in 0 .. MaxInt
    BY DEF TypeOK, Entries
  <2> QED BY <1>1, <2>1 DEF Pop, IsTop
<1>4. dist[e[2]] = e[1]
  BY <1>1, <1>2, <1>3 DEF TypeOK
<1>5. ASSUME NEW v \in Nodes \ explored PROVE dist[e[2]] <= dist[v]
  <2>1. dist[v] \in 0 .. MaxInt
    BY DEF TypeOK
  <2>2. CASE dist[v] < MaxInt
    <3>1. <<dist[v], v>> \in pq
      BY <2>2 DEF QueueCovers, Searching, Pop
    <3> QED BY <1>3, <1>4, <3>1
  <2>3. CASE dist[v] = MaxInt
    BY <1>1, <1>4, <2>3
  <2> QED BY <2>1, <2>2, <2>3
<1>6. \A v \in explored : dist[v] <= dist[e[2]]
  BY <1>4 DEF Frontier, SettledInOrder
<1> QED BY <1>1, <1>3, <1>4, <1>5, <1>6

LEMMA PopTargetInv == IInv /\ PopTarget => IInv'
<1> SUFFICES ASSUME IInv, NEW e \in pq, Pop(e), e[2] \notin explored, e[2] = target,
                    pc' = "trace", currentNode' = target,
                    UNCHANGED <<call, dist, prev, explored, u, i, path, result>>
             PROVE  IInv'
  BY DEF PopTarget
<1> USE SizeAssumption DEF IInv, call
<1>0. target \in Nodes /\ dist[target] \in 0 .. MaxInt - 1
  BY TopIsCurrent
<1>1. TypeOK'
  BY DEF TypeOK, Pop
<1>2. Root' /\ Tree'
  BY DEF Root, Tree, TightEdge
<1>3. Settled'
  BY DEF Settled, Pending, Pop
<1>4. QueueCovers' /\ Unanswered'
  BY DEF QueueCovers, Searching, Unanswered, Pop
<1>5. Frontier'
  BY DEF Frontier, SettledInOrder, Pop
<1>6. Cut'
  BY TopIsCurrent DEF Cut
<1>7. Chain'
  BY <1>0 DEF Chain, TypeOK, Nodes, NoNode, Unanswered, Searching, Pop
<1> QED BY <1>1, <1>2, <1>3, <1>4, <1>5, <1>6, <1>7

LEMMA PopSettleInv == IInv /\ PopSettle => IInv'
<1> SUFFICES ASSUME IInv, NEW e \in pq, Pop(e), e[2] \notin explored, e[2] # target,
                    explored' = explored \cup {e[2]},
                    u' = e[2], i' = graph.offsets[e[2]], pc' = "relax",
                    UNCHANGED <<call, dist, prev, walk>>
             PROVE  IInv'
  BY DEF PopSettle
<1> USE SizeAssumption DEF IInv, call, walk
<1>0. /\ e[2] \in Nodes /\ dist[e[2]] = e[1] /\ dist[e[2]] < MaxInt
      /\ \A v \in explored : dist[v] <= dist[e[2]]
      /\ \A f \in pq : dist[e[2]] <= f[1]
  BY TopIsCurrent
<1>1. graph.offsets[e[2]] \in Nat
  BY <1>0, OffsetFacts DEF TypeOK
<1>2. TypeOK'
  BY <1>0, <1>1 DEF TypeOK, Pop
<1>3. Root' /\ Tree'
  BY DEF Root, Tree, TightEdge
<1>4. QueueCovers'
  BY DEF QueueCovers, Searching, Pop, TypeOK, Entries
<1>5. Frontier'
  <2>1. SettledInOrder'
    BY <1>0 DEF Frontier, SettledInOrder, Pop
  <2>2. dist[e[2]] <= dist[e[2]]
    BY <1>0 DEF TypeOK
  <2>3. \A v \in explored' : dist[v] <= dist[e[2]]
    BY <1>0, <2>2
  <2>4. graph.offsets[e[2]] \in OutEdges(graph, e[2]) \cup {graph.offsets[e[2] + 1]}
    <3>1. /\ graph.offsets[e[2] + 1] \in Nat
          /\ graph.offsets[e[2]] <= graph.offsets[e[2] + 1]
      BY <1>0, OffsetFacts DEF TypeOK
    <3> QED BY <1>1, <3>1 DEF OutEdges
  <2> QED BY <2>1, <2>3, <2>4 DEF Frontier
<1>6. Settled'
  <2>1. ASSUME NEW f \in Edges(graph), graph.sources[f] = e[2] PROVE Pending(f)'
    <3>1. f \in OutEdges(graph, e[2])
      BY <1>0, <2>1 DEF TypeOK, IsGraph
    <3>2. f >= graph.offsets[e[2]]
      BY <1>1, <3>1 DEF OutEdges
    <3> QED BY <2>1, <3>2 DEF Pending
  <2>2. ASSUME NEW f \in Edges(graph) PROVE ~Pending(f)
    BY DEF Pending, Pop
  <2> QED BY <1>0, <2>1, <2>2 DEF Settled
<1>7. Cut' /\ Chain' /\ Unanswered'
  BY DEF Cut, Answering, Chain, Unanswered, Searching, Pop
<1> QED BY <1>2, <1>3, <1>4, <1>5, <1>6, <1>7

LEMMA RelaxEndInv == IInv /\ RelaxEnd => IInv'
<1> SUFFICES ASSUME IInv, RelaxEnd PROVE IInv'
  OBVIOUS
<1> USE SizeAssumption DEF IInv, call, search, walk, RelaxEnd
<1>1. TypeOK'
  BY DEF TypeOK
<1>2. Root' /\ Tree' /\ Cut'
  BY DEF Root, Tree, TightEdge, Cut, Answering
<1>3. QueueCovers' /\ Chain' /\ Unanswered'
  BY DEF QueueCovers, Searching, Chain, Unanswered
<1>4. Frontier'
  BY DEF Frontier, SettledInOrder
<1>5. Settled'
  <2>1. ASSUME NEW f \in Edges(graph) PROVE ~Pending(f)
    <3>1. graph.offsets[u + 1] \in Nat
      BY OffsetFacts DEF TypeOK
    <3>2. graph.sources[f] = u => f < graph.offsets[u + 1]
      BY <3>1 DEF TypeOK, IsGraph, OutEdges
    <3> QED BY <3>1, <3>2 DEF Pending, TypeOK, Edges
  <2> QED BY <2>1 DEF Settled
<1> QED BY <1>1, <1>2, <1>3, <1>4, <1>5

LEMMA ExhaustedInv == IInv /\ Exhausted => IInv'
<1> SUFFICES ASSUME IInv, Exhausted PROVE IInv'
  OBVIOUS
<1> USE SizeAssumption DEF IInv, call, search, Exhausted
<1>1. target \in Nodes /\ dist[target] \in 0 .. MaxInt
  BY DEF TypeOK
<1>2. \A v \in Nodes \ explored : dist[v] = MaxInt
  BY DEF QueueCovers, Searching, TypeOK
<1>3. TypeOK'
  BY <1>1 DEF TypeOK
<1>4. Root' /\ Tree'
  BY DEF Root, Tree, TightEdge
<1>5. QueueCovers' /\ Frontier' /\ Unanswered'
  BY DEF QueueCovers, Frontier, SettledInOrder, Searching, Unanswered
<1>6. Settled'
  BY DEF Settled, Pending
<1>7. Cut'
  <2>1. dist[target] = MaxInt
    BY <1>1, <1>2 DEF Settled
  <2>2. \A v \in Nodes \ explored : dist[target] <= dist[v]
    BY <1>2, <2>1
  <2>3. \A v \in explored : dist[v] <= dist[target]
    BY <2>1 DEF Settled, TypeOK
  <2> QED BY <2>2, <2>3 DEF Cut
<1>8. Chain'
  <2>1. target \notin explored
    BY DEF Settled
  <2>2. dist[target] = MaxInt
    BY <1>1, <1>2, <2>1
  <2> QED BY <2>2 DEF Chain
<1> QED BY <1>3, <1>4, <1>5, <1>6, <1>7, <1>8

LEMMA SsspReturnInv == IInv /\ SsspReturn => IInv'
<1> SUFFICES ASSUME IInv, SsspReturn PROVE IInv'
  OBVIOUS
<1> USE DEF IInv, call, search, walk, SsspReturn
<1>1. TypeOK' /\ Root' /\ Tree'
  BY DEF TypeOK, Root, Tree, TightEdge
<1>2. QueueCovers' /\ Frontier' /\ Cut' /\ Chain' /\ Unanswered'
  BY DEF QueueCovers, Frontier, SettledInOrder, Searching, Cut, Answering, Chain, Unanswered
<1>3. Settled'
  BY DEF Settled, Pending
<1> QED BY <1>1, <1>2, <1>3

-----------------------------------------------------------------------------
\* One edge of the settled node u, when the sum does not overflow.
LEMMA RelaxInv == IInv /\ NoOverflow /\ Relax => IInv'
<1> SUFFICES ASSUME IInv, NoOverflow, Relax PROVE IInv'
  OBVIOUS
<1> DEFINE v   == graph.targets[i]
           alt == dist[u] + graph.costs[i]
           better == v \notin explored /\ alt < dist[v]
<1> USE SizeAssumption DEF IInv
<1>1. /\ u \in Nodes /\ u \in explored /\ dist[u] \in 0 .. MaxInt - 1
      /\ \A w \in explored : dist[w] <= dist[u]
  BY DEF TypeOK, Relax, Frontier, Settled
<1>2. /\ graph.offsets[u] \in Nat /\ graph.offsets[u + 1] \in Nat
      /\ i \in OutEdges(graph, u) /\ i \in Nat
  BY <1>1, OffsetFacts DEF TypeOK, Relax, Frontier
<1>3. /\ i \in Edges(graph) /\ graph.sources[i] = u
      /\ v \in Nodes /\ graph.costs[i] \in Nat
  BY <1>1, <1>2, OutEdgeFacts DEF TypeOK
<1>4. alt \in Nat /\ alt < MaxInt /\ dist[u] <= alt /\ IntAdd(dist[u], graph.costs[i]) = alt
  BY <1>1, <1>3 DEF NoOverflow, Relax, IntAdd
<1>5. dist[v] \in 0 .. MaxInt
  BY <1>3 DEF TypeOK
<1> HIDE DEF v, alt
<1>6. /\ pc = "relax" /\ pc' = "relax" /\ i' = i + 1
      /\ UNCHANGED <<graph, source, target, explored, u, currentNode, path, result>>
  BY DEF Relax, call, walk
<1>7. CASE better
  <2>1. /\ dist' = [dist EXCEPT ![v] = alt]
        /\ prev' = [prev EXCEPT ![v] = u]
        /\ pq' = pq \cup {<<alt, v>>}
    BY <1>4, <1>7 DEF Relax, v
  <2>2. v # source
    BY <1>4, <1>7 DEF Root
  <2>3. \A w \in explored : dist'[w] = dist[w] /\ prev'[w] = prev[w]
    BY <1>7, <2>1 DEF TypeOK
  <2>4. \A w \in Nodes : dist'[w] <= dist[w] /\ (w # v => dist'[w] = dist[w] /\ prev'[w] = prev[w])
    BY <1>3, <1>4, <1>5, <1>7, <2>1 DEF TypeOK
  <2>5. dist'[v] = alt /\ prev'[v] = u
    BY <1>3, <2>1 DEF TypeOK
  <2>6. TypeOK'
    <3>1. dist' \in [Nodes -> 0 .. MaxInt] /\ prev' \in [Nodes -> Nodes \cup {NoNode}]
      BY <1>1, <1>3, <1>4, <2>1 DEF TypeOK
    <3>2. pq' \subseteq Entries
      BY <1>3, <1>4, <2>1 DEF TypeOK, Entries
    <3>3. i' \in Nat
      BY <1>2, <1>6
    <3> QED BY <1>6, <3>1, <3>2, <3>3 DEF TypeOK
  <2>7. Root'
    BY <1>3, <1>6, <2>2, <2>4 DEF Root, TypeOK
  <2>8. Tree'
    <3> SUFFICES ASSUME NEW w \in Nodes
                 PROVE  /\ prev'[w] # NoNode =>
                             /\ prev'[w] \in explored
                             /\ \E e \in Edges(graph) :
                                  /\ graph.sources[e] = prev'[w] /\ graph.targets[e] = w
                                  /\ dist'[w] = dist'[prev'[w]] + graph.costs[e]
                        /\ dist'[w] < MaxInt <=> (prev'[w] # NoNode \/ w = source)
      BY <1>6 DEF Tree, TightEdge
    <3>1. CASE w = v
      <4>1. dist'[w] = dist'[u] + graph.costs[i] /\ graph.targets[i] = w
        BY <1>1, <2>3, <2>5, <3>1 DEF alt, v
      <4>2. u # NoNode
        BY <1>1 DEF Nodes, NoNode
      <4> QED BY <1>1, <1>3, <1>4, <2>5, <3>1, <4>1, <4>2
    <3>2. CASE w # v
      BY <2>3, <2>4, <3>2 DEF Tree, TightEdge
    <3> QED BY <3>1, <3>2
  <2>9. QueueCovers'
    <3>1. ASSUME NEW w \in Nodes \ explored, dist'[w] < MaxInt PROVE <<dist'[w], w>> \in pq'
      BY <1>6, <2>1, <2>4, <2>5, <3>1 DEF QueueCovers, Searching
    <3>2. ASSUME NEW e \in pq' PROVE dist'[e[2]] <= e[1] /\ e[1] < MaxInt
      <4>1. CASE e \in pq
        <5>1. e[2] \in Nodes /\ e[1] \in Nat /\ dist[e[2]] \in Nat /\ dist'[e[2]] \in Nat
          <6>1. e[2] \in Nodes /\ e[1] \in Nat
            BY <4>1 DEF TypeOK, Entries
          <6>2. dist \in [Nodes -> 0 .. MaxInt] /\ dist' \in [Nodes -> 0 .. MaxInt]
            BY <2>6 DEF TypeOK
          <6> QED BY <6>1, <6>2
        <5> QED BY <2>4, <4>1, <5>1 DEF QueueCovers
      <4>2. CASE e = <<alt, v>>
        BY <1>4, <2>5, <4>2
      <4> QED BY <2>1, <4>1, <4>2
    <3> QED BY <1>6, <3>1, <3>2 DEF QueueCovers
  <2>10. SettledInOrder'
    <3> SUFFICES ASSUME NEW w \in explored, NEW e \in pq' PROVE dist'[w] <= e[1]
      BY <1>6 DEF SettledInOrder
    <3>1. CASE e \in pq
      BY <2>3, <3>1 DEF Frontier, SettledInOrder
    <3>2. CASE e = <<alt, v>>
      <4>1. dist[w] \in Nat /\ dist[w] <= dist[u]
        BY <1>1 DEF TypeOK
      <4> QED BY <1>1, <1>4, <2>3, <3>2, <4>1
    <3> QED BY <2>1, <3>1, <3>2
  <2>11. Frontier'
    <3>1. i + 1 \in OutEdges(graph, u) \cup {graph.offsets[u + 1]}
      BY <1>2 DEF OutEdges
    <3>2. \A w \in explored : dist'[w] <= dist'[u]
      BY <1>1, <2>3
    <3> QED BY <1>1, <1>6, <2>10, <3>1, <3>2 DEF Frontier
  <2>12. Settled'
    <3>1. \A w \in explored : dist'[w] < MaxInt
      BY <2>3 DEF Settled
    <3>2. ASSUME NEW e \in Edges(graph), graph.sources[e] \in explored, ~Pending(e)'
          PROVE  /\ dist'[graph.targets[e]] <= dist'[graph.sources[e]] + graph.costs[e]
                 /\ dist'[graph.targets[e]] < MaxInt
      <4>0. /\ graph.targets[e] \in Nodes /\ graph.costs[e] \in Nat /\ e \in Int
            /\ dist[graph.targets[e]] \in Nat /\ dist'[graph.targets[e]] \in Nat
            /\ dist[graph.sources[e]] \in Nat
        <5>1. graph.targets[e] \in Nodes /\ graph.sources[e] \in Nodes /\ graph.costs[e] \in Nat
          BY DEF TypeOK, IsGraph
        <5>2. dist \in [Nodes -> 0 .. MaxInt] /\ dist' \in [Nodes -> 0 .. MaxInt]
          BY <2>6 DEF TypeOK
        <5> QED BY <5>1, <5>2 DEF Edges
      <4>1. CASE ~Pending(e)
        BY <2>3, <2>4, <3>2, <4>0, <4>1 DEF Settled
      <4>2. CASE e = i
        BY <1>1, <1>3, <1>4, <2>3, <2>5, <4>2 DEF alt, v
      <4>3. Pending(e) => e = i
        BY <1>2, <1>6, <3>2, <4>0 DEF Pending
      <4> QED BY <4>1, <4>2, <4>3
    <3> QED BY <1>6, <3>1, <3>2 DEF Settled
  <2>13. Cut' /\ Chain' /\ Unanswered'
    BY <1>6 DEF Cut, Answering, Chain, Unanswered, Searching
  <2> QED BY <2>6, <2>7, <2>8, <2>9, <2>11, <2>12, <2>13
<1>8. CASE ~better
  <2>1. UNCHANGED <<dist, prev, pq>>
    BY <1>4, <1>8 DEF Relax, v
  <2>2. TypeOK' /\ Root' /\ Tree'
    BY <1>2, <1>6, <2>1 DEF TypeOK, Root, Tree, TightEdge
  <2>3. QueueCovers'
    BY <1>6, <2>1 DEF QueueCovers, Searching
  <2>4. Frontier'
    <3>1. i + 1 \in OutEdges(graph, u) \cup {graph.offsets[u + 1]}
      BY <1>2 DEF OutEdges
    <3> QED BY <1>1, <1>6, <2>1, <3>1 DEF Frontier, SettledInOrder
  <2>5. Settled'
    <3>1. ASSUME NEW e \in Edges(graph), graph.sources[e] \in explored, ~Pending(e)'
          PROVE  /\ dist[graph.targets[e]] <= dist[graph.sources[e]] + graph.costs[e]
                 /\ dist[graph.targets[e]] < MaxInt
      <4>1. CASE ~Pending(e)
        BY <3>1, <4>1 DEF Settled
      <4>2. CASE e = i
        <5>1. CASE v \in explored
          BY <1>1, <1>3, <1>4, <1>5, <4>2, <5>1 DEF alt, v
        <5>2. CASE alt >= dist[v]
          BY <1>3, <1>4, <1>5, <4>2, <5>2 DEF alt, v
        <5> QED BY <1>4, <1>5, <1>8, <5>1, <5>2
      <4>3. Pending(e) => e = i
        BY <1>2, <1>6, <3>1 DEF Pending, Edges
      <4> QED BY <4>1, <4>2, <4>3
    <3> QED BY <1>6, <2>1, <3>1 DEF Settled
  <2>6. Cut' /\ Chain' /\ Unanswered'
    BY <1>6 DEF Cut, Answering, Chain, Unanswered, Searching
  <2> QED BY <2>2, <2>3, <2>4, <2>5, <2>6
<1> QED BY <1>7, <1>8

-----------------------------------------------------------------------------
LEMMA TraceStepInv == IInv /\ TraceStep => IInv'
<1> SUFFICES ASSUME IInv, TraceStep PROVE IInv'
  OBVIOUS
<1> USE SizeAssumption DEF IInv
<1>1. /\ pc = "trace" /\ pc' = "trace" /\ currentNode \in Nodes /\ currentNode # source
      /\ path' = Append(path, currentNode) /\ currentNode' = prev[currentNode]
      /\ UNCHANGED <<graph, source, target, dist, prev, pq, explored, u, i, result>>
  BY DEF TraceStep, TypeOK, call, search
<1>2. prev[currentNode] \in Nodes \cup {NoNode} /\ path \in Seq(Nodes)
  BY <1>1 DEF TypeOK
<1>3. TypeOK'
  BY <1>1, <1>2 DEF TypeOK
<1>4. Root' /\ Tree' /\ Cut'
  BY <1>1 DEF Root, Tree, TightEdge, Cut, Answering
<1>5. QueueCovers' /\ Frontier'
  BY <1>1 DEF QueueCovers, Searching, Frontier, SettledInOrder
<1>6. Settled' /\ Unanswered'
  BY <1>1 DEF Settled, Pending, Unanswered, Searching
<1>7. target # NoNode /\ target \in Nodes /\ dist[target] \in 0 .. MaxInt
  BY <1>1 DEF Chain, TypeOK
<1>8. CASE dist[target] = MaxInt
  <2>1. currentNode = target
    BY <1>1, <1>8 DEF Chain, Nodes, NoNode
  <2>2. prev[currentNode] = NoNode
    BY <1>1, <1>8, <2>1 DEF Tree
  <2>3. Chain'
    BY <1>1, <1>7, <1>8, <2>2 DEF Chain
  <2> QED BY <1>3, <1>4, <1>5, <1>6, <2>3
<1>9. CASE dist[target] < MaxInt
  <2> DEFINE w == prev[currentNode]
  <2>1. dist[currentNode] \in Nat /\ dist[currentNode] <= dist[target]
    BY <1>1, <1>9 DEF Chain, TypeOK
  <2>2. w # NoNode /\ w \in Nodes /\ TightEdge(w, currentNode)
    BY <1>1, <1>2, <1>7, <1>9, <2>1 DEF Tree
  <2>3. dist[w] \in Nat /\ dist[w] <= dist[target]
    BY <1>7, <2>1, <2>2 DEF TightEdge, TypeOK, IsGraph
  <2>4. /\ Len(path') = Len(path) + 1 /\ Len(path) \in Nat
        /\ path'[Len(path')] = currentNode
        /\ \A k \in 1 .. Len(path) : path'[k] = path[k]
    BY <1>1, <1>2
  <2>5. \A k \in 1 .. Len(path') : dist[path'[k]] <= dist[target]
    BY <1>9, <2>1, <2>4 DEF Chain, TraceStep
  <2>6. path'[1] = target
    BY <1>1, <1>2, <1>9, <2>4 DEF Chain
  <2>7. ASSUME NEW k \in 1 .. Len(path') - 1 PROVE TightEdge(path'[k + 1], path'[k])
    <3>1. CASE k = Len(path)
      BY <1>1, <1>2, <1>9, <2>4, <3>1 DEF Chain
    <3>2. CASE k # Len(path)
      BY <1>1, <1>2, <1>9, <2>4, <3>2 DEF Chain
    <3> QED BY <3>1, <3>2
  <2>8. Chain'
    <3>1. TightEdge(currentNode, path[Len(path)])'
      BY <1>1, <2>2, <2>4 DEF TightEdge
    <3>2. (\A k \in 1 .. Len(path) - 1 : TightEdge(path[k + 1], path[k]))'
      BY <1>1, <2>7 DEF TightEdge
    <3>3. path' # << >>
      BY <2>4
    <3> QED BY <1>1, <1>7, <1>9, <2>2, <2>3, <2>5, <2>6, <3>1, <3>2, <3>3 DEF Chain
  <2> QED BY <1>3, <1>4, <1>5, <1>6, <2>8
<1> QED BY <1>7, <1>8, <1>9

LEMMA TraceFailInv == IInv /\ TraceFail => IInv'
<1> SUFFICES ASSUME IInv, TraceFail PROVE IInv'
  OBVIOUS
<1> USE SizeAssumption DEF IInv, call, search, TraceFail
<1>1. TypeOK'
  BY DEF TypeOK
<1>2. Root' /\ Tree' /\ Cut'
  BY DEF Root, Tree, TightEdge, Cut, Answering, Chain
<1>3. QueueCovers' /\ Frontier' /\ Chain' /\ Unanswered'
  BY DEF QueueCovers, Frontier, SettledInOrder, Searching, Chain, Unanswered
<1>4. Settled'
  BY DEF Settled, Pending
<1> QED BY <1>1, <1>2, <1>3, <1>4

LEMMA ReverseFacts ==
  ASSUME NEW S, NEW s \in Seq(S)
  PROVE  /\ Reverse(s) \in Seq(S) /\ Len(Reverse(s)) = Len(s)
         /\ \A k \in 1 .. Len(s) : Reverse(s)[k] = s[Len(s) - k + 1]
BY DEF Reverse

LEMMA TraceEndInv == IInv /\ TraceEnd => IInv'
<1> SUFFICES ASSUME IInv, TraceEnd PROVE IInv'
  OBVIOUS
<1> USE DEF IInv, call, search, TraceEnd
<1>1. TypeOK'
  <2>1. Reverse(path) \in Seq(Nodes)
    BY ReverseFacts DEF TypeOK
  <2>2. dist[target] \in 0 .. MaxInt
    BY DEF TypeOK, Chain
  <2> QED BY <2>1, <2>2 DEF TypeOK
<1>2. Root' /\ Tree' /\ Cut'
  BY DEF Root, Tree, TightEdge, Cut, Answering
<1>3. QueueCovers' /\ Frontier' /\ Chain' /\ Unanswered'
  BY DEF QueueCovers, Frontier, SettledInOrder, Searching, Chain, Unanswered
<1>4. Settled'
  BY DEF Settled, Pending
<1> QED BY <1>1, <1>2, <1>3, <1>4

LEMMA StutterInv == IInv /\ UNCHANGED vars => IInv'
<1> SUFFICES ASSUME IInv, UNCHANGED vars PROVE IInv'
  OBVIOUS
<1> USE DEF IInv, vars, call, search, walk
<1>1. TypeOK'
  BY DEF TypeOK
<1>2. Root' /\ Tree' /\ Cut'
  BY DEF Root, Tree, TightEdge, Cut, Answering
<1>3. QueueCovers' /\ Frontier' /\ Unanswered'
  BY DEF QueueCovers, Frontier, SettledInOrder, Searching, Unanswered
<1>4. Chain' /\ Settled'
  BY DEF Chain, TightEdge, Settled, Pending
<1> QED BY <1>1, <1>2, <1>3, <1>4

-----------------------------------------------------------------------------
LEMMA NextInv == IInv /\ NoOverflow /\ [Next]_vars => IInv'
BY PopStaleInv, PopTargetInv, PopSettleInv, RelaxInv, RelaxEndInv, ExhaustedInv,
   SsspReturnInv, TraceStepInv, TraceFailInv, TraceEndInv, StutterInv DEF Next, Return

\* As long as no sum overflows, every call keeps the inductive invariant.
THEOREM InvariantHolds == Spec /\ []NoOverflow => []IInv
<1>1. Init => IInv
  BY InitInv
<1>2. IInv /\ NoOverflow /\ [Next]_vars => IInv'
  BY NextInv
<1> QED BY <1>1, <1>2, PTL DEF Spec

\* The early exit at the target is sound: the queue never holds anything
\* nearer than a node already settled.
THEOREM NodesSettledInOrder == Spec /\ []NoOverflow => []SettledInOrder
<1>1. IInv => SettledInOrder
  BY DEF IInv, Frontier
<1> QED BY <1>1, InvariantHolds, PTL

\* The type invariant of a call.
THEOREM TypeCorrect == Spec /\ []NoOverflow => []TypeOK
<1>1. IInv => TypeOK
  BY DEF IInv
<1> QED BY <1>1, InvariantHolds, PTL

-----------------------------------------------------------------------------
\* When edges are short enough for the number of nodes, no sum overflows.
LEMMA ExploredFinite ==
  ASSUME IInv
  PROVE  IsFiniteSet(explored) /\ Cardinality(explored) \in 0 .. N
<1>1. IsFiniteSet(Nodes) /\ Cardinality(Nodes) = N
  BY SizeAssumption, FS_Interval DEF Nodes
<1>2. explored \subseteq Nodes
  BY DEF IInv, TypeOK
<1>3. IsFiniteSet(explored) /\ Cardinality(explored) <= N
  BY <1>1, <1>2, FS_Subset
<1> QED BY <1>3, FS_CardinalityType, SizeAssumption

LEMMA BudgetInit == ASSUME NEW C \in Nat PROVE Init => Budget(C)
BY SizeAssumption, FS_EmptySet DEF Init, Budget, Nodes

LEMMA BudgetNoOverflow ==
  ASSUME NEW C \in Nat, N * C < MaxInt,
         \A g \in Graphs : \A e \in Edges(g) : g.costs[e] <= C,
         IInv, Budget(C)
  PROVE  NoOverflow
<1> SUFFICES ASSUME pc = "relax", i < graph.offsets[u + 1]
             PROVE  dist[u] + graph.costs[i] < MaxInt
  BY DEF NoOverflow
<1> USE SizeAssumption
<1>1. u \in explored /\ u \in Nodes /\ dist[u] \in Nat
  BY DEF IInv, Frontier, TypeOK
<1>2. i \in OutEdges(graph, u)
  BY <1>1, OffsetFacts DEF IInv, Frontier, TypeOK
<1>3. graph.costs[i] \in Nat /\ graph.costs[i] <= C
  BY <1>1, <1>2, OutEdgeFacts DEF Budget, IInv, TypeOK
<1>4. Cardinality(explored) * C <= N * C
  BY ExploredFinite
<1>5. Cardinality(explored) * C \in Nat /\ N * C \in Nat /\ MaxInt \in Nat
  BY ExploredFinite
<1>6. dist[u] + C <= Cardinality(explored) * C
  BY <1>1 DEF Budget
<1> QED BY <1>1, <1>3, <1>4, <1>5, <1>6

LEMMA BudgetStep ==
  ASSUME NEW C \in Nat,
         \A g \in Graphs : \A e \in Edges(g) : g.costs[e] <= C,
         IInv, IInv', NoOverflow, Budget(C), [Next]_vars
  PROVE  Budget(C)'
<1> DEFINE K == Cardinality(explored)
<1> USE SizeAssumption
<1>0. K \in Nat /\ K * C \in Nat /\ (K + 1) * C = K * C + C
  BY ExploredFinite
<1>1. CASE PopSettle
  <2> PICK e \in pq : /\ Pop(e) /\ e[2] \notin explored
                      /\ explored' = explored \cup {e[2]}
                      /\ UNCHANGED <<graph, dist>>
    BY <1>1 DEF PopSettle, call
  <2>1. e[2] \in Nodes /\ dist[e[2]] < MaxInt
    BY TopIsCurrent
  <2>2. Cardinality(explored') = K + 1
    BY ExploredFinite, FS_AddElement
  <2>3. dist \in [Nodes -> 0 .. MaxInt] /\ explored \subseteq Nodes
    BY DEF IInv, TypeOK
  <2>4. dist[e[2]] <= K * C
    BY <2>1 DEF Budget
  <2>5. ASSUME NEW w \in explored' PROVE dist[w] + C <= K * C + C
    BY <1>0, <2>1, <2>3, <2>4, <2>5 DEF Budget
  <2>6. ASSUME NEW w \in Nodes, dist[w] < MaxInt PROVE dist[w] <= K * C + C
    BY <1>0, <2>3, <2>6 DEF Budget
  <2> QED BY <1>0, <2>2, <2>5, <2>6 DEF Budget
<1>2. CASE Relax
  <2>1. UNCHANGED <<graph, explored>> /\ pc = "relax" /\ i < graph.offsets[u + 1]
    BY <1>2 DEF Relax, call
  <2>2. u \in explored /\ u \in Nodes
    BY <2>1 DEF IInv, Frontier, TypeOK
  <2>3. i \in OutEdges(graph, u)
    <3>1. i \in OutEdges(graph, u) \cup {graph.offsets[u + 1]}
      BY <2>1 DEF IInv, Frontier
    <3>2. graph.offsets[u + 1] \in Nat
      BY <2>2, OffsetFacts DEF IInv, TypeOK
    <3> QED BY <2>1, <3>1, <3>2
  <2>4. graph.costs[i] \in Nat /\ graph.costs[i] <= C /\ graph.targets[i] \in Nodes
    BY <2>2, <2>3, OutEdgeFacts DEF Budget, IInv, TypeOK
  <2>5. dist \in [Nodes -> 0 .. MaxInt] /\ explored \subseteq Nodes
    BY DEF IInv, TypeOK
  <2>6. dist[u] + C <= K * C
    BY <2>2 DEF Budget
  <2>7. IntAdd(dist[u], graph.costs[i]) = dist[u] + graph.costs[i]
    BY <2>1, <2>2, <2>4, <2>5 DEF NoOverflow, IntAdd
  <2>8. /\ \A w \in explored : dist'[w] = dist[w]
        /\ \A w \in Nodes : dist'[w] = dist[w] \/ dist'[w] = dist[u] + graph.costs[i]
    BY <1>2, <2>4, <2>5, <2>7 DEF Relax
  <2>9. ASSUME NEW w \in Nodes, dist'[w] < MaxInt PROVE dist'[w] <= K * C
    BY <1>0, <2>2, <2>4, <2>5, <2>6, <2>8, <2>9 DEF Budget
  <2> QED BY <2>1, <2>8, <2>9 DEF Budget
<1>3. CASE UNCHANGED <<graph, dist, explored>>
  BY <1>3 DEF Budget
<1> QED BY <1>1, <1>2, <1>3 DEF Next, PopStale, PopTarget, RelaxEnd, Exhausted, SsspReturn,
           TraceStep, TraceFail, TraceEnd, Return, vars, call, search

\* On a network whose edges are short enough, no sum ever leaves the range of
\* int nor meets the value that stands for "not reached" (Graph.cpp:117).
THEOREM NeverOverflows == CostsBounded => (Spec => []NoOverflow)
<1> SUFFICES ASSUME CostsBounded PROVE Spec => []NoOverflow
  OBVIOUS
<1> PICK C \in Nat : /\ N * C < MaxInt
                     /\ \A g \in Graphs : \A e \in Edges(g) : g.costs[e] <= C
  BY DEF CostsBounded
<1>1. Init => IInv /\ Budget(C)
  BY InitInv, BudgetInit
<1>2. IInv /\ Budget(C) => NoOverflow
  BY BudgetNoOverflow
<1>3. IInv /\ Budget(C) /\ [Next]_vars => (IInv /\ Budget(C))'
  BY <1>2, NextInv, BudgetStep
<1> QED BY <1>1, <1>2, <1>3, PTL DEF Spec

-----------------------------------------------------------------------------
(***************************************************************************)
(* The reply is right.  Its certificate is the distances found, cut off at *)
(* that of the target: nodes not settled are at least as far as the target *)
(* (Cut), so no edge overruns the potential.                               *)
(***************************************************************************)
CutOff == [v \in Nodes |-> IF dist[v] <= dist[target] THEN dist[v] ELSE dist[target]]

LEMMA InstanceFacts ==
  /\ SP!Nodes = Nodes /\ SP!NoNode = NoNode
  /\ SP!Potentials = [Nodes -> 0 .. MaxInt]
  /\ \A g : SP!Edges(g) = Edges(g)
  /\ \A g : SP!IsGraph(g) <=> IsGraph(g)
BY DEF SP!Nodes, Nodes, SP!NoNode, NoNode, SP!Potentials, SP!Edges, Edges,
       SP!IsGraph, IsGraph, SP!OutEdges, OutEdges

LEMMA CutOffFeasible ==
  ASSUME IInv, Answering
  PROVE  CutOff \in SP!Potentials /\ SP!Feasible(graph, CutOff)
<1>1. target \in Nodes /\ dist \in [Nodes -> 0 .. MaxInt]
  BY DEF IInv, TypeOK, Answering
<1>2. CutOff \in SP!Potentials
  BY <1>1, InstanceFacts DEF CutOff
<1>3. ASSUME NEW e \in Edges(graph)
      PROVE  CutOff[graph.targets[e]] <= CutOff[graph.sources[e]] + graph.costs[e]
  <2>1. /\ graph.sources[e] \in Nodes /\ graph.targets[e] \in Nodes
        /\ graph.costs[e] \in Nat
    BY DEF IInv, TypeOK, IsGraph
  <2>2. CASE graph.sources[e] \in explored
    <3>1. dist[graph.targets[e]] <= dist[graph.sources[e]] + graph.costs[e]
      BY <2>2 DEF IInv, Settled, Pending, Answering
    <3>2. dist[graph.sources[e]] <= dist[target]
      BY <2>2 DEF IInv, Cut
    <3> QED BY <1>1, <2>1, <3>1, <3>2 DEF CutOff
  <2>3. CASE graph.sources[e] \notin explored
    <3>1. dist[target] <= dist[graph.sources[e]]
      BY <2>1, <2>3 DEF IInv, Cut
    <3> QED BY <1>1, <2>1, <3>1 DEF CutOff
  <2> QED BY <2>2, <2>3
<1> QED BY <1>2, <1>3, InstanceFacts DEF SP!Feasible

\* A step of the predecessor tree that does not pass the target is tight for
\* the potential too.
LEMMA TightIsTight ==
  ASSUME IInv, Answering, NEW v \in Nodes, NEW w \in Nodes,
         TightEdge(v, w), dist[w] <= dist[target]
  PROVE  SP!TightStep(graph, CutOff, v, w)
<1>1. target \in Nodes /\ dist \in [Nodes -> 0 .. MaxInt]
  BY DEF IInv, TypeOK, Answering
<1>2. PICK e \in Edges(graph) : /\ graph.sources[e] = v /\ graph.targets[e] = w
                                /\ dist[w] = dist[v] + graph.costs[e]
  BY DEF TightEdge
<1>3. graph.costs[e] \in Nat
  BY DEF IInv, TypeOK, IsGraph
<1>4. CutOff[w] = dist[w] /\ CutOff[v] = dist[v]
  BY <1>1, <1>2, <1>3 DEF CutOff
<1> QED BY <1>2, <1>4, InstanceFacts DEF SP!TightStep

LEMMA FoundIsAnswer ==
  ASSUME IInv, pc = "trace", currentNode = source
  PROVE  SP!IsAnswer(graph, source, target,
                     [path |-> Reverse(path), distance |-> dist[target]])
<1> DEFINE back == Reverse(path)
           n    == Len(path)
<1>1. /\ Answering /\ target \in Nodes /\ source \in Nodes
      /\ dist \in [Nodes -> 0 .. MaxInt] /\ path \in Seq(Nodes)
  BY DEF IInv, Chain, Answering, TypeOK
<1>2. dist[source] = 0
  BY DEF IInv, Root
<1>3. dist[target] < MaxInt
  <2>1. source # NoNode
    BY <1>1 DEF Nodes, NoNode
  <2> QED BY <1>1, <1>2, <2>1, SizeAssumption DEF IInv, Chain
<1>4. CutOff[source] = 0 /\ CutOff[target] = dist[target]
  BY <1>1, <1>2 DEF CutOff
<1>5. SP!TightWalk(graph, CutOff, source, back, target)
  <2>1. CASE path = << >>
    <3>1. source = target
      BY <1>3, <2>1 DEF IInv, Chain
    <3>2. back = << >>
      BY <1>1, <2>1 DEF Reverse
    <3> QED BY <3>1, <3>2 DEF SP!TightWalk
  <2>2. CASE path # << >>
    <3>1. /\ n \in Nat \ {0} /\ Len(back) = n /\ back # << >>
          /\ \A k \in 1 .. n : back[k] = path[n - k + 1] /\ path[k] \in Nodes
      BY <1>1, <2>2, ReverseFacts
    <3>2. /\ path[1] = target
          /\ TightEdge(source, path[n])
          /\ \A k \in 1 .. n - 1 : TightEdge(path[k + 1], path[k])
          /\ \A k \in 1 .. n : dist[path[k]] <= dist[target]
      BY <1>3, <2>2 DEF IInv, Chain
    <3>3. SP!TightStep(graph, CutOff, source, back[1])
      BY <1>1, <3>1, <3>2, TightIsTight
    <3>4. ASSUME NEW k \in 1 .. n - 1 PROVE SP!TightStep(graph, CutOff, back[k], back[k + 1])
      <4>1. /\ n - k \in 1 .. n - 1 /\ back[k] = path[n - k + 1] /\ back[k + 1] = path[n - k]
        BY <3>1
      <4>2. TightEdge(back[k], back[k + 1]) /\ dist[back[k + 1]] <= dist[target]
        BY <3>1, <3>2, <4>1
      <4>3. back[k] \in Nodes /\ back[k + 1] \in Nodes
        <5>1. n - k \in 1 .. n /\ n - k + 1 \in 1 .. n
          BY <3>1
        <5> QED BY <3>1, <4>1, <5>1
      <4> QED BY <1>1, <4>2, <4>3, TightIsTight
    <3>5. back[n] = target
      BY <3>1, <3>2
    <3> QED BY <3>1, <3>3, <3>4, <3>5 DEF SP!TightWalk
  <2> QED BY <2>1, <2>2
<1> QED BY <1>1, <1>4, <1>5, CutOffFeasible DEF SP!IsAnswer

LEMMA MissIsAnswer ==
  ASSUME IInv, pc = "trace", currentNode = NoNode
  PROVE  SP!IsAnswer(graph, source, target, [path |-> << >>, distance |-> -1])
<1>1. target \in Nodes /\ source \in Nodes /\ dist \in [Nodes -> 0 .. MaxInt]
  BY DEF IInv, Chain, TypeOK
<1>2. dist[target] = MaxInt
  <2>1. currentNode \notin Nodes
    BY DEF Nodes, NoNode
  <2>2. dist[target] \in 0 .. MaxInt /\ MaxInt \in Nat
    BY <1>1, SizeAssumption
  <2> QED BY <2>1, <2>2 DEF IInv, Chain
<1>3. explored \in SUBSET SP!Nodes /\ target \notin explored
  BY InstanceFacts DEF IInv, TypeOK, Settled
<1>4. ASSUME NEW v \in Nodes, dist[v] < MaxInt PROVE v \in explored
  BY <1>1, <1>2, <1>4 DEF IInv, Cut, Answering, Chain
<1>5. source \in explored
  BY <1>1, <1>4, SizeAssumption DEF IInv, Root
<1>6. ASSUME NEW e \in Edges(graph), graph.sources[e] \in explored
      PROVE  graph.targets[e] \in explored
  <2>1. dist[graph.targets[e]] < MaxInt
    BY <1>6 DEF IInv, Settled, Pending
  <2> QED BY <1>4, <2>1 DEF IInv, TypeOK, IsGraph
<1> QED BY <1>3, <1>5, <1>6, InstanceFacts DEF SP!IsAnswer, SP!Separated

\* Each step of the call is a step of the promise or leaves it unchanged.
LEMMA StepRefines == IInv /\ IInv' /\ [Next]_vars => [SP!Reply]_(SP!vars)
<1> SUFFICES ASSUME IInv, IInv', [Next]_vars PROVE [SP!Reply]_(SP!vars)
  OBVIOUS
<1>1. CASE TraceFail
  <2>1. /\ pc = "trace" /\ pc' = "done" /\ currentNode = NoNode
        /\ result' = [path |-> << >>, distance |-> -1]
        /\ UNCHANGED <<graph, source, target>>
    BY <1>1 DEF TraceFail, call
  <2>2. target # NoNode
    BY <2>1 DEF IInv, Chain
  <2>3. SP!IsAnswer(graph, source, target, result')
    BY <2>1, MissIsAnswer
  <2> QED BY <2>1, <2>2, <2>3 DEF SP!Reply
<1>2. CASE TraceEnd
  <2>1. /\ pc = "trace" /\ pc' = "done" /\ currentNode = source
        /\ result' = [path |-> Reverse(path), distance |-> dist[target]]
        /\ UNCHANGED <<graph, source, target>>
    BY <1>2 DEF TraceEnd, call
  <2>2. target # NoNode
    BY <2>1 DEF IInv, Chain
  <2>3. SP!IsAnswer(graph, source, target, result')
    BY <2>1, FoundIsAnswer
  <2> QED BY <2>1, <2>2, <2>3 DEF SP!Reply
<1>3. CASE SsspReturn
  BY <1>3 DEF SsspReturn, call, walk, SP!vars
<1>4. CASE UNCHANGED <<call, result>> /\ (pc = pc' \/ (pc # "done" /\ pc' # "done"))
  BY <1>4 DEF call, SP!vars
<1> QED BY <1>1, <1>2, <1>3, <1>4 DEF Next, PopStale, PopTarget, PopSettle, Pop, Relax, RelaxEnd,
           Exhausted, TraceStep, Return, vars, walk

\* What Graph::dijkstra returns is a shortest path and its length, or -1 for a
\* target that cannot be reached, on every network where no sum overflows.
THEOREM ReturnsShortestPath == Spec /\ []NoOverflow => IsShortestPath
<1>1. Init => SP!Init
  BY GraphsAssumption, InstanceFacts DEF Init, SP!Init
<1>2. IInv /\ IInv' /\ [Next]_vars => [SP!Reply]_(SP!vars)
  BY StepRefines
<1> QED BY <1>1, <1>2, InvariantHolds, PTL DEF Spec, IsShortestPath, SP!Spec

\* On a network whose edges are short enough for its number of nodes the same
\* holds of every call, with no further condition.
COROLLARY ShortestPathOnBoundedCosts == CostsBounded => (Spec => IsShortestPath)
BY NeverOverflows, ReturnsShortestPath

-----------------------------------------------------------------------------
(***************************************************************************)
(* dijkstraSSSP: the distances it returns are certified by the order in    *)
(* which the nodes were settled.                                           *)
(***************************************************************************)
LEMMA PredecessorSettled ==
  ASSUME IInv, NEW v \in Nodes, v # source, dist[v] < MaxInt
  PROVE  prev[v] \in explored /\ prev[v] \in Nodes /\ TightEdge(prev[v], v)
BY DEF IInv, Tree, TypeOK

LEMMA RankedInit == Init => Ranked
<1> SUFFICES ASSUME Init PROVE Ranked
  OBVIOUS
<1>1. [v \in Nodes |-> 0] \in [Nodes -> 0 .. N - 1]
  BY SizeAssumption
<1> QED BY <1>1 DEF Init, Ranked

LEMMA RankedStep ==
  ASSUME IInv, Ranked, [Next]_vars
  PROVE  Ranked'
<1> DEFINE K == Cardinality(explored)
<1> USE SizeAssumption
<1>1. PICK rank \in [Nodes -> 0 .. N - 1] :
        \A v \in explored : rank[v] < K /\ (v # source => rank[prev[v]] < rank[v])
  BY DEF Ranked
<1>2. CASE PopSettle
  <2> PICK e \in pq : /\ Pop(e) /\ e[2] \notin explored
                      /\ explored' = explored \cup {e[2]}
                      /\ UNCHANGED <<source, dist, prev>>
    BY <1>2 DEF PopSettle, call
  <2> DEFINE x == e[2]
             more == [rank EXCEPT ![x] = K]
  <2>1. x \in Nodes /\ dist[x] < MaxInt
    BY TopIsCurrent
  <2> HIDE DEF x
  <2>2. explored \subseteq Nodes /\ x \notin explored /\ explored' = explored \cup {x}
    BY DEF IInv, TypeOK, x
  <2>3. K \in Nat /\ K <= N - 1 /\ Cardinality(explored') = K + 1
    <3>1. Cardinality(explored') = K + 1 /\ IsFiniteSet(explored')
      BY <2>2, ExploredFinite, FS_AddElement
    <3>2. IsFiniteSet(Nodes) /\ Cardinality(Nodes) = N
      BY FS_Interval DEF Nodes
    <3>3. Cardinality(explored') <= N
      BY <2>1, <2>2, <3>2, FS_Subset
    <3> QED BY <3>1, <3>3, ExploredFinite
  <2>4. more \in [Nodes -> 0 .. N - 1] /\ more[x] = K /\ \A v \in Nodes : v # x => more[v] = rank[v]
    BY <2>1, <2>3
  <2>5. ASSUME NEW v \in explored'
        PROVE  more[v] < K + 1 /\ (v # source => more[prev[v]] < more[v])
    <3>1. CASE v = x
      <4>1. ASSUME v # source PROVE more[prev[v]] < more[v]
        <5>1. prev[v] \in explored /\ prev[v] \in Nodes
          BY <2>1, <3>1, <4>1, PredecessorSettled
        <5> QED BY <1>1, <2>2, <2>4, <3>1, <5>1
      <4> QED BY <2>3, <2>4, <3>1, <4>1
    <3>2. CASE v \in explored
      <4>1. v \in Nodes /\ v # x /\ more[v] = rank[v] /\ rank[v] \in Nat
        BY <2>2, <2>4, <3>2
      <4>2. ASSUME v # source PROVE more[prev[v]] < more[v]
        <5>1. dist[v] < MaxInt
          BY <3>2 DEF IInv, Settled
        <5>2. prev[v] \in explored /\ prev[v] \in Nodes
          BY <4>1, <4>2, <5>1, PredecessorSettled
        <5> QED BY <1>1, <2>2, <2>4, <3>2, <4>1, <4>2, <5>2
      <4> QED BY <1>1, <2>3, <3>2, <4>1, <4>2
    <3> QED BY <2>2, <3>1, <3>2
  <2> HIDE DEF more
  <2>6. prev' = prev /\ source' = source
    OBVIOUS
  <2> QED BY <2>3, <2>4, <2>5, <2>6 DEF Ranked
<1>3. CASE Relax
  <2>1. explored' = explored /\ source' = source
    BY <1>3 DEF Relax, call
  <2>2. prev \in [Nodes -> Nodes \cup {NoNode}] /\ explored \subseteq Nodes
    BY DEF IInv, TypeOK
  <2>3. \A v \in explored : prev'[v] = prev[v]
    BY <1>3, <2>2 DEF Relax
  <2> QED BY <1>1, <2>1, <2>3 DEF Ranked
<1>4. CASE UNCHANGED <<source, prev, explored>>
  BY <1>4 DEF Ranked
<1> QED BY <1>2, <1>3, <1>4 DEF Next, PopStale, PopTarget, RelaxEnd, Exhausted, SsspReturn,
           TraceStep, TraceFail, TraceEnd, Return, vars, call, search

LEMMA DrainedStep ==
  ASSUME IInv, Drained, [Next]_vars
  PROVE  Drained'
<1>1. CASE SsspReturn
  <2>1. \A v \in Nodes \ explored : ~(dist[v] < MaxInt)
    BY <1>1 DEF SsspReturn, IInv, QueueCovers, Searching
  <2>2. \A v \in Nodes \ explored : dist[v] = MaxInt
    <3>1. dist \in [Nodes -> 0 .. MaxInt] /\ MaxInt \in Nat
      BY SizeAssumption DEF IInv, TypeOK
    <3> QED BY <2>1, <3>1
  <2> QED BY <1>1, <2>2 DEF Drained, SsspReturn, search
<1>2. CASE UNCHANGED <<pc, target, explored, dist>>
  BY <1>2 DEF Drained
<1>3. CASE pc' # "done"
  BY <1>3 DEF Drained
<1>4. CASE (TraceFail \/ TraceEnd)
  <2>1. target # NoNode /\ target' = target
    BY <1>4 DEF TraceFail, TraceEnd, call, IInv, Chain
  <2> QED BY <2>1 DEF Drained
<1> QED BY <1>1, <1>2, <1>3, <1>4 DEF Next, PopStale, PopTarget, PopSettle, Pop, Relax, RelaxEnd,
           Exhausted, TraceStep, Return, vars, walk, call, search

\* The order in which nodes are settled is kept as a witness throughout, and
\* nothing reached is left over when a search without a target returns.
THEOREM SearchInvariant == Spec /\ []NoOverflow => []Inv
<1>1. Init => Ranked /\ Drained
  BY RankedInit DEF Init, Drained
<1>2. IInv /\ Ranked /\ Drained /\ [Next]_vars => Ranked' /\ Drained'
  BY RankedStep, DrainedStep
<1>3. Inv <=> IInv /\ Ranked /\ Drained
  BY DEF Inv
<1> QED BY <1>1, <1>2, <1>3, InvariantHolds, PTL DEF Spec

LEMMA SsspCertified ==
  ASSUME Inv, pc = "done", target = NoNode
  PROVE  Certified(graph, source, dist)
<1> USE SizeAssumption
<1>1. /\ IsGraph(graph) /\ dist \in [Nodes -> 0 .. MaxInt] /\ explored \subseteq Nodes
      /\ dist[source] = 0 /\ IInv
  BY DEF Inv, IInv, TypeOK, Root
<1>2. ASSUME NEW v \in Nodes, dist[v] < MaxInt PROVE v \in explored
  BY <1>2 DEF Inv, Drained
<1>3. ASSUME NEW e \in Edges(graph), dist[graph.sources[e]] < MaxInt
      PROVE  /\ dist[graph.targets[e]] <= dist[graph.sources[e]] + graph.costs[e]
             /\ dist[graph.targets[e]] < MaxInt
  <2>1. graph.sources[e] \in explored
    BY <1>1, <1>2, <1>3, EdgeFacts
  <2> QED BY <1>1, <2>1 DEF IInv, Settled, Pending
<1>4. PICK rank \in [Nodes -> 0 .. N - 1] :
        \A v \in explored : v # source => rank[prev[v]] < rank[v]
  BY DEF Inv, Ranked
<1>5. ASSUME NEW v \in Nodes \ {source}, dist[v] < MaxInt
      PROVE  \E e \in Edges(graph) : /\ graph.targets[e] = v /\ Accounts(graph, dist, e)
                                    /\ rank[graph.sources[e]] < rank[v]
  <2>1. prev[v] \in explored /\ TightEdge(prev[v], v)
    BY <1>1, <1>5, PredecessorSettled
  <2>2. PICK e \in Edges(graph) : /\ graph.sources[e] = prev[v] /\ graph.targets[e] = v
                                  /\ dist[v] = dist[prev[v]] + graph.costs[e]
    BY <2>1 DEF TightEdge
  <2>3. dist[prev[v]] < MaxInt
    BY <1>1, <2>1 DEF IInv, Settled
  <2>4. rank[prev[v]] < rank[v]
    BY <1>2, <1>4, <1>5
  <2> QED BY <2>2, <2>3, <2>4 DEF Accounts
<1>6. Ranks(graph, source, dist, rank)
  BY <1>5 DEF Ranks
<1> QED BY <1>1, <1>3, <1>4, <1>6 DEF Certified, Lengths

\* What dijkstraSSSP returns is, for every network where no sum overflows and
\* for every source, the table of true distances (TransitNodesRouting.cpp:91-125):
\* that of the recurrence of Bellman and Ford, and that which the other modules
\* take the searches of the preprocessing to compute.
THEOREM SsspReturnsDistances == Spec /\ []NoOverflow => []SsspExact
<1>1. Inv => SsspExact
  <2> SUFFICES ASSUME Inv, pc = "done", target = NoNode
               PROVE  dist = RefDistances(graph, source) /\ dist = Distances(graph, source)
    BY DEF SsspExact
  <2>1. IsGraph(graph) /\ source \in Nodes
    BY DEF Inv, IInv, TypeOK
  <2>2. Certified(graph, source, dist)
    BY SsspCertified
  <2> QED BY <2>1, <2>2, CertifiedIsReference, CertifiedIsSettled
<1> QED BY <1>1, SearchInvariant, PTL

\* On a network whose edges are short enough for its number of nodes the same
\* holds with no further condition.
COROLLARY SsspOnBoundedCosts == CostsBounded => (Spec => []SsspExact)
BY NeverOverflows, SsspReturnsDistances
=============================================================================

--------------------------- MODULE GraphGenerator ---------------------------
(***************************************************************************)
(* GraphGenerator::generate (src/src/graph/GraphGenerator.cpp) after the   *)
(* drawing of the candidates: threads test disjoint ranges of them against *)
(* the coastlines, the main thread joins them in turn; then threads search *)
(* the neighbours of disjoint ranges of the nodes that are left, and the   *)
(* main thread sorts what they found and removes duplicates.               *)
(*                                                                         *)
(* A world says of each candidate whether it is "water", "land" or "polar" *)
(* (south of 85 degrees, not tested), which nodes the search in the four   *)
(* quarters around a node finds, one quarter after the other, and how far  *)
(* apart nodes are.  An edge is a triple <<source, target, cost>>.         *)
(***************************************************************************)
EXTENDS ShipGraph, SequencesExt

CONSTANTS
  ThreadCount,      \* n_threads
  CandidateCount,   \* allNodes.size()
  Worlds            \* those whose tested water makes N nodes

Threads    == 0 .. ThreadCount - 1
Candidates == 0 .. CandidateCount - 1

\* The candidates from first on, before end, that lie in water.
WaterIn(w, first, end) == {c \in first .. end - 1 : w.kind[c] = "water"}

\* What all ranges have in common, and the first candidate behind them.
Share(total) == total \div ThreadCount
Tested == ThreadCount * Share(CandidateCount)

ASSUME GeneratorAssumption ==
  /\ ThreadCount \in Nat \ {0} /\ CandidateCount \in Nat
  /\ \A w \in Worlds :
       /\ w.kind \in [Candidates -> {"water", "land", "polar"}]
       /\ Cardinality(WaterIn(w, 0, Tested)) = N
       /\ w.near \in [Nodes -> Seq(Nodes)]
       /\ w.metres \in [Nodes \X Nodes -> Nat]
       /\ \A u, v \in Nodes : w.metres[<<u, v>>] = w.metres[<<v, u>>]

VARIABLES
  world,
  stage,            \* "nodes", "edges", "filter", "done", "aborted"
  at,               \* per thread: where it stands in its range
  testing,          \* threads inside performPointInPolyTest
  out,              \* per thread: the vector it fills
  joined,           \* how many threads have been joined
  nodes, edges,     \* what the main thread has collected
  lines             \* sources, targets, costs: the edge lines of the file

vars == <<world, stage, at, testing, out, joined, nodes, edges, lines>>

\* The range of a thread.  The last one is meant to take the remainder, but the
\* test compares with nodes.size() - 1: 0 nodes are known in the first stage
\* (the difference wraps to a number no thread has), all of them in the second.
RangeStart(t, total) == t * Share(total)

RangeEnd(t, total, known) ==
  IF t = known - 1 THEN total ELSE (t + 1) * Share(total)

NothingFound == [t \in Threads |-> << >>]

Edge(v, w) == <<v, w, world.metres[<<v, w>>]>>

Init ==
  /\ world \in Worlds /\ stage = "nodes"
  /\ at = [t \in Threads |-> RangeStart(t, CandidateCount)]
  /\ testing = {} /\ out = NothingFound /\ joined = 0
  /\ nodes = << >> /\ edges = << >> /\ lines = << >>

\* The candidate thread t has before it.
AtCandidate(t, polar) ==
  /\ stage = "nodes" /\ t \notin testing
  /\ at[t] < RangeEnd(t, CandidateCount, 0)
  /\ (world.kind[at[t]] = "polar") = polar

\* A faulty variant: the loop does not go on after a polar candidate.
SkipPolar_Stays(t) == AtCandidate(t, TRUE) /\ UNCHANGED vars

SkipPolar(t) ==
  /\ AtCandidate(t, TRUE)
  /\ at' = [at EXCEPT ![t] = @ + 1]
  /\ UNCHANGED <<world, stage, testing, out, joined, nodes, edges, lines>>

BeginTest(t) ==
  /\ AtCandidate(t, FALSE)
  /\ testing' = testing \cup {t}
  /\ UNCHANGED <<world, stage, at, out, joined, nodes, edges, lines>>

EndTest(t) ==
  /\ stage = "nodes" /\ t \in testing
  /\ testing' = testing \ {t}
  /\ at' = [at EXCEPT ![t] = @ + 1]
  /\ out' = IF world.kind[at[t]] = "water" THEN [out EXCEPT ![t] = Append(@, at[t])] ELSE out
  /\ UNCHANGED <<world, stage, joined, nodes, edges, lines>>

\* The tests of all threads push to and clear one vector, cutEdges, without a
\* lock.  Two at a time may leave it alone or corrupt the heap.
CorruptCutEdges ==
  /\ stage = "nodes" /\ Cardinality(testing) > 1
  /\ stage' = "aborted"
  /\ UNCHANGED <<world, at, testing, out, joined, nodes, edges, lines>>

\* Faulty variants: the main thread does not wait; the vectors of the first
\* stage are used again.
JoinNodes_NotWaiting ==
  /\ stage = "nodes"
  /\ nodes' = nodes \o out[joined]
  /\ IF joined + 1 < ThreadCount
     THEN joined' = joined + 1 /\ UNCHANGED <<stage, at, out>>
     ELSE /\ stage' = "edges" /\ joined' = 0
          /\ at' = [t \in Threads |-> RangeStart(t, Len(nodes'))]
          /\ out' = NothingFound
  /\ UNCHANGED <<world, testing, edges, lines>>

JoinNodes_SameVectors ==
  /\ stage = "nodes"
  /\ joined \notin testing /\ at[joined] >= RangeEnd(joined, CandidateCount, 0)
  /\ nodes' = nodes \o out[joined]
  /\ IF joined + 1 < ThreadCount
     THEN joined' = joined + 1 /\ UNCHANGED <<stage, at, out>>
     ELSE /\ stage' = "edges" /\ joined' = 0
          /\ at' = [t \in Threads |-> RangeStart(t, Len(nodes'))]
          /\ UNCHANGED out
  /\ UNCHANGED <<world, testing, edges, lines>>

\* One turn of the loop of joins; after the last one the edge search starts.
JoinNodes ==
  /\ stage = "nodes"
  /\ joined \notin testing /\ at[joined] >= RangeEnd(joined, CandidateCount, 0)
  /\ nodes' = nodes \o out[joined]
  /\ IF joined + 1 < ThreadCount
     THEN joined' = joined + 1 /\ UNCHANGED <<stage, at, out>>
     ELSE /\ stage' = "edges" /\ joined' = 0
          /\ at' = [t \in Threads |-> RangeStart(t, Len(nodes'))]
          /\ out' = NothingFound
  /\ UNCHANGED <<world, testing, edges, lines>>

\* findEdgeConcurrent, one node: an edge in each direction per node found.
\* A faulty variant: only in one.
FindEdges_OneWay(t) ==
  /\ stage = "edges" /\ at[t] < RangeEnd(t, Len(nodes), Len(nodes))
  /\ LET v == at[t]
         found == world.near[v]
     IN out' = [out EXCEPT ![t] = @ \o [k \in DOMAIN found |-> Edge(v, found[k])]]
  /\ at' = [at EXCEPT ![t] = @ + 1]
  /\ UNCHANGED <<world, stage, testing, joined, nodes, edges, lines>>

FindEdges(t) ==
  /\ stage = "edges" /\ at[t] < RangeEnd(t, Len(nodes), Len(nodes))
  /\ LET v == at[t]
         found == world.near[v]
         Pushed(k) == LET w == found[(k + 1) \div 2]
                      IN IF k % 2 = 1 THEN Edge(v, w) ELSE Edge(w, v)
     IN out' = [out EXCEPT ![t] = @ \o [k \in 1 .. 2 * Len(found) |-> Pushed(k)]]
  /\ at' = [at EXCEPT ![t] = @ + 1]
  /\ UNCHANGED <<world, stage, testing, joined, nodes, edges, lines>>

JoinEdges ==
  /\ stage = "edges" /\ at[joined] >= RangeEnd(joined, Len(nodes), Len(nodes))
  /\ edges' = edges \o out[joined]
  /\ joined' = joined + 1
  /\ stage' = IF joined' < ThreadCount THEN "edges" ELSE "filter"
  /\ UNCHANGED <<world, at, testing, out, nodes, lines>>

\* std::sort is not stable: the next of the sorted edges is any one with the
\* smallest source among those that were not taken yet.
\* A faulty variant: no sorting.
IsNext_Unsorted(k) == k = 1

IsNext(k) == \A j \in DOMAIN edges : edges[k][1] <= edges[j][1]

\* A faulty variant: an edge is compared with the one before it only.
IsKept_Last(e) == lines # << >> /\ Last(lines)[1] = e[1] /\ Last(lines)[2] = e[2]

IsKept(e) == \E k \in DOMAIN lines : lines[k][1] = e[1] /\ lines[k][2] = e[2]

\* One turn of the loop that keeps the first of the edges with the same source
\* and target.
Filter ==
  /\ stage = "filter"
  /\ \E k \in DOMAIN edges :
       /\ IsNext(k)
       /\ edges' = RemoveAt(edges, k)
       /\ lines' = IF IsKept(edges[k]) THEN lines ELSE Append(lines, edges[k])
  /\ UNCHANGED <<world, stage, at, testing, out, joined, nodes>>

FilterEnd ==
  /\ stage = "filter" /\ edges = << >>
  /\ stage' = "done"
  /\ UNCHANGED <<world, at, testing, out, joined, nodes, edges, lines>>

Ended == stage \in {"done", "aborted"} /\ UNCHANGED vars

Step(t) == SkipPolar(t) \/ BeginTest(t) \/ EndTest(t) \/ FindEdges(t)
Main == JoinNodes \/ JoinEdges \/ Filter \/ FilterEnd
Next == (\E t \in Threads : Step(t)) \/ Main \/ CorruptCutEdges \/ Ended

\* The operating system runs every thread that can run.
Spec == Init /\ [][Next]_vars /\ WF_vars(Main) /\ \A t \in Threads : WF_vars(Step(t))
-----------------------------------------------------------------------------
EdgeType == Nodes \X Nodes \X Nat

TypeOK ==
  /\ world \in Worlds
  /\ stage \in {"nodes", "edges", "filter", "done", "aborted"}
  /\ at \in [Threads -> 0 .. CandidateCount] /\ testing \subseteq Threads
  /\ \A t \in Threads : at[t] = RangeStart(t, IF stage \in {"nodes", "aborted"} THEN CandidateCount ELSE N)
                        => out[t] = << >>
  /\ out \in [Threads -> Seq(IF stage \in {"nodes", "aborted"} THEN Candidates ELSE EdgeType)]
  /\ joined \in 0 .. ThreadCount
  /\ nodes \in Seq(Candidates) /\ edges \in Seq(EdgeType) /\ lines \in Seq(EdgeType)

\* s holds the elements of S, smallest first, each once.
Lists(s, S) ==
  /\ Range(s) = S
  /\ \A j, k \in DOMAIN s : j < k => s[j] < s[k]

\* The candidates in water are kept in their order, once each, however the
\* threads run (GraphGenerator.cpp:58-63); those behind the last full range
\* are lost.
WaterKept ==
  stage \notin {"nodes", "aborted"} => Lists(nodes, WaterIn(world, 0, Tested))

\* "checks whether the graph is truly bidirectional" (main.cpp:89-108), with
\* the same cost in both directions: path queries walk back from the target on
\* the edges that leave it.
EdgesBothWays ==
  stage = "done" =>
    \A k \in DOMAIN lines : \E j \in DOMAIN lines : lines[j] = <<lines[k][2], lines[k][1], lines[k][3]>>

\* The nodes a thread searches from.
Searched == UNION {RangeStart(t, N) .. RangeEnd(t, N, N) - 1 : t \in Threads}

\* Two threads may find the same edge from its two ends, and one finds it twice
\* when it lies in its range with both: it is in the file once, and none that
\* was found is missing (GraphGenerator.cpp:91-104).
EachEdgeOnce ==
  stage = "done" =>
    /\ \A v \in Searched : \A w \in Range(world.near[v]) :
         \A pair \in {<<v, w>>, <<w, v>>} :
           Cardinality({k \in DOMAIN lines : <<lines[k][1], lines[k][2]>> = pair}) = 1
    /\ \A k \in DOMAIN lines :
         LET v == lines[k][1]
             w == lines[k][2]
         IN \/ v \in Searched /\ w \in Range(world.near[v])
            \/ w \in Searched /\ v \in Range(world.near[w])

\* What buildFromFMI makes of the edge lines is a network that can be searched:
\* its offsets are right only if the lines are sorted (Graph.cpp:12-13, 161).
FileIsGraph == stage = "done" => IsGraph(BuildFromFMI(lines))

\* Every range is finished and joined, unless the process dies.
GenerationEnds == <>(stage \in {"done", "aborted"})
=============================================================================

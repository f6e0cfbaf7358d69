------------------------ MODULE GraphGeneratorProofs ------------------------
(***************************************************************************)
(* Proofs about module GraphGenerator for any number of threads and        *)
(* candidates, and whatever the searches find: the nodes and the edge      *)
(* lines of the file do not depend on how the threads run.                 *)
(***************************************************************************)
EXTENDS GraphGenerator, ShipGraphProofs, SequenceTheorems

First == stage \in {"nodes", "aborted"}

\* The edges a search around v finds, and those found from a set of nodes.
FoundAt(v) ==
  UNION {{Edge(v, w), Edge(w, v)} : w \in Range(world.near[v])}
FoundFrom(S) == UNION {FoundAt(v) : v \in S}

SearchedBy(t) == RangeStart(t, N) .. RangeEnd(t, N, N) - 1

\* Each thread has kept the water of its range up to where it stands, the main
\* thread that of the ranges of the threads it has joined.
NodesInv ==
  First =>
    /\ joined < ThreadCount /\ edges = << >> /\ lines = << >>
    /\ nodes \in Seq(Candidates)
    /\ Lists(nodes, WaterIn(world, 0, RangeStart(joined, CandidateCount)))
    /\ out \in [Threads -> Seq(Candidates)]
    /\ \A t \in Threads :
         /\ at[t] \in RangeStart(t, CandidateCount) .. RangeEnd(t, CandidateCount, 0)
         /\ t \in testing => at[t] < RangeEnd(t, CandidateCount, 0)
         /\ Lists(out[t], WaterIn(world, RangeStart(t, CandidateCount), at[t]))

\* The nodes are complete when edges are searched; each thread has found the
\* edges of its range up to where it stands.
EdgesInv ==
  ~First =>
    /\ nodes \in Seq(Candidates) /\ Len(nodes) = N
    /\ Lists(nodes, WaterIn(world, 0, Tested))
    /\ out \in [Threads -> Seq(EdgeType)]
    /\ \A t \in Threads :
         /\ at[t] \in RangeStart(t, N) .. RangeEnd(t, N, N)
         /\ Range(out[t]) = FoundFrom(RangeStart(t, N) .. at[t] - 1)

JoinInv ==
  stage = "edges" =>
    /\ joined < ThreadCount /\ lines = << >>
    /\ Range(edges) = FoundFrom(UNION {SearchedBy(t) : t \in 0 .. joined - 1})

\* Nothing found is lost: it is in the file or among the edges left; the lines
\* are sorted, no two of them join the same nodes, and none of the edges left
\* belongs before them.
FilterInv ==
  stage \in {"filter", "done"} =>
    /\ Range(edges) \cup Range(lines) = FoundFrom(Searched)
    /\ \A k \in DOMAIN lines : \A j \in DOMAIN edges : lines[k][1] <= edges[j][1]
    /\ \A j, k \in DOMAIN lines :
         j < k => /\ lines[j][1] <= lines[k][1]
                  /\ <<lines[j][1], lines[j][2]>> # <<lines[k][1], lines[k][2]>>
    /\ stage = "done" => edges = << >>

Typed ==
  /\ world \in Worlds
  /\ stage \in {"nodes", "edges", "filter", "done", "aborted"}
  /\ at \in [Threads -> 0 .. CandidateCount] /\ testing \subseteq Threads
  /\ joined \in 0 .. ThreadCount
  /\ edges \in Seq(EdgeType) /\ lines \in Seq(EdgeType)

Inv == Typed /\ NodesInv /\ EdgesInv /\ JoinInv /\ FilterInv
-----------------------------------------------------------------------------
LEMMA ShareFacts ==
  ASSUME NEW total \in Nat
  PROVE  /\ Share(total) \in Nat /\ ThreadCount * Share(total) <= total
         /\ \A t \in 0 .. ThreadCount : t * Share(total) \in 0 .. total
         /\ \A t \in Threads : (t + 1) * Share(total) = t * Share(total) + Share(total)
<1> USE GeneratorAssumption
<1> DEFINE q == Share(total)
<1>1. q \in Nat /\ total = ThreadCount * q + (total % ThreadCount)
      /\ total % ThreadCount \in 0 .. ThreadCount - 1
  BY DEF Share
<1> HIDE DEF q
<1>2. ThreadCount * q \in Nat /\ ThreadCount * q <= total
  BY <1>1
<1>3. ASSUME NEW t \in 0 .. ThreadCount PROVE t * q \in 0 .. total
  <2>1. (ThreadCount - t) * q \in Nat /\ t * q \in Nat
    BY <1>1
  <2>2. ThreadCount * q = t * q + (ThreadCount - t) * q
    BY <1>1
  <2> QED BY <1>2, <2>1, <2>2
<1>4. ASSUME NEW t \in Threads PROVE (t + 1) * q = t * q + q
  BY <1>1 DEF Threads
<1> QED BY <1>1, <1>2, <1>3, <1>4 DEF q

\* The ranges of the threads lie one behind the other.
LEMMA RangeFacts ==
  ASSUME NEW t \in Threads, NEW total \in Nat, NEW known \in Nat
  PROVE  /\ RangeStart(t, total) \in 0 .. total
         /\ RangeEnd(t, total, known) \in RangeStart(t, total) .. total
         /\ RangeEnd(t, total, 0) = RangeStart(t + 1, total)
         /\ RangeStart(0, total) = 0
<1> USE GeneratorAssumption
<1>1. t \in 0 .. ThreadCount /\ t + 1 \in 0 .. ThreadCount /\ t # -1
  BY DEF Threads
<1>2. RangeStart(t, total) \in 0 .. total /\ RangeStart(t + 1, total) \in 0 .. total
      /\ RangeStart(t, total) <= RangeStart(t + 1, total) /\ RangeStart(0, total) = 0
  <2>1. Share(total) \in Nat /\ \A k \in 0 .. ThreadCount : k * Share(total) \in 0 .. total
    BY ShareFacts
  <2>2. (t + 1) * Share(total) = t * Share(total) + Share(total)
    BY ShareFacts
  <2>3. t * Share(total) \in 0 .. total /\ (t + 1) * Share(total) \in 0 .. total
    BY <1>1, <2>1
  <2>4. 0 * Share(total) = 0
    BY <2>1
  <2> QED BY <2>1, <2>2, <2>3, <2>4 DEF RangeStart
<1>3. RangeEnd(t, total, known) \in {total, RangeStart(t + 1, total)}
  BY DEF RangeEnd, RangeStart
<1>4. RangeEnd(t, total, 0) = RangeStart(t + 1, total)
  BY <1>1 DEF RangeEnd, RangeStart
<1> QED BY <1>2, <1>3, <1>4

LEMMA ListsAppend ==
  ASSUME NEW s \in Seq(Nat), NEW S, Lists(s, S), NEW x \in Nat, \A y \in S : y < x
  PROVE  Lists(Append(s, x), S \cup {x})
<1> DEFINE L == Len(s)
<1>1. L \in Nat /\ DOMAIN s = 1 .. L /\ DOMAIN Append(s, x) = 1 .. L + 1
      /\ \A k \in 1 .. L : Append(s, x)[k] = s[k] /\ s[k] \in S
      /\ Append(s, x)[L + 1] = x
  BY DEF Lists, Range
<1> HIDE DEF L
<1>2. Range(Append(s, x)) = S \cup {x}
  <2>1. {Append(s, x)[k] : k \in 1 .. L + 1} = {s[k] : k \in 1 .. L} \cup {x}
    BY <1>1
  <2> QED BY <1>1, <2>1 DEF Lists, Range
<1>3. ASSUME NEW j \in 1 .. L + 1, NEW k \in 1 .. L + 1, j < k
      PROVE  Append(s, x)[j] < Append(s, x)[k]
  <2>1. j \in 1 .. L
    BY <1>1, <1>3
  <2>2. CASE k = L + 1
    BY <1>1, <2>1, <2>2
  <2>3. CASE k # L + 1
    BY <1>1, <1>3, <2>1, <2>3 DEF Lists
  <2> QED BY <2>2, <2>3
<1> QED BY <1>1, <1>2, <1>3 DEF Lists

LEMMA ListsConcat ==
  ASSUME NEW s \in Seq(Nat), NEW S, Lists(s, S), NEW r \in Seq(Nat), NEW R, Lists(r, R),
         \A x \in S, y \in R : x < y
  PROVE  Lists(s \o r, S \cup R)
<1> DEFINE L == Len(s)  M == Len(r)  c == s \o r
<1>1. /\ L \in Nat /\ DOMAIN s = 1 .. L /\ M \in Nat /\ DOMAIN r = 1 .. M
      /\ DOMAIN c = 1 .. L + M
      /\ \A k \in 1 .. L : s[k] \in S /\ \A j \in 1 .. L : j < k => s[j] < s[k]
      /\ \A k \in 1 .. M : r[k] \in R /\ \A j \in 1 .. M : j < k => r[j] < r[k]
      /\ \A k \in 1 .. L + M : c[k] = IF k <= L THEN s[k] ELSE r[k - L]
  BY DEF Lists, Range
<1> HIDE DEF L, M, c
<1>2. Range(c) = S \cup R
  BY RangeConcatenation DEF Lists, c
<1>3. ASSUME NEW j \in 1 .. L + M, NEW k \in 1 .. L + M, j < k
      PROVE  c[j] < c[k]
  <2>1. CASE k <= L
    BY <1>1, <1>3, <2>1
  <2>2. CASE k > L /\ j <= L
    BY <1>1, <2>2
  <2>3. CASE k > L /\ j > L
    <3>1. k - L \in 1 .. M /\ j - L \in 1 .. M /\ j - L < k - L
      BY <1>1, <1>3, <2>3
    <3> QED BY <1>1, <2>3, <3>1
  <2> QED BY <1>1, <2>1, <2>2, <2>3
<1> QED BY <1>1, <1>2, <1>3 DEF Lists, c

\* What removing or appending one entry does to the entries of a sequence.
LEMMA RemoveFacts ==
  ASSUME NEW T, NEW s \in Seq(T), NEW k \in DOMAIN s
  PROVE  /\ RemoveAt(s, k) \in Seq(T)
         /\ Range(RemoveAt(s, k)) \subseteq Range(s)
         /\ Range(s) = Range(RemoveAt(s, k)) \cup {s[k]}
<1> DEFINE L == Len(s)
           r == RemoveAt(s, k)
<1>1. L \in Nat /\ DOMAIN s = 1 .. L /\ k \in 1 .. L
  OBVIOUS
<1>2. /\ r \in Seq(T) /\ DOMAIN r = 1 .. L - 1
      /\ \A j \in 1 .. L - 1 : r[j] = IF j < k THEN s[j] ELSE s[j + 1]
  <2>1. /\ SubSeq(s, 1, k - 1) \in Seq(T) /\ Len(SubSeq(s, 1, k - 1)) = k - 1
        /\ \A j \in 1 .. k - 1 : SubSeq(s, 1, k - 1)[j] = s[j]
    BY <1>1
  <2>2. /\ SubSeq(s, k + 1, L) \in Seq(T) /\ Len(SubSeq(s, k + 1, L)) = L - k
        /\ \A j \in 1 .. L - k : SubSeq(s, k + 1, L)[j] = s[k + j]
    BY <1>1
  <2> DEFINE a == SubSeq(s, 1, k - 1)
             b == SubSeq(s, k + 1, L)
  <2>3. r = a \o b
    BY DEF RemoveAt
  <2> HIDE DEF a, b, L, r
  <2>4. /\ a \in Seq(T) /\ Len(a) = k - 1 /\ b \in Seq(T) /\ Len(b) = L - k
        /\ \A j \in 1 .. k - 1 : a[j] = s[j]
        /\ \A j \in 1 .. L - k : b[j] = s[k + j]
    BY <2>1, <2>2 DEF a, b
  <2>5. /\ r \in Seq(T) /\ Len(r) = Len(a) + Len(b)
        /\ \A j \in 1 .. Len(a) + Len(b) : r[j] = IF j <= Len(a) THEN a[j] ELSE b[j - Len(a)]
    BY <2>3, <2>4, ConcatProperties
  <2>6. /\ r \in Seq(T) /\ Len(r) = L - 1
        /\ \A j \in 1 .. L - 1 : r[j] = IF j <= k - 1 THEN a[j] ELSE b[j - (k - 1)]
    BY <1>1, <2>4, <2>5
  <2>7. ASSUME NEW j \in 1 .. L - 1 PROVE r[j] = IF j < k THEN s[j] ELSE s[j + 1]
    <3>1. CASE j < k
      BY <1>1, <2>4, <2>6, <3>1
    <3>2. CASE j >= k
      <4> DEFINE i == j - (k - 1)
      <4>1. i \in 1 .. L - k /\ k + i = j + 1 /\ ~(j <= k - 1) /\ ~(j < k)
        BY <1>1, <3>2
      <4>2. r[j] = b[i]
        BY <2>6, <4>1
      <4> HIDE DEF i
      <4>3. b[i] = s[j + 1]
        BY <2>4, <4>1
      <4> QED BY <4>1, <4>2, <4>3
    <3> QED BY <1>1, <3>1, <3>2
  <2> QED BY <2>6, <2>7
<1> HIDE DEF L, r
<1>3. ASSUME NEW j \in 1 .. L PROVE s[j] \in Range(r) \cup {s[k]}
  <2>1. CASE j < k
    <3>1. j \in DOMAIN r /\ r[j] = s[j]
      BY <1>1, <1>2, <2>1
    <3> QED BY <3>1 DEF Range
  <2>2. CASE j > k
    <3>1. j - 1 \in DOMAIN r /\ r[j - 1] = s[j]
      BY <1>1, <1>2, <2>2
    <3> QED BY <3>1 DEF Range
  <2> QED BY <1>1, <2>1, <2>2
<1>4. ASSUME NEW j \in 1 .. L - 1 PROVE r[j] \in Range(s)
  <2>1. j \in 1 .. L /\ j + 1 \in 1 .. L
    BY <1>1
  <2> QED BY <1>1, <1>2, <2>1 DEF Range
<1>5. Range(r) \subseteq Range(s)
  BY <1>2, <1>4 DEF Range
<1>6. Range(s) \subseteq Range(r) \cup {s[k]}
  BY <1>1, <1>3 DEF Range
<1>7. s[k] \in Range(s)
  BY <1>1 DEF Range
<1> QED BY <1>2, <1>5, <1>6, <1>7 DEF r

LEMMA AppendRange ==
  ASSUME NEW T, NEW s \in Seq(T), NEW x \in T
  PROVE  Range(Append(s, x)) = Range(s) \cup {x}
<1> DEFINE r == Append(s, x)
           L == Len(s)
<1>1. /\ L \in Nat /\ DOMAIN s = 1 .. L /\ DOMAIN r = 1 .. L + 1
      /\ \A k \in 1 .. L : r[k] = s[k]
      /\ r[L + 1] = x
  OBVIOUS
<1> HIDE DEF r, L
<1>2. {r[k] : k \in 1 .. L + 1} = {s[k] : k \in 1 .. L} \cup {x}
  BY <1>1
<1> QED BY <1>1, <1>2 DEF Range, r

LEMMA ConcatRange ==
  ASSUME NEW T, NEW s \in Seq(T), NEW r \in Seq(T)
  PROVE  s \o r \in Seq(T) /\ Range(s \o r) = Range(s) \cup Range(r)
<1>1. s \o r \in Seq(T)
  BY ConcatProperties
<1>2. Range(s \o r) = Range(s) \cup Range(r)
  BY RangeConcatenation
<1> QED BY <1>1, <1>2

LEMMA EmptyRange ==
  ASSUME NEW T, NEW s \in Seq(T)
  PROVE  Range(s) = {} <=> s = << >>
<1>1. CASE s = << >>
  BY <1>1 DEF Range
<1>2. CASE s # << >>
  <2>1. 1 \in DOMAIN s
    BY <1>2
  <2> QED BY <1>2, <2>1 DEF Range
<1> QED BY <1>1, <1>2
-----------------------------------------------------------------------------
LEMMA WorldFacts ==
  ASSUME world \in Worlds
  PROVE  /\ world.kind \in [Candidates -> {"water", "land", "polar"}]
         /\ Cardinality(WaterIn(world, 0, Tested)) = N
         /\ world.near \in [Nodes -> Seq(Nodes)]
         /\ world.metres \in [Nodes \X Nodes -> Nat]
         /\ \A u, v \in Nodes : /\ Edge(u, v) \in EdgeType
                                /\ Edge(u, v) = <<u, v, Edge(v, u)[3]>>
BY GeneratorAssumption DEF Edge, EdgeType

\* One entry per element: a list is as long as the set it lists is large.
LEMMA ListsLength ==
  ASSUME NEW s \in Seq(Nat), NEW S, Lists(s, S)
  PROVE  Len(s) = Cardinality(S)
<1>1. Len(s) \in Nat /\ DOMAIN s = 1 .. Len(s) /\ \A k \in DOMAIN s : s[k] \in Nat
  OBVIOUS
<1>2. s \in Surjection(1 .. Len(s), S)
  BY <1>1 DEF Lists, Range, Surjection
<1>3. \A j, k \in DOMAIN s : j # k => s[j] # s[k]
  <2> SUFFICES ASSUME NEW j \in 1 .. Len(s), NEW k \in 1 .. Len(s), j < k PROVE s[j] # s[k]
    BY <1>1
  <2>1. s[j] < s[k] /\ s[j] \in Nat /\ s[k] \in Nat
    BY <1>1 DEF Lists
  <2> QED BY <2>1
<1>4. ExistsBijection(1 .. Len(s), S)
  BY <1>1, <1>2, <1>3 DEF ExistsBijection, Bijection, Injection, IsInjective, Surjection
<1> QED BY <1>1, <1>4, FS_CountingElements

LEMMA NodesFit == ASSUME world \in Worlds PROVE N <= CandidateCount /\ N \in Nat
<1> USE GeneratorAssumption
<1> DEFINE W == WaterIn(world, 0, Tested)
<1>1. Tested \in 0 .. CandidateCount
  BY ShareFacts DEF Tested
<1>2. W \subseteq 0 .. CandidateCount - 1
  BY <1>1 DEF WaterIn
<1>3. IsFiniteSet(0 .. CandidateCount - 1) /\ Cardinality(0 .. CandidateCount - 1) = CandidateCount
  BY FS_Interval
<1>4. Cardinality(W) <= CandidateCount
  BY <1>2, <1>3, FS_Subset
<1> QED BY <1>4, WorldFacts, SizeAssumption

LEMMA InitInv == Init => Inv
<1> SUFFICES ASSUME Init PROVE Inv
  OBVIOUS
<1> USE GeneratorAssumption DEF Init
<1>1. 0 \in Threads
  BY DEF Threads
<1>2. Typed
  <2>1. \A t \in Threads : RangeStart(t, CandidateCount) \in 0 .. CandidateCount
    BY RangeFacts
  <2> QED BY <2>1 DEF Typed
<1>3. NodesInv
  <2>1. \A first, end \in Nat : first = end => WaterIn(world, first, end) = {}
    BY DEF WaterIn
  <2>2. Lists(<< >>, {})
    BY DEF Lists, Range
  <2>3. RangeStart(0, CandidateCount) = 0 /\ RangeStart(joined, CandidateCount) = 0
    BY <1>1, RangeFacts
  <2>4. ASSUME NEW t \in Threads
        PROVE  /\ at[t] \in RangeStart(t, CandidateCount) .. RangeEnd(t, CandidateCount, 0)
               /\ at[t] = RangeStart(t, CandidateCount) /\ at[t] \in Nat
    BY RangeFacts
  <2>5. out = [t \in Threads |-> << >>] /\ out \in [Threads -> Seq(Candidates)]
    BY DEF NothingFound
  <2>6. Lists(nodes, WaterIn(world, 0, RangeStart(joined, CandidateCount)))
    BY <2>1, <2>2, <2>3
  <2>7. ASSUME NEW t \in Threads
        PROVE  Lists(out[t], WaterIn(world, RangeStart(t, CandidateCount), at[t]))
    <3>1. out[t] = << >> /\ WaterIn(world, RangeStart(t, CandidateCount), at[t]) = {}
      BY <2>1, <2>4, <2>5
    <3> QED BY <2>2, <3>1
  <2>8. << >> \in Seq(Candidates)
    OBVIOUS
  <2> HIDE DEF Init
  <2>9. testing = {} /\ joined = 0 /\ nodes = << >> /\ edges = << >> /\ lines = << >>
    BY DEF Init
  <2>10. joined < ThreadCount
    BY <2>9, GeneratorAssumption
  <2> QED BY <2>4, <2>5, <2>6, <2>7, <2>8, <2>9, <2>10 DEF NodesInv
<1>4. EdgesInv /\ JoinInv /\ FilterInv
  BY DEF EdgesInv, JoinInv, FilterInv, First
<1> QED BY <1>2, <1>3, <1>4 DEF Inv

\* The part of the invariant that the steps of the first stage leave alone.
LEMMA FirstStageFacts ==
  ASSUME Inv, stage = "nodes", NEW t \in Threads
  PROVE  /\ at[t] \in Nat /\ at[t] \in RangeStart(t, CandidateCount) .. RangeEnd(t, CandidateCount, 0)
         /\ RangeStart(t, CandidateCount) \in Nat
         /\ RangeEnd(t, CandidateCount, 0) \in 0 .. CandidateCount
<1>1. RangeStart(t, CandidateCount) \in 0 .. CandidateCount
      /\ RangeEnd(t, CandidateCount, 0) \in RangeStart(t, CandidateCount) .. CandidateCount
  BY RangeFacts, GeneratorAssumption
<1> QED BY <1>1, GeneratorAssumption DEF Inv, NodesInv, First, Typed

\* A thread that does not keep its candidate goes on to the next.
LEMMA WaterSkip ==
  ASSUME NEW first \in Nat, NEW k \in Nat, world.kind[k] # "water"
  PROVE  WaterIn(world, first, k + 1) = WaterIn(world, first, k)
BY DEF WaterIn

LEMMA WaterNext ==
  ASSUME NEW first \in Nat, NEW k \in Nat, first <= k, world.kind[k] = "water"
  PROVE  WaterIn(world, first, k + 1) = WaterIn(world, first, k) \cup {k}
BY DEF WaterIn

LEMMA SkipPolarInv == ASSUME Inv, NEW t \in Threads, SkipPolar(t) PROVE Inv'
<1> USE DEF Inv
<1>1. /\ stage = "nodes" /\ t \notin testing /\ at[t] < RangeEnd(t, CandidateCount, 0)
      /\ world.kind[at[t]] = "polar"
      /\ at' = [at EXCEPT ![t] = @ + 1]
      /\ UNCHANGED <<world, stage, testing, out, joined, nodes, edges, lines>>
  BY DEF SkipPolar, AtCandidate
<1>2. /\ at[t] \in Nat /\ at[t] \in RangeStart(t, CandidateCount) .. RangeEnd(t, CandidateCount, 0)
      /\ RangeStart(t, CandidateCount) \in Nat
      /\ RangeEnd(t, CandidateCount, 0) \in 0 .. CandidateCount
  BY <1>1, FirstStageFacts
<1>3. Typed'
  BY <1>1, <1>2, GeneratorAssumption DEF Typed
<1>4. at'[t] = at[t] + 1 /\ \A r \in Threads \ {t} : at'[r] = at[r]
  BY <1>1 DEF Typed
<1>5. WaterIn(world, RangeStart(t, CandidateCount), at[t] + 1)
        = WaterIn(world, RangeStart(t, CandidateCount), at[t])
  BY <1>1, <1>2, WaterSkip
<1>6. NodesInv'
  <2>1. ASSUME NEW r \in Threads
        PROVE  /\ at'[r] \in RangeStart(r, CandidateCount) .. RangeEnd(r, CandidateCount, 0)
               /\ r \in testing => at'[r] < RangeEnd(r, CandidateCount, 0)
               /\ Lists(out[r], WaterIn(world, RangeStart(r, CandidateCount), at'[r]))
    BY <1>1, <1>2, <1>4, <1>5 DEF NodesInv, First
  <2> QED BY <1>1, <2>1 DEF NodesInv, First
<1> QED BY <1>1, <1>3, <1>6 DEF EdgesInv, JoinInv, FilterInv, First

LEMMA BeginTestInv == ASSUME Inv, NEW t \in Threads, BeginTest(t) PROVE Inv'
<1> USE DEF Inv
<1>1. /\ stage = "nodes" /\ at[t] < RangeEnd(t, CandidateCount, 0)
      /\ testing' = testing \cup {t}
      /\ UNCHANGED <<world, stage, at, out, joined, nodes, edges, lines>>
  BY DEF BeginTest, AtCandidate
<1>2. Typed' /\ NodesInv'
  BY <1>1 DEF Typed, NodesInv, First
<1> QED BY <1>1, <1>2 DEF EdgesInv, JoinInv, FilterInv, First

LEMMA EndTestInv == ASSUME Inv, NEW t \in Threads, EndTest(t) PROVE Inv'
<1> USE DEF Inv
<1>1. /\ stage = "nodes" /\ t \in testing
      /\ testing' = testing \ {t}
      /\ at' = [at EXCEPT ![t] = @ + 1]
      /\ out' = IF world.kind[at[t]] = "water" THEN [out EXCEPT ![t] = Append(@, at[t])] ELSE out
      /\ UNCHANGED <<world, stage, joined, nodes, edges, lines>>
  BY DEF EndTest
<1> DEFINE first == RangeStart(t, CandidateCount)
           W == WaterIn(world, first, at[t])
<1>2. /\ at[t] \in Nat /\ first \in Nat /\ first <= at[t]
      /\ at[t] < RangeEnd(t, CandidateCount, 0) /\ RangeEnd(t, CandidateCount, 0) \in 0 .. CandidateCount
      /\ Lists(out[t], W) /\ out[t] \in Seq(Candidates)
  BY <1>1, FirstStageFacts DEF NodesInv, First
<1>3. at[t] \in Candidates /\ Seq(Candidates) \subseteq Seq(Nat)
  BY <1>2, GeneratorAssumption DEF Candidates
<1>4. /\ at'[t] = at[t] + 1 /\ \A r \in Threads \ {t} : at'[r] = at[r] /\ out'[r] = out[r]
      /\ out' \in [Threads -> Seq(Candidates)]
  BY <1>1, <1>3 DEF Typed, NodesInv, First
<1>5. Typed'
  BY <1>1, <1>2, GeneratorAssumption DEF Typed
<1>6. Lists(out'[t], WaterIn(world, first, at[t] + 1))
  <2>1. CASE world.kind[at[t]] = "water"
    <3>1. out'[t] = Append(out[t], at[t])
      BY <1>1, <2>1 DEF NodesInv, First
    <3>2. \A y \in W : y < at[t]
      BY <1>2 DEF WaterIn
    <3> HIDE DEF W
    <3>3. Lists(Append(out[t], at[t]), W \cup {at[t]})
      BY <1>2, <1>3, <3>2, ListsAppend
    <3>4. WaterIn(world, first, at[t] + 1) = W \cup {at[t]}
      BY <1>2, <2>1, WaterNext DEF W
    <3> QED BY <3>1, <3>3, <3>4
  <2>2. CASE world.kind[at[t]] # "water"
    <3>1. WaterIn(world, first, at[t] + 1) = W
      BY <1>2, <2>2, WaterSkip
    <3> QED BY <1>1, <1>2, <2>2, <3>1
  <2> QED BY <2>1, <2>2
<1> HIDE DEF W
<1>7. NodesInv'
  <2>1. ASSUME NEW r \in Threads
        PROVE  /\ at'[r] \in RangeStart(r, CandidateCount) .. RangeEnd(r, CandidateCount, 0)
               /\ r \in testing' => at'[r] < RangeEnd(r, CandidateCount, 0)
               /\ Lists(out'[r], WaterIn(world, RangeStart(r, CandidateCount), at'[r]))
    <3>1. CASE r = t
      BY <1>1, <1>2, <1>4, <1>6, <3>1
    <3>2. CASE r # t
      BY <1>1, <1>4, <3>2 DEF NodesInv, First
    <3> QED BY <3>1, <3>2
  <2> QED BY <1>1, <1>4, <2>1 DEF NodesInv, First
<1> QED BY <1>1, <1>5, <1>7 DEF EdgesInv, JoinInv, FilterInv, First

LEMMA CorruptCutEdgesInv == Inv /\ CorruptCutEdges => Inv'
BY DEF CorruptCutEdges, Inv, Typed, NodesInv, EdgesInv, JoinInv, FilterInv, First

\* The ranges of the first threads are one range from 0 on.
LEMMA JoinNodesInv == Inv /\ JoinNodes => Inv'
<1> SUFFICES ASSUME Inv, JoinNodes PROVE Inv'
  OBVIOUS
<1> USE DEF Inv
<1> DEFINE C == CandidateCount
           first == RangeStart(joined, C)
           end == RangeStart(joined + 1, C)
           W == WaterIn(world, 0, end)
<1>1. /\ stage = "nodes" /\ joined \in Threads /\ at[joined] >= RangeEnd(joined, C, 0)
      /\ nodes' = nodes \o out[joined]
      /\ UNCHANGED <<world, testing, edges, lines>>
  BY GeneratorAssumption DEF JoinNodes, NodesInv, First, Typed, Threads
<1>2. /\ at[joined] = end /\ first \in 0 .. C /\ end \in first .. C
  <2>1. /\ first \in 0 .. C /\ RangeEnd(joined, C, 0) \in first .. C
        /\ RangeEnd(joined, C, 0) = end
    BY <1>1, RangeFacts, GeneratorAssumption
  <2> QED BY <1>1, <2>1, GeneratorAssumption, FirstStageFacts
<1>3. /\ nodes \in Seq(Candidates) /\ out[joined] \in Seq(Candidates)
      /\ Lists(nodes, WaterIn(world, 0, first))
      /\ Lists(out[joined], WaterIn(world, first, end))
  BY <1>1, <1>2 DEF NodesInv, First
<1>4. nodes' \in Seq(Candidates) /\ Lists(nodes', W)
  <2>1. Seq(Candidates) \subseteq Seq(Nat)
    BY GeneratorAssumption DEF Candidates
  <2>2. \A x \in WaterIn(world, 0, first), y \in WaterIn(world, first, end) : x < y
    BY <1>2 DEF WaterIn
  <2>3. Lists(nodes \o out[joined], WaterIn(world, 0, first) \cup WaterIn(world, first, end))
    BY <1>3, <2>1, <2>2, ListsConcat
  <2>4. WaterIn(world, 0, first) \cup WaterIn(world, first, end) = W
    BY <1>2, GeneratorAssumption DEF WaterIn
  <2>5. nodes \o out[joined] \in Seq(Candidates)
    BY <1>3, ConcatProperties
  <2> QED BY <1>1, <2>3, <2>4, <2>5
<1>5. CASE joined + 1 < ThreadCount
  <2>1. joined' = joined + 1 /\ UNCHANGED <<stage, at, out>>
    BY <1>5 DEF JoinNodes
  <2>2. NodesInv'
    BY <1>1, <1>4, <1>5, <2>1 DEF NodesInv, First
  <2> QED BY <1>1, <1>5, <2>1, <2>2, GeneratorAssumption
          DEF Typed, EdgesInv, JoinInv, FilterInv, First
<1>6. CASE ~(joined + 1 < ThreadCount)
  <2>1. /\ stage' = "edges" /\ joined' = 0
        /\ at' = [t \in Threads |-> RangeStart(t, Len(nodes'))]
        /\ out' = [t \in Threads |-> << >>]
    BY <1>6 DEF JoinNodes, NothingFound
  <2>2. end = Tested
    BY <1>1, <1>6, GeneratorAssumption DEF Tested, RangeStart, Threads
  <2>3. Len(nodes') = N
    <3>1. nodes' \in Seq(Nat)
      BY <1>4, GeneratorAssumption DEF Candidates
    <3> HIDE DEF W
    <3>2. Len(nodes') = Cardinality(W)
      BY <1>4, <3>1, ListsLength
    <3> QED BY <2>2, <3>2, WorldFacts DEF Typed, W
  <2>4. N <= C /\ N \in Nat
    BY NodesFit DEF Typed
  <2>5. \A t \in Threads : /\ RangeStart(t, N) \in 0 .. N
                           /\ RangeEnd(t, N, N) \in RangeStart(t, N) .. N
    BY <2>4, RangeFacts
  <2>6. Typed'
    BY <1>1, <2>1, <2>3, <2>4, <2>5, GeneratorAssumption DEF Typed
  <2>7. EdgesInv'
    <3>1. \A t \in Threads : RangeStart(t, N) .. RangeStart(t, N) - 1 = {}
      BY <2>5
    <3>2. Range(<< >>) = {} /\ FoundFrom({}) = {}
      BY DEF Range, FoundFrom
    <3>3. out' \in [Threads -> Seq(EdgeType)]
      BY <2>1
    <3>4. ASSUME NEW t \in Threads
          PROVE  /\ at'[t] \in RangeStart(t, N) .. RangeEnd(t, N, N)
                 /\ Range(out'[t]) = FoundFrom(RangeStart(t, N) .. at'[t] - 1)
      <4>1. at'[t] = RangeStart(t, N) /\ out'[t] = << >>
        BY <2>1, <2>3
      <4>2. RangeStart(t, N) .. at'[t] - 1 = {}
        BY <3>1, <4>1
      <4>3. RangeStart(t, N) \in RangeStart(t, N) .. RangeEnd(t, N, N)
        BY <2>4, <2>5
      <4>4. Range(out'[t]) = {} /\ FoundFrom(RangeStart(t, N) .. at'[t] - 1) = {}
        BY <3>2, <4>1, <4>2
      <4> QED BY <4>1, <4>3, <4>4
    <3>5. \A S : FoundFrom(S)' = FoundFrom(S)
      BY <1>1 DEF FoundFrom, FoundAt, Edge
    <3>6. WaterIn(world, 0, Tested)' = WaterIn(world, 0, Tested)
      BY <1>1 DEF WaterIn
    <3> HIDE DEF W
    <3>7. Lists(nodes', WaterIn(world, 0, Tested))
      BY <1>4, <2>2 DEF W
    <3>8. EdgesInv'
      BY <1>4, <2>3, <3>3, <3>4, <3>5, <3>6, <3>7 DEF EdgesInv
    <3> QED BY <3>8
  <2>8. JoinInv'
    <3>1. UNION {SearchedBy(t) : t \in 0 .. joined' - 1} = {}
      BY <2>1
    <3>2. Range(<< >>) = {} /\ FoundFrom({})' = {}
      BY DEF Range, FoundFrom
    <3>3. edges' = << >> /\ lines' = << >> /\ joined' < ThreadCount
      BY <1>1, <2>1, GeneratorAssumption DEF NodesInv, First
    <3> QED BY <3>1, <3>2, <3>3 DEF JoinInv
  <2> QED BY <2>1, <2>6, <2>7, <2>8 DEF NodesInv, FilterInv, First
<1> QED BY <1>5, <1>6
-----------------------------------------------------------------------------
\* What one turn of findEdgeConcurrent pushes.
LEMMA PushedFacts ==
  ASSUME world \in Worlds, NEW v \in Nodes, NEW found \in Seq(Nodes), found = world.near[v],
         NEW s, s = [k \in 1 .. 2 * Len(found) |->
                       LET w == found[(k + 1) \div 2]
                       IN IF k % 2 = 1 THEN Edge(v, w) ELSE Edge(w, v)]
  PROVE  s \in Seq(EdgeType) /\ Range(s) = FoundAt(v)
<1> DEFINE L == Len(found)
<1>1. L \in Nat /\ DOMAIN found = 1 .. L /\ \A j \in 1 .. L : found[j] \in Nodes
  OBVIOUS
<1> HIDE DEF L
<1>2. ASSUME NEW k \in 1 .. 2 * L
      PROVE  /\ (k + 1) \div 2 \in 1 .. L
             /\ s[k] = IF k % 2 = 1 THEN Edge(v, found[(k + 1) \div 2])
                                    ELSE Edge(found[(k + 1) \div 2], v)
  BY <1>1 DEF L
<1>3. ASSUME NEW k \in 1 .. 2 * L PROVE s[k] \in EdgeType /\ s[k] \in FoundAt(v)
  <2> DEFINE j == (k + 1) \div 2
             w == found[j]
  <2>1. j \in 1 .. L /\ w \in Nodes /\ w \in Range(world.near[v]) /\ s[k] \in {Edge(v, w), Edge(w, v)}
    BY <1>1, <1>2 DEF Range
  <2> HIDE DEF j, w
  <2>2. Edge(v, w) \in EdgeType /\ Edge(w, v) \in EdgeType
    BY <2>1, WorldFacts
  <2> QED BY <2>1, <2>2 DEF FoundAt
<1>4. DOMAIN s = 1 .. 2 * L /\ 2 * L \in Nat
  BY <1>1 DEF L
<1>5. s \in Seq(EdgeType)
  <2>1. s \in [1 .. 2 * L -> EdgeType]
    BY <1>3 DEF L
  <2> DEFINE n == 2 * L
  <2> HIDE DEF n
  <2>2. s \in [1 .. n -> EdgeType] /\ n \in Nat
    BY <1>4, <2>1 DEF n
  <2> QED BY <2>2
<1>6. ASSUME NEW j \in 1 .. L PROVE Edge(v, found[j]) \in Range(s) /\ Edge(found[j], v) \in Range(s)
  <2>1. /\ 2 * j - 1 \in 1 .. 2 * L /\ ((2 * j - 1) + 1) \div 2 = j /\ (2 * j - 1) % 2 = 1
        /\ 2 * j \in 1 .. 2 * L /\ (2 * j + 1) \div 2 = j /\ (2 * j) % 2 # 1
    BY <1>1
  <2>2. s[2 * j - 1] = Edge(v, found[j]) /\ s[2 * j] = Edge(found[j], v)
    BY <1>2, <2>1
  <2> QED BY <1>4, <2>1, <2>2 DEF Range
<1>7. FoundAt(v) \subseteq Range(s)
  BY <1>1, <1>6 DEF FoundAt, Range
<1>8. Range(s) \subseteq FoundAt(v)
  BY <1>3, <1>4 DEF Range
<1> QED BY <1>5, <1>7, <1>8

\* The part of the invariant that the steps of the second stage leave alone.
LEMMA LaterStageFacts ==
  ASSUME UNCHANGED <<world, nodes>>
  PROVE  /\ Lists(nodes, WaterIn(world, 0, Tested)) => Lists(nodes, WaterIn(world, 0, Tested))'
         /\ \A S : FoundFrom(S)' = FoundFrom(S)
BY DEF WaterIn, FoundFrom, FoundAt, Edge

LEMMA FindEdgesInv == ASSUME Inv, NEW t \in Threads, FindEdges(t) PROVE Inv'
<1> USE DEF Inv
<1> DEFINE v == at[t]
           found == world.near[v]
           pushed == [k \in 1 .. 2 * Len(found) |->
                        LET w == found[(k + 1) \div 2]
                        IN IF k % 2 = 1 THEN Edge(v, w) ELSE Edge(w, v)]
<1>1. /\ stage = "edges" /\ Len(nodes) = N /\ nodes \in Seq(Candidates)
      /\ v < RangeEnd(t, N, N)
      /\ out' = [out EXCEPT ![t] = @ \o pushed]
      /\ at' = [at EXCEPT ![t] = @ + 1]
      /\ UNCHANGED <<world, stage, testing, joined, nodes, edges, lines>>
  BY DEF FindEdges, EdgesInv, First
<1>2. /\ v \in Nodes /\ v + 1 \in RangeStart(t, N) .. RangeEnd(t, N, N)
      /\ v + 1 \in 0 .. CandidateCount
      /\ RangeStart(t, N) \in Nat /\ v >= RangeStart(t, N)
  <2>1. N \in Nat /\ N <= CandidateCount
    BY NodesFit DEF Typed
  <2>2. RangeStart(t, N) \in 0 .. N /\ RangeEnd(t, N, N) \in RangeStart(t, N) .. N
    BY <2>1, RangeFacts
  <2>3. v \in RangeStart(t, N) .. RangeEnd(t, N, N)
    BY <1>1 DEF EdgesInv, First
  <2> QED BY <1>1, <2>1, <2>2, <2>3, GeneratorAssumption DEF Nodes
<1>3. found \in Seq(Nodes)
  BY <1>2, WorldFacts DEF Typed
<1> HIDE DEF v, found
<1>4. pushed \in Seq(EdgeType) /\ Range(pushed) = FoundAt(v)
  BY <1>2, <1>3, PushedFacts DEF found, Typed
<1> HIDE DEF pushed
<1>5. at'[t] = v + 1 /\ out'[t] = out[t] \o pushed
      /\ \A r \in Threads \ {t} : at'[r] = at[r] /\ out'[r] = out[r]
  BY <1>1 DEF Typed, EdgesInv, First, v
<1>5a. out[t] \in Seq(EdgeType) /\ out \in [Threads -> Seq(EdgeType)]
  BY <1>1 DEF EdgesInv, First
<1>6. Typed'
  BY <1>1, <1>2 DEF Typed, v
<1>7. out[t] \o pushed \in Seq(EdgeType) /\ Range(out[t] \o pushed) = Range(out[t]) \cup Range(pushed)
  <2> DEFINE kept == out[t]
  <2>1. kept \in Seq(EdgeType)
    BY <1>5a
  <2> HIDE DEF kept
  <2>2. kept \o pushed \in Seq(EdgeType) /\ Range(kept \o pushed) = Range(kept) \cup Range(pushed)
    BY <1>4, <2>1, ConcatRange
  <2> QED BY <2>2 DEF kept
<1>8. EdgesInv'
  <2>1. FoundFrom(RangeStart(t, N) .. (v + 1) - 1) = FoundFrom(RangeStart(t, N) .. v - 1) \cup FoundAt(v)
    <3>1. RangeStart(t, N) .. (v + 1) - 1 = (RangeStart(t, N) .. v - 1) \cup {v}
      BY <1>2 DEF Nodes
    <3> QED BY <3>1 DEF FoundFrom
  <2>2. ASSUME NEW r \in Threads
        PROVE  /\ at'[r] \in RangeStart(r, N) .. RangeEnd(r, N, N)
               /\ Range(out'[r]) = FoundFrom(RangeStart(r, N) .. at'[r] - 1)
    <3>1. CASE r = t
      BY <1>1, <1>2, <1>4, <1>5, <1>7, <2>1, <3>1 DEF EdgesInv, First, v
    <3>2. CASE r # t
      BY <1>1, <1>5, <3>2 DEF EdgesInv, First
    <3> QED BY <3>1, <3>2
  <2>3. out' \in [Threads -> Seq(EdgeType)]
    <3> DEFINE c == out[t] \o pushed
    <3>1. out' = [out EXCEPT ![t] = c] /\ c \in Seq(EdgeType)
      BY <1>1, <1>7
    <3> HIDE DEF c
    <3>2. out \in [Threads -> Seq(EdgeType)]
      BY <1>5a
    <3> QED BY <3>1, <3>2
  <2>4. Lists(nodes, WaterIn(world, 0, Tested)) /\ Lists(nodes, WaterIn(world, 0, Tested))'
        /\ \A S : FoundFrom(S)' = FoundFrom(S)
    BY <1>1, LaterStageFacts DEF EdgesInv, First
  <2> QED BY <1>1, <2>2, <2>3, <2>4 DEF EdgesInv
<1>9. JoinInv'
  <2>1. \A S : FoundFrom(S)' = FoundFrom(S)
    BY <1>1, LaterStageFacts
  <2> QED BY <1>1, <2>1 DEF JoinInv
<1> QED BY <1>1, <1>6, <1>8, <1>9 DEF NodesInv, FilterInv, First

LEMMA JoinEdgesInv == Inv /\ JoinEdges => Inv'
<1> SUFFICES ASSUME Inv, JoinEdges PROVE Inv'
  OBVIOUS
<1> USE DEF Inv
<1>1. /\ stage = "edges" /\ joined \in Threads /\ at[joined] >= RangeEnd(joined, N, N)
      /\ edges' = edges \o out[joined] /\ joined' = joined + 1
      /\ stage' = IF joined + 1 < ThreadCount THEN "edges" ELSE "filter"
      /\ UNCHANGED <<world, at, testing, out, nodes, lines>>
  BY GeneratorAssumption DEF JoinEdges, JoinInv, EdgesInv, First, Typed, Threads
<1>2. Range(out[joined]) = FoundFrom(SearchedBy(joined)) /\ out[joined] \in Seq(EdgeType)
  <2>1. at[joined] \in RangeStart(joined, N) .. RangeEnd(joined, N, N)
        /\ Range(out[joined]) = FoundFrom(RangeStart(joined, N) .. at[joined] - 1)
    BY <1>1 DEF EdgesInv, First
  <2>2. RangeStart(joined, N) \in 0 .. N /\ RangeEnd(joined, N, N) \in RangeStart(joined, N) .. N
    BY <1>1, RangeFacts, NodesFit DEF Typed
  <2>3. N \in Nat
    BY NodesFit DEF Typed
  <2>4. at[joined] = RangeEnd(joined, N, N)
    BY <1>1, <2>1, <2>2, <2>3
  <2> QED BY <1>1, <2>1, <2>4 DEF SearchedBy, EdgesInv, First
<1>3. edges' \in Seq(EdgeType)
      /\ Range(edges') = FoundFrom(UNION {SearchedBy(t) : t \in 0 .. (joined + 1) - 1})
  <2>1. edges \in Seq(EdgeType) /\ Range(edges) = FoundFrom(UNION {SearchedBy(t) : t \in 0 .. joined - 1})
    BY <1>1 DEF Typed, JoinInv
  <2>2. edges' \in Seq(EdgeType) /\ Range(edges') = Range(edges) \cup Range(out[joined])
    <3> DEFINE found == out[joined]
    <3>1. found \in Seq(EdgeType) /\ edges \in Seq(EdgeType)
      BY <1>2, <2>1
    <3> HIDE DEF found
    <3>2. edges \o found \in Seq(EdgeType) /\ Range(edges \o found) = Range(edges) \cup Range(found)
      BY <3>1, ConcatRange
    <3> QED BY <1>1, <3>2 DEF found
  <2>3. 0 .. (joined + 1) - 1 = (0 .. joined - 1) \cup {joined}
    BY <1>1 DEF Threads
  <2>4. FoundFrom(UNION {SearchedBy(t) : t \in 0 .. (joined + 1) - 1})
          = FoundFrom(UNION {SearchedBy(t) : t \in 0 .. joined - 1}) \cup FoundFrom(SearchedBy(joined))
    BY <2>3 DEF FoundFrom
  <2> QED BY <1>2, <2>1, <2>2, <2>4
<1>4. Typed'
  BY <1>1, <1>3, GeneratorAssumption DEF Typed, Threads
<1>5. \A S : FoundFrom(S)' = FoundFrom(S)
  BY <1>1, LaterStageFacts
<1>6. EdgesInv'
  <2>1. Lists(nodes, WaterIn(world, 0, Tested))'
    BY <1>1, LaterStageFacts DEF EdgesInv, First
  <2> QED BY <1>1, <1>5, <2>1 DEF EdgesInv, First
<1>7. CASE joined + 1 < ThreadCount
  BY <1>1, <1>3, <1>4, <1>5, <1>6, <1>7 DEF NodesInv, JoinInv, FilterInv, First
<1>8. CASE ~(joined + 1 < ThreadCount)
  <2>1. 0 .. (joined + 1) - 1 = Threads
    BY <1>1, <1>8, GeneratorAssumption DEF Threads
  <2>2. Range(edges') = FoundFrom(Searched)
    BY <1>3, <2>1 DEF Searched, SearchedBy
  <2>3. lines = << >> /\ Range(<< >>) = {}
    BY <1>1 DEF JoinInv, Range
  <2>4. FilterInv'
    BY <1>1, <1>5, <1>8, <2>2, <2>3 DEF FilterInv
  <2> QED BY <1>1, <1>4, <1>6, <1>8, <2>4 DEF NodesInv, JoinInv, First
<1> QED BY <1>7, <1>8
-----------------------------------------------------------------------------
LEMMA SearchedNodes == ASSUME world \in Worlds PROVE Searched \subseteq Nodes
<1> SUFFICES ASSUME NEW t \in Threads, NEW v \in RangeStart(t, N) .. RangeEnd(t, N, N) - 1
             PROVE  v \in Nodes
  BY DEF Searched
<1>1. N \in Nat
  BY NodesFit
<1>2. RangeStart(t, N) \in 0 .. N /\ RangeEnd(t, N, N) \in RangeStart(t, N) .. N
  BY <1>1, RangeFacts
<1> QED BY <1>1, <1>2 DEF Nodes

\* An edge that was found is determined by the nodes it joins, and is found in
\* the other direction too.
LEMMA FoundFacts ==
  ASSUME world \in Worlds, NEW e \in FoundFrom(Searched)
  PROVE  /\ e \in EdgeType /\ e[1] \in Nodes /\ e[2] \in Nodes /\ e[3] \in Nat
         /\ e = Edge(e[1], e[2])
         /\ <<e[2], e[1], e[3]>> \in FoundFrom(Searched)
         /\ \/ e[1] \in Searched /\ e[2] \in Range(world.near[e[1]])
            \/ e[2] \in Searched /\ e[1] \in Range(world.near[e[2]])
<1>0. PICK v \in Searched : \E w \in Range(world.near[v]) : e \in {Edge(v, w), Edge(w, v)}
  BY DEF FoundFrom, FoundAt
<1>1. PICK w \in Range(world.near[v]) : e \in {Edge(v, w), Edge(w, v)}
  BY <1>0
<1>2. v \in Nodes
  BY <1>1, SearchedNodes
<1>3. world.near[v] \in Seq(Nodes)
  BY <1>2, WorldFacts
<1>4. w \in Nodes
  BY <1>3, RangeOfSeq
<1>5. /\ world.metres[<<v, w>>] \in Nat /\ world.metres[<<w, v>>] = world.metres[<<v, w>>]
  BY <1>2, <1>4, GeneratorAssumption
<1>6. Edge(v, w) \in FoundFrom(Searched) /\ Edge(w, v) \in FoundFrom(Searched)
  BY <1>1 DEF FoundFrom, FoundAt
<1>7. CASE e = Edge(v, w)
  BY <1>1, <1>2, <1>4, <1>5, <1>6, <1>7 DEF Edge, EdgeType
<1>8. CASE e = Edge(w, v)
  BY <1>1, <1>2, <1>4, <1>5, <1>6, <1>8 DEF Edge, EdgeType
<1> QED BY <1>1, <1>7, <1>8

LEMMA FilterStepInv == Inv /\ Filter => Inv'
<1> SUFFICES ASSUME Inv, stage = "filter",
                    NEW k \in DOMAIN edges, IsNext(k), edges' = RemoveAt(edges, k),
                    lines' = IF IsKept(edges[k]) THEN lines ELSE Append(lines, edges[k]),
                    UNCHANGED <<world, stage, at, testing, out, joined, nodes>>
             PROVE  Inv'
  BY DEF Filter
<1> USE DEF Inv
<1> DEFINE e == edges[k]
           Found == FoundFrom(Searched)
<1>1. edges \in Seq(EdgeType) /\ lines \in Seq(EdgeType) /\ e \in EdgeType
  BY DEF Typed
<1>2. /\ edges' \in Seq(EdgeType) /\ Range(edges') \subseteq Range(edges)
      /\ Range(edges) = Range(edges') \cup {e}
  BY <1>1, RemoveFacts
<1>3. Range(edges) \cup Range(lines) = Found
  BY DEF FilterInv
<1>4. Found' = Found
  BY DEF FoundFrom, FoundAt, Edge, Searched, RangeStart, RangeEnd
<1>5. \A j \in DOMAIN edges' : e[1] <= edges'[j][1]
  <2> SUFFICES ASSUME NEW j \in DOMAIN edges' PROVE e[1] <= edges'[j][1]
    OBVIOUS
  <2>1. edges'[j] \in Range(edges)
    BY <1>2 DEF Range
  <2>2. PICK i \in DOMAIN edges : edges'[j] = edges[i]
    BY <2>1 DEF Range
  <2> QED BY <2>2 DEF IsNext
<1>6. \A j \in DOMAIN lines : lines[j][1] <= e[1]
  BY DEF FilterInv
<1>7. \A j \in DOMAIN lines, i \in DOMAIN edges' : lines[j][1] <= edges'[i][1]
  <2> SUFFICES ASSUME NEW j \in DOMAIN lines, NEW i \in DOMAIN edges'
               PROVE  lines[j][1] <= edges'[i][1]
    OBVIOUS
  <2>1. edges'[i] \in Range(edges)
    BY <1>2 DEF Range
  <2>2. PICK h \in DOMAIN edges : edges'[i] = edges[h]
    BY <2>1 DEF Range
  <2> QED BY <2>2 DEF FilterInv
<1>8. EdgesInv'
  <2>1. Lists(nodes, WaterIn(world, 0, Tested))' /\ \A S : FoundFrom(S)' = FoundFrom(S)
    BY LaterStageFacts DEF EdgesInv, First
  <2> QED BY <2>1 DEF EdgesInv, First
<1>9. NodesInv' /\ JoinInv'
  BY DEF NodesInv, JoinInv, First
<1>10. CASE IsKept(e)
  <2>1. lines' = lines
    BY <1>10
  <2>2. PICK j \in DOMAIN lines : lines[j][1] = e[1] /\ lines[j][2] = e[2]
    BY <1>10 DEF IsKept
  <2>3. e \in Found /\ lines[j] \in Found /\ lines[j] \in Range(lines)
    BY <1>2, <1>3 DEF Range
  <2>4. lines[j] = e
    BY <2>2, <2>3, FoundFacts DEF Typed
  <2>5. Range(edges') \cup Range(lines') = Found'
    BY <1>2, <1>3, <1>4, <2>1, <2>3, <2>4
  <2>6. FilterInv'
    BY <1>7, <2>1, <2>5 DEF FilterInv
  <2> QED BY <1>1, <1>2, <1>8, <1>9, <2>1, <2>6 DEF Typed
<1>11. CASE ~IsKept(e)
  <2>1. lines' = Append(lines, e)
    BY <1>11
  <2> DEFINE L == Len(lines)
  <2>2. /\ L \in Nat /\ DOMAIN lines = 1 .. L /\ DOMAIN lines' = 1 .. L + 1
        /\ \A j \in 1 .. L : lines'[j] = lines[j]
        /\ lines'[L + 1] = e
        /\ lines' \in Seq(EdgeType)
    BY <1>1, <2>1
  <2> HIDE DEF L
  <2>3. Range(lines') = Range(lines) \cup {e}
    BY <1>1, <2>1, AppendRange
  <2>4. Range(edges') \cup Range(lines') = Found'
    BY <1>2, <1>3, <1>4, <2>3
  <2>5. ASSUME NEW j \in 1 .. L + 1, NEW i \in 1 .. L + 1, j < i
        PROVE  /\ lines'[j][1] <= lines'[i][1]
               /\ <<lines'[j][1], lines'[j][2]>> # <<lines'[i][1], lines'[i][2]>>
    <3>1. j \in 1 .. L
      BY <2>2, <2>5
    <3>2. CASE i = L + 1
      BY <1>6, <1>11, <2>2, <3>1, <3>2 DEF IsKept
    <3>3. CASE i # L + 1
      <4>1. i \in 1 .. L
        BY <2>2, <3>3
      <4>2. /\ lines[j][1] <= lines[i][1]
            /\ <<lines[j][1], lines[j][2]>> # <<lines[i][1], lines[i][2]>>
        BY <2>2, <2>5, <3>1, <4>1 DEF FilterInv
      <4>3. lines'[j] = lines[j] /\ lines'[i] = lines[i]
        BY <2>2, <3>1, <4>1
      <4> QED BY <4>2, <4>3
    <3> QED BY <3>2, <3>3
  <2>6. ASSUME NEW j \in 1 .. L + 1, NEW i \in DOMAIN edges'
        PROVE  lines'[j][1] <= edges'[i][1]
    <3>1. CASE j = L + 1
      BY <1>5, <2>2, <3>1
    <3>2. CASE j # L + 1
      <4>1. j \in 1 .. L
        BY <2>2, <3>2
      <4> QED BY <1>7, <2>2, <4>1
    <3> QED BY <3>1, <3>2
  <2>7. FilterInv'
    BY <2>2, <2>4, <2>5, <2>6 DEF FilterInv
  <2> QED BY <1>2, <1>8, <1>9, <2>2, <2>7 DEF Typed
<1> QED BY <1>10, <1>11

LEMMA FilterEndInv == Inv /\ FilterEnd => Inv'
<1> SUFFICES ASSUME Inv, FilterEnd PROVE Inv'
  OBVIOUS
<1> USE DEF Inv, FilterEnd
<1>1. Typed' /\ NodesInv' /\ JoinInv'
  BY DEF Typed, NodesInv, JoinInv, First
<1>2. \A S : FoundFrom(S)' = FoundFrom(S)
  BY DEF FoundFrom, FoundAt, Edge
<1>3. EdgesInv'
  <2>1. Lists(nodes, WaterIn(world, 0, Tested))'
    BY LaterStageFacts DEF EdgesInv, First
  <2> QED BY <1>2, <2>1 DEF EdgesInv, First
<1>4. FilterInv'
  BY <1>2 DEF FilterInv
<1> QED BY <1>1, <1>3, <1>4

LEMMA StutterInv == Inv /\ UNCHANGED vars => Inv'
<1> SUFFICES ASSUME Inv, UNCHANGED vars PROVE Inv'
  OBVIOUS
<1> USE DEF Inv, vars
<1>1. Typed' /\ NodesInv'
  BY DEF Typed, NodesInv, First, Lists, WaterIn
<1>2. \A S : FoundFrom(S)' = FoundFrom(S)
  BY DEF FoundFrom, FoundAt, Edge
<1>3. EdgesInv'
  <2>1. ~First => Lists(nodes, WaterIn(world, 0, Tested))'
    BY LaterStageFacts DEF EdgesInv
  <2> QED BY <1>2, <2>1 DEF EdgesInv, First
<1>4. JoinInv' /\ FilterInv'
  BY <1>2 DEF JoinInv, FilterInv
<1> QED BY <1>1, <1>3, <1>4

LEMMA StepInv == Inv /\ [Next]_vars => Inv'
<1> SUFFICES ASSUME Inv, [Next]_vars PROVE Inv'
  OBVIOUS
<1>1. ASSUME NEW t \in Threads, Step(t) PROVE Inv'
  BY <1>1, SkipPolarInv, BeginTestInv, EndTestInv, FindEdgesInv DEF Step
<1>2. CASE Main
  BY <1>2, JoinNodesInv, JoinEdgesInv, FilterStepInv, FilterEndInv DEF Main
<1>3. CASE CorruptCutEdges
  BY <1>3, CorruptCutEdgesInv
<1>4. CASE Ended \/ UNCHANGED vars
  BY <1>4, StutterInv DEF Ended
<1> QED BY <1>1, <1>2, <1>3, <1>4 DEF Next

THEOREM InvariantHolds == Spec => []Inv
<1>1. Init => Inv
  BY InitInv
<1>2. Inv /\ [Next]_vars => Inv'
  BY StepInv
<1> QED BY <1>1, <1>2, PTL DEF Spec

-----------------------------------------------------------------------------
\* The vectors hold what they should, empty ones for ranges not begun: nothing
\* of the first stage is left in those of the second (GraphGenerator.cpp:63, 88).
THEOREM TypeCorrect == Spec => []TypeOK
<1>1. Inv => TypeOK
  <2> SUFFICES ASSUME Inv PROVE TypeOK
    OBVIOUS
  <2> USE DEF Inv
  <2>1. nodes \in Seq(Candidates)
    BY DEF NodesInv, EdgesInv
  <2>2. out \in [Threads -> Seq(IF stage \in {"nodes", "aborted"} THEN Candidates ELSE EdgeType)]
    BY DEF NodesInv, EdgesInv, First
  <2>3. ASSUME NEW t \in Threads,
               at[t] = RangeStart(t, IF stage \in {"nodes", "aborted"} THEN CandidateCount ELSE N)
        PROVE  out[t] = << >>
    <3>1. CASE First
      <4>1. at[t] \in Nat /\ at[t] = RangeStart(t, CandidateCount)
        BY <2>3, <3>1, GeneratorAssumption DEF First, Typed
      <4>2. WaterIn(world, RangeStart(t, CandidateCount), at[t]) = {}
        BY <4>1 DEF WaterIn
      <4>3. Range(out[t]) = {} /\ out[t] \in Seq(Candidates)
        BY <3>1, <4>2 DEF NodesInv, Lists
      <4> QED BY <4>3, EmptyRange
    <3>2. CASE ~First
      <4>1. at[t] \in Nat /\ at[t] = RangeStart(t, N)
        BY <2>3, <3>2, GeneratorAssumption DEF First, Typed
      <4>2. RangeStart(t, N) .. at[t] - 1 = {}
        BY <4>1
      <4>3. Range(out[t]) = FoundFrom({}) /\ out[t] \in Seq(EdgeType)
        BY <3>2, <4>2 DEF EdgesInv
      <4> QED BY <4>3, EmptyRange DEF FoundFrom
    <3> QED BY <3>1, <3>2
  <2> QED BY <2>1, <2>2, <2>3 DEF TypeOK, Typed
<1> QED BY <1>1, InvariantHolds, PTL

\* However many threads test however many candidates, the nodes of the network
\* are those in water, in their order, each once (GraphGenerator.cpp:58-63).
THEOREM AllWaterKept == Spec => []WaterKept
<1>1. Inv => WaterKept
  BY DEF Inv, EdgesInv, First, WaterKept
<1> QED BY <1>1, InvariantHolds, PTL

\* What the search of every range found is in the file in both directions with
\* one cost (GraphGenerator.cpp:119-136, main.cpp:89-108).
THEOREM AllEdgesBothWays == Spec => []EdgesBothWays
<1>1. Inv => EdgesBothWays
  <2> SUFFICES ASSUME Inv, stage = "done", NEW k \in DOMAIN lines
               PROVE  \E j \in DOMAIN lines : lines[j] = <<lines[k][2], lines[k][1], lines[k][3]>>
    BY DEF EdgesBothWays
  <2>1. Range(lines) = FoundFrom(Searched) /\ world \in Worlds
    BY DEF Inv, FilterInv, Typed, Range
  <2>2. lines[k] \in Range(lines)
    BY DEF Range
  <2>3. <<lines[k][2], lines[k][1], lines[k][3]>> \in Range(lines)
    BY <2>1, <2>2, FoundFacts
  <2> QED BY <2>3 DEF Range
<1> QED BY <1>1, InvariantHolds, PTL

\* The file has each edge that was found once and no other, although two
\* searches may find it and the sort may leave duplicates apart
\* (GraphGenerator.cpp:91-104).
THEOREM AllEdgesOnce == Spec => []EachEdgeOnce
<1>1. Inv => EachEdgeOnce
  <2> SUFFICES ASSUME Inv, stage = "done" PROVE EachEdgeOnce
    BY DEF EachEdgeOnce
  <2>1. Range(lines) = FoundFrom(Searched) /\ world \in Worlds /\ lines \in Seq(EdgeType)
    BY DEF Inv, FilterInv, Typed, Range
  <2>2. ASSUME NEW v \in Searched, NEW w \in Range(world.near[v]), NEW pair \in {<<v, w>>, <<w, v>>}
        PROVE  Cardinality({k \in DOMAIN lines : <<lines[k][1], lines[k][2]>> = pair}) = 1
    <3> DEFINE K == {k \in DOMAIN lines : <<lines[k][1], lines[k][2]>> = pair}
    <3>1. Edge(v, w) \in Range(lines) /\ Edge(w, v) \in Range(lines)
      BY <2>1 DEF FoundFrom, FoundAt
    <3>2. PICK k \in DOMAIN lines : <<lines[k][1], lines[k][2]>> = pair
      BY <3>1 DEF Range, Edge
    <3>3. \A j \in DOMAIN lines : j # k => <<lines[j][1], lines[j][2]>> # pair
      BY <2>1, <3>2 DEF Inv, FilterInv
    <3>4. K = {k}
      BY <3>2, <3>3
    <3> QED BY <3>4, FS_Singleton
  <2>3. ASSUME NEW k \in DOMAIN lines
        PROVE  \/ lines[k][1] \in Searched /\ lines[k][2] \in Range(world.near[lines[k][1]])
               \/ lines[k][2] \in Searched /\ lines[k][1] \in Range(world.near[lines[k][2]])
    <3>1. lines[k] \in FoundFrom(Searched)
      BY <2>1 DEF Range
    <3> QED BY <2>1, <3>1, FoundFacts
  <2> QED BY <2>2, <2>3 DEF EachEdgeOnce
<1> QED BY <1>1, InvariantHolds, PTL

-----------------------------------------------------------------------------
\* Positions that come before those of the rest are the first ones.
LEMMA InitialSegment ==
  ASSUME NEW L \in Nat, NEW D, D \subseteq 1 .. L,
         \A d \in D : \A k \in 1 .. L : k < d => k \in D
  PROVE  Cardinality(D) \in 0 .. L /\ D = 1 .. Cardinality(D)
<1> DEFINE Rest == (1 .. L + 1) \ D
<1>1. Rest \subseteq Nat /\ L + 1 \in Rest
  OBVIOUS
<1>2. PICK m \in Rest : \A n \in Rest : m <= n
  BY <1>1, LeastNumber
<1>3. m \in 1 .. L + 1
  BY <1>2
<1>4. 1 .. m - 1 \subseteq D
  <2> SUFFICES ASSUME NEW k \in 1 .. m - 1 PROVE k \in D
    OBVIOUS
  <2>1. k \in 1 .. L + 1 /\ ~(m <= k)
    BY <1>3
  <2> QED BY <1>2, <2>1
<1>5. D \subseteq 1 .. m - 1
  <2> SUFFICES ASSUME NEW d \in D PROVE d < m
    BY <1>3
  <2>1. d # m /\ (m \in 1 .. L => ~(m < d)) /\ d \in 1 .. L
    BY <1>2
  <2> QED BY <1>3, <2>1
<1>6. D = 1 .. m - 1
  BY <1>4, <1>5
<1>7. Cardinality(1 .. m - 1) = m - 1
  BY <1>3, FS_Interval
<1> QED BY <1>3, <1>6, <1>7

\* Graph::buildFromFMI counts edges per source; if the lines are sorted by
\* source, the offsets it sums up address exactly the edges of each node.
LEMMA SortedLinesMakeGraph ==
  ASSUME NEW s \in Seq(EdgeType), \A j, k \in DOMAIN s : j < k => s[j][1] <= s[k][1]
  PROVE  IsGraph(BuildFromFMI(s))
<1> DEFINE L == Len(s)
           g == BuildFromFMI(s)
           Below(v) == {k \in 1 .. L : s[k][1] < v}
<1> USE SizeAssumption
<1>1. /\ L \in Nat /\ DOMAIN s = 1 .. L
      /\ \A k \in 1 .. L : s[k][1] \in Nodes /\ s[k][2] \in Nodes /\ s[k][3] \in Nat
  BY DEF EdgeType
<1>2. {k - 1 : k \in 1 .. L} = 0 .. L - 1
  <2>1. L \in Nat
    BY <1>1
  <2> HIDE DEF L
  <2>2. ASSUME NEW e \in 0 .. L - 1 PROVE e \in {k - 1 : k \in 1 .. L}
    <3>1. e + 1 \in 1 .. L /\ e = (e + 1) - 1
      BY <2>1
    <3> QED BY <3>1
  <2>3. ASSUME NEW k \in 1 .. L PROVE k - 1 \in 0 .. L - 1
    BY <2>1
  <2> QED BY <2>2, <2>3
<1>3. /\ g.sources = [e \in 0 .. L - 1 |-> s[e + 1][1]]
      /\ g.targets = [e \in 0 .. L - 1 |-> s[e + 1][2]]
      /\ g.costs = [e \in 0 .. L - 1 |-> s[e + 1][3]]
      /\ g.offsets = [v \in 0 .. N |-> Cardinality(Below(v))]
  BY <1>1, <1>2 DEF BuildFromFMI, Offsets
<1> HIDE DEF L, g
<1>4. ASSUME NEW v \in 0 .. N
      PROVE  Cardinality(Below(v)) \in 0 .. L /\ Below(v) = 1 .. Cardinality(Below(v))
  <2>1. Below(v) \subseteq 1 .. L
    OBVIOUS
  <2>2. ASSUME NEW d \in Below(v), NEW k \in 1 .. L, k < d PROVE k \in Below(v)
    <3>1. d \in 1 .. L /\ s[d][1] < v
      OBVIOUS
    <3>2. s[k][1] <= s[d][1]
      BY <1>1, <2>2, <3>1
    <3>3. s[k][1] \in 0 .. N - 1 /\ s[d][1] \in 0 .. N - 1
      BY <1>1, <3>1 DEF Nodes
    <3>4. s[k][1] < v
      BY <3>1, <3>2, <3>3
    <3> QED BY <3>4
  <2> HIDE DEF Below
  <2> QED BY <1>1, <2>1, <2>2, InitialSegment
<1>5. Below(N) = 1 .. L
  BY <1>1 DEF Nodes
<1>6. Cardinality(Below(N)) = L
  <2>1. L \in Nat
    BY <1>1
  <2>2. Cardinality(1 .. L) = L
    BY <2>1, FS_Interval
  <2> QED BY <1>5, <2>2
<1> HIDE DEF Below
<1>7. Edges(g) = 0 .. L - 1
  BY <1>3, <1>6 DEF Edges
<1>8. /\ g.offsets \in [0 .. N -> Nat]
      /\ \A v \in 0 .. N : g.offsets[v] = Cardinality(Below(v)) /\ g.offsets[v] \in 0 .. L
      /\ g.offsets[N] = L
  BY <1>3, <1>4, <1>6
<1>9. /\ g.sources \in [Edges(g) -> Nodes] /\ g.targets \in [Edges(g) -> Nodes]
      /\ g.costs \in [Edges(g) -> Nat]
  <2>1. \A e \in 0 .. L - 1 : e + 1 \in 1 .. L
    BY <1>1
  <2> QED BY <1>1, <1>3, <1>7, <2>1
<1>10. ASSUME NEW v \in Nodes
       PROVE  /\ g.offsets[v] <= g.offsets[v + 1] /\ g.offsets[v + 1] <= g.offsets[N]
              /\ \A e \in Edges(g) : e \in OutEdges(g, v) <=> g.sources[e] = v
  <2>1. v \in 0 .. N /\ v + 1 \in 0 .. N
    BY DEF Nodes
  <2> DEFINE a == g.offsets[v]
             b == g.offsets[v + 1]
  <2>2. a \in 0 .. L /\ b \in 0 .. L /\ Below(v) = 1 .. a /\ Below(v + 1) = 1 .. b
    BY <1>4, <1>8, <2>1
  <2> HIDE DEF a, b
  <2>3. Below(v) \subseteq Below(v + 1)
    BY <1>1 DEF Below, Nodes
  <2>4. a <= b
    <3>1. CASE a = 0
      BY <2>2, <3>1
    <3>2. CASE a # 0
      <4>1. a \in 1 .. a
        BY <2>2, <3>2
      <4>2. a \in 1 .. b
        BY <2>2, <2>3, <4>1
      <4> QED BY <2>2, <4>2
    <3> QED BY <3>1, <3>2
  <2>5. ASSUME NEW e \in 0 .. L - 1
        PROVE  e \in a .. b - 1 <=> s[e + 1][1] = v
    <3>1. e + 1 \in 1 .. L /\ s[e + 1][1] \in Int /\ v \in Int
      BY <1>1 DEF Nodes
    <3>2. e + 1 \in Below(v) <=> s[e + 1][1] < v
      BY <3>1 DEF Below
    <3>3. e + 1 \in Below(v + 1) <=> s[e + 1][1] < v + 1
      BY <3>1 DEF Below
    <3>4. (e + 1 \in Below(v) <=> e < a) /\ (e + 1 \in Below(v + 1) <=> e < b)
      BY <1>1, <2>2
    <3> QED BY <1>1, <2>2, <3>1, <3>2, <3>3, <3>4
  <2>6. \A e \in Edges(g) : e \in OutEdges(g, v) <=> g.sources[e] = v
    <3>1. \A e \in 0 .. L - 1 : g.sources[e] = s[e + 1][1]
      BY <1>3
    <3>2. OutEdges(g, v) = a .. b - 1
      BY DEF OutEdges, a, b
    <3> QED BY <1>7, <2>5, <3>1, <3>2
  <2>7. b <= g.offsets[N]
    BY <1>1, <1>8, <2>2
  <2> QED BY <2>4, <2>6, <2>7 DEF a, b
<1> QED BY <1>8, <1>9, <1>10 DEF IsGraph, g

\* The lines written are sorted, so that the network read back from them can be
\* searched (GraphGenerator.cpp:91, Graph.cpp:12-13, 161).
THEOREM GeneratedFileIsGraph == Spec => []FileIsGraph
<1>1. Inv => FileIsGraph
  <2> SUFFICES ASSUME Inv, stage = "done" PROVE IsGraph(BuildFromFMI(lines))
    BY DEF FileIsGraph
  <2>1. lines \in Seq(EdgeType) /\ \A j, k \in DOMAIN lines : j < k => lines[j][1] <= lines[k][1]
    BY DEF Inv, Typed, FilterInv
  <2> QED BY <2>1, SortedLinesMakeGraph
<1> QED BY <1>1, InvariantHolds, PTL
=============================================================================

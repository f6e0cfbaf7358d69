------------------------- MODULE TransitNodesProofs -------------------------
(***************************************************************************)
(* The preprocessing.  Every distance it stores is one that a search       *)
(* around a node of a line found, for a cell that line serves: the         *)
(* invariant TypeInv.  Hence none is too short, and where the searches     *)
(* suffice all are exact, agree among lines and (NoneMissing) none is      *)
(* missing.  What each line makes of its pairs is a matter of the network, *)
(* but for the choice among equally near nodes (AllTaken).                 *)
(***************************************************************************)
EXTENDS LineMeetings, ShipGraphProofs, SequenceTheorems

(***************************************************************************)
(* Sequences made by recursion.                                            *)
(***************************************************************************)
LEMMA AscendingFacts ==
  ASSUME NEW S, NEW n \in Nat
  PROVE  /\ Ascending(S, n) \in Seq(S \cap (0 .. n - 1))
         /\ \A x \in S \cap (0 .. n - 1) : \E j \in DOMAIN Ascending(S, n) : Ascending(S, n)[j] = x
<1> DEFINE M == S \cap (0 .. n - 1)
           T == Seq(M)
           step == [x \in (1 .. n) \X T |-> IF x[1] - 1 \in S THEN Append(x[2], x[1] - 1) ELSE x[2]]
           body(f) == [k \in 0 .. n |->
                         IF k = 0 THEN << >>
                         ELSE IF k - 1 \in S THEN Append(f[k - 1], k - 1) ELSE f[k - 1]]
           upto[k \in 0 .. n] == IF k = 0 THEN << >>
                                 ELSE IF k - 1 \in S THEN Append(upto[k - 1], k - 1) ELSE upto[k - 1]
<1>1. << >> \in T
  OBVIOUS
<1>2. step \in [(1 .. n) \X T -> T]
  <2>1. ASSUME NEW x \in (1 .. n) \X T PROVE step[x] \in T
    <3>1. CASE x[1] - 1 \in S
      <4>1. x[1] - 1 \in M /\ x[2] \in Seq(M)
        BY <3>1
      <4> QED BY <3>1, <4>1
    <3>2. CASE x[1] - 1 \notin S
      BY <3>2
    <3> QED BY <3>1, <3>2
  <2> QED BY <2>1
<1> HIDE DEF T
<1>3. PICK f \in [0 .. n -> T] : Follows(f, n, << >>, step)
  <2> HIDE DEF step
  <2> QED BY <1>1, <1>2, Stepwise
<1>4. f = body(f)
  <2>1. ASSUME NEW k \in 0 .. n
        PROVE  f[k] = IF k = 0 THEN << >>
                      ELSE IF k - 1 \in S THEN Append(f[k - 1], k - 1) ELSE f[k - 1]
    <3>1. CASE k = 0
      BY <1>3, <3>1 DEF Follows
    <3>2. CASE k # 0
      <4>1. k \in 1 .. n /\ k - 1 \in 0 .. n
        BY <3>2
      <4>2. f[k] = step[<<k, f[k - 1]>>] /\ <<k, f[k - 1]>> \in (1 .. n) \X T
        BY <1>3, <4>1 DEF Follows
      <4> QED BY <3>2, <4>2
    <3> QED BY <3>1, <3>2
  <2> QED BY <1>3, <2>1
<1>5. upto = body(upto)
  BY <1>4
<1> HIDE DEF upto
<1>6. /\ upto[0] = << >>
      /\ \A k \in 0 .. n - 1 : upto[k + 1] = IF k \in S THEN Append(upto[k], k) ELSE upto[k]
  <2>1. ASSUME NEW k \in 0 .. n
        PROVE  upto[k] = IF k = 0 THEN << >>
                         ELSE IF k - 1 \in S THEN Append(upto[k - 1], k - 1) ELSE upto[k - 1]
    BY <1>5
  <2>2. ASSUME NEW k \in 0 .. n - 1
        PROVE  upto[k + 1] = IF k \in S THEN Append(upto[k], k) ELSE upto[k]
    <3>1. k + 1 \in 0 .. n /\ (k + 1) - 1 = k /\ k + 1 # 0
      OBVIOUS
    <3> QED BY <2>1, <3>1
  <2>3. 0 \in 0 .. n
    OBVIOUS
  <2> QED BY <2>1, <2>2, <2>3
<1> DEFINE K == {k \in Nat : k <= n => /\ upto[k] \in T
                                       /\ \A x \in S \cap (0 .. k - 1) : \E j \in DOMAIN upto[k] : upto[k][j] = x}
<1>7. 0 \in K
  BY <1>1, <1>6
<1>8. ASSUME NEW k \in Nat, k \in K PROVE k + 1 \in K
  <2> SUFFICES ASSUME k + 1 <= n
               PROVE  /\ upto[k + 1] \in T
                      /\ \A x \in S \cap (0 .. k) : \E j \in DOMAIN upto[k + 1] : upto[k + 1][j] = x
    OBVIOUS
  <2>1. /\ upto[k] \in Seq(M) /\ k \in 0 .. n - 1
        /\ \A x \in S \cap (0 .. k - 1) : \E j \in DOMAIN upto[k] : upto[k][j] = x
    BY <1>8 DEF T
  <2>2. CASE k \notin S
    <3>1. upto[k + 1] = upto[k] /\ S \cap (0 .. k) = S \cap (0 .. k - 1)
      BY <1>6, <2>1, <2>2
    <3> QED BY <2>1, <3>1 DEF T
  <2>3. CASE k \in S
    <3> DEFINE old == upto[k]
               new == Append(old, k)
    <3>1. k \in M /\ upto[k + 1] = new
      BY <1>6, <2>1, <2>3
    <3>2. old \in Seq(M)
      BY <2>1
    <3> HIDE DEF old, M
    <3>3. /\ new \in Seq(M) /\ Len(new) = Len(old) + 1 /\ DOMAIN new = 1 .. Len(old) + 1
          /\ DOMAIN old = 1 .. Len(old) /\ Len(old) \in Nat
          /\ new[Len(old) + 1] = k /\ \A j \in 1 .. Len(old) : new[j] = old[j]
      BY <3>1, <3>2
    <3> HIDE DEF new
    <3>4. ASSUME NEW x \in S \cap (0 .. k) PROVE \E j \in DOMAIN new : new[j] = x
      <4>1. CASE x = k
        BY <3>3, <4>1
      <4>2. CASE x # k
        <5>1. x \in S \cap (0 .. k - 1)
          BY <4>2
        <5>2. PICK j \in DOMAIN old : old[j] = x
          BY <2>1, <5>1 DEF old
        <5> QED BY <3>3, <5>2
      <4> QED BY <4>1, <4>2
    <3> QED BY <3>1, <3>3, <3>4 DEF T
  <2> QED BY <2>2, <2>3
<1> HIDE DEF K
<1>9. n \in K
  <2>1. Nat \subseteq K
    BY <1>7, <1>8, Induction
  <2> QED BY <2>1
<1>10. Ascending(S, n) = upto[n]
  BY DEF Ascending, upto
<1> QED BY <1>9, <1>10 DEF K, T

LEMMA FlattenFacts ==
  ASSUME NEW S, NEW seqs \in Seq(Seq(S))
  PROVE  FlattenSeq(seqs) \in Seq(S)
<1> DEFINE n == Len(seqs)
           T == Seq(S)
           step == [x \in (1 .. n) \X T |-> IF x[1] = 1 THEN seqs[1] ELSE x[2] \o seqs[x[1]]]
           body(f) == [i \in 1 .. n |-> IF i = 1 THEN seqs[i] ELSE f[i - 1] \o seqs[i]]
           flatten[i \in 1 .. n] == IF i = 1 THEN seqs[i] ELSE flatten[i - 1] \o seqs[i]
<1>1. n \in Nat /\ << >> \in T /\ \A i \in 1 .. n : seqs[i] \in T
  OBVIOUS
<1>2. step \in [(1 .. n) \X T -> T]
  <2>1. ASSUME NEW x \in (1 .. n) \X T PROVE step[x] \in T
    <3>1. x[1] \in 1 .. n /\ x[2] \in Seq(S) /\ seqs[x[1]] \in Seq(S)
      BY <1>1
    <3>2. x[2] \o seqs[x[1]] \in Seq(S)
      BY <3>1, ConcatProperties
    <3>3. x[1] = 1 => seqs[1] \in Seq(S)
      BY <3>1
    <3> HIDE DEF n
    <3> QED BY <3>1, <3>2, <3>3
  <2> QED BY <2>1
<1> HIDE DEF T, n
<1>3. PICK f \in [0 .. n -> T] : Follows(f, n, << >>, step)
  <2>1. n \in Nat
    BY <1>1
  <2> HIDE DEF step
  <2> QED BY <1>1, <1>2, <2>1, Stepwise
<1> DEFINE h == [i \in 1 .. n |-> f[i]]
<1>4. h = body(h)
  <2>1. ASSUME NEW i \in 1 .. n PROVE f[i] = IF i = 1 THEN seqs[i] ELSE f[i - 1] \o seqs[i]
    <3>1. f[i] = step[<<i, f[i - 1]>>] /\ f[i - 1] \in T
      <4>1. i \in 1 .. n /\ i - 1 \in 0 .. n
        BY <1>1
      <4> QED BY <1>3, <4>1 DEF Follows
    <3> QED BY <3>1
  <2>2. ASSUME NEW i \in 1 .. n, i # 1 PROVE h[i - 1] = f[i - 1]
    BY <1>1, <2>2
  <2> QED BY <2>1, <2>2
<1>5. flatten = body(flatten)
  <2> HIDE DEF h
  <2> QED BY <1>4
<1> HIDE DEF flatten
<1> DEFINE K == {k \in Nat : k + 1 <= n => flatten[k + 1] \in T}
<1>6. 0 \in K
  BY <1>1, <1>5
<1>7. ASSUME NEW k \in Nat, k \in K PROVE k + 1 \in K
  <2> SUFFICES ASSUME (k + 1) + 1 <= n PROVE flatten[(k + 1) + 1] \in T
    OBVIOUS
  <2>1. flatten[k + 1] \in Seq(S) /\ seqs[(k + 1) + 1] \in Seq(S)
    BY <1>1, <1>7 DEF T
  <2>2. (k + 1) + 1 \in 1 .. n /\ (k + 1) + 1 # 1 /\ ((k + 1) + 1) - 1 = k + 1
    BY <1>1
  <2>3. flatten[(k + 1) + 1] = flatten[k + 1] \o seqs[(k + 1) + 1]
    BY <1>5, <2>2
  <2> QED BY <2>1, <2>3, ConcatProperties DEF T
<1> HIDE DEF K
<1>8. Nat \subseteq K
  BY <1>6, <1>7, Induction
<1>9. CASE n = 0
  BY <1>9 DEF FlattenSeq, n
<1>10. CASE n # 0
  <2>1. n - 1 \in K /\ (n - 1) + 1 = n
    BY <1>1, <1>8, <1>10
  <2>2. flatten[n] \in T
    BY <2>1 DEF K
  <2>3. FlattenSeq(seqs) = flatten[n]
    BY <1>10 DEF FlattenSeq, n, flatten
  <2> QED BY <2>2, <2>3 DEF T
<1> QED BY <1>9, <1>10

-----------------------------------------------------------------------------
\* Functions with values in B on some of the members of A.
Partial(A, B) == UNION {[D -> B] : D \in SUBSET A}

LEMMA PartialFacts ==
  ASSUME NEW A, NEW B, NEW f
  PROVE  f \in Partial(A, B) <=> f = [x \in DOMAIN f |-> f[x]] /\ DOMAIN f \subseteq A
                                 /\ \A x \in DOMAIN f : f[x] \in B
<1>1. f \in Partial(A, B) <=> \E D \in SUBSET A : f \in [D -> B]
  BY DEF Partial
<1>2. ASSUME NEW D \in SUBSET A, f \in [D -> B]
      PROVE  f = [x \in DOMAIN f |-> f[x]] /\ DOMAIN f \subseteq A /\ \A x \in DOMAIN f : f[x] \in B
  BY <1>2
<1>3. ASSUME f = [x \in DOMAIN f |-> f[x]], DOMAIN f \subseteq A, \A x \in DOMAIN f : f[x] \in B
      PROVE  f \in [DOMAIN f -> B]
  BY <1>3
<1> QED BY <1>1, <1>2, <1>3

LEMMA EmptyPartial ==
  ASSUME NEW A, NEW B
  PROVE  << >> \in Partial(A, B)
<1>1. DOMAIN << >> = {}
  OBVIOUS
<1>2. << >> = [x \in DOMAIN << >> |-> << >>[x]]
  OBVIOUS
<1> QED BY <1>1, <1>2, PartialFacts

LEMMA OverlayFacts ==
  ASSUME NEW A, NEW B, NEW f \in Partial(A, B), NEW h \in Partial(A, B)
  PROVE  Overlay(f, h) \in Partial(A, B)
<1>1. /\ DOMAIN f \subseteq A /\ \A x \in DOMAIN f : f[x] \in B
      /\ DOMAIN h \subseteq A /\ \A x \in DOMAIN h : h[x] \in B
  BY PartialFacts
<1> DEFINE both == Overlay(f, h)
<1>2. /\ DOMAIN both = DOMAIN f \cup DOMAIN h
      /\ both = [x \in DOMAIN both |-> both[x]]
      /\ \A x \in DOMAIN both : both[x] = IF x \in DOMAIN f THEN f[x] ELSE h[x]
  BY DEF Overlay
<1> HIDE DEF both
<1>3. \A x \in DOMAIN both : both[x] \in B
  BY <1>1, <1>2
<1> QED BY <1>1, <1>2, <1>3, PartialFacts DEF both

AddsRight(A, B, f, a, b) ==
  /\ Added(f, a, b) \in Partial(A, B)
  /\ DOMAIN Added(f, a, b) = DOMAIN f \cup {a}
  /\ \A x \in DOMAIN f : Added(f, a, b)[x] = f[x]
  /\ a \notin DOMAIN f => Added(f, a, b)[a] = b

LEMMA AddedFacts ==
  ASSUME NEW A, NEW B, NEW f \in Partial(A, B), NEW a \in A, NEW b \in B
  PROVE  AddsRight(A, B, f, a, b)
<1> DEFINE one == [x \in {a} |-> b]
<1>1. DOMAIN one = {a} /\ one[a] = b /\ one = [x \in DOMAIN one |-> one[x]]
  OBVIOUS
<1> HIDE DEF one
<1>2. one \in Partial(A, B)
  BY <1>1, PartialFacts
<1>3. Added(f, a, b) \in Partial(A, B)
  BY <1>2, OverlayFacts DEF Added, one
<1>4. /\ DOMAIN Overlay(f, one) = DOMAIN f \cup {a}
      /\ \A x \in DOMAIN f : Overlay(f, one)[x] = f[x]
      /\ a \notin DOMAIN f => Overlay(f, one)[a] = b
  BY <1>1 DEF Overlay
<1> QED BY <1>3, <1>4 DEF AddsRight, Added, one

-----------------------------------------------------------------------------
(***************************************************************************)
(* The edge buckets and what a pass collects from them.                    *)
(***************************************************************************)
\* A bucket holds edges, and each edge is in the buckets it is filed under.
LEMMA BucketTyped ==
  ASSUME NEW g, IsGraph(g), NEW axis \in Axes, NEW c
  PROVE  Bucket(EdgeBuckets(g), axis, c) \in Seq(Edges(g))
<1> DEFINE used(ax) == UNION {Filed(g, ax, e) : e \in Edges(g)}
           inCell(ax, x) == {e \in Edges(g) : x \in Filed(g, ax, e)}
           n == g.offsets[N]
           b == EdgeBuckets(g)
<1>1. n \in Nat /\ Edges(g) = 0 .. n - 1
  BY SizeAssumption DEF IsGraph, Edges
<1>2. b[axis] = [x \in used(axis) |-> Ascending(inCell(axis, x), n)]
  BY DEF EdgeBuckets
<1> HIDE DEF b, used, inCell, n
<1>3. CASE c \in used(axis)
  <2> DEFINE S == inCell(axis, c)
  <2>1. DOMAIN b[axis] = used(axis) /\ b[axis][c] = Ascending(S, n)
    BY <1>2, <1>3
  <2>2. Ascending(S, n) \in Seq(S \cap (0 .. n - 1))
    BY <1>1, AscendingFacts
  <2> HIDE DEF S
  <2>3. S \cap (0 .. n - 1) \subseteq Edges(g)
    BY <1>1
  <2> DEFINE q == Ascending(S, n)
  <2>4. q \in Seq(Edges(g))
    <3> HIDE DEF q
    <3> QED BY <2>2, <2>3 DEF q
  <2> QED BY <1>3, <2>1, <2>4 DEF Bucket, b
<1>4. CASE c \notin used(axis)
  BY <1>2, <1>4 DEF Bucket, b
<1> QED BY <1>3, <1>4

LEMMA FilingFacts ==
  ASSUME NEW g, IsGraph(g), NEW axis \in Axes, NEW e \in Edges(g), NEW c \in Filed(g, axis, e)
  PROVE  /\ c \in DOMAIN EdgeBuckets(g)[axis]
         /\ \E j \in DOMAIN EdgeBuckets(g)[axis][c] : EdgeBuckets(g)[axis][c][j] = e
<1> DEFINE used(ax) == UNION {Filed(g, ax, f) : f \in Edges(g)}
           inCell(ax, x) == {f \in Edges(g) : x \in Filed(g, ax, f)}
           n == g.offsets[N]
           b == EdgeBuckets(g)
<1>1. n \in Nat /\ Edges(g) = 0 .. n - 1
  BY SizeAssumption DEF IsGraph, Edges
<1>2. b[axis] = [x \in used(axis) |-> Ascending(inCell(axis, x), n)]
  BY DEF EdgeBuckets
<1>3. c \in used(axis) /\ e \in inCell(axis, c)
  OBVIOUS
<1> HIDE DEF b, used, inCell, n
<1> DEFINE S == inCell(axis, c)
<1>4. c \in DOMAIN b[axis] /\ b[axis][c] = Ascending(S, n)
  BY <1>2, <1>3
<1>5. e \in S \cap (0 .. n - 1)
  BY <1>1, <1>3
<1> HIDE DEF S
<1>6. \E j \in DOMAIN Ascending(S, n) : Ascending(S, n)[j] = e
  BY <1>1, <1>5, AscendingFacts
<1> QED BY <1>4, <1>6 DEF b

\* What a pass makes of the edges of a bucket, one by one.
LEMMA MappedFacts ==
  ASSUME NEW S, NEW T, NEW list \in Seq(S),
         NEW q, q = [j \in DOMAIN list |-> q[j]], \A j \in DOMAIN list : q[j] \in T
  PROVE  q \in Seq(T)
<1> DEFINE n == Len(list)
<1>1. n \in Nat /\ DOMAIN list = 1 .. n
  OBVIOUS
<1> HIDE DEF n
<1>2. q \in [1 .. n -> T]
  BY <1>1
<1> QED BY <1>1, <1>2

LEMMA EndsFacts ==
  ASSUME NEW g, IsGraph(g), NEW e \in Edges(g)
  PROVE  LowerEnd(g, e) \in Nodes /\ LowerEnd(g, e) \in Ends(g, e)
<1> DEFINE S == {g.sources[e], g.targets[e]}
<1>1. S \subseteq Nodes /\ S \subseteq Nat /\ S # {}
  BY EdgeFacts, SizeAssumption DEF Nodes
<1> HIDE DEF S
<1>2. LeastOf(S, 0) \in S
  BY <1>1, LeastFacts
<1> QED BY <1>1, <1>2 DEF LowerEnd, Ends, S

\* The nodes of a sweep line, each with the cell it is met at.
Met == [v : Nodes, pos : Int \X Int]

EachOnce(q) == \A i, j \in DOMAIN q : q[i].v = q[j].v => q[i] = q[j]

LEMMA SweepTyped ==
  ASSUME NEW g, IsGraph(g), NEW axis \in Axes, NEW k0 \in Int
  PROVE  /\ SweepNodes(g, EdgeBuckets(g), axis, k0) \in Seq(Met)
         /\ EachOnce(SweepNodes(g, EdgeBuckets(g), axis, k0))
<1> DEFINE buckets == EdgeBuckets(g)
           At(k) == LET pos == Position(axis, k0, k)
                        list == Bucket(buckets, axis, pos)
                    IN [j \in DOMAIN list |-> [v |-> LowerEnd(g, list[j]), pos |-> pos]]
           seqs == [k \in 1 .. GridSize |-> At(k - 1)]
           met == FlattenSeq(seqs)
           first == {j \in DOMAIN met : \A i \in 1 .. j - 1 : met[i].v # met[j].v}
           order == Ascending(first, Len(met) + 1)
           result == [k \in DOMAIN order |-> met[order[k]]]
<1>1. ASSUME NEW k \in Int PROVE At(k) \in Seq(Met)
  <2> DEFINE pos == Position(axis, k0, k)
             list == Bucket(buckets, axis, pos)
             q == [j \in DOMAIN list |-> [v |-> LowerEnd(g, list[j]), pos |-> pos]]
  <2>1. pos \in Int \X Int
    BY <1>1 DEF Position
  <2>2. list \in Seq(Edges(g))
    BY BucketTyped
  <2> HIDE DEF pos, list
  <2>3. \A j \in DOMAIN list : list[j] \in Edges(g)
    BY <2>2
  <2>4. q = [j \in DOMAIN list |-> q[j]] /\ \A j \in DOMAIN list : q[j] \in Met
    BY <2>1, <2>3, EndsFacts DEF Met
  <2> HIDE DEF q
  <2>5. q \in Seq(Met)
    BY <2>2, <2>4, MappedFacts
  <2> QED BY <2>5 DEF q, list, pos
<1>2. seqs \in Seq(Seq(Met))
  <2>1. GridSize \in Nat
    BY GridSizeAssumption
  <2> HIDE DEF At
  <2>2. \A k \in 1 .. GridSize : k - 1 \in Int /\ At(k - 1) \in Seq(Met)
    BY <1>1, <2>1
  <2> DEFINE many == Seq(Met)
  <2> HIDE DEF many
  <2>3. seqs \in [1 .. GridSize -> many]
    BY <2>2 DEF many
  <2>4. seqs \in Seq(many)
    <3> HIDE DEF seqs
    <3> QED BY <2>1, <2>3
  <2> QED BY <2>4 DEF many
<1>3. SweepNodes(g, EdgeBuckets(g), axis, k0) = result
  BY DEF SweepNodes
<1> HIDE DEF seqs, result
<1>4. met \in Seq(Met)
  BY <1>2, FlattenFacts
<1> HIDE DEF met
<1>5. Len(met) \in Nat /\ DOMAIN met = 1 .. Len(met) /\ \A j \in 1 .. Len(met) : met[j] \in Met
  BY <1>4
<1>6. first \subseteq 1 .. Len(met)
  BY <1>5
<1>7. order \in Seq(first \cap (0 .. (Len(met) + 1) - 1))
  <2> HIDE DEF first
  <2> QED BY <1>5, AscendingFacts
<1> DEFINE F == first \cap (0 .. (Len(met) + 1) - 1)
<1>8. F \subseteq 1 .. Len(met)
  BY <1>6
<1> HIDE DEF order, F, first
<1>9. result = [k \in DOMAIN order |-> result[k]]
  BY DEF result
<1>10. \A k \in DOMAIN order : result[k] \in Met
  <2>1. ASSUME NEW k \in DOMAIN order PROVE result[k] \in Met
    <3>1. order[k] \in F
      BY <1>7, <2>1 DEF F
    <3>2. order[k] \in 1 .. Len(met) /\ result[k] = met[order[k]]
      BY <1>8, <2>1, <3>1 DEF result
    <3> QED BY <1>5, <3>2
  <2> QED BY <2>1
<1>11. result \in Seq(Met)
  BY <1>7, <1>9, <1>10, MappedFacts DEF F
<1>12. EachOnce(result)
  <2>1. ASSUME NEW i \in DOMAIN order, NEW j \in DOMAIN order, result[i].v = result[j].v
        PROVE  result[i] = result[j]
    <3> DEFINE a == order[i]
               b == order[j]
    <3>1. a \in F /\ b \in F
      BY <1>7, <2>1 DEF F
    <3>2. /\ a \in 1 .. Len(met) /\ b \in 1 .. Len(met) /\ a \in first /\ b \in first
          /\ result[i] = met[a] /\ result[j] = met[b]
      BY <1>8, <2>1, <3>1 DEF result, F
    <3> HIDE DEF a, b
    <3>3. a = b
      <4>1. ~(a < b) /\ ~(b < a)
        BY <1>5, <2>1, <3>2 DEF first
      <4> QED BY <1>5, <3>2, <4>1
    <3> QED BY <3>2, <3>3
  <2>2. DOMAIN result = DOMAIN order
    BY DEF result
  <2> QED BY <2>1, <2>2 DEF EachOnce
<1> QED BY <1>3, <1>11, <1>12

-----------------------------------------------------------------------------
\* The probes of processSingleNode and the edges found with them.
Sides == {"negative", "positive"}
ProbeRecords == [side : Sides, main : BOOLEAN, cell : Int \X Int]
FoundRecords(g) == [side : Sides, at : Int, edge : Edges(g)]

LEMMA LeastOfTwo ==
  ASSUME NEW a \in Int, NEW b \in Int, NEW default
  PROVE  LeastOf({a, b}, default) \in Int
<1>1. \E x \in {a, b} : \A y \in {a, b} : x <= y
  <2>1. CASE a <= b
    BY <2>1
  <2>2. CASE ~(a <= b)
    BY <2>2
  <2> QED BY <2>1, <2>2
<1> QED BY <1>1 DEF LeastOf

LEMMA ManyFacts ==
  ASSUME NEW T, NEW m \in Int, NEW q, q = [k \in 1 .. m |-> q[k]], \A k \in 1 .. m : q[k] \in T
  PROVE  q \in Seq(T)
<1>1. CASE m \in Nat
  <2>1. q \in [1 .. m -> T]
    OBVIOUS
  <2> QED BY <1>1, <2>1
<1>2. CASE m \notin Nat
  <2>1. 1 .. m = {} /\ 1 .. 0 = {}
    BY <1>2
  <2>2. q \in [1 .. 0 -> T]
    BY <2>1
  <2> QED BY <2>2
<1> QED BY <1>1, <1>2

LEMMA ProbesTyped ==
  ASSUME NEW axis \in Axes, NEW pos \in Int \X Int
  PROVE  Probes(axis, pos) \in Seq(ProbeRecords)
<1> DEFINE minCell == IF axis = "vertical" /\ pos[2] < 2 THEN -pos[2] ELSE -2
           maxCell == IF axis = "vertical" THEN LeastOf({GridSize - 1 - pos[2], 2}, 2) ELSE 2
           maxOrthogonal == IF axis = "vertical"
                            THEN LeastOf({maxCell + 1, GridSize - 1 - pos[2]}, 3) ELSE 3
           Both(i, cell, main) ==
             << [side |-> "negative", main |-> main, cell |-> NegativeCell(axis, pos, i, cell, main)],
                [side |-> "positive", main |-> main, cell |-> PositiveCell(axis, pos, i, cell, main)] >>
           mains == [k \in 1 .. maxCell - minCell + 1 |->
                       Both(minCell + k - 1, 0, TRUE) \o Both(minCell + k - 1, 1, TRUE)]
           others == [k \in 1 .. maxOrthogonal - minCell + 1 |-> Both(minCell + k - 1, 0, FALSE)]
<1>1. GridSize \in Nat \ {0} /\ pos[1] \in Int /\ pos[2] \in Int
  BY GridSizeAssumption
<1>2. minCell \in Int
  BY <1>1
<1>3. maxCell \in Int
  <2>1. GridSize - 1 - pos[2] \in Int
    BY <1>1
  <2> QED BY <2>1, LeastOfTwo
<1>4. maxOrthogonal \in Int
  <2>1. GridSize - 1 - pos[2] \in Int /\ maxCell + 1 \in Int
    BY <1>1, <1>3
  <2> HIDE DEF maxCell
  <2> QED BY <2>1, LeastOfTwo
<1>5. \A i \in Int : /\ Both(i, 0, TRUE) \in Seq(ProbeRecords) /\ Both(i, 1, TRUE) \in Seq(ProbeRecords)
                     /\ Both(i, 0, FALSE) \in Seq(ProbeRecords)
  <2>1. ASSUME NEW i \in Int, NEW cell \in Int, NEW main \in BOOLEAN
        PROVE  Both(i, cell, main) \in Seq(ProbeRecords)
    <3>1. NegativeCell(axis, pos, i, cell, main) \in Int \X Int
      BY <1>1 DEF NegativeCell
    <3>2. PositiveCell(axis, pos, i, cell, main) \in Int \X Int
      BY <1>1 DEF PositiveCell
    <3>3. /\ [side |-> "negative", main |-> main, cell |-> NegativeCell(axis, pos, i, cell, main)] \in ProbeRecords
          /\ [side |-> "positive", main |-> main, cell |-> PositiveCell(axis, pos, i, cell, main)] \in ProbeRecords
      BY <3>1, <3>2 DEF ProbeRecords, Sides
    <3> QED BY <3>3
  <2>2. TRUE \in BOOLEAN /\ FALSE \in BOOLEAN
    OBVIOUS
  <2>3. 0 \in Int /\ 1 \in Int
    OBVIOUS
  <2> HIDE DEF Both
  <2> QED BY <2>1, <2>2, <2>3, Zenon
<1>6. Probes(axis, pos) = FlattenSeq(mains) \o FlattenSeq(others)
  BY DEF Probes
<1> DEFINE P == Seq(ProbeRecords)
           m == maxCell - minCell + 1
           l == maxOrthogonal - minCell + 1
<1>7. m \in Int /\ l \in Int
  BY <1>2, <1>3, <1>4
<1> HIDE DEF minCell, maxCell, maxOrthogonal, Both
<1>8. \A k \in 1 .. m : mains[k] \in P
  <2>1. ASSUME NEW k \in 1 .. m PROVE mains[k] \in P
    <3>1. k \in Int /\ minCell + k - 1 \in Int
      BY <1>2, <1>7
    <3>2. mains[k] = Both(minCell + k - 1, 0, TRUE) \o Both(minCell + k - 1, 1, TRUE)
      OBVIOUS
    <3>3. /\ Both(minCell + k - 1, 0, TRUE) \in Seq(ProbeRecords)
          /\ Both(minCell + k - 1, 1, TRUE) \in Seq(ProbeRecords)
      BY <1>5, <3>1
    <3> HIDE DEF mains
    <3> QED BY <3>2, <3>3, ConcatProperties DEF P
  <2> QED BY <2>1
<1>9. \A k \in 1 .. l : others[k] \in P
  <2>1. ASSUME NEW k \in 1 .. l PROVE others[k] \in P
    <3>1. k \in Int /\ minCell + k - 1 \in Int
      BY <1>2, <1>7
    <3>2. others[k] = Both(minCell + k - 1, 0, FALSE)
      OBVIOUS
    <3> QED BY <1>5, <3>1, <3>2 DEF P
  <2> QED BY <2>1
<1>10. mains = [k \in 1 .. m |-> mains[k]] /\ others = [k \in 1 .. l |-> others[k]]
  OBVIOUS
<1> HIDE DEF mains, others, P, m, l
<1>11. mains \in Seq(P) /\ others \in Seq(P)
  BY <1>7, <1>8, <1>9, <1>10, ManyFacts
<1>12. FlattenSeq(mains) \in Seq(ProbeRecords) /\ FlattenSeq(others) \in Seq(ProbeRecords)
  BY <1>11, FlattenFacts DEF P
<1> QED BY <1>6, <1>12, ConcatProperties

LEMMA FoundTyped ==
  ASSUME NEW g, IsGraph(g), NEW axis \in Axes, NEW pos \in Int \X Int
  PROVE  FoundEdges(EdgeBuckets(g), axis, pos) \in Seq(FoundRecords(g))
<1> DEFINE buckets == EdgeBuckets(g)
           along(cell) == IF axis = "vertical" THEN cell[2] ELSE cell[1]
           Of(p) == LET list == Bucket(buckets, IF p.main THEN axis ELSE Other(axis), p.cell)
                    IN [j \in DOMAIN list |-> [side |-> p.side, at |-> along(p.cell), edge |-> list[j]]]
           probes == Probes(axis, pos)
           many == [j \in DOMAIN probes |-> Of(probes[j])]
           F == Seq(FoundRecords(g))
<1>1. ASSUME NEW p \in ProbeRecords PROVE Of(p) \in F
  <2> DEFINE ax == IF p.main THEN axis ELSE Other(axis)
             list == Bucket(buckets, ax, p.cell)
             q == [j \in DOMAIN list |-> [side |-> p.side, at |-> along(p.cell), edge |-> list[j]]]
  <2>1. ax \in Axes
    BY DEF Axes, Other
  <2>2. list \in Seq(Edges(g))
    <3> HIDE DEF ax
    <3> QED BY <2>1, BucketTyped
  <2>3. p.side \in Sides /\ p.cell \in Int \X Int
    BY DEF ProbeRecords
  <2>4. along(p.cell) \in Int
    BY <2>3
  <2> HIDE DEF list
  <2>5. q = [j \in DOMAIN list |-> q[j]]
    OBVIOUS
  <2>6. \A j \in DOMAIN list : q[j] \in FoundRecords(g)
    BY <2>2, <2>3, <2>4 DEF FoundRecords
  <2> HIDE DEF q
  <2>7. q \in Seq(FoundRecords(g))
    BY <2>2, <2>5, <2>6, MappedFacts
  <2> QED BY <2>7 DEF q, list
<1>2. probes \in Seq(ProbeRecords)
  BY ProbesTyped
<1>3. FoundEdges(EdgeBuckets(g), axis, pos) = FlattenSeq(many)
  BY DEF FoundEdges
<1> HIDE DEF Of, probes, F
<1>4. many = [j \in DOMAIN probes |-> many[j]]
  OBVIOUS
<1>5. \A j \in DOMAIN probes : many[j] \in F
  BY <1>1, <1>2
<1> HIDE DEF many
<1>6. many \in Seq(F)
  BY <1>2, <1>4, <1>5, MappedFacts
<1> QED BY <1>3, <1>6, FlattenFacts DEF F

-----------------------------------------------------------------------------
\* The tables of a pass: every boundary node has boundary edges, edges of its own.
TableRecords(g) ==
  [ first : [Sides -> Partial(Nodes, Int)], boundaryEdges : Partial(Nodes, SUBSET Edges(g)),
    marked : Partial(Nodes, Sides), distanceToV : Partial(Sides \X Nodes \X Nodes, Nat),
    distancesToNearest : Partial(Nodes, [Nodes -> Nat]) ]

TablesTyped(g, t) ==
  /\ t \in TableRecords(g)
  /\ \A side \in Sides : DOMAIN t.first[side] \subseteq DOMAIN t.boundaryEdges
  /\ \A n \in DOMAIN t.boundaryEdges : \A e \in t.boundaryEdges[n] : n \in Ends(g, e)

LEMMA NewTablesTyped ==
  ASSUME NEW g
  PROVE  TablesTyped(g, NewTables)
<1>1. \A A, B : << >> \in Partial(A, B)
  BY EmptyPartial
<1>2. NewTables.first \in [Sides -> Partial(Nodes, Int)]
  BY <1>1 DEF NewTables, Sides
<1>3. \A side \in Sides : DOMAIN NewTables.first[side] = {}
  BY DEF NewTables, Sides
<1> QED BY <1>1, <1>2, <1>3 DEF TablesTyped, TableRecords, NewTables

LEMMA MeetFacts ==
  ASSUME NEW g, IsGraph(g), NEW t, TablesTyped(g, t), NEW x \in FoundRecords(g)
  PROVE  /\ TablesTyped(g, MeetEdge(g, t, x))
         /\ MeetEdge(g, t, x).distancesToNearest = t.distancesToNearest
         /\ MeetEdge(g, t, x).distanceToV = t.distanceToV
         /\ \A n \in DOMAIN MeetEdge(g, t, x).marked :
              \/ n \in DOMAIN t.marked /\ MeetEdge(g, t, x).marked[n] = t.marked[n]
              \/ n = LowerEnd(g, x.edge) /\ MeetEdge(g, t, x).marked[n] = x.side
<1> DEFINE s == g.sources[x.edge]
           u == g.targets[x.edge]
           ends == <<s, u>>
           node == LowerEnd(g, x.edge)
           known == IF ends[1] \in DOMAIN t.marked THEN ends[1] ELSE ends[2]
           m == MeetEdge(g, t, x)
<1>1. x.edge \in Edges(g) /\ x.side \in Sides /\ x.at \in Int
  BY DEF FoundRecords
<1>2. s \in Nodes /\ u \in Nodes /\ node \in Nodes /\ node \in Ends(g, x.edge)
  BY <1>1, EdgeFacts, EndsFacts
<1>3. /\ t \in TableRecords(g)
      /\ \A side \in Sides : t.first[side] \in Partial(Nodes, Int)
      /\ \A side \in Sides : DOMAIN t.first[side] \subseteq DOMAIN t.boundaryEdges
      /\ t.boundaryEdges \in Partial(Nodes, SUBSET Edges(g)) /\ t.marked \in Partial(Nodes, Sides)
      /\ \A n \in DOMAIN t.boundaryEdges : \A e \in t.boundaryEdges[n] : n \in Ends(g, e)
  BY DEF TablesTyped, TableRecords
<1>4. CASE \E k \in 1 .. 2 : ends[k] \in DOMAIN t.marked
  <2>1. CASE x.side = "negative"
    <3>1. m = t
      BY <1>4, <2>1 DEF MeetEdge
    <3> HIDE DEF m
    <3> QED BY <3>1 DEF m
  <2>2. CASE x.side # "negative"
    <3> DEFINE b == t.boundaryEdges
               more == [b EXCEPT ![known] = @ \cup {x.edge}]
    <3>1. m = [t EXCEPT !.boundaryEdges = more]
      BY <1>4, <2>2 DEF MeetEdge
    <3>2. /\ DOMAIN more = DOMAIN b /\ more \in Partial(Nodes, SUBSET Edges(g))
          /\ \A n \in DOMAIN more : \A e \in more[n] : n \in Ends(g, e)
      <4>1. /\ b = [y \in DOMAIN b |-> b[y]] /\ DOMAIN b \subseteq Nodes
            /\ \A y \in DOMAIN b : b[y] \in SUBSET Edges(g)
        BY <1>3, PartialFacts
      <4>4. known \in Ends(g, x.edge) /\ \A n \in DOMAIN b : \A e \in b[n] : n \in Ends(g, e)
        <5>1. known = s \/ known = u
          OBVIOUS
        <5> HIDE DEF known
        <5> QED BY <1>3, <5>1 DEF Ends
      <4> HIDE DEF known, b
      <4>2. /\ more = [y \in DOMAIN more |-> more[y]] /\ DOMAIN more = DOMAIN b
            /\ \A y \in DOMAIN b : more[y] = IF y = known THEN b[y] \cup {x.edge} ELSE b[y]
        BY <4>1
      <4> HIDE DEF more
      <4>3. \A y \in DOMAIN more : more[y] \in SUBSET Edges(g)
        BY <1>1, <4>1, <4>2
      <4>5. \A n \in DOMAIN more : \A e \in more[n] : n \in Ends(g, e)
        BY <4>2, <4>4
      <4> QED BY <4>1, <4>2, <4>3, <4>5, PartialFacts
    <3> HIDE DEF more
    <3>3. /\ m \in TableRecords(g) /\ m.first = t.first /\ m.boundaryEdges = more
          /\ m.distancesToNearest = t.distancesToNearest /\ m.distanceToV = t.distanceToV
          /\ m.marked = t.marked
      BY <1>3, <3>1, <3>2 DEF TableRecords
    <3> HIDE DEF m
    <3> QED BY <1>3, <3>2, <3>3 DEF TablesTyped, m
  <2> QED BY <2>1, <2>2
<1>5. CASE ~ \E k \in 1 .. 2 : ends[k] \in DOMAIN t.marked
  <2> DEFINE f == Added(t.first[x.side], node, x.at)
             b == Added(t.boundaryEdges, node, {x.edge})
             k == Added(t.marked, node, x.side)
             one == {x.edge}
  <2>1. m = [t EXCEPT !.first[x.side] = f, !.boundaryEdges = b, !.marked = k]
    BY <1>5 DEF MeetEdge
  <2>2. f \in Partial(Nodes, Int) /\ DOMAIN f = DOMAIN t.first[x.side] \cup {node}
    <3>1. t.first[x.side] \in Partial(Nodes, Int)
      BY <1>1, <1>3
    <3> HIDE DEF node
    <3>2. AddsRight(Nodes, Int, t.first[x.side], node, x.at)
      BY <1>1, <1>2, <3>1, AddedFacts
    <3> QED BY <3>2 DEF AddsRight
  <2>3. /\ b \in Partial(Nodes, SUBSET Edges(g)) /\ DOMAIN b = DOMAIN t.boundaryEdges \cup {node}
        /\ \A n \in DOMAIN b : \A e \in b[n] : n \in Ends(g, e)
    <3>1. one \in SUBSET Edges(g)
      BY <1>1
    <3> DEFINE B == SUBSET Edges(g)
    <3> HIDE DEF one, node, B
    <3>2. t.boundaryEdges \in Partial(Nodes, B) /\ one \in B
      BY <1>3, <3>1 DEF B
    <3>3. AddsRight(Nodes, B, t.boundaryEdges, node, one)
      BY <1>2, <3>2, AddedFacts
    <3>4. \A n \in DOMAIN b : \A e \in b[n] : n \in Ends(g, e)
      <4> DEFINE old == t.boundaryEdges
      <4>5. b = Added(old, node, one)
        BY DEF one
      <4>0. AddsRight(Nodes, B, old, node, one) /\ b = Added(old, node, one)
        BY <3>3, <4>5
      <4> HIDE DEF old, b
      <4>1. \A n \in DOMAIN b : b[n] = IF n \in DOMAIN old THEN old[n] ELSE one
        BY <4>0 DEF AddsRight
      <4>2. \A n \in DOMAIN b : n \in DOMAIN old \/ n = node
        BY <4>0 DEF AddsRight
      <4> QED BY <1>2, <1>3, <4>1, <4>2 DEF one, node, old
    <3> QED BY <3>3, <3>4 DEF AddsRight, one, B
  <2>4. /\ k \in Partial(Nodes, Sides)
        /\ \A n \in DOMAIN k : \/ n \in DOMAIN t.marked /\ k[n] = t.marked[n]
                               \/ n = node /\ k[n] = x.side
    <3> HIDE DEF node
    <3>1. AddsRight(Nodes, Sides, t.marked, node, x.side)
      BY <1>1, <1>2, <1>3, AddedFacts
    <3> QED BY <3>1 DEF AddsRight
  <2> HIDE DEF f, b, k
  <2>5. /\ m.first = [t.first EXCEPT ![x.side] = f] /\ m.boundaryEdges = b /\ m.marked = k
        /\ m.distancesToNearest = t.distancesToNearest /\ m.distanceToV = t.distanceToV
        /\ m = [first |-> m.first, boundaryEdges |-> m.boundaryEdges, marked |-> m.marked,
                distanceToV |-> m.distanceToV, distancesToNearest |-> m.distancesToNearest]
    BY <1>3, <2>1 DEF TableRecords
  <2> HIDE DEF m
  <2>6. m.first \in [Sides -> Partial(Nodes, Int)]
    <3>1. t.first \in [Sides -> Partial(Nodes, Int)]
      BY <1>3 DEF TableRecords
    <3> QED BY <1>1, <2>2, <2>5, <3>1
  <2>7. m \in TableRecords(g)
    <3>1. /\ t.distanceToV \in Partial(Sides \X Nodes \X Nodes, Nat)
          /\ t.distancesToNearest \in Partial(Nodes, [Nodes -> Nat])
      BY <1>3 DEF TableRecords
    <3> QED BY <2>3, <2>4, <2>5, <2>6, <3>1 DEF TableRecords
  <2>8. \A side \in Sides : DOMAIN m.first[side] \subseteq DOMAIN m.boundaryEdges
    <3>1. t.first \in [Sides -> Partial(Nodes, Int)]
      BY <1>3 DEF TableRecords
    <3>2. \A side \in Sides : m.first[side] = IF side = x.side THEN f ELSE t.first[side]
      BY <2>5, <3>1
    <3> QED BY <1>3, <2>2, <2>3, <2>5, <3>2
  <2> QED BY <2>3, <2>4, <2>5, <2>7, <2>8 DEF TablesTyped, m, node
<1> QED BY <1>4, <1>5

LEMMA ScanFacts ==
  ASSUME NEW g, IsGraph(g), NEW t, TablesTyped(g, t), NEW axis \in Axes, NEW pos \in Int \X Int
  PROVE  LET scanned == ScanBoundary(g, EdgeBuckets(g), axis, pos, t)
         IN /\ TablesTyped(g, scanned) /\ scanned.distancesToNearest = t.distancesToNearest
            /\ scanned.distanceToV = t.distanceToV
            /\ \A n \in DOMAIN scanned.marked : <<scanned.marked[n], n>> \in BoundaryAt(g, axis, pos)
<1> DEFINE found == FoundEdges(EdgeBuckets(g), axis, pos)
           L == Len(found)
           x0 == [t EXCEPT !.marked = << >>]
           B == BoundaryAt(g, axis, pos)
           S == {y \in TableRecords(g) :
                   /\ TablesTyped(g, y) /\ y.distancesToNearest = t.distancesToNearest
                   /\ y.distanceToV = t.distanceToV
                   /\ \A n \in DOMAIN y.marked : <<y.marked[n], n>> \in B}
           step == [x \in (1 .. L) \X S |-> MeetEdge(g, x[2], found[x[1]])]
           body(f) == [k \in 0 .. L |-> IF k = 0 THEN x0 ELSE MeetEdge(g, f[k - 1], found[k])]
           after[k \in 0 .. L] == IF k = 0 THEN x0 ELSE MeetEdge(g, after[k - 1], found[k])
<1>1. L \in Nat /\ \A k \in 1 .. L : found[k] \in FoundRecords(g)
  <2> HIDE DEF found
  <2>1. found \in Seq(FoundRecords(g))
    BY FoundTyped DEF found
  <2> QED BY <2>1
<1>11. \A k \in 1 .. L : <<found[k].side, LowerEnd(g, found[k].edge)>> \in B
  <2>1. DOMAIN found = 1 .. L
    <3>1. found \in Seq(FoundRecords(g))
      BY FoundTyped
    <3> QED BY <3>1
  <2> QED BY <2>1 DEF BoundaryAt
<1> HIDE DEF B
<1>2. x0 \in S
  <2>1. t \in TableRecords(g) /\ << >> \in Partial(Nodes, Sides)
    BY EmptyPartial DEF TablesTyped
  <2>2. /\ x0 \in TableRecords(g) /\ x0.distancesToNearest = t.distancesToNearest
        /\ x0.first = t.first /\ x0.boundaryEdges = t.boundaryEdges
        /\ x0.distanceToV = t.distanceToV /\ x0.marked = << >>
    BY <2>1 DEF TableRecords
  <2> HIDE DEF x0
  <2> QED BY <2>2 DEF TablesTyped
<1>3. step \in [(1 .. L) \X S -> S]
  <2>1. ASSUME NEW x \in (1 .. L) \X S PROVE MeetEdge(g, x[2], found[x[1]]) \in S
    <3>1. x[1] \in 1 .. L /\ x[2] \in S
      BY <2>1
    <3> DEFINE m == MeetEdge(g, x[2], found[x[1]])
    <3> DEFINE y == x[2]
               e == found[x[1]]
    <3>2. /\ TablesTyped(g, y) /\ y.distancesToNearest = t.distancesToNearest
          /\ y.distanceToV = t.distanceToV
          /\ \A n \in DOMAIN y.marked : <<y.marked[n], n>> \in B
          /\ e \in FoundRecords(g) /\ <<e.side, LowerEnd(g, e.edge)>> \in B
      BY <1>1, <1>11, <3>1
    <3>5. m = MeetEdge(g, y, e)
      OBVIOUS
    <3> HIDE DEF y, e, m
    <3>3. /\ TablesTyped(g, m) /\ m.distancesToNearest = y.distancesToNearest
          /\ m.distanceToV = y.distanceToV
          /\ \A n \in DOMAIN m.marked :
               \/ n \in DOMAIN y.marked /\ m.marked[n] = y.marked[n]
               \/ n = LowerEnd(g, e.edge) /\ m.marked[n] = e.side
      BY <3>2, <3>5, MeetFacts
    <3>4. m \in S
      BY <3>2, <3>3 DEF TablesTyped
    <3> QED BY <3>4 DEF m
  <2> HIDE DEF S
  <2> QED BY <2>1
<1> HIDE DEF x0, S, L, found
<1>4. PICK f \in [0 .. L -> S] : Follows(f, L, x0, step)
  <2> HIDE DEF step
  <2> QED BY <1>1, <1>2, <1>3, Stepwise
<1>5. f = body(f)
  <2>1. ASSUME NEW k \in 0 .. L PROVE f[k] = IF k = 0 THEN x0 ELSE MeetEdge(g, f[k - 1], found[k])
    <3>1. CASE k = 0
      BY <1>4, <3>1 DEF Follows
    <3>2. CASE k # 0
      <4>1. k \in 1 .. L /\ k - 1 \in 0 .. L
        BY <1>1, <3>2
      <4>2. f[k] = step[<<k, f[k - 1]>>] /\ <<k, f[k - 1]>> \in (1 .. L) \X S
        BY <1>4, <4>1 DEF Follows
      <4> QED BY <3>2, <4>2
    <3> QED BY <3>1, <3>2
  <2> QED BY <1>4, <2>1
<1>6. after = body(after)
  BY <1>5
<1> HIDE DEF after
<1> DEFINE K == {k \in Nat : k <= L => after[k] \in S}
<1>7. 0 \in K
  <2>1. 0 \in 0 .. L
    BY <1>1
  <2> QED BY <1>2, <1>6, <2>1
<1>8. ASSUME NEW k \in Nat, k \in K PROVE k + 1 \in K
  <2> SUFFICES ASSUME k + 1 <= L PROVE after[k + 1] \in S
    OBVIOUS
  <2>1. k + 1 \in 0 .. L /\ k + 1 \in 1 .. L /\ k + 1 # 0 /\ (k + 1) - 1 = k /\ after[k] \in S
    BY <1>1, <1>8
  <2>2. after[k + 1] = MeetEdge(g, after[k], found[k + 1])
    BY <1>6, <2>1
  <2> DEFINE p == <<k + 1, after[k]>>
  <2>3. p \in (1 .. L) \X S /\ p[1] = k + 1 /\ p[2] = after[k]
    BY <2>1
  <2>4. step[p] \in S /\ step[p] = MeetEdge(g, after[k], found[k + 1])
    BY <1>3, <2>3
  <2> QED BY <2>2, <2>4
<1> HIDE DEF K
<1>9. after[L] \in S
  <2>1. Nat \subseteq K
    BY <1>7, <1>8, Induction
  <2> QED BY <1>1, <2>1 DEF K
<1>10. ScanBoundary(g, EdgeBuckets(g), axis, pos, t) = after[L]
  BY DEF ScanBoundary, after, L, found, x0
<1> QED BY <1>9, <1>10 DEF S, B

\* What a pass keeps is of the nodes of the line, each searched around once.
Kept(g, l, t) ==
  /\ \A v \in DOMAIN t.distancesToNearest :
       \E x \in Swept(g, l) : x.v = v /\ t.distancesToNearest[v] = LocalDistances(g, v, x.pos)
  /\ \A k \in DOMAIN t.distanceToV :
       \E x \in Swept(g, l) :
         /\ x.v = k[3] /\ <<k[1], k[2]>> \in BoundaryAt(g, Axis(l), x.pos)
         /\ t.distanceToV[k] = StoredDistance(LocalDistances(g, k[3], x.pos), k[1], k[2])

LEMMA ProcessFacts ==
  ASSUME NEW g, IsGraph(g), NEW t, TablesTyped(g, t), NEW l \in Nat, Kept(g, l, t),
         NEW x \in Swept(g, l), x \in Met
  PROVE  LET done == ProcessSingleNode(g, EdgeBuckets(g), Axis(l), x, t)
         IN TablesTyped(g, done) /\ Kept(g, l, done)
<1> DEFINE axis == Axis(l)
           scanned == ScanBoundary(g, EdgeBuckets(g), axis, x.pos, t)
           d == LocalDistances(g, x.v, x.pos)
           keys == {<<scanned.marked[n], n, x.v>> : n \in DOMAIN scanned.marked}
           Stored == [k \in keys |-> StoredDistance(d, k[1], k[2])]
           to == Overlay(scanned.distanceToV, Stored)
           near == Added(scanned.distancesToNearest, x.v, d)
           all == Sides \X Nodes \X Nodes
           maps == [Nodes -> Nat]
           done == ProcessSingleNode(g, EdgeBuckets(g), axis, x, t)
<1>1. x.v \in Nodes /\ x.pos \in Int \X Int
  BY DEF Met
<1>2. /\ TablesTyped(g, scanned) /\ scanned.distancesToNearest = t.distancesToNearest
      /\ scanned.distanceToV = t.distanceToV
      /\ \A n \in DOMAIN scanned.marked : <<scanned.marked[n], n>> \in BoundaryAt(g, axis, x.pos)
  <2>1. axis \in Axes
    BY DEF Axis, Axes
  <2> HIDE DEF axis
  <2> QED BY <1>1, <2>1, ScanFacts
<1>3. d \in maps
  <2>1. Region(g, x.pos) \subseteq Nodes
    BY DEF Region
  <2> QED BY <1>1, <2>1, WithinTyped DEF LocalDistances
<1>4. done = [scanned EXCEPT !.distanceToV = to, !.distancesToNearest = near]
  BY DEF ProcessSingleNode
<1> HIDE DEF scanned, d, done
<1>5. /\ scanned \in TableRecords(g)
      /\ scanned.marked \in Partial(Nodes, Sides) /\ scanned.distanceToV \in Partial(all, Nat)
      /\ scanned.distancesToNearest \in Partial(Nodes, maps)
  BY <1>2 DEF TablesTyped, TableRecords
<1>6. Stored \in Partial(all, Nat)
  <2>1. \A n \in DOMAIN scanned.marked : n \in Nodes /\ scanned.marked[n] \in Sides
    BY <1>5, PartialFacts
  <2>2. keys \subseteq all
    BY <1>1, <2>1
  <2>3. \A k \in keys : k[1] \in Sides /\ k[2] \in Nodes
    BY <2>1
  <2> HIDE DEF keys
  <2>4. \A k \in keys : StoredDistance(d, k[1], k[2]) \in Nat
    BY <1>3, <2>3, SizeAssumption DEF StoredDistance
  <2>5. Stored = [k \in DOMAIN Stored |-> Stored[k]] /\ DOMAIN Stored = keys
        /\ \A k \in DOMAIN Stored : Stored[k] \in Nat
    BY <2>4
  <2> HIDE DEF Stored
  <2> QED BY <2>2, <2>5, PartialFacts
<1> HIDE DEF Stored, all, maps
<1>7. to \in Partial(all, Nat)
  BY <1>5, <1>6, OverlayFacts
<1>8. AddsRight(Nodes, maps, scanned.distancesToNearest, x.v, d)
  BY <1>1, <1>3, <1>5, AddedFacts
<1>9. near \in Partial(Nodes, maps)
  BY <1>8 DEF AddsRight
<1>10. \A v \in DOMAIN near : \E y \in Swept(g, l) : y.v = v /\ near[v] = LocalDistances(g, v, y.pos)
  <2>1. ASSUME NEW v \in DOMAIN near
        PROVE  \E y \in Swept(g, l) : y.v = v /\ near[v] = LocalDistances(g, v, y.pos)
    <3>1. CASE v \in DOMAIN scanned.distancesToNearest
      BY <1>2, <1>8, <3>1 DEF AddsRight, Kept
    <3>2. CASE v \notin DOMAIN scanned.distancesToNearest
      <4>1. v = x.v /\ near[v] = d
        BY <1>8, <3>2, <2>1 DEF AddsRight
      <4> QED BY <4>1 DEF d
    <3> QED BY <3>1, <3>2
  <2> QED BY <2>1
<1>13. \A k \in DOMAIN to :
         \E y \in Swept(g, l) : /\ y.v = k[3] /\ <<k[1], k[2]>> \in BoundaryAt(g, Axis(l), y.pos)
                               /\ to[k] = StoredDistance(LocalDistances(g, k[3], y.pos), k[1], k[2])
  <2>1. ASSUME NEW k \in DOMAIN to
        PROVE  \E y \in Swept(g, l) : /\ y.v = k[3] /\ <<k[1], k[2]>> \in BoundaryAt(g, Axis(l), y.pos)
                                     /\ to[k] = StoredDistance(LocalDistances(g, k[3], y.pos), k[1], k[2])
    <3>1. CASE k \in DOMAIN scanned.distanceToV
      <4>1. to[k] = t.distanceToV[k] /\ k \in DOMAIN t.distanceToV
        BY <1>2, <2>1, <3>1 DEF Overlay
      <4> QED BY <4>1 DEF Kept
    <3>2. CASE k \notin DOMAIN scanned.distanceToV
      <4>1. k \in keys /\ to[k] = Stored[k]
        BY <2>1, <3>2 DEF Overlay, Stored
      <4>2. PICK n \in DOMAIN scanned.marked : k = <<scanned.marked[n], n, x.v>>
        BY <4>1
      <4>3. to[k] = StoredDistance(d, k[1], k[2])
        BY <4>1 DEF Stored
      <4> QED BY <1>2, <4>2, <4>3 DEF d
    <3> QED BY <3>1, <3>2
  <2> QED BY <2>1
<1> HIDE DEF to, near
<1>11. /\ done \in TableRecords(g) /\ done.distancesToNearest = near /\ done.distanceToV = to
       /\ done.first = scanned.first /\ done.boundaryEdges = scanned.boundaryEdges
  BY <1>4, <1>5, <1>7, <1>9 DEF TableRecords, all, maps
<1>12. TablesTyped(g, done)
  BY <1>2, <1>11 DEF TablesTyped
<1>14. Kept(g, l, done)
  BY <1>10, <1>11, <1>13 DEF Kept
<1> QED BY <1>12, <1>14 DEF done

-----------------------------------------------------------------------------
(***************************************************************************)
(* The inductive invariant of the preprocessing.                           *)
(***************************************************************************)
Progress ==
  /\ graph \in Networks
  /\ phase \in {"buckets", "sweep", "find", "collect", "done"}
  /\ line \in Nat /\ line <= 2 * GridSize
  /\ phase = "buckets" => line = 0
  /\ phase \in {"sweep", "find"} => line < 2 * GridSize
  /\ phase # "buckets" => edgeBuckets = EdgeBuckets(graph)

Passing ==
  /\ todo \in Seq(Swept(graph, line))
  /\ phase # "sweep" => todo = << >>
  /\ TablesTyped(graph, tables) /\ Kept(graph, line, tables)
  /\ phase # "find" => pairs = {}
  /\ pairs \subseteq (DOMAIN tables.first["negative"]) \X (DOMAIN tables.first["positive"])

\* Whatever a cell has a transit node for, some line serves it ...
Serving(g, cells) ==
  \A c \in cells :
    \E l \in SweepLines : \E x \in Swept(g, l) : x.v = c[3] /\ <<c[1], c[2]>> \in CellsServed(g, l, x)

\* ... and what is stored for a node of it is a distance found by a search around
\* the transit node.
StoredBySearches(g, cells, local) ==
  \A k \in DOMAIN local :
    /\ local[k] < MaxInt /\ <<g.cellX[k[1]], g.cellY[k[1]], k[2]>> \in cells
    /\ \E l \in SweepLines : \E x \in Swept(g, l) :
         x.v = k[2] /\ local[k] = LocalDistances(g, k[2], x.pos)[k[1]]

Results ==
  /\ transitNodeTmp \subseteq Nodes
  /\ transitNodesOfCells \subseteq Columns \X Columns \X transitNodeTmp
  /\ DOMAIN localTransitNodes \subseteq Nodes \X transitNodeTmp
  /\ Serving(graph, transitNodesOfCells)
  /\ StoredBySearches(graph, transitNodesOfCells, localTransitNodes)
  /\ tnData.cells \subseteq transitNodesOfCells

TypeInv == Progress /\ Passing /\ Results

LEMMA NewTablesKept ==
  ASSUME NEW g, NEW l
  PROVE  Kept(g, l, NewTables)
BY DEF Kept, NewTables

LEMMA TypeInvInit == Init => TypeInv
<1> SUFFICES ASSUME Init PROVE TypeInv
  OBVIOUS
<1>1. Progress
  BY GridSizeAssumption DEF Init, Progress
<1>2. TablesTyped(graph, tables) /\ Kept(graph, line, tables)
  BY NewTablesTyped, NewTablesKept DEF Init
<1>3. Passing
  BY <1>2 DEF Init, Passing
<1>4. Results
  BY DEF Init, NoData, Results, Serving, StoredBySearches
<1> QED BY <1>1, <1>3, <1>4 DEF TypeInv

LEMMA SweptFacts ==
  ASSUME NEW g \in Networks, NEW l \in Nat
  PROVE  /\ SweepNodes(g, EdgeBuckets(g), Axis(l), l % GridSize) \in Seq(Swept(g, l))
         /\ Swept(g, l) \subseteq Met
         /\ \A x, y \in Swept(g, l) : x.v = y.v => x = y
<1> DEFINE s == SweepNodes(g, EdgeBuckets(g), Axis(l), l % GridSize)
<1>1. Axis(l) \in Axes
  BY DEF Axis, Axes
<1>2. l % GridSize \in Int
  BY GridSizeAssumption
<1>3. s \in Seq(Met) /\ EachOnce(s)
  BY <1>1, <1>2, NetworksAssumption, SweepTyped
<1>4. Swept(g, l) = {s[j] : j \in DOMAIN s}
  BY DEF Swept
<1> HIDE DEF s
<1>5. s \in Seq(Swept(g, l))
  <2>1. s = [j \in DOMAIN s |-> s[j]] /\ \A j \in DOMAIN s : s[j] \in Swept(g, l)
    BY <1>3, <1>4
  <2> QED BY <1>3, <2>1, MappedFacts
<1>6. Swept(g, l) \subseteq Met /\ \A x, y \in Swept(g, l) : x.v = y.v => x = y
  BY <1>3, <1>4 DEF EachOnce
<1> QED BY <1>5, <1>6 DEF s

LEMMA CellsOfTyped ==
  ASSUME Progress, Passing, NEW side \in Sides, NEW n \in DOMAIN tables.first[side]
  PROVE  CellsOf(side, n) \subseteq Columns \X Columns
<1> DEFINE ends == UNION {{graph.sources[e], graph.targets[e]} : e \in tables.boundaryEdges[n]}
           k == (IF side = "negative" THEN line + GridSize - 3 ELSE line + 2) % GridSize
<1>1. IsGraph(graph) /\ HasCells(graph)
  BY NetworksAssumption DEF Progress
<1>2. tables.boundaryEdges[n] \subseteq Edges(graph)
  <2>1. n \in DOMAIN tables.boundaryEdges /\ tables.boundaryEdges \in Partial(Nodes, SUBSET Edges(graph))
    BY DEF Passing, TablesTyped, TableRecords
  <2> QED BY <2>1, PartialFacts
<1>3. ends \subseteq Nodes
  BY <1>1, <1>2, EdgeFacts
<1>4. k \in Columns
  BY GridSizeAssumption DEF Progress, Columns
<1>5. \A w \in Nodes : graph.cellX[w] \in Columns /\ graph.cellY[w] \in Columns
  <2>1. \A y \in 3 .. GridSize \div 2 : y \in Columns
    BY GridSizeAssumption DEF Columns
  <2> QED BY <1>1, <2>1 DEF HasCells
<1>6. CellsOf(side, n) = IF Axis(line) = "vertical" THEN {<<k, graph.cellY[w]>> : w \in ends}
                                                  ELSE {<<graph.cellX[w], k>> : w \in ends}
  BY DEF CellsOf
<1> HIDE DEF ends, k
<1> QED BY <1>3, <1>4, <1>5, <1>6

LEMMA BucketsKeep == TypeInv /\ FindEdgeBuckets => TypeInv'
<1> SUFFICES ASSUME TypeInv, FindEdgeBuckets PROVE TypeInv'
  OBVIOUS
<1>1. Progress /\ Passing /\ Results
  BY DEF TypeInv
<1>2. /\ phase = "buckets" /\ phase' = "sweep" /\ edgeBuckets' = EdgeBuckets(graph)
      /\ todo' = SweepNodes(graph, edgeBuckets', Axis(0), 0)
      /\ graph' = graph /\ line' = line /\ tables' = tables /\ pairs' = pairs
      /\ UNCHANGED <<transitNodeTmp, transitNodesOfCells, localTransitNodes, tnData>>
  BY DEF FindEdgeBuckets
<1>3. Progress'
  BY <1>1, <1>2, GridSizeAssumption DEF Progress
<1>4. todo' \in Seq(Swept(graph, line))
  <2>1. 0 % GridSize = 0 /\ line = 0 /\ 0 \in Nat
    BY <1>1, <1>2, GridSizeAssumption DEF Progress
  <2>2. SweepNodes(graph, EdgeBuckets(graph), Axis(0), 0 % GridSize) \in Seq(Swept(graph, 0))
    BY <1>1, <2>1, SweptFacts DEF Progress
  <2> QED BY <1>2, <2>1, <2>2
<1>5. Passing'
  BY <1>1, <1>2, <1>4 DEF Passing
<1>6. Results'
  BY <1>1, <1>2 DEF Results
<1> QED BY <1>3, <1>5, <1>6 DEF TypeInv

LEMMA SweepNodeKeeps == TypeInv /\ SweepNode => TypeInv'
<1> SUFFICES ASSUME TypeInv, SweepNode PROVE TypeInv'
  OBVIOUS
<1>1. Progress /\ Passing /\ Results
  BY DEF TypeInv
<1>2. /\ phase = "sweep" /\ todo # << >>
      /\ tables' = ProcessSingleNode(graph, edgeBuckets, Axis(line), Head(todo), tables)
      /\ todo' = Tail(todo)
      /\ UNCHANGED <<graph, edgeBuckets, phase, line, pairs>>
      /\ UNCHANGED <<transitNodeTmp, transitNodesOfCells, localTransitNodes, tnData>>
  BY DEF SweepNode
<1>3. Progress'
  BY <1>1, <1>2 DEF Progress
<1>4. Head(todo) \in Swept(graph, line) /\ todo' \in Seq(Swept(graph, line))
  BY <1>1, <1>2 DEF Passing
<1>5. TablesTyped(graph, tables') /\ Kept(graph, line, tables')
  <2>1. IsGraph(graph) /\ edgeBuckets = EdgeBuckets(graph) /\ line \in Nat
    BY <1>1, <1>2, NetworksAssumption DEF Progress
  <2>2. Head(todo) \in Met
    BY <1>1, <1>4, SweptFacts DEF Progress
  <2> QED BY <1>1, <1>2, <1>4, <2>1, <2>2, ProcessFacts DEF Passing
<1>6. Passing'
  BY <1>1, <1>2, <1>4, <1>5 DEF Passing
<1>7. Results'
  BY <1>1, <1>2 DEF Results
<1> QED BY <1>3, <1>6, <1>7 DEF TypeInv

LEMMA SweepDoneKeeps == TypeInv /\ SweepDone => TypeInv'
<1> SUFFICES ASSUME TypeInv, SweepDone PROVE TypeInv'
  OBVIOUS
<1>1. Progress /\ Passing /\ Results
  BY DEF TypeInv
<1>2. /\ phase = "sweep" /\ phase' = "find" /\ todo = << >>
      /\ pairs' \subseteq (DOMAIN tables.first.negative) \X (DOMAIN tables.first.positive)
      /\ UNCHANGED <<graph, edgeBuckets, line, todo, tables>>
      /\ UNCHANGED <<transitNodeTmp, transitNodesOfCells, localTransitNodes, tnData>>
  BY DEF SweepDone
<1>3. Progress'
  BY <1>1, <1>2 DEF Progress
<1>4. Passing'
  BY <1>1, <1>2 DEF Passing
<1>5. Results'
  BY <1>1, <1>2 DEF Results
<1> QED BY <1>3, <1>4, <1>5 DEF TypeInv

\* A connection of a pair is over a node of the line that serves the cells on both sides.
LEMMA FoundCellsServed ==
  ASSUME Progress, Passing, NEW p,
         p[1] \in DOMAIN tables.first["negative"], p[2] \in DOMAIN tables.first["positive"],
         NEW v \in Nearest(p), NEW c \in CellsOf("negative", p[1]) \cup CellsOf("positive", p[2])
  PROVE  \E x \in Swept(graph, line) : x.v = v /\ <<c[1], c[2]>> \in CellsServed(graph, line, x)
<1>1. ASSUME NEW side \in Sides, NEW n \in DOMAIN tables.first[side], c \in CellsOf(side, n),
             <<side, n, v>> \in DOMAIN tables.distanceToV
      PROVE  \E x \in Swept(graph, line) : x.v = v /\ <<c[1], c[2]>> \in CellsServed(graph, line, x)
  <2>1. PICK x \in Swept(graph, line) : x.v = v /\ <<side, n>> \in BoundaryAt(graph, Axis(line), x.pos)
    <3> DEFINE k == <<side, n, v>>
    <3>1. \A j \in DOMAIN tables.distanceToV : \E x \in Swept(graph, line) :
            x.v = j[3] /\ <<j[1], j[2]>> \in BoundaryAt(graph, Axis(line), x.pos)
      BY DEF Passing, Kept
    <3>2. k \in DOMAIN tables.distanceToV /\ k[1] = side /\ k[2] = n /\ k[3] = v
      BY <1>1
    <3> HIDE DEF k
    <3> QED BY <3>1, <3>2
  <2>2. tables.boundaryEdges[n] \subseteq {e \in Edges(graph) : n \in Ends(graph, e)}
    <3>1. /\ n \in DOMAIN tables.boundaryEdges
          /\ tables.boundaryEdges \in Partial(Nodes, SUBSET Edges(graph))
          /\ \A e \in tables.boundaryEdges[n] : n \in Ends(graph, e)
      BY DEF Passing, TablesTyped, TableRecords
    <3> QED BY <3>1, PartialFacts
  <2> DEFINE some == UNION {{graph.sources[e], graph.targets[e]} : e \in tables.boundaryEdges[n]}
             ends == UNION {Ends(graph, e) : e \in {f \in Edges(graph) : n \in Ends(graph, f)}}
             k == (IF side = "negative" THEN line + GridSize - 3 ELSE line + 2) % GridSize
  <2>3. some \subseteq ends
    BY <2>2 DEF Ends
  <2>4. CellsOf(side, n) = IF Axis(line) = "vertical" THEN {<<k, graph.cellY[w]>> : w \in some}
                                                    ELSE {<<graph.cellX[w], k>> : w \in some}
    BY DEF CellsOf
  <2>5. CellsBeyond(graph, line, side, n) =
          IF Axis(line) = "vertical" THEN {<<k, graph.cellY[w]>> : w \in ends}
                                     ELSE {<<graph.cellX[w], k>> : w \in ends}
    BY DEF CellsBeyond
  <2> HIDE DEF some, ends, k
  <2>6. c \in CellsBeyond(graph, line, side, n) /\ c = <<c[1], c[2]>>
    BY <1>1, <2>3, <2>4, <2>5
  <2>7. <<c[1], c[2]>> \in CellsServed(graph, line, x)
    <3> DEFINE b == <<side, n>>
    <3>1. b \in BoundaryAt(graph, Axis(line), x.pos) /\ b[1] = side /\ b[2] = n
      BY <2>1
    <3> HIDE DEF b
    <3> QED BY <2>6, <3>1 DEF CellsServed
  <2> QED BY <2>1, <2>7
<1>2. /\ <<"negative", p[1], v>> \in DOMAIN tables.distanceToV
      /\ <<"positive", p[2], v>> \in DOMAIN tables.distanceToV
  BY DEF Nearest, Common
<1> QED BY <1>1, <1>2 DEF Sides

LEMMA FindTransitNodeKeeps == TypeInv /\ FindTransitNode => TypeInv'
<1> SUFFICES ASSUME TypeInv, FindTransitNode PROVE TypeInv'
  OBVIOUS
<1>1. Progress /\ Passing /\ Results
  BY DEF TypeInv
<1> DEFINE p == CHOOSE x \in pairs : TRUE
<1>2. /\ phase = "find" /\ pairs # {} /\ pairs' = pairs \ {p}
      /\ UNCHANGED <<graph, edgeBuckets, phase, line, todo, tables>>
      /\ UNCHANGED <<localTransitNodes, tnData>>
      /\ \/ UNCHANGED <<transitNodeTmp, transitNodesOfCells>>
         \/ \E v \in Nearest(p) :
              /\ transitNodeTmp' = transitNodeTmp \cup {v}
              /\ transitNodesOfCells' = transitNodesOfCells \cup
                   {<<c[1], c[2], v>> : c \in CellsOf("negative", p[1]) \cup CellsOf("positive", p[2])}
  BY DEF FindTransitNode
<1>3. p \in pairs
  BY <1>2
<1> HIDE DEF p
<1>4. p[1] \in DOMAIN tables.first["negative"] /\ p[2] \in DOMAIN tables.first["positive"]
  BY <1>1, <1>3 DEF Passing
<1>5. Progress'
  BY <1>1, <1>2 DEF Progress
<1>6. Passing'
  BY <1>1, <1>2 DEF Passing
<1>7. CASE UNCHANGED <<transitNodeTmp, transitNodesOfCells>>
  <2>1. Results'
    BY <1>1, <1>2, <1>7 DEF Results
  <2> QED BY <1>5, <1>6, <2>1 DEF TypeInv
<1>8. CASE \E v \in Nearest(p) :
             /\ transitNodeTmp' = transitNodeTmp \cup {v}
             /\ transitNodesOfCells' = transitNodesOfCells \cup
                  {<<c[1], c[2], v>> : c \in CellsOf("negative", p[1]) \cup CellsOf("positive", p[2])}
  <2> DEFINE cells == CellsOf("negative", p[1]) \cup CellsOf("positive", p[2])
  <2>1. PICK v \in Nearest(p) :
             /\ transitNodeTmp' = transitNodeTmp \cup {v}
             /\ transitNodesOfCells' = transitNodesOfCells \cup {<<c[1], c[2], v>> : c \in cells}
    BY <1>8
  <2>2. v \in Nodes
    <3>1. v \in DOMAIN tables.distancesToNearest
      BY DEF Nearest, Common
    <3>2. tables.distancesToNearest \in Partial(Nodes, [Nodes -> Nat])
      BY <1>1 DEF Passing, TablesTyped, TableRecords
    <3> QED BY <3>1, <3>2, PartialFacts
  <2>3. cells \subseteq Columns \X Columns
    <3>1. "negative" \in Sides /\ "positive" \in Sides
      BY DEF Sides
    <3>2. CellsOf("negative", p[1]) \subseteq Columns \X Columns
      BY <1>1, <1>4, <3>1, CellsOfTyped
    <3>3. CellsOf("positive", p[2]) \subseteq Columns \X Columns
      BY <1>1, <1>4, <3>1, CellsOfTyped
    <3> QED BY <3>2, <3>3
  <2> HIDE DEF cells
  <2>4. transitNodeTmp' \subseteq Nodes /\ transitNodeTmp \subseteq transitNodeTmp'
    BY <1>1, <2>1, <2>2 DEF Results
  <2>5. {<<c[1], c[2], v>> : c \in cells} \subseteq Columns \X Columns \X transitNodeTmp'
    BY <2>1, <2>3
  <2>6. transitNodesOfCells \subseteq Columns \X Columns \X transitNodeTmp'
    BY <1>1, <2>4 DEF Results
  <2>7. transitNodesOfCells' \subseteq Columns \X Columns \X transitNodeTmp'
    BY <2>1, <2>5, <2>6
  <2>8. /\ DOMAIN localTransitNodes' \subseteq Nodes \X transitNodeTmp'
        /\ StoredBySearches(graph', transitNodesOfCells', localTransitNodes')
        /\ tnData'.cells \subseteq transitNodesOfCells'
    BY <1>1, <1>2, <2>1, <2>4 DEF Results, StoredBySearches
  <2>10. Serving(graph, transitNodesOfCells')
    <3>1. ASSUME NEW c \in cells
          PROVE  \E x \in Swept(graph, line) : x.v = v /\ <<c[1], c[2]>> \in CellsServed(graph, line, x)
      BY <1>1, <1>4, <3>1, FoundCellsServed DEF cells
    <3>2. line \in SweepLines
      BY <1>1, <1>2, GridSizeAssumption DEF Progress, SweepLines
    <3>3. ASSUME NEW c \in transitNodesOfCells'
          PROVE  \E l \in SweepLines : \E x \in Swept(graph, l) :
                   x.v = c[3] /\ <<c[1], c[2]>> \in CellsServed(graph, l, x)
      <4>1. CASE c \in transitNodesOfCells
        BY <1>1, <4>1 DEF Results, Serving
      <4>2. CASE c \notin transitNodesOfCells
        <5>1. PICK b \in cells : c = <<b[1], b[2], v>>
          BY <2>1, <3>3, <4>2
        <5> QED BY <3>1, <3>2, <5>1
      <4> QED BY <4>1, <4>2
    <3> QED BY <3>3 DEF Serving
  <2>9. Results'
    BY <1>2, <2>4, <2>7, <2>8, <2>10 DEF Results
  <2> QED BY <1>5, <1>6, <2>9 DEF TypeInv
<1> QED BY <1>2, <1>7, <1>8

LEMMA AssignDistancesKeeps == TypeInv /\ AssignDistances => TypeInv'
<1> SUFFICES ASSUME TypeInv, AssignDistances PROVE TypeInv'
  OBVIOUS
<1>1. Progress /\ Passing /\ Results
  BY DEF TypeInv
<1> DEFINE near == tables.distancesToNearest
           found == {k \in Nodes \X (transitNodeTmp \cap DOMAIN near) :
                       near[k[2]][k[1]] < MaxInt /\ HasTransitNode(k[1], k[2])}
           new == [k \in found |-> near[k[2]][k[1]]]
<1>2. /\ phase = "find" /\ pairs = {} /\ localTransitNodes' = Overlay(new, localTransitNodes)
      /\ tables' = NewTables /\ line' = line + 1
      /\ UNCHANGED <<graph, edgeBuckets, pairs>>
      /\ UNCHANGED <<transitNodeTmp, transitNodesOfCells, tnData>>
      /\ \/ line + 1 < 2 * GridSize /\ phase' = "sweep"
            /\ todo' = SweepNodes(graph, edgeBuckets, Axis(line + 1), (line + 1) % GridSize)
         \/ ~(line + 1 < 2 * GridSize) /\ phase' = "collect" /\ todo' = todo
  BY DEF AssignDistances
<1>3. Progress'
  BY <1>1, <1>2, GridSizeAssumption DEF Progress
<1>4. todo' \in Seq(Swept(graph, line')) /\ (phase' # "sweep" => todo' = << >>)
  <2>1. CASE line + 1 < 2 * GridSize
    <3>1. line + 1 \in Nat /\ graph \in Networks /\ edgeBuckets = EdgeBuckets(graph)
      BY <1>1, <1>2 DEF Progress
    <3> QED BY <1>2, <2>1, <3>1, SweptFacts
  <2>2. CASE ~(line + 1 < 2 * GridSize)
    <3>1. todo' = << >>
      BY <1>1, <1>2, <2>2 DEF Passing
    <3> QED BY <3>1
  <2> QED BY <2>1, <2>2
<1>5. Passing'
  <2>1. TablesTyped(graph, NewTables) /\ Kept(graph, line', NewTables)
    BY NewTablesTyped, NewTablesKept
  <2> QED BY <1>2, <1>4, <2>1 DEF Passing
<1>6. DOMAIN localTransitNodes' = found \cup DOMAIN localTransitNodes
  BY <1>2 DEF Overlay
<1>7. DOMAIN localTransitNodes' \subseteq Nodes \X transitNodeTmp
  BY <1>1, <1>6 DEF Results
<1>8. StoredBySearches(graph, transitNodesOfCells, localTransitNodes')
  <2>1. ASSUME NEW k \in DOMAIN localTransitNodes'
        PROVE  /\ localTransitNodes'[k] < MaxInt
               /\ <<graph.cellX[k[1]], graph.cellY[k[1]], k[2]>> \in transitNodesOfCells
               /\ \E l \in SweepLines : \E x \in Swept(graph, l) :
                    x.v = k[2] /\ localTransitNodes'[k] = LocalDistances(graph, k[2], x.pos)[k[1]]
    <3>1. CASE k \in found
      <4>1. localTransitNodes'[k] = near[k[2]][k[1]]
        BY <1>2, <2>1, <3>1 DEF Overlay
      <4>2. k[2] \in DOMAIN near /\ near[k[2]][k[1]] < MaxInt /\ HasTransitNode(k[1], k[2])
        BY <3>1
      <4>3. PICK x \in Swept(graph, line) : x.v = k[2] /\ near[k[2]] = LocalDistances(graph, k[2], x.pos)
        BY <1>1, <4>2 DEF Passing, Kept
      <4>4. line \in SweepLines
        BY <1>1, <1>2, GridSizeAssumption DEF Progress, SweepLines
      <4> QED BY <4>1, <4>2, <4>3, <4>4 DEF HasTransitNode
    <3>2. CASE k \notin found
      <4>1. k \in DOMAIN localTransitNodes
        BY <1>6, <2>1, <3>2
      <4>2. localTransitNodes'[k] = localTransitNodes[k]
        BY <1>2, <2>1, <3>2 DEF Overlay
      <4> QED BY <1>1, <4>1, <4>2 DEF Results, StoredBySearches
    <3> QED BY <3>1, <3>2
  <2> QED BY <2>1 DEF StoredBySearches
<1>9. Results'
  BY <1>1, <1>2, <1>7, <1>8 DEF Results
<1> QED BY <1>3, <1>5, <1>9 DEF TypeInv

LEMMA CollectKeeps == TypeInv /\ Collect => TypeInv'
<1> SUFFICES ASSUME TypeInv, Collect PROVE TypeInv'
  OBVIOUS
<1>1. Progress /\ Passing /\ Results
  BY DEF TypeInv
<1>2. /\ phase = "collect" /\ phase' = "done" /\ tnData'.cells = transitNodesOfCells
      /\ UNCHANGED <<graph, edgeBuckets, line, todo, tables, pairs>>
      /\ UNCHANGED <<transitNodeTmp, transitNodesOfCells, localTransitNodes>>
  BY DEF Collect
<1>3. Progress'
  BY <1>1, <1>2 DEF Progress
<1>4. Passing'
  BY <1>1, <1>2 DEF Passing
<1>5. Results'
  BY <1>1, <1>2 DEF Results
<1> QED BY <1>3, <1>4, <1>5 DEF TypeInv

LEMMA TypeInvHolds == Spec => []TypeInv
<1>1. TypeInv /\ [Next]_vars => TypeInv'
  <2> SUFFICES ASSUME TypeInv, [Next]_vars PROVE TypeInv'
    OBVIOUS
  <2>1. CASE Done \/ UNCHANGED vars
    BY <2>1 DEF Done, vars, TypeInv, Progress, Passing, Results
  <2> QED BY <2>1, BucketsKeep, SweepNodeKeeps, SweepDoneKeeps, FindTransitNodeKeeps,
             AssignDistancesKeeps, CollectKeeps DEF Next
<1> QED BY <1>1, TypeInvInit, PTL DEF Spec

\* The preprocessing keeps its types (TransitNodesRouting.cpp:5-40): cells stay in the
\* grid also where a column is taken modulo its size, what is met and made a transit node
\* is a node, and the tables have entries for the transit nodes of the cells only.
THEOREM TypeCorrect == Spec => []TypeOK
<1>1. TypeInv => TypeOK
  <2> SUFFICES ASSUME Progress, Passing, Results PROVE TypeOK
    BY DEF TypeInv
  <2>1. line \in 0 .. 2 * GridSize
    BY GridSizeAssumption DEF Progress
  <2>2. \A j \in DOMAIN todo : todo[j].v \in Nodes
    <3>1. Swept(graph, line) \subseteq Met
      BY SweptFacts DEF Progress
    <3>2. \A j \in DOMAIN todo : todo[j] \in Swept(graph, line)
      BY DEF Passing
    <3> QED BY <3>1, <3>2 DEF Met
  <2>3. pairs \subseteq Nodes \X Nodes
    <3>1. "negative" \in Sides /\ "positive" \in Sides
      BY DEF Sides
    <3>2. \A side \in Sides : tables.first[side] \in Partial(Nodes, Int)
      BY DEF Passing, TablesTyped, TableRecords
    <3>3. \A side \in Sides : DOMAIN tables.first[side] \subseteq Nodes
      BY <3>2, PartialFacts
    <3> QED BY <3>1, <3>3 DEF Passing
  <2> QED BY <2>1, <2>2, <2>3 DEF TypeOK, Progress, Results
<1> QED BY <1>1, TypeInvHolds, PTL

-----------------------------------------------------------------------------
LEMMA Remainders ==
  ASSUME NEW x \in 0 .. 2 * GridSize - 1
  PROVE  x % GridSize = IF x < GridSize THEN x ELSE x - GridSize
BY GridSizeAssumption

LEMMA LesserOfTwo ==
  ASSUME NEW a \in Int, NEW b \in Int, NEW default
  PROVE  LeastOf({a, b}, default) = IF a <= b THEN a ELSE b
<1> DEFINE m == IF a <= b THEN a ELSE b
<1>1. m \in {a, b} /\ \A y \in {a, b} : m <= y
  OBVIOUS
<1>2. \A x \in {a, b} : (\A y \in {a, b} : x <= y) => x = m
  OBVIOUS
<1> HIDE DEF m
<1>3. LeastOf({a, b}, default) = m
  BY <1>1, <1>2 DEF LeastOf
<1> QED BY <1>3 DEF m

LEMMA CrossingsFiled ==
  ASSUME graph \in Networks, PlainCrossings(graph), NEW e \in Edges(graph), NEW x \in ColumnBorders(e)
  PROVE  x \in VerticalLines(graph, e)
<1> DEFINE a == graph.cellX[graph.sources[e]]
           b == graph.cellX[graph.targets[e]]
           lo == IF a <= b THEN a ELSE b
           hi == IF a > b THEN a ELSE b
           half == GridSize \div 2
           eastward == (b - a + GridSize) % GridSize
<1>1. a \in 0 .. GridSize - 1 /\ b \in 0 .. GridSize - 1 /\ GridSize \in Nat \ {0}
  <2>1. IsGraph(graph) /\ HasCells(graph)
    BY NetworksAssumption
  <2>2. graph.sources[e] \in Nodes /\ graph.targets[e] \in Nodes
    BY <2>1, EdgeFacts
  <2> QED BY <2>1, <2>2, GridSizeAssumption DEF HasCells, Columns
<1>2. \/ 2 * (hi - lo) < GridSize
      \/ 2 * (hi - lo) > GridSize /\ hi = GridSize - 1
  <2>1. \/ 2 * Apart(a, b) < GridSize
        \/ 2 * Apart(a, b) > GridSize /\ GridSize - 1 \in {a, b}
    BY DEF PlainCrossings
  <2>2. Apart(a, b) = hi - lo
    BY <1>1 DEF Apart
  <2> QED BY <1>1, <2>1, <2>2
<1>3. half \in Nat /\ (2 * half = GridSize \/ 2 * half = GridSize - 1)
  BY <1>1
<1>4. eastward = IF a <= b THEN b - a ELSE b - a + GridSize
  <2> DEFINE z == b - a + GridSize
  <2>1. z \in 0 .. 2 * GridSize - 1 /\ (z < GridSize <=> ~(a <= b)) /\ z - GridSize = b - a
    BY <1>1
  <2> HIDE DEF z
  <2>2. z % GridSize = IF z < GridSize THEN z ELSE z - GridSize
    BY <2>1, Remainders
  <2> QED BY <2>1, <2>2 DEF z
<1>5. x \in IF eastward <= half THEN {(a + k) % GridSize : k \in 1 .. eastward}
                               ELSE {(b + k) % GridSize : k \in 1 .. GridSize - eastward}
  BY DEF ColumnBorders
<1>6. VerticalLines(graph, e) = IF hi - lo > half
                               THEN {y % GridSize : y \in (hi + 1) % GridSize .. lo}
                               ELSE {y % GridSize : y \in lo + 1 .. hi}
  <2> DEFINE first == LeastOf({a, b}, a) + 1
             last == IF a > b THEN a + 1 ELSE b + 1
  <2>1. VerticalLines(graph, e) = IF last - first > half
                                 THEN {y % GridSize : y \in last % GridSize .. first - 1}
                                 ELSE {y % GridSize : y \in first .. last - 1}
    BY DEF VerticalLines
  <2>2. LeastOf({a, b}, a) = lo
    BY <1>1, LesserOfTwo
  <2>3. first = lo + 1 /\ last = hi + 1
    BY <2>2
  <2>4. last - first = hi - lo /\ first - 1 = lo /\ last - 1 = hi
    BY <1>1, <2>3
  <2> HIDE DEF first, last, lo, hi, half
  <2> QED BY <2>1, <2>3, <2>4
<1> HIDE DEF eastward, half
<1>7. PICK k \in 1 .. GridSize : \/ x = (a + k) % GridSize /\ k <= eastward /\ eastward <= half
                                 \/ x = (b + k) % GridSize /\ k <= GridSize - eastward /\ ~(eastward <= half)
  <2>1. eastward \in 0 .. GridSize - 1
    BY <1>1, <1>4
  <2>2. CASE eastward <= half
    <3>1. PICK k \in 1 .. eastward : x = (a + k) % GridSize
      BY <1>5, <2>2
    <3>2. k \in 1 .. GridSize /\ k <= eastward
      BY <1>1, <2>1
    <3> QED BY <2>2, <3>1, <3>2
  <2>3. CASE ~(eastward <= half)
    <3>1. PICK k \in 1 .. GridSize - eastward : x = (b + k) % GridSize
      BY <1>5, <2>3
    <3>2. k \in 1 .. GridSize /\ k <= GridSize - eastward
      BY <1>1, <2>1
    <3> QED BY <2>3, <3>1, <3>2
  <2> QED BY <2>2, <2>3
<1>8. ASSUME NEW y \in 0 .. GridSize - 1 PROVE y % GridSize = y
  BY <1>1, <1>8
<1>9. /\ (a + k) % GridSize = IF a + k < GridSize THEN a + k ELSE a + k - GridSize
      /\ (b + k) % GridSize = IF b + k < GridSize THEN b + k ELSE b + k - GridSize
  <2> DEFINE y == a + k
             z == b + k
  <2>1. y \in 0 .. 2 * GridSize - 1 /\ z \in 0 .. 2 * GridSize - 1
    BY <1>1
  <2> HIDE DEF y, z
  <2>2. /\ y % GridSize = IF y < GridSize THEN y ELSE y - GridSize
        /\ z % GridSize = IF z < GridSize THEN z ELSE z - GridSize
    BY <2>1, Remainders
  <2> QED BY <1>1, <2>2 DEF y, z
<1>10. CASE 2 * (hi - lo) < GridSize
  <2>1. ~(hi - lo > half)
    BY <1>1, <1>3, <1>10
  <2>2. x \in lo + 1 .. hi /\ x \in 0 .. GridSize - 1
    <3>1. CASE a <= b
      <4>1. eastward = b - a /\ lo = a /\ hi = b
        BY <1>1, <1>4, <3>1
      <4>2. eastward <= half
        BY <1>1, <1>3, <2>1, <4>1
      <4>3. x = a + k /\ k <= b - a
        BY <1>1, <1>7, <1>9, <4>1, <4>2
      <4> QED BY <1>1, <4>1, <4>3
    <3>2. CASE ~(a <= b)
      <4>1. eastward = b - a + GridSize /\ lo = b /\ hi = a
        BY <1>1, <1>4, <3>2
      <4>2. ~(eastward <= half)
        BY <1>1, <1>3, <1>10, <4>1
      <4>3. x = b + k /\ k <= a - b
        BY <1>1, <1>7, <1>9, <4>1, <4>2
      <4> QED BY <1>1, <4>1, <4>3
    <3> QED BY <3>1, <3>2
  <2>3. x % GridSize = x
    BY <1>8, <2>2
  <2> HIDE DEF lo, hi
  <2> QED BY <1>6, <2>1, <2>2, <2>3
<1>11. CASE 2 * (hi - lo) > GridSize /\ hi = GridSize - 1
  <2>1. hi - lo > half
    BY <1>1, <1>3, <1>11
  <2>2. x \in 0 .. lo /\ x \in 0 .. GridSize - 1
    <3>1. CASE a <= b
      <4>1. eastward = b - a /\ lo = a /\ hi = b
        BY <1>1, <1>4, <3>1
      <4>2. ~(eastward <= half)
        BY <1>1, <1>3, <1>11, <4>1
      <4>3. x = k - 1 /\ k <= GridSize - (b - a)
        BY <1>1, <1>7, <1>9, <1>11, <4>1, <4>2
      <4> QED BY <1>1, <1>11, <4>1, <4>3
    <3>2. CASE ~(a <= b)
      <4>1. eastward = b - a + GridSize /\ lo = b /\ hi = a
        BY <1>1, <1>4, <3>2
      <4>2. eastward <= half
        BY <1>1, <1>3, <1>11, <4>1
      <4>3. x = k - 1 /\ k <= b - a + GridSize
        BY <1>1, <1>7, <1>9, <1>11, <4>1, <4>2
      <4> QED BY <1>1, <1>11, <4>1, <4>3
    <3> QED BY <3>1, <3>2
  <2>3. x % GridSize = x
    BY <1>8, <2>2
  <2>4. (hi + 1) % GridSize = 0
    <3> DEFINE z == hi + 1
    <3>1. z = GridSize /\ z \in 0 .. 2 * GridSize - 1
      BY <1>1, <1>11
    <3> HIDE DEF z
    <3>2. z % GridSize = z - GridSize
      BY <1>1, <3>1, Remainders
    <3> QED BY <1>1, <3>1, <3>2 DEF z
  <2> HIDE DEF lo, hi
  <2> QED BY <1>6, <2>1, <2>2, <2>3, <2>4
<1> QED BY <1>2, <1>10, <1>11

\* Every column border an edge crosses has the edge in one of its buckets
\* (TransitNodesRouting.cpp:194-205), whatever the network and the grid, as long as no
\* edge spans half the globe or starts over the antimeridian before the last column.
THEOREM CrossingsInBuckets ==
  ASSUME \A g \in Networks : PlainCrossings(g)
  PROVE  Spec => []AllCrossingsFiled
<1>1. TypeInv => AllCrossingsFiled
  <2> SUFFICES ASSUME TypeInv, phase # "buckets", NEW e \in Edges(graph), NEW x \in ColumnBorders(e)
               PROVE  \E c \in DOMAIN edgeBuckets["vertical"] :
                        /\ c[1] = x
                        /\ \E j \in DOMAIN edgeBuckets["vertical"][c] : edgeBuckets["vertical"][c][j] = e
    BY DEF AllCrossingsFiled
  <2> DEFINE c == <<x, VerticalRow(graph, e)>>
  <2>1. graph \in Networks /\ edgeBuckets = EdgeBuckets(graph) /\ "vertical" \in Axes
    BY DEF TypeInv, Progress, Axes
  <2>2. c \in Filed(graph, "vertical", e)
    BY <2>1, CrossingsFiled DEF Filed
  <2>3. c[1] = x
    OBVIOUS
  <2> HIDE DEF c
  <2>4. /\ c \in DOMAIN edgeBuckets["vertical"]
        /\ \E j \in DOMAIN edgeBuckets["vertical"][c] : edgeBuckets["vertical"][c][j] = e
    BY <2>1, <2>2, NetworksAssumption, FilingFacts
  <2> QED BY <2>3, <2>4
<1> QED BY <1>1, TypeInvHolds, PTL

-----------------------------------------------------------------------------
\* No stored distance is shorter than the way there, although each comes from a search
\* that is cut off (SingleTnPass.cpp:223) and a later line may supersede it
\* (SingleTnPass.cpp:322-344): what can go wrong with them is only that one is too long.
StoredNotShorter ==
  \A k \in DOMAIN localTransitNodes : localTransitNodes[k] >= TrueDistance(k[2], k[1])

THEOREM NeverStoredShorter ==
  ASSUME \A g \in Networks : Bounded(g)
  PROVE  Spec => []StoredNotShorter
<1>1. TypeInv => StoredNotShorter
  <2> SUFFICES ASSUME TypeInv, NEW k \in DOMAIN localTransitNodes
               PROVE  localTransitNodes[k] >= TrueDistance(k[2], k[1])
    BY DEF StoredNotShorter
  <2>1. IsGraph(graph) /\ Bounded(graph)
    BY NetworksAssumption DEF TypeInv, Progress
  <2>2. k[1] \in Nodes /\ k[2] \in Nodes
    BY DEF TypeInv, Results
  <2>3. PICK A \in SUBSET Nodes : localTransitNodes[k] = DistancesWithin(graph, k[2], A)[k[1]]
    <3>1. PICK pos : localTransitNodes[k] = LocalDistances(graph, k[2], pos)[k[1]]
      BY DEF TypeInv, Results, StoredBySearches
    <3>2. Region(graph, pos) \in SUBSET Nodes
      BY DEF Region
    <3> QED BY <3>1, <3>2 DEF LocalDistances
  <2> DEFINE found == DistancesWithin(graph, k[2], A)[k[1]]
             true == TrueDistance(k[2], k[1])
  <2>4. found \in Nat /\ true <= found
    BY <2>1, <2>2, NotNearerWithin DEF TrueDistance
  <2>5. true \in Nat
    BY <2>1, <2>2, DistanceFacts DEF TrueDistance
  <2> HIDE DEF found, true
  <2>6. found >= true
    BY <2>4, <2>5
  <2> QED BY <2>3, <2>6 DEF found, true
<1> QED BY <1>1, TypeInvHolds, PTL

-----------------------------------------------------------------------------
\* The tables at the end, from what was collected.
Collected ==
  LET needed == {k \in Nodes \X transitNodeTmp : HasTransitNode(k[1], k[2])}
  IN [ cells   |-> transitNodesOfCells,
       local   |-> [k \in needed |-> IF k \in DOMAIN localTransitNodes
                                     THEN localTransitNodes[k] ELSE Unset],
       between |-> [t \in transitNodeTmp |-> Distances(graph, t)] ]

\* The cells' transit nodes are transit nodes, and the result is what was collected.
TablesInv ==
  /\ graph \in Networks
  /\ \A c \in transitNodesOfCells : /\ c = <<c[1], c[2], c[3]>> /\ c[3] \in transitNodeTmp
  /\ phase = "done" => tnData = Collected

\* When the preprocessing has ended, the tables are what its closing functions make
\* of the transit nodes of the cells and of the stored distances
\* (TransitNodesRouting.cpp:42-88).
THEOREM TablesCollected == Spec => []TablesInv
<1>1. Init => TablesInv
  BY DEF Init, TablesInv
<1>2. TablesInv /\ [Next]_vars => TablesInv'
  <2> SUFFICES ASSUME TablesInv, [Next]_vars PROVE TablesInv'
    OBVIOUS
  <2> USE DEF TablesInv
  <2>1. CASE FindEdgeBuckets
    BY <2>1 DEF FindEdgeBuckets
  <2>2. CASE SweepNode
    BY <2>2 DEF SweepNode
  <2>3. CASE SweepDone
    BY <2>3 DEF SweepDone
  <2>4. CASE FindTransitNode
    <3>1. graph' = graph /\ phase = "find" /\ phase' = phase
      BY <2>4 DEF FindTransitNode
    <3>2. CASE UNCHANGED <<transitNodeTmp, transitNodesOfCells>>
      BY <3>1, <3>2
    <3>3. CASE \E v, C : /\ transitNodeTmp' = transitNodeTmp \cup {v}
                         /\ transitNodesOfCells' = transitNodesOfCells \cup {<<c[1], c[2], v>> : c \in C}
      BY <3>1, <3>3
    <3> QED
      <4> DEFINE p == CHOOSE x \in pairs : TRUE
                 C == CellsOf("negative", p[1]) \cup CellsOf("positive", p[2])
      <4>1. \/ UNCHANGED <<transitNodeTmp, transitNodesOfCells>>
            \/ \E v \in Nearest(p) :
                 /\ transitNodeTmp' = transitNodeTmp \cup {v}
                 /\ transitNodesOfCells' = transitNodesOfCells \cup {<<c[1], c[2], v>> : c \in C}
        BY <2>4, Zenon DEF FindTransitNode
      <4> HIDE DEF C
      <4> QED BY <3>2, <3>3, <4>1
  <2>5. CASE AssignDistances
    BY <2>5 DEF AssignDistances
  <2>6. CASE Collect
    <3>1. /\ UNCHANGED <<graph, transitNodeTmp, transitNodesOfCells, localTransitNodes>>
          /\ tnData' = Collected
      BY <2>6 DEF Collect, Collected
    <3>2. Collected' = Collected
      BY <3>1 DEF Collected, HasTransitNode
    <3> QED BY <3>1, <3>2
  <2>7. CASE UNCHANGED vars
    <3>1. UNCHANGED <<graph, phase, transitNodeTmp, transitNodesOfCells, localTransitNodes, tnData>>
      BY <2>7 DEF vars
    <3>2. Collected' = Collected
      BY <3>1 DEF Collected, HasTransitNode
    <3> QED BY <3>1, <3>2
  <2> QED BY <2>1, <2>2, <2>3, <2>4, <2>5, <2>6, <2>7 DEF Next, Done
<1> QED BY <1>1, <1>2, PTL DEF Spec

-----------------------------------------------------------------------------
\* Each search around a node v is cut off outside a cross of seven columns and rows
\* (SingleTnPass.cpp:223), and a cell may get v from another line than its distances
\* (SingleTnPass.cpp:322-344): what is stored is the distance in the whole network all
\* the same, on every network on which the searches suffice.
THEOREM StoredExact ==
  ASSUME \A g \in Networks : SearchesSuffice(g)
  PROVE  Spec => []LocalDistancesExact
<1>1. TypeInv => LocalDistancesExact
  <2> SUFFICES ASSUME TypeInv, NEW v \in Nodes, NEW n \in Nodes, <<n, v>> \in DOMAIN localTransitNodes
               PROVE  localTransitNodes[<<n, v>>] = Distances(graph, v)[n]
    BY DEF LocalDistancesExact
  <2> DEFINE k == <<n, v>>
             cell == <<graph.cellX[n], graph.cellY[n]>>
             c == <<graph.cellX[n], graph.cellY[n], v>>
  <2>1. graph \in Networks
    BY DEF TypeInv, Progress
  <2>2. localTransitNodes[k] < MaxInt /\ c \in transitNodesOfCells
    BY DEF TypeInv, Results, StoredBySearches
  <2>3. PICK l \in SweepLines : \E x \in Swept(graph, l) :
          x.v = v /\ localTransitNodes[k] = LocalDistances(graph, v, x.pos)[n]
    BY DEF TypeInv, Results, StoredBySearches
  <2>8. PICK x \in Swept(graph, l) :
          x.v = v /\ localTransitNodes[k] = LocalDistances(graph, v, x.pos)[n]
    BY <2>3
  <2>4. \E m \in SweepLines : \E y \in Swept(graph, m) :
          y.v = v /\ cell \in CellsServed(graph, m, y)
    <3>1. \E m \in SweepLines : \E y \in Swept(graph, m) :
            y.v = c[3] /\ <<c[1], c[2]>> \in CellsServed(graph, m, y)
      BY <2>2 DEF TypeInv, Results, Serving
    <3> QED BY <3>1
  <2>5. LocalDistances(graph, x.v, x.pos)[n] \in {Distances(graph, x.v)[n], MaxInt}
    BY <2>1, <2>8, <2>4 DEF SearchesSuffice
  <2> HIDE DEF k, c
  <2>6. localTransitNodes[k] # MaxInt
    BY <2>2, SizeAssumption
  <2>7. localTransitNodes[k] = Distances(graph, v)[n]
    BY <2>8, <2>5, <2>6
  <2> QED BY <2>7 DEF k
<1> QED BY <1>1, TypeInvHolds, PTL

\* When the distances stored are right, two lines that store one for the same node and
\* transit node store the same (TransitNodesRouting.cpp:69).
LEMMA SameDistanceTwice == Spec /\ []LocalDistancesExact => DuplicatesAgree
<1> DEFINE Same == \A k \in DOMAIN localTransitNodes : localTransitNodes'[k] = localTransitNodes[k]
           Typed == DOMAIN localTransitNodes \subseteq Nodes \X Nodes
<1>1. ASSUME Typed, LocalDistancesExact, LocalDistancesExact', [Next]_vars PROVE [Same]_vars
  <2>1. CASE localTransitNodes' = localTransitNodes
    BY <2>1
  <2>2. CASE AssignDistances
    <3>1. graph' = graph /\ DOMAIN localTransitNodes \subseteq DOMAIN localTransitNodes'
      BY <2>2 DEF AssignDistances, Overlay
    <3>2. ASSUME NEW k \in DOMAIN localTransitNodes PROVE localTransitNodes'[k] = localTransitNodes[k]
      <4>1. PICK n \in Nodes, v \in Nodes : k = <<n, v>>
        BY <1>1, <3>2
      <4>2. localTransitNodes[<<n, v>>] = Distances(graph, v)[n]
        BY <1>1, <3>2, <4>1 DEF LocalDistancesExact
      <4>3. localTransitNodes'[<<n, v>>] = Distances(graph', v)[n]
        BY <1>1, <3>1, <3>2, <4>1 DEF LocalDistancesExact
      <4> QED BY <3>1, <4>1, <4>2, <4>3
    <3> QED BY <3>2
  <2>3. CASE FindEdgeBuckets \/ SweepNode \/ SweepDone \/ FindTransitNode \/ Collect \/ Done \/ UNCHANGED vars
    <3>1. localTransitNodes' = localTransitNodes
      BY <2>3 DEF FindEdgeBuckets, SweepNode, SweepDone, FindTransitNode, Collect, Done, vars
    <3> QED BY <2>1, <3>1
  <2> QED BY <1>1, <2>2, <2>3 DEF Next
<1>2. TypeInv => Typed
  BY DEF TypeInv, Results
<1> QED BY <1>1, <1>2, TypeInvHolds, PTL DEF Spec, DuplicatesAgree

\* Two lines may each store a distance for one node and one transit node, and the last
\* one is used (TransitNodesRouting.cpp:69): they are the same.
THEOREM StoredTwiceAgree ==
  ASSUME \A g \in Networks : SearchesSuffice(g)
  PROVE  Spec => DuplicatesAgree
<1>1. Spec => []LocalDistancesExact
  BY StoredExact
<1> QED BY <1>1, SameDistanceTwice, PTL

\* The pass under way has searched around the transit node of c and serves its cell.
Pending(c) ==
  /\ phase = "find" /\ c[3] \in DOMAIN tables.distancesToNearest
  /\ \E x \in Swept(graph, line) : x.v = c[3] /\ <<c[1], c[2]>> \in CellsServed(graph, line, x)

\* Until its line is finished the distances of a new transit node of a cell are among
\* those of the pass; from then on they are stored.
NoneMissing ==
  \A c \in transitNodesOfCells : \A n \in Nodes :
    c[1] = graph.cellX[n] /\ c[2] = graph.cellY[n] =>
      Pending(c) \/ <<n, c[3]>> \in DOMAIN localTransitNodes \/ Distances(graph, c[3])[n] = MaxInt

LEMMA NoneMissingKept ==
  ASSUME SearchesSuffice(graph), Bounded(graph), TypeInv, NoneMissing, [Next]_vars
  PROVE  NoneMissing'
<1>1. Progress /\ Passing /\ Results
  BY DEF TypeInv
<1>2. CASE /\ phase # "find"
           /\ UNCHANGED <<graph, transitNodesOfCells, localTransitNodes>>
  BY <1>2 DEF NoneMissing, Pending
<1>3. CASE FindEdgeBuckets \/ SweepNode \/ SweepDone \/ Collect
  BY <1>2, <1>3 DEF FindEdgeBuckets, SweepNode, SweepDone, Collect
<1>4. CASE UNCHANGED <<graph, phase, line, tables, transitNodesOfCells, localTransitNodes>>
  BY <1>4 DEF NoneMissing, Pending
<1>5. CASE Done \/ UNCHANGED vars
  BY <1>4, <1>5 DEF Done, vars
<1>6. CASE FindTransitNode
  <2> DEFINE p == CHOOSE x \in pairs : TRUE
             cells == CellsOf("negative", p[1]) \cup CellsOf("positive", p[2])
  <2>1. /\ phase = "find" /\ pairs # {}
        /\ UNCHANGED <<graph, phase, line, tables, localTransitNodes>>
        /\ \/ transitNodesOfCells' = transitNodesOfCells
           \/ \E v \in Nearest(p) :
                transitNodesOfCells' = transitNodesOfCells \cup {<<c[1], c[2], v>> : c \in cells}
    BY <1>6 DEF FindTransitNode
  <2>2. CASE transitNodesOfCells' = transitNodesOfCells
    BY <1>4, <2>1, <2>2
  <2>3. ASSUME NEW v \in Nearest(p),
               transitNodesOfCells' = transitNodesOfCells \cup {<<c[1], c[2], v>> : c \in cells}
        PROVE  NoneMissing'
    <3>1. p \in pairs
      BY <2>1
    <3> HIDE DEF p
    <3>2. p[1] \in DOMAIN tables.first["negative"] /\ p[2] \in DOMAIN tables.first["positive"]
      BY <1>1, <3>1 DEF Passing
    <3>3. v \in DOMAIN tables.distancesToNearest
      BY <2>3 DEF Nearest, Common
    <3>4. \A b \in cells : \E x \in Swept(graph, line) :
            x.v = v /\ <<b[1], b[2]>> \in CellsServed(graph, line, x)
      BY <1>1, <2>3, <3>2, FoundCellsServed
    <3> HIDE DEF cells
    <3>5. ASSUME NEW c \in transitNodesOfCells', NEW n \in Nodes,
                 c[1] = graph.cellX[n], c[2] = graph.cellY[n]
          PROVE  Pending(c) \/ <<n, c[3]>> \in DOMAIN localTransitNodes \/ Distances(graph, c[3])[n] = MaxInt
      <4>1. CASE c \in transitNodesOfCells
        BY <3>5, <4>1 DEF NoneMissing
      <4>2. CASE c \notin transitNodesOfCells
        <5>1. PICK b \in cells : c = <<b[1], b[2], v>>
          BY <2>3, <3>5, <4>2
        <5> QED BY <2>1, <3>3, <3>4, <5>1 DEF Pending
      <4> QED BY <4>1, <4>2
    <3> QED BY <2>1, <3>5 DEF NoneMissing, Pending
  <2> QED BY <2>1, <2>2, <2>3
<1>7. CASE AssignDistances
  <2> DEFINE near == tables.distancesToNearest
             found == {k \in Nodes \X (transitNodeTmp \cap DOMAIN near) :
                         near[k[2]][k[1]] < MaxInt /\ HasTransitNode(k[1], k[2])}
             new == [k \in found |-> near[k[2]][k[1]]]
  <2>1. /\ phase = "find" /\ graph' = graph /\ transitNodesOfCells' = transitNodesOfCells
        /\ localTransitNodes' = Overlay(new, localTransitNodes)
    BY <1>7 DEF AssignDistances
  <2>2. DOMAIN localTransitNodes' = found \cup DOMAIN localTransitNodes
    BY <2>1 DEF Overlay
  <2>3. ASSUME NEW c \in transitNodesOfCells, NEW n \in Nodes,
               c[1] = graph.cellX[n], c[2] = graph.cellY[n]
        PROVE  <<n, c[3]>> \in DOMAIN localTransitNodes' \/ Distances(graph, c[3])[n] = MaxInt
    <3>1. CASE Pending(c)
      <4> DEFINE v == c[3]
      <4>1. PICK x \in Swept(graph, line) : x.v = v /\ near[v] = LocalDistances(graph, v, x.pos)
        BY <1>1, <3>1 DEF Passing, Kept, Pending
      <4>2. PICK y \in Swept(graph, line) : y.v = v /\ <<c[1], c[2]>> \in CellsServed(graph, line, y)
        BY <3>1 DEF Pending
      <4>3. x = y /\ line \in SweepLines
        BY <1>1, <2>1, <4>1, <4>2, SweptFacts, GridSizeAssumption DEF Progress, SweepLines
      <4>4. near[v][n] = Distances(graph, v)[n]
        BY <2>3, <4>1, <4>2, <4>3 DEF SearchesSuffice
      <4>5. c = <<c[1], c[2], c[3]>> /\ v \in transitNodeTmp /\ v \in Nodes
        BY <1>1 DEF Results
      <4>6. Distances(graph, v)[n] \in 0 .. MaxInt
        BY <1>1, <4>5, NetworksAssumption, DistanceFacts DEF Progress
      <4>7. HasTransitNode(n, v) /\ v \in DOMAIN near
        BY <2>3, <3>1, <4>5 DEF HasTransitNode, Pending
      <4>8. ASSUME Distances(graph, v)[n] # MaxInt PROVE <<n, v>> \in found
        <5>1. near[v][n] < MaxInt
          BY <4>4, <4>6, <4>8, SizeAssumption
        <5> HIDE DEF near, v
        <5> QED BY <4>5, <4>7, <5>1
      <4> QED BY <2>2, <4>8
    <3>2. CASE ~Pending(c)
      BY <2>2, <2>3, <3>2 DEF NoneMissing
    <3> QED BY <3>1, <3>2
  <2> QED BY <2>1, <2>3 DEF NoneMissing
<1> QED BY <1>3, <1>5, <1>6, <1>7 DEF Next

\* A transit node is added to a cell by one line and its distances come from the searches
\* of the lines it lies on (SingleTnPass.cpp:322-344).  After the last line none is left
\* unknown (TransitNodesRouting.cpp:66) to a node of the cell that can reach it, on every
\* network on which the searches suffice and no distance is the one for "unknown".
THEOREM NoneLeftUnknown ==
  ASSUME \A g \in Networks : /\ SearchesSuffice(g) /\ Bounded(g)
                             /\ \A u, v \in Nodes : Distances(g, u)[v] # Unset
  PROVE  Spec => []LocalDistancesComplete
<1>1. Init => NoneMissing
  BY DEF Init, NoneMissing
<1>2. TypeInv /\ NoneMissing /\ [Next]_vars => NoneMissing'
  BY NoneMissingKept DEF TypeInv, Progress
<1>3. TypeInv /\ NoneMissing /\ TablesInv /\ LocalDistancesExact => LocalDistancesComplete
  <2> SUFFICES ASSUME TypeInv, NoneMissing, TablesInv, LocalDistancesExact, phase = "done",
                      NEW k \in DOMAIN tnData.local, tnData.local[k] = Unset
               PROVE  TrueDistance(k[2], k[1]) = MaxInt
    BY DEF LocalDistancesComplete
  <2> DEFINE needed == {x \in Nodes \X transitNodeTmp : HasTransitNode(x[1], x[2])}
  <2>1. tnData.local = [x \in needed |-> IF x \in DOMAIN localTransitNodes
                                         THEN localTransitNodes[x] ELSE Unset]
    BY DEF TablesInv, Collected
  <2>2. k \in needed
    BY <2>1
  <2>3. /\ k[1] \in Nodes /\ k[2] \in Nodes /\ k = <<k[1], k[2]>>
        /\ <<graph.cellX[k[1]], graph.cellY[k[1]], k[2]>> \in transitNodesOfCells
    BY <2>2 DEF HasTransitNode, TypeInv, Results
  <2> HIDE DEF needed
  <2>4. k \notin DOMAIN localTransitNodes
    <3>1. graph \in Networks
      BY DEF TypeInv, Progress
    <3>2. k \in DOMAIN localTransitNodes => Unset = Distances(graph, k[2])[k[1]]
      <4> DEFINE n == k[1]
                 v == k[2]
      <4>1. n \in Nodes /\ v \in Nodes /\ k = <<n, v>>
        BY <2>3
      <4> HIDE DEF n, v
      <4>2. k \in DOMAIN localTransitNodes => localTransitNodes[k] = Distances(graph, v)[n]
        BY <2>1, <4>1 DEF LocalDistancesExact
      <4>3. k \in DOMAIN localTransitNodes => localTransitNodes[k] = Unset
        BY <2>1, <2>2
      <4> QED BY <4>2, <4>3 DEF n, v
    <3> QED BY <2>3, <3>1, <3>2
  <2>5. Pending(<<graph.cellX[k[1]], graph.cellY[k[1]], k[2]>>)
          \/ Distances(graph, k[2])[k[1]] = MaxInt
    <3> DEFINE c == <<graph.cellX[k[1]], graph.cellY[k[1]], k[2]>>
    <3>1. c \in transitNodesOfCells /\ c[1] = graph.cellX[k[1]] /\ c[2] = graph.cellY[k[1]] /\ c[3] = k[2]
      BY <2>3
    <3> HIDE DEF c
    <3>2. Pending(c) \/ <<k[1], c[3]>> \in DOMAIN localTransitNodes \/ Distances(graph, c[3])[k[1]] = MaxInt
      BY <2>3, <3>1 DEF NoneMissing
    <3>3. <<k[1], c[3]>> \notin DOMAIN localTransitNodes
      BY <2>3, <2>4, <3>1
    <3>4. Pending(c) \/ Distances(graph, k[2])[k[1]] = MaxInt
      BY <3>1, <3>2, <3>3
    <3> QED BY <3>4 DEF c
  <2> QED BY <2>5 DEF Pending, TrueDistance
<1>4. Spec => []LocalDistancesExact
  BY StoredExact
<1> QED BY <1>1, <1>2, <1>3, <1>4, TypeInvHolds, TablesCollected, PTL DEF Spec

-----------------------------------------------------------------------------
(***************************************************************************)
(* What a line does depends on the network alone, but for the choice among *)
(* equally near nodes (module LineMeetings).                               *)
(***************************************************************************)
\* Sum and Nearest, of tables t.
SumIn(t, p, v) == IntAdd(t.distanceToV[<<"negative", p[1], v>>], t.distanceToV[<<"positive", p[2], v>>])
NearestIn(t, p) ==
  {v \in CommonIn(t, p) : SumIn(t, p, v) < Unset /\ \A w \in CommonIn(t, p) : SumIn(t, p, v) <= SumIn(t, p, w)}

LEMMA PassFacts ==
  ASSUME NEW g \in Networks, NEW l \in Nat
  PROVE  /\ Len(LineNodes(g, l)) \in Nat
         /\ Pass(g, l)[0] = NewTables
         /\ \A k \in 1 .. Len(LineNodes(g, l)) :
              Pass(g, l)[k] =
                ProcessSingleNode(g, EdgeBuckets(g), Axis(l), LineNodes(g, l)[k], Pass(g, l)[k - 1])
         /\ TablesTyped(g, Passed(g, l)) /\ Kept(g, l, Passed(g, l))
<1> DEFINE q == LineNodes(g, l)
           L == Len(q)
           S == {y \in TableRecords(g) : TablesTyped(g, y) /\ Kept(g, l, y)}
           do(y, x) == ProcessSingleNode(g, EdgeBuckets(g), Axis(l), x, y)
           step == [x \in (1 .. L) \X S |-> do(x[2], q[x[1]])]
           body(f) == [k \in 0 .. L |-> IF k = 0 THEN NewTables ELSE do(f[k - 1], q[k])]
           after[k \in 0 .. L] == IF k = 0 THEN NewTables ELSE do(after[k - 1], q[k])
<1>1. q \in Seq(Swept(g, l)) /\ Swept(g, l) \subseteq Met /\ IsGraph(g)
  BY SweptFacts, NetworksAssumption DEF LineNodes
<1>0. Pass(g, l) = after
  BY DEF Pass, after
<1> HIDE DEF q
<1>2. L \in Nat /\ \A k \in 1 .. L : q[k] \in Swept(g, l) /\ q[k] \in Met
  BY <1>1
<1>3. NewTables \in S
  <2>1. TablesTyped(g, NewTables) /\ Kept(g, l, NewTables)
    BY NewTablesTyped, NewTablesKept
  <2> QED BY <2>1 DEF TablesTyped
<1>4. \A y \in S : \A k \in 1 .. L : do(y, q[k]) \in S
  <2>1. ASSUME NEW y \in S, NEW k \in 1 .. L PROVE do(y, q[k]) \in S
    <3> DEFINE x == q[k]
               done == do(y, x)
    <3>1. TablesTyped(g, y) /\ Kept(g, l, y) /\ x \in Swept(g, l) /\ x \in Met
      BY <1>2
    <3> HIDE DEF x
    <3>2. TablesTyped(g, done) /\ Kept(g, l, done)
      BY <1>1, <3>1, ProcessFacts
    <3>3. done \in S
      BY <3>2 DEF TablesTyped
    <3> QED BY <3>3 DEF x
  <2> QED BY <2>1
<1> HIDE DEF S, L, do
<1>5. step \in [(1 .. L) \X S -> S]
  BY <1>4
<1>6. PICK f \in [0 .. L -> S] : Follows(f, L, NewTables, step)
  <2> HIDE DEF step
  <2> QED BY <1>2, <1>3, <1>5, Stepwise
<1>7. f = body(f)
  <2>1. ASSUME NEW k \in 0 .. L PROVE f[k] = IF k = 0 THEN NewTables ELSE do(f[k - 1], q[k])
    <3>1. CASE k = 0
      BY <1>6, <3>1 DEF Follows
    <3>2. CASE k # 0
      <4>1. k \in 1 .. L /\ k - 1 \in 0 .. L
        BY <1>2, <3>2
      <4>2. f[k] = step[<<k, f[k - 1]>>] /\ <<k, f[k - 1]>> \in (1 .. L) \X S
        BY <1>6, <4>1 DEF Follows
      <4> QED BY <3>2, <4>2
    <3> QED BY <3>1, <3>2
  <2> QED BY <1>6, <2>1
<1>8. after = body(after)
  BY <1>7
<1> HIDE DEF after
<1>9. after[0] = NewTables /\ \A k \in 1 .. L : after[k] = do(after[k - 1], q[k])
  <2>1. 0 \in 0 .. L /\ \A k \in 1 .. L : k \in 0 .. L /\ k # 0
    BY <1>2
  <2> QED BY <1>8, <2>1
<1> DEFINE K == {k \in Nat : k <= L => after[k] \in S}
<1>10. 0 \in K
  BY <1>3, <1>9
<1>11. ASSUME NEW k \in Nat, k \in K PROVE k + 1 \in K
  <2> SUFFICES ASSUME k + 1 <= L PROVE after[k + 1] \in S
    OBVIOUS
  <2>1. k + 1 \in 1 .. L /\ (k + 1) - 1 = k /\ after[k] \in S
    BY <1>2, <1>11
  <2> QED BY <1>4, <1>9, <2>1
<1> HIDE DEF K
<1>12. after[L] \in S
  <2>1. Nat \subseteq K
    BY <1>10, <1>11, Induction
  <2> QED BY <1>2, <2>1 DEF K
<1>13. Passed(g, l) = after[L]
  BY <1>0 DEF Passed, L, q
<1>14. TablesTyped(g, Passed(g, l)) /\ Kept(g, l, Passed(g, l))
  BY <1>12, <1>13 DEF S
<1>15. \A k \in 1 .. L : after[k] =
         ProcessSingleNode(g, EdgeBuckets(g), Axis(l), q[k], after[k - 1])
  BY <1>9 DEF do
<1> QED BY <1>0, <1>2, <1>9, <1>14, <1>15 DEF q, L

\* The tables under way are those of the pass, as far as it has got ...
InPass ==
  /\ phase = "buckets" => tables = NewTables
  /\ phase = "sweep" => \E k \in 0 .. Len(LineNodes(graph, line)) :
       /\ Len(todo) = Len(LineNodes(graph, line)) - k
       /\ \A j \in 1 .. Len(todo) : todo[j] = LineNodes(graph, line)[k + j]
       /\ tables = Pass(graph, line)[k]
  /\ phase = "find" => tables = Passed(graph, line)

\* ... and every pair compared, unless no node of the line connects it, has given its
\* cells a node that connects it best.
Taken(g, l, p, cells) ==
  \/ NearestIn(Passed(g, l), p) = {}
  \/ \E v \in NearestIn(Passed(g, l), p) : \A c \in CellsOfPair(g, l, Passed(g, l), p) : <<c[1], c[2], v>> \in cells

AllTaken ==
  \A l \in SweepLines : \A p \in PairsOf(Passed(graph, l)) :
    l < line \/ (l = line /\ phase = "find" /\ p \notin pairs) => Taken(graph, l, p, transitNodesOfCells)

LEMMA InPassKept ==
  ASSUME TypeInv, InPass, [Next]_vars
  PROVE  InPass'
<1>1. Progress /\ Passing
  BY DEF TypeInv
<1>2. graph \in Networks /\ line \in Nat
  BY <1>1 DEF Progress
<1>3. ASSUME NEW l \in Nat
      PROVE  /\ Len(LineNodes(graph, l)) \in Nat
             /\ Pass(graph, l)[0] = NewTables
             /\ \A k \in 1 .. Len(LineNodes(graph, l)) :
                  Pass(graph, l)[k] = ProcessSingleNode(graph, EdgeBuckets(graph), Axis(l),
                                                        LineNodes(graph, l)[k], Pass(graph, l)[k - 1])
  BY <1>2, PassFacts
<1>4. ASSUME graph' = graph, phase' = "sweep", line' \in Nat,
             todo' = LineNodes(graph, line'), tables' = NewTables
      PROVE  InPass'
  <2> DEFINE q == LineNodes(graph, line')
  <2>3. Len(q) \in Nat /\ Pass(graph, line')[0] = NewTables
    BY <1>3, <1>4
  <2>4. todo' = q /\ tables' = Pass(graph, line')[0]
    BY <1>4, <2>3
  <2> HIDE DEF q
  <2>5. 0 \in 0 .. Len(q) /\ Len(q) - 0 = Len(q) /\ \A j \in 1 .. Len(q) : 0 + j = j
    BY <2>3
  <2>6. \A j \in 1 .. Len(todo') : todo'[j] = q[0 + j]
    BY <2>4, <2>5
  <2>1. /\ 0 \in 0 .. Len(LineNodes(graph, line'))
        /\ Len(todo') = Len(LineNodes(graph, line')) - 0
        /\ \A j \in 1 .. Len(todo') : todo'[j] = LineNodes(graph, line')[0 + j]
        /\ tables' = Pass(graph, line')[0]
    BY <2>4, <2>5, <2>6 DEF q
  <2>2. \E k \in 0 .. Len(LineNodes(graph, line')) :
          /\ Len(todo') = Len(LineNodes(graph, line')) - k
          /\ \A j \in 1 .. Len(todo') : todo'[j] = LineNodes(graph, line')[k + j]
          /\ tables' = Pass(graph, line')[k]
    BY <2>1
  <2> QED BY <1>4, <2>2 DEF InPass
<1>5. CASE FindEdgeBuckets
  <2>1. /\ phase = "buckets" /\ phase' = "sweep" /\ edgeBuckets' = EdgeBuckets(graph)
        /\ todo' = SweepNodes(graph, edgeBuckets', Axis(0), 0)
        /\ graph' = graph /\ line' = line /\ tables' = tables
    BY <1>5 DEF FindEdgeBuckets
  <2>2. line = 0 /\ 0 % GridSize = 0
    BY <1>1, <2>1, GridSizeAssumption DEF Progress
  <2> QED BY <1>2, <1>4, <2>1, <2>2 DEF InPass, LineNodes
<1>6. CASE SweepNode
  <2>1. /\ phase = "sweep" /\ phase' = phase /\ todo # << >>
        /\ tables' = ProcessSingleNode(graph, EdgeBuckets(graph), Axis(line), Head(todo), tables)
        /\ todo' = Tail(todo) /\ graph' = graph /\ line' = line
    BY <1>1, <1>6 DEF SweepNode, Progress
  <2> DEFINE q == LineNodes(graph, line)
             at == Pass(graph, line)
  <2>2. PICK k \in 0 .. Len(q) : /\ Len(todo) = Len(q) - k
                                 /\ \A j \in 1 .. Len(todo) : todo[j] = q[k + j]
                                 /\ tables = at[k]
    BY <2>1 DEF InPass
  <2>3. /\ Len(q) \in Nat
        /\ \A j \in 1 .. Len(q) : at[j] = ProcessSingleNode(graph, EdgeBuckets(graph), Axis(line), q[j], at[j - 1])
    BY <1>2, <1>3
  <2>4. todo \in Seq(Swept(graph, line))
    BY <1>1 DEF Passing
  <2> HIDE DEF q, at
  <2>5. /\ Len(todo) \in Nat \ {0} /\ Head(todo) = todo[1] /\ Len(todo') = Len(todo) - 1
        /\ \A j \in 1 .. Len(todo') : todo'[j] = todo[j + 1]
    BY <2>1, <2>4
  <2>6. k + 1 \in 1 .. Len(q) /\ k + 1 \in 0 .. Len(q) /\ (k + 1) - 1 = k
    BY <2>2, <2>3, <2>5
  <2>7. tables' = at[k + 1]
    <3>1. 1 \in 1 .. Len(todo)
      BY <2>5
    <3>2. Head(todo) = q[k + 1]
      BY <2>2, <2>5, <3>1
    <3> QED BY <2>1, <2>2, <2>3, <2>6, <3>2
  <2>8. Len(todo') = Len(q) - (k + 1)
    BY <2>2, <2>3, <2>5
  <2>9. \A j \in 1 .. Len(todo') : todo'[j] = q[(k + 1) + j]
    <3>1. ASSUME NEW j \in 1 .. Len(todo') PROVE todo'[j] = q[(k + 1) + j]
      <4>1. j + 1 \in 1 .. Len(todo) /\ k + (j + 1) = (k + 1) + j
        BY <2>5
      <4> QED BY <2>2, <2>5, <4>1
    <3> QED BY <3>1
  <2>10. \E i \in 0 .. Len(q) : /\ Len(todo') = Len(q) - i
                                /\ \A j \in 1 .. Len(todo') : todo'[j] = q[i + j]
                                /\ tables' = at[i]
    BY <2>6, <2>7, <2>8, <2>9
  <2> QED BY <2>1, <2>10 DEF InPass, q, at
<1>7. CASE SweepDone
  <2>1. /\ phase = "sweep" /\ phase' = "find" /\ todo = << >>
        /\ tables' = tables /\ graph' = graph /\ line' = line
    BY <1>7 DEF SweepDone
  <2>2. PICK k \in 0 .. Len(LineNodes(graph, line)) :
          Len(todo) = Len(LineNodes(graph, line)) - k /\ tables = Pass(graph, line)[k]
    BY <2>1 DEF InPass
  <2>3. k = Len(LineNodes(graph, line))
    BY <1>2, <1>3, <2>1, <2>2
  <2> QED BY <2>1, <2>2, <2>3 DEF InPass, Passed
<1>8. CASE AssignDistances
  <2>1. /\ phase = "find" /\ line' = line + 1 /\ tables' = NewTables /\ graph' = graph
        /\ \/ phase' = "sweep" /\ todo' = SweepNodes(graph, EdgeBuckets(graph), Axis(line'), line' % GridSize)
           \/ phase' = "collect"
    BY <1>1, <1>8 DEF AssignDistances, Progress
  <2>2. CASE phase' = "sweep"
    BY <1>2, <1>4, <2>1, <2>2 DEF LineNodes
  <2>3. CASE phase' = "collect"
    BY <2>3 DEF InPass
  <2> QED BY <2>1, <2>2, <2>3
<1>9. CASE FindTransitNode \/ UNCHANGED vars
  BY <1>9 DEF FindTransitNode, InPass, vars
<1>10. CASE Collect \/ Done
  <2>1. phase' = "done"
    BY <1>10 DEF Collect, Done, vars
  <2> QED BY <2>1 DEF InPass
<1> QED BY <1>5, <1>6, <1>7, <1>8, <1>9, <1>10 DEF Next

LEMMA AllTakenKept ==
  ASSUME TypeInv, InPass, AllTaken, [Next]_vars
  PROVE  AllTaken'
<1>1. Progress /\ Passing /\ graph \in Networks /\ line \in Nat
  BY DEF TypeInv, Progress
<1>2. \A l \in SweepLines : l \in Nat
  BY GridSizeAssumption DEF SweepLines
<1>3. ASSUME NEW cells, transitNodesOfCells \subseteq cells, NEW l, NEW p, Taken(graph, l, p, transitNodesOfCells)
      PROVE  Taken(graph, l, p, cells)
  BY <1>3 DEF Taken
<1>4. CASE phase # "find" /\ phase' # "find" /\ UNCHANGED <<graph, line, transitNodesOfCells>>
  BY <1>4 DEF AllTaken
<1>5. CASE FindEdgeBuckets \/ SweepNode \/ Collect
  BY <1>4, <1>5 DEF FindEdgeBuckets, SweepNode, Collect
<1>6. CASE UNCHANGED <<graph, line, phase, pairs, transitNodesOfCells>>
  BY <1>6 DEF AllTaken
<1>7. CASE Done \/ UNCHANGED vars
  BY <1>6, <1>7 DEF Done, vars
<1>8. CASE SweepDone
  <2>1. /\ phase = "sweep" /\ phase' = "find" /\ UNCHANGED <<graph, line, tables, transitNodesOfCells>>
        /\ pairs' = {p \in (DOMAIN tables.first.negative) \X (DOMAIN tables.first.positive) :
                       ~TooFar(tables.first.negative[p[1]], tables.first.positive[p[2]])}
    BY <1>8 DEF SweepDone
  <2>2. tables' = Passed(graph, line)
    <3>1. InPass'
      BY InPassKept
    <3> QED BY <2>1, <3>1 DEF InPass
  <2>3. pairs' = PairsOf(Passed(graph, line))
    BY <2>1, <2>2 DEF PairsOf
  <2> QED BY <2>1, <2>3 DEF AllTaken
<1>9. CASE FindTransitNode
  <2> DEFINE q == CHOOSE x \in pairs : TRUE
             cells == CellsOf("negative", q[1]) \cup CellsOf("positive", q[2])
  <2>1. /\ phase = "find" /\ pairs # {} /\ pairs' = pairs \ {q}
        /\ UNCHANGED <<graph, phase, line, tables>>
        /\ \/ Nearest(q) = {} /\ transitNodesOfCells' = transitNodesOfCells
           \/ \E v \in Nearest(q) :
                transitNodesOfCells' = transitNodesOfCells \cup {<<c[1], c[2], v>> : c \in cells}
    BY <1>9 DEF FindTransitNode
  <2>2. tables = Passed(graph, line)
    BY <2>1 DEF InPass
  <2>3. Nearest(q) = NearestIn(Passed(graph, line), q) /\ cells = CellsOfPair(graph, line, Passed(graph, line), q)
    <3>1. /\ Nearest(q) = NearestIn(tables, q)
          /\ cells = CellsIn(graph, line, tables, "negative", q[1])
                       \cup CellsIn(graph, line, tables, "positive", q[2])
      BY Zenon DEF Nearest, Common, Sum, CellsOf, NearestIn, CommonIn, SumIn, CellsIn
    <3> QED BY <2>2, <3>1 DEF CellsOfPair
  <2> HIDE DEF q, cells
  <2>4. transitNodesOfCells \subseteq transitNodesOfCells'
    BY <2>1
  <2>5. Taken(graph, line, q, transitNodesOfCells')
    <3>1. CASE Nearest(q) = {}
      BY <2>3, <3>1 DEF Taken
    <3>2. CASE \E v \in Nearest(q) :
                 transitNodesOfCells' = transitNodesOfCells \cup {<<c[1], c[2], v>> : c \in cells}
      <4>1. PICK v \in Nearest(q) :
                 transitNodesOfCells' = transitNodesOfCells \cup {<<c[1], c[2], v>> : c \in cells}
        BY <3>2
      <4>2. \A c \in CellsOfPair(graph, line, Passed(graph, line), q) : <<c[1], c[2], v>> \in transitNodesOfCells'
        BY <2>3, <4>1
      <4> QED BY <2>3, <4>2 DEF Taken
    <3> QED BY <2>1, <3>1, <3>2
  <2>6. ASSUME NEW l \in SweepLines, NEW p \in PairsOf(Passed(graph, l)),
               l < line \/ (l = line /\ p \notin pairs')
        PROVE  Taken(graph, l, p, transitNodesOfCells')
    <3>1. CASE l = line /\ p = q
      BY <2>5, <3>1
    <3>2. CASE l < line \/ (l = line /\ p \notin pairs)
      <4>1. Taken(graph, l, p, transitNodesOfCells)
        BY <2>1, <2>6, <3>2 DEF AllTaken
      <4> QED BY <1>3, <2>4, <4>1
    <3> QED BY <2>1, <2>6, <3>1, <3>2
  <2> QED BY <2>1, <2>6 DEF AllTaken
<1>10. CASE AssignDistances
  <2>1. /\ phase = "find" /\ pairs = {} /\ line' = line + 1 /\ phase' # "find"
        /\ UNCHANGED <<graph, transitNodesOfCells>>
    BY <1>10 DEF AssignDistances
  <2>2. ASSUME NEW l \in SweepLines, NEW p \in PairsOf(Passed(graph, l)), l < line'
        PROVE  Taken(graph, l, p, transitNodesOfCells)
    <3>1. l < line \/ l = line
      BY <1>1, <1>2, <2>1, <2>2
    <3> QED BY <2>1, <3>1 DEF AllTaken
  <2> QED BY <2>1, <2>2 DEF AllTaken
<1> QED BY <1>5, <1>7, <1>8, <1>9, <1>10 DEF Next

\* The sweep does not end before the last line.
AllSwept == phase \in {"collect", "done"} => line = 2 * GridSize

LEMMA AllSweptKept ==
  ASSUME TypeInv, AllSwept, [Next]_vars
  PROVE  AllSwept'
<1>1. CASE FindEdgeBuckets \/ SweepNode \/ SweepDone \/ FindTransitNode
  <2>1. phase' \in {"sweep", "find"}
    BY <1>1 DEF FindEdgeBuckets, SweepNode, SweepDone, FindTransitNode
  <2> QED BY <2>1 DEF AllSwept
<1>2. CASE AssignDistances
  <2>1. /\ phase = "find" /\ line' = line + 1 /\ line < 2 * GridSize /\ line \in Nat
        /\ IF line + 1 < 2 * GridSize THEN phase' = "sweep" ELSE phase' = "collect"
    BY <1>2 DEF AssignDistances, TypeInv, Progress
  <2> QED BY <2>1, GridSizeAssumption DEF AllSwept
<1>3. CASE Collect \/ Done \/ UNCHANGED vars
  BY <1>3 DEF Collect, Done, vars, AllSwept
<1> QED BY <1>1, <1>2, <1>3 DEF Next

\* So in the end every pair of every line has been seen to.
EveryPairTaken ==
  phase = "done" =>
    \A l \in SweepLines : \A p \in PairsOf(Passed(graph, l)) : Taken(graph, l, p, transitNodesOfCells)

LEMMA PairsTaken == Spec => []EveryPairTaken
<1>1. Init => InPass /\ AllTaken /\ AllSwept
  <2> SUFFICES ASSUME Init PROVE InPass /\ AllTaken /\ AllSwept
    OBVIOUS
  <2>1. phase = "buckets" /\ line = 0 /\ tables = NewTables
    BY DEF Init
  <2>2. \A l \in SweepLines : ~(l < 0)
    BY GridSizeAssumption DEF SweepLines
  <2> QED BY <2>1, <2>2 DEF InPass, AllTaken, AllSwept
<1>2. TypeInv /\ InPass /\ AllTaken /\ AllSwept /\ [Next]_vars => (InPass /\ AllTaken /\ AllSwept)'
  BY InPassKept, AllTakenKept, AllSweptKept
<1>3. AllTaken /\ AllSwept => EveryPairTaken
  <2>1. \A l \in SweepLines : l < 2 * GridSize
    BY GridSizeAssumption DEF SweepLines
  <2> QED BY <2>1 DEF AllTaken, AllSwept, EveryPairTaken
<1> QED BY <1>1, <1>2, <1>3, TypeInvHolds, PTL DEF Spec
=============================================================================

-------------------------- MODULE CoastlineProofs --------------------------
(***************************************************************************)
(* For any coasts that do not touch, cut into any number of pieces in any  *)
(* order: the stitcher uses every piece exactly once, and what it makes of *)
(* them are closed coastlines.                                             *)
(***************************************************************************)
EXTENDS CoastlineStitcher, FiniteSetTheorems, FunctionTheorems, TLAPS

CoastNodes == [lat : Int, lon : Int, id : Int]

\* Pieces of closed coasts that touch neither themselves nor each other: where
\* one ends exactly one begins, only one ends at a place, and there is one node
\* at a place.
WellCut(cs) ==
  /\ Len(cs) \in Nat /\ DOMAIN cs = 1 .. Len(cs)
  /\ \A k \in DOMAIN cs : cs[k] \in Seq(CoastNodes) /\ Len(cs[k]) > 1
  /\ \A k \in DOMAIN cs : \E j \in DOMAIN cs : Place(cs[j][1]) = Place(Last(cs[k]))
  /\ \A j, k \in DOMAIN cs : Place(cs[j][1]) = Place(cs[k][1]) => j = k
  /\ \A j, k \in DOMAIN cs : Place(Last(cs[j])) = Place(Last(cs[k])) => j = k
  /\ \A j, k \in DOMAIN cs : cs[j][1].id = Last(cs[k]).id <=> Place(cs[j][1]) = Place(Last(cs[k]))

\* The stretches of a path, and that no two pieces have one in common.
Steps(p) == {<<p[n], p[n + 1]>> : n \in 1 .. Len(p) - 1}
NoCommonStretch(cs) ==
  \A j, k \in DOMAIN cs : Steps(cs[j]) \cap Steps(cs[k]) # {} => j = k

\* The piece that begins where piece k ends.
Follower(cs, k) == CHOOSE j \in DOMAIN cs : Place(cs[j][1]) = Place(Last(cs[k]))

TypeInv ==
  /\ WellCut(coastlines)
  /\ isProcessed \in [Pieces -> BOOLEAN]
  /\ i \in 1 .. Len(coastlines) + 1
  /\ coastline \in Seq(Pieces)

\* The growing coastline is a chain of followers that starts with piece i and
\* has not come back to a piece it has.
Chain ==
  coastline # << >> =>
    /\ i \in Pieces /\ coastline[1] = i
    /\ \A n \in 1 .. Len(coastline) - 1 : coastline[n + 1] = Follower(coastlines, coastline[n])
    /\ \A m, n \in DOMAIN coastline : coastline[m] = coastline[n] => m = n

\* Outside of the growing coastline, pieces are used together with their
\* followers: what is used is a number of whole coasts.
WholeCoasts ==
  \A k \in Pieces \ Range(coastline) : isProcessed[k] = isProcessed[Follower(coastlines, k)]

\* In the growing coastline all pieces but the first are marked, and the one
\* that comes next is not.
Marked ==
  coastline # << >> =>
    /\ ~isProcessed[i] /\ ~isProcessed[Follower(coastlines, Last(coastline))]
    /\ \A n \in 2 .. Len(coastline) : isProcessed[coastline[n]]

\* No piece is left behind.
PassedUsed == \A k \in 1 .. i - 1 : isProcessed[k]

\* The path leads along the pieces of the growing coastline.
AlongPieces ==
  coastline # << >> =>
    /\ path \in Seq(CoastNodes) /\ path # << >>
    /\ path[1] = coastlines[i][1] /\ End = Last(coastlines[Last(coastline)])
    /\ Steps(path) = UNION {Steps(coastlines[k]) : k \in Range(coastline)}

StitchInv == TypeInv /\ Chain /\ WholeCoasts /\ Marked /\ PassedUsed /\ AlongPieces

LEMMA FollowerFacts ==
  ASSUME NEW cs, WellCut(cs)
  PROVE  /\ \A k \in DOMAIN cs : /\ Follower(cs, k) \in DOMAIN cs
                                 /\ Place(cs[Follower(cs, k)][1]) = Place(Last(cs[k]))
         /\ \A j, k \in DOMAIN cs : Follower(cs, j) = Follower(cs, k) => j = k
<1>1. ASSUME NEW k \in DOMAIN cs
      PROVE  Follower(cs, k) \in DOMAIN cs /\ Place(cs[Follower(cs, k)][1]) = Place(Last(cs[k]))
  <2>1. \E j \in DOMAIN cs : Place(cs[j][1]) = Place(Last(cs[k]))
    BY DEF WellCut
  <2> QED BY <2>1 DEF Follower
<1>2. ASSUME NEW j \in DOMAIN cs, NEW k \in DOMAIN cs, Follower(cs, j) = Follower(cs, k) PROVE j = k
  <2>1. Place(Last(cs[j])) = Place(Last(cs[k]))
    BY <1>1, <1>2
  <2> QED BY <2>1 DEF WellCut
<1> QED BY <1>1, <1>2

LEMMA PieceNumbers ==
  ASSUME WellCut(coastlines)
  PROVE  Pieces = 1 .. Len(coastlines) /\ Len(coastlines) \in Nat
BY DEF WellCut, Pieces

LEMMA PieceFacts ==
  ASSUME NEW cs, WellCut(cs), NEW k \in DOMAIN cs
  PROVE  /\ cs[k] \in Seq(CoastNodes) /\ Len(cs[k]) \in Nat /\ Len(cs[k]) > 1
         /\ DOMAIN cs[k] = 1 .. Len(cs[k]) /\ Last(cs[k]) = cs[k][Len(cs[k])]
         /\ Last(cs[Follower(cs, k)]) \in CoastNodes /\ cs[Follower(cs, k)][1] = Last(cs[k])
<1>1. \A j \in DOMAIN cs : cs[j] \in Seq(CoastNodes) /\ Len(cs[j]) > 1
  BY DEF WellCut
<1>2. ASSUME NEW j \in DOMAIN cs
      PROVE  /\ Len(cs[j]) \in Nat /\ DOMAIN cs[j] = 1 .. Len(cs[j])
             /\ Last(cs[j]) = cs[j][Len(cs[j])] /\ cs[j][1] \in CoastNodes /\ Last(cs[j]) \in CoastNodes
  BY <1>1 DEF Last
<1> DEFINE f == Follower(cs, k)
<1>3. f \in DOMAIN cs /\ Place(cs[f][1]) = Place(Last(cs[k]))
  BY FollowerFacts
<1> HIDE DEF f
<1>4. cs[f][1].id = Last(cs[k]).id
  BY <1>3 DEF WellCut
<1>5. cs[f][1] = Last(cs[k])
  <2> DEFINE a == cs[f][1]
             b == Last(cs[k])
  <2>1. a \in CoastNodes /\ b \in CoastNodes /\ a.id = b.id /\ Place(a) = Place(b)
    BY <1>2, <1>3, <1>4
  <2> HIDE DEF a, b
  <2>2. a.lat = b.lat /\ a.lon = b.lon
    BY <2>1 DEF Place
  <2> QED BY <2>1, <2>2 DEF CoastNodes, a, b
<1> QED BY <1>1, <1>2, <1>3, <1>5 DEF f

\* Following a path with a piece that begins where the path ends.
LEMMA StepsJoin ==
  ASSUME NEW p \in Seq(CoastNodes), p # << >>,
         NEW c \in Seq(CoastNodes), Len(c) > 1, c[1] = Last(p)
  PROVE  LET q == p \o Tail(c)
         IN /\ q \in Seq(CoastNodes) /\ q # << >> /\ q[1] = p[1] /\ Last(q) = Last(c)
            /\ Steps(q) = Steps(p) \cup Steps(c)
<1> DEFINE q == p \o Tail(c)
           L == Len(p)
           M == Len(c)
<1>1. L \in Nat /\ L > 0 /\ M \in Nat /\ M > 1 /\ Last(p) = p[L] /\ Last(c) = c[M]
  BY DEF Last
<1>2. /\ q \in Seq(CoastNodes) /\ Len(q) = L + M - 1
      /\ \A n \in 1 .. L : q[n] = p[n]
      /\ \A n \in 1 .. M - 1 : q[L + n] = c[n + 1]
  <2> DEFINE t == Tail(c)
  <2>1. t \in Seq(CoastNodes) /\ Len(t) = M - 1 /\ \A n \in 1 .. M - 1 : t[n] = c[n + 1]
    BY <1>1
  <2>2. q = p \o t
    OBVIOUS
  <2> HIDE DEF t
  <2>3. q \in Seq(CoastNodes) /\ Len(q) = L + Len(t)
    BY <2>1, <2>2
  <2>4. \A n \in 1 .. L : q[n] = p[n]
    BY <1>1, <2>1, <2>2
  <2>5. ASSUME NEW n \in 1 .. M - 1 PROVE q[L + n] = t[n]
    BY <1>1, <2>1, <2>2
  <2> HIDE DEF q
  <2> QED BY <1>1, <2>1, <2>3, <2>4, <2>5
<1>3. Last(q) = q[Len(q)]
  BY DEF Last
<1> HIDE DEF q, L, M
<1>4. q # << >> /\ q[1] = p[1]
  BY <1>1, <1>2
<1>5. Last(q) = Last(c)
  <2>1. M - 1 \in 1 .. M - 1 /\ L + (M - 1) = Len(q)
    BY <1>1, <1>2
  <2>2. q[L + (M - 1)] = c[(M - 1) + 1] /\ (M - 1) + 1 = M
    <3>1. q[L + (M - 1)] = c[(M - 1) + 1]
      BY <1>2, <2>1
    <3> QED BY <1>1, <3>1
  <2> QED BY <1>1, <1>3, <2>1, <2>2
<1>6. ASSUME NEW n \in 1 .. L - 1 PROVE <<q[n], q[n + 1]>> = <<p[n], p[n + 1]>>
  BY <1>1, <1>2
<1>7. ASSUME NEW n \in 1 .. M - 1 PROVE <<q[L + n - 1], q[L + n]>> = <<c[n], c[n + 1]>>
  <2>1. q[L + n] = c[n + 1]
    BY <1>2
  <2>2. CASE n = 1
    BY <1>1, <1>2, <2>1, <2>2
  <2>3. CASE n # 1
    <3>1. n - 1 \in 1 .. M - 1 /\ L + (n - 1) = L + n - 1 /\ (n - 1) + 1 = n
      BY <1>1, <2>3
    <3>2. q[L + (n - 1)] = c[(n - 1) + 1]
      BY <1>2, <3>1
    <3> QED BY <2>1, <3>1, <3>2
  <2> QED BY <2>2, <2>3
<1>8. Steps(p) \subseteq Steps(q)
  <2> SUFFICES ASSUME NEW n \in 1 .. L - 1 PROVE <<p[n], p[n + 1]>> \in Steps(q)
    BY DEF Steps, L
  <2>1. n \in 1 .. Len(q) - 1
    BY <1>1, <1>2
  <2> QED BY <1>6, <2>1 DEF Steps
<1>9. Steps(c) \subseteq Steps(q)
  <2> SUFFICES ASSUME NEW n \in 1 .. M - 1 PROVE <<c[n], c[n + 1]>> \in Steps(q)
    BY DEF Steps, M
  <2>1. L + n - 1 \in 1 .. Len(q) - 1 /\ (L + n - 1) + 1 = L + n
    BY <1>1, <1>2
  <2> QED BY <1>7, <2>1 DEF Steps
<1>10. Steps(q) \subseteq Steps(p) \cup Steps(c)
  <2> SUFFICES ASSUME NEW m \in 1 .. Len(q) - 1
               PROVE  <<q[m], q[m + 1]>> \in Steps(p) \cup Steps(c)
    BY DEF Steps
  <2>1. CASE m \in 1 .. L - 1
    BY <1>6, <2>1 DEF Steps, L
  <2>2. CASE ~(m \in 1 .. L - 1)
    <3> DEFINE n == m - L + 1
    <3>1. n \in 1 .. M - 1 /\ L + n - 1 = m /\ L + n = m + 1
      BY <1>1, <1>2, <2>2
    <3> HIDE DEF n
    <3>2. <<q[m], q[m + 1]>> = <<c[n], c[n + 1]>>
      BY <1>7, <3>1
    <3> QED BY <3>1, <3>2 DEF Steps, M
  <2> QED BY <2>1, <2>2
<1> QED BY <1>2, <1>4, <1>5, <1>8, <1>9, <1>10 DEF q

LEMMA MinOfOne == ASSUME NEW x \in Int PROVE Min({x}) = x
BY DEF Min

\* What the loop looks up is the follower of the last piece, or the way out if
\* that one is the first.
LEMMA NextIsFollower ==
  ASSUME TypeInv, AlongPieces, i \in Pieces, coastline # << >>
  PROVE  LET f == Follower(coastlines, Last(coastline))
         IN f \in Pieces /\ IF isProcessed[f] /\ f = i THEN NextStart = 0 ELSE NextStart = f
<1> DEFINE l == Last(coastline)
           f == Follower(coastlines, l)
<1>1. l \in Pieces
  BY DEF TypeInv, Last
<1>0. WellCut(coastlines) /\ End = Last(coastlines[l])
  BY DEF TypeInv, AlongPieces
<1>2. f \in Pieces /\ Place(coastlines[f][1]) = Place(End) /\ f \in Int
  <2>1. f \in Pieces /\ Place(coastlines[f][1]) = Place(End)
    BY <1>0, <1>1, FollowerFacts DEF Pieces
  <2> QED BY <1>0, <2>1 DEF Pieces, WellCut
<1> HIDE DEF f
<1>3. StartsAt(Place(End)) = {f}
  BY <1>0, <1>2 DEF StartsAt, WellCut, Pieces
<1>4. StartsWith(End.id) = {f}
  <2>1. \A j \in Pieces : coastlines[j][1].id = End.id <=> Place(coastlines[j][1]) = Place(End)
    <3> HIDE DEF l
    <3> QED BY <1>0, <1>1 DEF WellCut, Pieces
  <2>2. StartsWith(End.id) = StartsAt(Place(End))
    BY <2>1 DEF StartsWith, StartsAt
  <2> QED BY <2>2, <1>3
<1>5. Min({f}) = f
  BY <1>2, MinOfOne
<1>6. coastlines[f][1].lat = End.lat
  BY <1>2 DEF Place
<1>7. NextStart = IF ~isProcessed[f] THEN f ELSE IF f = i THEN 0 ELSE f
  BY <1>3, <1>4, <1>5, <1>6 DEF NextStart
<1> QED BY <1>2, <1>7 DEF f

LEMMA InitStitch ==
  ASSUME \A cs \in Worlds : WellCut(cs), Init
  PROVE  StitchInv
<1>1. WellCut(coastlines)
  BY DEF Init
<1>2. \A k \in Pieces : Follower(coastlines, k) \in Pieces
  BY <1>1, FollowerFacts DEF Pieces
<1>3. TypeInv
  BY <1>1 DEF Init, TypeInv, WellCut
<1>4. Chain /\ Marked /\ PassedUsed
  BY DEF Init, Chain, Marked, PassedUsed
<1>5. WholeCoasts
  <2>1. \A k \in Pieces : ~isProcessed[k]
    BY DEF Init
  <2>2. \A k \in Pieces : isProcessed[k] = isProcessed[Follower(coastlines, k)]
    BY <2>1, <1>2, <1>3 DEF TypeInv
  <2> QED BY <2>2 DEF WholeCoasts
<1>6. AlongPieces
  BY DEF Init, AlongPieces
<1> QED BY <1>3, <1>4, <1>5, <1>6 DEF StitchInv

LEMMA SkipStitch == ASSUME StitchInv, Skip PROVE StitchInv'
<1>1. TypeInv'
  BY PieceNumbers DEF StitchInv, Skip, TypeInv, Pieces
<1>2. Chain' /\ Marked'
  BY DEF StitchInv, Skip, Chain, Marked
<1>3. WholeCoasts'
  BY DEF StitchInv, Skip, WholeCoasts, Pieces
<1>4. PassedUsed'
  BY DEF StitchInv, Skip, PassedUsed, TypeInv
<1>5. AlongPieces'
  BY DEF StitchInv, Skip, AlongPieces
<1> QED BY <1>1, <1>2, <1>3, <1>4, <1>5 DEF StitchInv

LEMMA BeginStitch == ASSUME StitchInv, Begin PROVE StitchInv'
<1>1. TypeInv'
  BY DEF StitchInv, Begin, TypeInv, Pieces
<1>2. i \in Pieces /\ isProcessed[i] = isProcessed[Follower(coastlines, i)]
  BY DEF StitchInv, Begin, WholeCoasts, Range
<1>3. Len(coastline') = 1 /\ coastline'[1] = i /\ Last(coastline') = i /\ DOMAIN coastline' = {1}
  BY <1>2 DEF Begin, Last
<1>4. Chain'
  BY <1>2, <1>3 DEF Begin, Chain, Pieces
<1>5. Marked'
  BY <1>2, <1>3 DEF Begin, Marked
<1>6. WholeCoasts'
  BY <1>3 DEF StitchInv, Begin, WholeCoasts, Pieces, Range
<1>7. PassedUsed'
  BY DEF StitchInv, Begin, PassedUsed
<1>8. AlongPieces'
  <2>1. /\ path' = coastlines[i] /\ coastlines' = coastlines /\ Range(coastline') = {i}
        /\ i \in DOMAIN coastlines /\ WellCut(coastlines) /\ i' = i
    BY <1>2, <1>3 DEF StitchInv, Begin, TypeInv, Range, Pieces
  <2>2. coastlines[i] \in Seq(CoastNodes) /\ coastlines[i] # << >>
    BY <2>1, PieceFacts
  <2>3. End' = Last(coastlines[i])
    BY <2>1 DEF End
  <2> QED BY <1>3, <2>1, <2>2, <2>3 DEF AlongPieces
<1> QED BY <1>1, <1>4, <1>5, <1>6, <1>7, <1>8 DEF StitchInv

\* The next piece is used nowhere yet: not in a finished coastline, because those
\* are whole coasts, and not in this one, because it would follow two pieces.
LEMMA NextUnused ==
  ASSUME StitchInv, coastline # << >>, NextStart \notin {0, i}
  PROVE  /\ NextStart = Follower(coastlines, Last(coastline))
         /\ NextStart \in Pieces /\ ~isProcessed[NextStart] /\ NextStart \notin Range(coastline)
<1> DEFINE f == Follower(coastlines, Last(coastline))
<1>1. TypeInv /\ i \in Pieces /\ coastline[1] = i /\ Len(coastline) \in Nat \ {0}
      /\ DOMAIN coastline = 1 .. Len(coastline)
  BY DEF StitchInv, Chain, TypeInv
<1>2. f \in Pieces /\ f # i /\ NextStart = f
  BY <1>1, NextIsFollower DEF StitchInv
<1>3. ~isProcessed[f]
  BY DEF StitchInv, Marked
<1>4. ASSUME NEW n \in DOMAIN coastline, coastline[n] = f PROVE FALSE
  <2>1. n # 1 /\ n - 1 \in 1 .. Len(coastline) - 1
    BY <1>1, <1>2, <1>4
  <2>2. coastline[n - 1] \in Pieces /\ f = Follower(coastlines, coastline[n - 1])
    <3>1. coastline[(n - 1) + 1] = Follower(coastlines, coastline[n - 1])
      BY <2>1 DEF StitchInv, Chain
    <3> QED BY <3>1, <2>1, <1>1, <1>4 DEF TypeInv
  <2>3. coastline[n - 1] = coastline[Len(coastline)]
    <3>1. Last(coastline) = coastline[Len(coastline)] /\ Last(coastline) \in Pieces
      BY <1>1 DEF Last, TypeInv
    <3> QED BY <2>2, <3>1, <1>1, FollowerFacts DEF TypeInv, Pieces
  <2>4. n - 1 = Len(coastline)
    BY <2>1, <2>3, <1>1 DEF StitchInv, Chain
  <2> QED BY <2>1, <2>4, <1>1
<1> QED BY <1>2, <1>3, <1>4 DEF Range

LEMMA AttachStitch == ASSUME StitchInv, Attach PROVE StitchInv'
<1> DEFINE f == NextStart
           L == Len(coastline)
<1>1. /\ f = Follower(coastlines, Last(coastline)) /\ f \in Pieces
      /\ ~isProcessed[f] /\ f \notin Range(coastline) /\ f # i
  BY NextUnused DEF Attach
<1>2. /\ TypeInv /\ Chain /\ WholeCoasts /\ Marked /\ PassedUsed /\ i \in Pieces
      /\ L \in Nat \ {0} /\ DOMAIN coastline = 1 .. L
  BY DEF StitchInv, Attach, Chain, TypeInv
<1>3. /\ isProcessed' = [isProcessed EXCEPT ![f] = TRUE] /\ coastline' = Append(coastline, f)
      /\ UNCHANGED <<coastlines, i>> /\ Pieces' = Pieces /\ coastline # << >>
  BY DEF Attach, Pieces
<1> HIDE DEF f
<1>4. /\ TypeInv' /\ Len(coastline') = L + 1 /\ coastline'[L + 1] = f /\ Last(coastline') = f
      /\ \A n \in 1 .. L : coastline'[n] = coastline[n]
  BY <1>1, <1>2, <1>3 DEF TypeInv, Last
<1>5. Chain'
  <2>1. i \in Pieces /\ coastline'[1] = i
    BY <1>2, <1>3, <1>4 DEF Chain
  <2>2. ASSUME NEW n \in 1 .. L PROVE coastline'[n + 1] = Follower(coastlines, coastline'[n])
    <3>1. CASE n = L
      <4>1. coastline'[n] = Last(coastline) /\ coastline'[n + 1] = f
        BY <3>1, <1>2, <1>4 DEF Last
      <4> QED BY <4>1, <1>1
    <3>2. CASE n \in 1 .. L - 1
      <4>1. coastline[n + 1] = Follower(coastlines, coastline[n])
        BY <3>2, <1>2, <1>3 DEF Chain
      <4>2. n + 1 \in 1 .. L
        BY <3>2, <1>2
      <4> QED BY <4>1, <4>2, <1>4
    <3>3. L \in Nat \ {0}
      BY <1>2
    <3> HIDE DEF L
    <3>4. n = L \/ n \in 1 .. L - 1
      BY <3>3
    <3> QED BY <3>1, <3>2, <3>4
  <2>3. ASSUME NEW m \in 1 .. L + 1, NEW n \in 1 .. L + 1, coastline'[m] = coastline'[n] PROVE m = n
    <3>1. \A k \in 1 .. L : coastline'[k] # f
      BY <1>1, <1>2, <1>4 DEF Range
    <3>2. CASE m = L + 1 \/ n = L + 1
      BY <3>1, <3>2, <2>3, <1>2, <1>4
    <3>3. CASE m \in 1 .. L /\ n \in 1 .. L
      BY <3>3, <2>3, <1>2, <1>3, <1>4 DEF Chain
    <3> QED BY <3>2, <3>3, <1>2
  <2>4. DOMAIN coastline' = 1 .. L + 1 /\ Len(coastline') - 1 = L
    BY <1>2, <1>4 DEF TypeInv
  <2> QED BY <1>3, <2>1, <2>2, <2>3, <2>4 DEF Chain
<1>6. ASSUME NEW k \in Pieces \ Range(coastline)
      PROVE  Follower(coastlines, k) \in Pieces /\ Follower(coastlines, k) # f
  <2>1. Last(coastline) \in Range(coastline) /\ Last(coastline) \in Pieces
    BY <1>2 DEF Range, Last, TypeInv
  <2> QED BY <2>1, <1>1, <1>2, FollowerFacts DEF TypeInv, Pieces
<1>7. Range(coastline) \subseteq Range(coastline') /\ f \in Range(coastline')
  BY <1>2, <1>3, <1>4 DEF Range, TypeInv
<1>8. WholeCoasts'
  <2> SUFFICES ASSUME NEW k \in Pieces \ Range(coastline')
               PROVE  isProcessed'[k] = isProcessed'[Follower(coastlines, k)]
    BY <1>3 DEF WholeCoasts
  <2>1. k \in Pieces \ Range(coastline) /\ k # f
    BY <1>7
  <2>2. isProcessed[k] = isProcessed[Follower(coastlines, k)]
    BY <2>1, <1>2 DEF WholeCoasts
  <2> QED BY <2>1, <2>2, <1>2, <1>3, <1>6 DEF TypeInv
<1>9. Marked'
  <2>1. ~isProcessed'[i]
    BY <1>1, <1>2, <1>3 DEF Marked, TypeInv
  <2>2. ~isProcessed'[Follower(coastlines, f)]
    <3>1. ~isProcessed[Follower(coastlines, f)] /\ Follower(coastlines, f) # f
          /\ Follower(coastlines, f) \in Pieces
      BY <1>1, <1>2, <1>6 DEF WholeCoasts
    <3> QED BY <3>1, <1>2, <1>3 DEF TypeInv
  <2>3. ASSUME NEW n \in 2 .. L + 1 PROVE isProcessed'[coastline'[n]]
    <3>1. CASE n = L + 1
      BY <3>1, <1>1, <1>2, <1>3, <1>4 DEF TypeInv
    <3>2. CASE n \in 2 .. L
      <4>1. isProcessed[coastline[n]] /\ coastline'[n] = coastline[n] /\ coastline[n] \in Pieces
        BY <3>2, <1>2, <1>3, <1>4 DEF Marked, TypeInv
      <4> QED BY <4>1, <1>2, <1>3 DEF TypeInv
    <3> QED BY <3>1, <3>2, <1>2
  <2> QED BY <1>3, <1>4, <2>1, <2>2, <2>3 DEF Marked
<1>10. PassedUsed'
  <2>1. \A k \in 1 .. i - 1 : k \in Pieces
    BY <1>2, PieceNumbers DEF TypeInv
  <2> QED BY <2>1, <1>1, <1>2, <1>3 DEF PassedUsed, TypeInv
<1>11. AlongPieces'
  <2> DEFINE l == Last(coastline)
             c == coastlines[f]
  <2>1. l \in DOMAIN coastlines /\ f \in DOMAIN coastlines /\ WellCut(coastlines)
    BY <1>1, <1>2 DEF TypeInv, Pieces, Last
  <2>2. /\ path \in Seq(CoastNodes) /\ path # << >> /\ path[1] = coastlines[i][1]
        /\ Last(path) = Last(coastlines[l])
        /\ Steps(path) = UNION {Steps(coastlines[k]) : k \in Range(coastline)}
    BY <1>3 DEF StitchInv, AlongPieces, End
  <2>3. c \in Seq(CoastNodes) /\ Len(c) > 1 /\ c[1] = Last(path)
    BY <1>1, <2>1, <2>2, PieceFacts
  <2>4. path' = path \o Tail(c)
    BY DEF Attach, f
  <2> HIDE DEF c
  <2>5. /\ path' \in Seq(CoastNodes) /\ path' # << >> /\ path'[1] = path[1] /\ Last(path') = Last(c)
        /\ Steps(path') = Steps(path) \cup Steps(c)
    BY <2>2, <2>3, <2>4, StepsJoin
  <2>6. Range(coastline') = Range(coastline) \cup {f}
    <3>1. DOMAIN coastline' = 1 .. L + 1 /\ L \in Nat
      BY <1>2, <1>4 DEF TypeInv
    <3>2. \A n \in 1 .. L + 1 : coastline'[n] = IF n = L + 1 THEN f ELSE coastline[n]
      BY <1>4, <3>1
    <3> QED BY <1>2, <3>1, <3>2 DEF Range
  <2>7. UNION {Steps(coastlines[k]) : k \in Range(coastline')} = Steps(path) \cup Steps(c)
    BY <2>2, <2>6 DEF c
  <2>8. End' = Last(path')
    BY DEF End
  <2> QED BY <1>3, <1>4, <2>2, <2>5, <2>7, <2>8 DEF AlongPieces, c
<1> QED BY <1>4, <1>5, <1>8, <1>9, <1>10, <1>11 DEF StitchInv

\* With its last piece the coastline is a whole coast, all of it marked.
LEMMA CloseStitch == ASSUME StitchInv, Close PROVE StitchInv'
<1> DEFINE l == Last(coastline)
<1>1. /\ TypeInv /\ Chain /\ WholeCoasts /\ Marked /\ PassedUsed /\ i \in Pieces /\ coastline # << >>
      /\ coastline[1] = i /\ Len(coastline) \in Nat \ {0} /\ DOMAIN coastline = 1 .. Len(coastline)
  BY DEF StitchInv, Close, Chain, TypeInv
<1>2. l \in Pieces /\ l \in Range(coastline)
  BY <1>1 DEF Last, TypeInv, Range
<1>3. Follower(coastlines, l) = i
  <2>1. i \in Int /\ \A k \in Pieces : k # 0
    BY <1>1, PieceNumbers DEF TypeInv
  <2> QED BY <2>1, <1>1, NextIsFollower DEF Close, StitchInv
<1>4. NextStart = i
  <2>1. ~isProcessed[i]
    BY <1>1 DEF Marked
  <2> QED BY <2>1, <1>1, <1>3, NextIsFollower DEF StitchInv
<1>5. /\ isProcessed' = [isProcessed EXCEPT ![i] = TRUE] /\ coastline' = << >> /\ i' = i + 1
      /\ coastlines' = coastlines /\ Pieces' = Pieces
  BY <1>4 DEF Close, Pieces
<1>6. TypeInv'
  <2>0. i \in 1 .. Len(coastlines) /\ Len(coastlines) \in Nat /\ i' = i + 1
    BY <1>1, <1>5, PieceNumbers DEF TypeInv
  <2>1. i' \in 1 .. Len(coastlines) + 1
    BY <2>0
  <2>2. coastline' \in Seq(Pieces)
    BY <1>5
  <2> QED BY <2>1, <2>2, <1>1, <1>5 DEF TypeInv
<1>7. Chain' /\ Marked' /\ AlongPieces'
  BY <1>5 DEF Chain, Marked, AlongPieces
<1>8. PassedUsed'
  <2>1. \A k \in 1 .. i - 1 : k \in Pieces
    BY <1>1, PieceNumbers DEF TypeInv
  <2> QED BY <2>1, <1>1, <1>5 DEF PassedUsed, TypeInv
<1>9. ASSUME NEW k \in Pieces PROVE isProcessed'[k] = isProcessed'[Follower(coastlines, k)]
  <2>1. Follower(coastlines, k) \in Pieces
    BY <1>1, FollowerFacts DEF TypeInv, Pieces
  <2>2. CASE k \notin Range(coastline)
    <3>1. k # i /\ Follower(coastlines, k) # i
      BY <2>2, <1>1, <1>2, <1>3, FollowerFacts DEF TypeInv, Pieces, Range
    <3>2. isProcessed[k] = isProcessed[Follower(coastlines, k)]
      BY <2>2, <1>1 DEF WholeCoasts
    <3> QED BY <3>1, <3>2, <2>1, <1>1, <1>5 DEF TypeInv
  <2>3. CASE k \in Range(coastline)
    <3>1. \A p \in Range(coastline) : p = i \/ isProcessed[p]
      BY <1>1 DEF Range, Marked
    <3>2. Follower(coastlines, k) \in Range(coastline)
      <4>1. PICK n \in DOMAIN coastline : k = coastline[n]
        BY <2>3 DEF Range
      <4>2. CASE n = Len(coastline)
        BY <4>1, <4>2, <1>1, <1>3 DEF Last, Range
      <4>3. CASE n \in 1 .. Len(coastline) - 1
        BY <4>1, <4>3, <1>1 DEF Chain, Range
      <4> QED BY <4>2, <4>3, <1>1
    <3> QED BY <3>1, <3>2, <2>1, <2>3, <1>1, <1>5 DEF TypeInv
  <2> QED BY <2>2, <2>3
<1>10. WholeCoasts'
  BY <1>5, <1>9 DEF WholeCoasts
<1> QED BY <1>6, <1>7, <1>8, <1>10 DEF StitchInv

LEMMA StepStitch == StitchInv /\ [Stitch]_vars => StitchInv'
<1> SUFFICES ASSUME StitchInv, [Stitch]_vars PROVE StitchInv'
  OBVIOUS
<1>1. CASE UNCHANGED vars
  BY <1>1 DEF vars, StitchInv, TypeInv, Chain, WholeCoasts, Marked, PassedUsed, Pieces, AlongPieces, End
<1> QED BY <1>1, SkipStitch, BeginStitch, AttachStitch, CloseStitch DEF Stitch

\* Nothing is used twice: a piece that becomes part of a coastline was part of
\* none before ("only process every coastline once", PBFProcessing.cpp:57), so the
\* inner loop takes at most one turn for each piece of the file.
THEOREM PiecesUsedOnce ==
  ASSUME \A cs \in Worlds : WellCut(cs)
  PROVE  Spec => EachPieceOnce
<1> DEFINE New == \A k \in Pieces : coastline' = Append(coastline, k) =>
                    ~isProcessed[k] /\ k \notin Range(coastline)
<1>1. ASSUME StitchInv, [Stitch]_vars PROVE [New]_vars
  <2>1. ASSUME NEW k \in Pieces, coastline' = Append(coastline, k), ~UNCHANGED vars
        PROVE  ~isProcessed[k] /\ k \notin Range(coastline)
    <3>1. coastline \in Seq(Pieces)
      BY <1>1 DEF StitchInv, TypeInv
    <3>2. Len(coastline') = Len(coastline) + 1 /\ coastline'[Len(coastline) + 1] = k
      BY <2>1, <3>1
    <3>3. CASE Skip \/ Close
      BY <3>3, <3>1, <3>2 DEF Skip, Close
    <3>4. CASE Begin
      BY <3>4, <3>1, <3>2 DEF Begin, Range
    <3>5. CASE Attach
      <4>1. coastline'[Len(coastline) + 1] = NextStart
        BY <3>1, <3>5, <1>1, NextUnused DEF Attach
      <4> QED BY <4>1, <3>2, <3>5, <1>1, NextUnused DEF Attach
    <3> QED BY <1>1, <2>1, <3>3, <3>4, <3>5 DEF Stitch
  <2> QED BY <2>1
<1>2. Init => StitchInv
  BY InitStitch
<1>3. Spec => [][New]_vars
  BY <1>1, <1>2, StepStitch, PTL DEF Spec
<1> QED BY <1>3 DEF EachPieceOnce

\* Nothing is forgotten: when the stitcher has ended, every piece of the file is
\* marked as used.
THEOREM EveryPieceUsed ==
  ASSUME \A cs \in Worlds : WellCut(cs)
  PROVE  Spec => [](Stitched => \A k \in Pieces : isProcessed[k])
<1>1. Init => StitchInv
  BY InitStitch
<1>2. StitchInv => (Stitched => \A k \in Pieces : isProcessed[k])
  BY DEF StitchInv, TypeInv, WellCut, PassedUsed, Pieces, Stitched
<1> QED BY <1>1, <1>2, StepStitch, PTL DEF Spec

-----------------------------------------------------------------------------
(***************************************************************************)
(* What comes out.                                                         *)
(***************************************************************************)
\* The pieces of finished coastlines.
Finished == {k \in Pieces \ Range(coastline) : isProcessed[k]}

StepsOf(paths, K) == UNION {Steps(paths[k]) : k \in K}

\* The finished coastlines are closed, hold the stretches of the finished pieces, and
\* have none in common if the pieces do not.
ResultInv ==
  /\ result \in Seq(Seq(CoastNodes))
  /\ \A k \in DOMAIN result : result[k] # << >> /\ result[k][1] = Last(result[k])
  /\ StepsOf(result, DOMAIN result) = StepsOf(coastlines, Finished)
  /\ NoCommonStretch(coastlines) => NoCommonStretch(result)

ClosedInv == StitchInv /\ ResultInv

\* A step that leaves the results alone changes no finished piece.
LEMMA SameResult ==
  ASSUME ResultInv, coastlines' = coastlines, result' = result, Finished' = Finished
  PROVE  ResultInv'
BY DEF ResultInv, StepsOf, NoCommonStretch

LEMMA AttachResult == ASSUME ClosedInv, Attach PROVE ResultInv'
<1> DEFINE f == NextStart
<1>1. f \in Pieces /\ ~isProcessed[f] /\ f \notin Range(coastline)
  BY NextUnused DEF Attach, ClosedInv
<1>2. /\ coastline \in Seq(Pieces) /\ coastline' = Append(coastline, f)
      /\ isProcessed' = [isProcessed EXCEPT ![f] = TRUE] /\ coastlines' = coastlines /\ result' = result
      /\ isProcessed \in [Pieces -> BOOLEAN]
  BY DEF Attach, ClosedInv, StitchInv, TypeInv
<1> HIDE DEF f
<1>3. Range(coastline') = Range(coastline) \cup {f}
  <2> DEFINE L == Len(coastline)
  <2>1. L \in Nat /\ DOMAIN coastline = 1 .. L /\ DOMAIN coastline' = 1 .. L + 1
    BY <1>1, <1>2
  <2>2. \A n \in 1 .. L + 1 : coastline'[n] = IF n = L + 1 THEN f ELSE coastline[n]
    BY <1>1, <1>2
  <2> HIDE DEF L
  <2> QED BY <2>1, <2>2 DEF Range
<1>4. Finished' = Finished
  BY <1>1, <1>2, <1>3 DEF Finished, Pieces
<1> QED BY <1>2, <1>4, SameResult DEF ClosedInv

\* The path of a finished coastline ends where its first piece begins, and its pieces
\* were part of no coastline before.
LEMMA CloseResult == ASSUME ClosedInv, Close PROVE ResultInv'
<1> DEFINE l == Last(coastline)
           own == Range(coastline)
           n == Len(result)
<1>1. /\ TypeInv /\ Chain /\ Marked /\ AlongPieces /\ i \in Pieces /\ coastline # << >>
      /\ ResultInv /\ WellCut(coastlines) /\ coastlines' = coastlines /\ Pieces' = Pieces
      /\ coastline' = << >> /\ result' = Append(result, path)
  BY DEF ClosedInv, StitchInv, TypeInv, Chain, Close, Pieces
<1>2. /\ DOMAIN coastline = 1 .. Len(coastline) /\ Len(coastline) \in Nat \ {0}
      /\ l \in DOMAIN coastlines /\ l = coastline[Len(coastline)]
      /\ coastline[1] = i /\ own \subseteq Pieces /\ isProcessed \in [Pieces -> BOOLEAN]
  BY <1>1 DEF TypeInv, Chain, Last, Range, Pieces
<1>3. NextStart = i /\ Follower(coastlines, l) = i
  <2>1. i \in Int /\ \A k \in Pieces : k # 0
    BY <1>1, PieceNumbers DEF TypeInv
  <2>2. Follower(coastlines, l) = i
    BY <2>1, <1>1, NextIsFollower DEF Close
  <2>3. ~isProcessed[i]
    BY <1>1 DEF Marked
  <2> QED BY <2>2, <2>3, <1>1, NextIsFollower
<1>4. isProcessed' = [isProcessed EXCEPT ![i] = TRUE]
  BY <1>3 DEF Close
<1>5. path \in Seq(CoastNodes) /\ path # << >> /\ path[1] = Last(path) /\ Steps(path) = StepsOf(coastlines, own)
  <2>1. coastlines[i][1] = Last(coastlines[l])
    BY <1>1, <1>2, <1>3, PieceFacts
  <2>2. /\ path \in Seq(CoastNodes) /\ path # << >>
        /\ path[1] = coastlines[i][1] /\ Last(path) = Last(coastlines[l])
        /\ Steps(path) = StepsOf(coastlines, own)
    BY <1>1 DEF AlongPieces, End, StepsOf
  <2> QED BY <2>1, <2>2
<1>6. Finished' = Finished \cup own
  <2>1. \A k \in own : k = i \/ isProcessed[k]
    BY <1>1, <1>2 DEF Marked, Range
  <2>2. Range(coastline') = {}
    BY <1>1 DEF Range
  <2>3. i \in own
    BY <1>2 DEF Range
  <2> HIDE DEF own
  <2> QED BY <1>1, <1>2, <1>4, <2>1, <2>2, <2>3 DEF Finished, own
<1>7. /\ n \in Nat /\ DOMAIN result = 1 .. n /\ DOMAIN result' = 1 .. n + 1
      /\ result'[n + 1] = path /\ \A k \in 1 .. n : result'[k] = result[k]
      /\ result' \in Seq(Seq(CoastNodes))
  BY <1>1, <1>5 DEF ResultInv
<1> HIDE DEF n, l, own
<1>8. \A k \in 1 .. n + 1 : k \in 1 .. n \/ k = n + 1
  BY <1>7
<1>9. \A k \in DOMAIN result' : result'[k] # << >> /\ result'[k][1] = Last(result'[k])
  BY <1>1, <1>5, <1>7, <1>8 DEF ResultInv
<1>10. StepsOf(result', DOMAIN result') = StepsOf(coastlines, Finished')
  <2>1. StepsOf(result', DOMAIN result') = StepsOf(result, DOMAIN result) \cup Steps(path)
    <3>1. ASSUME NEW x
          PROVE  x \in StepsOf(result', DOMAIN result')
                 <=> x \in StepsOf(result, DOMAIN result) \/ x \in Steps(path)
      <4>1. x \in StepsOf(result', DOMAIN result') <=> \E k \in 1 .. n + 1 : x \in Steps(result'[k])
        BY <1>7 DEF StepsOf
      <4>2. x \in StepsOf(result, DOMAIN result) <=> \E k \in 1 .. n : x \in Steps(result[k])
        BY <1>7 DEF StepsOf
      <4>3. n + 1 \in 1 .. n + 1 /\ \A k \in 1 .. n : k \in 1 .. n + 1
        BY <1>7
      <4> QED BY <1>7, <1>8, <4>1, <4>2, <4>3
    <3> QED BY <3>1
  <2>2. StepsOf(coastlines, Finished') = StepsOf(coastlines, Finished) \cup StepsOf(coastlines, own)
    BY <1>6 DEF StepsOf
  <2> QED BY <1>1, <1>5, <2>1, <2>2 DEF ResultInv
<1>11. ASSUME NoCommonStretch(coastlines) PROVE NoCommonStretch(result')
  <2>1. NoCommonStretch(result)
    BY <1>1, <1>11 DEF ResultInv
  <2>2. Steps(path) \cap StepsOf(result, DOMAIN result) = {}
    <3> SUFFICES ASSUME NEW x \in Steps(path), x \in StepsOf(result, DOMAIN result) PROVE FALSE
      OBVIOUS
    <3>1. PICK j \in own : x \in Steps(coastlines[j])
      BY <1>5 DEF StepsOf
    <3>2. PICK k \in Finished : x \in Steps(coastlines[k])
      BY <1>1 DEF ResultInv, StepsOf
    <3>3. j \in Pieces /\ k \in Pieces /\ k \notin own
      BY <1>2, <3>1, <3>2 DEF Finished, own
    <3> QED BY <1>11, <3>1, <3>2, <3>3 DEF NoCommonStretch, Pieces
  <2>3. \A k \in 1 .. n : Steps(path) \cap Steps(result[k]) = {}
    BY <1>7, <2>2 DEF StepsOf
  <2> SUFFICES ASSUME NEW j \in 1 .. n + 1, NEW k \in 1 .. n + 1,
                      Steps(result'[j]) \cap Steps(result'[k]) # {}
               PROVE  j = k
    BY <1>7 DEF NoCommonStretch
  <2>4. CASE j \in 1 .. n /\ k \in 1 .. n
    BY <1>7, <2>1, <2>4 DEF NoCommonStretch
  <2>5. CASE j = n + 1 /\ k \in 1 .. n
    BY <1>7, <2>3, <2>5
  <2>6. CASE j \in 1 .. n /\ k = n + 1
    <3>1. Steps(path) \cap Steps(result[j]) # {}
      BY <1>7, <2>6
    <3> QED BY <2>3, <2>6, <3>1
  <2> QED BY <1>8, <2>4, <2>5, <2>6
<1> QED BY <1>1, <1>7, <1>9, <1>10, <1>11 DEF ResultInv

LEMMA StepClosed == ClosedInv /\ [Stitch]_vars => ClosedInv'
<1> SUFFICES ASSUME ClosedInv, [Stitch]_vars PROVE ResultInv'
  BY StepStitch DEF ClosedInv
<1>1. CASE UNCHANGED vars
  BY <1>1, SameResult DEF vars, ClosedInv, Finished, Pieces
<1>2. CASE Skip
  BY <1>2, SameResult DEF Skip, ClosedInv, Finished, Pieces
<1>3. CASE Begin
  <2>1. Range(coastline) = {} /\ ~isProcessed[i] /\ Range(coastline') = {i}
    BY <1>3 DEF Begin, Range
  <2>2. Finished' = Finished
    BY <1>3, <2>1 DEF Begin, Finished, Pieces
  <2> QED BY <1>3, <2>2, SameResult DEF Begin, ClosedInv
<1> QED BY <1>1, <1>2, <1>3, AttachResult, CloseResult DEF Stitch

LEMMA InitClosed ==
  ASSUME \A cs \in Worlds : WellCut(cs), Init
  PROVE  ClosedInv
<1>1. StitchInv
  BY InitStitch
<1>2. result = << >> /\ result \in Seq(Seq(CoastNodes)) /\ DOMAIN result = {}
  BY DEF Init
<1>3. Finished = {}
  BY DEF Init, Finished
<1> QED BY <1>1, <1>2, <1>3 DEF ClosedInv, ResultInv, StepsOf, NoCommonStretch

LEMMA ImageFinite ==
  ASSUME NEW S, IsFiniteSet(S), NEW F, DOMAIN F = S
  PROVE  IsFiniteSet({F[x] : x \in S})
<1> DEFINE T == {F[x] : x \in S}
           G == [x \in S |-> F[x]]
<1>1. G \in [S -> T] /\ \A t \in T : \E x \in S : G[x] = t
  OBVIOUS
<1>2. G \in Surjection(S, T)
  BY <1>1, Fun_IsSurj
<1> QED BY <1>2, FS_Surjection

LEMMA StretchesFinite ==
  ASSUME NEW paths, NEW n \in Nat, DOMAIN paths = 1 .. n, \A k \in 1 .. n : Len(paths[k]) \in Nat
  PROVE  IsFiniteSet(Stretches(paths))
<1> DEFINE Of == [k \in 1 .. n |-> {<<k, paths[k][m], paths[k][m + 1]>> : m \in 1 .. Len(paths[k]) - 1}]
           All == {Of[k] : k \in 1 .. n}
<1>1. ASSUME NEW k \in 1 .. n PROVE IsFiniteSet(Of[k])
  <2> DEFINE D == 1 .. Len(paths[k]) - 1
             F == [m \in D |-> <<k, paths[k][m], paths[k][m + 1]>>]
  <2>1. IsFiniteSet(D)
    BY FS_Interval
  <2>2. Of[k] = {F[m] : m \in D}
    OBVIOUS
  <2> HIDE DEF D, Of
  <2>3. IsFiniteSet({F[m] : m \in D})
    BY <2>1, ImageFinite
  <2> QED BY <2>2, <2>3
<1>2. Stretches(paths) = UNION All
  BY DEF Stretches
<1>3. DOMAIN Of = 1 .. n /\ IsFiniteSet(1 .. n)
  BY FS_Interval
<1> HIDE DEF Of
<1>4. IsFiniteSet(All)
  BY <1>3, ImageFinite
<1>5. \A T \in All : IsFiniteSet(T)
  BY <1>1
<1> QED BY <1>2, <1>4, <1>5, FS_UNION

\* Counting the stretches of paths that have none in common is counting steps.
LEMMA CountSteps ==
  ASSUME NEW paths, NoCommonStretch(paths), IsFiniteSet(Stretches(paths))
  PROVE  Cardinality(Stretches(paths)) = Cardinality(StepsOf(paths, DOMAIN paths))
<1> DEFINE S == Stretches(paths)
           T == StepsOf(paths, DOMAIN paths)
           F == [s \in S |-> <<s[2], s[3]>>]
<1>1. \A s \in S : \E k \in DOMAIN paths : \E m \in 1 .. Len(paths[k]) - 1 :
                   s = <<k, paths[k][m], paths[k][m + 1]>>
  BY DEF Stretches
<1>2. ASSUME NEW s \in S PROVE s[1] \in DOMAIN paths /\ <<s[2], s[3]>> \in Steps(paths[s[1]])
                              /\ s = <<s[1], s[2], s[3]>>
  BY <1>1 DEF Steps
<1>3. F \in [S -> T]
  BY <1>2 DEF StepsOf
<1>4. ASSUME NEW s \in S, NEW u \in S, F[s] = F[u] PROVE s = u
  <2>1. s[2] = u[2] /\ s[3] = u[3]
    BY <1>4
  <2>2. s[1] = u[1]
    BY <1>2, <2>1 DEF NoCommonStretch
  <2> QED BY <1>2, <2>1, <2>2
<1>5. ASSUME NEW x \in T PROVE \E s \in S : F[s] = x
  <2>1. PICK k \in DOMAIN paths : x \in Steps(paths[k])
    BY DEF StepsOf
  <2>2. PICK m \in 1 .. Len(paths[k]) - 1 : x = <<paths[k][m], paths[k][m + 1]>>
    BY <2>1 DEF Steps
  <2>3. <<k, paths[k][m], paths[k][m + 1]>> \in S
    BY DEF Stretches
  <2> QED BY <2>2, <2>3
<1>6. F \in Bijection(S, T)
  <2> HIDE DEF F, S, T
  <2> QED BY <1>3, <1>4, <1>5, Fun_IsBij
<1> QED BY <1>6, FS_Bijection DEF ExistsBijection

\* The coastlines that come out are closed and hold every stretch of coast that went
\* in exactly once, in whatever order the file has the pieces (stitchCoastlines,
\* PBFProcessing.cpp:25-72).
THEOREM CoastlinesClosed ==
  ASSUME \A cs \in Worlds : WellCut(cs) /\ NoCommonStretch(cs)
  PROVE  Spec => []CoastsClosed
<1>1. Init => ClosedInv /\ NoCommonStretch(coastlines)
  BY InitClosed DEF Init
<1>2. ClosedInv /\ NoCommonStretch(coastlines) /\ [Stitch]_vars
      => (ClosedInv /\ NoCommonStretch(coastlines))'
  <2> SUFFICES ASSUME NoCommonStretch(coastlines), [Stitch]_vars
               PROVE  coastlines' = coastlines
    BY StepClosed
  <2> QED BY DEF Stitch, Skip, Begin, Close, Attach, vars
<1>3. ASSUME ClosedInv, NoCommonStretch(coastlines), Stitched PROVE CoastsClosed
  <2>1. /\ TypeInv /\ PassedUsed /\ Chain /\ WellCut(coastlines) /\ ResultInv
        /\ Pieces = 1 .. Len(coastlines) /\ Len(coastlines) \in Nat
    BY <1>3, PieceNumbers DEF ClosedInv, StitchInv, TypeInv
  <2>2. coastline = << >> /\ \A k \in Pieces : isProcessed[k]
    BY <1>3, <2>1 DEF Stitched, PassedUsed, Chain
  <2>3. Finished = DOMAIN coastlines
    BY <2>1, <2>2 DEF Finished, Range, Pieces
  <2>4. StepsOf(result, DOMAIN result) = StepsOf(coastlines, DOMAIN coastlines)
    BY <2>1, <2>3 DEF ResultInv
  <2>5. ASSUME NEW paths PROVE {Tail(s) : s \in Stretches(paths)} = StepsOf(paths, DOMAIN paths)
    <3>1. ASSUME NEW a, NEW b, NEW c PROVE Tail(<<a, b, c>>) = <<b, c>>
      OBVIOUS
    <3>2. ASSUME NEW s \in Stretches(paths) PROVE Tail(s) \in StepsOf(paths, DOMAIN paths)
      <4>1. PICK k \in DOMAIN paths : \E m \in 1 .. Len(paths[k]) - 1 :
                   s = <<k, paths[k][m], paths[k][m + 1]>>
        BY DEF Stretches
      <4>2. PICK m \in 1 .. Len(paths[k]) - 1 : s = <<k, paths[k][m], paths[k][m + 1]>>
        BY <4>1
      <4>3. Tail(s) = <<paths[k][m], paths[k][m + 1]>>
        BY <3>1, <4>2
      <4> QED BY <4>3 DEF StepsOf, Steps
    <3>3. ASSUME NEW k \in DOMAIN paths, NEW m \in 1 .. Len(paths[k]) - 1
          PROVE  <<paths[k][m], paths[k][m + 1]>> \in {Tail(s) : s \in Stretches(paths)}
      <4>1. <<k, paths[k][m], paths[k][m + 1]>> \in Stretches(paths)
        BY DEF Stretches
      <4> QED BY <3>1, <4>1
    <3>4. ASSUME NEW x \in StepsOf(paths, DOMAIN paths) PROVE x \in {Tail(s) : s \in Stretches(paths)}
      <4>1. PICK k \in DOMAIN paths : x \in Steps(paths[k])
        BY DEF StepsOf
      <4>2. PICK m \in 1 .. Len(paths[k]) - 1 : x = <<paths[k][m], paths[k][m + 1]>>
        BY <4>1 DEF Steps
      <4> QED BY <3>3, <4>2
    <3> QED BY <3>2, <3>4
  <2>6. {Tail(s) : s \in Stretches(result)} = {Tail(s) : s \in Stretches(coastlines)}
    BY <2>4, <2>5
  <2>7. Cardinality(Stretches(result)) = Cardinality(Stretches(coastlines))
    <3>1. IsFiniteSet(Stretches(coastlines))
      <4>1. \A k \in 1 .. Len(coastlines) : Len(coastlines[k]) \in Nat
        BY <2>1, PieceFacts DEF Pieces
      <4> QED BY <2>1, <4>1, StretchesFinite DEF Pieces
    <3>2. IsFiniteSet(Stretches(result))
      <4>1. /\ Len(result) \in Nat /\ DOMAIN result = 1 .. Len(result)
            /\ \A k \in 1 .. Len(result) : Len(result[k]) \in Nat
        BY <2>1 DEF ResultInv
      <4> QED BY <4>1, StretchesFinite
    <3>3. NoCommonStretch(result)
      BY <1>3, <2>1 DEF ResultInv
    <3> QED BY <1>3, <2>4, <3>1, <3>2, <3>3, CountSteps
  <2> QED BY <2>1, <2>6, <2>7 DEF CoastsClosed, ResultInv
<1>4. ClosedInv /\ NoCommonStretch(coastlines) => CoastsClosed
  BY <1>3 DEF CoastsClosed
<1> QED BY <1>1, <1>2, <1>4, PTL DEF Spec
=============================================================================

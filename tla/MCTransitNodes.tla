--------------------------- MODULE MCTransitNodes ---------------------------
\* The networks of each run of TransitNodes.
EXTENDS TransitNodes, Waters

CONSTANT Family

Chosen ==
  CASE Family = "waters" ->
         Coasts(8, Columns, 4, {East}) \cup Coasts(8, {2}, 6, Slants)
         \cup {g \in Coasts(8, {6}, 3, {East, South, Stay}) : NoCorner(g)}
         \cup Rings({0, 6}, {3, 10})
         \cup UNION {Lanes({2, 13}, R, fast) : R \in {{0, 9}, {1, 4, 7}}, fast \in {{0}, {2, 5}}}
         \cup UNION {Islands(8, <<2, 3>>, 1, costs) : costs \in {<<1, 1>>, <<1, 3>>}}
         \cup Islands(8, <<2, 8>>, -1, <<1, 3>>)
    [] Family = "corner"  -> Coasts(N, {6}, 3, {East, South})
    [] Family = "two waters" -> Lanes({2}, {}, {0})

\* What the theorems of TransitNodesProofs assume of the networks (the second, slow to
\* evaluate, for one network of the smaller runs).
ASSUME CrossingsArePlain == \A g \in Chosen : PlainCrossings(g)
ASSUME OneSuffices == Family \in {"corner", "two waters"} => SearchesSuffice(CHOOSE g \in Chosen : TRUE)
=============================================================================

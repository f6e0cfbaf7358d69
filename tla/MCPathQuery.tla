----------------------------- MODULE MCPathQuery -----------------------------
\* The networks for the run of PathQuery.
EXTENDS PathQuery, LineMeetings, Waters

CONSTANT Family

Chosen ==
  CASE Family = "lanes" -> UNION {Lanes({15}, R, {0, 6, 10}) : R \in {{0, 11}, {3, 8}, {0, 4, 9}}}

\* What the theorems of PathQueryProofs assume of the lines, evaluated for one network.
ASSUME OneIsMet ==
  \A g \in {CHOOSE g \in Chosen : TRUE} : LinesMeetPaths(g) /\ LinesConnect(g)
=============================================================================

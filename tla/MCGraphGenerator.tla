-------------------------- MODULE MCGraphGenerator --------------------------
\* Every choice of neighbours among N nodes, of the one candidate that is not
\* water, and of its kind; one more candidate lies behind the last full range.
EXTENDS GraphGenerator

AllWorlds ==
  {[ kind   |-> [c \in Candidates |-> IF c = other THEN kind ELSE "water"],
     near   |-> [v \in Nodes |-> SetToSeq(near[v])],
     metres |-> [p \in Nodes \X Nodes |-> 1 + p[1] + p[2]] ] :
     other \in 0 .. CandidateCount - 2, kind \in {"land", "polar"},
     near \in {f \in [Nodes -> SUBSET Nodes] : \A v \in Nodes : v \notin f[v]}}
=============================================================================

CONSTANTS
  N = 3
  MaxInt = 10
  ThreadCount = 2
  CandidateCount = 5
  Worlds <- AllWorlds
SPECIFICATION Spec
INVARIANTS TypeOK WaterKept EdgesBothWays EachEdgeOnce FileIsGraph
PROPERTY GenerationEnds

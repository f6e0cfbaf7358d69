CONSTANTS
  Parallel <- ParallelTable
  Meridian <- MeridianTable
  SouthPole <- South
  Points <- AllPoints
  Worlds <- SomeWorlds
SPECIFICATION LandSpec
INVARIANTS CoastsClosed LandIsLand
PROPERTIES EachPieceOnce StitchEnds
CHECK_DEADLOCK FALSE

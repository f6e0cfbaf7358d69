CONSTANTS
  Parallel <- ParallelTable
  Meridian <- MeridianTable
  SouthPole <- South
  Points <- AllPoints
  Worlds <- TouchingWorlds
SPECIFICATION LandSpec
PROPERTY EachPieceOnce

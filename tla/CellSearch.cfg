CONSTANTS
  NLon = 24
  Reach = 13815040
  Cos <- CosTable
  Hav <- HavTable
  Far = 2
  Places <- SomePlaces
  NodesAround <- Around
SPECIFICATION Spec
INVARIANTS StaysInside QuarterExact ClosestExact
CHECK_DEADLOCK FALSE

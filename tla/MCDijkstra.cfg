CONSTANTS
  N = 3
  MaxInt = 10
  Costs = {0, 2}
  Graphs <- AllGraphs
SPECIFICATION Spec
INVARIANTS Inv NoOverflow SettledInOrder SsspExact
PROPERTIES IsShortestPath Termination

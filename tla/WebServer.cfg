CONSTANTS
  c1 = c1
  c2 = c2
  Conns = {c1, c2}
  Plans <- MCPlans
SPECIFICATION Spec
INVARIANTS ContentWhole NothingLost AlwaysTimed StaysUp
PROPERTY ConnectionsEnd
CHECK_DEADLOCK FALSE

CONSTANTS
  N = 24
  MaxInt = 2147
  GridSize = 20
  Unset = 2000
  Missing = 20
  Family = "lanes"
  Networks <- Chosen
SPECIFICATION PathSpec
INVARIANTS TablesFit RemainingIsDistance PathIsShortest
PROPERTY WalksEnd
CHECK_DEADLOCK FALSE

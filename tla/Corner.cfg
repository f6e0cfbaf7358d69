CONSTANTS
  N = 8
  MaxInt = 2147
  GridSize = 20
  Unset = 2000
  Missing = 20
  Family = "corner"
  Networks <- Chosen
SPECIFICATION Spec
INVARIANTS QueryExact


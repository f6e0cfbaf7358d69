CONSTANTS
  N = 12
  MaxInt = 2147
  GridSize = 12
  Unset = 2000
  Missing = 20
  Family = "two waters"
  Networks <- Chosen
SPECIFICATION Spec
INVARIANTS NeverShorter


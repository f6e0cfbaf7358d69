CONSTANTS
  N = 20
  MaxInt = 2147
  GridSize = 20
  Unset = 2000
  Missing = 20
  Family = "waters"
  Networks <- Chosen
SPECIFICATION Spec
INVARIANTS TypeOK AllCrossingsFiled LocalDistancesExact LocalDistancesComplete QueryExact
PROPERTY DuplicatesAgree


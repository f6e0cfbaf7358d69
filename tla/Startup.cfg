CONSTANTS
  MaxFaults = 4
  Attended = TRUE
SPECIFICATION Spec
INVARIANTS TypeOK TablesBesideNetwork ServesOwnTables
PROPERTIES WholeFilesStay ServesInTheEnd

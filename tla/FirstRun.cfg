CONSTANTS
  MaxFaults = 0
  Attended = FALSE
SPECIFICATION Spec
INVARIANT RunsEndInServing

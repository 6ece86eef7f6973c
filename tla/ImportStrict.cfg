SPECIFICATION Spec
CONSTANTS
  N = 2
  Modes <- StrictOnly
  Workers = 2
INVARIANTS
  StrictReportsFailure
CHECK_DEADLOCK FALSE

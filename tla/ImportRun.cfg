SPECIFICATION Spec
CONSTANTS
  N = 3
  Modes <- Both
  Workers = 2
INVARIANTS
  ReportIsTrue
  ChecksComeFirst
  ScheduleFree
  WorkdirOutlivesImages
PROPERTIES
  ImportReturns
CHECK_DEADLOCK FALSE

SPECIFICATION ExportSpec
CONSTANTS
  p = p
  q = q
  r = r
  Order <- MCOrder
  WorkersArg = 2
  MaxRuns = 2
  MaxFaults = 1
INVARIANTS
  SpooledAsServed
  PrimingIsFailSoft
  ArchiveIsComplete
  WorkdirEmptied
PROPERTIES
  ExportReturns
CHECK_DEADLOCK FALSE

SPECIFICATION Spec
CONSTANTS
  N <- MCN
  Times <- MCTimes
  Delays <- MCDelays
  Unit <- MCUnit
  Cap <- MCCap
  Half <- MCHalf
INVARIANT SourcesAccounted
INVARIANT RetriedInMeasure
INVARIANT ExitTellsCause
INVARIANT ResolvedAsGiven
CHECK_DEADLOCK FALSE

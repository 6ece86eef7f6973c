SPECIFICATION Spec
CONSTANTS
  Runs <- MCRuns
  Targets <- MCTargets
  LayerOf <- MCLayerOf
  Strangers <- MCStrangers
INVARIANT AppliedIsRecorded
INVARIANT VerifiedIsSigned
INVARIANT FileDecides
CHECK_DEADLOCK FALSE

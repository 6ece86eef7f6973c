SPECIFICATION Spec
CONSTANTS
  Images <- MCImages
  LayersOf <- MCLayersOf
  Table <- MCTable
  Outputs <- MCOutputs
  MaxFaults <- MCMaxFaults
INVARIANT AppliedIsThere
INVARIANT OneScratchFile
INVARIANT FailureHasCause

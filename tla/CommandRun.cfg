SPECIFICATION Spec
CONSTANTS
  Multiplier <- MCMultiplier
  Limit <- MCLimit
  Invocations <- MCInvocations
  Sources <- MCSources
  Blobs <- MCBlobs
  Platforms <- MCPlatforms
  Bundles <- MCBundles
INVARIANT NeverClamped
INVARIANT RankedIsBest
INVARIANT RefusedCleanly
CHECK_DEADLOCK FALSE

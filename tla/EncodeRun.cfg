SPECIFICATION MCSpec
CONSTANTS
  x = x
  y = y
  z = z
  p = p
  q = q
  oci = oci
  docker = docker
  Jobs <- MCJobs
  Order <- MCOrder
  DigestOf <- MCDigestOf
  MediaOf <- MCMediaOf
  Ranked <- MCRanked
  Raw <- MCRaw
  FullZstd <- MCFullZstd
  PatchSize <- MCPatchSize
  IntraLayer = TRUE
  Workers = 2
INVARIANTS
  PoolComplete
  OnlyReadErrorsAbort
  Deterministic
PROPERTIES
  EncodeEnds
CHECK_DEADLOCK FALSE

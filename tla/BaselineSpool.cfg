SPECIFICATION Spec
CONSTANTS
  x = x
  y = y
  NoCall = NoCall
  Calls <- MCCalls
  Digests = {x, y}
  DigestOf <- MCDigestOf
  Source <- MCSource
INVARIANTS
  PathIsVerified
  FetchedOnce
  NoLeftovers
PROPERTIES
  CachePromise
  CallsReturn
CHECK_DEADLOCK FALSE

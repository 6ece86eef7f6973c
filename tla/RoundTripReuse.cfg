SPECIFICATION TripSpec
CONSTANTS
  i1 = i1
  i2 = i2
  a = a
  b = b
  c = c
  Junk = Junk
  Images <- MCImages
  Digests <- MCDigests
  MaxLayers = 2
SYMMETRY MCSymmetry
INVARIANTS
  RoundTripAlwaysHolds
CHECK_DEADLOCK FALSE

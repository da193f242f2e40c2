SPECIFICATION Spec
CONSTANTS
  G = 2
  srcTag = srcTag
  dstTag = dstTag
  LA = la
  Inv = inv
  Granule <- MCGranule
  Buffer <- MCBuffer
  MaxN = 4
  MaxCopies = 1
INVARIANTS TypeOK IcvFaultNeedsInterrupt
PROPERTIES NeighboursKept TripwiresCopied FixupApplied

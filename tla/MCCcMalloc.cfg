CONSTANTS
  Block = {b1, b2, b3, b4, b5}
  Boxable = {b1, b2, b3, b4}
  Null = Null
  LA = LA
  SlotSize = 2
  Granules = 2
  Sizes = {1, 4}
  Versions = 2
  QUARANTINE_WIDTH = 2
  QUARANTINE_DEPTH = 2
  Detect1B = TRUE
  FaultOnRead = TRUE
SYMMETRY BlockSymmetry
SPECIFICATION Spec
INVARIANTS QuarantineExact IcvsMatchHolder DanglingDetected
PROPERTY QuarantineDelays
CHECK_DEADLOCK FALSE

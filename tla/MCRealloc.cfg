CONSTANTS
  Block = {b1, b2}
  Boxable = {b1, b2}
  Null = Null
  LA = LA
  SlotSize = 2
  Granules = 2
  Sizes = {1, 2, 3, 4}
  Versions = 2
  QUARANTINE_WIDTH = 2
  QUARANTINE_DEPTH = 2
  Detect1B = TRUE
  FaultOnRead = TRUE
SYMMETRY BlockSymmetry
SPECIFICATION Spec
INVARIANT ReallocSurvives
CHECK_DEADLOCK FALSE

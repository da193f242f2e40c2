CONSTANTS
  Granule = {1, 2}
  Tags = {a, b}
  LA = LA
  Ones = Ones
  FaultOnWrite = TRUE
  FaultOnRead = TRUE
SYMMETRY TagSymmetry
SPECIFICATION Spec
INVARIANTS TaggedDataIsOwners InitNeedsStore
PROPERTY InvalidStays

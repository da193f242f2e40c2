SPECIFICATION Spec
CONSTANTS
  PageSize = 8
  Pages = {4, 5, 6, 7}
  Swapped = {4, 7}
  BoundGranule = 2
  HeapMinChunk = 3
  SlotSizes = {4, 8, 16, 32}
  Limit1 = 4
  Limit2 = 8
  BigMeta = 4
  Allocs <- MCAllocs
  Starts <- MCStarts
  AccessSizes = {2, 5}
  MaxWrites = 2
INVARIANTS TypeOK MetadataKept ReadsLastWrite OwnObjectOnly FaultsJustified
PROPERTIES PlacesApart
CHECK_DEADLOCK FALSE

CONSTANTS
  PLAINTEXT_SIZE = 2
  AddrBits = 4
  Noise = 4
  PageSize = 2
  Pages = {2, 3}
  Boxes <- MCBoxes
  StackBox <- MCStackBox
  MaxWarnings = 3
  Starts = {5, 6, 7}
SPECIFICATION Spec
INVARIANTS TypeOK EncryptedByPointer CrossFailNeedsFault SlotConfines RspKept
  BoxRoundTrip

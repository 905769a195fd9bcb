SPECIFICATION FairSpec
CONSTANTS
  Kinds <- EveryKind
  Contents <- SomeTexts
  LobReadLength = 2
  BufferSizes = {6, 9}
  U32 = 16
  MaxFaults = 1
CHECK_DEADLOCK FALSE
INVARIANTS
  NothingIsLost
  ReadsAreText
  BufferIsBounded
  SliceIsAnswered
PROPERTIES
  ReadsReturn

SPECIFICATION Spec
CONSTANTS
  Kinds = {"CLOB", "NCLOB"}
  Contents <- UpToTwo
  LobReadLength = 2
  BufferSizes = {6}
  U32 = 16
  MaxFaults = 0
CHECK_DEADLOCK FALSE
INVARIANTS
  SlicesAreReturned

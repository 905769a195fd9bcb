SPECIFICATION FairSpec
CONSTANTS
  N = 4
  FetchSize = 2
  Faults <- EveryFault
  MaxFaults = 2
CHECK_DEADLOCK FALSE
INVARIANTS
  NoRowTwice
  NoRowMissing
  ReleasedInOrder
PROPERTIES
  TotalIsRight
  CallsEnd

SPECIFICATION FairSpec
CONSTANTS
  Statements <- SomeStatements
  Values <- SomeValues
  WriteLengths = {2, 4}
  MaxRead = 5
  Faults = {"error", "lostRequest", "lostReply", "eof", "garbage", "closing", "reader"}
  MaxFaults = 1
CHECK_DEADLOCK FALSE
INVARIANTS
  LobsArrive
  ChunksAreCut
  TextIsAccepted
  RowsOnce
  ResultsInOrder
  StatementIsDropped
PROPERTIES
  BatchIsExact
  ExecutionsReturn

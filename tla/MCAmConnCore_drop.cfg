SPECIFICATION Spec
CONSTANTS
  t1 = t1  t2 = t2  c1 = c1  c2 = c2
  Threads <- OneThread
  Creator = t1
  Calls <- TwoCalls
  NoThread = NoThread
  NoCall = NoCall
  ReplyKinds = {"resultset"}
  StraySeqs = {0, 3}
  Faults = {"reset", "cut"}
  MaxFaults = 1
  MaxInfo = 0
INVARIANTS
  DropDoesNotBlockItself
CHECK_DEADLOCK FALSE

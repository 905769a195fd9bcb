SPECIFICATION Spec
CONSTANTS
  t1 = t1  t2 = t2  c1 = c1  c2 = c2
  Threads <- OneThread
  Creator = t1
  Calls <- TwoCalls
  NoThread = NoThread
  NoCall = NoCall
  ReplyKinds = {"plain"}
  StraySeqs = {0}
  Faults = {"parse"}
  MaxFaults = 0
  MaxInfo = 0
INVARIANTS
  SuccessMeansExecuted
CHECK_DEADLOCK FALSE

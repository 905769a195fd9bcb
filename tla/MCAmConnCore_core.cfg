SPECIFICATION FairSpec
CONSTANTS
  t1 = t1  t2 = t2  c1 = c1  c2 = c2
  Threads <- TwoThreads
  Creator = t1
  Calls <- TwoCalls
  NoThread = NoThread
  NoCall = NoCall
  ReplyKinds = {"warning", "flags", "closing", "error", "fatal", "errors", "resultset"}
  StraySeqs = {0, 3}
  Faults = {"reset", "close", "cut", "parse", "refuse"}
  MaxFaults = 2
  MaxInfo = 1
INVARIANTS
  TypeOK
  ReplyBelongsToCall
  OkMeansExecuted
  RepeatOnFreshConnection
  CallsAreInSession
  ClientInfoDelivered
PROPERTIES
  PoisonSilences
  StatementSequenceGrows
  ImplementsRemoteCalls
  EveryCallReturns
CHECK_DEADLOCK FALSE

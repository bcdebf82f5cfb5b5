SPECIFICATION FairSpec
CONSTANTS
  Clients = {c1, c2}
  Threads = {t1}
  MaxCalls = 2
  Junk = Junk
  NoOp = NoOp
CHECK_DEADLOCK FALSE
PROPERTIES
  SyncReturns

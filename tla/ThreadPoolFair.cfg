SPECIFICATION FairSpec
CONSTANTS
  Clients = {c1, c2}
  Threads = {t1, t2}
  MaxCalls = 3
  Junk = Junk
  NoOp = NoOp
CHECK_DEADLOCK FALSE
INVARIANTS
  FrameAlive
  HeldOnce
  NoneStranded
PROPERTIES
  SyncReturnsAlone
  DestructorEnds

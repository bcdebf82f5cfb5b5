SPECIFICATION FairSpec
CONSTANTS
  k1 = k1
  k2 = k2
  v1 = v1
  Clients = {c1, c2}
  Commands = {m1, m2}
  Keys = {k1, k2}
  RefusedKeys = {k2}
  Values = {v1}
  Nil = Nil
  Freed = Freed
  NoCommand = NoCommand
  Requests <- LiveCalls
CHECK_DEADLOCK FALSE
PROPERTIES
  CallsReturn
  ShutdownEnds

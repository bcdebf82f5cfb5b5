SPECIFICATION Spec
CONSTANTS
  k1 = k1
  k2 = k2
  v1 = v1
  Clients = {c1, c2}
  Commands = {m1, m2}
  Keys = {k1, k2}
  RefusedKeys = {}
  Values = {v1}
  Nil = Nil
  Freed = Freed
  NoCommand = NoCommand
  Requests <- SafetyCalls
SYMMETRY Symmetry
CHECK_DEADLOCK FALSE
INVARIANTS
  NoLostWakeup
  CookieValid
  BufferAlive
  CleanShutdown
PROPERTIES
  AnswersFinal

CONSTANTS
  Idx = {0, 1, 2}
  MaxId = 1
  Hash = {zero, other}
  ZeroHash = zero
  NoHash = none
  Setters = {s1, s2}
  Waiters = {v1, v2}
  Nobody = nobody
  MaxSets = 2
SPECIFICATION CacheSpec
INVARIANTS CacheTypeOK NoLostWakeup
PROPERTIES WaiterReturns ImplementsBoard
CHECK_DEADLOCK FALSE

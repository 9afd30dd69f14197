SPECIFICATION FairSpec
CONSTANTS
  c1 = c1
  c2 = c2
  c3 = c3
  s1 = s1
  s2 = s2
  Callers = {c1, c2, c3}
  Sessions = {s1, s2}
  MaxConcurrent = 2
  NoSession = NoSession
  Faults <- OnlyWake
INVARIANTS
  QuiescentIdle
  NoLeakedSlot
PROPERTIES
  ImplementsSerialChains
  EveryCallReturns
CHECK_DEADLOCK FALSE

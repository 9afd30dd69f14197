SPECIFICATION FairSpec
CONSTANTS
  c1 = c1
  c2 = c2
  s1 = s1
  Callers = {c1, c2}
  Sessions = {s1}
  MaxConcurrent = 0
  NoSession = NoSession
  Faults <- OnlyFail
PROPERTIES
  EventuallyComplete
CHECK_DEADLOCK FALSE

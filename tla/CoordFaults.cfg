SPECIFICATION Spec
CONSTANTS
  c1 = c1
  c2 = c2
  c3 = c3
  s1 = s1
  s2 = s2
  Callers = {c1, c2, c3}
  Sessions = {s1, s2}
  MaxConcurrent = 1
  NoSession = NoSession
  Faults <- AllFaults
SYMMETRY Symmetry
INVARIANTS
  TypeOK
  LoopExclusive
  OrphansWereGivenUp
CHECK_DEADLOCK FALSE

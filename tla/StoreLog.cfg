SPECIFICATION Spec
CONSTANTS
  w1 = w1
  w2 = w2
  w3 = w3
  a1 = a1
  a2 = a2
  Appends = {w1, w2, w3}
  Aggregates = {a1, a2}
  MaxBatch = 2
  ReadLimit = 1
  NoAggregate = NoAggregate
  Faults <- OnlyCommit
SYMMETRY Symmetry
INVARIANTS
  Contiguous
  FeedComplete
PROPERTIES
  ImplementsEventLog
CHECK_DEADLOCK FALSE

SPECIFICATION Spec
CONSTANTS
  w1 = w1
  w2 = w2
  a1 = a1
  a2 = a2
  Appends = {w1, w2}
  Aggregates = {a1, a2}
  MaxBatch = 2
  ReadLimit = 1
  NoAggregate = NoAggregate
  Faults <- OnlyError
SYMMETRY Symmetry
INVARIANTS
  Durable
CHECK_DEADLOCK FALSE

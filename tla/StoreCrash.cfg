SPECIFICATION FairSpec
CONSTANTS
  w1 = w1
  w2 = w2
  a1 = a1
  a2 = a2
  Appends = {w1, w2}
  Aggregates = {a1, a2}
  MaxBatch = 2
  ReadLimit = 1
  NoAggregate = NoAggregate
  Faults <- NoRollback
INVARIANTS
  Durable
PROPERTIES
  EveryAppendReturns
  EventsReachSubscriber
CHECK_DEADLOCK FALSE

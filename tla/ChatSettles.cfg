SPECIFICATION FairSpec
CONSTANTS
  r1 = r1
  r2 = r2
  p1 = p1
  Streams = {r1, r2}
  Stops = {p1}
  Session = Session
  NoSession = NoSession
  NoStream = NoStream
  Faults = {"leave", "slow", "fail"}
INVARIANTS
  StatusSettled
PROPERTIES
  EveryStreamEnds
CHECK_DEADLOCK FALSE

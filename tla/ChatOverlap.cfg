SPECIFICATION Spec
CONSTANTS
  r1 = r1
  r2 = r2
  r3 = r3
  p1 = p1
  Streams = {r1, r2, r3}
  Stops = {p1}
  Session = Session
  NoSession = NoSession
  NoStream = NoStream
  Faults = {}
SYMMETRY Symmetry
INVARIANTS
  OneAtATime
CHECK_DEADLOCK FALSE

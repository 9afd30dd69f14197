SPECIFICATION Spec
CONSTANTS
  r1 = r1
  r2 = r2
  r3 = r3
  Streams = {r1, r2, r3}
  Stops = {}
  Session = Session
  NoSession = NoSession
  NoStream = NoStream
  Faults <- FaultKinds
SYMMETRY Symmetry
INVARIANTS
  TypeOK
  ExclusiveUntilRejected
  NoStaleRegistration
  NoForgottenAgent
CHECK_DEADLOCK FALSE

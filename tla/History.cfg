SPECIFICATION Spec
CONSTANTS
  Handles = {h1, h2}
  Compactions = {c1, c2}
  ReadLimit = 5
  MaxEvents = 6
  NoHandle = NoHandle
SYMMETRY Symmetry
CHECK_DEADLOCK FALSE
INVARIANTS TypeOK HistoryIsWhatRemains BrokenOnlyByStaleHandle EpochsFollowLog SeesItsOwnWrites

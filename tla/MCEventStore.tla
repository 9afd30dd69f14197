--------------------------- MODULE MCEventStore ---------------------------
(***************************************************************************)
(* Instances of EventStore for TLC.                                        *)
(***************************************************************************)
EXTENDS EventStore, TLC

Symmetry == Permutations(Appends) \cup Permutations(Aggregates)

AllFaults     == FaultKinds
OnlyCommit    == {"commit"}
OnlyError     == {"error"}
NoRollback    == {"commit", "crash"}
===========================================================================

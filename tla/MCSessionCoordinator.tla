----------------------- MODULE MCSessionCoordinator -----------------------
(***************************************************************************)
(* Instances of SessionCoordinator for TLC.  Callers and sessions are      *)
(* interchangeable model values, which the runs without liveness exploit.  *)
(***************************************************************************)
EXTENDS SessionCoordinator, TLC

Symmetry == Permutations(Callers) \cup Permutations(Sessions)

AllFaults == FaultKinds
OnlyFail  == {"fail"}
OnlyWake  == {"wake"}
===========================================================================

---------------------------- MODULE SerialChains ----------------------------
(***************************************************************************)
(* What core/coordinator.py promises in its first paragraph: "only one     *)
(* active processing chain per session".  A chain starts only in a session *)
(* where none is alive, and the next one only after it ended.              *)
(***************************************************************************)
CONSTANTS Sessions, Chains

VARIABLE alive   \* the chains that are alive in each session

Init == alive = [s \in Sessions |-> {}]

Start(s, k) ==
  /\ alive[s] = {}
  /\ alive' = [alive EXCEPT ![s] = {k}]

End(s, k) ==
  /\ alive[s] = {k}
  /\ alive' = [alive EXCEPT ![s] = {}]

Next == \E s \in Sessions, k \in Chains : Start(s, k) \/ End(s, k)

Spec == Init /\ [][Next]_alive
=============================================================================

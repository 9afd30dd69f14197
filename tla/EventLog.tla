------------------------------ MODULE EventLog ------------------------------
(***************************************************************************)
(* The promise behind storage/event_store.py: every aggregate is a log     *)
(* that only grows at its end, and the events of one append() stand next   *)
(* to each other.  An entry names the call that wrote it; its position is  *)
(* its sequence number.                                                    *)
(***************************************************************************)
EXTENDS Naturals, Sequences

CONSTANTS Aggregates, Writers

VARIABLE log

Init == log = [a \in Aggregates |-> <<>>]

\* w has written nothing yet.
Fresh(w) == \A a \in Aggregates : \A i \in DOMAIN log[a] : log[a][i] # w

\* A writer goes on with the batch it began, or begins one.
Extend(a, w) ==
  /\ Fresh(w) \/ (log[a] # <<>> /\ log[a][Len(log[a])] = w)
  /\ log' = [log EXCEPT ![a] = Append(@, w)]

Next == \E a \in Aggregates, w \in Writers : Extend(a, w)

Spec == Init /\ [][Next]_log
=============================================================================

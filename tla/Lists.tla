-------------------------------- MODULE Lists --------------------------------
(***************************************************************************)
(* Lists as the program builds them.                                       *)
(***************************************************************************)
EXTENDS Naturals, Sequences, FiniteSets

\* The items of s at the given places, in their order: what a list
\* comprehension with a condition keeps.
ItemsAt(s, places) ==
  [i \in 1..Cardinality(places) |->
     s[CHOOSE k \in places : Cardinality({j \in places : j <= k}) = i]]

\* The sums of the first of some numbers, and of all of them.
SumsOf(numbers) ==
  LET sums[k \in 0..Len(numbers)] == IF k = 0 THEN 0 ELSE sums[k - 1] + numbers[k] IN sums

SumOf(numbers) == SumsOf(numbers)[Len(numbers)]

\* The items of some lists, one list after the other.
JoinsOf(lists) ==
  LET joins[k \in 0..Len(lists)] == IF k = 0 THEN <<>> ELSE joins[k - 1] \o lists[k] IN joins

Joined(lists) == JoinsOf(lists)[Len(lists)]

\* The items of s that are in the set kept.
Only(s, kept) == Joined([k \in DOMAIN s |-> IF s[k] \in kept THEN <<s[k]>> ELSE <<>>])
=============================================================================

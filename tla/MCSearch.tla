------------------------------ MODULE MCSearch ------------------------------
(* Three days of two milliseconds, two zones a millisecond apart. *)
EXTENDS Search, TLC

CONSTANTS a, note, task

\* A record without tags and one with, of different types: a file with both is
\* selected by queries that neither answers.
TwoLabels == {[tags |-> {}, type |-> note], [tags |-> {a}, type |-> task]}

Ticks == {3, 4, 5, 8, 12}
Zones == {-2, 0}

Symmetry == Permutations(RecId)
=============================================================================

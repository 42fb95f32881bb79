------------------------------ MODULE MCFlock ------------------------------
(* Two processes, three goroutines, as many descriptions. *)
EXTENDS Flock, TLC

CONSTANTS a1, a2, a3, server, other

Goroutines == a1 :> server @@ a2 :> server @@ a3 :> other

\* Descriptions are interchangeable.
Symmetry == Permutations(Fd)
=============================================================================

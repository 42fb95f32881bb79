---------------------------- MODULE MCLifecycle ----------------------------
(* Instances of Lifecycle for TLC. *)
EXTENDS Lifecycle, TLC

Requests == [append |-> 3, compact |-> 2]

\* Processes, handlers and records are interchangeable.
Symmetry == Permutations(Process) \cup Permutations(Slot) \cup Permutations(RecId)
=============================================================================

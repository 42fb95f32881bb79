---------------------------- MODULE MCDurability ----------------------------
(* Instances of Durability for TLC. *)
EXTENDS Durability

CONSTANTS r1, r2, r3, c1, c2, p1, p2

\* A partition with one line from before revisions existed.
LegacyLine == <<[id |-> r1, rev |-> 0, by |-> <<>>]>>

Requests(append, submit, list, resolve, compact) ==
  [append |-> append, submit |-> submit, list |-> list,
   resolve |-> resolve, compact |-> compact]

\* Two candidates of one version, the second compacted after the first.
PowerQuota == Requests(1, 2, 0, 2, 2)
OneOfEach == Requests(1, 1, 0, 1, 1)

\* Workers and candidates are interchangeable: nothing orders either.
Symmetry == Permutations(Worker) \cup Permutations(CandId)
=============================================================================

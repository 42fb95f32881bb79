---------------------------- MODULE MCPartition ----------------------------
(* Instances of Partition for TLC. *)
EXTENDS Partition

CONSTANTS r1, r2, r3, c1, c2, p1, p2, p3

\* A partition with one line from before revisions existed.
LegacyLine == <<[id |-> r1, rev |-> 0, by |-> <<>>]>>

Requests(append, submit, list, resolve, compact) ==
  [append |-> append, submit |-> submit, list |-> list,
   resolve |-> resolve, compact |-> compact]

FailureQuota == Requests(1, 2, 0, 2, 2)
LivenessQuota == Requests(2, 1, 1, 1, 2)
OneOfEach == Requests(2, 1, 0, 1, 1)

\* Workers and candidates are interchangeable: nothing orders either.
Symmetry == Permutations(Worker) \cup Permutations(CandId)
=============================================================================

---------------------------- MODULE ReaderWriter ----------------------------
(***************************************************************************)
(* What a partition lock promises to its users: any number of readers or   *)
(* one writer, and a dead process holds nothing.  This is the lock the     *)
(* handlers of module Partition use; module Flock implements it.           *)
(***************************************************************************)
EXTENDS RWLockOps

CONSTANT Acquirer   \* the goroutines, of any process, that use the lock file

VARIABLE lock

Init == lock = Unlocked

AcquireShared(a) ==
  /\ a \notin Holders(lock)
  /\ CanShare(lock)
  /\ lock' = Share(lock, a)

AcquireExclusive(a) ==
  /\ CanExclude(lock)
  /\ lock' = Exclude(lock, a)

\* One holder releases, or a process dies and all its holders with it.
Drop(S) ==
  /\ lock' = [shared |-> lock.shared \ S, exclusive |-> lock.exclusive \ S]

Next ==
  \/ \E a \in Acquirer : AcquireShared(a) \/ AcquireExclusive(a)
  \/ \E S \in SUBSET Acquirer : Drop(S)

Spec == Init /\ [][Next]_lock
=============================================================================

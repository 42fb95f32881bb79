----------------------------- MODULE RWLockOps -----------------------------
(***************************************************************************)
(* The state of one reader-writer lock file, as its users see it: who      *)
(* holds it shared and who holds it exclusive.  flock(2) grants a request  *)
(* when no other open file description holds a conflicting lock; every     *)
(* acquisition opens a description of its own (pkg/flock/flock.go), so a   *)
(* description and the worker that opened it are interchangeable here.     *)
(* Module Flock models the descriptions themselves.                        *)
(***************************************************************************)

\* A lock file nobody holds.
Unlocked == [shared |-> {}, exclusive |-> {}]

\* The lock states of the holders in P.
LockStates(P) == [shared : SUBSET P, exclusive : SUBSET P]

\* LOCK_SH is granted: nobody holds the lock exclusive.
CanShare(lock) == lock.exclusive = {}

\* LOCK_EX is granted: nobody holds the lock at all.
CanExclude(lock) == lock.shared = {} /\ lock.exclusive = {}

Share(lock, p) == [lock EXCEPT !.shared = @ \cup {p}]

Exclude(lock, p) == [lock EXCEPT !.exclusive = @ \cup {p}]

\* Guard.Release: LOCK_UN and close; a second call does nothing.
Unlock(lock, p) == [shared |-> lock.shared \ {p}, exclusive |-> lock.exclusive \ {p}]

Holders(lock) == lock.shared \cup lock.exclusive

\* What a reader-writer lock promises: a writer is alone.
Exclusive(lock) ==
  \A p \in lock.exclusive : Holders(lock) = {p}
=============================================================================

-------------------------------- MODULE Flock --------------------------------
(***************************************************************************)
(* pkg/flock: a reader-writer lock on one sidecar file.  Every acquisition *)
(* opens the file anew, so it has an open file description of its own, and *)
(* asks flock(2) for a lock on it, blocking or not.  Release unlocks and   *)
(* then closes.  The kernel keeps one lock per description; it drops it    *)
(* when the description is closed, by the program or by the death of the   *)
(* process.  The startup lock (Lock, Acquire) is the case of an exclusive  *)
(* non-blocking request.                                                   *)
(***************************************************************************)
EXTENDS FiniteSets, RWLockOps

CONSTANTS
  Acquirer,   \* goroutines of all processes
  Process,
  ProcessOf,  \* the process each goroutine runs in
  Fd,         \* open file descriptions of the lock file; BOUND: Fd is finite for TLC
  None        \* no description

ASSUME ProcessAssumption == ProcessOf \in [Acquirer -> Process]
ASSUME FdAssumption == None \notin Fd

VARIABLES
  ofd,   \* ofd[f]: "closed", "open" (without a lock), "shared" or "exclusive"
  fd,    \* fd[a]: the description goroutine a has open
  pc,    \* pc[a]: "idle", "opened", "held", "unlocked"
  how    \* how[a]: the lock a asked for

vars == <<ofd, fd, pc, how>>

Mode == {"shared", "exclusive"}

\* The four methods: SharedLock, TrySharedLock, ExclusiveLock, TryExclusiveLock.
Request == [mode : Mode, nonblocking : BOOLEAN]

Init ==
  /\ ofd = [f \in Fd |-> "closed"]
  /\ fd = [a \in Acquirer |-> None]
  /\ pc = [a \in Acquirer |-> "idle"]
  /\ how = [a \in Acquirer |-> [mode |-> "shared", nonblocking |-> TRUE]]

\* Faulty variant: one description shared by several acquisitions.
Shared(f) == TRUE

\* open(2) returns a description nobody else uses.
Fresh(f) == ofd[f] = "closed"

\* acquire: the lock file is opened (created if need be).
Open(a, request) ==
  /\ pc[a] = "idle"
  /\ \E f \in Fd :
       /\ Fresh(f)
       /\ ofd' = [ofd EXCEPT ![f] = "open"]
       /\ fd' = [fd EXCEPT ![a] = f]
  /\ pc' = [pc EXCEPT ![a] = "opened"]
  /\ how' = [how EXCEPT ![a] = request]

\* Faulty variant: a writer does not wait for readers.
CompatibleWriters(f, mode) == \A g \in Fd \ {f} : ofd[g] # "exclusive"

\* flock(2): no other description holds a conflicting lock.
Compatible(f, mode) ==
  \A g \in Fd \ {f} : ofd[g] # "exclusive" /\ (mode = "exclusive" => ofd[g] # "shared")

Grant(a) ==
  /\ pc[a] = "opened"
  /\ Compatible(fd[a], how[a].mode)
  /\ ofd' = [ofd EXCEPT ![fd[a]] = how[a].mode]
  /\ pc' = [pc EXCEPT ![a] = "held"]
  /\ UNCHANGED <<fd, how>>

CloseFd(a) ==
  /\ ofd' = [ofd EXCEPT ![fd[a]] = "closed"]
  /\ fd' = [fd EXCEPT ![a] = None]
  /\ pc' = [pc EXCEPT ![a] = "idle"]
  /\ UNCHANGED how

\* Faulty variant: the description of a refused request stays open.
WouldBlockLeak(a) ==
  /\ pc[a] = "opened"
  /\ how[a].nonblocking
  /\ ~ Compatible(fd[a], how[a].mode)
  /\ fd' = [fd EXCEPT ![a] = None]
  /\ pc' = [pc EXCEPT ![a] = "idle"]
  /\ UNCHANGED <<ofd, how>>

\* EWOULDBLOCK: the description is closed and the caller gets ErrLocked.
WouldBlock(a) ==
  /\ pc[a] = "opened"
  /\ how[a].nonblocking
  /\ ~ Compatible(fd[a], how[a].mode)
  /\ CloseFd(a)

\* Release: LOCK_UN, then close, and the guard forgets the descriptor.
UnlockFd(a) ==
  /\ pc[a] = "held"
  /\ ofd' = [ofd EXCEPT ![fd[a]] = "open"]
  /\ pc' = [pc EXCEPT ![a] = "unlocked"]
  /\ UNCHANGED <<fd, how>>

\* Faulty variant: the guard keeps the closed descriptor, and may release it again.
ReleaseKeepsFd(a) ==
  /\ pc[a] = "unlocked"
  /\ ofd' = [ofd EXCEPT ![fd[a]] = "closed"]
  /\ pc' = [pc EXCEPT ![a] = "idle"]
  /\ UNCHANGED <<fd, how>>

Release(a) == pc[a] = "unlocked" /\ CloseFd(a)

\* A process dies at any point: its descriptions are closed.
OfProcess(q) == {a \in Acquirer : ProcessOf[a] = q}

Kill(q) ==
  /\ ofd' = [f \in Fd |-> IF \E a \in OfProcess(q) : fd[a] = f THEN "closed" ELSE ofd[f]]
  /\ fd' = [a \in Acquirer |-> IF a \in OfProcess(q) THEN None ELSE fd[a]]
  /\ pc' = [a \in Acquirer |-> IF a \in OfProcess(q) THEN "idle" ELSE pc[a]]
  /\ UNCHANGED how

Next ==
  \/ \E a \in Acquirer :
       \/ \E request \in Request : Open(a, request)
       \/ Grant(a)
       \/ WouldBlock(a)
       \/ UnlockFd(a)
       \/ Release(a)
  \/ \E q \in Process : Kill(q)

Spec == Init /\ [][Next]_vars

-----------------------------------------------------------------------------
\* Types of every variable; a goroutine keeps a descriptor only while it uses the lock.
TypeOK ==
  /\ ofd \in [Fd -> {"closed", "open"} \cup Mode]
  /\ fd \in [Acquirer -> Fd \cup {None}]
  /\ pc \in [Acquirer -> {"idle", "opened", "held", "unlocked"}]
  /\ how \in [Acquirer -> Request]
  /\ \A a \in Acquirer : pc[a] = "idle" <=> fd[a] = None

\* The goroutines whose guard is held, by mode.
HeldBy(mode) == {a \in Acquirer : pc[a] = "held" /\ how[a].mode = mode}
Held == [shared |-> HeldBy("shared"), exclusive |-> HeldBy("exclusive")]

\* A guard in exclusive mode is the only guard there is, in any process.
Exclusion == Exclusive(Held)

\* Every description is closed on every way out: whatever is open belongs to a
\* goroutine that is acquiring or holds the lock, to each its own, and a lock is
\* held on it only by a goroutine that knows of it.
NoFdLeak ==
  \A f \in Fd : ofd[f] # "closed" =>
    \E a \in Acquirer :
      /\ fd[a] = f
      /\ ofd[f] \in Mode => pc[a] = "held"
      /\ \A b \in Acquirer : fd[b] = f => b = a

\* Flock implements the lock its users see.
ReaderWriterLock == INSTANCE ReaderWriter WITH lock <- Held
ImplementsReaderWriter == ReaderWriterLock!Spec
=============================================================================

---------------------------- MODULE FlockProofs ----------------------------
(***************************************************************************)
(* Exclusion, absence of leaks, and refinement of ReaderWriter for any     *)
(* number of goroutines, processes and descriptions.  The invariant says   *)
(* that descriptions are not shared and that the lock on a description is  *)
(* the one its goroutine believes it holds.                                *)
(***************************************************************************)
EXTENDS Flock, TLAPS

OwnDescription ==
  \A a, b \in Acquirer : fd[a] # None /\ fd[a] = fd[b] => a = b

DescriptionState ==
  \A a \in Acquirer :
    /\ pc[a] \in {"opened", "unlocked"} => ofd[fd[a]] = "open"
    /\ pc[a] = "held" => ofd[fd[a]] = how[a].mode

NoOrphan == \A f \in Fd : ofd[f] # "closed" => \E a \in Acquirer : fd[a] = f

KernelExclusion ==
  \A f, g \in Fd : f # g /\ ofd[f] = "exclusive" => ofd[g] \notin Mode

Inv == TypeOK /\ OwnDescription /\ DescriptionState /\ NoOrphan /\ KernelExclusion

\* Initially every description is closed.
LEMMA InitInv == Init => Inv
  BY DEF Init, Inv, TypeOK, OwnDescription, DescriptionState, NoOrphan, KernelExclusion,
         Request, Mode

\* Opening takes a description nobody has.
LEMMA OpenInv ==
  ASSUME Inv, NEW a \in Acquirer, NEW request \in Request, Open(a, request)
  PROVE  Inv'
<1>1. PICK f \in Fd : Fresh(f) /\ ofd' = [ofd EXCEPT ![f] = "open"] /\ fd' = [fd EXCEPT ![a] = f]
  BY DEF Open
<1>2. \A b \in Acquirer : fd[b] # f
  <2>1. SUFFICES ASSUME NEW b \in Acquirer, fd[b] = f PROVE FALSE
    OBVIOUS
  <2>2. pc[b] # "idle" /\ f # None
    BY <2>1, FdAssumption DEF Inv, TypeOK
  <2>3. ofd[f] # "closed"
    BY <2>1, <2>2 DEF Inv, TypeOK, DescriptionState, Request, Mode
  <2> QED BY <2>3, <1>1 DEF Fresh
<1>3. TypeOK'
  BY <1>1, FdAssumption DEF Inv, TypeOK, Open, Mode
<1>4. OwnDescription'
  BY <1>1, <1>2 DEF Inv, TypeOK, OwnDescription
<1>5. DescriptionState'
  BY <1>1, <1>2 DEF Inv, TypeOK, DescriptionState, Open
<1>6. NoOrphan'
  <2>1. SUFFICES ASSUME NEW g \in Fd, ofd'[g] # "closed"
                 PROVE  \E b \in Acquirer : fd'[b] = g
    BY DEF NoOrphan
  <2>2. CASE g = f
    BY <1>1, <2>2 DEF Inv, TypeOK
  <2>3. CASE g # f
    <3>1. PICK b \in Acquirer : fd[b] = g
      BY <1>1, <2>1, <2>3 DEF Inv, TypeOK, NoOrphan
    <3>2. b # a
      BY <3>1, FdAssumption DEF Inv, TypeOK, Open
    <3> QED BY <1>1, <3>1, <3>2 DEF Inv, TypeOK
  <2> QED BY <2>2, <2>3
<1>7. KernelExclusion'
  BY <1>1 DEF Inv, TypeOK, KernelExclusion, Mode, Fresh
<1> QED BY <1>3, <1>4, <1>5, <1>6, <1>7 DEF Inv

\* A description with a goroutine behind it.
LEMMA OwnFd ==
  ASSUME Inv, NEW a \in Acquirer, pc[a] # "idle"
  PROVE  /\ fd[a] \in Fd
         /\ fd[a] # None
         /\ \A b \in Acquirer : fd[b] = fd[a] => b = a
  BY DEF Inv, TypeOK, OwnDescription

\* flock(2) grants only what no other description excludes.
LEMMA GrantInv ==
  ASSUME Inv, NEW a \in Acquirer, Grant(a)
  PROVE  Inv'
<1>1. pc[a] # "idle" /\ how[a].mode \in Mode
  BY DEF Grant, Inv, TypeOK, Request
<1>2. fd[a] \in Fd /\ \A b \in Acquirer : fd[b] = fd[a] => b = a
  BY <1>1, OwnFd
<1>3. TypeOK'
  BY <1>1 DEF Inv, TypeOK, Grant, Mode
<1>4. OwnDescription'
  BY DEF Inv, OwnDescription, Grant
<1>5. DescriptionState'
  BY <1>1, <1>2 DEF Inv, TypeOK, DescriptionState, Grant
<1>6. NoOrphan'
  BY <1>1, <1>2 DEF Inv, TypeOK, NoOrphan, Grant
<1>7. KernelExclusion'
  BY <1>1, <1>2 DEF Inv, TypeOK, KernelExclusion, Grant, Compatible, Mode
<1> QED BY <1>3, <1>4, <1>5, <1>6, <1>7 DEF Inv

\* Closing forgets one description.
LEMMA CloseInv ==
  ASSUME Inv, NEW a \in Acquirer, pc[a] # "idle", CloseFd(a)
  PROVE  Inv'
<1>2. fd[a] \in Fd /\ \A b \in Acquirer : fd[b] = fd[a] => b = a
  BY OwnFd
<1>3. TypeOK'
  BY DEF Inv, TypeOK, CloseFd
<1>4. OwnDescription'
  BY DEF Inv, TypeOK, OwnDescription, CloseFd
<1>5. DescriptionState'
  BY <1>2 DEF Inv, TypeOK, DescriptionState, CloseFd
<1>6. NoOrphan'
  BY <1>2 DEF Inv, TypeOK, NoOrphan, CloseFd
<1>7. KernelExclusion'
  BY <1>2 DEF Inv, TypeOK, KernelExclusion, CloseFd, Mode
<1> QED BY <1>3, <1>4, <1>5, <1>6, <1>7 DEF Inv

\* LOCK_UN leaves the description open.
LEMMA UnlockInv ==
  ASSUME Inv, NEW a \in Acquirer, UnlockFd(a)
  PROVE  Inv'
<1>1. pc[a] # "idle"
  BY DEF UnlockFd
<1>2. fd[a] \in Fd /\ \A b \in Acquirer : fd[b] = fd[a] => b = a
  BY <1>1, OwnFd
<1>3. TypeOK'
  BY <1>1 DEF Inv, TypeOK, UnlockFd
<1>4. OwnDescription'
  BY DEF Inv, OwnDescription, UnlockFd
<1>5. DescriptionState'
  BY <1>1, <1>2 DEF Inv, TypeOK, DescriptionState, UnlockFd
<1>6. NoOrphan'
  BY <1>1, <1>2 DEF Inv, TypeOK, NoOrphan, UnlockFd
<1>7. KernelExclusion'
  BY <1>1, <1>2 DEF Inv, TypeOK, KernelExclusion, UnlockFd, Mode
<1> QED BY <1>3, <1>4, <1>5, <1>6, <1>7 DEF Inv

\* A process takes its descriptions with it, and nobody else's.
LEMMA KillInv ==
  ASSUME Inv, NEW q \in Process, Kill(q)
  PROVE  Inv'
<1>1. TypeOK'
  BY DEF Inv, TypeOK, Kill
<1>2. OwnDescription'
  BY DEF Inv, TypeOK, OwnDescription, Kill
<1>3. DescriptionState'
  <2>1. SUFFICES ASSUME NEW a \in Acquirer, pc'[a] # "idle"
                 PROVE  ofd'[fd'[a]] = ofd[fd[a]] /\ pc'[a] = pc[a] /\ how'[a] = how[a]
    BY DEF Inv, TypeOK, DescriptionState, Kill
  <2>2. a \notin OfProcess(q) /\ pc'[a] = pc[a] /\ fd'[a] = fd[a] /\ how'[a] = how[a]
    BY <2>1 DEF Kill
  <2>3. fd[a] \in Fd /\ \A b \in Acquirer : fd[b] = fd[a] => b = a
    BY <2>1, <2>2, OwnFd
  <2>4. ofd'[fd[a]] = ofd[fd[a]]
    BY <2>2, <2>3 DEF Kill, OfProcess
  <2> QED BY <2>2, <2>4
<1>4. NoOrphan'
  BY DEF Inv, TypeOK, NoOrphan, Kill, OfProcess
<1>5. KernelExclusion'
  BY DEF Inv, TypeOK, KernelExclusion, Kill, Mode
<1> QED BY <1>1, <1>2, <1>3, <1>4, <1>5 DEF Inv

\* The invariant is inductive.
LEMMA NextInv == Inv /\ [Next]_vars => Inv'
<1> SUFFICES ASSUME Inv, [Next]_vars PROVE Inv'
  OBVIOUS
<1>1. CASE UNCHANGED vars
  BY <1>1 DEF vars, Inv, TypeOK, OwnDescription, DescriptionState, NoOrphan, KernelExclusion
<1>2. ASSUME NEW a \in Acquirer, NEW request \in Request, Open(a, request) PROVE Inv'
  BY <1>2, OpenInv
<1>3. ASSUME NEW a \in Acquirer, Grant(a) PROVE Inv'
  BY <1>3, GrantInv
<1>4. ASSUME NEW a \in Acquirer, WouldBlock(a) PROVE Inv'
  BY <1>4, CloseInv DEF WouldBlock
<1>5. ASSUME NEW a \in Acquirer, UnlockFd(a) PROVE Inv'
  BY <1>5, UnlockInv
<1>6. ASSUME NEW a \in Acquirer, Release(a) PROVE Inv'
  BY <1>6, CloseInv DEF Release
<1>7. ASSUME NEW q \in Process, Kill(q) PROVE Inv'
  BY <1>7, KillInv
<1> QED BY <1>1, <1>2, <1>3, <1>4, <1>5, <1>6, <1>7 DEF Next

\* The inductive invariant holds in every behaviour.
LEMMA InvAlways == Spec => []Inv
  BY InitInv, NextInv, PTL DEF Spec

-----------------------------------------------------------------------------
\* Two goroutines that both hold the lock hold it in shared mode.
LEMMA InvExclusion == Inv => Exclusion
<1> SUFFICES ASSUME Inv, NEW p \in HeldBy("exclusive")
             PROVE  HeldBy("shared") \cup HeldBy("exclusive") = {p}
  BY DEF Exclusion, Exclusive, Holders, Held
<1>1. p \in Acquirer /\ pc[p] = "held" /\ ofd[fd[p]] = "exclusive" /\ fd[p] \in Fd
  BY DEF HeldBy, Inv, TypeOK, DescriptionState
<1>2. ASSUME NEW b \in HeldBy("shared") \cup HeldBy("exclusive") PROVE b = p
  <2>1. b \in Acquirer /\ pc[b] = "held" /\ ofd[fd[b]] \in Mode /\ fd[b] \in Fd
    BY <1>2 DEF HeldBy, Inv, TypeOK, DescriptionState, Mode
  <2>2. fd[b] = fd[p]
    BY <1>1, <2>1 DEF Inv, KernelExclusion
  <2> QED BY <1>1, <2>1, <2>2, OwnFd
<1> QED BY <1>2

\* Every variable stays within its type, and a goroutine has a descriptor exactly
\* from its open to its close.
THEOREM FlockTypes == Spec => []TypeOK
<1>1. Inv => TypeOK
  BY DEF Inv
<1> QED BY <1>1, InvAlways, PTL

\* Exclusive flock guards exclude every other guard, whatever the goroutines
\* and processes, the requests they make and the moments processes die
\* (pkg/flock/flock.go, RWLock).
THEOREM FlockExclusion == Spec => []Exclusion
  BY InvAlways, InvExclusion, PTL

\* No acquisition or release path leaves a description behind.
THEOREM FlockNoLeak == Spec => []NoFdLeak
<1>1. Inv => NoFdLeak
  <2> SUFFICES ASSUME Inv, NEW f \in Fd, ofd[f] # "closed"
               PROVE  \E a \in Acquirer :
                        /\ fd[a] = f
                        /\ ofd[f] \in Mode => pc[a] = "held"
                        /\ \A b \in Acquirer : fd[b] = f => b = a
    BY DEF NoFdLeak
  <2>1. PICK a \in Acquirer : fd[a] = f
    BY DEF Inv, NoOrphan
  <2>2. pc[a] # "idle"
    BY <2>1, FdAssumption DEF Inv, TypeOK
  <2>3. ofd[f] \in Mode => pc[a] = "held"
    BY <2>1, <2>2 DEF Inv, TypeOK, DescriptionState, Mode
  <2> QED BY <2>1, <2>2, <2>3, OwnFd
<1> QED BY <1>1, InvAlways, PTL

-----------------------------------------------------------------------------
\* A granted request is an acquisition of the reader-writer lock.
LEMMA GrantAcquires ==
  ASSUME Inv, NEW a \in Acquirer, Grant(a)
  PROVE  ReaderWriterLock!AcquireShared(a) \/ ReaderWriterLock!AcquireExclusive(a)
<1>1. /\ how[a].mode \in Mode
      /\ a \notin HeldBy("shared") \cup HeldBy("exclusive")
      /\ fd[a] \in Fd
      /\ \A b \in Acquirer : fd[b] = fd[a] => b = a
  BY OwnFd DEF Grant, Inv, TypeOK, Request, HeldBy
<1>2. pc' = [pc EXCEPT ![a] = "held"] /\ how' = how /\ pc \in [Acquirer -> {"idle", "opened", "held", "unlocked"}]
  BY DEF Grant, Inv, TypeOK
<1>3. ASSUME NEW b \in HeldBy("shared") \cup HeldBy("exclusive")
      PROVE  fd[b] \in Fd \ {fd[a]} /\ ofd[fd[b]] = how[b].mode
  BY <1>1, <1>3, OwnFd DEF HeldBy, Inv, DescriptionState
<1>4. HeldBy("exclusive") = {} /\ (how[a].mode = "exclusive" => HeldBy("shared") = {})
  BY <1>3 DEF Grant, Compatible, HeldBy
<1>5. CASE how[a].mode = "shared"
  <2>1. HeldBy("shared")' = HeldBy("shared") \cup {a}
    BY <1>2, <1>5 DEF HeldBy
  <2>2. HeldBy("exclusive")' = HeldBy("exclusive")
    BY <1>2, <1>5 DEF HeldBy
  <2> QED BY <1>1, <1>4, <2>1, <2>2
          DEF ReaderWriterLock!AcquireShared, Held, ReaderWriterLock!Holders,
              ReaderWriterLock!CanShare, ReaderWriterLock!Share
<1>6. CASE how[a].mode = "exclusive"
  <2>1. HeldBy("exclusive")' = HeldBy("exclusive") \cup {a}
    BY <1>2, <1>6 DEF HeldBy
  <2>2. HeldBy("shared")' = HeldBy("shared")
    BY <1>2, <1>6 DEF HeldBy
  <2> QED BY <1>4, <1>6, <2>1, <2>2
          DEF ReaderWriterLock!AcquireExclusive, Held, ReaderWriterLock!CanExclude,
              ReaderWriterLock!Exclude
<1> QED BY <1>1, <1>5, <1>6 DEF Mode

\* A goroutine that is not in the held state is not a holder before or after.
LEMMA NotHeldStutters ==
  ASSUME TypeOK, NEW a \in Acquirer, pc[a] # "held",
         NEW step \in {"idle", "opened", "unlocked"},
         pc' = [pc EXCEPT ![a] = step],
         \A b \in Acquirer \ {a} : how'[b] = how[b]
  PROVE  UNCHANGED Held
  BY DEF TypeOK, Held, HeldBy

\* LOCK_UN takes one holder out, the death of a process all of its own.
LEMMA UnlockDrops ==
  ASSUME Inv, NEW a \in Acquirer, UnlockFd(a)
  PROVE  ReaderWriterLock!Drop({a})
  BY DEF UnlockFd, Inv, TypeOK, ReaderWriterLock!Drop, Held, HeldBy

\* The death of a process drops what its goroutines held, and nothing else.
LEMMA KillDrops ==
  ASSUME Inv, NEW q \in Process, Kill(q)
  PROVE  ReaderWriterLock!Drop(OfProcess(q))
  BY DEF Kill, Inv, TypeOK, ReaderWriterLock!Drop, Held, HeldBy

\* Every step of the flock protocol is a step of the reader-writer lock or none.
LEMMA StepRefines == Inv /\ [Next]_vars => [ReaderWriterLock!Next]_Held
<1> SUFFICES ASSUME Inv, [Next]_vars PROVE [ReaderWriterLock!Next]_Held
  OBVIOUS
<1>1. CASE UNCHANGED vars
  BY <1>1 DEF vars, Held, HeldBy
<1>2. ASSUME NEW a \in Acquirer, NEW request \in Request, Open(a, request) PROVE UNCHANGED Held
  BY <1>2, NotHeldStutters DEF Open, Inv, TypeOK
<1>3. ASSUME NEW a \in Acquirer, Grant(a) PROVE ReaderWriterLock!Next
  BY <1>3, GrantAcquires DEF ReaderWriterLock!Next
<1>4. ASSUME NEW a \in Acquirer, WouldBlock(a) \/ Release(a) PROVE UNCHANGED Held
  BY <1>4, NotHeldStutters DEF WouldBlock, Release, CloseFd, Inv
<1>5. ASSUME NEW a \in Acquirer, UnlockFd(a) PROVE ReaderWriterLock!Next
  BY <1>5, UnlockDrops DEF ReaderWriterLock!Next
<1>6. ASSUME NEW q \in Process, Kill(q) PROVE ReaderWriterLock!Next
  BY <1>6, KillDrops DEF ReaderWriterLock!Next, OfProcess
<1> QED BY <1>1, <1>2, <1>3, <1>4, <1>5, <1>6 DEF Next

\* The flock protocol implements the reader-writer lock that the handlers of a
\* partition are modelled with: readers together, a writer alone, nothing held
\* by the dead.
THEOREM FlockRefinesReaderWriter == Spec => ImplementsReaderWriter
<1>1. Init => ReaderWriterLock!Init
  BY DEF Init, ReaderWriterLock!Init, Held, HeldBy, ReaderWriterLock!Unlocked
<1> QED BY <1>1, StepRefines, InvAlways, PTL DEF Spec, ImplementsReaderWriter, ReaderWriterLock!Spec
=============================================================================

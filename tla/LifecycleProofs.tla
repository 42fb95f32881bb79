--------------------------- MODULE LifecycleProofs ---------------------------
(***************************************************************************)
(* Processes that follow one another on a data directory, for any number   *)
(* of processes, handlers, records, requests, deaths and processes that    *)
(* abandon their connections.  Three things carry the proof: the partition *)
(* lock, which holds across processes and outlives nobody; server.lock,    *)
(* which makes one process at a time serve; and that the map of a process  *)
(* names its open descriptor, on the inode that is current unless a        *)
(* compaction has yet to evict it.                                         *)
(***************************************************************************)
EXTENDS Lifecycle, FiniteSetTheorems, TLAPS

\* Where handlers and main can be.
Appending == {"append.load", "append.open", "append.write"}
Compacting == {"compact.read", "compact.tmp", "compact.rename", "compact.evict"}
Step == {"idle", "append.lock", "compact.lock"} \cup Appending \cup Compacting
Owning == {"recovering", "serving", "draining", "closing", "closed"}
Life == {"down", "opening", "exiting"} \cup Owning

Control ==
  /\ life \in [Process -> Life]
  /\ admitting \subseteq Process
  /\ pc \in [Handler -> Step]
  /\ left \in [{"append", "compact"} -> Nat]
  /\ abandoned \in BOOLEAN

\* The partition lock is held exactly between its acquisition and its release,
\* and a writer is alone, over all processes.
Locks ==
  /\ plock \in LockStates(Handler)
  /\ Exclusive(plock)
  /\ \A w \in Handler : /\ w \in plock.shared <=> pc[w] \in Appending
                        /\ w \in plock.exclusive <=> pc[w] \in Compacting

\* server.lock is held from its acquisition to its release.
Owners ==
  /\ owner \in Process \cup {None}
  /\ \A i \in Process : owner = i <=> life[i] \in Owning

\* Requests arrive and handlers run while their process serves or drains, until
\* one abandons its connections.
Served ==
  ~ abandoned =>
    /\ \A i \in admitting : life[i] \in {"serving", "draining"}
    /\ \A w \in Handler : pc[w] # "idle" => life[Proc(w)] \in {"serving", "draining"}

\* The compactions that may still create an inode.
Renaming == {w \in Handler : pc[w] \in {"compact.lock", "compact.read", "compact.tmp", "compact.rename"}}

\* There is an inode for every compaction that was requested.
Budget ==
  /\ current \in Nat \ {0}
  /\ IsFiniteSet(Renaming)
  /\ current + Cardinality(Renaming) + left["compact"] <= Quota["compact"] + 1

Files ==
  /\ lines \in [Inode -> SUBSET RecId]
  /\ tmp \in (SUBSET RecId) \cup {None}
  /\ plan \in [Handler -> SUBSET RecId]

\* A compaction that has read the file knows what is in it until it is renamed
\* over; its temporary holds that or, after connections were abandoned, is gone.
Plans ==
  \A w \in Handler :
    /\ pc[w] \in {"compact.tmp", "compact.rename"} => plan[w] = lines[current]
    /\ pc[w] = "compact.rename" => tmp \in {plan[w], None}

\* The open descriptor of a process is the one in its map.
Descriptors ==
  /\ use \in [Handler -> Descriptor \cup {None}]
  /\ cache \in [Process -> Descriptor \cup {None}]
  /\ opened = [i \in Process |-> IF cache[i] = None THEN {} ELSE {cache[i]}]

\* A descriptor in a map is on the current inode until a compaction has renamed,
\* and has been evicted before another handler gets to see the difference.
Cached ==
  ~ abandoned =>
    \A i \in Process : cache[i] # None =>
      /\ life[i] \in {"serving", "draining", "closing"}
      /\ cache[i][1] = current \/ \E w \in HandlersOf(i) : pc[w] = "compact.evict"

\* Writers write through the descriptor in the map.
Writing ==
  ~ abandoned =>
    \A w \in Handler : pc[w] = "append.write" => use[w] = cache[Proc(w)] /\ use[w] # None

LifecycleInv ==
  /\ Control /\ Locks /\ Owners /\ Served
  /\ Budget /\ Files /\ Plans /\ RecoverySpares
  /\ Descriptors /\ Cached /\ Writing /\ AnsweredInFile

\* A handler belongs to a process, and those of a process are handlers.
LEMMA HandlerType ==
  /\ \A w \in Handler : Proc(w) \in Process
  /\ \A i \in Process : HandlersOf(i) \subseteq Handler
  BY DEF Handler, Proc, HandlersOf

\* The quotas are numbers.
LEMMA QuotaType ==
  /\ DOMAIN Quota = {"append", "compact"}
  /\ Quota["compact"] \in Nat /\ Quota["append"] \in Nat
  BY LifecycleAssumption

\* The first state, before any process started.
LEMMA InitLifecycle == Init => LifecycleInv
<1> SUFFICES ASSUME Init PROVE LifecycleInv
  OBVIOUS
<1>1. Control /\ Locks /\ Owners /\ Served
  BY QuotaType, LifecycleAssumption, NoneAssumption
     DEF Init, Control, Locks, Owners, Served, Step, Appending, Compacting, Owning, Life,
         LockStates, Unlocked, Exclusive, Holders
<1>2. Budget
  <2>1. Renaming = {}
    BY DEF Init, Renaming
  <2> QED BY <2>1, QuotaType, FS_EmptySet DEF Init, Budget
<1>3. Files /\ Plans /\ RecoverySpares
  BY DEF Init, Files, Plans, RecoverySpares
<1>4. Descriptors /\ Cached /\ Writing /\ AnsweredInFile
  BY DEF Init, Descriptors, Cached, Writing, AnsweredInFile
<1> QED BY <1>1, <1>2, <1>3, <1>4 DEF LifecycleInv

-----------------------------------------------------------------------------
\* What a step leaves alone.

\* The steps of main that only change where main is and who holds server.lock.
Quiet(i) ==
  \/ Start(i) \/ AcquireServer(i) \/ AcquireFails(i) \/ Recover(i)
  \/ Signal(i) \/ Drained(i) \/ Abandon(i) \/ ReleaseServer(i)

\* The steps of main leave the files and the handlers alone.
LEMMA QuietLeaves ==
  ASSUME NEW i \in Process, Quiet(i)
  PROVE  /\ UNCHANGED <<current, lines, plock, pc, use, plan, cache, opened, answered, left>>
         /\ tmp' = tmp \/ (tmp' = None /\ life[i] = "recovering")
         /\ abandoned => abandoned'
  BY DEF Quiet, Start, AcquireServer, AcquireFails, Recover, Signal, Drained, Abandon,
         ReleaseServer, fileVars, handlerVars, fdVars

\* The steps of a handler leave main alone.
LEMMA HandleLeaves ==
  ASSUME NEW w \in Handler, Handle(w)
  PROVE  UNCHANGED <<life, admitting, owner, abandoned>>
  BY DEF Handle, Arrive, AppendLock, LoadDescriptor, OpenDescriptor, WriteLine, WriteFails,
         CompactLock, CompactRead, CompactWrite, CompactRename, CompactFails, CompactEvict,
         CompactDone, mainVars

\* The kinds of steps.
LEMMA LifecycleSteps ==
  ASSUME [Next]_vars
  PROVE  \/ \E i \in Process : Quiet(i) \/ CloseFiles(i) \/ Vanish(i)
         \/ \E w \in Handler : Handle(w)
         \/ UNCHANGED vars
  BY DEF Next, Main, Quiet, Exit, Kill

\* No step starts a process twice or a handler outside a process that serves.
LEMMA StepControl ==
  ASSUME Control, [Next]_vars
  PROVE  Control'
<1>1. ASSUME NEW i \in Process, Quiet(i) \/ CloseFiles(i) \/ Vanish(i) PROVE Control'
  <2>1. life' \in [Process -> Life] /\ admitting' \subseteq Process /\ abandoned' \in BOOLEAN
    BY <1>1 DEF Control, Quiet, Start, AcquireServer, AcquireFails, Recover, Signal, Drained, Abandon,
         ReleaseServer, CloseFiles, Vanish, Life, Owning
  <2>2. pc' \in [Handler -> Step] /\ UNCHANGED left
    BY <1>1, QuietLeaves DEF Control, CloseFiles, Vanish, Step, fileVars, handlerVars
  <2> QED BY <2>1, <2>2 DEF Control
<1>2. ASSUME NEW w \in Handler, Handle(w) PROVE Control'
  <2>1. pc' \in [Handler -> Step]
    BY <1>2 DEF Control, Handle, Arrive, AppendLock, LoadDescriptor, OpenDescriptor, WriteLine, WriteFails,
         CompactLock, CompactRead, CompactWrite, CompactRename, CompactFails, CompactEvict,
         CompactDone, Goto, Step, Appending, Compacting
  <2>2. left' \in [{"append", "compact"} -> Nat]
    BY <1>2, QuotaType DEF Control, Handle, Arrive, AppendLock, LoadDescriptor, OpenDescriptor, WriteLine,
         WriteFails, CompactLock, CompactRead, CompactWrite, CompactRename, CompactFails, CompactEvict,
         CompactDone
  <2> QED BY <1>2, <2>1, <2>2, HandleLeaves DEF Control
<1>3. CASE UNCHANGED vars
  BY <1>3 DEF vars, mainVars, handlerVars, Control
<1> QED BY <1>1, <1>2, <1>3, LifecycleSteps

-----------------------------------------------------------------------------
\* The two locks.

\* The death of a process takes its handlers out of the partition lock.
LEMMA VanishLocks ==
  ASSUME Locks, Control, NEW i \in Process, Vanish(i)
  PROVE  Locks'
<1>1. plock' = [shared |-> plock.shared \ HandlersOf(i), exclusive |-> plock.exclusive \ HandlersOf(i)]
  BY DEF Vanish
<1>2. plock' \in LockStates(Handler) /\ Exclusive(plock)'
  BY <1>1 DEF Locks, LockStates, Exclusive, Holders
<1>3. ASSUME NEW w \in Handler
      PROVE  /\ w \in plock'.shared <=> pc'[w] \in Appending
             /\ w \in plock'.exclusive <=> pc'[w] \in Compacting
  <2>1. pc'[w] = IF Proc(w) = i THEN "idle" ELSE pc[w]
    BY DEF Vanish
  <2>2. w \in HandlersOf(i) <=> Proc(w) = i
    BY DEF HandlersOf
  <2> QED BY <1>1, <2>1, <2>2 DEF Locks, Appending, Compacting
<1> QED BY <1>2, <1>3 DEF Locks

\* A handler that goes on within its section, or outside.
LEMMA MoveLocks ==
  ASSUME Locks, Control, NEW w \in Handler, NEW s \in Step, pc' = [pc EXCEPT ![w] = s], UNCHANGED plock,
         pc[w] \in Appending <=> s \in Appending, pc[w] \in Compacting <=> s \in Compacting
  PROVE  Locks'
  BY DEF Locks, Control, Exclusive, Holders

\* A handler that ends gives up the partition lock, whichever way it held it.
LEMMA ReleaseLocks ==
  ASSUME Locks, Control, NEW w \in Handler, pc' = [pc EXCEPT ![w] = "idle"], plock' = Unlock(plock, w)
  PROVE  Locks'
<1>1. plock' \in LockStates(Handler) /\ Exclusive(plock)'
  BY DEF Locks, LockStates, Exclusive, Holders, Unlock
<1>2. ASSUME NEW v \in Handler
      PROVE  /\ v \in plock'.shared <=> pc'[v] \in Appending
             /\ v \in plock'.exclusive <=> pc'[v] \in Compacting
  BY DEF Locks, Control, Unlock, Appending, Compacting
<1> QED BY <1>1, <1>2 DEF Locks

\* A handler's steps keep the partition lock as its step says.
LEMMA HandleLocks ==
  ASSUME Locks, Control, NEW w \in Handler, Handle(w)
  PROVE  Locks'
<1>1. CASE Arrive(w)
  BY <1>1, MoveLocks DEF Arrive, Goto, Step, Appending, Compacting
<1>2. CASE AppendLock(w)
  <2>1. plock' \in LockStates(Handler) /\ Exclusive(plock)'
    BY <1>2 DEF AppendLock, Share, CanShare, Locks, LockStates, Exclusive, Holders
  <2>2. ASSUME NEW v \in Handler
        PROVE  /\ v \in plock'.shared <=> pc'[v] \in Appending
               /\ v \in plock'.exclusive <=> pc'[v] \in Compacting
    BY <1>2 DEF AppendLock, Goto, Share, Locks, LockStates, Control, Appending, Compacting
  <2> QED BY <2>1, <2>2 DEF Locks
<1>3. CASE CompactLock(w)
  <2>1. plock' \in LockStates(Handler) /\ Exclusive(plock)'
    BY <1>3 DEF CompactLock, Exclude, CanExclude, Locks, LockStates, Exclusive, Holders
  <2>2. ASSUME NEW v \in Handler
        PROVE  /\ v \in plock'.shared <=> pc'[v] \in Appending
               /\ v \in plock'.exclusive <=> pc'[v] \in Compacting
    BY <1>3 DEF CompactLock, Goto, Exclude, Locks, LockStates, Control, Appending, Compacting
  <2> QED BY <2>1, <2>2 DEF Locks
<1>4. CASE LoadDescriptor(w) \/ OpenDescriptor(w)
  BY <1>4, MoveLocks DEF LoadDescriptor, OpenDescriptor, Goto, Step, Appending, Compacting
<1>5. CASE CompactRead(w) \/ CompactWrite(w) \/ CompactRename(w)
  BY <1>5, MoveLocks DEF CompactRead, CompactWrite, CompactRename, Goto, Step, Appending, Compacting
<1>6. CASE WriteLine(w) \/ WriteFails(w) \/ CompactFails(w) \/ CompactEvict(w)
  BY <1>6, ReleaseLocks DEF WriteLine, WriteFails, CompactFails, CompactEvict, CompactDone, Goto
<1> QED BY <1>1, <1>2, <1>3, <1>4, <1>5, <1>6 DEF Handle

\* So does every other step: a death releases what the process held.
LEMMA StepLocks ==
  ASSUME Locks, Control, [Next]_vars
  PROVE  Locks'
<1>1. ASSUME UNCHANGED <<pc, plock>> PROVE Locks'
  BY <1>1 DEF Locks, Exclusive, Holders
<1>2. ASSUME NEW i \in Process, Quiet(i) \/ CloseFiles(i) PROVE UNCHANGED <<pc, plock>>
  BY <1>2, QuietLeaves DEF CloseFiles
<1>3. CASE UNCHANGED vars
  BY <1>1, <1>3 DEF vars, handlerVars
<1> QED BY <1>1, <1>2, <1>3, VanishLocks, HandleLocks, LifecycleSteps

\* An appender holds nobody up and is held up by a compaction: the two never meet.
LEMMA AppendAlone ==
  ASSUME Locks, NEW v \in Handler, NEW w \in Handler, v # w, pc[w] \in Compacting
  PROVE  pc[v] \notin Appending \cup Compacting
  BY DEF Locks, Exclusive, Holders

\* server.lock has one owner, whose main is past its acquisition and not past its release.
LEMMA StepOwners ==
  ASSUME Control, Owners, [Next]_vars
  PROVE  Owners'
<1>1. ASSUME NEW i \in Process, Quiet(i) PROVE Owners'
  BY <1>1, NoneAssumption DEF Control, Owners, Owning, Quiet, Start, AcquireServer, AcquireFails, Recover,
       Signal, Drained, Abandon, ReleaseServer
<1>2. ASSUME NEW i \in Process, CloseFiles(i) \/ Vanish(i) PROVE Owners'
  BY <1>2, NoneAssumption DEF Control, Owners, Owning, CloseFiles, Vanish
<1>3. ASSUME UNCHANGED <<life, owner>> PROVE Owners'
  BY <1>3 DEF Owners
<1>4. CASE UNCHANGED vars
  BY <1>3, <1>4 DEF vars, mainVars
<1> QED BY <1>1, <1>2, <1>3, <1>4, HandleLeaves, LifecycleSteps

\* Handlers are running in serving and draining processes only.
LEMMA StepServed ==
  ASSUME Control, Owners, Served, [Next]_vars
  PROVE  Served'
<1>0. ASSUME ~ abandoned', NEW i \in admitting' PROVE life'[i] \in {"serving", "draining"}
  <2>1. ASSUME NEW j \in Process, Quiet(j) \/ CloseFiles(j) \/ Vanish(j)
        PROVE  life'[i] \in {"serving", "draining"}
    BY <1>0, <2>1 DEF Control, Served, Quiet, Start, AcquireServer, AcquireFails, Recover,
         Signal, Drained, Abandon, ReleaseServer, CloseFiles, Vanish
  <2>2. ASSUME UNCHANGED <<life, admitting, abandoned>> PROVE life'[i] \in {"serving", "draining"}
    BY <1>0, <2>2 DEF Served
  <2>3. CASE UNCHANGED vars
    BY <2>2, <2>3 DEF vars, mainVars
  <2> QED BY <2>1, <2>2, <2>3, HandleLeaves, LifecycleSteps
<1> SUFFICES ASSUME ~ abandoned', NEW w \in Handler, pc'[w] # "idle"
             PROVE  life'[Proc(w)] \in {"serving", "draining"}
  BY <1>0 DEF Served
<1>1. Proc(w) \in Process
  BY HandlerType
<1>2. ASSUME NEW i \in Process, Quiet(i) PROVE life'[Proc(w)] \in {"serving", "draining"}
  <2>1. ~ abandoned /\ pc[w] # "idle"
    BY <1>2, QuietLeaves
  <2>2. life[Proc(w)] \in {"serving", "draining"}
    BY <2>1 DEF Served
  <2>3. CASE Proc(w) # i
    BY <1>1, <1>2, <2>2, <2>3 DEF Control, Quiet, Start, AcquireServer, AcquireFails, Recover,
         Signal, Drained, Abandon, ReleaseServer
  <2>4. CASE Proc(w) = i
    <3>1. Busy(i)
      BY <2>1, <2>4 DEF Busy, HandlersOf
    <3> QED BY <1>2, <2>2, <2>4, <3>1 DEF Control, Quiet, Start, AcquireServer, AcquireFails, Recover,
         Signal, Drained, Abandon, ReleaseServer
  <2> QED BY <2>3, <2>4
<1>3. ASSUME NEW i \in Process, CloseFiles(i) PROVE life'[Proc(w)] \in {"serving", "draining"}
  BY <1>1, <1>3 DEF Served, CloseFiles, Control
<1>4. ASSUME NEW i \in Process, Vanish(i) PROVE life'[Proc(w)] \in {"serving", "draining"}
  BY <1>1, <1>4 DEF Served, Vanish, Control
<1>5. ASSUME NEW v \in Handler, Handle(v) PROVE life'[Proc(w)] \in {"serving", "draining"}
  <2>1. pc[w] # "idle" \/ Proc(w) \in admitting
    BY <1>5 DEF Control, Handle, Arrive, AppendLock, LoadDescriptor, OpenDescriptor, WriteLine, WriteFails,
         CompactLock, CompactRead, CompactWrite, CompactRename, CompactFails, CompactEvict,
         CompactDone, Goto
  <2> QED BY <1>5, <2>1, HandleLeaves DEF Served
<1>6. CASE UNCHANGED vars
  BY <1>6 DEF vars, mainVars, handlerVars, Served
<1> QED BY <1>2, <1>3, <1>4, <1>5, <1>6, LifecycleSteps

-----------------------------------------------------------------------------
\* The files.

\* One more, one less.
LEMMA CountOne ==
  ASSUME NEW S, IsFiniteSet(S), NEW w
  PROVE  /\ Cardinality(S) \in Nat
         /\ IsFiniteSet(S \cup {w}) /\ Cardinality(S \cup {w}) \in {Cardinality(S), Cardinality(S) + 1}
         /\ IsFiniteSet(S \ {w}) /\ (w \in S => Cardinality(S \ {w}) = Cardinality(S) - 1)
<1>1. Cardinality(S) \in Nat
  BY FS_CardinalityType
<1>2. IsFiniteSet(S \cup {w}) /\ Cardinality(S \cup {w}) \in {Cardinality(S), Cardinality(S) + 1}
  BY FS_AddElement
<1>3. IsFiniteSet(S \ {w}) /\ (w \in S => Cardinality(S \ {w}) = Cardinality(S) - 1)
  BY FS_RemoveElement
<1> QED BY <1>1, <1>2, <1>3

\* Every compaction counts from its arrival to its rename, once.
LEMMA StepBudget ==
  ASSUME Control, Budget, [Next]_vars
  PROVE  Budget'
<1>1. Cardinality(Renaming) \in Nat
  BY FS_CardinalityType DEF Budget
<1>2. /\ left["compact"] \in Nat /\ left["append"] \in Nat
      /\ Quota["compact"] \in Nat
  BY QuotaType DEF Control
<1>3. ASSUME UNCHANGED <<current, left>>, Renaming' \subseteq Renaming PROVE Budget'
  <2>1. IsFiniteSet(Renaming') /\ Cardinality(Renaming') <= Cardinality(Renaming)
    BY <1>3, FS_Subset DEF Budget
  <2>2. Cardinality(Renaming') \in Nat
    BY <2>1, FS_CardinalityType
  <2> QED BY <1>1, <1>2, <1>3, <2>1, <2>2 DEF Budget
<1>4. ASSUME NEW i \in Process, Quiet(i) \/ CloseFiles(i) PROVE Budget'
  <2>1. UNCHANGED <<current, left, pc>>
    BY <1>4, QuietLeaves DEF CloseFiles, fileVars
  <2> QED BY <1>3, <2>1 DEF Renaming
<1>5. ASSUME NEW i \in Process, Vanish(i) PROVE Budget'
  <2>1. UNCHANGED <<current, left>> /\ Renaming' \subseteq Renaming
    BY <1>5 DEF Vanish, fileVars, Renaming
  <2> QED BY <1>3, <2>1
<1>6. ASSUME NEW w \in Handler, Arrive(w) PROVE Budget'
  <2>1. UNCHANGED current
    BY <1>6 DEF Arrive, fileVars
  <2>2. PICK k \in DOMAIN Quota : /\ left[k] > 0
                                  /\ left' = [left EXCEPT ![k] = @ - 1]
                                  /\ Goto(w, IF k = "append" THEN "append.lock" ELSE "compact.lock")
    BY <1>6 DEF Arrive
  <2>3. CASE k = "append"
    <3>1. left'["compact"] = left["compact"] /\ Renaming' = Renaming
      BY <1>6, <2>2, <2>3 DEF Control, Goto, Renaming, Arrive
    <3> QED BY <2>1, <3>1 DEF Budget
  <2>4. CASE k = "compact"
    <3>1. left'["compact"] = left["compact"] - 1 /\ Renaming' = Renaming \cup {w}
      BY <2>2, <2>4, QuotaType DEF Control, Goto, Renaming
    <3>2. IsFiniteSet(Renaming') /\ Cardinality(Renaming') \in {Cardinality(Renaming), Cardinality(Renaming) + 1}
      BY <3>1, CountOne DEF Budget
    <3> QED BY <1>1, <1>2, <2>1, <3>1, <3>2 DEF Budget
  <2> QED BY <2>3, <2>4, QuotaType
<1>7. ASSUME NEW w \in Handler, CompactRename(w) PROVE Budget'
  <2>1. Renaming' = Renaming \ {w} /\ w \in Renaming
    BY <1>7 DEF CompactRename, Goto, Control, Renaming
  <2>2. current' = current + 1 /\ UNCHANGED left
    BY <1>7 DEF CompactRename
  <2>3. IsFiniteSet(Renaming') /\ Cardinality(Renaming') = Cardinality(Renaming) - 1
    BY <2>1, CountOne DEF Budget
  <2> QED BY <1>1, <1>2, <2>2, <2>3 DEF Budget
<1>8. ASSUME NEW w \in Handler, Handle(w), ~ Arrive(w), ~ CompactRename(w) PROVE Budget'
  <2>1. UNCHANGED <<current, left>>
    BY <1>8 DEF Handle, AppendLock, LoadDescriptor, OpenDescriptor, WriteLine, WriteFails,
         CompactLock, CompactRead, CompactWrite, CompactFails, CompactEvict, CompactDone, fileVars
  <2>2. Renaming' \subseteq Renaming
    BY <1>8 DEF Handle, AppendLock, LoadDescriptor, OpenDescriptor, WriteLine, WriteFails,
         CompactLock, CompactRead, CompactWrite, CompactFails, CompactEvict, CompactDone, Goto, Control, Renaming
  <2> QED BY <1>3, <2>1, <2>2
<1>9. CASE UNCHANGED vars
  <2>1. UNCHANGED <<current, left, pc>>
    BY <1>9 DEF vars, fileVars, handlerVars
  <2> QED BY <1>3, <2>1 DEF Renaming
<1> QED BY <1>4, <1>5, <1>6, <1>7, <1>8, <1>9, LifecycleSteps

\* The current inode is one of the file's; a compaction about to rename has the next.
LEMMA InodeType ==
  ASSUME Control, Budget
  PROVE  /\ current \in Inode
         /\ \A w \in Handler : pc[w] = "compact.rename" => current + 1 \in Inode
<1>1. left["compact"] \in Nat /\ Quota["compact"] \in Nat
  BY QuotaType DEF Control
<1>2. Cardinality(Renaming) \in Nat /\ (Cardinality(Renaming) = 0 => Renaming = {})
  BY FS_CardinalityType, FS_EmptySet DEF Budget
<1>3. \A w \in Handler : pc[w] = "compact.rename" => Renaming # {}
  BY DEF Renaming
<1> QED BY <1>1, <1>2, <1>3 DEF Budget, Inode

\* The files stay sets of records.
LEMMA StepFiles ==
  ASSUME Control, Budget, Files, Descriptors, [Next]_vars
  PROVE  Files'
<1>1. ASSUME NEW i \in Process, Quiet(i) \/ CloseFiles(i) \/ Vanish(i) PROVE Files'
  BY <1>1, QuietLeaves DEF Files, CloseFiles, Vanish, fileVars
<1>2. ASSUME NEW w \in Handler, WriteLine(w) PROVE Files'
  <2>1. use[w][1] \in Inode
    BY <1>2 DEF WriteLine, Descriptors, Descriptor
  <2> QED BY <1>2, <2>1 DEF WriteLine, Files
<1>3. ASSUME NEW w \in Handler, CompactRename(w) PROVE Files'
  BY <1>3 DEF CompactRename, Files
<1>4. ASSUME NEW w \in Handler, CompactRead(w) PROVE Files'
  <2>1. lines[current] \in SUBSET RecId
    BY InodeType DEF Files
  <2> QED BY <1>4, <2>1 DEF CompactRead, Files, fileVars
<1>5. ASSUME NEW w \in Handler, CompactWrite(w) \/ CompactFails(w) \/ CompactEvict(w) PROVE Files'
  BY <1>5 DEF CompactWrite, CompactFails, CompactEvict, CompactDone, Files
<1>6. ASSUME NEW w \in Handler,
             Arrive(w) \/ AppendLock(w) \/ LoadDescriptor(w) \/ OpenDescriptor(w) \/ WriteFails(w) \/ CompactLock(w)
      PROVE  Files'
  BY <1>6 DEF Arrive, AppendLock, LoadDescriptor, OpenDescriptor, WriteFails, CompactLock, fileVars, Files
<1>7. CASE UNCHANGED vars
  BY <1>7 DEF vars, fileVars, handlerVars, Files
<1> QED BY <1>1, <1>2, <1>3, <1>4, <1>5, <1>6, <1>7, LifecycleSteps DEF Handle

\* What a handler's step does to the plans of the others: nothing.
LEMMA OthersPlan ==
  ASSUME Control, Files, NEW v \in Handler, NEW w \in Handler, v # w, Handle(v)
  PROVE  pc'[w] = pc[w] /\ plan'[w] = plan[w]
<1>1. pc'[w] = pc[w]
  BY DEF Control, Handle, Arrive, AppendLock, LoadDescriptor, OpenDescriptor, WriteLine, WriteFails,
         CompactLock, CompactRead, CompactWrite, CompactRename, CompactFails, CompactEvict,
         CompactDone, Goto
<1>2. plan'[w] = plan[w]
  BY DEF Files, Handle, Arrive, AppendLock, LoadDescriptor, OpenDescriptor, WriteLine, WriteFails,
         CompactLock, CompactRead, CompactWrite, CompactRename, CompactFails, CompactEvict,
         CompactDone, handlerVars
<1> QED BY <1>1, <1>2

\* Who changes the file and the temporary holds the partition lock for it.
LEMMA FileChanges ==
  ASSUME NEW v \in Handler, Handle(v)
  PROVE  \/ UNCHANGED fileVars
         \/ pc[v] \in Appending /\ WriteLine(v) /\ UNCHANGED <<current, tmp>>
         \/ pc[v] \in Compacting /\ CompactRename(v)
         \/ pc[v] \in Compacting /\ UNCHANGED <<current, lines>>
  BY DEF Handle, Arrive, AppendLock, LoadDescriptor, OpenDescriptor, WriteLine, WriteFails,
         CompactLock, CompactRead, CompactWrite, CompactRename, CompactFails, CompactEvict,
         CompactDone, fileVars, Appending, Compacting

\* While one handler compacts, nobody else's step changes the file or the temporary.
LEMMA CompactionUndisturbed ==
  ASSUME Control, Locks, NEW v \in Handler, NEW w \in Handler, v # w, Handle(v), pc[w] \in Compacting
  PROVE  UNCHANGED <<current, lines, tmp>>
<1>1. pc[v] \notin Appending \cup Compacting
  BY AppendAlone
<1> QED BY <1>1, FileChanges DEF fileVars

\* No step changes the file under a compaction that has read it.
LEMMA StepPlans ==
  ASSUME Control, Locks, Owners, Served, Files, Plans, RecoverySpares, [Next]_vars
  PROVE  Plans' /\ RecoverySpares'
<1> SUFFICES ASSUME NEW w \in Handler, pc'[w] \in {"compact.tmp", "compact.rename"}
             PROVE  /\ plan'[w] = lines'[current']
                    /\ pc'[w] = "compact.rename" => /\ tmp' \in {plan'[w], None}
                                                    /\ ~ abandoned' => tmp' = plan'[w]
  BY DEF Plans, RecoverySpares
<1> DEFINE Goal == /\ plan'[w] = lines'[current']
                   /\ pc'[w] = "compact.rename" => /\ tmp' \in {plan'[w], None}
                                                   /\ ~ abandoned' => tmp' = plan'[w]
<1>1. ASSUME pc'[w] = pc[w], plan'[w] = plan[w], UNCHANGED <<current, lines, tmp>>, abandoned => abandoned'
      PROVE  Goal
  BY <1>1 DEF Plans, RecoverySpares
<1>2. ASSUME NEW i \in Process, Quiet(i) PROVE Goal
  <2>1. /\ UNCHANGED <<current, lines, pc, plan>> /\ (abandoned => abandoned')
        /\ tmp' = tmp \/ (tmp' = None /\ life[i] = "recovering")
    BY <1>2, QuietLeaves
  <2>2. CASE tmp' = tmp
    BY <1>1, <2>1, <2>2
  <2>3. CASE tmp' = None /\ life[i] = "recovering"
    <3>1. abandoned
      <4>1. SUFFICES ASSUME ~ abandoned PROVE FALSE
        OBVIOUS
      <4>2. Proc(w) \in Process /\ life[Proc(w)] \in {"serving", "draining"}
        BY <2>1, <4>1, HandlerType DEF Served
      <4>3. owner = Proc(w) /\ owner = i
        BY <2>3, <4>2 DEF Owners, Owning
      <4> QED BY <2>3, <4>2, <4>3
    <3> QED BY <2>1, <2>3, <3>1 DEF Plans
  <2> QED BY <2>1, <2>2, <2>3
<1>3. ASSUME NEW i \in Process, CloseFiles(i) PROVE Goal
  BY <1>1, <1>3 DEF CloseFiles, fileVars
<1>4. ASSUME NEW i \in Process, Vanish(i) PROVE Goal
  <2>1. pc'[w] = pc[w] /\ plan'[w] = plan[w]
    BY <1>4 DEF Vanish
  <2> QED BY <1>1, <1>4, <2>1 DEF Vanish, fileVars
<1>5. ASSUME NEW v \in Handler, Handle(v), v # w PROVE Goal
  <2>1. pc'[w] = pc[w] /\ plan'[w] = plan[w]
    BY <1>5, OthersPlan
  <2>2. pc[w] \in Compacting
    BY <2>1 DEF Compacting
  <2>3. UNCHANGED <<current, lines, tmp>>
    BY <1>5, <2>2, CompactionUndisturbed
  <2> QED BY <1>1, <1>5, <2>1, <2>3, HandleLeaves
<1>6. ASSUME Handle(w) PROVE Goal
  <2>1. CompactRead(w) \/ CompactWrite(w)
    BY <1>6 DEF Control, Handle, Arrive, AppendLock, LoadDescriptor, OpenDescriptor, WriteLine, WriteFails,
         CompactLock, CompactRead, CompactWrite, CompactRename, CompactFails, CompactEvict,
         CompactDone, Goto
  <2>2. CASE CompactRead(w)
    BY <2>2 DEF CompactRead, Goto, Control, Files, fileVars
  <2>3. CASE CompactWrite(w)
    BY <2>3 DEF CompactWrite, Goto, Control, Plans
  <2> QED BY <2>1, <2>2, <2>3
<1>7. CASE UNCHANGED vars
  BY <1>1, <1>7 DEF vars, mainVars, handlerVars, fileVars
<1> QED BY <1>2, <1>3, <1>4, <1>5, <1>6, <1>7, LifecycleSteps

-----------------------------------------------------------------------------
\* The descriptors.

\* No step leaves a descriptor open that no handler and no map knows.
LEMMA StepDescriptors ==
  ASSUME Control, Budget, Descriptors, [Next]_vars
  PROVE  Descriptors'
<1>1. ASSUME UNCHANGED <<cache, opened>>, use' \in [Handler -> Descriptor \cup {None}] PROVE Descriptors'
  BY <1>1 DEF Descriptors
<1>2. ASSUME NEW i \in Process, Quiet(i) PROVE Descriptors'
  BY <1>1, <1>2, QuietLeaves DEF Descriptors
<1>3. ASSUME NEW i \in Process, CloseFiles(i) \/ Vanish(i) PROVE Descriptors'
  <2>1. use' \in [Handler -> Descriptor \cup {None}]
    BY <1>3 DEF CloseFiles, Vanish, Descriptors
  <2>2. cache' = [cache EXCEPT ![i] = None]
    BY <1>3 DEF CloseFiles, Vanish
  <2>3. opened' = [opened EXCEPT ![i] = {}]
    BY <1>3 DEF CloseFiles, Vanish, Descriptors
  <2> QED BY <2>1, <2>2, <2>3 DEF Descriptors
<1>4. ASSUME NEW w \in Handler, OpenDescriptor(w) PROVE Descriptors'
  <2> DEFINE i == Proc(w)
             new == IF cache[i] = None THEN <<current, w>> ELSE cache[i]
  <2>1. i \in Process
    BY HandlerType
  <2>2. new \in Descriptor /\ new # None
    BY <2>1, InodeType, NoneAssumption DEF Descriptors, Descriptor
  <2>3. /\ use' = [use EXCEPT ![w] = new] /\ cache' = [cache EXCEPT ![i] = new]
        /\ opened' = [opened EXCEPT ![i] = @ \cup {new}]
    BY <1>4 DEF OpenDescriptor
  <2>4. opened[i] \cup {new} = {new}
    BY <2>1 DEF Descriptors
  <2> HIDE DEF new, i
  <2> QED BY <2>1, <2>2, <2>3, <2>4 DEF Descriptors
<1>5. ASSUME NEW w \in Handler, CompactEvict(w) PROVE Descriptors'
  <2>1. Proc(w) \in Process
    BY HandlerType
  <2>2. /\ cache' = [cache EXCEPT ![Proc(w)] = None] /\ UNCHANGED use
        /\ opened' = [opened EXCEPT ![Proc(w)] = {}]
    BY <1>5, <2>1 DEF CompactEvict, CompactDone, Descriptors
  <2> QED BY <2>1, <2>2 DEF Descriptors
<1>6. ASSUME NEW w \in Handler, LoadDescriptor(w) PROVE Descriptors'
  BY <1>1, <1>6, HandlerType DEF LoadDescriptor, Descriptors, fdVars
<1>7. ASSUME NEW w \in Handler,
             Arrive(w) \/ AppendLock(w) \/ WriteLine(w) \/ WriteFails(w) \/ CompactLock(w)
             \/ CompactRead(w) \/ CompactWrite(w) \/ CompactRename(w) \/ CompactFails(w)
      PROVE  Descriptors'
  BY <1>1, <1>7 DEF Arrive, AppendLock, WriteLine, WriteFails, CompactLock, CompactRead, CompactWrite,
       CompactRename, CompactFails, CompactDone, fdVars, Descriptors
<1>8. CASE UNCHANGED vars
  BY <1>1, <1>8 DEF vars, fdVars, handlerVars, Descriptors
<1> QED BY <1>2, <1>3, <1>4, <1>5, <1>6, <1>7, <1>8, LifecycleSteps DEF Handle

\* What a handler does to descriptors: one opens, one evicts, one goes to write.
LEMMA DescriptorChanges ==
  ASSUME NEW v \in Handler, Handle(v)
  PROVE  UNCHANGED cache \/ OpenDescriptor(v) \/ CompactEvict(v)
  BY DEF Handle, Arrive, AppendLock, LoadDescriptor, WriteLine, WriteFails, CompactLock, CompactRead,
         CompactWrite, CompactRename, CompactFails, CompactDone, fdVars

\* A step of one handler moves no other one to its write.
LEMMA OthersWrite ==
  ASSUME Control, Descriptors, NEW v \in Handler, NEW w \in Handler, v # w, Handle(v)
  PROVE  pc'[w] = pc[w] /\ use'[w] = use[w]
<1>1. pc'[w] = pc[w]
  BY DEF Control, Handle, Arrive, AppendLock, LoadDescriptor, OpenDescriptor, WriteLine, WriteFails,
         CompactLock, CompactRead, CompactWrite, CompactRename, CompactFails, CompactEvict,
         CompactDone, Goto
<1>2. use'[w] = use[w]
  BY DEF Descriptors, Handle, Arrive, AppendLock, LoadDescriptor, OpenDescriptor, WriteLine, WriteFails,
         CompactLock, CompactRead, CompactWrite, CompactRename, CompactFails, CompactEvict,
         CompactDone, handlerVars
<1> QED BY <1>1, <1>2

\* Whoever handles a request, or has a descriptor, is of the one process that owns server.lock.
LEMMA OneServes ==
  ASSUME Control, Owners, Served, Cached, ~ abandoned
  PROVE  /\ \A w \in Handler : pc[w] # "idle" => owner = Proc(w)
         /\ \A i \in Process : cache[i] # None => owner = i
  BY HandlerType DEF Owners, Served, Cached, Owning

\* No step caches a descriptor of a file that was replaced.
LEMMA StepCached ==
  ASSUME Control, Owners, Served, Descriptors, Cached, [Next]_vars
  PROVE  Cached'
<1> SUFFICES ASSUME ~ abandoned', NEW i \in Process, cache'[i] # None
             PROVE  /\ life'[i] \in {"serving", "draining", "closing"}
                    /\ cache'[i][1] = current' \/ \E w \in HandlersOf(i) : pc'[w] = "compact.evict"
  BY DEF Cached
<1> DEFINE Goal == /\ life'[i] \in {"serving", "draining", "closing"}
                   /\ cache'[i][1] = current' \/ \E w \in HandlersOf(i) : pc'[w] = "compact.evict"
<1>1. ASSUME cache'[i] = cache[i], current' = current, ~ abandoned, life'[i] = life[i],
             \A w \in HandlersOf(i) : pc[w] = "compact.evict" => pc'[w] = "compact.evict"
      PROVE  Goal
  BY <1>1 DEF Cached
<1>2. ASSUME NEW j \in Process, Quiet(j) PROVE Goal
  <2>1. UNCHANGED <<cache, current, pc>> /\ ~ abandoned
    BY <1>2, QuietLeaves
  <2>2. life[i] \in {"serving", "draining", "closing"}
    BY <2>1 DEF Cached
  <2>3. life'[i] \in {"serving", "draining", "closing"}
    BY <1>2, <2>2 DEF Control, Quiet, Start, AcquireServer, AcquireFails, Recover,
         Signal, Drained, Abandon, ReleaseServer
  <2> QED BY <2>1, <2>3 DEF Cached
<1>3. ASSUME NEW j \in Process, CloseFiles(j) PROVE Goal
  <2>1. i # j
    BY <1>3 DEF CloseFiles, Descriptors
  <2> QED BY <1>1, <1>3, <2>1 DEF CloseFiles, Control, Descriptors, fileVars
<1>4. ASSUME NEW j \in Process, Vanish(j) PROVE Goal
  <2>1. i # j
    BY <1>4 DEF Vanish, Descriptors
  <2>2. \A w \in HandlersOf(i) : pc'[w] = pc[w]
    BY <1>4, <2>1 DEF Vanish, HandlersOf
  <2> QED BY <1>1, <1>4, <2>1, <2>2 DEF Vanish, Control, Descriptors, fileVars
<1>5. ASSUME NEW v \in Handler, Handle(v) PROVE Goal
  <2>1. UNCHANGED life /\ ~ abandoned
    BY <1>5, HandleLeaves
  <2>2. \A w \in HandlersOf(i) : pc[w] = "compact.evict" => w = v \/ pc'[w] = "compact.evict"
    BY <1>5, OthersWrite, HandlerType
  <2>3. CASE OpenDescriptor(v)
    <3>1. pc[v] = "append.open" /\ current' = current
      BY <2>3 DEF OpenDescriptor, fileVars
    <3>2. CASE i = Proc(v) /\ cache[i] = None
      <4>1. cache'[i] = <<current, v>>
        BY <2>3, <3>2 DEF OpenDescriptor, Descriptors
      <4>2. life[i] \in {"serving", "draining"}
        BY <2>1, <3>1, <3>2 DEF Served
      <4> QED BY <2>1, <3>1, <4>1, <4>2
    <3>3. CASE ~ (i = Proc(v) /\ cache[i] = None)
      <4>1. cache'[i] = cache[i]
        BY <2>3, <3>3 DEF OpenDescriptor, Descriptors
      <4> QED BY <1>1, <2>1, <2>2, <3>1, <4>1
    <3> QED BY <3>2, <3>3
  <2>4. CASE CompactRename(v)
    <3>1. cache'[i] = cache[i] /\ pc'[v] = "compact.evict" /\ pc[v] # "idle"
      BY <2>4 DEF CompactRename, fdVars, Goto, Control
    <3>2. Proc(v) = i
      BY <2>1, <3>1, OneServes
    <3> QED BY <2>1, <3>1, <3>2 DEF Cached, HandlersOf
  <2>5. CASE CompactEvict(v)
    <3>1. Proc(v) # i /\ cache'[i] = cache[i] /\ pc[v] # "idle"
      BY <2>5 DEF CompactEvict, Descriptors
    <3> QED BY <2>1, <3>1, OneServes
  <2>6. CASE ~ OpenDescriptor(v) /\ ~ CompactRename(v) /\ ~ CompactEvict(v)
    <3>1. UNCHANGED <<cache, current>>
      BY <1>5, <2>6, DescriptorChanges, FileChanges DEF fileVars
    <3>2. pc[v] # "compact.evict"
      BY <1>5, <2>6 DEF Handle, Arrive, AppendLock, LoadDescriptor, WriteLine, WriteFails, CompactLock,
           CompactRead, CompactWrite, CompactFails
    <3> QED BY <1>1, <2>1, <2>2, <3>1, <3>2
  <2> QED BY <2>3, <2>4, <2>5, <2>6
<1>6. CASE UNCHANGED vars
  BY <1>1, <1>6 DEF vars, mainVars, handlerVars, fileVars, fdVars
<1> QED BY <1>2, <1>3, <1>4, <1>5, <1>6, LifecycleSteps

\* No step closes a descriptor under a handler that is about to write.
LEMMA StepWriting ==
  ASSUME Control, Budget, Locks, Served, Descriptors, Writing, [Next]_vars
  PROVE  Writing'
<1> SUFFICES ASSUME ~ abandoned', NEW w \in Handler, pc'[w] = "append.write"
             PROVE  use'[w] = cache'[Proc(w)] /\ use'[w] # None
  BY DEF Writing
<1> DEFINE Goal == use'[w] = cache'[Proc(w)] /\ use'[w] # None
<1>1. ASSUME pc[w] = "append.write", use'[w] = use[w], cache'[Proc(w)] = cache[Proc(w)], ~ abandoned
      PROVE  Goal
  BY <1>1 DEF Writing
<1>2. Proc(w) \in Process
  BY HandlerType
<1>3. ASSUME NEW j \in Process, Quiet(j) PROVE Goal
  BY <1>1, <1>3, QuietLeaves
<1>4. ASSUME NEW j \in Process, CloseFiles(j) PROVE Goal
  <2>1. pc[w] = "append.write" /\ ~ abandoned /\ life[j] = "closing"
    BY <1>4 DEF CloseFiles
  <2>2. Proc(w) # j
    BY <2>1 DEF Served
  <2> QED BY <1>1, <1>2, <1>4, <2>1, <2>2 DEF CloseFiles, Descriptors
<1>5. ASSUME NEW j \in Process, Vanish(j) PROVE Goal
  <2>1. Proc(w) # j /\ pc[w] = "append.write" /\ ~ abandoned
    BY <1>5 DEF Vanish
  <2> QED BY <1>1, <1>2, <1>5, <2>1 DEF Vanish, Descriptors
<1>6. ASSUME Handle(w) PROVE Goal
  <2>1. LoadDescriptor(w) \/ OpenDescriptor(w)
    BY <1>6 DEF Control, Handle, Arrive, AppendLock, LoadDescriptor, OpenDescriptor, WriteLine, WriteFails,
         CompactLock, CompactRead, CompactWrite, CompactRename, CompactFails, CompactEvict,
         CompactDone, Goto
  <2>2. CASE LoadDescriptor(w)
    BY <1>2, <2>2 DEF LoadDescriptor, Goto, Control, Descriptors, fdVars
  <2>3. CASE OpenDescriptor(w)
    <3> DEFINE new == IF cache[Proc(w)] = None THEN <<current, w>> ELSE cache[Proc(w)]
    <3>1. use' = [use EXCEPT ![w] = new] /\ cache' = [cache EXCEPT ![Proc(w)] = new]
      BY <2>3 DEF OpenDescriptor
    <3>2. use'[w] = new /\ cache'[Proc(w)] = new
      <4> HIDE DEF new
      <4> QED BY <1>2, <3>1 DEF Descriptors
    <3>3. new # None
      BY InodeType, NoneAssumption DEF Descriptor
    <3> QED BY <3>2, <3>3
  <2> QED BY <2>1, <2>2, <2>3
<1>7. ASSUME NEW v \in Handler, Handle(v), v # w PROVE Goal
  <2>1. pc[w] = "append.write" /\ use'[w] = use[w] /\ ~ abandoned
    BY <1>7, OthersWrite, HandleLeaves
  <2>2. use[w] = cache[Proc(w)] /\ use[w] # None
    BY <2>1 DEF Writing
  <2>3. pc[v] \notin Compacting
    BY <1>7, <2>1, AppendAlone DEF Appending
  <2>4. ~ CompactEvict(v)
    BY <2>3 DEF CompactEvict, Compacting
  <2>5. OpenDescriptor(v) => cache'[Proc(w)] = cache[Proc(w)]
    BY <1>2, <2>2 DEF OpenDescriptor, Descriptors
  <2> QED BY <1>1, <1>7, <2>1, <2>4, <2>5, DescriptorChanges
<1>8. CASE UNCHANGED vars
  BY <1>1, <1>8 DEF vars, mainVars, handlerVars, fdVars
<1> QED BY <1>3, <1>4, <1>5, <1>6, <1>7, <1>8, LifecycleSteps

-----------------------------------------------------------------------------
\* What clients were told.

\* A descriptor that a handler writes through is on the current inode: the
\* compaction that could have renamed the file away is excluded by the lock.
LEMMA WritesToCurrent ==
  ASSUME Locks, Descriptors, Cached, Writing, ~ abandoned, NEW w \in Handler, pc[w] = "append.write"
  PROVE  use[w][1] = current
<1>1. use[w] = cache[Proc(w)] /\ use[w] # None /\ Proc(w) \in Process
  BY HandlerType DEF Writing
<1>2. \A v \in HandlersOf(Proc(w)) : pc[v] # "compact.evict"
  <2> SUFFICES ASSUME NEW v \in HandlersOf(Proc(w)), pc[v] = "compact.evict" PROVE FALSE
    OBVIOUS
  <2>1. v \in Handler
    BY DEF HandlersOf
  <2> QED BY <2>1, AppendAlone DEF Appending, Compacting
<1> QED BY <1>1, <1>2 DEF Cached

\* No step takes a record that was answered out of the file.
LEMMA StepAnswered ==
  ASSUME LifecycleInv, [Next]_vars
  PROVE  AnsweredInFile'
<1> SUFFICES ASSUME ~ abandoned' PROVE answered' \subseteq lines'[current']
  BY DEF AnsweredInFile
<1> USE DEF LifecycleInv
<1>1. current \in Inode
  BY InodeType
<1>2. ASSUME UNCHANGED <<current, lines, answered>>, ~ abandoned PROVE answered' \subseteq lines'[current']
  BY <1>2 DEF AnsweredInFile
<1>3. ASSUME NEW i \in Process, Quiet(i) \/ CloseFiles(i) \/ Vanish(i) PROVE answered' \subseteq lines'[current']
  BY <1>2, <1>3, QuietLeaves DEF CloseFiles, Vanish, fileVars
<1>4. ASSUME NEW w \in Handler, WriteLine(w) PROVE answered' \subseteq lines'[current']
  <2>1. ~ abandoned /\ use[w][1] = current
    BY <1>4, WritesToCurrent DEF WriteLine, mainVars
  <2>2. PICK r \in RecId : /\ lines' = [lines EXCEPT ![use[w][1]] = @ \cup {r}]
                           /\ answered' = answered \cup {r}
    BY <1>4 DEF WriteLine
  <2>3. current' = current /\ lines'[current] = lines[current] \cup {r}
    BY <1>1, <1>4, <2>1, <2>2 DEF WriteLine, Files
  <2> QED BY <2>1, <2>2, <2>3 DEF AnsweredInFile
<1>5. ASSUME NEW w \in Handler, CompactRename(w) PROVE answered' \subseteq lines'[current']
  <2>1. ~ abandoned /\ UNCHANGED answered /\ pc[w] = "compact.rename"
    BY <1>5 DEF CompactRename, mainVars
  <2>2. tmp = lines[current]
    BY <2>1 DEF RecoverySpares, Plans
  <2>3. current + 1 \in Inode
    BY <2>1, InodeType
  <2>4. lines'[current'] = tmp
    BY <1>5, <2>3 DEF CompactRename, Files
  <2> QED BY <2>1, <2>2, <2>4 DEF AnsweredInFile
<1>6. ASSUME NEW w \in Handler, Handle(w), ~ WriteLine(w), ~ CompactRename(w)
      PROVE  answered' \subseteq lines'[current']
  BY <1>2, <1>6 DEF Handle, Arrive, AppendLock, LoadDescriptor, OpenDescriptor, WriteFails, CompactLock,
       CompactRead, CompactWrite, CompactFails, CompactEvict, CompactDone, mainVars, fileVars
<1>7. CASE UNCHANGED vars
  BY <1>2, <1>7 DEF vars, mainVars, fileVars
<1> QED BY <1>3, <1>4, <1>5, <1>6, <1>7, LifecycleSteps

\* Whatever is abandoned, the file only gains records.
LEMMA StepVisible ==
  ASSUME LifecycleInv, [Next]_vars
  PROVE  lines[current] \subseteq lines'[current']
<1> USE DEF LifecycleInv
<1>1. current \in Inode
  BY InodeType
<1>2. ASSUME NEW i \in Process, Quiet(i) \/ CloseFiles(i) \/ Vanish(i) PROVE UNCHANGED <<current, lines>>
  BY <1>2, QuietLeaves DEF CloseFiles, Vanish, fileVars
<1>3. ASSUME NEW w \in Handler, WriteLine(w) PROVE lines[current] \subseteq lines'[current']
  <2>1. PICK r \in RecId : lines' = [lines EXCEPT ![use[w][1]] = @ \cup {r}]
    BY <1>3 DEF WriteLine
  <2>2. current' = current
    BY <1>3 DEF WriteLine
  <2> QED BY <1>1, <2>1, <2>2 DEF Files
<1>4. ASSUME NEW w \in Handler, CompactRename(w) PROVE lines[current] \subseteq lines'[current']
  <2>1. tmp = lines[current] /\ current + 1 \in Inode
    BY <1>4, InodeType DEF CompactRename, Plans
  <2> QED BY <1>4, <2>1 DEF CompactRename, Files
<1>5. CASE UNCHANGED vars
  BY <1>5 DEF vars, fileVars
<1> QED BY <1>2, <1>3, <1>4, <1>5, LifecycleSteps, FileChanges DEF fileVars

-----------------------------------------------------------------------------
\* The theorems.

\* The inductive invariant holds in every behaviour.
THEOREM LifecycleAlways == Spec => []LifecycleInv
<1>1. LifecycleInv /\ [Next]_vars => LifecycleInv'
  <2> SUFFICES ASSUME LifecycleInv, [Next]_vars PROVE LifecycleInv'
    OBVIOUS
  <2>1. Control' /\ Locks' /\ Owners' /\ Served'
    BY StepControl, StepLocks, StepOwners, StepServed DEF LifecycleInv
  <2>2. Budget' /\ Files' /\ Plans' /\ RecoverySpares'
    BY StepBudget, StepFiles, StepPlans DEF LifecycleInv
  <2>3. Descriptors' /\ Cached' /\ Writing' /\ AnsweredInFile'
    BY StepDescriptors, StepCached, StepWriting, StepAnswered DEF LifecycleInv
  <2> QED BY <2>1, <2>2, <2>3 DEF LifecycleInv
<1> QED BY <1>1, InitLifecycle, PTL DEF Spec

\* Every variable stays within its type, and the partition lock excludes
\* writers over all processes: there is an inode for every compaction, and the
\* map of a process names descriptors only (jsonl.go getOrCreate, evict).
THEOREM LifecycleTypes == Spec => []TypeOK
<1>1. LifecycleInv => TypeOK
  <2> SUFFICES ASSUME LifecycleInv PROVE TypeOK
    OBVIOUS
  <2>1. current \in Inode
    BY InodeType DEF LifecycleInv
  <2>2. opened \in [Process -> SUBSET Descriptor]
    BY DEF LifecycleInv, Descriptors
  <2> QED BY <2>1, <2>2 DEF LifecycleInv, TypeOK, Control, Owners, Files, Locks, Descriptors
<1> QED BY <1>1, LifecycleAlways, PTL

\* Unless connections were abandoned, every handler that runs is of the process
\* that holds server.lock: no two processes ever serve (cmd/server/main.go Run,
\* pkg/flock/flock.go Acquire).
THEOREM OnlyTheOwnerHandles == Spec => []OwnerHandles
<1>1. LifecycleInv => OwnerHandles
  BY OneServes DEF LifecycleInv, OwnerHandles
<1> QED BY <1>1, LifecycleAlways, PTL

\* A process has no descriptor open but the one in its map, and none is closed
\* under a handler that is about to write through it (jsonl.go getOrCreate,
\* evict, Close).
THEOREM DescriptorsAreInUse == Spec => []DescriptorsInUse
<1>1. LifecycleInv => DescriptorsInUse
  <2> SUFFICES ASSUME LifecycleInv PROVE DescriptorsInUse
    OBVIOUS
  <2>1. \A i \in Process : opened[i] \subseteq {cache[i]}
    BY DEF LifecycleInv, Descriptors
  <2>2. ASSUME ~ abandoned, NEW w \in Handler, pc[w] = "append.write" PROVE use[w] \in opened[Proc(w)]
    BY <2>2, HandlerType DEF LifecycleInv, Descriptors, Writing
  <2> QED BY <2>1, <2>2 DEF DescriptorsInUse
<1> QED BY <1>1, LifecycleAlways, PTL

\* Start-up removes no temporary that a compaction is about to rename, unless
\* connections were abandoned (compact.go recoverCompaction, called by NewStore).
THEOREM RecoverySparesCompactions == Spec => []RecoverySpares
<1>1. LifecycleInv => RecoverySpares
  BY DEF LifecycleInv
<1> QED BY <1>1, LifecycleAlways, PTL

\* A record whose append was answered is in the current file, through any number
\* of compactions, restarts and deaths, unless connections were abandoned.
THEOREM AnsweredStayInFile == Spec => []AnsweredInFile
<1>1. LifecycleInv => AnsweredInFile
  BY DEF LifecycleInv
<1> QED BY <1>1, LifecycleAlways, PTL

\* And whatever is abandoned, a record that is in the file stays in it.
THEOREM VisibleRecordsStay == Spec => NothingVisibleLost
<1>1. LifecycleInv /\ [Next]_vars => [lines[current] \subseteq lines'[current']]_vars
  BY StepVisible
<1> QED BY <1>1, LifecycleAlways, PTL DEF Spec, NothingVisibleLost
=============================================================================

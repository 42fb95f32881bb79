----------------------------- MODULE Lifecycle -----------------------------
(***************************************************************************)
(* Server processes on one data directory: start-up, graceful shutdown,    *)
(* death, and the descriptors each process caches, seen on one journal     *)
(* file that appends extend and compactions replace.  Run opens the index, *)
(* takes server.lock, removes temporaries and serves; on a signal it waits *)
(* for the connections, but 15 s at most, and not at all if the listener   *)
(* has failed; then it closes the cached descriptors, releases the lock    *)
(* and exits.  The connections that are left go on until the exit, next to *)
(* the process that may have been started.                                 *)
(***************************************************************************)
EXTENDS Integers, FiniteSets, RWLockOps

CONSTANTS
  Process,
  Slot,         \* the handlers of a process
  RecId,        \* record UUIDs
  None,
  MaxStarts,    \* BOUND: how many processes are started
  Quota,        \* BOUND: how many appends and compactions are requested
  MaxKills      \* BOUND: how many processes are killed

ASSUME LifecycleAssumption ==
  /\ IsFiniteSet(RecId)
  /\ MaxStarts \in Nat /\ MaxKills \in Nat
  /\ Quota \in [{"append", "compact"} -> Nat]

Handler == Process \X Slot
Proc(w) == w[1]
HandlersOf(i) == {w \in Handler : Proc(w) = i}

\* Inodes are numbered as compactions create them.
Inode == 1 .. Quota["compact"] + 1

\* A descriptor is named for the inode it refers to and the handler that opened it.
Descriptor == Inode \X Handler

\* No process, no descriptor, no file.
ASSUME NoneAssumption ==
  /\ None \notin Process \cup Descriptor
  /\ \A records \in SUBSET RecId : records # None

VARIABLES
  life,       \* where main is, for each process
  admitting,  \* the processes with connections that still deliver requests
  owner,      \* the process that holds server.lock, None if nobody does
  current,    \* the inode under the name of the journal file
  lines,      \* lines[n]: the records in inode n
  tmp,        \* the records in the rewrite temporary, None if there is none
  plock,      \* the lock file of the partition
  pc,         \* the next step of each handler
  use,        \* use[w]: the descriptor handler w writes through, None if it is closed
  plan,       \* plan[w]: the records compaction w has read
  cache,      \* cache[i]: the descriptor in the map of process i
  opened,     \* opened[i]: the open descriptors of process i
  answered,   \* the records whose append was answered 201 or 202
  abandoned,  \* did a process ever close its stores with connections left?
  starts,     \* processes started so far
  left,       \* left[k]: requests of kind k still to arrive
  kills       \* processes killed so far

mainVars == <<life, admitting, owner, abandoned, starts, kills>>
fileVars == <<current, lines, tmp>>
handlerVars == <<pc, use, plan>>
fdVars == <<cache, opened>>
vars == <<mainVars, fileVars, plock, handlerVars, fdVars, answered, left>>

Busy(i) == \E w \in HandlersOf(i) : pc[w] # "idle"

Goto(w, step) == pc' = [pc EXCEPT ![w] = step]

-----------------------------------------------------------------------------
\* Main.

\* The index is opened before the lock is asked for.
Start(i) ==
  /\ life[i] = "down"
  /\ starts < MaxStarts
  /\ starts' = starts + 1
  /\ life' = [life EXCEPT ![i] = "opening"]
  /\ UNCHANGED <<admitting, owner, abandoned, kills, fileVars, plock, handlerVars, fdVars, answered, left>>

\* flock.Acquire.
AcquireServer(i) ==
  /\ life[i] = "opening"
  /\ owner = None
  /\ owner' = i
  /\ life' = [life EXCEPT ![i] = "recovering"]
  /\ UNCHANGED <<admitting, abandoned, starts, kills, fileVars, plock, handlerVars, fdVars, answered, left>>

\* Another process holds the lock: the index is closed, the process exits.
AcquireFails(i) ==
  /\ life[i] = "opening"
  /\ owner # None
  /\ life' = [life EXCEPT ![i] = "down"]
  /\ UNCHANGED <<admitting, owner, abandoned, starts, kills, fileVars, plock, handlerVars, fdVars, answered, left>>

\* recoverCompaction removes the temporary, or logs that it could not; then requests are served.
Recover(i) ==
  /\ life[i] = "recovering"
  /\ tmp' \in {tmp, None}
  /\ life' = [life EXCEPT ![i] = "serving"]
  /\ admitting' = admitting \cup {i}
  /\ UNCHANGED <<owner, abandoned, starts, kills, current, lines, plock, handlerVars, fdVars, answered, left>>

\* SIGINT or SIGTERM: Shutdown closes the listener and the idle connections;
\* one whose request is on its way is not idle.
Signal(i) ==
  /\ life[i] = "serving"
  /\ life' = [life EXCEPT ![i] = "draining"]
  /\ UNCHANGED <<admitting, owner, abandoned, starts, kills, fileVars, plock, handlerVars, fdVars, answered, left>>

\* Faulty variant: nobody waits for the handlers.
StopAtOnce(i) ==
  /\ life[i] \in {"serving", "draining"}
  /\ life' = [life EXCEPT ![i] = "closing"]
  /\ admitting' = admitting \ {i}
  /\ UNCHANGED <<owner, abandoned, starts, kills, fileVars, plock, handlerVars, fdVars, answered, left>>

\* Shutdown returns, no connection being left; or ListenAndServe fails with none.
Drained(i) ==
  /\ life[i] \in {"serving", "draining"}
  /\ ~ Busy(i)
  /\ life' = [life EXCEPT ![i] = "closing"]
  /\ admitting' = admitting \ {i}
  /\ UNCHANGED <<owner, abandoned, starts, kills, fileVars, plock, handlerVars, fdVars, answered, left>>

\* Shutdown gives up after 15 s, or ListenAndServe fails and nothing waits: with
\* connections left, whose handlers run or whose requests are still to come.
Abandon(i) ==
  /\ life[i] \in {"serving", "draining"}
  /\ life' = [life EXCEPT ![i] = "closing"]
  /\ abandoned' = TRUE
  /\ UNCHANGED <<admitting, owner, starts, kills, fileVars, plock, handlerVars, fdVars, answered, left>>

\* JSONLWriter.Close.
CloseFiles(i) ==
  /\ life[i] = "closing"
  /\ cache' = [cache EXCEPT ![i] = None]
  /\ opened' = [opened EXCEPT ![i] = @ \ {cache[i]}]
  /\ use' = [w \in Handler |-> IF Proc(w) = i /\ use[w] = cache[i] THEN None ELSE use[w]]
  /\ life' = [life EXCEPT ![i] = "closed"]
  /\ UNCHANGED <<admitting, owner, abandoned, starts, kills, fileVars, plock, pc, plan, answered, left>>

\* Lock.Release.
ReleaseServer(i) ==
  /\ life[i] = "closed"
  /\ owner' = None
  /\ life' = [life EXCEPT ![i] = "exiting"]
  /\ UNCHANGED <<admitting, abandoned, starts, kills, fileVars, plock, handlerVars, fdVars, answered, left>>

\* The process is gone: its handlers, descriptors and locks with it.
Vanish(i) ==
  /\ life' = [life EXCEPT ![i] = "down"]
  /\ admitting' = admitting \ {i}
  /\ owner' = IF owner = i THEN None ELSE owner
  /\ pc' = [w \in Handler |-> IF Proc(w) = i THEN "idle" ELSE pc[w]]
  /\ use' = [w \in Handler |-> IF Proc(w) = i THEN None ELSE use[w]]
  /\ plan' = [w \in Handler |-> IF Proc(w) = i THEN {} ELSE plan[w]]
  /\ plock' = [shared |-> plock.shared \ HandlersOf(i), exclusive |-> plock.exclusive \ HandlersOf(i)]
  /\ cache' = [cache EXCEPT ![i] = None]
  /\ opened' = [opened EXCEPT ![i] = {}]
  /\ UNCHANGED <<abandoned, starts, fileVars, answered, left>>

Exit(i) == life[i] = "exiting" /\ Vanish(i) /\ UNCHANGED kills

Kill(i) == life[i] # "down" /\ kills < MaxKills /\ kills' = kills + 1 /\ Vanish(i)

Main(i) ==
  \/ Start(i) \/ AcquireServer(i) \/ AcquireFails(i) \/ Recover(i)
  \/ Signal(i) \/ Drained(i) \/ Abandon(i)
  \/ CloseFiles(i) \/ ReleaseServer(i) \/ Exit(i) \/ Kill(i)

-----------------------------------------------------------------------------
\* Handlers.

\* A connection delivers a request, and http.Server runs its handler.
Arrive(w) ==
  /\ Proc(w) \in admitting
  /\ pc[w] = "idle"
  /\ \E k \in DOMAIN Quota :
       /\ left[k] > 0
       /\ left' = [left EXCEPT ![k] = @ - 1]
       /\ Goto(w, IF k = "append" THEN "append.lock" ELSE "compact.lock")
  /\ UNCHANGED <<mainVars, fileVars, plock, use, plan, fdVars, answered>>

\* Faulty variant: no lock is taken.
AppendUnlocked(w) ==
  /\ pc[w] = "append.lock"
  /\ Goto(w, "append.load")
  /\ UNCHANGED <<mainVars, fileVars, plock, use, plan, fdVars, answered, left>>

AppendLock(w) ==
  /\ pc[w] = "append.lock"
  /\ CanShare(plock)
  /\ plock' = Share(plock, w)
  /\ Goto(w, "append.load")
  /\ UNCHANGED <<mainVars, fileVars, use, plan, fdVars, answered, left>>

\* getOrCreate, first half: the descriptor in the map, if there is one.
LoadDescriptor(w) ==
  /\ pc[w] = "append.load"
  /\ use' = [use EXCEPT ![w] = cache[Proc(w)]]
  /\ Goto(w, IF cache[Proc(w)] = None THEN "append.open" ELSE "append.write")
  /\ UNCHANGED <<mainVars, fileVars, plock, plan, fdVars, answered, left>>

\* Faulty variant: the new descriptor is stored over another handler's.
StoreDescriptor(w) ==
  LET i == Proc(w) new == <<current, w>>
  IN  /\ pc[w] = "append.open"
      /\ use' = [use EXCEPT ![w] = new]
      /\ cache' = [cache EXCEPT ![i] = new]
      /\ opened' = [opened EXCEPT ![i] = @ \cup {new}]
      /\ Goto(w, "append.write")
      /\ UNCHANGED <<mainVars, fileVars, plock, plan, answered, left>>

\* getOrCreate, second half, under dirMu: the file is opened; if another handler
\* has stored a descriptor meanwhile, that one is used and the new one closed.
OpenDescriptor(w) ==
  LET i == Proc(w)
      new == IF cache[i] = None THEN <<current, w>> ELSE cache[i]
  IN  /\ pc[w] = "append.open"
      /\ use' = [use EXCEPT ![w] = new]
      /\ cache' = [cache EXCEPT ![i] = new]
      /\ opened' = [opened EXCEPT ![i] = @ \cup {new}]
      /\ Goto(w, "append.write")
      /\ UNCHANGED <<mainVars, fileVars, plock, plan, answered, left>>

\* The line is written to the inode of the descriptor, the answer given.
WriteLine(w) ==
  /\ pc[w] = "append.write"
  /\ use[w] # None
  /\ \E r \in RecId :
       /\ \A n \in Inode : r \notin lines[n]
       /\ lines' = [lines EXCEPT ![use[w][1]] = @ \cup {r}]
       /\ answered' = answered \cup {r}
  /\ plock' = Unlock(plock, w)
  /\ use' = [use EXCEPT ![w] = None]
  /\ Goto(w, "idle")
  /\ UNCHANGED <<mainVars, current, tmp, plan, fdVars, left>>

\* A write to a descriptor that Close has closed, or that fails: an error.
WriteFails(w) ==
  /\ pc[w] = "append.write"
  /\ plock' = Unlock(plock, w)
  /\ use' = [use EXCEPT ![w] = None]
  /\ Goto(w, "idle")
  /\ UNCHANGED <<mainVars, fileVars, plan, fdVars, answered, left>>

\* Faulty variant: a lock that is held is taken all the same.
CompactBarges(w) ==
  /\ pc[w] = "compact.lock"
  /\ plock' = Exclude(plock, w)
  /\ Goto(w, "compact.read")
  /\ UNCHANGED <<mainVars, fileVars, use, plan, fdVars, answered, left>>

CompactLock(w) ==
  /\ pc[w] = "compact.lock"
  /\ CanExclude(plock)
  /\ plock' = Exclude(plock, w)
  /\ Goto(w, "compact.read")
  /\ UNCHANGED <<mainVars, fileVars, use, plan, fdVars, answered, left>>

CompactRead(w) ==
  /\ pc[w] = "compact.read"
  /\ plan' = [plan EXCEPT ![w] = lines[current]]
  /\ Goto(w, "compact.tmp")
  /\ UNCHANGED <<mainVars, fileVars, plock, use, fdVars, answered, left>>

CompactWrite(w) ==
  /\ pc[w] = "compact.tmp"
  /\ tmp' = plan[w]
  /\ Goto(w, "compact.rename")
  /\ UNCHANGED <<mainVars, current, lines, plock, use, plan, fdVars, answered, left>>

CompactRename(w) ==
  /\ pc[w] = "compact.rename"
  /\ tmp # None
  /\ current' = current + 1
  /\ lines' = [lines EXCEPT ![current + 1] = tmp]
  /\ tmp' = None
  /\ Goto(w, "compact.evict")
  /\ UNCHANGED <<mainVars, plock, use, plan, fdVars, answered, left>>

CompactDone(w) ==
  /\ plock' = Unlock(plock, w)
  /\ plan' = [plan EXCEPT ![w] = {}]
  /\ Goto(w, "idle")
  /\ UNCHANGED <<mainVars, current, lines, use, answered, left>>

\* The temporary is gone, or a step fails: the journal is as it was.
CompactFails(w) ==
  /\ pc[w] \in {"compact.read", "compact.tmp", "compact.rename"}
  /\ tmp' \in {tmp, None}
  /\ CompactDone(w)
  /\ UNCHANGED fdVars

\* Faulty variant: the descriptor stays in the map.
KeepDescriptor(w) ==
  /\ pc[w] = "compact.evict"
  /\ CompactDone(w)
  /\ UNCHANGED <<tmp, fdVars>>

\* evict: out of this process's map, and closed.
CompactEvict(w) ==
  LET i == Proc(w)
  IN  /\ pc[w] = "compact.evict"
      /\ cache' = [cache EXCEPT ![i] = None]
      /\ opened' = [opened EXCEPT ![i] = @ \ {cache[i]}]
      /\ CompactDone(w)
      /\ UNCHANGED tmp

Handle(w) ==
  \/ Arrive(w) \/ AppendLock(w) \/ LoadDescriptor(w) \/ OpenDescriptor(w)
  \/ WriteLine(w) \/ WriteFails(w)
  \/ CompactLock(w) \/ CompactRead(w) \/ CompactWrite(w) \/ CompactRename(w)
  \/ CompactFails(w) \/ CompactEvict(w)

-----------------------------------------------------------------------------
Init ==
  /\ life = [i \in Process |-> "down"]
  /\ admitting = {}
  /\ owner = None
  /\ current = 1
  /\ lines = [n \in Inode |-> {}]
  /\ tmp = None
  /\ plock = Unlocked
  /\ pc = [w \in Handler |-> "idle"]
  /\ use = [w \in Handler |-> None]
  /\ plan = [w \in Handler |-> {}]
  /\ cache = [i \in Process |-> None]
  /\ opened = [i \in Process |-> {}]
  /\ answered = {}
  /\ abandoned = FALSE
  /\ starts = 0 /\ kills = 0
  /\ left = Quota

Next ==
  \/ \E i \in Process : Main(i)
  \/ \E w \in Handler : Handle(w)

Spec == Init /\ [][Next]_vars

-----------------------------------------------------------------------------
\* Types, and that the partition lock excludes writers.
TypeOK ==
  /\ admitting \subseteq Process
  /\ owner \in Process \cup {None}
  /\ current \in Inode
  /\ lines \in [Inode -> SUBSET RecId]
  /\ tmp \in (SUBSET RecId) \cup {None}
  /\ plock \in LockStates(Handler)
  /\ Exclusive(plock)
  /\ use \in [Handler -> Descriptor \cup {None}]
  /\ plan \in [Handler -> SUBSET RecId]
  /\ cache \in [Process -> Descriptor \cup {None}]
  /\ opened \in [Process -> SUBSET Descriptor]

\* Requests are handled by the process that holds server.lock, and by nobody
\* while nobody holds it, unless connections were abandoned.
OwnerHandles ==
  ~ abandoned => \A w \in Handler : pc[w] # "idle" => owner = Proc(w)

\* Every open descriptor of a process is the one in its map: the loser of a race
\* to open the file closes its own.  And a handler that is about to write has a
\* descriptor that is open: no compaction evicts it under the writer.
DescriptorsInUse ==
  /\ \A i \in Process : opened[i] \subseteq {cache[i]}
  /\ ~ abandoned => \A w \in Handler : pc[w] = "append.write" => use[w] \in opened[Proc(w)]

\* Start-up never removes the temporary that a compaction is about to rename,
\* unless connections were abandoned.
RecoverySpares ==
  ~ abandoned => \A w \in Handler : pc[w] = "compact.rename" => tmp = plan[w]

\* An answered record is in the file, whatever processes follow, unless
\* connections were abandoned: then the old process may rename the file under a
\* descriptor that the new one has cached.
AnsweredInFile == ~ abandoned => answered \subseteq lines[current]

\* Even then a record that is in the file stays in it: the partition lock holds
\* across processes, and what is renamed into place is complete.
NothingVisibleLost == [][lines[current] \subseteq lines'[current']]_vars
=============================================================================

--------------------------- MODULE PartitionState ---------------------------
(***************************************************************************)
(* The state of one day partition and of the workers that handle requests  *)
(* on it: the journal file and its cached descriptor, the candidate files, *)
(* the row of the file index, the two lock files, and where each worker    *)
(* is.  Modules AppendPath, CandidatePath and CompactionPath add the steps *)
(* of the handlers, module Partition composes them.                        *)
(***************************************************************************)
EXTENDS Integers, FiniteSets, Sequences, RWLockOps, Substitution

CONSTANTS
  Worker,          \* the goroutines that run HTTP handlers
  RecId,           \* record UUIDs
  CandId,          \* candidate UUIDs
  None,            \* no record, no file
  InitialJournal,  \* the lines in the file when the observation starts
  Quota,           \* BOUND: how many requests of each kind arrive
  MaxFaults,       \* BOUND: how many steps fail (I/O error, cancelled request)
  MaxCrashes,      \* BOUND: how often the process is killed
  TornWrites       \* may a failed or interrupted append leave half a line?

Kind == {"append", "submit", "list", "resolve", "compact"}

\* A record of the journal; see module Substitution for "by".
Record == [id : RecId, rev : Nat, by : Seq(CandId)]

ASSUME NoneAssumption ==
  /\ None \notin RecId \cup CandId \cup Record \cup Seq(Record)
  /\ None \notin [id : RecId, by : Seq(CandId)] \cup Seq(CandId)

\* UUIDs are 128 bits.
ASSUME FiniteIdsAssumption == IsFiniteSet(RecId) /\ IsFiniteSet(CandId)

\* Lines of a file carry UUIDs, each on one line, untouched by candidates; the
\* revision is 0 on a line written before revisions existed.
ASSUME InitialJournalAssumption ==
  /\ InitialJournal \in Seq(Record)
  /\ \A j, k \in DOMAIN InitialJournal :
        InitialJournal[j].id = InitialJournal[k].id => j = k
  /\ \A k \in DOMAIN InitialJournal :
        InitialJournal[k].rev \in {0, 1} /\ InitialJournal[k].by = <<>>

ASSUME BoundsAssumption ==
  /\ Quota \in [Kind -> Nat]
  /\ MaxFaults \in Nat
  /\ MaxCrashes \in Nat
  /\ TornWrites \in BOOLEAN

VARIABLES
  up,         \* the server process runs
  pc,         \* pc[p]: the next step of worker p, "idle" between requests
  job,        \* job[p]: the local variables of worker p's handler
  journal,    \* the lines of {day}_journal.jsonl
  tear,       \* half a line in that file: "none", last ("tail"), or glued to the next ("inner")
  tmp,        \* {day}_journal.jsonl.compact.tmp, None when there is no such file
  fd,         \* the cached append descriptor: "none", "current", or "stale" (its file was renamed over)
  row,        \* the contents the index row of this file covers, {} when there is no row
  copies,     \* copies[c]: the record inside candidate c, None until c is created
  pending,    \* the candidates in pending/{day}
  applied,    \* the candidates in applied/{day}
  denied,     \* the candidates in denied/{day}
  audit,      \* the sum of appliedCount over the events in candidateaudit/{day}
  jlock,      \* the lock file of the journal partition
  clock,      \* the lock file of the candidate partition
  answer,     \* answer[r]: what the client that appended r was told: "none", "created" (201), "accepted" (202)
  submitted,  \* the candidates whose submission was answered 201
  approved,   \* the candidates whose approval was answered with success
  left,       \* left[k]: requests of kind k still to arrive
  faults,     \* failed steps so far
  crashes     \* crashes so far

journalVars == <<journal, tear, tmp, fd>>
candidateVars == <<copies, pending, applied, denied, audit>>
lockVars == <<jlock, clock>>
answerVars == <<answer, submitted, approved>>
workerVars == <<pc, job>>
boundVars == <<left, faults, crashes>>
vars == <<up, workerVars, journalVars, row, candidateVars, lockVars, answerVars, boundVars>>

-----------------------------------------------------------------------------
\* Workers.  The steps at which a worker holds each lock, in either mode.

AppendHolding == {"append.write", "append.begin", "append.upsert"}
SharedHolding == {"submit.read", "submit.append", "list.read"}
ResolveHolding == {"resolve.read", "resolve.applied", "resolve.denied", "resolve.pending"}
CompactHolding == {"compact.read", "compact.tmp", "compact.rename", "compact.evict",
                   "compact.delete", "compact.rebuild", "compact.audit"}
Waiting == {"append.lock", "submit.lock", "list.lock", "resolve.lock",
            "compact.list", "compact.journal", "compact.candidate"}

Step == {"idle"} \cup Waiting \cup AppendHolding \cup SharedHolding
                 \cup ResolveHolding \cup CompactHolding

\* What the index knows of a record: its type, tags and timestamp, not its revision.
Content(record) == [id |-> record.id, by |-> record.by]
Contents(records) == {Content(records[k]) : k \in DOMAIN records}

\* The local variables a handler carries from one step to the next.
Job == [rec   : RecId \cup {None},   \* append: the record on its way into the index
        row   : SUBSET [id : RecId, by : Seq(CandId)],  \* append: the index row it merges into
        copy  : Record \cup {None},  \* submit: the record it read
        batch : SUBSET CandId,       \* resolve: the candidates to apply; compact: the applied file as read
        deny  : SUBSET CandId,       \* resolve: the contents of the new denied file
        lines : Seq(Record),         \* compact: the rewritten partition
        count : Nat]                 \* compact: appliedCount

NoJob == [rec |-> None, row |-> {}, copy |-> None, batch |-> {}, deny |-> {},
          lines |-> <<>>, count |-> 0]

Goto(p, step) == pc' = [pc EXCEPT ![p] = step]

Keep(p, values) == job' = [job EXCEPT ![p] = values]

\* The handler returns.
Return(p) == Goto(p, "idle") /\ Keep(p, NoJob)

\* An I/O error, or the client's context cancelled.
Fault == faults < MaxFaults /\ faults' = faults + 1 /\ UNCHANGED <<left, crashes>>

\* A request of kind k reaches worker p.
FirstStep == [append |-> "append.lock", submit |-> "submit.lock", list |-> "list.lock",
              resolve |-> "resolve.lock", compact |-> "compact.list"]

Arrive(p, k) ==
  /\ up
  /\ pc[p] = "idle"
  /\ left[k] > 0
  /\ left' = [left EXCEPT ![k] = @ - 1]
  /\ Goto(p, FirstStep[k])
  /\ UNCHANGED <<up, job, journalVars, row, candidateVars, lockVars, answerVars, faults, crashes>>

\* A handler's release function for each lock; a handler ends with one of these.
ReleaseJournal(p) == jlock' = Unlock(jlock, p) /\ UNCHANGED clock
ReleaseCandidates(p) == clock' = Unlock(clock, p) /\ UNCHANGED jlock
ReleaseBoth(p) == jlock' = Unlock(jlock, p) /\ clock' = Unlock(clock, p)

\* No lock: the client went away while it was busy (lockWithContext), or the
\* lock file cannot be opened (the only way out for append, which blocks).
LockFails(p) ==
  /\ pc[p] \in {"append.lock", "submit.lock", "list.lock", "resolve.lock",
               "compact.journal"}
  /\ Fault
  /\ Return(p)
  /\ UNCHANGED <<up, journalVars, row, candidateVars, lockVars, answerVars>>

-----------------------------------------------------------------------------
Init ==
  /\ up = TRUE
  /\ pc = [p \in Worker |-> "idle"]
  /\ job = [p \in Worker |-> NoJob]
  /\ journal = InitialJournal
  /\ tear = "none"
  /\ tmp = None
  /\ fd = "none"
  /\ row = Contents(InitialJournal)
  /\ copies = [c \in CandId |-> None]
  /\ pending = {} /\ applied = {} /\ denied = {}
  /\ audit = 0
  /\ jlock = Unlocked /\ clock = Unlocked
  /\ answer = [r \in RecId |-> "none"]
  /\ submitted = {} /\ approved = {}
  /\ left = Quota
  /\ faults = 0
  /\ crashes = 0
=============================================================================

# A TLA+ model of digikeeper-log

digikeeper-log is one Go server that keeps records in JSON-lines files, one file
per day ("partition"), finds them through a SQLite index, and lets clients
propose replacements of records ("candidates") that are decided and later merged
into the journal file ("compaction").  There is no database behind the journal:
its consistency rests on two lock files per partition, on renames, and on the
order in which each handler does its steps.  That is what this project models,
checks with TLC and, for the core, proves with TLAPS.

Paths below are relative to `src/`.

## 1. The system

### 1.1 Components

| Component | Code | State it keeps | Operations |
|---|---|---|---|
| Partition locks | `pkg/flock/flock.go` | one lock file per partition, one open file description per acquisition | shared / exclusive, blocking / non-blocking, release; `Acquire` for the start-up lock |
| Append | `internal/domain/command/append`, `internal/infrastructure/commandstore/store.go` | — | append a record: lock, write a line, index it |
| Journal files | `internal/infrastructure/jsonlstore/jsonl.go` | `{day}_journal.jsonl`, a cache of append descriptors, `*.compact.tmp` | append, read, replace (write temporary, sync, rename, evict descriptor), close |
| File index | `internal/infrastructure/index/index.go` | one SQLite row per file: time range, tags, types | insert (read, merge, upsert), rebuild, search |
| Candidates | `internal/domain/command/candidate`, `internal/infrastructure/candidatestore/store.go` | `pending/`, `applied/`, `denied/`, `candidateaudit/` files per day | submit, list pending, resolve, list / delete applied, append audit event |
| Compaction | `internal/domain/command/compaction/compact.go` | — | rewrite a partition by its applied candidates, clean up |
| Query | `internal/domain/query`, `internal/infrastructure/querystore` | — | choose files in the index, read them without a lock, filter |
| Core types | `internal/domain/core` | — | records, revisions, the partition of a timestamp |
| Server | `cmd/server` | `server.lock`, the process | start, recover, serve, shut down |
| HTTP layer | `internal/httpapi` | — | validation, status codes |
| Schema registry | `internal/httpapi/schemaregistry` | embedded files | list, latest version, one version |
| Others | `sourcerepo`, `pkg/chain`, `pkg/healthz`, `internal/jsonx`, `appmetric`, `collisions.go` | read-only or none | lookups, middleware, counters; `collisions.go` is not wired into the server |

### 1.2 How they interact

Every request runs in a goroutine of its own.  Requests on one partition share
its journal file, the cached descriptor of that file, three candidate files, one
index row and two lock files.  Requests on different partitions share only the
SQLite database.

    append   journal lock shared (blocking) -> write line -> index transaction -> release
    submit   candidate lock shared -> read record (no journal lock) -> append to pending -> release
    list     candidate lock shared -> read pending -> release
    resolve  candidate lock exclusive -> read pending, write temporaries
             -> rename applied -> rename denied -> remove pending -> release
    compact  read applied (no lock) -> journal lock exclusive -> candidate lock exclusive
             -> read and rewrite journal (temporary, rename, evict descriptor)
             -> delete applied -> rebuild index row -> append audit event -> release both
    query    select files in the index -> read them (no lock) -> filter, sort, cut

All but append poll a non-blocking lock every 10 ms so that a client that goes
away gets out.  An error of one of the last three steps of a compaction is
logged and the next step runs.

### 1.3 What is hard

- **Interleavings.** Submit reads the journal and compact reads the applied file
  under no lock that protects what they read; appends share their lock and meet
  each other in the index; a compaction renames over a file that other handlers
  have open.
- **Partial failures.** A resolve is three renames or removals, a compaction five
  steps after its point of no return; each may fail alone.
- **Crashes.** The process may die between any two of those steps; a restart only
  removes compaction temporaries, and serves requests even when that fails.
- **Staleness.** A candidate is a copy of the record its author read; it may be
  compacted long after, against a newer one.
- **Power.** Some writes are synced and some are not; some directories are synced
  after a rename and some are not.  What is left after a power loss may mix old
  and new files.
- **Processes.** A shutdown gives up on its handlers after 15 s, and a failing
  listener ends `main` without one; the next process may start while handlers of the
  old one still run or start.
- **Time.** The index keeps milliseconds as text, records keep nanoseconds in a
  zone of their own, and the day of a record is the date in that zone.
- **Locks.** Compact holds one lock while it waits for the other, and must give
  it back when the client leaves.

`PROJECT.json` lists each hazard with its line and the properties that answer it.

### 1.4 What makes the components correct

- *Locks*: a writer is alone; no description leaks; each way out releases
  exactly what was taken.
- *Append*: an answered record stays in the file; one answered 201 is found
  through the index.
- *Candidates*: a submitted candidate never disappears undecided; it is decided
  one way; a resolve is seen whole or not at all.
- *Compaction*: it loses no line, never undoes a replacement, applies a candidate
  at most once and only to the revision it was made from; it gets the candidates
  it found out of the applied file.
- *Index*: the row covers the file or a later compaction can still repair it.
- *Query*: the chosen files hold every record that matches; a record that was
  announced is found once, and no older version than was announced; a limit drops
  the oldest.
- *Storage*: an answered decision and a finished compaction survive a power loss.
- *Lifecycle*: one process serves at a time; what an old process leaves behind
  hurts no record of the next.

## 2. The modules

| Module | Models | |
|---|---|---|
| `RWLockOps` | the state of a lock file as users see it | operators |
| `ReaderWriter` | abstract specification: many readers or one writer | state machine |
| `Flock` | `pkg/flock`: open, flock(2), unlock, close, process death | state machine, implements `ReaderWriter` |
| `Substitution` | `applySubstitutions`, `applyCandidate`, revisions | pure operators |
| `PartitionState` | variables, initial state, arrival of requests, helpers | |
| `AppendPath` | `AppendRecord`, `commandstore.Append`, `index.Insert` | actions |
| `CandidatePath` | submit, list, resolve, with `candidatestore` | actions |
| `CompactionPath` | `Compact`, `ReplaceFile`, `DeleteApplied`, `RebuildPartition`, audit | actions |
| `Partition` | composes the three, adds crash and restart, states the properties | specification, implements `JournalSpec` |
| `JournalSpec` | abstract specification: what a partition promises its clients, each operation in one step | state machine |
| `PartitionQueries` | `SearchRecords` next to the requests of `Partition`: the selection and the read as two steps | extends `Partition` |
| `Durability` | what each step of `Partition` does to the disk, and the loss of power | extends `Partition` |
| `Search` | `index.Search`, `Insert`, `RebuildPartition`, `filterRecords`, `PartitionFromTime`, `timefmt` over many files | state machine |
| `Lifecycle` | `run`, `NewStore`, `Close`, the cache of `jsonlstore`, several processes on one directory | state machine |
| `MCFlock`, `MCPartition`, `MCQueries`, `MCDurability`, `MCSearch`, `MCLifecycle` | instances for TLC | |
| `FlockProofs` | theorems about `Flock` | TLAPS |
| `PartitionProofs` | the operators of `Substitution`, locks and types of `Partition` | TLAPS |
| `JournalProofs` | lines, histories and rewrites of `Partition` | TLAPS |
| `CandidateProofs` | candidates, index row and audit of `Partition` | TLAPS |
| `ClientProofs` | `Partition` implements `JournalSpec`; what searches find | TLAPS |
| `DurabilityProofs` | what power losses leave of a partition | TLAPS |
| `LifecycleProofs`, `SearchProofs` | theorems about `Lifecycle` and `Search` | TLAPS |

`Flock` and `Partition` meet in the operators of `RWLockOps`: `Partition` takes
and drops its locks with them, `ReaderWriter` is the specification made of them,
and `Flock` implements `ReaderWriter` (checked and proved).  So the handlers are
verified against the lock that the descriptions provide.  `Lifecycle` takes its
partition lock with the same operators, among several processes.

`PartitionQueries` and `Durability` add to the steps of `Partition` and change
none: the first a client between the steps of the others, the second an image of
the disk behind them.

A definition called a *faulty variant* in a comment is the form a plausible bug
would give the definition that follows it.  Nothing uses these definitions; each
is there to be put in the place of the original to see a property fail.

### 2.1 State and code

- `pc[p]` is where worker `p`'s handler is.  A step is the code up to the next
  point where another worker, a failure or a crash can be noticed: a lock, a
  system call that changes a file, a transaction.  `job[p]` is the handler's
  local variables.
- `journal` is the sequence of lines of the day's file, `tear` whether a half
  line is in it, `tmp` the rewrite temporary, `fd` the descriptor cache of
  `jsonlstore`: `"stale"` when the cached descriptor refers to a file that was
  renamed over.
- `copies[c]` is the record inside candidate `c`; `pending`, `applied`, `denied`
  are the files, as sets; `audit` is the sum of `appliedCount` over the audit
  file.
- `row` is the index row of the file.
- `answer`, `submitted`, `approved` are what clients were told.  They are history:
  no guard but the freshness of a UUID reads them.

### 2.2 Abstractions

- A record is `[id, rev, by]`.  `by` stands for its type, tags and data: the list
  of the candidates whose replacements led to it.  Two versions have equal content
  exactly when their `by` is equal, so `by` also tells whether a replacement was
  undone or built on an old version.
- The index row is the set of `(id, by)` it covers.  The real row is the union of
  tags and types and a time range; a row that covers more than the set selects
  more files, so the set is the least favourable reading for "is this record
  found".
- A candidate's UUID and a record's UUID are chosen when they are first used.
  What a caller puts in a resolution is chosen among the pending candidates when
  they are read: `ResolveRead` for input that passes validation,
  `ResolveRejected` for input that does not.
- One write call is atomic unless `TornWrites` is TRUE; then a failed or
  interrupted append may leave half a line in the journal.  A file with a half
  line is not read at all, as in `Read` (`jsonl.go`).
- Files survive the death of a process as they are: the page cache is the
  kernel's.  What they are after a power loss is the subject of `Durability`.
- A failed append leaves no line, or half of one with `TornWrites`.  A failed
  submit may leave its line (written, not synced).  A rewrite that fails may leave its
  temporary, as does a crash, and a restart may fail to remove it (`Leftovers`,
  `RecoveryFails`).
- The temporaries of `MoveCandidates` are not modelled; nothing reads them, and a
  leftover is written over.
- Other partitions' writers of the SQLite database appear as failed inserts.
- A blocked append cannot be cancelled (`SharedLock` ignores the context); only a
  failure to open the lock file gets it out (`LockFails`).

### 2.3 The journal as its clients see it

`JournalSpec` has a history for each record, a basis for each candidate (the
version it was made from) and what the clients were told.  `Partition` implements
it under the mapping at the end of the module: the history of a record is the
`by` of its line, the basis of a candidate is the content of its copy.  The
refinement says three things at once.  A compaction, which reads, writes a
temporary, renames and cleans up, changes all its records in one step.  Comparing
revision numbers, with 0 and 1 meaning the same, is comparing versions.  And a
candidate is made from the version its record has when the candidate appears,
although it was read earlier and without the journal lock.  The run `failures`
checks it with failures and crashes; neither shows in the abstract journal.

### 2.4 The query

`PartitionQueries` has one query at a time, since a query changes nothing.
`QuerySelect` is the SQLite statement, `QueryRead` the scan.  The query is one
that a given record answers: by its time, which no candidate changes, or by the
tags and type of the version current at the start.  `Announced` says whether a
client may expect it to be found: the append was answered 201, or no compaction is
between its rename and its rebuild and nothing has failed.  `Search` models the
filters themselves.

In `Search` an instant is a number of ticks; a millisecond, a day and the first
instant of year 10000 (`EndOfText`) are constants.  The text of a time has a fixed
width until then, so texts compare as times; `"10000-..."` compares below every
year after 1000.  A record of 31 December 9999 in a zone behind UTC is stored (its
own clocks show four digits) and indexed as year 10000: its row sorts wrong, and a
search that selects the row fails because the time cannot be parsed back
(`Fails`).  The properties of the module are about files and queries without such
times; the instance has one, so that the other files are seen next to it.

### 2.5 The disk

`Durability` keeps `images`, the set of states that a power loss may leave: for
each file its contents, and how many of its renames and removals are missing
(`lag`).  Appended lines of one file reach the disk in order.  A sync of a file
brings its data; a sync of a directory its names.  With `OrderedMetadata` renames
and removals reach the disk in one order for the whole file system and any fsync
brings the earlier ones, as the journals of ext4 and XFS do.  Without it each
directory is on its own, as POSIX allows.  SQLite syncs its commits, so the row
survives.

The run `power_loss` has `OrderedMetadata`.  On a file system that promises no
more than POSIX the code is not safe: `ReplaceFile` does not sync the journal's
directory and `DeleteApplied` syncs that of the applied file, so the deletion may
be kept and the rewrite before it lost.  `ReplacedBeforeDeleted` is then violated;
set `OrderedMetadata = FALSE` in `PowerLoss.cfg` to see the trace.

`DurableNext` has the power loss in place of `Crash`: among the images is always
the state that the processes see (`DurableTypeOK`), so a power loss may do what the
death of a process does.

### 2.6 Processes

`Lifecycle` has several processes, each with `main` (`life[i]`) and handlers, on
one journal file.  Files are inodes: a compaction makes a new one, and a cached
descriptor refers to the one it was opened on.  `OpenDescriptor` is the second half
of `getOrCreate`, where two handlers may race; `CompactEvict` clears only the cache
of the compaction's own process.  `admitting` has the processes whose connections
still deliver requests: all that serve, and those that drain, since `Shutdown` waits
for a connection whose request is on its way (`Drained`).  `Abandon` is a shutdown
that gives up after 15 s, or a listener that fails with connections left: the stores
are closed, `server.lock` is released, and the handlers go on, and new ones start on
the connections that are left, until the process exits.  The partition lock
holds across processes, so even then no visible record is lost
(`NothingVisibleLost`).  But the old process may compact after the new one has
cached a descriptor, and the new one's later appends go to the file that was
renamed over.  `AnsweredInFile` therefore has `~ abandoned` in its premise; without
it TLC finds that trace.  No document of the repository promises otherwise, so it
is a remark and not a finding.

## 3. What the runs check

| Run | Instance | Question |
|---|---|---|
| `flock` | 3 goroutines of 2 processes, 3 descriptions | Does open/flock/unlock/close give a reader-writer lock, without leaking descriptors? |
| `interleavings` | 3 workers and a query, 8 requests that write, 3 records, 2 candidates, no failure | Do the locks keep journal, candidate files and index row consistent in every order of steps, and do searches that take no lock find what was announced? |
| `failures` | 2 workers and a query, 7 requests, 1 failing step, 1 crash, 2 candidates | Does each candidate take effect at most once, on its own version, and never vanish?  Is the partition the journal it promises to be? |
| `power_loss` | 2 workers, 7 requests, 1 failing step, 1 power loss, torn lines, 2 candidates | What survives when the disk has lost what was not synced?  Does every way out of every handler release exactly its locks? |
| `liveness` | 2 workers, 7 requests, 1 failing step, torn lines, fairness | Is every request answered, and does a compaction drain what it found? |
| `lifecycle` | 2 processes started 3 times, 1 killed, 2 handlers each, 3 appends, 2 compactions | Does the hand-over from process to process keep the records? |
| `search` | 3 records, 5 instants over 3 days, 2 zones, 2 sets of labels; 2 files, 1 record per query | Do truncated, textual times select what exact times would match, and is what the limits drop the oldest? |
| `resolve_not_atomic`, `approved_skipped`, `index_not_repaired`, `torn_partition`, `record_not_durable` | 1 worker | disagreements between documentation and code, section 5 |

The largest has about 740 000 states; each run takes at most two minutes on two
workers.  List requests, which only read, are in `liveness`.

### 3.1 Properties

`Flock`:

- `Exclusion`: a guard held exclusive is the only guard, over all processes.
- `NoFdLeak`: an open description belongs to a goroutine that still uses it.
- `ImplementsReaderWriter`: refinement of `ReaderWriter`.

`Partition`, safety:

- `LockDiscipline`: who holds which lock is exactly a function of where the
  handlers are, and a writer is alone.
- `NoLostRecord`: an answered record has its line.
- `RevisionCounts`: one line per record; its revision is one more than the number
  of replacements that led to it.
- `HistoryGrows` (action): no step undoes a replacement or builds on an old version.
- `CandidateConserved`: a submitted candidate is in a file or settled.
- `AppliedUntilSettled` (action): it leaves the applied file only settled, or back
  to pending.
- `SubmitCopiesCurrent` (action): a candidate is written while the version it
  copies is current.
- `ResolveAtomic`: with no resolve running, no candidate is in two files
  (holds without crashes and failures).
- `DeniedNeverApplied`: what was denied is in no record's history (without crashes
  and failures: a resolve interrupted between its renames is decided again, and
  may be decided otherwise).
- `IndexRepairable`: a replaced record is covered by the row, or its candidate is
  still in the applied file (without failures).
- `CreatedIsIndexed`: a record answered 201 is covered by the row.
- `AuditCountsReplacements`: the audit never counts a skipped candidate.
- `RewriteIsAtomic` (action): a rewrite, though computed from an earlier read,
  takes effect as one substitution on the file as it is at the rename, and what
  other compactions left of their temporaries never reaches the journal.

- `ImplementsJournal`: refinement of `JournalSpec`, section 2.3.

`PartitionQueries` (actions):

- `QueryFindsRecord`: a search by time that begins after a record was announced
  returns it, in exactly one version, and one that the version at the start led
  to.
- `QueryFindsVersion`: a search by the labels of an announced version finds it
  unless a newer one has replaced it before the read.

`Durability`:

- `DurableTypeOK`: the images are states of the files, and what the processes see
  is one of them: no data of a failed sync is taken for lost.
- `DecidedStaysDecided`: a candidate whose approval was answered is not pending
  again after a power loss.
- `ReplacedBeforeDeleted`: an approved candidate is in the applied file or settled.
- `CompactedSurvives`: the records a finished compaction wrote stay on the disk.
- `CandidateConserved`, `RevisionCounts` and `LockDiscipline` of `Partition` are
  checked again with power losses.

`Search`:

- `SelectionMissesNothing`: the index selects every file that has an indexed
  record matching the query.
- `AnswerIsNewest`: no indexed match that is missing is newer than one returned:
  for all records if they were written in one zone (otherwise the days of files
  overlap, and a file beyond the file limit may have newer records than one within
  it), and for all that were read always.

`Lifecycle`:

- `OwnerHandles`: handlers run in the process that holds `server.lock` only.
- `DescriptorsInUse`: no descriptor leaks from the race to open the file, and none
  is closed under a writer.
- `RecoverySpares`: start-up does not remove a temporary about to be renamed.
- `AnsweredInFile`: an answered record is in the file under the journal's name.
- `NothingVisibleLost` (action): a record that is in the file stays in it, also
  after a process has abandoned its connections.

`Partition`, liveness:

- `RequestsFinish`: every request that reached a worker ends.
- `CompactionDrains`: once no failure is left to come, a candidate that a
  compaction found gets out of the applied file.

### 3.2 Bounds, and why they are enough

The bounds are constants of `PartitionState`: `Quota` (requests of each kind),
`MaxFaults`, `MaxCrashes`, `TornWrites`, and the sets of ids.

- *Two candidates* are what a stale copy needs: both made from one revision, the
  second decided after the first was compacted.  They also give two candidates for
  one record and one for each of two records.
- *Two or three workers*: a stale batch needs two compactions and a resolve
  between; the index race needs two appends at once; a lock cycle over two locks
  needs two holders.  Three workers let a third handler see what two others do.
- *Two resolves and two compactions* let a batch move, be compacted, and another
  follow; with a crash between the renames, the same candidates move twice.
- *One fault and one crash* cover every single failure at every step, and a crash
  after a failure.
- *One power loss* after one failing step: what it leaves is a state like any
  other, and requests go on from it.
- *Two files of three and one record of a query* make both limits bite.  The
  limit of the code is 366 files, a day each: more than a year of days in use is
  what it takes to reach it.
- *Two labels*, one without tags: a file that has both is selected by queries that
  neither of its records answers.
- *Two processes, three starts*: a third start follows a hand-over with leftovers.
- The initial file has one line from before revisions existed (`rev = 0`), so the
  normalisation of revisions is exercised on both sides of the comparison.

The configurations of `Partition`, of the modules that extend it, and of
`Lifecycle` say `CHECK_DEADLOCK FALSE`: when the quotas have run out and every
handler has returned, the model has nothing left to do.  That nobody is stuck earlier is what `RequestsFinish` says.  `flock` and `search` have no
such end and check for deadlock.

Workers and candidates are interchangeable (nothing orders them), so the safety
runs use them as symmetry sets; the liveness run uses none.

### 3.3 Fairness

`FairSpec` follows one process from its start and assumes weak fairness of
`Progress(p)` for each worker.  The Go scheduler runs every goroutine that can run, and a handler
waiting for a lock polls it (or blocks in flock(2)) until it is free.  Nothing is
assumed of arrivals, failures or cancellations.  Polling has no queue, so under an
*endless* stream of appends an exclusive request may never find the lock free.
The quota makes the stream finite, so `RequestsFinish` says that the locks cause
no deadlock and no lost wake-up, not that exclusive requests are never starved by
traffic.

## 4. What is proved

For every value of the constants that the assumptions below admit: any number of
workers, requests, failures, crashes and power losses, any set of ids, any initial file, with
and without torn writes.

| Theorem | Module | Statement |
|---|---|---|
| `FlockTypes` | `FlockProofs` | `Spec => []TypeOK` |
| `FlockExclusion` | `FlockProofs` | `Spec => []Exclusion` |
| `FlockNoLeak` | `FlockProofs` | `Spec => []NoFdLeak` |
| `FlockRefinesReaderWriter` | `FlockProofs` | `Spec => ImplementsReaderWriter` |
| `SubstitutionKeepsRecords` | `PartitionProofs` | a substitution yields records and keeps every id, whatever the candidates |
| `SubstitutionBuildsOnVersions` | `PartitionProofs` | on copies of versions of the lines, or of records whose line was lost, each line keeps its history or gets the candidate made from exactly it |
| `LocksFollowHandlers` | `PartitionProofs` | `Spec => []LockDiscipline` |
| `PartitionTypes` | `PartitionProofs` | `Spec => []TypeOK` |
| `AnsweredRecordsStay` | `JournalProofs` | `Spec => []NoLostRecord` |
| `RewritesAreAtomic` | `JournalProofs` | `Spec => RewriteIsAtomic` |
| `RevisionsCountReplacements` | `JournalProofs` | `Spec => []RevisionCounts` |
| `HistoriesGrow` | `JournalProofs` | `Spec => HistoryGrows` |
| `SubmitsCopyCurrent` | `JournalProofs` | `Spec => SubmitCopiesCurrent` |
| `CandidatesAreConserved` | `CandidateProofs` | `Spec => []CandidateConserved` |
| `AppliedStaysUntilSettled` | `CandidateProofs` | `Spec => AppliedUntilSettled` |
| `CreatedRecordsAreIndexed` | `CandidateProofs` | `Spec => []CreatedIsIndexed` |
| `ResolvesAreAtomic` | `CandidateProofs` | `Spec => [](Undisturbed => ResolveAtomic)` |
| `DeniedStayDenied` | `CandidateProofs` | `Spec => [](Undisturbed => DeniedNeverApplied)` |
| `ReplacementsAreIndexed` | `CandidateProofs` | `Spec => [](Undisturbed => IndexRepairable)` |
| `AuditsCountReplacements` | `CandidateProofs` | `Spec => []AuditCountsReplacements` |
| `WholePartitionRefinesJournal` | `ClientProofs` | `Spec` implies `Journal!Init`, and `[Journal!Next]` in every step from a state with `tear = "none"` |
| `PartitionRefinesJournal` | `ClientProofs` | `TornWrites = FALSE` implies `Spec => ImplementsJournal` |
| `QueriesFindRecords` | `ClientProofs` | `QuerySpec => QueryFindsRecord` |
| `QueriesFindVersions` | `ClientProofs` | `QuerySpec => QueryFindsVersion` |
| `DurableTypes` | `DurabilityProofs` | `DurableSpec => []DurableTypeOK` |
| `DecisionsAreDurable` | `DurabilityProofs` | `DurableSpec => []DecidedStaysDecided` |
| `DurableLocks` | `DurabilityProofs` | `DurableSpec => []LockDiscipline` |
| `RevisionsCountAfterLosses` | `DurabilityProofs` | `OrderedMetadata` implies `DurableSpec => []RevisionCounts` |
| `CandidatesSurviveLosses` | `DurabilityProofs` | `OrderedMetadata` implies `DurableSpec => []CandidateConserved` |
| `RewritesReachTheDiskFirst` | `DurabilityProofs` | `OrderedMetadata` implies `DurableSpec => []ReplacedBeforeDeleted` |
| `CompactedRecordsSurvive` | `DurabilityProofs` | `OrderedMetadata` implies `DurableSpec => []CompactedSurvives` |
| `HistoriesGrowBetweenLosses` | `DurabilityProofs` | `OrderedMetadata` implies `DurableSpec => [][PowerLoss \/ NothingUndone]_durableVars` |
| `LifecycleTypes` | `LifecycleProofs` | `Spec => []TypeOK` |
| `OnlyTheOwnerHandles` | `LifecycleProofs` | `Spec => []OwnerHandles` |
| `DescriptorsAreInUse` | `LifecycleProofs` | `Spec => []DescriptorsInUse` |
| `RecoverySparesCompactions` | `LifecycleProofs` | `Spec => []RecoverySpares` |
| `AnsweredStayInFile` | `LifecycleProofs` | `Spec => []AnsweredInFile` |
| `VisibleRecordsStay` | `LifecycleProofs` | `Spec => NothingVisibleLost` |
| `SearchTypes` | `SearchProofs` | `Spec => []TypeOK` |
| `SelectionIsComplete` | `SearchProofs` | `Spec => []SelectionMissesNothing` |
| `AnswersAreNewest` | `SearchProofs` | `Spec => []AnswerIsNewest` |

### 4.1 Assumptions

TLC evaluates each in the runs of its module.

- `Partition`: `NoneAssumption` (the absent value is no id, record or file),
  `FiniteIdsAssumption` (UUIDs are 128 bits), `InitialJournalAssumption` (ids occur
  once; the revision is 0 or 1; no candidate yet), `BoundsAssumption` (the types of
  the bounds).
- `Durability`: `OrderedMetadataAssumption` (a truth value), and those of `Partition`.
- `Flock`: `ProcessAssumption`, `FdAssumption`.
- `Lifecycle`: `LifecycleAssumption` (finitely many ids, the types of the bounds),
  `NoneAssumption`.
- `Search`: `LabelsAssumption`; `TimeAssumption` (a day, the first instant that has
  no text, and every zone are whole numbers of milliseconds); `LimitsAssumption`
  (both limits are positive); `NoneAssumption`.

Some theorems have a condition.  `PartitionRefinesJournal` assumes
`TornWrites = FALSE`: a half line is glued to the next record and makes the
partition unreadable, which no abstract journal does (`torn_partition`);
`WholePartitionRefinesJournal` says what holds until then.  The three
theorems with `Undisturbed`, that is `faults = 0 /\ crashes = 0`, speak of every
behaviour until the first step fails or the process dies: a resolve interrupted
between its renames leaves a candidate in two files (`resolve_not_atomic`), which may
then be decided the other way; a rebuild that fails is not repeated
(`index_not_repaired`).  The runs check them with the failures and crashes turned
off.  Five theorems of `DurabilityProofs` assume `OrderedMetadata`, a disk that
keeps the order of renames and removals: where only POSIX's promise holds, a
deletion may be kept and the rename before it lost (2.5), and
`ReplacedBeforeDeleted` is false.  The other three hold on both disks.

### 4.2 Arguments

- *Flock.*  Exclusion of guards does not follow from itself: the kernel excludes
  descriptions, not goroutines.  The invariant adds that descriptions are not
  shared (`OwnDescription`), that a guard's description carries the lock the guard
  believes in (`DescriptionState`), that an open description has an owner
  (`NoOrphan`), and the kernel's own rule (`KernelExclusion`).
- *Locks.*  `LockDiscipline` with the types of `pc` and the two locks is inductive.
  The proof has one lemma for each kind of step (moving within a section, taking a
  lock, leaving with one lock, leaving with both) and cites it for every action.
- *Types.*  A handler past its read uses what it kept: that it has something to
  use is `Carried`; that what files and batches name exists is `Created`.  That the
  temporary a compaction renames is there needs `LockDiscipline`: nobody else
  writes or removes it.
- *No lost record.*  The strengthening `JournalInv` follows the line: `LineWritten` (an
  append past its write has its line in the file), `Rewrites` (what a compaction is
  about to rename is still what its substitution makes of the file and of the
  candidate copies), `StaleIsBrief` (the descriptor
  is stale only until the compaction that made it so evicts it).  The locks exclude
  an append in either window, and a submit from changing the copies;
  `SubstitutionKeepsRecords` says that the rewrite itself drops no id.
- *Atomic rewrites.*  `Rewrites` says it of the state before the rename, and
  `OnlyRenames` that no other step takes a compaction past it.
- *Versions.*  The code compares revision numbers; what it means is versions.
  `HistoryInv` makes them the same: revisions count replacements (`RevisionCounts`),
  every copy outside the journal, in a candidate or in the hands of a submit, is a
  version of a line (`CopiesDescend`, `VersionOf`: its history is a prefix of the
  line's), and one that is about to be written is the line itself (`CopyCurrent`,
  by the candidate lock that the submit shares and a compaction needs).  Then two
  equal revisions of one record have equal histories (`SameRevisionSameVersion`),
  so a substitution replaces a line by the candidate made from exactly that line
  (`SubstitutionBuildsOnVersions`), which is `HistoryGrows`, and gives the invariant
  back.  A power loss takes lines away and leaves their candidates.  `VersionInv`,
  which is `HistoryInv` without `CopiesDescend`, survives that: a candidate that a
  handler may still use comes from a version of a line or, if the line is lost, from
  a record that nothing had replaced (`Descends`), which a substitution appends.
- *Conservation.*  A candidate leaves a file in four places.  `CandidateInv` says
  what each finds there: `Stages` (a resolve carries the pending file it read, so
  what it removes is in the applied or denied file by then), `Batches` (a batch
  decides each record once, so the substitution picks every candidate of it),
  `BatchSettled` (from the rename on, the batch of a compaction is settled,
  even the candidates another compaction settled first), and that the applied file
  holds nothing that the compaction deleting it did not read: a resolve replaces it
  only when it is empty (`FileSteps`, `DeletedAreSettled`).  Longer histories settle
  (`SettledByLength`), and no history shrinks.
- *Index row.*  `LinesCurrent`: the lines a compaction will build the row from are
  those of the file.  `CreatedIsIndexed` follows through conflicts because an insert
  merges with the row it read and is refused when the row has changed.
  `IndexComplete` says which handler will still bring each replacement.
- *Decisions.*  `TakenOnce` and `DeniedOnce` follow a candidate from the file it was
  decided in to the history of its record, through the batches of the compactions
  that carry it (`Taken`).
- *Audit.*  The count is computed at the read and written five steps later.
  `CountKept` says it stays what the substitution will do, `CountDue` that from the
  rename on the journal shows as many replacements more than the audit has counted.
  `RenameAdds` is where they meet: each line that the substitution replaces shows
  one replacement that it did not show before.
- *The abstract journal.*  `StepRefinesJournal` maps every step.  Four kinds of
  steps are visible: `AppendWrite`, the answer to an append, `SubmitAppend`,
  `RenameTmp`; all else stutters, a crash included.  The rename is the hard one
  (`RenameMaterialises`): it rests on `Rewrites` and `SubstitutionBuildsOnVersions`.
  `OwnRecord` and `Untold` say that a record has one handler and one answer.
- *Queries.*  A searching client changes nothing (`QueriesOnlyRead`: `QuerySpec => Spec`),
  so all theorems about `Spec` hold next to it.  `QueryInv` says what a query holds
  between its steps: the index selected the file (by time through `CreatedIsSelected`,
  which conflicts, rebuilds and failures preserve because a row never loses the id of
  an announced record; by labels through `CreatedIsIndexed` and `IndexComplete`), and
  the version it asked for has a line of that version or a later one, which
  `LinesGrow` preserves.  Uniqueness at the read is `RevisionCounts`.  Half a line
  stays (`TornStays`), so a read that succeeds began its query on a whole journal.
- *Power loss.*  Its state is any image, so an invariant of the files has to be one
  of every image.  `DurableInv` has what holds on any disk: `ImagesTyped` (with an
  image that is what the processes see), and `DecidedOnDisk` (in no image is an
  approved candidate pending, since the answer waits for the directory).  `DiskInv`
  adds `ImagesRecoverable`.  Every image is one to go on from (`Recoverable`: lines
  whose revisions count, copies that descend from them, one decision per record in
  the applied file, each submitted or approved candidate in its file or settled by
  the lines, the sealed records among the lines), and one that lacks no rename is
  close to the files (`UpToDate`: it lacks at most lines at the end of the journal
  and candidates whose submission was not answered, and no line once a compaction
  has renamed).  The second is what the next write builds on, because a write
  reaches the disk after the renames before it.  What the handlers carry is right whatever the
  images (`StepCarried`), by the lemmas for `Partition`; the rest is one lemma for
  each kind of write: a line appended (`AppendSurvives`), the journal exchanged
  (`RenameSurvives`), a candidate file appended to or exchanged (`SubmitSurvives`,
  `ResolveSurvives`, `CompactSurvives`), a sync (`IndexSurvives`).
- *Lifecycle.*  `LifecycleInv` relates the two locks and the descriptors: `Owners`
  and `Served` (requests arrive and handlers run where `server.lock` is held), `Locks` (a writer is alone
  over all processes), `Cached` (the descriptor in a map is on the current inode, or a
  compaction of that process is about to evict it), `Writing`, `Plans` (what a
  compaction renames is the file).  `Budget` counts inodes.  `VisibleRecordsStay`
  needs `Locks` and `Plans` only, so it holds after connections were abandoned
  too.
- *Search.*  `SearchInv`: the row of a file is made of the times of its records
  (`RowsMade`), and covers each record that was indexed (`RowsCover`), in the order of
  texts.  Truncation is monotone and a day begins on a millisecond
  (`NormalizeMonotone`, `LaterDay`), so no file with a match is missed; for
  `AnswersAreNewest` a file beyond the limit is of an earlier day than each that was
  read (`UnreadIsOlder`), and the cut keeps the newest of what was (`CutIsFull`).

### 4.3 Only model-checked

- Liveness (`RequestsFinish`, `CompactionDrains`): the prover does not treat
  fairness and ENABLED.
- Induction over data is out of the prover's reach and is not needed: the operators of
  `Substitution` and `Search` are expressions over sets and functions.

## 5. Where documentation and code disagree

Each has a run in which TLC finds the violation.

1. `resolve_not_atomic`.  `resolve.go:17` says the move is atomic.
   `MoveCandidates` renames applied, renames denied and removes pending, and
   nothing repairs a partial move at start-up.  After a crash in between, a
   candidate is pending and applied (or denied) at once.
2. `approved_skipped`.  A candidate submitted while another for the same record
   awaits compaction copies the revision before it.  Once approved (which is
   answered with success) it is skipped by the compare-and-swap of the compaction
   and deleted from the applied file.
3. `index_not_repaired`.  `compact.go:24-25` says that if the best-effort steps fail
   the next compaction sees the same candidates.  The applied file is deleted before
   the index is rebuilt, so when only the rebuild fails, the next compaction finds
   nothing and returns.
4. `torn_partition`.  A failed write may leave half a line, which no code removes.
   The next record is glued to it, is answered 201, and from then on the whole
   partition cannot be read.
5. `record_not_durable`.  `docs/ARCHITECTURE.md:5` says records are stored durably;
   the journal append is not synced, so a power loss after the answer may take the
   record with it.  A compaction that has finished does sync (`CompactedSurvives`).

## 6. Not modelled, and the plan

Left out of the modelled components:

- half a line in the pending file (`candidatestore`): it would stop list and resolve
  as half a line stops the journal (`torn_partition`);
- the temporaries of `MoveCandidates`, which nothing reads;
- the read filters of `jsonlstore` (`WithTimeRange`, `WithTags`): no caller in the
  server;
- times before year 1000, and a file that changes during the scan of a query other
  than by whole or half lines at its end;
- a power loss and abandoned connections together, and several partitions with
  concurrent requests (their only shared state is the SQLite database, whose other
  writers appear as failed inserts).

Every safety property of the passing runs is proved, under the conditions in 4.1.
Next: a searching client on a partition that loses power, where a query that was
answered by the index may meet a journal that has lost the line.

Not planned: formatting, HTTP envelopes, configuration, metrics, `chain`,
`healthz`, `jsonx`, `sourcerepo`: no protocol state.  `collisions.go`: not wired
into the server.  The schema registry: a map built once from files
embedded at compile time; its lookups have no state, failure or concurrency.

------------------------------ MODULE Partition ------------------------------
(***************************************************************************)
(* One day partition under concurrent append, submit, list, resolve and    *)
(* compact requests, with failing steps, cancelled requests and crashes of *)
(* the process.  Requests on different partitions share no file and no     *)
(* lock, only the SQLite database, whose other writers appear here as      *)
(* failed inserts.                                                         *)
(***************************************************************************)
EXTENDS AppendPath, CandidatePath, CompactionPath

-----------------------------------------------------------------------------
\* The process dies: the kernel closes every descriptor, which drops every lock;
\* files stay as they are, but for half a line or half a temporary.
Crash ==
  /\ up
  /\ crashes < MaxCrashes
  /\ crashes' = crashes + 1
  /\ up' = FALSE
  /\ pc' = [p \in Worker |-> "idle"]
  /\ job' = [p \in Worker |-> NoJob]
  /\ fd' = "none"
  /\ jlock' = Unlocked /\ clock' = Unlocked
  /\ tear' \in IF TornWrites /\ \E p \in Worker : pc[p] = "append.write"
               THEN {tear, "tail"} ELSE {tear}
  /\ tmp' \in IF \E p \in Worker : pc[p] = "compact.tmp" THEN {tmp, <<>>} ELSE {tmp}
  /\ UNCHANGED <<journal, row, candidateVars, answerVars, left, faults>>

\* NewStore: recoverCompaction removes the temporaries before requests arrive.
Restart ==
  /\ ~ up
  /\ up' = TRUE
  /\ tmp' = None
  /\ UNCHANGED <<workerVars, journal, tear, fd, row, candidateVars, lockVars, answerVars, boundVars>>

\* An error of a removal is logged, and requests are served all the same.
RecoveryFails ==
  /\ ~ up
  /\ tmp # None
  /\ Fault
  /\ up' = TRUE
  /\ UNCHANGED <<workerVars, journalVars, row, candidateVars, lockVars, answerVars>>

Progress(p) == AppendProgress(p) \/ CandidateProgress(p) \/ CompactProgress(p)

Failure(p) == LockFails(p) \/ AppendFault(p) \/ CandidateFault(p) \/ CompactFault(p)

Next ==
  \/ \E p \in Worker : (\E k \in Kind : Arrive(p, k)) \/ Progress(p) \/ Failure(p)
  \/ Crash
  \/ Restart
  \/ RecoveryFails

Spec == Init /\ [][Next]_vars

\* The life of one process, from its start to its end.
Serve == \E p \in Worker : (\E k \in Kind : Arrive(p, k)) \/ Progress(p) \/ Failure(p)

\* The Go scheduler runs every handler that can take a step.  Nothing is assumed
\* of failures and arrivals.
Fairness == \A p \in Worker : WF_vars(Progress(p))

FairSpec == Init /\ [][Serve]_vars /\ Fairness

-----------------------------------------------------------------------------
\* Types of every variable.
TypeOK ==
  /\ up \in BOOLEAN
  /\ pc \in [Worker -> Step]
  /\ job \in [Worker -> Job]
  /\ journal \in Seq(Record)
  /\ tear \in {"none", "tail", "inner"}
  /\ tmp \in Seq(Record) \cup {None}
  /\ fd \in {"none", "current", "stale"}
  /\ row \in SUBSET [id : RecId, by : Seq(CandId)]
  /\ copies \in [CandId -> Record \cup {None}]
  /\ pending \in SUBSET CandId
  /\ applied \in SUBSET CandId
  /\ denied \in SUBSET CandId
  /\ audit \in Nat
  /\ jlock \in LockStates(Worker)
  /\ clock \in LockStates(Worker)
  /\ answer \in [RecId -> {"none", "created", "accepted"}]
  /\ submitted \in SUBSET CandId
  /\ approved \in SUBSET CandId
  /\ left \in [Kind -> Nat]
  /\ faults \in Nat
  /\ crashes \in Nat

\* A lock is held exactly by the workers whose handler is between its
\* acquisition and its release, on every path out of every handler, and a
\* writer is alone: no append runs while a compaction rewrites the journal, no
\* submit or list while candidates are moved or compacted.
LockDiscipline ==
  /\ Exclusive(jlock) /\ Exclusive(clock)
  /\ \A p \in Worker :
       /\ p \in jlock.shared <=> pc[p] \in AppendHolding
       /\ p \in jlock.exclusive <=> pc[p] \in CompactHolding \cup {"compact.candidate"}
       /\ p \in clock.shared <=> pc[p] \in SharedHolding
       /\ p \in clock.exclusive <=> pc[p] \in ResolveHolding \cup CompactHolding

\* A record whose append was answered, 201 or 202, has a line in the journal
\* file whatever compactions, failures and restarts follow; torn lines are the
\* one exception (see AnsweredReadable).
NoLostRecord ==
  tear = "none" => \A r \in RecId : answer[r] # "none" => r \in Ids(journal)

\* A record has one line, and its revision counts the replacements that led to it.
RevisionCounts ==
  \A k \in DOMAIN journal :
    /\ \A j \in DOMAIN journal : journal[j].id = journal[k].id => j = k
    /\ NormalizedRevision(journal[k].rev) = 1 + Len(journal[k].by)

\* No step undoes a replacement or builds on a version that is no longer the
\* current one: the history of every record only grows, by one candidate at a time.
HistoryGrows ==
  [][\A k \in DOMAIN journal :
       /\ k \in DOMAIN journal'
       /\ journal'[k].id = journal[k].id
       /\ \/ journal'[k].by = journal[k].by
          \/ \E c \in CandId : journal'[k].by = Append(journal[k].by, c)]_vars

\* The journal has moved past the revision candidate c was made from: c took
\* effect or never will.
Settled(c) ==
  \E k \in DOMAIN journal :
    /\ journal[k].id = copies[c].id
    /\ NormalizedRevision(journal[k].rev) > NormalizedRevision(copies[c].rev)

\* A submitted candidate the client was told of waits for a decision, waits
\* for compaction, was denied, or was settled; it does not disappear.
CandidateConserved ==
  \A c \in submitted : c \in pending \cup applied \cup denied \/ Settled(c)

\* A candidate leaves the applied file only once the journal holds its outcome,
\* or when a failed resolve puts it back to pending.
AppliedUntilSettled ==
  [][\A c \in applied \ applied' : Settled(c)' \/ c \in pending']_vars

\* A candidate is made from the version of its record that is current when it
\* is written: no compaction comes between the read and the write.
SubmitCopiesCurrent ==
  [][\A c \in pending' \ pending :
       \E k \in DOMAIN journal : journal[k] = copies'[c]]_vars

\* A candidate file is only seen with resolved candidates moved entirely: while
\* no resolve runs, no candidate is in two of the three files.
ResolveAtomic ==
  up /\ clock.exclusive = {} =>
    pending \cap (applied \cup denied) = {} /\ applied \cap denied = {}

\* A candidate's outcome is one of the two: what the journal shows as done was not denied.
DeniedNeverApplied ==
  \A c \in denied : \A k \in DOMAIN journal : \A i \in DOMAIN journal[k].by : journal[k].by[i] # c

\* A replaced record whose new tags and types the index row lacks still has its
\* candidate in the applied file, for the next compaction to see and repair.
RewritingJournal == \E p \in Worker : pc[p] \in {"compact.evict", "compact.delete", "compact.rebuild"}

IndexRepairable ==
  ~ RewritingJournal =>
    \A k \in DOMAIN journal :
      LET by == journal[k].by
      IN  by # <<>> => Content(journal[k]) \in row \/ by[Len(by)] \in applied

\* Every candidate whose approval was answered with success waits for
\* compaction or is part of its record's history.
ApprovedMaterialised ==
  \A c \in approved :
    c \in applied \/ \E k \in DOMAIN journal : \E i \in DOMAIN journal[k].by : journal[k].by[i] = c

\* Every record whose append was answered can be read back.
AnsweredReadable ==
  \A r \in RecId : answer[r] # "none" => Readable /\ r \in Ids(journal)

\* A record answered 201 is in the index row, so a search for its tags, type
\* and time finds the file, as long as no candidate has replaced it.
CreatedIsIndexed ==
  \A k \in DOMAIN journal :
    answer[journal[k].id] = "created" /\ journal[k].by = <<>> => Content(journal[k]) \in row

\* The replacements that the journal shows, one for each candidate in the
\* history of a line.
Replacements == UNION {{<<k, i>> : i \in DOMAIN journal[k].by} : k \in DOMAIN journal}

\* The audit never counts a candidate that was skipped: its sum is at most the
\* number of replacements in the journal.
AuditCountsReplacements == audit <= Cardinality(Replacements)

\* A rewrite takes effect as one atomic substitution on the file as it is when the
\* temporary is renamed, though it was computed from what was read before; what
\* earlier compactions left of their temporaries does not reach the journal.
RewriteIsAtomic ==
  [][\A p \in Worker :
       pc[p] = "compact.rename" /\ pc'[p] = "compact.evict" =>
         journal' = ApplySubstitutions(journal, job[p].batch, copies)]_vars

\* Every request that reached a worker is answered while the process lives:
\* the two locks of a compaction and the early returns leave nobody waiting for ever.
RequestsFinish == \A p \in Worker : pc[p] # "idle" ~> pc[p] = "idle"

\* A compaction that found candidate c, and meets no failure and no torn line, gets
\* it out of the applied file, whatever other compactions and resolves run meanwhile.
CompactionDrains ==
  \A p \in Worker, c \in CandId :
    /\ pc[p] = "compact.journal" /\ c \in job[p].batch
    /\ faults = MaxFaults /\ Readable
    ~> c \notin applied

-----------------------------------------------------------------------------
\* The partition as its clients see it: which versions the records have, what the
\* candidates were made from, what was answered.
Histories ==
  [r \in RecId |-> IF r \in Ids(journal) THEN journal[FirstLine(journal, r)].by ELSE None]

Bases == [c \in CandId |-> IF copies[c] = None THEN None ELSE Content(copies[c])]

Journal == INSTANCE JournalSpec WITH history <- Histories, basis <- Bases, told <- answer

\* With locks, temporaries, revisions, failures and crashes, the partition
\* behaves like the journal of JournalSpec: a compaction changes all its records
\* in one step, comparing revisions is comparing versions, and a candidate is
\* made from the version that is current when it appears.
ImplementsJournal == Journal!Spec
=============================================================================

--------------------------- MODULE CompactionPath ---------------------------
(***************************************************************************)
(* POST /v1/compaction: Compact reads the applied file before it holds     *)
(* any lock, takes the journal lock and then the candidate lock, both      *)
(* exclusive, rewrites the journal through a temporary, and cleans up:     *)
(* delete the applied candidates, rebuild the index row, append the audit  *)
(* event.  An error of a clean-up step is logged and the next one runs.    *)
(***************************************************************************)
EXTENDS PartitionState

\* ListApplied, before any lock: what is read here may be old when it is used.
CompactList(p) ==
  /\ pc[p] = "compact.list"
  /\ IF applied = {}
     THEN Return(p)
     ELSE /\ Keep(p, [job[p] EXCEPT !.batch = applied])
          /\ Goto(p, "compact.journal")
  /\ UNCHANGED <<up, journalVars, row, candidateVars, lockVars, answerVars, boundVars>>

CompactListFails(p) ==
  /\ pc[p] = "compact.list"
  /\ Fault
  /\ Return(p)
  /\ UNCHANGED <<up, journalVars, row, candidateVars, lockVars, answerVars>>

CompactLockJournal(p) ==
  /\ pc[p] = "compact.journal"
  /\ CanExclude(jlock)
  /\ jlock' = Exclude(jlock, p)
  /\ Goto(p, "compact.candidate")
  /\ UNCHANGED <<up, job, journalVars, row, candidateVars, clock, answerVars, boundVars>>

\* Faulty variant: the candidate lock is not taken.
CompactSkipCandidateLock(p) ==
  /\ pc[p] = "compact.candidate"
  /\ Goto(p, "compact.read")
  /\ UNCHANGED <<up, job, journalVars, row, candidateVars, lockVars, answerVars, boundVars>>

CompactLockCandidates(p) ==
  /\ pc[p] = "compact.candidate"
  /\ CanExclude(clock)
  /\ clock' = Exclude(clock, p)
  /\ Goto(p, "compact.read")
  /\ UNCHANGED <<up, job, journalVars, row, candidateVars, jlock, answerVars, boundVars>>

\* Faulty variant: the first lock is kept by the cancelled request.
CompactCancelKeepsLock(p) ==
  /\ pc[p] = "compact.candidate"
  /\ Fault
  /\ Return(p)
  /\ UNCHANGED <<up, journalVars, row, candidateVars, lockVars, answerVars>>

\* Cancelled while waiting for the second lock: the first is released.
CompactCancel(p) ==
  /\ pc[p] = "compact.candidate"
  /\ Fault
  /\ Return(p)
  /\ ReleaseJournal(p)
  /\ UNCHANGED <<up, journalVars, row, candidateVars, answerVars>>

\* ReadPartition and applySubstitutions.
CompactRead(p) ==
  /\ pc[p] = "compact.read"
  /\ tear = "none"
  /\ Keep(p, [job[p] EXCEPT !.lines = ApplySubstitutions(journal, job[p].batch, copies),
                            !.count = AppliedCount(journal, job[p].batch, copies)])
  /\ Goto(p, "compact.tmp")
  /\ UNCHANGED <<up, journalVars, row, candidateVars, lockVars, answerVars, boundVars>>

CompactUnreadable(p) ==
  /\ pc[p] = "compact.read"
  /\ tear # "none"
  /\ Return(p)
  /\ ReleaseBoth(p)
  /\ UNCHANGED <<up, journalVars, row, candidateVars, answerVars, boundVars>>

\* Faulty variants: a leftover temporary is not truncated; the rename comes
\* before the temporary is written.
AppendToTmp(p) ==
  /\ pc[p] = "compact.tmp"
  /\ tmp' = IF tmp = None THEN job[p].lines ELSE tmp \o job[p].lines
  /\ Goto(p, "compact.rename")
  /\ UNCHANGED <<up, job, journal, tear, fd, row, candidateVars, lockVars, answerVars, boundVars>>

SkipTmp(p) ==
  /\ pc[p] = "compact.tmp"
  /\ Goto(p, "compact.rename")
  /\ UNCHANGED <<up, job, journalVars, row, candidateVars, lockVars, answerVars, boundVars>>

\* ReplaceFile: the temporary, truncated if there is one, is written and synced,
WriteTmp(p) ==
  /\ pc[p] = "compact.tmp"
  /\ tmp' = job[p].lines
  /\ Goto(p, "compact.rename")
  /\ UNCHANGED <<up, job, journal, tear, fd, row, candidateVars, lockVars, answerVars, boundVars>>

\* renamed over the journal (a cached descriptor keeps the old file),
RenameTmp(p) ==
  /\ pc[p] = "compact.rename"
  /\ journal' = tmp
  /\ tear' = "none"
  /\ tmp' = None
  /\ fd' = IF fd = "current" THEN "stale" ELSE fd
  /\ Goto(p, "compact.evict")
  /\ UNCHANGED <<up, job, row, candidateVars, lockVars, answerVars, boundVars>>

\* Faulty variant: the cached descriptor survives the rename.
KeepDescriptor(p) ==
  /\ pc[p] = "compact.evict"
  /\ Goto(p, "compact.delete")
  /\ UNCHANGED <<up, job, journalVars, row, candidateVars, lockVars, answerVars, boundVars>>

\* and the cached descriptor is dropped.
Evict(p) ==
  /\ pc[p] = "compact.evict"
  /\ fd' = "none"
  /\ Goto(p, "compact.delete")
  /\ UNCHANGED <<up, job, journal, tear, tmp, row, candidateVars, lockVars, answerVars, boundVars>>

\* What may be left of the temporary: it is removed, but an error of the removal
\* is ignored, and when it could not be opened it is not even removed.
Leftovers(p) ==
  {tmp} \cup (IF pc[p] = "compact.read" THEN {} ELSE {None})
        \cup (IF pc[p] = "compact.tmp" THEN {<<>>} ELSE {})

\* An error up to the rename: the journal has not changed.
RewriteFails(p) ==
  /\ pc[p] \in {"compact.read", "compact.tmp", "compact.rename"}
  /\ Fault
  /\ tmp' \in Leftovers(p)
  /\ Return(p)
  /\ ReleaseBoth(p)
  /\ UNCHANGED <<up, journal, tear, fd, row, candidateVars, answerVars>>

\* Faulty variants: the whole applied file is removed; nothing is removed.
NothingKept(p) == {}
EverythingKept(p) == applied

\* DeleteApplied keeps the candidates this compaction did not read.
Uncompacted(p) == applied \ job[p].batch

DeleteApplied(p) ==
  /\ pc[p] = "compact.delete"
  /\ applied' = Uncompacted(p)
  /\ Goto(p, "compact.rebuild")
  /\ UNCHANGED <<up, job, journalVars, row, copies, pending, denied, audit, lockVars, answerVars, boundVars>>

\* Faulty variant: the row keeps what it covered before the rewrite.
KeepRow(p) ==
  /\ pc[p] = "compact.rebuild"
  /\ Goto(p, "compact.audit")
  /\ UNCHANGED <<up, job, journalVars, row, candidateVars, lockVars, answerVars, boundVars>>

\* RebuildPartition: one transaction replaces the row.
RebuildIndex(p) ==
  /\ pc[p] = "compact.rebuild"
  /\ row' = Contents(job[p].lines)
  /\ Goto(p, "compact.audit")
  /\ UNCHANGED <<up, job, journalVars, candidateVars, lockVars, answerVars, boundVars>>

\* The audit event, and the end.
AuditAppend(p) ==
  /\ pc[p] = "compact.audit"
  /\ audit' = audit + job[p].count
  /\ Return(p)
  /\ ReleaseBoth(p)
  /\ UNCHANGED <<up, journalVars, row, copies, pending, applied, denied, answerVars, boundVars>>

\* A clean-up step that fails is logged and skipped; when only its last sync
\* fails, its effect is there all the same.
CleanupFails(p) ==
  /\ Fault
  /\ \/ /\ pc[p] = "compact.delete"
        /\ applied' \in {applied, Uncompacted(p)}
        /\ Goto(p, "compact.rebuild")
        /\ UNCHANGED <<job, lockVars, audit>>
     \/ /\ pc[p] = "compact.rebuild"
        /\ Goto(p, "compact.audit")
        /\ UNCHANGED <<job, lockVars, applied, audit>>
     \/ /\ pc[p] = "compact.audit"
        /\ audit' \in {audit, audit + job[p].count}
        /\ Return(p)
        /\ ReleaseBoth(p)
        /\ UNCHANGED applied
  /\ UNCHANGED <<up, journalVars, row, copies, pending, denied, answerVars>>

CompactProgress(p) ==
  \/ CompactList(p)
  \/ CompactLockJournal(p)
  \/ CompactLockCandidates(p)
  \/ CompactRead(p)
  \/ CompactUnreadable(p)
  \/ WriteTmp(p)
  \/ RenameTmp(p)
  \/ Evict(p)
  \/ DeleteApplied(p)
  \/ RebuildIndex(p)
  \/ AuditAppend(p)

CompactFault(p) ==
  \/ CompactListFails(p)
  \/ CompactCancel(p)
  \/ RewriteFails(p)
  \/ CleanupFails(p)
=============================================================================

---------------------------- MODULE CandidatePath ----------------------------
(***************************************************************************)
(* The candidate requests on one partition: submit copies a journal record *)
(* into the pending file under the shared candidate lock, list reads that  *)
(* file under the same lock, resolve moves the whole pending file into     *)
(* applied and denied under the exclusive one.                             *)
(***************************************************************************)
EXTENDS PartitionState

\* The candidate lock, in the mode each handler asks for.
CandidateLock(p) ==
  /\ \/ /\ pc[p] = "submit.lock"
        /\ CanShare(clock)
        /\ clock' = Share(clock, p)
        /\ Goto(p, "submit.read")
     \/ /\ pc[p] = "list.lock"
        /\ CanShare(clock)
        /\ clock' = Share(clock, p)
        /\ Goto(p, "list.read")
     \/ /\ pc[p] = "resolve.lock"
        /\ CanExclude(clock)
        /\ clock' = Exclude(clock, p)
        /\ Goto(p, "resolve.read")
  /\ UNCHANGED <<up, job, journalVars, row, candidateVars, jlock, answerVars, boundVars>>

-----------------------------------------------------------------------------
\* Submit.

\* A file with a torn line is not read at all: Read fails on it.
Readable == tear = "none"

\* ReadRecord, without the journal lock, for the record the client names.
SubmitRead(p) ==
  /\ pc[p] = "submit.read"
  /\ Readable
  /\ \E r \in Ids(journal) :
       Keep(p, [job[p] EXCEPT !.copy = journal[FirstLine(journal, r)]])
  /\ Goto(p, "submit.append")
  /\ UNCHANGED <<up, journalVars, row, candidateVars, lockVars, answerVars, boundVars>>

\* No such record (404), or a partition that cannot be read.
SubmitRejected(p) ==
  /\ pc[p] = "submit.read"
  /\ ~ Readable \/ \E r \in RecId : r \notin Ids(journal)
  /\ Return(p)
  /\ ReleaseCandidates(p)
  /\ UNCHANGED <<up, journalVars, row, candidateVars, answerVars, boundVars>>

\* The line of a new candidate reaches the pending file.
WritePending(p, c) ==
  /\ copies[c] = None
  /\ copies' = [copies EXCEPT ![c] = job[p].copy]
  /\ pending' = pending \cup {c}

\* AppendCandidate: write and fsync, then 201.
SubmitAppend(p) ==
  /\ pc[p] = "submit.append"
  /\ \E c \in CandId : WritePending(p, c) /\ submitted' = submitted \cup {c}
  /\ Return(p)
  /\ ReleaseCandidates(p)
  /\ UNCHANGED <<up, journalVars, row, applied, denied, audit, answer, approved, boundVars>>

\* An error: the line may be in the file all the same (write done, fsync not).
SubmitFails(p) ==
  /\ pc[p] \in {"submit.read", "submit.append"}
  /\ Fault
  /\ \/ UNCHANGED <<copies, pending>>
     \/ pc[p] = "submit.append" /\ \E c \in CandId : WritePending(p, c)
  /\ Return(p)
  /\ ReleaseCandidates(p)
  /\ UNCHANGED <<up, journalVars, row, applied, denied, audit, answerVars>>

\* ListPending reads the pending file and releases.
ListRead(p) ==
  /\ pc[p] = "list.read"
  /\ Return(p)
  /\ ReleaseCandidates(p)
  /\ UNCHANGED <<up, journalVars, row, candidateVars, answerVars, boundVars>>

-----------------------------------------------------------------------------
\* Resolve.

\* An empty resolution list is refused before Resolve, so pending is not empty.
\* validateAllAtOnce: every pending candidate decided, one applied per record.
\* accepted are the candidates the caller applies; the caller denies the others.
ValidResolution(accepted) ==
  \A c, d \in accepted : copies[c].id = copies[d].id => c = d

\* Faulty variant: the applied file is written over.
AppliedOverwritten == TRUE

\* MoveCandidates refuses while an applied file waits for compaction.
AppliedDrained == applied = {}

\* The temporary that becomes the denied file: the old contents, then the new.
NewDenied(accepted) == denied \cup (pending \ accepted)

\* Faulty variant: the applied candidates are copied to the denied file too.
ResolveReadDeniesAll(p) ==
  /\ pc[p] = "resolve.read"
  /\ pending # {}
  /\ AppliedDrained
  /\ \E accepted \in SUBSET pending :
       /\ ValidResolution(accepted)
       /\ Keep(p, [job[p] EXCEPT !.batch = accepted, !.deny = denied \cup pending])
  /\ Goto(p, "resolve.applied")
  /\ UNCHANGED <<up, journalVars, row, candidateVars, lockVars, answerVars, boundVars>>

\* The caller's decisions are checked against the pending file and the new
\* applied and denied files are written to temporaries.
ResolveRead(p) ==
  /\ pc[p] = "resolve.read"
  /\ pending # {}
  /\ AppliedDrained
  /\ \E accepted \in SUBSET pending :
       /\ ValidResolution(accepted)
       /\ Keep(p, [job[p] EXCEPT !.batch = accepted, !.deny = NewDenied(accepted)])
  /\ Goto(p, "resolve.applied")
  /\ UNCHANGED <<up, journalVars, row, candidateVars, lockVars, answerVars, boundVars>>

\* Unknown action, candidate not pending, incomplete resolution, two applied for
\* one record, applied file still there, read or temp write error: all leave the files alone.
ResolveRejected(p) ==
  /\ pc[p] = "resolve.read"
  /\ Return(p)
  /\ ReleaseCandidates(p)
  /\ UNCHANGED <<up, journalVars, row, candidateVars, answerVars, boundVars>>

\* The applied temporary, written only for a non-empty batch, is renamed.
MoveApplied(p) ==
  /\ pc[p] = "resolve.applied"
  /\ applied' = IF job[p].batch = {} THEN applied ELSE job[p].batch
  /\ Goto(p, "resolve.denied")
  /\ UNCHANGED <<up, job, journalVars, row, copies, pending, denied, audit, lockVars, answerVars, boundVars>>

\* The denied temporary, old contents first, is renamed.
MoveDenied(p) ==
  /\ pc[p] = "resolve.denied"
  /\ denied' = job[p].deny
  /\ Goto(p, "resolve.pending")
  /\ UNCHANGED <<up, job, journalVars, row, copies, pending, applied, audit, lockVars, answerVars, boundVars>>

\* Faulty variant: the pending file stays.
KeepPending(p) ==
  /\ pc[p] = "resolve.pending"
  /\ approved' = approved \cup job[p].batch
  /\ Return(p)
  /\ ReleaseCandidates(p)
  /\ UNCHANGED <<up, journalVars, row, candidateVars, answer, submitted, boundVars>>

\* The pending file is removed and the directories synced: success.
RemovePending(p) ==
  /\ pc[p] = "resolve.pending"
  /\ pending' = {}
  /\ approved' = approved \cup job[p].batch
  /\ Return(p)
  /\ ReleaseCandidates(p)
  /\ UNCHANGED <<up, journalVars, row, copies, applied, denied, audit, answer, submitted, boundVars>>

\* Each step may fail.  A failed denied rename removes the applied file again
\* (an error of that is ignored); a failed removal of pending, or a failed sync
\* after it, undoes nothing.
MoveFails(p) ==
  /\ Fault
  /\ \/ pc[p] = "resolve.applied" /\ job[p].batch # {} /\ UNCHANGED <<applied, pending>>
     \/ /\ pc[p] = "resolve.denied" /\ job[p].deny # {}
        /\ applied' \in IF job[p].batch = {} THEN {applied} ELSE {applied, {}}
        /\ UNCHANGED pending
     \/ pc[p] = "resolve.pending" /\ pending' \in {pending, {}} /\ UNCHANGED applied
  /\ Return(p)
  /\ ReleaseCandidates(p)
  /\ UNCHANGED <<up, journalVars, row, copies, denied, audit, answerVars>>

CandidateProgress(p) ==
  \/ CandidateLock(p)
  \/ SubmitRead(p)
  \/ SubmitRejected(p)
  \/ SubmitAppend(p)
  \/ ListRead(p)
  \/ ResolveRead(p)
  \/ ResolveRejected(p)
  \/ MoveApplied(p)
  \/ MoveDenied(p)
  \/ RemovePending(p)

CandidateFault(p) == SubmitFails(p) \/ MoveFails(p)
=============================================================================

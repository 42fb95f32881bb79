---------------------------- MODULE CandidateProofs ----------------------------
(***************************************************************************)
(* What becomes of candidates, for any number of workers, requests,        *)
(* compactions, failures and crashes.  A candidate that was submitted is   *)
(* in a file until the journal has gone past the version it was made from; *)
(* this rests on what a resolve carries from one rename to the next, and   *)
(* on a compaction deleting no candidate before its record has moved on.   *)
(***************************************************************************)
EXTENDS JournalProofs

\* What is applied, or about to be, decides each record once.
Batches == ValidResolution(applied) /\ \A p \in Worker : ValidResolution(job[p].batch)

\* What a resolve finds in the files at each of its steps.
Decided(p) == job[p].deny = denied \cup (pending \ job[p].batch)

Stages ==
  \A p \in Worker :
    /\ pc[p] = "resolve.applied" => applied = {} /\ job[p].batch \subseteq pending /\ Decided(p)
    /\ pc[p] = "resolve.denied" => applied = job[p].batch /\ job[p].batch \subseteq pending /\ Decided(p)
    /\ pc[p] = "resolve.pending" => applied = job[p].batch /\ pending \ job[p].batch \subseteq denied

\* What a compaction has renamed into place settles its candidates.
BatchSettled ==
  \A p \in Worker : pc[p] \in {"compact.evict", "compact.delete"} => \A c \in job[p].batch : Settled(c)

\* A submitted candidate was written.
SubmittedExist == \A c \in submitted : copies[c] # None

CandidateInv == Batches /\ Stages /\ BatchSettled /\ SubmittedExist /\ CandidateConserved

-----------------------------------------------------------------------------
\* A resolve holds the candidate lock alone.
LEMMA ResolveIsAlone ==
  ASSUME LockInv, NEW p \in Worker, pc[p] \in ResolveHolding, NEW q \in Worker, q # p
  PROVE  pc[q] \notin SharedHolding \cup ResolveHolding \cup CompactHolding
  BY DEF LockInv, LockDiscipline, Exclusive, Holders, LockStates

\* A batch that decides each record once does so after a step as well.
LEMMA ValidLater ==
  ASSUME TypeInv, [Next]_vars, NEW S \in SUBSET CandId, ValidResolution(S), \A c \in S : copies[c] # None
  PROVE  \A c, d \in S : copies'[c].id = copies'[d].id => c = d
<1>1. \A c \in S : copies'[c] = copies[c]
  BY CandidatesStay
<1> QED BY <1>1 DEF ValidResolution

\* No step applies two candidates of one record.
LEMMA StepBatches ==
  ASSUME TypeInv, Batches, [Next]_vars
  PROVE  Batches'
<1>1. \A c, d \in applied' : copies'[c].id = copies'[d].id => c = d
  <2>1. \A c, d \in applied : copies'[c].id = copies'[d].id => c = d
    BY ValidLater DEF TypeInv, TypeOK, Created, Batches
  <2>2. ASSUME NEW p \in Worker, applied' = job[p].batch
        PROVE  \A c, d \in applied' : copies'[c].id = copies'[d].id => c = d
    <3>1. job[p].batch \in SUBSET CandId
      BY DEF TypeInv, TypeOK, Job
    <3> QED BY <2>2, <3>1, ValidLater DEF TypeInv, Created, Batches
  <2> QED BY <2>1, <2>2, AppliedComes
<1>2. ASSUME NEW p \in Worker
      PROVE  \A c, d \in job'[p].batch : copies'[c].id = copies'[d].id => c = d
  <2>1. job[p].batch \in SUBSET CandId
    BY DEF TypeInv, TypeOK, Job
  <2>2. \A c, d \in job[p].batch : copies'[c].id = copies'[d].id => c = d
    BY <2>1, ValidLater DEF TypeInv, Created, Batches
  <2>3. CASE job'[p].batch = {}
    BY <2>3
  <2>4. CASE WorkerStep(p)
    <3>1. CASE ResolveRead(p) /\ job'[p].batch \subseteq pending /\ ValidResolution(job'[p].batch)
      <4>1. job'[p].batch \in SUBSET CandId
        BY <3>1 DEF TypeInv, TypeOK
      <4> QED BY <3>1, <4>1, ValidLater DEF TypeInv, Created
    <3>2. CASE job'[p].batch = applied
      BY <3>2, ValidLater DEF TypeInv, TypeOK, Created, Batches
    <3> QED BY <2>2, <2>3, <2>4, <3>1, <3>2, JobComes DEF NoJob
  <2>5. CASE \E q \in Worker \ {p} : WorkerStep(q)
    BY <2>2, <2>5, OthersStay
  <2>6. CASE Crash
    BY <2>3, <2>6 DEF Crash, NoJob
  <2>7. CASE UNCHANGED workerVars \/ UNCHANGED vars
    BY <2>2, <2>7 DEF workerVars, vars
  <2> QED BY <2>4, <2>5, <2>6, <2>7, StepKinds
<1> QED BY <1>1, <1>2 DEF Batches, ValidResolution

\* While a resolve is between its read and its end, nobody else writes the files.
LEMMA OnlyResolveMoves ==
  ASSUME TypeInv, [Next]_vars, NEW p \in Worker,
         pc[p] \in {"resolve.applied", "resolve.denied", "resolve.pending"},
         ~ MoveApplied(p), ~ MoveDenied(p), ~ RemovePending(p), ~ MoveFails(p)
  PROVE  UNCHANGED <<pending, applied, denied>>
<1>1. ASSUME NEW q \in Worker, FileStep(q) PROVE q = p
  <2>1. pc[q] \in SharedHolding \cup ResolveHolding \cup CompactHolding
    BY <1>1 DEF FileStep, SubmitAppend, SubmitFails, MoveApplied, MoveDenied, RemovePending, MoveFails,
         DeleteApplied, CleanupFails, SharedHolding, ResolveHolding, CompactHolding
  <2> QED BY <2>1, ResolveIsAlone DEF TypeInv, ResolveHolding
<1>2. ASSUME FileStep(p) PROVE FALSE
  BY <1>2 DEF FileStep, SubmitAppend, SubmitFails, DeleteApplied, CleanupFails
<1> QED BY <1>1, <1>2, FileSteps

\* No other handler moves what a resolve between two renames has decided.
LEMMA StepStages ==
  ASSUME TypeInv, Stages, [Next]_vars
  PROVE  Stages'
<1> SUFFICES ASSUME NEW p \in Worker
    PROVE  /\ pc'[p] = "resolve.applied" =>
                applied' = {} /\ job'[p].batch \subseteq pending' /\ Decided(p)'
           /\ pc'[p] = "resolve.denied" =>
                applied' = job'[p].batch /\ job'[p].batch \subseteq pending' /\ Decided(p)'
           /\ pc'[p] = "resolve.pending" =>
                applied' = job'[p].batch /\ pending' \ job'[p].batch \subseteq denied'
  BY DEF Stages
<1>1. CASE pc'[p] = pc[p] /\ job'[p] = job[p] /\ UNCHANGED <<pending, applied, denied>>
  BY <1>1 DEF Stages, Decided
<1>2. CASE WorkerStep(p)
  <2>1. CASE ResolveRead(p)
    <3>1. UNCHANGED <<pending, applied, denied>> /\ applied = {} /\ pc'[p] = "resolve.applied"
      BY <2>1 DEF ResolveRead, candidateVars, AppliedDrained, Goto, TypeInv, TypeOK
    <3>2. job'[p].batch \subseteq pending /\ job'[p].deny = NewDenied(job'[p].batch)
      BY <2>1, ResolveDecides
    <3> QED BY <3>1, <3>2 DEF Decided, NewDenied
  <2>2. CASE MoveApplied(p)
    <3>1. /\ pc[p] = "resolve.applied" /\ pc'[p] = "resolve.denied"
          /\ UNCHANGED <<job, pending, denied>>
          /\ applied' = IF job[p].batch = {} THEN applied ELSE job[p].batch
      BY <2>2 DEF MoveApplied, Goto, TypeInv, TypeOK
    <3> QED BY <3>1 DEF Stages, Decided
  <2>3. CASE MoveDenied(p)
    <3>1. /\ pc[p] = "resolve.denied" /\ pc'[p] = "resolve.pending"
          /\ UNCHANGED <<job, pending, applied>>
          /\ denied' = job[p].deny
      BY <2>3 DEF MoveDenied, Goto, TypeInv, TypeOK
    <3> QED BY <3>1 DEF Stages, Decided
  <2> QED BY <1>2, <2>1, <2>2, <2>3, StepGoes
<1>3. CASE pc[p] \notin {"resolve.applied", "resolve.denied", "resolve.pending"} /\ pc'[p] = pc[p]
  BY <1>3
<1>4. CASE /\ pc'[p] = pc[p] /\ job'[p] = job[p]
           /\ pc[p] \in {"resolve.applied", "resolve.denied", "resolve.pending"}
  <2>1. ~ (MoveApplied(p) \/ MoveDenied(p) \/ RemovePending(p) \/ MoveFails(p))
    BY <1>4 DEF MoveApplied, MoveDenied, RemovePending, MoveFails, Return, Goto, TypeInv, TypeOK
  <2> QED BY <1>1, <1>4, <2>1, OnlyResolveMoves
<1>5. CASE \E q \in Worker \ {p} : WorkerStep(q)
  BY <1>3, <1>4, <1>5, OthersStay
<1>6. CASE Crash
  BY <1>6 DEF Crash
<1>7. CASE UNCHANGED workerVars \/ UNCHANGED vars
  BY <1>3, <1>4, <1>7 DEF workerVars, vars
<1> QED BY <1>2, <1>5, <1>6, <1>7, StepKinds

-----------------------------------------------------------------------------
\* The journal is past a candidate when its record was replaced since.
LEMMA SettledByLength ==
  ASSUME TypeInv, VersionInv, NEW c \in CandId, copies[c] # None, NEW k \in DOMAIN journal,
         journal[k].id = copies[c].id
  PROVE  /\ Counted(copies[c]) /\ Len(copies[c].by) \in Nat /\ Len(journal[k].by) \in Nat
         /\ NormalizedRevision(journal[k].rev) > NormalizedRevision(copies[c].rev)
              <=> Len(journal[k].by) > Len(copies[c].by)
<1>1. Counted(copies[c])
  BY DEF VersionInv, CopiesCounted
<1>2. NormalizedRevision(journal[k].rev) = 1 + Len(journal[k].by)
  BY DEF VersionInv, RevisionCounts
<1>3. copies[c].by \in Seq(CandId) /\ journal[k].by \in Seq(CandId)
  <2>1. copies[c] \in Record /\ journal[k] \in Record
    BY DEF TypeInv, TypeOK
  <2> QED BY <2>1 DEF Record
<1>4. Len(copies[c].by) \in Nat /\ Len(journal[k].by) \in Nat
  BY <1>3
<1> QED BY <1>1, <1>2, <1>4 DEF Counted

\* A line whose history is longer than that of a copy settles the candidate.
LEMMA LongerSettles ==
  ASSUME TypeInv, TypeInv', VersionInv, VersionInv', [Next]_vars, NEW c \in CandId, copies[c] # None,
         NEW k \in DOMAIN journal', journal'[k].id = copies[c].id,
         Len(journal'[k].by) > Len(copies[c].by)
  PROVE  Settled(c)'
<1>1. copies'[c] = copies[c]
  BY CandidatesStay
<1>2. Counted(copies[c])
  BY DEF VersionInv, CopiesCounted
<1>3. NormalizedRevision(journal'[k].rev) = 1 + Len(journal'[k].by)
  BY DEF VersionInv, RevisionCounts
<1>4. copies[c].by \in Seq(CandId) /\ journal'[k].by \in Seq(CandId)
  <2>1. copies[c] \in Record /\ journal'[k] \in Record
    BY DEF TypeInv, TypeOK
  <2> QED BY <2>1 DEF Record
<1>5. Len(copies[c].by) \in Nat /\ Len(journal'[k].by) \in Nat
  BY <1>4
<1>6. NormalizedRevision(journal'[k].rev) > NormalizedRevision(copies[c].rev)
  BY <1>2, <1>3, <1>5 DEF Counted
<1> QED BY <1>1, <1>6 DEF Settled

\* What is settled stays settled.
LEMMA SettledStays ==
  ASSUME TypeInv, TypeInv', Rewrites, VersionInv, VersionInv', [Next]_vars,
         NEW c \in CandId, copies[c] # None, Settled(c)
  PROVE  Settled(c)'
<1>1. PICK k \in DOMAIN journal :
        /\ journal[k].id = copies[c].id
        /\ NormalizedRevision(journal[k].rev) > NormalizedRevision(copies[c].rev)
  BY DEF Settled
<1>2. Len(journal[k].by) > Len(copies[c].by) /\ Len(copies[c].by) \in Nat /\ Len(journal[k].by) \in Nat
  BY <1>1, SettledByLength
<1>3. k \in DOMAIN journal' /\ journal'[k].id = journal[k].id /\ GrowsBy(journal[k], journal'[k], CandId, copies)
  BY LinesGrow
<1>4. Len(journal'[k].by) \in Nat /\ Len(journal'[k].by) >= Len(journal[k].by)
  <2>1. journal[k] \in Record
    BY DEF TypeInv, TypeOK
  <2>2. journal[k].by \in Seq(CandId)
    BY <2>1 DEF Record
  <2>3. journal'[k].by = journal[k].by \/ \E d \in CandId : journal'[k].by = Append(journal[k].by, d)
    BY <1>3 DEF GrowsBy
  <2> QED BY <2>2, <2>3
<1>5. Len(journal'[k].by) > Len(copies[c].by)
  BY <1>2, <1>4
<1> QED BY <1>1, <1>3, <1>5, LongerSettles

\* A rewrite settles the whole batch: a candidate made from the present version
\* replaces it, any other was settled before; one without a line adds one.
LEMMA RenameSettles ==
  ASSUME TypeInv, TypeInv', Rewrites, VersionInv, VersionInv', Batches, [Next]_vars,
         NEW p \in Worker, RenameTmp(p), NEW c \in job[p].batch
  PROVE  Settled(c)'
<1>1. c \in CandId /\ copies[c] # None
  BY DEF TypeInv, TypeOK, Created, Job
<1>2. Descends(copies[c], journal)
  BY <1>1 DEF VersionInv, CopiesMatch, Live
<1>3. ASSUME NEW k \in DOMAIN journal, VersionOf(copies[c], journal[k]) PROVE Settled(c)'
  <2>1. copies[c].by \in Seq(CandId) /\ journal[k].by \in Seq(CandId)
    <3>1. copies[c] \in Record /\ journal[k] \in Record
      BY <1>1 DEF TypeInv, TypeOK
    <3> QED BY <3>1 DEF Record
  <2>2. copies[c].id = journal[k].id
    BY <1>3 DEF VersionOf
  <2>3. k \in DOMAIN journal' /\ journal'[k].id = journal[k].id
        /\ GrowsBy(journal[k], journal'[k], CandId, copies)
    BY LinesGrow
  <2>4. copies[c].by = journal[k].by => journal'[k].by = Append(journal[k].by, c)
    <3>1. \A d \in job[p].batch : copies[d].id = copies[c].id => c = d
      BY DEF Batches, ValidResolution
    <3> QED BY <2>2, <3>1, RewriteKeepsVersions, SubstitutionBuildsOnVersions
  <2>5. Len(journal'[k].by) > Len(copies[c].by)
    <3>1. CASE copies[c].by = journal[k].by
      BY <2>1, <2>4, <3>1
    <3>2. CASE copies[c].by # journal[k].by
      <4>1. Len(copies[c].by) < Len(journal[k].by)
        <5> DEFINE old == copies[c].by
                   by == journal[k].by
        <5>1. Len(old) <= Len(by) /\ \A i \in 1..Len(old) : old[i] = by[i]
          BY <1>3 DEF VersionOf
        <5>2. Len(old) = Len(by) => old = by
          BY <2>1, <5>1
        <5>3. Len(old) \in Nat /\ Len(by) \in Nat
          BY <2>1
        <5> HIDE DEF old, by
        <5> QED BY <3>2, <5>1, <5>2, <5>3 DEF old, by
      <4>2. journal'[k].by = journal[k].by \/ \E d \in CandId : journal'[k].by = Append(journal[k].by, d)
        BY <2>3 DEF GrowsBy
      <4> QED BY <2>1, <4>1, <4>2
    <3> QED BY <3>1, <3>2
  <2> QED BY <1>1, <2>2, <2>3, <2>5, LongerSettles
<1>4. ASSUME copies[c].by = <<>>, copies[c].id \notin Ids(journal) PROVE Settled(c)'
  <2>1. PICK k \in DOMAIN journal' \ DOMAIN journal : journal'[k].id = copies[c].id
    BY <1>4, RewriteKeepsVersions, SubstitutionBuildsOnVersions
  <2>2. \E d \in job[p].batch : journal'[k].by = <<d>>
    BY <2>1, RewriteKeepsVersions, SubstitutionBuildsOnVersions
  <2>3. Len(journal'[k].by) > Len(copies[c].by)
    BY <1>4, <2>2
  <2> QED BY <1>1, <2>1, <2>3, LongerSettles
<1> QED BY <1>2, <1>3, <1>4 DEF Descends

\* A rename of the journal settles every candidate its compaction planned.
LEMMA StepBatchSettled ==
  ASSUME TypeInv, TypeInv', Rewrites, VersionInv, VersionInv', CandidateInv, [Next]_vars
  PROVE  BatchSettled'
<1> SUFFICES ASSUME NEW p \in Worker, pc'[p] \in {"compact.evict", "compact.delete"}, NEW c \in job'[p].batch
             PROVE  Settled(c)'
  BY DEF BatchSettled
<1>1. CASE pc[p] \in {"compact.evict", "compact.delete"} /\ job'[p].batch = job[p].batch
  <2>1. Settled(c)
    BY <1>1 DEF CandidateInv, BatchSettled
  <2>2. c \in CandId /\ copies[c] # None
    BY <1>1 DEF TypeInv, TypeOK, Created, Job
  <2> QED BY <2>1, <2>2, SettledStays
<1>2. CASE WorkerStep(p)
  <2>1. RenameTmp(p) \/ Evict(p)
    BY <1>2, StepGoes
  <2>2. job'[p].batch = job[p].batch
    BY <2>1 DEF RenameTmp, Evict
  <2> QED BY <1>1, <2>1, <2>2, RenameSettles DEF Evict, CandidateInv
<1>3. CASE \E q \in Worker \ {p} : WorkerStep(q)
  BY <1>1, <1>3, OthersStay
<1>4. CASE Crash
  BY <1>4 DEF Crash
<1>5. CASE UNCHANGED workerVars \/ UNCHANGED vars
  BY <1>1, <1>5 DEF workerVars, vars
<1> QED BY <1>2, <1>3, <1>4, <1>5, StepKinds

\* What a deletion takes out of the applied file.
LEMMA DeletedAreSettled ==
  ASSUME TypeInv, TypeInv', Rewrites, VersionInv, VersionInv', CandidateInv, [Next]_vars,
         NEW p \in Worker, DeleteApplied(p) \/ CleanupFails(p)
  PROVE  /\ UNCHANGED <<pending, denied, submitted>>
         /\ \A c \in applied \ applied' : Settled(c)'
<1>1. UNCHANGED <<pending, denied, submitted>>
  BY DEF DeleteApplied, CleanupFails, answerVars
<1>2. applied' = applied \/ (pc[p] = "compact.delete" /\ applied' = Uncompacted(p))
  BY DEF DeleteApplied, CleanupFails
<1>3. ASSUME NEW c \in applied \ applied' PROVE Settled(c)'
  <2>1. pc[p] = "compact.delete" /\ c \in job[p].batch
    BY <1>2, <1>3 DEF Uncompacted
  <2>2. Settled(c) /\ c \in CandId /\ copies[c] # None
    BY <2>1 DEF CandidateInv, BatchSettled, TypeInv, TypeOK, Created, Job
  <2> QED BY <2>2, SettledStays
<1> QED BY <1>1, <1>3

\* A step takes a candidate out of all the files only if it is settled,
LEMMA NoneDisappears ==
  ASSUME TypeInv, TypeInv', Rewrites, VersionInv, VersionInv', CandidateInv, [Next]_vars,
         NEW c \in pending \cup applied \cup denied
  PROVE  c \in pending' \cup applied' \cup denied' \/ Settled(c)'
<1>1. ASSUME NEW p \in Worker, FileStep(p)
      PROVE  c \in pending' \cup applied' \cup denied' \/ Settled(c)'
  <2>1. CASE SubmitAppend(p) \/ SubmitFails(p)
    BY <2>1 DEF SubmitAppend, SubmitFails, WritePending
  <2>2. CASE MoveApplied(p)
    BY <2>2 DEF MoveApplied, CandidateInv, Stages
  <2>3. CASE MoveDenied(p)
    BY <2>3 DEF MoveDenied, CandidateInv, Stages, Decided
  <2>4. CASE RemovePending(p)
    BY <2>4 DEF RemovePending, CandidateInv, Stages
  <2>5. CASE MoveFails(p)
    BY <2>5 DEF MoveFails, CandidateInv, Stages
  <2>6. CASE DeleteApplied(p) \/ CleanupFails(p)
    BY <2>6, DeletedAreSettled
  <2> QED BY <1>1, <2>1, <2>2, <2>3, <2>4, <2>5, <2>6 DEF FileStep
<1> QED BY <1>1, FileSteps

\* and out of the applied file only if it is settled or pending again.
LEMMA LeavesAppliedSettled ==
  ASSUME TypeInv, TypeInv', Rewrites, VersionInv, VersionInv', CandidateInv, [Next]_vars,
         NEW c \in applied \ applied'
  PROVE  Settled(c)' \/ c \in pending'
<1>1. ASSUME NEW p \in Worker, FileStep(p) PROVE Settled(c)' \/ c \in pending'
  <2>1. CASE SubmitAppend(p) \/ SubmitFails(p) \/ MoveDenied(p) \/ RemovePending(p)
    BY <2>1 DEF SubmitAppend, SubmitFails, MoveDenied, RemovePending
  <2>2. CASE MoveApplied(p)
    BY <2>2 DEF MoveApplied, CandidateInv, Stages
  <2>3. CASE MoveFails(p)
    BY <2>3 DEF MoveFails, CandidateInv, Stages
  <2>4. CASE DeleteApplied(p) \/ CleanupFails(p)
    BY <2>4, DeletedAreSettled
  <2> QED BY <1>1, <2>1, <2>2, <2>3, <2>4 DEF FileStep
<1> QED BY <1>1, FileSteps

\* A candidate is counted as submitted in the step that writes it.
LEMMA SubmittedComes ==
  ASSUME TypeInv, [Next]_vars, NEW c \in submitted'
  PROVE  c \in submitted \/ (c \in pending' /\ copies'[c] # None)
<1>1. ASSUME NEW p \in Worker, FileStep(p)
      PROVE  c \in submitted \/ (c \in pending' /\ copies'[c] # None)
  <2>1. CASE SubmitAppend(p)
    <3>1. PICK d \in CandId : WritePending(p, d) /\ submitted' = submitted \cup {d}
      BY <2>1 DEF SubmitAppend
    <3>2. job[p].copy # None
      BY <2>1 DEF SubmitAppend, TypeInv, Carried
    <3> QED BY <3>1, <3>2 DEF WritePending, TypeInv, TypeOK
  <2>2. CASE ~ SubmitAppend(p)
    BY <1>1, <2>2 DEF FileStep, SubmitFails, MoveApplied, MoveDenied, RemovePending, MoveFails,
                      DeleteApplied, CleanupFails, answerVars
  <2> QED BY <2>1, <2>2
<1> QED BY <1>1, FileSteps

\* No step takes the last trace of a submitted candidate.
LEMMA StepConserved ==
  ASSUME TypeInv, TypeInv', Rewrites, VersionInv, VersionInv', CandidateInv, [Next]_vars
  PROVE  SubmittedExist' /\ CandidateConserved'
<1>1. ASSUME NEW c \in submitted' PROVE copies'[c] # None
  BY <1>1, SubmittedComes, CandidatesStay DEF CandidateInv, SubmittedExist, TypeInv, TypeOK
<1>2. ASSUME NEW c \in submitted' PROVE c \in pending' \cup applied' \cup denied' \/ Settled(c)'
  <2>1. CASE c \in submitted /\ Settled(c)
    BY <2>1, SettledStays DEF CandidateInv, SubmittedExist, TypeInv, TypeOK
  <2>2. CASE c \in pending \cup applied \cup denied
    BY <2>2, NoneDisappears
  <2> QED BY <1>2, <2>1, <2>2, SubmittedComes DEF CandidateInv, CandidateConserved
<1> QED BY <1>1, <1>2 DEF SubmittedExist, CandidateConserved

\* The first state, where there is no candidate.
LEMMA InitCandidate == Init => CandidateInv
  BY DEF Init, CandidateInv, Batches, ValidResolution, NoJob, Stages, BatchSettled, SubmittedExist,
         CandidateConserved

\* In every state the files and what the running resolves and compactions
\* carry agree on every candidate (store.go, MoveCandidates; compact.go).
THEOREM CandidateAlways == Spec => []CandidateInv
<1>1. TypeInv /\ TypeInv' /\ JournalInv /\ HistoryInv /\ HistoryInv' /\ CandidateInv /\ [Next]_vars
        => CandidateInv'
  BY StepBatches, StepStages, StepBatchSettled, StepConserved DEF CandidateInv, JournalInv, HistoryInv
<1> QED BY <1>1, InitCandidate, TypeInvAlways, JournalAlways, HistoryAlways, PTL DEF Spec

\* A candidate whose submission was answered does not disappear, whatever
\* resolves and compactions fail half-way, and wherever the process is killed: it
\* is in a file, or the journal is past the version it was made from (store.go,
\* MoveCandidates and DeleteApplied; compact.go steps 5 and 6).
THEOREM CandidatesAreConserved == Spec => []CandidateConserved
<1>1. CandidateInv => CandidateConserved
  BY DEF CandidateInv
<1> QED BY <1>1, CandidateAlways, PTL

\* No compaction deletes a candidate whose outcome is not in the journal, though
\* it read the applied file before it held any lock and other compactions and
\* resolves ran since (compact.go steps 1 and 6; store.go, DeleteApplied).
THEOREM AppliedStaysUntilSettled == Spec => AppliedUntilSettled
<1>1. /\ TypeInv /\ TypeInv' /\ JournalInv /\ HistoryInv /\ HistoryInv' /\ CandidateInv /\ [Next]_vars
      => [\A c \in applied \ applied' : Settled(c)' \/ c \in pending']_vars
  BY LeavesAppliedSettled DEF JournalInv, HistoryInv
<1> QED BY <1>1, CandidateAlways, TypeInvAlways, JournalAlways, HistoryAlways, PTL
        DEF Spec, AppliedUntilSettled

-----------------------------------------------------------------------------
\* The index row.

\* From the rename to the end of a compaction, its lines are the journal's.
LinesCurrent ==
  \A p \in Worker :
    pc[p] \in {"compact.evict", "compact.delete", "compact.rebuild", "compact.audit"} =>
      job[p].lines = journal

\* Nothing writes the journal between the rename and the end.
LEMMA StepLinesCurrent ==
  ASSUME TypeInv, Rewrites, LinesCurrent, [Next]_vars
  PROVE  LinesCurrent'
<1> SUFFICES ASSUME NEW p \in Worker,
                    pc'[p] \in {"compact.evict", "compact.delete", "compact.rebuild", "compact.audit"}
             PROVE  job'[p].lines = journal'
  BY DEF LinesCurrent
<1>1. CASE /\ pc[p] \in {"compact.evict", "compact.delete", "compact.rebuild", "compact.audit"}
           /\ job'[p].lines = job[p].lines
  <2>1. CASE UNCHANGED journal
    BY <1>1, <2>1 DEF LinesCurrent
  <2>2. ASSUME NEW q \in Worker, AppendWrite(q) PROVE FALSE
    BY <1>1, <2>2, CompactionIsAlone DEF TypeInv, AppendWrite, AppendHolding, CompactHolding
  <2>3. ASSUME NEW q \in Worker, RenameTmp(q) PROVE FALSE
    BY <1>1, <2>3, CompactionIsAlone DEF TypeInv, RenameTmp, CompactHolding
  <2> QED BY <2>1, <2>2, <2>3, JournalSteps
<1>2. CASE WorkerStep(p)
  <2>1. CASE RenameTmp(p)
    BY <2>1 DEF RenameTmp, Rewrites
  <2>2. CASE Evict(p) \/ ((DeleteApplied(p) \/ CleanupFails(p)) /\ pc[p] = "compact.delete")
    BY <1>1, <2>2 DEF Evict, DeleteApplied, CleanupFails
  <2>3. CASE (RebuildIndex(p) \/ CleanupFails(p)) /\ pc[p] = "compact.rebuild"
    BY <1>1, <2>3 DEF RebuildIndex, CleanupFails
  <2> QED BY <1>2, <2>1, <2>2, <2>3, StepGoes
<1>3. CASE \E q \in Worker \ {p} : WorkerStep(q)
  BY <1>1, <1>3, OthersStay
<1>4. CASE Crash
  BY <1>4 DEF Crash
<1>5. CASE UNCHANGED workerVars \/ UNCHANGED vars
  BY <1>1, <1>5 DEF workerVars, vars
<1> QED BY <1>2, <1>3, <1>4, <1>5, StepKinds

\* The row and the answers change in these steps only; what an append adds to
\* the row is its record, and all that was there stays.
LEMMA RowSteps ==
  ASSUME [Next]_vars
  PROVE  \/ UNCHANGED <<row, answer>>
         \/ \E p \in Worker : InsertCommit(p) /\ UNCHANGED journal
         \/ \E p \in Worker : /\ InsertConflict(p) \/ InsertFails(p)
                             /\ AcceptedOnly(p) /\ UNCHANGED journal
         \/ \E p \in Worker : RebuildIndex(p) /\ UNCHANGED <<journal, answer>>
<1>1. ASSUME NEW p \in Worker, AppendProgress(p) \/ AppendFault(p)
      PROVE  \/ UNCHANGED <<row, answer>>
             \/ InsertCommit(p) /\ UNCHANGED journal
             \/ /\ InsertConflict(p) \/ InsertFails(p)
                /\ AcceptedOnly(p) /\ UNCHANGED journal
  <2>1. CASE AppendLock(p) \/ AppendWrite(p) \/ AppendWriteFails(p) \/ InsertBegin(p)
    BY <2>1 DEF AppendLock, AppendWrite, AppendWriteFails, InsertBegin, answerVars
  <2>2. CASE InsertCommit(p)
    BY <2>2 DEF InsertCommit, journalVars
  <2>3. CASE InsertConflict(p) \/ InsertFails(p)
    BY <2>3 DEF InsertConflict, InsertFails, AcceptedOnly, journalVars
  <2> QED BY <1>1, <2>1, <2>2, <2>3 DEF AppendProgress, AppendFault
<1>2. ASSUME NEW p \in Worker, CandidateProgress(p) \/ CandidateFault(p)
      PROVE  UNCHANGED <<row, answer>>
  BY <1>2, CandidateLeaves
<1>3. ASSUME NEW p \in Worker, CompactProgress(p) \/ CompactFault(p)
      PROVE  UNCHANGED <<row, answer>> \/ (RebuildIndex(p) /\ UNCHANGED <<journal, answer>>)
  <2>1. UNCHANGED answer
    BY <1>3, CompactionLeaves DEF answerVars
  <2>2. UNCHANGED row \/ (RebuildIndex(p) /\ UNCHANGED journal)
    BY <1>3 DEF CompactProgress, CompactFault, CompactList, CompactListFails, CompactLockJournal,
         CompactLockCandidates, CompactCancel, CompactRead, CompactUnreadable, WriteTmp, RenameTmp,
         Evict, RewriteFails, DeleteApplied, RebuildIndex, AuditAppend, CleanupFails, journalVars
  <2> QED BY <2>1, <2>2
<1>4. ASSUME NEW p \in Worker, LockFails(p) \/ \E k \in Kind : Arrive(p, k)
      PROVE  UNCHANGED <<row, answer>>
  BY <1>4 DEF LockFails, Arrive, answerVars
<1>5. CASE Crash \/ Restart \/ RecoveryFails \/ UNCHANGED vars
  BY <1>5 DEF Crash, Restart, RecoveryFails, vars, answerVars
<1> QED BY <1>1, <1>2, <1>3, <1>4, <1>5 DEF Next, Progress, Failure

\* What a committed insert leaves in the row.
LEMMA CommitKeepsRow ==
  ASSUME TypeInv, NEW p \in Worker, InsertCommit(p)
  PROVE  /\ row \subseteq row'
         /\ [id |-> job[p].rec, by |-> <<>>] \in row'
         /\ \A r \in RecId : r # job[p].rec => answer'[r] = answer[r]
  BY DEF InsertCommit, SnapshotCurrent, Content, TypeInv, TypeOK

\* A line of the journal after a step that has no replacement: a new one, or one that was there.
LEMMA UnreplacedLines ==
  ASSUME TypeInv, JournalInv, HistoryInv, [Next]_vars, NEW k \in DOMAIN journal', journal'[k].by = <<>>
  PROVE  \/ k \in DOMAIN journal /\ journal'[k] = journal[k]
         \/ \E r \in RecId : FreshRecord(r) /\ journal'[k].id = r
<1>1. CASE UNCHANGED journal
  BY <1>1
<1>2. CASE \E p \in Worker : AppendWrite(p)
  <2>1. PICK p \in Worker : AppendWrite(p)
    BY <1>2
  <2>2. ASSUME NEW r \in RecId, FreshRecord(r),
               journal' = Append(journal, [id |-> r, rev |-> 1, by |-> <<>>])
        PROVE  \/ k \in DOMAIN journal /\ journal'[k] = journal[k]
               \/ FreshRecord(r) /\ journal'[k].id = r
    BY <2>2, AppendedLine
  <2> QED BY <1>1, <2>1, <2>2, AppendAddsNewRecord
<1>3. CASE \E p \in Worker : RenameTmp(p)
  <2>1. PICK p \in Worker : RenameTmp(p)
    BY <1>3
  <2>2. k \in DOMAIN journal /\ GrowsBy(journal[k], journal'[k], job[p].batch, copies)
    BY <2>1, RewriteBuildsOnVersions
  <2>3. \A c : Append(journal[k].by, c) # <<>>
    <3>1. journal[k] \in Record
      BY <2>2 DEF TypeInv, TypeOK
    <3>2. journal[k].by \in Seq(CandId)
      BY <3>1 DEF Record
    <3> QED BY <3>2
  <2> QED BY <2>2, <2>3 DEF GrowsBy
<1> QED BY <1>1, <1>2, <1>3, JournalSteps

\* No step takes a record that was announced out of the index row.
LEMMA StepCreated ==
  ASSUME TypeInv, TypeInv', JournalInv, HistoryInv, LinesCurrent, CreatedIsIndexed, [Next]_vars
  PROVE  CreatedIsIndexed'
<1> SUFFICES ASSUME NEW k \in DOMAIN journal', answer'[journal'[k].id] = "created", journal'[k].by = <<>>
             PROVE  Content(journal'[k]) \in row'
  BY DEF CreatedIsIndexed
<1>1. CASE UNCHANGED <<row, answer>>
  BY <1>1, UnreplacedLines DEF CreatedIsIndexed, FreshRecord
<1>2. CASE \E p \in Worker : InsertCommit(p) /\ UNCHANGED journal
  <2>1. PICK p \in Worker : InsertCommit(p) /\ UNCHANGED journal
    BY <1>2
  <2>2. journal[k].id \in RecId
    <3>1. journal[k] \in Record
      BY <2>1 DEF TypeInv, TypeOK
    <3> QED BY <3>1 DEF Record
  <2>3. CASE journal[k].id = job[p].rec
    BY <2>1, <2>3, CommitKeepsRow DEF Content
  <2>4. CASE journal[k].id # job[p].rec
    BY <2>1, <2>2, <2>4, CommitKeepsRow DEF CreatedIsIndexed
  <2> QED BY <2>3, <2>4
<1>3. CASE \E p \in Worker : /\ InsertConflict(p) \/ InsertFails(p)
                            /\ AcceptedOnly(p) /\ UNCHANGED journal
  <2>1. PICK p \in Worker : AcceptedOnly(p) /\ UNCHANGED journal
    BY <1>3
  <2>2. answer[journal[k].id] = "created" /\ UNCHANGED row
    BY <2>1 DEF AcceptedOnly, TypeInv, TypeOK
  <2> QED BY <2>1, <2>2 DEF CreatedIsIndexed
<1>4. CASE \E p \in Worker : RebuildIndex(p) /\ UNCHANGED <<journal, answer>>
  BY <1>4 DEF RebuildIndex, LinesCurrent, Contents
<1> QED BY <1>1, <1>2, <1>3, <1>4, RowSteps

-----------------------------------------------------------------------------
\* As long as no step has failed and the process has not died, candidates are
\* decided once and every replacement reaches the index.

Undisturbed == faults = 0 /\ crashes = 0

\* A step after which nothing has failed yet is not a failure.
LEMMA UndisturbedStep ==
  ASSUME TypeInv, [Next]_vars, Undisturbed'
  PROVE  /\ Undisturbed
         /\ ~ Fault /\ ~ Crash
         /\ \A p \in Worker : ~ Failure(p)
<1>1. faults \in Nat /\ crashes \in Nat
  BY DEF TypeInv, TypeOK
<1>2. ~ Fault /\ ~ Crash
  BY <1>1 DEF Fault, Crash, Undisturbed
<1>3. ASSUME NEW p \in Worker, Failure(p) PROVE FALSE
  BY <1>2, <1>3 DEF Failure, LockFails, AppendFault, AppendWriteFails, InsertFails, CandidateFault,
       SubmitFails, MoveFails, CompactFault, CompactListFails, CompactCancel, RewriteFails, CleanupFails
<1>4. UNCHANGED <<faults, crashes>>
  <2>1. ASSUME NEW p \in Worker, AppendProgress(p) PROVE UNCHANGED boundVars
    BY <2>1 DEF AppendProgress, AppendLock, AppendWrite, InsertBegin, InsertCommit, InsertConflict
  <2>2. ASSUME NEW p \in Worker, CandidateProgress(p) PROVE UNCHANGED boundVars
    BY <2>2 DEF CandidateProgress, CandidateLock, SubmitRead, SubmitRejected, SubmitAppend, ListRead,
         ResolveRead, ResolveRejected, MoveApplied, MoveDenied, RemovePending
  <2>3. ASSUME NEW p \in Worker, CompactProgress(p) PROVE UNCHANGED boundVars
    BY <2>3 DEF CompactProgress, CompactList, CompactLockJournal, CompactLockCandidates, CompactRead,
         CompactUnreadable, WriteTmp, RenameTmp, Evict, DeleteApplied, RebuildIndex, AuditAppend
  <2>4. ASSUME NEW p \in Worker, NEW k \in Kind, Arrive(p, k) PROVE UNCHANGED <<faults, crashes>>
    BY <2>4 DEF Arrive
  <2>5. CASE Restart \/ UNCHANGED vars
    BY <2>5 DEF Restart, vars, boundVars
  <2>6. ~ RecoveryFails
    BY <1>2 DEF RecoveryFails
  <2> QED BY <1>2, <1>3, <2>1, <2>2, <2>3, <2>4, <2>5, <2>6 DEF Next, Progress, boundVars
<1> QED BY <1>2, <1>3, <1>4 DEF Undisturbed

\* Every version that candidates made is in the row but while a rewrite runs.
IndexComplete ==
  Undisturbed /\ ~ RewritingJournal =>
    \A k \in DOMAIN journal : journal[k].by # <<>> => Content(journal[k]) \in row

\* Without a disturbance, no version is missing from the row once a compaction is over.
LEMMA StepIndexComplete ==
  ASSUME TypeInv, TypeInv', JournalInv, HistoryInv, LinesCurrent, IndexComplete, [Next]_vars
  PROVE  IndexComplete'
<1> SUFFICES ASSUME Undisturbed', ~ RewritingJournal',
                    NEW k \in DOMAIN journal', journal'[k].by # <<>>
             PROVE  Content(journal'[k]) \in row'
  BY DEF IndexComplete
<1>1. Undisturbed /\ ~ Fault /\ ~ Crash /\ \A p \in Worker : ~ Failure(p)
  BY UndisturbedStep
<1>2. CASE \E p \in Worker : RebuildIndex(p) /\ UNCHANGED <<journal, answer>>
  BY <1>2 DEF RebuildIndex, LinesCurrent, Contents
<1>3. CASE ~ \E p \in Worker : RebuildIndex(p) /\ UNCHANGED <<journal, answer>>
  <2>1. ASSUME NEW p \in Worker, RenameTmp(p) PROVE FALSE
    BY <2>1 DEF RenameTmp, RewritingJournal, Goto, TypeInv, TypeOK
  <2>2. ~ RewritingJournal
    <3>1. SUFFICES ASSUME NEW p \in Worker, pc[p] \in {"compact.evict", "compact.delete", "compact.rebuild"},
                          pc'[p] \notin {"compact.evict", "compact.delete", "compact.rebuild"}
                   PROVE  FALSE
      BY DEF RewritingJournal
    <3>2. CASE WorkerStep(p)
      <4>1. CompactProgress(p)
        <5>1. ~ AppendProgress(p)
          BY <3>1 DEF AppendProgress, AppendLock, AppendWrite, InsertBegin, InsertCommit, InsertConflict
        <5>2. ~ CandidateProgress(p)
          BY <3>1 DEF CandidateProgress, CandidateLock, SubmitRead, SubmitRejected, SubmitAppend,
               ListRead, ResolveRead, ResolveRejected, MoveApplied, MoveDenied, RemovePending
        <5> QED BY <1>1, <3>1, <3>2, <5>1, <5>2 DEF WorkerStep, Progress, Arrive
      <4>2. CASE Evict(p) \/ DeleteApplied(p)
        BY <3>1, <4>2 DEF Evict, DeleteApplied, Goto, TypeInv, TypeOK
      <4>3. CASE RebuildIndex(p)
        BY <1>3, <4>3 DEF RebuildIndex, journalVars, answerVars
      <4> QED BY <3>1, <4>1, <4>2, <4>3 DEF CompactProgress, CompactList, CompactLockJournal,
           CompactLockCandidates, CompactRead, CompactUnreadable, WriteTmp, RenameTmp, AuditAppend
    <3>3. CASE \E q \in Worker \ {p} : WorkerStep(q)
      BY <3>1, <3>3, OthersStay
    <3>4. CASE UNCHANGED workerVars \/ UNCHANGED vars
      BY <3>1, <3>4 DEF workerVars, vars
    <3> QED BY <1>1, <3>2, <3>3, <3>4, StepKinds
  <2>3. k \in DOMAIN journal /\ journal'[k] = journal[k]
    <3>1. CASE UNCHANGED journal
      BY <3>1
    <3>2. CASE \E p \in Worker : AppendWrite(p)
      <4>1. PICK p \in Worker : AppendWrite(p)
        BY <3>2
      <4>2. ASSUME NEW r \in RecId, journal' = Append(journal, [id |-> r, rev |-> 1, by |-> <<>>])
            PROVE  k \in DOMAIN journal /\ journal'[k] = journal[k]
        <5>1. /\ DOMAIN journal' = DOMAIN journal \cup {Len(journal) + 1}
              /\ \A j \in DOMAIN journal : journal'[j] = journal[j]
              /\ journal'[Len(journal) + 1].by = <<>>
          BY <4>2, AppendedLine
        <5> QED BY <5>1
      <4> QED BY <3>1, <4>1, <4>2, AppendAddsNewRecord
    <3> QED BY <2>1, <3>1, <3>2, JournalSteps
  <2>4. Content(journal[k]) \in row
    BY <1>1, <2>2, <2>3 DEF IndexComplete
  <2>5. row \subseteq row'
    BY <1>3, RowSteps, CommitKeepsRow DEF AcceptedOnly
  <2> QED BY <2>3, <2>4, <2>5
<1> QED BY <1>2, <1>3

-----------------------------------------------------------------------------
\* Decisions.  A candidate is taken from the moment it is applied: it is in the
\* applied file, with a compaction, or in the history of its record.

Carrying == {"compact.journal", "compact.candidate"} \cup CompactHolding
Resolving == {"resolve.applied", "resolve.denied", "resolve.pending"}

InHistory(c) == \E k \in DOMAIN journal : \E i \in DOMAIN journal[k].by : journal[k].by[i] = c

Taken(c) ==
  \/ c \in applied
  \/ \E p \in Worker : pc[p] \in Carrying /\ c \in job[p].batch
  \/ InHistory(c)

\* A taken candidate is not denied, nor about to be; it is still pending only
\* while the resolve that took it has not finished.
TakenOnce ==
  \A c \in CandId :
    Taken(c) =>
      /\ copies[c] # None
      /\ c \notin denied
      /\ \A p \in Worker : pc[p] \in Resolving => c \notin job[p].deny
      /\ c \in pending =>
           \E p \in Worker : pc[p] \in {"resolve.denied", "resolve.pending"} /\ c \in job[p].batch

\* A denied candidate exists, and is pending only until the resolve removes that file.
DeniedOnce ==
  /\ \A c \in denied : copies[c] # None
  /\ \A p \in Worker : \A c \in job[p].deny : copies[c] # None
  /\ \A c \in pending \cap denied : \E p \in Worker : pc[p] = "resolve.pending"

Decisions == Undisturbed => TakenOnce /\ DeniedOnce

\* A compaction carries what it read of the applied file, and nothing else.
LEMMA CarryingBegins ==
  ASSUME TypeInv, NEW p \in Worker, WorkerStep(p), pc'[p] \in Carrying
  PROVE  \/ job'[p].batch = job[p].batch /\ pc[p] \in Carrying
         \/ job'[p].batch = applied
<1>1. CASE CompactList(p)
  <2>1. ~ Return(p)
    BY KeepIsLocal DEF Return, Goto, Carrying, CompactHolding, TypeInv, TypeOK
  <2>2. job'[p] = [job[p] EXCEPT !.batch = applied]
    BY <1>1, <2>1, KeepIsLocal DEF CompactList
  <2> QED BY <2>2 DEF TypeInv, TypeOK, Job
<1>2. CASE ~ CompactList(p)
  <2>1. pc[p] \in Carrying
    BY <1>2, StepGoes DEF Carrying, CompactHolding, CompactLockJournal, CompactLockCandidates,
         CompactRead, WriteTmp, RenameTmp, Evict
  <2>2. ~ ResolveRead(p)
    BY <2>1 DEF ResolveRead, Carrying, CompactHolding
  <2>3. pc'[p] # "idle"
    BY DEF Carrying, CompactHolding
  <2> QED BY <1>2, <2>1, <2>2, <2>3, JobComes
<1> QED BY <1>1, <1>2

\* The history of records has only what compactions carried.
LEMMA HistoryComes ==
  ASSUME TypeInv, JournalInv, HistoryInv, [Next]_vars, NEW c, InHistory(c)'
  PROVE  Taken(c)
<1>1. PICK k \in DOMAIN journal' : \E i \in DOMAIN journal'[k].by : journal'[k].by[i] = c
  BY DEF InHistory
<1>2. CASE k \in DOMAIN journal /\ journal'[k].by = journal[k].by
  BY <1>1, <1>2 DEF InHistory, Taken
<1>3. CASE \E p \in Worker : AppendWrite(p)
  <2>1. PICK p \in Worker : AppendWrite(p)
    BY <1>3
  <2>2. ASSUME NEW r \in RecId, journal' = Append(journal, [id |-> r, rev |-> 1, by |-> <<>>])
        PROVE  k \in DOMAIN journal /\ journal'[k] = journal[k]
    <3>1. /\ DOMAIN journal' = DOMAIN journal \cup {Len(journal) + 1}
          /\ \A j \in DOMAIN journal : journal'[j] = journal[j]
          /\ journal'[Len(journal) + 1].by = <<>>
      BY <2>2, AppendedLine
    <3> QED BY <1>1, <3>1
  <2> QED BY <1>2, <2>1, <2>2, AppendAddsNewRecord
<1>4. CASE \E p \in Worker : RenameTmp(p)
  <2>1. PICK p \in Worker : RenameTmp(p)
    BY <1>4
  <2>2. k \in DOMAIN journal /\ GrowsBy(journal[k], journal'[k], job[p].batch, copies)
    BY <2>1, RewriteBuildsOnVersions
  <2>3. ASSUME NEW d \in job[p].batch, journal'[k].by = Append(journal[k].by, d)
        PROVE  c = d \/ InHistory(c)
    <3>1. journal[k] \in Record
      BY <2>2 DEF TypeInv, TypeOK
    <3>2. journal[k].by \in Seq(CandId)
      BY <3>1 DEF Record
    <3> DEFINE by == journal[k].by
               more == Append(by, d)
    <3>3. /\ DOMAIN more = 1..(Len(by) + 1) /\ DOMAIN by = 1..Len(by) /\ Len(by) \in Nat
          /\ more[Len(by) + 1] = d /\ \A i \in 1..Len(by) : more[i] = by[i]
      BY <3>2
    <3>4. \E i \in DOMAIN more : more[i] = c
      BY <1>1, <2>3
    <3>5. c = d \/ \E i \in DOMAIN by : by[i] = c
      <4> HIDE DEF by, more
      <4> QED BY <3>3, <3>4
    <3> QED BY <2>2, <3>5 DEF InHistory
  <2>4. pc[p] \in Carrying
    BY <2>1 DEF RenameTmp, Carrying, CompactHolding
  <2> QED BY <1>2, <2>2, <2>3, <2>4 DEF GrowsBy, Taken
<1> QED BY <1>2, <1>3, <1>4, JournalSteps

\* A candidate becomes taken by the rename of the applied file only.
LEMMA TakenComes ==
  ASSUME TypeInv, JournalInv, HistoryInv, [Next]_vars, NEW c, Taken(c)'
  PROVE  Taken(c) \/ \E p \in Worker : MoveApplied(p) /\ c \in job[p].batch
<1>1. CASE c \in applied'
  BY <1>1, AppliedComes DEF Taken
<1>2. CASE \E p \in Worker : pc'[p] \in Carrying /\ c \in job'[p].batch
  <2>1. PICK p \in Worker : pc'[p] \in Carrying /\ c \in job'[p].batch
    BY <1>2
  <2>2. CASE WorkerStep(p)
    BY <2>1, <2>2, CarryingBegins DEF Taken
  <2>3. CASE \E q \in Worker \ {p} : WorkerStep(q)
    BY <2>1, <2>3, OthersStay DEF Taken
  <2>4. CASE Crash
    BY <2>1, <2>4 DEF Crash, NoJob
  <2>5. CASE UNCHANGED workerVars \/ UNCHANGED vars
    BY <2>1, <2>5 DEF workerVars, vars, Taken
  <2> QED BY <2>2, <2>3, <2>4, <2>5, StepKinds
<1>3. CASE InHistory(c)'
  BY <1>3, HistoryComes
<1> QED BY <1>1, <1>2, <1>3 DEF Taken

\* The steps of the candidate files when nothing fails.
LEMMA UndisturbedFiles ==
  ASSUME TypeInv, [Next]_vars, Undisturbed'
  PROVE  /\ UNCHANGED denied \/ \E p \in Worker : MoveDenied(p)
         /\ \/ pending' \subseteq pending
            \/ \E p \in Worker, c \in CandId : WritePending(p, c) /\ UNCHANGED denied
<1>1. ASSUME NEW p \in Worker, FileStep(p)
      PROVE  /\ UNCHANGED denied \/ MoveDenied(p)
             /\ \/ pending' \subseteq pending
                \/ \E c \in CandId : WritePending(p, c) /\ UNCHANGED denied
  <2>1. ~ SubmitFails(p) /\ ~ MoveFails(p) /\ ~ CleanupFails(p)
    BY UndisturbedStep DEF SubmitFails, MoveFails, CleanupFails
  <2> QED BY <1>1, <2>1 DEF FileStep, SubmitAppend, MoveApplied, MoveDenied, RemovePending, DeleteApplied
<1> QED BY <1>1, FileSteps

\* A resolve that nothing disturbs goes on with what it carries, until pending is empty.
LEMMA ResolveGoesOn ==
  ASSUME TypeInv, [Next]_vars, Undisturbed', NEW p \in Worker,
         pc[p] \in {"resolve.denied", "resolve.pending"}
  PROVE  \/ pending' = {}
         \/ /\ job'[p].batch = job[p].batch
            /\ pc'[p] = "resolve.pending" \/ (pc'[p] = pc[p] /\ ~ MoveDenied(p))
<1>1. ~ Crash /\ ~ Failure(p)
  BY UndisturbedStep
<1>2. CASE WorkerStep(p)
  <2>1. ~ AppendProgress(p)
    BY DEF AppendProgress, AppendLock, AppendWrite, InsertBegin, InsertCommit, InsertConflict
  <2>2. ~ CompactProgress(p)
    BY DEF CompactProgress, CompactList, CompactLockJournal, CompactLockCandidates, CompactRead,
         CompactUnreadable, WriteTmp, RenameTmp, Evict, DeleteApplied, RebuildIndex, AuditAppend
  <2>3. MoveDenied(p) \/ RemovePending(p)
    BY <1>1, <1>2, <2>1, <2>2 DEF WorkerStep, Progress, Arrive, CandidateProgress, CandidateLock,
         SubmitRead, SubmitRejected, SubmitAppend, ListRead, ResolveRead, ResolveRejected, MoveApplied
  <2> QED BY <2>3 DEF MoveDenied, RemovePending, Goto, TypeInv, TypeOK
<1>3. CASE \E q \in Worker \ {p} : WorkerStep(q)
  <2>1. PICK q \in Worker \ {p} : WorkerStep(q)
    BY <1>3
  <2>2. pc'[p] = pc[p] /\ job'[p] = job[p]
    BY <2>1, OthersStay
  <2>3. CASE MoveDenied(p)
    BY <2>2, <2>3 DEF MoveDenied, Goto, TypeInv, TypeOK
  <2> QED BY <2>2, <2>3
<1>4. CASE UNCHANGED workerVars \/ UNCHANGED vars
  <2>1. pc' = pc /\ job' = job
    BY <1>4 DEF workerVars, vars
  <2>2. ~ MoveDenied(p)
    BY <2>1 DEF MoveDenied, Goto, TypeInv, TypeOK
  <2> QED BY <2>1, <2>2
<1> QED BY <1>1, <1>2, <1>3, <1>4, StepKinds

\* What a handler is about to put into the denied file.
LEMMA DenyComes ==
  ASSUME TypeInv, [Next]_vars, NEW p \in Worker
  PROVE  \/ job'[p].deny = {}
         \/ /\ job'[p].deny = job[p].deny
            /\ pc'[p] \in Resolving => pc[p] \in Resolving
         \/ pc[p] = "resolve.read" /\ job'[p].deny \subseteq denied \cup pending
<1>1. CASE WorkerStep(p)
  <2>1. CASE ResolveRead(p)
    BY <2>1, ResolveDecides DEF NewDenied, ResolveRead
  <2>2. CASE ~ ResolveRead(p)
    <3>1. pc'[p] \in Resolving => pc[p] \in Resolving
      BY <1>1, <2>2, StepGoes DEF Resolving, MoveApplied, MoveDenied
    <3> QED BY <1>1, <2>2, <3>1, JobComes DEF NoJob
  <2> QED BY <2>1, <2>2
<1>2. CASE \E q \in Worker \ {p} : WorkerStep(q)
  BY <1>2, OthersStay
<1>3. CASE Crash
  BY <1>3 DEF Crash, NoJob
<1>4. CASE UNCHANGED workerVars \/ UNCHANGED vars
  BY <1>4 DEF workerVars, vars
<1> QED BY <1>1, <1>2, <1>3, <1>4, StepKinds

\* Without a disturbance, nothing that was denied is decided again.
LEMMA StepDeniedOnce ==
  ASSUME TypeInv, Stages, DeniedOnce, [Next]_vars, Undisturbed'
  PROVE  DeniedOnce'
<1>1. ASSUME NEW c \in denied' PROVE copies'[c] # None
  <2>1. c \in CandId /\ copies[c] # None
    <3>1. CASE c \in denied
      BY <3>1 DEF DeniedOnce, TypeInv, TypeOK
    <3>2. ASSUME NEW p \in Worker, MoveDenied(p) PROVE c \in CandId /\ copies[c] # None
      BY <1>1, <3>2 DEF MoveDenied, DeniedOnce, TypeInv, TypeOK, Job
    <3> QED BY <1>1, <3>1, <3>2, UndisturbedFiles
  <2> QED BY <2>1, CandidatesStay
<1>2. ASSUME NEW p \in Worker, NEW c \in job'[p].deny PROVE copies'[c] # None
  <2>1. c \in CandId /\ copies[c] # None
    BY <1>2, DenyComes DEF DeniedOnce, TypeInv, TypeOK, Created, Job
  <2> QED BY <2>1, CandidatesStay
<1>3. ASSUME NEW c \in pending' \cap denied' PROVE \E p \in Worker : pc'[p] = "resolve.pending"
  <2>1. CASE \E p \in Worker : MoveDenied(p)
    BY <2>1 DEF MoveDenied, Goto, TypeInv, TypeOK
  <2>2. CASE UNCHANGED denied
    <3>1. copies[c] # None
      BY <1>3, <2>2 DEF DeniedOnce
    <3>2. c \in pending
      BY <1>3, <3>1, UndisturbedFiles DEF WritePending
    <3>3. PICK p \in Worker : pc[p] = "resolve.pending"
      BY <1>3, <2>2, <3>2 DEF DeniedOnce
    <3> QED BY <1>3, <3>3, ResolveGoesOn
  <2> QED BY <2>1, <2>2, UndisturbedFiles
<1> QED BY <1>1, <1>2, <1>3 DEF DeniedOnce

\* A candidate that is taken already.
LEMMA StillTakenOnce ==
  ASSUME TypeInv, Stages, TakenOnce, [Next]_vars, Undisturbed', NEW c \in CandId, Taken(c)
  PROVE  /\ copies'[c] # None
         /\ c \notin denied'
         /\ \A p \in Worker : pc'[p] \in Resolving => c \notin job'[p].deny
         /\ c \in pending' =>
              \E p \in Worker : pc'[p] \in {"resolve.denied", "resolve.pending"} /\ c \in job'[p].batch
<1>1. copies'[c] # None
  BY CandidatesStay DEF TakenOnce
<1>2. c \notin denied'
  <2>1. ASSUME NEW p \in Worker, MoveDenied(p) PROVE c \notin denied'
    BY <2>1 DEF MoveDenied, TakenOnce, Resolving
  <2> QED BY <2>1, UndisturbedFiles DEF TakenOnce
<1>3. ASSUME NEW p \in Worker, pc'[p] \in Resolving PROVE c \notin job'[p].deny
  <2>1. CASE job'[p].deny = job[p].deny /\ pc[p] \in Resolving
    BY <2>1 DEF TakenOnce
  <2>2. CASE pc[p] = "resolve.read" /\ job'[p].deny \subseteq denied \cup pending
    <3>1. ASSUME c \in pending PROVE FALSE
      <4>1. PICK q \in Worker : pc[q] \in {"resolve.denied", "resolve.pending"}
        BY <3>1 DEF TakenOnce
      <4>2. q # p /\ pc[p] \in ResolveHolding /\ pc[q] \in ResolveHolding
        BY <2>2, <4>1 DEF ResolveHolding
      <4> QED BY <4>2, ResolveIsAlone DEF TypeInv
    <3> QED BY <2>2, <3>1 DEF TakenOnce
  <2> QED BY <1>3, <2>1, <2>2, DenyComes
<1>4. ASSUME c \in pending'
      PROVE  \E p \in Worker : pc'[p] \in {"resolve.denied", "resolve.pending"} /\ c \in job'[p].batch
  <2>1. c \in pending
    <3>1. copies[c] # None
      BY DEF TakenOnce
    <3> QED BY <1>4, <3>1, UndisturbedFiles DEF WritePending
  <2>2. PICK p \in Worker : pc[p] \in {"resolve.denied", "resolve.pending"} /\ c \in job[p].batch
    BY <2>1 DEF TakenOnce
  <2> QED BY <1>4, <2>2, ResolveGoesOn
<1> QED BY <1>1, <1>2, <1>3, <1>4

\* A candidate that the rename of the applied file takes.
LEMMA NewlyTakenOnce ==
  ASSUME TypeInv, Stages, DeniedOnce, [Next]_vars, Undisturbed',
         NEW p \in Worker, MoveApplied(p), NEW c \in job[p].batch
  PROVE  /\ copies'[c] # None
         /\ c \notin denied'
         /\ \A q \in Worker : pc'[q] \in Resolving => c \notin job'[q].deny
         /\ \E q \in Worker : pc'[q] \in {"resolve.denied", "resolve.pending"} /\ c \in job'[q].batch
<1>1. /\ pc[p] = "resolve.applied" /\ pc'[p] = "resolve.denied"
      /\ UNCHANGED <<job, denied, copies>>
      /\ \A q \in Worker \ {p} : pc'[q] = pc[q]
  BY DEF MoveApplied, Goto, TypeInv, TypeOK
<1>2. \A q \in Worker \ {p} : pc[q] \notin Resolving
  BY <1>1, ResolveIsAlone DEF TypeInv, ResolveHolding, Resolving
<1>3. c \in pending /\ job[p].deny = denied \cup (pending \ job[p].batch)
  BY <1>1 DEF Stages, Decided
<1>4. c \notin denied
  BY <1>1, <1>2, <1>3 DEF DeniedOnce, Resolving
<1>5. copies[c] # None
  BY DEF TypeInv, Created
<1> QED BY <1>1, <1>2, <1>3, <1>4, <1>5

\* Without a disturbance, no candidate is both taken and denied.
LEMMA StepDecisions ==
  ASSUME TypeInv, JournalInv, HistoryInv, Stages, Decisions, [Next]_vars
  PROVE  Decisions'
<1> SUFFICES ASSUME Undisturbed' PROVE TakenOnce' /\ DeniedOnce'
  BY DEF Decisions
<1>1. TakenOnce /\ DeniedOnce
  BY UndisturbedStep DEF Decisions
<1>2. DeniedOnce'
  BY <1>1, StepDeniedOnce
<1>3. ASSUME NEW c \in CandId, Taken(c)'
      PROVE  /\ copies'[c] # None
             /\ c \notin denied'
             /\ \A p \in Worker : pc'[p] \in Resolving => c \notin job'[p].deny
             /\ c \in pending' =>
                  \E p \in Worker : pc'[p] \in {"resolve.denied", "resolve.pending"} /\ c \in job'[p].batch
  <2>1. CASE Taken(c)
    BY <1>1, <2>1, StillTakenOnce
  <2>2. ASSUME NEW p \in Worker, MoveApplied(p), c \in job[p].batch
        PROVE  /\ copies'[c] # None
               /\ c \notin denied'
               /\ \A q \in Worker : pc'[q] \in Resolving => c \notin job'[q].deny
               /\ \E q \in Worker : pc'[q] \in {"resolve.denied", "resolve.pending"} /\ c \in job'[q].batch
    BY <1>1, <2>2, NewlyTakenOnce
  <2> QED BY <1>3, <2>1, <2>2, TakenComes
<1>4. TakenOnce'
  BY <1>3 DEF TakenOnce
<1> QED BY <1>2, <1>4

-----------------------------------------------------------------------------
\* The theorems on decisions and on the index.

OutcomeInv == LinesCurrent /\ CreatedIsIndexed /\ IndexComplete /\ Decisions

\* The first state, where nothing was decided or announced.
LEMMA InitOutcome == Init => OutcomeInv
<1> SUFFICES ASSUME Init PROVE OutcomeInv
  OBVIOUS
<1>1. \A k \in DOMAIN journal : journal[k].by = <<>>
  BY InitialJournalAssumption DEF Init
<1>2. LinesCurrent /\ CreatedIsIndexed /\ IndexComplete
  BY <1>1 DEF Init, LinesCurrent, CreatedIsIndexed, IndexComplete, Contents
<1>3. \A c \in CandId : ~ Taken(c)
  BY <1>1 DEF Init, Taken, InHistory, NoJob
<1>4. Decisions
  BY <1>3 DEF Init, Decisions, TakenOnce, DeniedOnce, NoJob
<1> QED BY <1>2, <1>4 DEF OutcomeInv

\* In every state the journal, the index row and the denied file tell one story
\* of every decision, as far as the faults so far allow (compact.go; index.go).
THEOREM OutcomeAlways == Spec => []OutcomeInv
<1>1. TypeInv /\ TypeInv' /\ JournalInv /\ HistoryInv /\ CandidateInv /\ OutcomeInv /\ [Next]_vars
        => OutcomeInv'
  BY StepLinesCurrent, StepCreated, StepIndexComplete, StepDecisions
     DEF OutcomeInv, CandidateInv, JournalInv
<1> QED BY <1>1, InitOutcome, CandidateAlways, TypeInvAlways, JournalAlways, HistoryAlways, PTL DEF Spec

\* A record answered 201 is in the index row until a candidate replaces it,
\* whatever appends, rewrites, failures and crashes come between (index.go,
\* Insert and RebuildPartition; commandstore/store.go, Append).
THEOREM CreatedRecordsAreIndexed == Spec => []CreatedIsIndexed
<1>1. OutcomeInv => CreatedIsIndexed
  BY DEF OutcomeInv
<1> QED BY <1>1, OutcomeAlways, PTL

\* Until a step fails or the process dies, no candidate is seen in two files:
\* the three renames of a resolve take effect as one (store.go, MoveCandidates).
THEOREM ResolvesAreAtomic == Spec => [](Undisturbed => ResolveAtomic)
<1>1. TypeInv /\ OutcomeInv => (Undisturbed => ResolveAtomic)
  <2> SUFFICES ASSUME TypeInv, OutcomeInv, Undisturbed, clock.exclusive = {}
               PROVE  pending \cap (applied \cup denied) = {} /\ applied \cap denied = {}
    BY DEF ResolveAtomic
  <2>1. \A p \in Worker : pc[p] \notin ResolveHolding
    BY DEF TypeInv, LockInv, LockDiscipline
  <2>2. TakenOnce /\ DeniedOnce
    BY DEF OutcomeInv, Decisions
  <2>3. \A c \in applied : c \in CandId /\ Taken(c)
    BY DEF Taken, TypeInv, TypeOK
  <2> QED BY <2>1, <2>2, <2>3 DEF TakenOnce, DeniedOnce, ResolveHolding
<1> QED BY <1>1, OutcomeAlways, TypeInvAlways, PTL

\* Until a step fails or the process dies, a candidate in the history of a record
\* was not denied: no compaction uses what a resolve decided the other way
\* (store.go, MoveCandidates; compact.go steps 1 and 5).
THEOREM DeniedStayDenied == Spec => [](Undisturbed => DeniedNeverApplied)
<1>1. TypeInv /\ OutcomeInv => (Undisturbed => DeniedNeverApplied)
  BY DEF OutcomeInv, Decisions, TakenOnce, Taken, InHistory, DeniedNeverApplied, TypeInv, TypeOK
<1> QED BY <1>1, OutcomeAlways, TypeInvAlways, PTL

\* Until a step fails or the process dies, every replacement is in the index row
\* when its compaction is over, so the next one has nothing to repair (compact.go
\* step 7; index.go, Insert and RebuildPartition).
THEOREM ReplacementsAreIndexed == Spec => [](Undisturbed => IndexRepairable)
<1>1. OutcomeInv => (Undisturbed => IndexRepairable)
  BY DEF OutcomeInv, IndexComplete, IndexRepairable
<1> QED BY <1>1, OutcomeAlways, PTL

-----------------------------------------------------------------------------
\* The audit.

\* A compaction that has planned its rewrite counts the candidates that will take effect.
CountKept ==
  \A p \in Worker : pc[p] \in {"compact.tmp", "compact.rename"} =>
    job[p].count = AppliedCount(journal, job[p].batch, copies)

\* From its rename to its audit event, there is room in the journal for its count.
CountDue ==
  \A p \in Worker : pc[p] \in {"compact.evict", "compact.delete", "compact.rebuild", "compact.audit"} =>
    audit + job[p].count <= Cardinality(Replacements)

AuditInv == CountKept /\ CountDue /\ AuditCountsReplacements

\* The replacements that a journal shows are finitely many.
LEMMA ReplacementsFinite ==
  ASSUME journal \in Seq(Record)
  PROVE  IsFiniteSet(Replacements) /\ Cardinality(Replacements) \in Nat
<1> DEFINE of == [k \in DOMAIN journal |-> {<<k, i>> : i \in DOMAIN journal[k].by}]
           all == {{<<k, i>> : i \in DOMAIN journal[k].by} : k \in DOMAIN journal}
<1>1. IsFiniteSet(DOMAIN journal)
  <2>1. DOMAIN journal = 1..Len(journal) /\ Len(journal) \in Nat
    OBVIOUS
  <2> QED BY <2>1, FS_Interval
<1>2. of \in Surjection(DOMAIN journal, all)
  BY DEF Surjection
<1>3. IsFiniteSet(all)
  <2> HIDE DEF of, all
  <2> QED BY <1>1, <1>2, FS_Surjection
<1>4. ASSUME NEW k \in DOMAIN journal PROVE IsFiniteSet({<<k, i>> : i \in DOMAIN journal[k].by})
  <2> DEFINE line == {<<k, i>> : i \in DOMAIN journal[k].by}
             f == [i \in DOMAIN journal[k].by |-> <<k, i>>]
  <2>1. IsFiniteSet(DOMAIN journal[k].by)
    <3>1. journal[k] \in Record
      OBVIOUS
    <3>2. journal[k].by \in Seq(CandId)
      BY <3>1 DEF Record
    <3>3. DOMAIN journal[k].by = 1..Len(journal[k].by) /\ Len(journal[k].by) \in Nat
      BY <3>2
    <3> QED BY <3>3, FS_Interval
  <2>2. f \in Surjection(DOMAIN journal[k].by, line)
    BY DEF Surjection
  <2> HIDE DEF f, line
  <2>3. IsFiniteSet(line)
    BY <2>1, <2>2, FS_Surjection
  <2> QED BY <2>3 DEF line
<1>5. \A T \in all : IsFiniteSet(T)
  BY <1>4
<1> HIDE DEF all
<1>6. IsFiniteSet(UNION all)
  BY <1>3, <1>5, FS_UNION
<1> QED BY <1>6, FS_CardinalityType DEF all, Replacements

\* No step takes a replacement out of the journal.
LEMMA ReplacementsGrow ==
  ASSUME TypeInv, JournalInv, HistoryInv, [Next]_vars
  PROVE  Replacements \subseteq Replacements'
<1> SUFFICES ASSUME NEW k \in DOMAIN journal, NEW i \in DOMAIN journal[k].by
             PROVE  <<k, i>> \in Replacements'
  BY DEF Replacements
<1>1. k \in DOMAIN journal' /\ GrowsBy(journal[k], journal'[k], CandId, copies)
  BY LinesGrow DEF JournalInv, HistoryInv
<1>2. journal[k].by \in Seq(CandId)
  <2>1. journal[k] \in Record
    BY DEF TypeInv, TypeOK
  <2> QED BY <2>1 DEF Record
<1>3. i \in DOMAIN journal'[k].by
  <2>1. CASE journal'[k] = journal[k]
    BY <2>1
  <2>2. ASSUME NEW c \in CandId, journal'[k].by = Append(journal[k].by, c)
        PROVE  i \in DOMAIN journal'[k].by
    BY <1>2, <2>2
  <2> QED BY <1>1, <2>1, <2>2 DEF GrowsBy
<1> QED BY <1>1, <1>3 DEF Replacements

\* A rewrite adds as many replacements as its compaction has counted.
LEMMA RenameAdds ==
  ASSUME TypeInv, TypeInv', JournalInv, HistoryInv, [Next]_vars, NEW p \in Worker, RenameTmp(p)
  PROVE  /\ AppliedCount(journal, job[p].batch, copies) \in Nat
         /\ Cardinality(Replacements) + AppliedCount(journal, job[p].batch, copies)
              <= Cardinality(Replacements')
<1> DEFINE batch == job[p].batch
<1>1. batch \in SUBSET CandId /\ \A c \in batch : copies[c] \in RecordsOver(RecId, CandId)
  BY RecordIsRecordOver DEF TypeInv, TypeOK, Created, Job
<1>2. journal \in Seq(RecordsOver(RecId, CandId)) /\ IsFiniteSet(RecId)
  BY RecordIsRecordOver, FiniteIdsAssumption DEF TypeInv, TypeOK
<1>2a. /\ Rewritten(journal, batch, copies) \in Seq(RecordsOver(RecId, CandId))
       /\ Len(Rewritten(journal, batch, copies)) = Len(journal)
       /\ Unmatched(journal, batch, copies) \in Seq(RecordsOver(RecId, CandId))
  <2> HIDE DEF batch
  <2>1. /\ Rewritten(journal, batch, copies) \in Seq(RecordsOver(RecId, CandId))
        /\ Len(Rewritten(journal, batch, copies)) = Len(journal)
    <3>1. journal \in Seq(RecordsOver(RecId, CandId))
      BY <1>2
    <3>2. batch \in SUBSET CandId
      BY <1>1
    <3>3. \A c \in batch : copies[c] \in RecordsOver(RecId, CandId)
      BY <1>1
    <3> QED BY ONLY <3>1, <3>2, <3>3, RewrittenType
  <2>2. Unmatched(journal, batch, copies) \in Seq(RecordsOver(RecId, CandId))
    BY <1>1, <1>2, UnmatchedType
  <2> QED BY <2>1, <2>2
<1> DEFINE hits == {k \in DOMAIN journal :
                      /\ journal[k].id \in Targets(batch, copies)
                      /\ SameRevision(journal[k], copies[CandidateFor(journal[k].id, batch, copies)])}
           more == [k \in hits |-> <<k, Len(journal[k].by) + 1>>]
           new == {<<k, Len(journal[k].by) + 1>> : k \in hits}
<1>3. ASSUME NEW c \in batch
      PROVE  Counted(copies[c]) /\ \E k \in DOMAIN journal : VersionOf(copies[c], journal[k])
  BY <1>1 DEF TypeInv, Created, HistoryInv, CopiesDescend, Copied
<1>4. AppliedCount(journal, batch, copies) = Cardinality(hits) /\ Cardinality(hits) \in Nat
      /\ IsFiniteSet(hits)
  <2>1. Targets(batch, copies) \ Ids(journal) = {}
    BY <1>3 DEF Targets, Ids, VersionOf
  <2>2. IsFiniteSet(hits)
    <3>1. DOMAIN journal = 1..Len(journal) /\ Len(journal) \in Nat
      BY <1>2
    <3>2. IsFiniteSet(DOMAIN journal)
      BY <3>1, FS_Interval
    <3>3. hits \in SUBSET DOMAIN journal
      OBVIOUS
    <3> HIDE DEF hits
    <3> QED BY <3>2, <3>3, FS_Subset
  <2>3. Cardinality(hits) \in Nat
    BY <2>2, FS_CardinalityType
  <2>4. AppliedCount(journal, batch, copies) = Cardinality(hits) + Cardinality({})
    BY <2>1 DEF AppliedCount
  <2> HIDE DEF hits
  <2> QED BY <2>2, <2>3, <2>4, FS_EmptySet
<1>5. IsFiniteSet(new) /\ Cardinality(new) = Cardinality(hits)
  <2>1. more \in [hits -> new] /\ \A t \in new : \E k \in hits : more[k] = t
    OBVIOUS
  <2>2. \A j, k \in hits : more[j] = more[k] => j = k
    OBVIOUS
  <2>3. more \in Surjection(hits, new) /\ more \in Injection(hits, new)
    <3> HIDE DEF more, new, hits
    <3> QED BY <2>1, <2>2 DEF Surjection, Injection, IsInjective
  <2> HIDE DEF more, new, hits
  <2> QED BY <1>4, <2>3, FS_Surjection
<1>6. \A k \in DOMAIN journal : journal[k].by \in Seq(CandId) /\ Len(journal[k].by) \in Nat
  <2>1. \A k \in DOMAIN journal : journal[k] \in Record
    BY DEF TypeInv, TypeOK
  <2> QED BY <2>1 DEF Record
<1>7. ASSUME NEW k \in hits
      PROVE  <<k, Len(journal[k].by) + 1>> \in Replacements'
  <2> DEFINE c == CandidateFor(journal[k].id, batch, copies)
  <2>1. c \in batch /\ copies[c].id = journal[k].id
    BY CandidateForTarget
  <2>2. PICK j \in DOMAIN journal : VersionOf(copies[c], journal[j])
    BY <1>3, <2>1
  <2>3. j = k
    BY <2>1, <2>2 DEF VersionOf, HistoryInv, VersionInv, RevisionCounts
  <2>4. Counted(journal[k]) /\ Counted(copies[c]) /\ SameRevision(journal[k], copies[c])
    BY <1>3, <2>1 DEF HistoryInv, VersionInv, RevisionCounts, Counted
  <2>5. copies[c] \in RecordsOver(RecId, CandId) /\ journal[k] \in RecordsOver(RecId, CandId)
    BY <1>1, <1>2, <2>1
  <2>6. copies[c].by = journal[k].by
    <3> HIDE DEF c
    <3> QED BY <2>2, <2>3, <2>4, <2>5, SameRevisionSameVersion
  <2>7. journal'[k].by = Append(copies[c].by, c) /\ k \in DOMAIN journal'
    <3>1. journal' = ApplySubstitutions(journal, batch, copies)
      BY DEF RenameTmp, JournalInv, Rewrites
    <3>2. k \in DOMAIN journal'
      BY LinesGrow DEF JournalInv, HistoryInv
    <3>3. journal'[k] = Rewritten(journal, batch, copies)[k]
      <4>1. k \in 1..Len(journal)
        BY <1>2
      <4> HIDE DEF batch
      <4> QED BY <3>1, <4>1, <1>2a DEF ApplySubstitutions
    <3>4. Rewritten(journal, batch, copies)[k] = ApplyCandidate(journal[k], copies[c], c)
      BY DEF Rewritten
    <3> HIDE DEF c
    <3> QED BY <2>4, <3>2, <3>3, <3>4 DEF ApplyCandidate, Replacement
  <2> HIDE DEF c
  <2>8. Len(journal[k].by) + 1 \in DOMAIN Append(journal[k].by, c)
    BY <1>6
  <2> QED BY <2>6, <2>7, <2>8 DEF Replacements
<1>8. new \cap Replacements = {}
  BY <1>6 DEF Replacements
<1>9. IsFiniteSet(Replacements) /\ IsFiniteSet(Replacements')
      /\ Cardinality(Replacements) \in Nat /\ Cardinality(Replacements') \in Nat
  <2>1. (journal \in Seq(Record))'
    BY DEF TypeInv, TypeOK
  <2>2. (IsFiniteSet(Replacements) /\ Cardinality(Replacements) \in Nat)'
    BY <2>1, ReplacementsFinite, PTL
  <2> QED BY <2>2, ReplacementsFinite DEF TypeInv, TypeOK
<1>10. Replacements \cup new \subseteq Replacements'
  BY <1>7, ReplacementsGrow
<1> HIDE DEF new, hits, batch
<1>11. Cardinality(Replacements \cup new) = Cardinality(Replacements) + Cardinality(new)
  <2>1. Cardinality(Replacements \cap new) = 0
    <3>1. Replacements \cap new = {}
      BY <1>8
    <3> QED BY <3>1, FS_EmptySet
  <2>2. Cardinality(Replacements \cup new)
          = Cardinality(Replacements) + Cardinality(new) - Cardinality(Replacements \cap new)
    BY <1>5, <1>9, FS_Union
  <2> QED BY <1>4, <1>5, <1>9, <2>1, <2>2
<1>12. Cardinality(Replacements \cup new) <= Cardinality(Replacements')
  BY <1>9, <1>10, FS_Subset
<1> QED BY <1>4, <1>5, <1>11, <1>12 DEF batch

\* Their number never falls.
LEMMA MoreReplacements ==
  ASSUME TypeInv, TypeInv', JournalInv, HistoryInv, [Next]_vars
  PROVE  /\ Cardinality(Replacements) \in Nat /\ Cardinality(Replacements') \in Nat
         /\ Cardinality(Replacements) <= Cardinality(Replacements')
<1>1. (journal \in Seq(Record)) /\ (journal \in Seq(Record))'
  BY DEF TypeInv, TypeOK
<1>2. (IsFiniteSet(Replacements) /\ Cardinality(Replacements) \in Nat)'
  BY <1>1, ReplacementsFinite, PTL
<1>3. Replacements \in SUBSET Replacements'
  BY ReplacementsGrow
<1>4. Cardinality(Replacements) <= Cardinality(Replacements')
  BY <1>2, <1>3, FS_Subset
<1> QED BY <1>1, <1>2, <1>4, ReplacementsFinite

\* Only the last step of a compaction writes an audit event.
LEMMA AuditSteps ==
  ASSUME TypeInv, [Next]_vars
  PROVE  \/ UNCHANGED audit
         \/ \E p \in Worker : /\ pc[p] = "compact.audit" /\ pc'[p] = "idle"
                            /\ audit' = audit + job[p].count
<1>1. ASSUME NEW p \in Worker, AppendProgress(p) \/ AppendFault(p) PROVE UNCHANGED audit
  BY <1>1, AppendLeaves DEF candidateVars
<1>2. ASSUME NEW p \in Worker, CandidateProgress(p) \/ CandidateFault(p) PROVE UNCHANGED audit
  BY <1>2, CandidateLeaves
<1>3. ASSUME NEW p \in Worker, CompactProgress(p) \/ CompactFault(p)
      PROVE  UNCHANGED audit \/ (pc[p] = "compact.audit" /\ Return(p) /\ audit' = audit + job[p].count)
  BY <1>3 DEF CompactProgress, CompactFault, CompactList, CompactListFails, CompactLockJournal,
       CompactLockCandidates, CompactCancel, CompactRead, CompactUnreadable, WriteTmp, RenameTmp,
       Evict, RewriteFails, DeleteApplied, RebuildIndex, AuditAppend, CleanupFails, candidateVars
<1>4. ASSUME NEW p \in Worker, LockFails(p) \/ \E k \in Kind : Arrive(p, k) PROVE UNCHANGED audit
  BY <1>4 DEF LockFails, Arrive, candidateVars
<1>5. CASE Crash \/ Restart \/ RecoveryFails \/ UNCHANGED vars
  BY <1>5 DEF Crash, Restart, RecoveryFails, vars, candidateVars
<1>6. \A p \in Worker : Return(p) => pc'[p] = "idle"
  BY DEF Return, Goto, TypeInv, TypeOK
<1> QED BY <1>1, <1>2, <1>3, <1>4, <1>5, <1>6 DEF Next, Progress, Failure

\* Nobody writes the journal or a candidate while a compaction prepares its rewrite.
LEMMA StepCountKept ==
  ASSUME TypeInv, CountKept, [Next]_vars
  PROVE  CountKept'
<1> SUFFICES ASSUME NEW p \in Worker, pc'[p] \in {"compact.tmp", "compact.rename"}
             PROVE  job'[p].count = AppliedCount(journal', job'[p].batch, copies')
  BY DEF CountKept
<1>1. CASE pc[p] \in {"compact.tmp", "compact.rename"} /\ pc'[p] = pc[p] /\ job'[p] = job[p]
  BY <1>1, PreparedAlone DEF CountKept
<1>2. CASE WorkerStep(p)
  <2>1. CASE CompactRead(p)
    <3> DEFINE lines == ApplySubstitutions(journal, job[p].batch, copies)
               count == AppliedCount(journal, job[p].batch, copies)
    <3>1. job'[p] = [job[p] EXCEPT !.lines = lines, !.count = count] /\ UNCHANGED <<journal, copies>>
      BY <2>1, KeepIsLocal DEF CompactRead, journalVars, candidateVars
    <3>2. job[p] \in Job
      BY DEF TypeInv, TypeOK
    <3> HIDE DEF lines, count
    <3>3. job'[p].count = count /\ job'[p].batch = job[p].batch
      BY <3>1, <3>2 DEF Job
    <3> QED BY <3>1, <3>3 DEF count
  <2>2. CASE WriteTmp(p)
    BY <2>2 DEF WriteTmp, candidateVars, CountKept
  <2> QED BY <1>2, <2>1, <2>2, StepGoes
<1>3. CASE \E q \in Worker \ {p} : WorkerStep(q)
  BY <1>1, <1>3, OthersStay
<1>4. CASE Crash
  BY <1>4 DEF Crash
<1>5. CASE UNCHANGED workerVars \/ UNCHANGED vars
  BY <1>1, <1>5 DEF workerVars, vars
<1> QED BY <1>2, <1>3, <1>4, <1>5, StepKinds

\* A rewrite makes the room that its audit event takes.
LEMMA StepCountDue ==
  ASSUME TypeInv, TypeInv', JournalInv, HistoryInv, AuditInv, [Next]_vars
  PROVE  CountDue'
<1> DEFINE Due == {"compact.evict", "compact.delete", "compact.rebuild", "compact.audit"}
<1> SUFFICES ASSUME NEW p \in Worker, pc'[p] \in Due
             PROVE  audit' + job'[p].count <= Cardinality(Replacements')
  BY DEF CountDue
<1>1. audit \in Nat /\ job[p].count \in Nat
  BY DEF TypeInv, TypeOK, Job
<1>2. CASE pc[p] \in Due /\ job'[p] = job[p]
  <2>1. UNCHANGED audit
    <3>1. ASSUME NEW q \in Worker, pc[q] = "compact.audit" PROVE q = p
      BY <1>2, <3>1, CompactionIsAlone DEF TypeInv, CompactHolding
    <3> QED BY <3>1, AuditSteps
  <2>2. audit + job[p].count <= Cardinality(Replacements)
    BY <1>2 DEF AuditInv, CountDue
  <2>3. audit' + job'[p].count = audit + job[p].count
    BY <1>2, <2>1
  <2> QED BY <1>1, <2>2, <2>3, MoreReplacements
<1>3. CASE WorkerStep(p)
  <2>1. CASE RenameTmp(p)
    <3>1. job[p].count = AppliedCount(journal, job[p].batch, copies)
      BY <2>1 DEF RenameTmp, AuditInv, CountKept
    <3>2. audit' = audit /\ job'[p] = job[p]
      BY <2>1 DEF RenameTmp, candidateVars
    <3>3. audit <= Cardinality(Replacements)
      BY DEF AuditInv, AuditCountsReplacements
    <3> QED BY <1>1, <2>1, <3>1, <3>2, <3>3, RenameAdds, MoreReplacements
  <2>2. CASE Evict(p) \/ DeleteApplied(p) \/ RebuildIndex(p)
    BY <1>2, <2>2 DEF Evict, DeleteApplied, RebuildIndex
  <2>3. CASE CleanupFails(p) /\ pc[p] \in {"compact.delete", "compact.rebuild"}
    BY <1>2, <2>3 DEF CleanupFails
  <2> QED BY <1>3, <2>1, <2>2, <2>3, StepGoes
<1>4. CASE \E q \in Worker \ {p} : WorkerStep(q)
  BY <1>2, <1>4, OthersStay
<1>5. CASE Crash
  BY <1>5 DEF Crash
<1>6. CASE UNCHANGED workerVars \/ UNCHANGED vars
  BY <1>2, <1>6 DEF workerVars, vars
<1> QED BY <1>3, <1>4, <1>5, <1>6, StepKinds

\* An audit event counts no more than its rewrite has added.
LEMMA StepAudited ==
  ASSUME TypeInv, TypeInv', JournalInv, HistoryInv, AuditInv, [Next]_vars
  PROVE  AuditCountsReplacements'
<1>1. audit \in Nat /\ \A p \in Worker : job[p].count \in Nat
  BY DEF TypeInv, TypeOK, Job
<1>2. audit' <= Cardinality(Replacements)
  BY <1>1, AuditSteps DEF AuditInv, CountDue, AuditCountsReplacements
<1> QED BY <1>1, <1>2, MoreReplacements DEF AuditCountsReplacements, TypeInv, TypeOK

\* The first state, where nothing was compacted.
LEMMA InitAudit == Init => AuditInv
<1> SUFFICES ASSUME Init PROVE AuditInv
  OBVIOUS
<1>1. CountKept /\ CountDue
  BY DEF Init, CountKept, CountDue
<1>2. journal \in Seq(Record) /\ audit = 0
  BY InitialJournalAssumption DEF Init
<1>3. Cardinality(Replacements) \in Nat
  BY <1>2, ReplacementsFinite
<1> QED BY <1>1, <1>2, <1>3 DEF AuditInv, AuditCountsReplacements

\* In every state the counts that compactions carry are covered by the journal.
THEOREM AuditAlways == Spec => []AuditInv
<1>1. TypeInv /\ TypeInv' /\ JournalInv /\ HistoryInv /\ AuditInv /\ [Next]_vars => AuditInv'
  BY StepCountKept, StepCountDue, StepAudited DEF AuditInv
<1> QED BY <1>1, InitAudit, TypeInvAlways, JournalAlways, HistoryAlways, PTL DEF Spec

\* What the audit file says was applied was applied: its counts add up to no more
\* than the replacements in the journal, though they are taken before the rewrite
\* and written after it, and whatever fails or dies between (compact.go steps 4
\* to 8; store.go, AuditAppend).
THEOREM AuditsCountReplacements == Spec => []AuditCountsReplacements
<1>1. AuditInv => AuditCountsReplacements
  BY DEF AuditInv
<1> QED BY <1>1, AuditAlways, PTL

=============================================================================

---------------------------- MODULE DurabilityProofs ----------------------------
(***************************************************************************)
(* What a power loss leaves of a partition, for any number of workers,     *)
(* requests, compactions, failures and power losses.                       *)
(*                                                                         *)
(* On any disk the images hold what may be in the files, and none has an   *)
(* approved candidate waiting for a decision.  On a disk that keeps the    *)
(* order of renames (OrderedMetadata) every image is one that the next     *)
(* processes can go on from, and an image that lacks no rename lacks       *)
(* nothing else but lines at the end of the journal and candidates whose   *)
(* submission was not answered.                                            *)
(***************************************************************************)
EXTENDS Durability, CandidateProofs

\* The states of the files, and of the disk.
Disk == [journal : [lines : Seq(Record), tear : {"none", "tail", "inner"}],
         pending : SUBSET CandId, applied : SUBSET CandId, denied : SUBSET CandId, audit : Nat]

Image == [disk : Disk, lag : [File -> Nat]]

\* What the processes see is a state of the files.
LEMMA FilesType == TypeInv => Files \in Disk
  BY DEF TypeInv, TypeOK, Files, Disk

\* The type of a record field by field.
LEMMA DiskChanges ==
  ASSUME NEW J, NEW C, NEW N, NEW d \in File,
         NEW old \in [journal : J, pending : C, applied : C, denied : C, audit : N],
         NEW new \in [journal : J, pending : C, applied : C, denied : C, audit : N]
  PROVE  [old EXCEPT ![d] = new[d]] \in [journal : J, pending : C, applied : C, denied : C, audit : N]
  BY DEF File

\* One file of an image is exchanged for another.
LEMMA FileChanges ==
  ASSUME NEW i \in Image, NEW files \in Disk, NEW d \in File
  PROVE  LET j == [i EXCEPT !.disk[d] = files[d]]
         IN  /\ j \in Image
             /\ j.lag = i.lag
             /\ j.disk[d] = files[d]
             /\ \A e \in File \ {d} : j.disk[e] = i.disk[e]
<1> DEFINE j == [i EXCEPT !.disk[d] = files[d]]
<1>1. i.disk \in Disk /\ i.lag \in [File -> Nat]
  BY DEF Image
<1>2. j.lag = i.lag /\ j.disk = [i.disk EXCEPT ![d] = files[d]]
  BY DEF Image
<1>3. j.disk \in Disk
  <2>1. [i.disk EXCEPT ![d] = files[d]] \in Disk
    <3> HIDE DEF j
    <3> QED BY <1>1, DiskChanges DEF Disk
  <2> QED BY <1>2, <2>1
<1>4. j.disk[d] = files[d] /\ \A e \in File \ {d} : j.disk[e] = i.disk[e]
  BY <1>1, <1>2 DEF Disk, File
<1>5. j \in Image
  BY <1>1, <1>2, <1>3 DEF Image
<1> QED BY <1>2, <1>4, <1>5


-----------------------------------------------------------------------------
\* The images after a step.

\* Image j is image i with file d as the processes see it after the step.
Exchanged(i, j, d) ==
  /\ j \in Image
  /\ j.lag = i.lag
  /\ j.disk[d] = Files'[d]
  /\ \A e \in File \ {d} : j.disk[e] = i.disk[e]

\* Image j is image i without the rename or removal of file d.
Lagging(i, j, d) ==
  /\ j \in Image
  /\ j.disk = i.disk
  /\ j.lag[d] > 0

\* Image j is image i with half a line.
Torn(i, j) ==
  /\ j \in Image
  /\ j.lag = i.lag
  /\ j.disk.journal.lines = i.disk.journal.lines
  /\ \A e \in File \ {"journal"} : j.disk[e] = i.disk[e]

\* After a rename or a removal that reaches the disk some time,
LEMMA RelinkImages ==
  ASSUME images \subseteq Image, Files' \in Disk, NEW d \in File, Relink(d), NEW j \in images'
  PROVE  \/ \E i \in images : Lagging(i, j, d)
         \/ \E i \in UpTo({d}) : Exchanged(i, j, d)
<1>1. CASE \E i \in images : j = [i EXCEPT !.lag[d] = @ + 1]
  <2>1. PICK i \in images : j = [i EXCEPT !.lag[d] = @ + 1]
    BY <1>1
  <2>2. i.disk \in Disk /\ i.lag \in [File -> Nat]
    BY DEF Image
  <2>3. j.disk = i.disk /\ j.lag = [i.lag EXCEPT ![d] = @ + 1] /\ j \in [disk : Disk, lag : [File -> Nat]]
    BY <2>1, <2>2 DEF Image
  <2>4. j.lag[d] > 0
    BY <2>2, <2>3
  <2> QED BY <2>3, <2>4 DEF Lagging, Image
<1>2. CASE \E i \in UpTo({d}) : j = [i EXCEPT !.disk[d] = Files'[d]]
  <2>1. PICK i \in UpTo({d}) : j = [i EXCEPT !.disk[d] = Files'[d]]
    BY <1>2
  <2>2. i \in Image
    BY DEF UpTo
  <2> QED BY <2>1, <2>2, FileChanges DEF Exchanged
<1>3. j \in {[i EXCEPT !.lag[d] = @ + 1] : i \in images} \/ j \in Relinked(d, UpTo({d}))
  BY DEF Relink
<1>4. j \in Relinked(d, UpTo({d})) => \E i \in UpTo({d}) : j = [i EXCEPT !.disk[d] = Files'[d]]
  BY DEF Relinked, NewInode
<1> QED BY <1>1, <1>2, <1>3, <1>4

\* after one that is synced,
LEMMA RelinkSyncImages ==
  ASSUME images \subseteq Image, Files' \in Disk, NEW d \in File, NEW D, RelinkSync(d, D), NEW j \in images'
  PROVE  \E i \in UpTo({d} \cup D) : Exchanged(i, j, d)
<1>1. PICK i \in UpTo({d} \cup D) : j = [i EXCEPT !.disk[d] = Files'[d]]
  BY DEF RelinkSync, Relinked, NewInode
<1>2. i \in Image
  BY DEF UpTo
<1> QED BY <1>1, <1>2, FileChanges DEF Exchanged

\* after data is added to a file,
LEMMA WrittenImages ==
  ASSUME images \subseteq Image, Files' \in Disk, NEW d \in File, NEW j \in Written(d)
  PROVE  \E i \in UpTo({d}) : Exchanged(i, j, d)
<1>1. PICK i \in UpTo({d}) : j = [i EXCEPT !.disk[d] = Files'[d]]
  BY DEF Written
<1>2. i \in Image
  BY DEF UpTo
<1> QED BY <1>1, <1>2, FileChanges DEF Exchanged

\* and after a line is added to the journal, or half of one.
LEMMA WriteJournalImages ==
  ASSUME images \subseteq Image, Files' \in Disk, WriteJournal, NEW j \in images'
  PROVE  \/ j \in images
         \/ \E i \in images : i.disk.journal = Files.journal /\ Exchanged(i, j, "journal")
         \/ \E i \in images : Torn(i, j)
<1>1. CASE \E i \in images : i.disk.journal = Files.journal /\ j = [i EXCEPT !.disk.journal = Files'.journal]
  <2>1. PICK i \in images : i.disk.journal = Files.journal /\ j = [i EXCEPT !.disk.journal = Files'.journal]
    BY <1>1
  <2>2. "journal" \in File
    BY DEF File
  <2>3. j = [i EXCEPT !.disk["journal"] = Files'["journal"]]
    BY <2>1
  <2>4. Exchanged(i, j, "journal")
    BY <2>2, <2>3, FileChanges DEF Exchanged
  <2> QED BY <2>1, <2>4
<1>2. CASE \E i \in images : j = [i EXCEPT !.disk.journal.tear = "tail"]
  <2>1. PICK i \in images : j = [i EXCEPT !.disk.journal.tear = "tail"]
    BY <1>2
  <2>2. i.disk \in Disk /\ i.lag \in [File -> Nat]
    BY DEF Image
  <2> DEFINE new == [i.disk EXCEPT !.journal = [@ EXCEPT !.tear = "tail"]]
  <2>3. j.lag = i.lag /\ j.disk = new /\ j = [disk |-> new, lag |-> i.lag]
    BY <2>1 DEF Image
  <2>4. /\ i.disk.journal \in [lines : Seq(Record), tear : {"none", "tail", "inner"}]
        /\ new \in Disk
    BY <2>2 DEF Disk
  <2>5. j.disk.journal.lines = i.disk.journal.lines
    BY <2>2, <2>3, <2>4 DEF Disk
  <2>6. \A e \in File \ {"journal"} : j.disk[e] = i.disk[e]
    BY <2>2, <2>3 DEF Disk, File
  <2> QED BY <2>2, <2>3, <2>4, <2>5, <2>6 DEF Torn, Image
<1> QED BY <1>1, <1>2 DEF WriteJournal


\* What a step does to the images when it writes file d, or none.
ImageStep(d) ==
  \/ Relink(d)
  \/ \E D \in SUBSET File : RelinkSync(d, D)
  \/ Write(d)
  \/ \E exists \in BOOLEAN : WriteSync(d, exists)
  \/ d = "journal" /\ WriteJournal
  \/ (CommitIndex \/ UNCHANGED images) /\ Files' = Files

\* Each image after a step comes from one before.
LEMMA StepImages ==
  ASSUME images \subseteq Image, Files' \in Disk, NEW d \in File, ImageStep(d), NEW j \in images'
  PROVE  \E i \in images : j = i \/ Lagging(i, j, d) \/ Exchanged(i, j, d) \/ Torn(i, j)
<1>1. ASSUME NEW D PROVE UpTo(D) \subseteq images
  BY DEF UpTo
<1>2. CASE Relink(d)
  BY <1>1, <1>2, RelinkImages
<1>3. CASE \E D \in SUBSET File : RelinkSync(d, D)
  BY <1>1, <1>3, RelinkSyncImages
<1>4. CASE Write(d)
  <2>1. j \in images \/ j \in Written(d)
    BY <1>4 DEF Write
  <2> QED BY <1>1, <2>1, WrittenImages
<1>5. CASE \E exists \in BOOLEAN : WriteSync(d, exists)
  <2>1. j \in images \/ j \in Written(d) \/ Relink(d)
    BY <1>5 DEF WriteSync
  <2> QED BY <1>1, <1>2, <2>1, WrittenImages
<1>6. CASE d = "journal" /\ WriteJournal
  BY <1>6, WriteJournalImages
<1>7. CASE CommitIndex \/ UNCHANGED images
  BY <1>1, <1>7 DEF CommitIndex
<1> QED BY <1>2, <1>3, <1>4, <1>5, <1>6, <1>7 DEF ImageStep

\* The image that holds all the processes have done.
Present(i) ==
  /\ i \in Image
  /\ i.disk = Files
  /\ \A d \in File : i.lag[d] = 0

\* Files that agree in each are the same.
LEMMA SameDisk ==
  ASSUME NEW disk \in Disk, NEW files \in Disk, \A d \in File : disk[d] = files[d]
  PROVE  disk = files
  BY DEF Disk, File

\* Every image that may be renamed over is.
LEMMA RelinkedHas ==
  ASSUME NEW before, NEW i \in before, NEW d
  PROVE  [i EXCEPT !.disk[d] = Files'[d]] \in Relinked(d, before)
<1>1. Files'[d] \in NewInode(d)
  BY DEF NewInode
<1>2. PICK j : j = [i EXCEPT !.disk[d] = Files'[d]]
  OBVIOUS
<1>3. \E b \in before, contents \in NewInode(d) : j = [b EXCEPT !.disk[d] = contents]
  BY <1>1, <1>2
<1>4. j \in Relinked(d, before)
  BY <1>3 DEF Relinked
<1> QED BY <1>2, <1>4

\* There is one after each step: a power loss may always come too late to lose
\* anything.
LEMMA StepPresent ==
  ASSUME images \subseteq Image, Files' \in Disk, NEW d \in File, ImageStep(d),
         \A e \in File \ {d} : Files'[e] = Files[e], NEW i \in images, Present(i)
  PROVE  \E j \in images' : Present(j)'
<1>0. PICK j : j = [i EXCEPT !.disk[d] = Files'[d]]
  OBVIOUS
<1>1. ASSUME NEW D \in SUBSET File PROVE i \in UpTo(D)
  BY <1>1 DEF UpTo, Behind, Present
<1>2. Present(j)'
  <2>1. j \in Image /\ j.lag = i.lag /\ j.disk[d] = Files'[d] /\ \A e \in File \ {d} : j.disk[e] = i.disk[e]
    BY <1>0, FileChanges
  <2>2. j.disk \in Disk /\ \A e \in File : j.disk[e] = Files'[e]
    BY <2>1 DEF Image, Present
  <2>3. j.disk = Files'
    BY <2>2, SameDisk
  <2> QED BY <2>1, <2>3 DEF Present
<1>3. {d} \in SUBSET File
  OBVIOUS
<1>4. j \in Written(d)
  BY <1>0, <1>1, <1>3 DEF Written
<1>5. CASE Relink(d)
  <2>1. j \in Relinked(d, UpTo({d}))
    BY <1>0, <1>1, <1>3, RelinkedHas
  <2> QED BY <1>2, <1>5, <2>1 DEF Relink
<1>6. CASE \E D \in SUBSET File : RelinkSync(d, D)
  <2>1. PICK D \in SUBSET File : RelinkSync(d, D)
    BY <1>6
  <2>2. i \in UpTo({d} \cup D)
    BY <1>1
  <2>3. j \in Relinked(d, UpTo({d} \cup D))
    BY <1>0, <2>2, RelinkedHas
  <2> QED BY <1>2, <2>1, <2>3 DEF RelinkSync
<1>7. CASE Write(d)
  BY <1>2, <1>4, <1>7 DEF Write
<1>8. CASE \E exists \in BOOLEAN : WriteSync(d, exists)
  <2>1. images' = Written(d) \/ Relink(d) \/ Written(d) \subseteq images'
    BY <1>8 DEF WriteSync
  <2> QED BY <1>2, <1>4, <1>5, <2>1
<1>9. CASE d = "journal" /\ WriteJournal
  <2>1. i.disk.journal = Files.journal
    BY DEF Present
  <2>2. [i EXCEPT !.disk.journal = Files'.journal] \in images'
    BY <1>9, <2>1 DEF WriteJournal
  <2>3. j = [i EXCEPT !.disk.journal = Files'.journal]
    BY <1>0, <1>9
  <2> QED BY <1>2, <2>2, <2>3
<1>10. CASE (CommitIndex \/ UNCHANGED images) /\ Files' = Files
  <2>1. i \in images'
    BY <1>1, <1>10 DEF CommitIndex
  <2> QED BY <1>10, <2>1 DEF Present
<1> QED BY <1>5, <1>6, <1>7, <1>8, <1>9, <1>10 DEF ImageStep


\* The processes see the other files as before when only one is written.
LEMMA OtherFiles ==
  /\ UNCHANGED <<pending, applied, denied, audit>> => \A e \in File \ {"journal"} : Files'[e] = Files[e]
  /\ UNCHANGED <<journal, tear, applied, denied, audit>> => \A e \in File \ {"pending"} : Files'[e] = Files[e]
  /\ UNCHANGED <<journal, tear, pending, denied, audit>> => \A e \in File \ {"applied"} : Files'[e] = Files[e]
  /\ UNCHANGED <<journal, tear, pending, applied, audit>> => \A e \in File \ {"denied"} : Files'[e] = Files[e]
  /\ UNCHANGED <<journal, tear, pending, applied, denied>> => \A e \in File \ {"audit"} : Files'[e] = Files[e]
  /\ UNCHANGED <<journal, tear, pending, applied, denied, audit>> => Files' = Files
  BY DEF Files, File

\* A quiet step is a step of a handler that leaves the files alone,
LEMMA QuietSteps ==
  ASSUME NEW p \in Worker, QuietStep(p)
  PROVE  /\ WorkerStep(p)
         /\ UNCHANGED <<journal, tear, copies, pending, applied, denied, audit, submitted, approved>>
<1>1. WorkerStep(p)
  BY DEF QuietStep, WorkerStep, Progress, Failure, AppendProgress, AppendFault, CandidateProgress,
         CandidateFault, CompactProgress, CompactFault
<1>2. CASE \/ \E k \in Kind : Arrive(p, k)
           \/ AppendLock(p) \/ InsertBegin(p) \/ InsertConflict(p) \/ InsertFails(p)
           \/ CandidateLock(p) \/ SubmitRead(p) \/ SubmitRejected(p) \/ ListRead(p)
  BY <1>1, <1>2 DEF Arrive, AppendLock, InsertBegin, InsertConflict, InsertFails, AcceptedOnly, CandidateLock,
              SubmitRead, SubmitRejected, ListRead, journalVars, candidateVars, answerVars
<1>3. CASE \/ ResolveRead(p) \/ ResolveRejected(p)
           \/ CompactList(p) \/ CompactLockJournal(p) \/ CompactLockCandidates(p)
           \/ CompactRead(p) \/ CompactUnreadable(p)
  BY <1>1, <1>3 DEF ResolveRead, ResolveRejected, CompactList, CompactLockJournal, CompactLockCandidates,
              CompactRead, CompactUnreadable, journalVars, candidateVars, answerVars
<1>4. CASE \/ WriteTmp(p) \/ Evict(p)
           \/ LockFails(p) \/ CompactListFails(p) \/ CompactCancel(p) \/ RewriteFails(p)
  BY <1>1, <1>4 DEF WriteTmp, Evict, LockFails, CompactListFails, CompactCancel, RewriteFails, journalVars,
              candidateVars, answerVars
<1> QED BY <1>2, <1>3, <1>4 DEF QuietStep

\* and a writing step one that writes a single file, and the images accordingly.
LEMMA WriteSteps ==
  ASSUME TypeInv, Stages, NEW p \in Worker, WriteStep(p)
  PROVE  /\ WorkerStep(p)
         /\ \E d \in File : ImageStep(d) /\ \A e \in File \ {d} : Files'[e] = Files[e]
<1>1. WorkerStep(p)
  BY DEF WriteStep, DurableAppend, DurableIndex, DurableSubmit, DurableResolve, DurableMoveFails,
         DurableCompact, DurableCleanupFails, WorkerStep, Progress, Failure, AppendProgress,
         AppendFault, CandidateProgress, CandidateFault, CompactProgress, CompactFault
<1> DEFINE One(d) == ImageStep(d) /\ \A e \in File \ {d} : Files'[e] = Files[e]
<1>2. "journal" \in File /\ "pending" \in File /\ "applied" \in File /\ "denied" \in File /\ "audit" \in File
  BY DEF File
<1>3. CASE UNCHANGED <<journal, tear, pending, applied, denied, audit>> /\ (CommitIndex \/ UNCHANGED images)
  <2>1. One("journal")
    BY <1>3, OtherFiles DEF ImageStep
  <2> QED BY <1>1, <1>2, <2>1
<1>4. CASE DurableAppend(p)
  <2>1. UNCHANGED <<pending, applied, denied, audit>>
    BY <1>4 DEF DurableAppend, AppendWrite, AppendWriteFails, candidateVars
  <2>2. One("journal")
    BY <1>4, <2>1, OtherFiles DEF ImageStep, DurableAppend
  <2> QED BY <1>1, <1>2, <2>2
<1>5. CASE DurableIndex(p)
  BY <1>3, <1>5 DEF DurableIndex, InsertCommit, RebuildIndex, journalVars, candidateVars
<1>6. CASE DurableSubmit(p)
  <2>1. UNCHANGED <<journal, tear, applied, denied, audit>>
    BY <1>6 DEF DurableSubmit, SubmitAppend, SubmitFails, journalVars
  <2>2. CASE UNCHANGED <<pending, images>>
    BY <1>3, <2>1, <2>2
  <2>3. CASE WriteSync("pending", pending # {}) \/ Write("pending")
    <3>1. ImageStep("pending")
      BY <2>3 DEF ImageStep
    <3> QED BY <1>1, <1>2, <2>1, <3>1, OtherFiles
  <2> QED BY <1>6, <2>2, <2>3 DEF DurableSubmit
<1>7. CASE DurableResolve(p)
  <2>1. CASE MoveApplied(p)
    <3>1. UNCHANGED <<journal, tear, pending, denied, audit>>
      BY <2>1 DEF MoveApplied, journalVars
    <3>2. CASE job[p].batch = {}
      <4>1. UNCHANGED <<applied, images>>
        BY <1>7, <2>1, <3>2 DEF DurableResolve, MoveApplied, MoveDenied, RemovePending
      <4> QED BY <1>3, <3>1, <4>1
    <3>3. CASE job[p].batch # {}
      <4>1. Relink("applied")
        BY <1>7, <2>1, <3>3 DEF DurableResolve, MoveApplied, MoveDenied, RemovePending
      <4>2. ImageStep("applied")
        BY <4>1 DEF ImageStep
      <4> QED BY <1>1, <1>2, <3>1, <4>2, OtherFiles
    <3> QED BY <3>2, <3>3
  <2>2. CASE MoveDenied(p)
    <3>1. UNCHANGED <<journal, tear, pending, applied, audit>>
      BY <2>2 DEF MoveDenied, journalVars
    <3>2. CASE job[p].deny = {}
      <4>1. UNCHANGED images /\ denied' = {}
        BY <1>7, <2>2, <3>2 DEF DurableResolve, MoveApplied, MoveDenied, RemovePending
      <4>2. denied = {}
        BY <2>2, <3>2 DEF MoveDenied, Stages, Decided
      <4> QED BY <1>3, <3>1, <4>1, <4>2
    <3>3. CASE job[p].deny # {}
      <4>1. Relink("denied")
        BY <1>7, <2>2, <3>3 DEF DurableResolve, MoveApplied, MoveDenied, RemovePending
      <4>2. ImageStep("denied")
        BY <4>1 DEF ImageStep
      <4> QED BY <1>1, <1>2, <3>1, <4>2, OtherFiles
    <3> QED BY <3>2, <3>3
  <2>3. CASE RemovePending(p)
    <3>1. UNCHANGED <<journal, tear, applied, denied, audit>>
      BY <2>3 DEF RemovePending, journalVars
    <3> DEFINE D == (IF job[p].batch = {} THEN {} ELSE {"applied"})
                    \cup (IF job[p].deny = {} THEN {} ELSE {"denied"})
    <3>2. RelinkSync("pending", D)
      BY <1>7, <2>3 DEF DurableResolve, MoveApplied, MoveDenied, RemovePending
    <3>3. D \in SUBSET File
      BY DEF File
    <3> HIDE DEF D
    <3>4. ImageStep("pending")
      BY <3>2, <3>3 DEF ImageStep
    <3> QED BY <1>1, <1>2, <3>1, <3>4, OtherFiles
  <2> QED BY <1>7, <2>1, <2>2, <2>3 DEF DurableResolve
<1>8. CASE DurableMoveFails(p)
  <2>1. MoveFails(p)
    BY <1>8 DEF DurableMoveFails
  <2>2. CASE pending' # pending
    <3>1. UNCHANGED <<journal, tear, applied, denied, audit>>
      BY <2>1, <2>2 DEF MoveFails, journalVars
    <3>2. ImageStep("pending")
      BY <1>8, <2>2 DEF DurableMoveFails, ImageStep
    <3> QED BY <1>1, <1>2, <3>1, <3>2, OtherFiles
  <2>3. CASE pending' = pending /\ applied' # applied
    <3>1. UNCHANGED <<journal, tear, pending, denied, audit>>
      BY <2>1, <2>3 DEF MoveFails, journalVars
    <3>2. ImageStep("applied")
      BY <1>8, <2>3 DEF DurableMoveFails, ImageStep
    <3> QED BY <1>1, <1>2, <3>1, <3>2, OtherFiles
  <2>4. CASE pending' = pending /\ applied' = applied
    BY <1>3, <1>8, <2>1, <2>4 DEF DurableMoveFails, MoveFails, journalVars
  <2> QED BY <2>2, <2>3, <2>4
<1>9. CASE DurableCompact(p)
  <2>1. CASE RenameTmp(p)
    <3>1. UNCHANGED <<pending, applied, denied, audit>>
      BY <2>1 DEF RenameTmp, candidateVars
    <3>2. Relink("journal")
      BY <1>9, <2>1 DEF DurableCompact, RenameTmp, DeleteApplied, AuditAppend
    <3>3. ImageStep("journal")
      BY <3>2 DEF ImageStep
    <3> QED BY <1>1, <1>2, <3>1, <3>3, OtherFiles
  <2>2. CASE DeleteApplied(p)
    <3>1. UNCHANGED <<journal, tear, pending, denied, audit>>
      BY <2>2 DEF DeleteApplied, journalVars
    <3>2. CASE applied = {}
      <4>1. UNCHANGED <<applied, images>>
        BY <1>9, <2>2, <3>2 DEF DurableCompact, RenameTmp, DeleteApplied, AuditAppend, Uncompacted
      <4> QED BY <1>3, <3>1, <4>1
    <3>3. CASE applied # {}
      <4>1. RelinkSync("applied", {})
        BY <1>9, <2>2, <3>3 DEF DurableCompact, RenameTmp, DeleteApplied, AuditAppend
      <4>2. ImageStep("applied")
        BY <4>1 DEF ImageStep
      <4> QED BY <1>1, <1>2, <3>1, <4>2, OtherFiles
    <3> QED BY <3>2, <3>3
  <2>3. CASE AuditAppend(p)
    <3>1. UNCHANGED <<journal, tear, pending, applied, denied>>
      BY <2>3 DEF AuditAppend, journalVars
    <3>2. WriteSync("audit", audit > 0)
      BY <1>9, <2>3 DEF DurableCompact, RenameTmp, DeleteApplied, AuditAppend
    <3>3. ImageStep("audit")
      <4>1. (audit > 0) \in BOOLEAN
        OBVIOUS
      <4>2. \E exists \in BOOLEAN : WriteSync("audit", exists)
        BY <3>2, <4>1, Zenon
      <4> QED BY <4>2 DEF ImageStep
    <3> QED BY <1>1, <1>2, <3>1, <3>3, OtherFiles
  <2> QED BY <1>9, <2>1, <2>2, <2>3 DEF DurableCompact
<1>10. CASE DurableCleanupFails(p)
  <2>1. CleanupFails(p)
    BY <1>10 DEF DurableCleanupFails
  <2>2. CASE applied' # applied
    <3>1. UNCHANGED <<journal, tear, pending, denied, audit>>
      BY <2>1, <2>2 DEF CleanupFails, journalVars
    <3>2. ImageStep("applied")
      BY <1>10, <2>2 DEF DurableCleanupFails, ImageStep
    <3> QED BY <1>1, <1>2, <3>1, <3>2, OtherFiles
  <2>3. CASE applied' = applied /\ audit' # audit
    <3>1. UNCHANGED <<journal, tear, pending, applied, denied>>
      BY <2>1, <2>3 DEF CleanupFails, journalVars
    <3>2. ImageStep("audit")
      BY <1>10, <2>3 DEF DurableCleanupFails, ImageStep
    <3> QED BY <1>1, <1>2, <3>1, <3>2, OtherFiles
  <2>4. CASE applied' = applied /\ audit' = audit
    BY <1>3, <1>10, <2>1, <2>4 DEF DurableCleanupFails, CleanupFails, journalVars
  <2> QED BY <2>2, <2>3, <2>4
<1> QED BY <1>4, <1>5, <1>6, <1>7, <1>8, <1>9, <1>10 DEF WriteStep


-----------------------------------------------------------------------------
\* Types, on whatever disk.

\* The images are states of the files that there may be; one of them is present.
ImagesTyped ==
  /\ images \subseteq Image
  /\ \A i \in images :
       /\ \A c \in i.disk.pending \cup i.disk.applied \cup i.disk.denied : copies[c] # None
       /\ i.disk.audit <= audit
  /\ \E i \in images : Present(i)

\* What was sealed, and approved, exists.
AnsweredExist == sealed \subseteq RecId /\ \A c \in approved : copies[c] # None

\* No image has an approved candidate waiting for a decision.
DecidedOnDisk == \A i \in images : approved \cap i.disk.pending = {}

DurableInv == TypeInv /\ Stages /\ ImagesTyped /\ AnsweredExist /\ DecidedOnDisk

\* Present images tell of the files.
LEMMA PresentFiles ==
  ASSUME NEW i, Present(i)
  PROVE  /\ i.disk.journal.lines = journal /\ i.disk.journal.tear = tear
         /\ i.disk.pending = pending /\ i.disk.applied = applied /\ i.disk.denied = denied
         /\ i.disk.audit = audit
  BY DEF Present, Files

\* A power loss leaves files like any other, and no handlers.
LEMMA PowerLossTypes ==
  ASSUME DurableInv, PowerLoss
  PROVE  DurableInv'
<1>1. PICK i \in images :
        /\ journal' = i.disk.journal.lines /\ tear' = i.disk.journal.tear
        /\ pending' = i.disk.pending /\ applied' = i.disk.applied /\ denied' = i.disk.denied
        /\ audit' = i.disk.audit
        /\ images' = Settle(i.disk)
  BY DEF PowerLoss
<1>2. i \in Image /\ i.disk \in Disk
  BY DEF DurableInv, ImagesTyped, Image
<1>3. pc' = [p \in Worker |-> "idle"] /\ job' = [p \in Worker |-> NoJob]
  BY DEF PowerLoss
<1>4. TypeOK'
  <2>1. job' \in [Worker -> Job] /\ pc' \in [Worker -> Step]
    BY <1>3, NoJobIsJob DEF Step
  <2>2. journal' \in Seq(Record) /\ tear' \in {"none", "tail", "inner"} /\ audit' \in Nat
        /\ pending' \in SUBSET CandId /\ applied' \in SUBSET CandId /\ denied' \in SUBSET CandId
    BY <1>1, <1>2 DEF Disk
  <2>3. <<>> \in Seq(Record)
    OBVIOUS
  <2>4. tmp' \in Seq(Record) \cup {None} /\ crashes' \in Nat /\ up' \in BOOLEAN
        /\ fd' \in {"none", "current", "stale"}
        /\ jlock' \in LockStates(Worker) /\ clock' \in LockStates(Worker)
    <3>1. /\ tmp' \in {None, <<>>} /\ crashes' = crashes + 1 /\ up' = FALSE /\ fd' = "none"
          /\ jlock' = Unlocked /\ clock' = Unlocked
      BY DEF PowerLoss
    <3>2. Unlocked \in LockStates(Worker)
      BY DEF LockStates, Unlocked
    <3>3. crashes \in Nat
      BY DEF DurableInv, TypeInv, TypeOK
    <3>4. jlock' \in LockStates(Worker) /\ clock' \in LockStates(Worker)
      BY <3>1, <3>2
    <3>5. tmp' \in Seq(Record) \cup {None}
      BY <2>3, <3>1
    <3>6. crashes' \in Nat /\ fd' \in {"none", "current", "stale"}
      BY <3>1, <3>3
    <3>7. up' \in BOOLEAN
      BY <3>1
    <3> QED BY <3>4, <3>5, <3>6, <3>7
  <2>5. UNCHANGED <<row, copies, answer, submitted, approved, left, faults>>
    BY DEF PowerLoss, answerVars
  <2>6. TypeOK
    BY DEF DurableInv, TypeInv
  <2> QED BY <2>1, <2>2, <2>4, <2>5, <2>6 DEF TypeOK
<1>5. LockInv'
  BY <1>3 DEF PowerLoss, LockInv, LockDiscipline, Exclusive, Holders, Unlocked, LockStates, Step,
              AppendHolding, SharedHolding, ResolveHolding, CompactHolding
<1>6. Created' /\ Carried' /\ DownIdle' /\ Stages'
  BY <1>1, <1>3 DEF PowerLoss, NoJob, Created, Carried, DownIdle, Stages, DurableInv, ImagesTyped
<1>7. ImagesTyped' /\ AnsweredExist' /\ DecidedOnDisk'
  <2>1. PICK j : j = [disk |-> i.disk, lag |-> [d \in File |-> 0]]
    OBVIOUS
  <2>2. images' = {j} /\ j.disk = i.disk /\ \A d \in File : j.lag[d] = 0
    BY <1>1, <2>1 DEF Settle
  <2>3. j \in Image
    BY <1>2, <2>1 DEF Image
  <2>4. i.disk = Files'
    <3>1. Files' \in Disk
      BY <1>1, <1>2 DEF Files, Disk
    <3>2. \A d \in File : i.disk[d] = Files'[d]
      <4>1. i.disk.journal = [lines |-> journal', tear |-> tear']
        BY <1>1, <1>2 DEF Disk
      <4>2. /\ Files'.journal = [lines |-> journal', tear |-> tear']
            /\ Files'.pending = pending' /\ Files'.applied = applied' /\ Files'.denied = denied'
            /\ Files'.audit = audit'
        BY DEF Files
      <4> QED BY <1>1, <4>1, <4>2 DEF File
    <3> QED BY <1>2, <3>1, <3>2, SameDisk
  <2>5. Present(j)'
    BY <2>2, <2>3, <2>4 DEF Present
  <2>6. UNCHANGED <<copies, approved, sealed>>
    BY DEF PowerLoss, answerVars
  <2>7. audit' \in Nat
    BY <1>1, <1>2 DEF Disk
  <2> QED BY <1>1, <2>2, <2>3, <2>5, <2>6, <2>7 DEF DurableInv, ImagesTyped, AnsweredExist, DecidedOnDisk
<1> QED BY <1>4, <1>5, <1>6, <1>7 DEF DurableInv, TypeInv

\* An approval is answered when no image has its candidates pending.
LEMMA WriteApproves ==
  ASSUME NEW p \in Worker, WriteStep(p)
  PROVE  \/ UNCHANGED approved
         \/ RemovePending(p) /\ \E D \in SUBSET File : RelinkSync("pending", D)
<1>1. CASE DurableResolve(p)
  <2>1. CASE MoveApplied(p) \/ MoveDenied(p)
    BY <2>1 DEF MoveApplied, MoveDenied, answerVars
  <2>2. CASE /\ RemovePending(p)
             /\ RelinkSync("pending", (IF job[p].batch = {} THEN {} ELSE {"applied"})
                                      \cup (IF job[p].deny = {} THEN {} ELSE {"denied"}))
    BY <2>2 DEF File
  <2> QED BY <1>1, <2>1, <2>2 DEF DurableResolve
<1>2. CASE DurableAppend(p) \/ DurableIndex(p) \/ DurableSubmit(p)
  BY <1>2 DEF DurableAppend, DurableIndex, DurableSubmit, AppendWrite, AppendWriteFails, InsertCommit,
              RebuildIndex, SubmitAppend, SubmitFails, answerVars
<1>3. CASE DurableMoveFails(p) \/ DurableCompact(p) \/ DurableCleanupFails(p)
  BY <1>3 DEF DurableMoveFails, DurableCompact, DurableCleanupFails, MoveFails, RenameTmp,
              DeleteApplied, AuditAppend, CleanupFails, answerVars
<1> QED BY <1>1, <1>2, <1>3 DEF WriteStep

\* A candidate that is new in the pending file was not approved.
LEMMA NewNotApproved ==
  ASSUME DurableInv, [Next]_vars
  PROVE  approved \cap pending' = {}
<1>1. ASSUME NEW c \in approved \cap pending, TRUE PROVE FALSE
  BY <1>1, PresentFiles DEF DurableInv, ImagesTyped, DecidedOnDisk
<1>2. ASSUME NEW c \in pending' \ pending, c \in approved PROVE FALSE
  <2>1. PICK p \in Worker, d \in CandId : pc[p] = "submit.append" /\ WritePending(p, d)
    BY <1>2, PendingGrows
  <2>2. c = d /\ copies[c] = None
    BY <1>2, <2>1 DEF WritePending
  <2> QED BY <1>2, <2>2 DEF DurableInv, AnsweredExist
<1> QED BY <1>1, <1>2

\* Every file, as the processes see it, holds candidates that exist.
LEMMA FileCandidates ==
  ASSUME DurableInv, [Next]_vars
  PROVE  \A c \in pending' \cup applied' \cup denied' : copies'[c] # None
<1>1. TypeInv'
  BY NextTypes DEF DurableInv
<1>2. \A c \in denied : copies[c] # None /\ c \in CandId
  BY PresentFiles DEF DurableInv, ImagesTyped, TypeInv, TypeOK
<1>3. ASSUME NEW c \in denied' PROVE copies'[c] # None
  <2>1. CASE c \in denied \cup pending
    BY <1>2, <2>1, CandidatesStay DEF DurableInv, TypeInv, TypeOK, Created
  <2>2. ASSUME NEW p \in Worker, MoveDenied(p) PROVE c \in denied \cup pending
    BY <1>3, <2>2 DEF MoveDenied, DurableInv, Stages, Decided
  <2>3. ASSUME NEW p \in Worker, FileStep(p), ~ MoveDenied(p) PROVE c \in denied
    BY <1>3, <2>3 DEF FileStep, SubmitAppend, SubmitFails, MoveApplied, RemovePending, MoveFails,
                      DeleteApplied, CleanupFails
  <2> QED BY <1>3, <2>1, <2>2, <2>3, FileSteps
<1> QED BY <1>1, <1>3 DEF TypeInv, Created

\* A step that leaves the files alone leaves the present images present.
LEMMA PresentStays ==
  ASSUME NEW i, Present(i), UNCHANGED <<journal, tear, pending, applied, denied, audit>>
  PROVE  Present(i)'
  BY DEF Present, Files

\* A step that leaves the images and the files alone.
LEMMA UntouchedInv ==
  ASSUME DurableInv, [Next]_vars,
         UNCHANGED <<images, sealed, journal, tear, copies, pending, applied, denied, audit, approved>>
  PROVE  DurableInv'
<1>1. TypeInv' /\ Stages'
  BY NextTypes, StepStages DEF DurableInv
<1>2. \E i \in images : Present(i)'
  BY PresentStays DEF DurableInv, ImagesTyped
<1>3. ImagesTyped' /\ AnsweredExist' /\ DecidedOnDisk'
  BY <1>2 DEF DurableInv, ImagesTyped, AnsweredExist, DecidedOnDisk
<1> QED BY <1>1, <1>3 DEF DurableInv

\* A step that writes a file.
LEMMA WriteInv ==
  ASSUME DurableInv, NEW p \in Worker, WriteStep(p), Seal(p)
  PROVE  DurableInv'
<1>1. WorkerStep(p)
  BY WriteSteps DEF DurableInv
<1>2. [Next]_vars
  BY <1>1 DEF Next, WorkerStep
<1>3. TypeInv' /\ Stages'
  BY <1>2, NextTypes, StepStages DEF DurableInv
<1>4. PICK d \in File : ImageStep(d) /\ \A e \in File \ {d} : Files'[e] = Files[e]
  BY WriteSteps DEF DurableInv
<1>5. Files' \in Disk
  <2>1. (TypeInv => Files \in Disk)'
    BY FilesType, PTL
  <2> QED BY <1>3, <2>1
<1>6. images \subseteq Image
  BY DEF DurableInv, ImagesTyped
<1>7. audit \in Nat /\ audit' \in Nat /\ audit' >= audit
  <2>1. audit \in Nat /\ audit' \in Nat /\ job[p].count \in Nat
    BY <1>3 DEF DurableInv, TypeInv, TypeOK, Job
  <2>2. audit' = audit \/ audit' = audit + job[p].count
    BY DEF WriteStep, DurableAppend, DurableIndex, DurableSubmit, DurableResolve, DurableMoveFails,
           DurableCompact, DurableCleanupFails, AppendWrite, AppendWriteFails, InsertCommit, RebuildIndex,
           SubmitAppend, SubmitFails, MoveApplied, MoveDenied, RemovePending, MoveFails, RenameTmp,
           DeleteApplied, AuditAppend, CleanupFails, candidateVars
  <2> QED BY <2>1, <2>2
<1>8. /\ Files'["pending"] = pending' /\ Files'["applied"] = applied'
      /\ Files'["denied"] = denied' /\ Files'["audit"] = audit'
  BY DEF Files
<1>9. ASSUME NEW j \in images'
      PROVE  \E i \in images :
               /\ j \in Image
               /\ j.disk.pending = i.disk.pending \/ j.disk.pending = pending'
               /\ j.disk.applied = i.disk.applied \/ j.disk.applied = applied'
               /\ j.disk.denied = i.disk.denied \/ j.disk.denied = denied'
               /\ j.disk.audit = i.disk.audit \/ j.disk.audit = audit'
  <2>1. PICK i \in images : j = i \/ Lagging(i, j, d) \/ Exchanged(i, j, d) \/ Torn(i, j)
    BY <1>4, <1>5, <1>6, <1>9, StepImages
  <2>2. CASE j = i \/ Lagging(i, j, d)
    BY <1>6, <2>2 DEF Lagging
  <2>3. CASE Exchanged(i, j, d)
    BY <1>8, <2>3 DEF Exchanged, File
  <2>4. CASE Torn(i, j)
    BY <2>4 DEF Torn, File
  <2> QED BY <2>1, <2>2, <2>3, <2>4
<1>10. ImagesTyped'
  <2>1. images' \subseteq Image
    BY <1>9
  <2>2. \E j \in images' : Present(j)'
    BY <1>4, <1>5, <1>6, StepPresent DEF DurableInv, ImagesTyped
  <2>3. ASSUME NEW j \in images'
        PROVE  /\ \A c \in j.disk.pending \cup j.disk.applied \cup j.disk.denied : copies'[c] # None
               /\ j.disk.audit <= audit'
    <3>1. PICK i \in images :
               /\ j \in Image
               /\ j.disk.pending = i.disk.pending \/ j.disk.pending = pending'
               /\ j.disk.applied = i.disk.applied \/ j.disk.applied = applied'
               /\ j.disk.denied = i.disk.denied \/ j.disk.denied = denied'
               /\ j.disk.audit = i.disk.audit \/ j.disk.audit = audit'
      BY <1>9
    <3>2. \A c \in i.disk.pending \cup i.disk.applied \cup i.disk.denied : c \in CandId /\ copies[c] # None
      BY DEF DurableInv, ImagesTyped, Image, Disk
    <3>3. \A c \in i.disk.pending \cup i.disk.applied \cup i.disk.denied : copies'[c] # None
      BY <1>2, <3>2, CandidatesStay DEF DurableInv
    <3>4. i.disk.audit \in Nat /\ i.disk.audit <= audit
      BY DEF DurableInv, ImagesTyped, Image, Disk
    <3>5. j.disk.audit <= audit'
      BY <1>7, <3>1, <3>4
    <3>6. \A c \in pending' \cup applied' \cup denied' : copies'[c] # None
      BY <1>2, FileCandidates
    <3> QED BY <3>1, <3>3, <3>5, <3>6
  <2> QED BY <2>1, <2>2, <2>3 DEF ImagesTyped
<1>11. AnsweredExist'
  <2>1. sealed' \subseteq RecId
    <3>1. job[p].lines \in Seq(Record)
      BY DEF DurableInv, TypeInv, TypeOK, Job
    <3>2. \A k \in DOMAIN job[p].lines : job[p].lines[k] \in Record
      BY <3>1
    <3>3. Ids(job[p].lines) \subseteq RecId
      BY <3>2 DEF Ids, Record
    <3> QED BY <3>3 DEF Seal, DurableInv, AnsweredExist
  <2>2. ASSUME NEW c \in approved' PROVE c \in CandId /\ copies[c] # None
    <3>1. CASE c \in approved
      BY <3>1 DEF DurableInv, AnsweredExist, TypeInv, TypeOK
    <3>2. CASE RemovePending(p)
      BY <2>2, <3>1, <3>2 DEF RemovePending, DurableInv, TypeInv, TypeOK, Created, Job
    <3> QED BY <2>2, <3>1, <3>2, WriteApproves
  <2> QED BY <1>2, <2>1, <2>2, CandidatesStay DEF AnsweredExist, DurableInv
<1>12. DecidedOnDisk'
  <2>1. CASE UNCHANGED approved
    <3>1. ASSUME NEW j \in images' PROVE approved \cap j.disk.pending = {}
      BY <1>2, <1>9, NewNotApproved DEF DurableInv, DecidedOnDisk
    <3> QED BY <2>1, <3>1 DEF DecidedOnDisk
  <2>2. CASE RemovePending(p) /\ \E D \in SUBSET File : RelinkSync("pending", D)
    <3>1. PICK D \in SUBSET File : RelinkSync("pending", D)
      BY <2>2
    <3>2. ASSUME NEW j \in images' PROVE j.disk.pending = {}
      <4>1. "pending" \in File
        BY DEF File
      <4>2. j.disk["pending"] = Files'["pending"]
        BY <1>5, <1>6, <3>1, <4>1, RelinkSyncImages DEF Exchanged
      <4> QED BY <1>8, <2>2, <4>2 DEF RemovePending
    <3> QED BY <3>2 DEF DecidedOnDisk
  <2> QED BY <2>1, <2>2, WriteApproves
<1> QED BY <1>3, <1>10, <1>11, <1>12 DEF DurableInv

\* Before the first step no file holds candidates.
LEMMA InitDurable == DurableInit => DurableInv
<1> SUFFICES ASSUME DurableInit PROVE DurableInv
  OBVIOUS
<1>1. TypeInv /\ Stages
  BY InitTypes, InitCandidate DEF DurableInit, CandidateInv
<1>2. PICK i : i = [disk |-> Files, lag |-> [d \in File |-> 0]]
  OBVIOUS
<1>3. images = {i}
  BY <1>2 DEF DurableInit, Settle
<1>4. Present(i)
  <2>1. Files \in Disk
    BY <1>1, FilesType
  <2> QED BY <1>2, <2>1 DEF Present, Image
<1>5. pending = {} /\ applied = {} /\ denied = {} /\ audit = 0 /\ approved = {} /\ sealed = {}
  BY DEF DurableInit, Init
<1>6. ImagesTyped
  BY <1>3, <1>4, <1>5, PresentFiles DEF ImagesTyped, Present
<1>7. AnsweredExist /\ DecidedOnDisk
  BY <1>5 DEF AnsweredExist, DecidedOnDisk
<1> QED BY <1>1, <1>6, <1>7 DEF DurableInv

\* A step with the disk is a step of the partition or a power loss.
LEMMA DurableSteps ==
  ASSUME DurableInv, [DurableNext]_durableVars
  PROVE  \/ PowerLoss
         \/ [Next]_vars /\ \E p \in Worker : WorkerStep(p) /\ WriteStep(p) /\ Seal(p)
         \/ [Next]_vars /\ UNCHANGED <<images, sealed, journal, tear, copies, pending, applied, denied, audit,
                                       submitted, approved>>
<1>1. ASSUME NEW p \in Worker, QuietStep(p), UNCHANGED <<images, sealed>>
      PROVE  [Next]_vars /\ UNCHANGED <<images, sealed, journal, tear, copies, pending, applied, denied, audit,
                                       submitted, approved>>
  BY <1>1, QuietSteps DEF Next, WorkerStep
<1>2. ASSUME NEW p \in Worker, WriteStep(p), Seal(p)
      PROVE  [Next]_vars /\ WorkerStep(p) /\ WriteStep(p) /\ Seal(p)
  BY <1>2, WriteSteps DEF DurableInv, Next, WorkerStep
<1>3. CASE (Restart \/ RecoveryFails) /\ UNCHANGED <<images, sealed>>
  <2>1. UNCHANGED <<journal, tear, copies, pending, applied, denied, audit, submitted, approved>>
    BY <1>3 DEF Restart, RecoveryFails, journalVars, candidateVars, answerVars
  <2> QED BY <1>3, <2>1 DEF Next
<1>4. CASE UNCHANGED durableVars
  <2>1. UNCHANGED vars /\ UNCHANGED <<images, sealed>>
    BY <1>4 DEF durableVars
  <2> QED BY <2>1 DEF vars, journalVars, candidateVars, answerVars
<1> QED BY <1>1, <1>2, <1>3, <1>4 DEF DurableNext

\* The types hold, and what was decided stays so, over every step.
LEMMA NextDurable == DurableInv /\ [DurableNext]_durableVars => DurableInv'
  BY DurableSteps, PowerLossTypes, WriteInv, UntouchedInv

\* Whatever a power loss leaves, the next processes find files they can have
\* written, and the running ones see an image (store.go, Append and
\* MoveCandidates; jsonl.go, ReplaceFile).
THEOREM DurableAlways == DurableSpec => []DurableInv
<1> QED BY InitDurable, NextDurable, PTL DEF DurableSpec

\* The images hold records and candidates that exist, and one of them is what the
\* processes see, on any disk (store.go, Append, AppendCandidate, MoveCandidates;
\* jsonl.go, ReplaceFile).
THEOREM DurableTypes == DurableSpec => []DurableTypeOK
<1>1. ASSUME DurableInv PROVE DurableTypeOK
  <2>1. ASSUME NEW i \in images
        PROVE  /\ Ids(i.disk.journal.lines) \subseteq RecId
               /\ i.disk.journal.tear \in {"none", "tail", "inner"}
               /\ \A d \in {"pending", "applied", "denied"} : \A c \in i.disk[d] : copies[c] # None
               /\ i.disk.audit \in 0..audit
               /\ i.lag \in [File -> Nat]
    <3>1. i.disk \in Disk /\ i.lag \in [File -> Nat]
      BY <1>1 DEF DurableInv, ImagesTyped, Image
    <3>2. /\ i.disk.journal.lines \in Seq(Record)
          /\ i.disk.journal.tear \in {"none", "tail", "inner"} /\ i.disk.audit \in Nat
      BY <3>1 DEF Disk
    <3>3. \A k \in DOMAIN i.disk.journal.lines : i.disk.journal.lines[k] \in Record
      BY <3>2
    <3>4. Ids(i.disk.journal.lines) \subseteq RecId
      BY <3>3 DEF Ids, Record
    <3>5. audit \in Nat /\ i.disk.audit <= audit
      BY <1>1 DEF DurableInv, ImagesTyped, TypeInv, TypeOK
    <3>6. \A c \in i.disk.pending \cup i.disk.applied \cup i.disk.denied : copies[c] # None
      BY <1>1 DEF DurableInv, ImagesTyped
    <3> QED BY <3>1, <3>2, <3>4, <3>5, <3>6
  <2> QED BY <1>1, <2>1 DEF DurableTypeOK, DurableInv, ImagesTyped, AnsweredExist, Present
<1> QED BY <1>1, DurableAlways, PTL

\* A candidate whose approval was answered never waits for a decision again,
\* whatever power losses follow and however the disk orders renames: the answer
\* comes after the directory of the pending file is synced (store.go, MoveCandidates).
THEOREM DecisionsAreDurable == DurableSpec => []DecidedStaysDecided
<1>1. DurableInv => DecidedStaysDecided
  BY PresentFiles DEF DurableInv, ImagesTyped, DecidedOnDisk, DecidedStaysDecided
<1> QED BY <1>1, DurableAlways, PTL

\* The locks follow the handlers over power losses (pkg/flock/flock.go: the locks
\* are those of open files, and nothing on the disk keeps them).
THEOREM DurableLocks == DurableSpec => []LockDiscipline
<1>1. DurableInv => LockDiscipline
  BY DEF DurableInv, TypeInv, LockInv
<1> QED BY <1>1, DurableAlways, PTL


-----------------------------------------------------------------------------
\* A disk that orders renames.  Every image is one the next processes can go on
\* from, and those that lack no rename are close to what the processes see.

\* The lines hold a version of the record later than that in candidate c.
SettledBy(c, lines) ==
  \E k \in DOMAIN lines :
    /\ lines[k].id = copies[c].id
    /\ NormalizedRevision(lines[k].rev) > NormalizedRevision(copies[c].rev)

\* A file with one line for each record, at a revision that counts replacements.
CountedLines(lines) ==
  \A k \in DOMAIN lines :
    /\ \A j \in DOMAIN lines : lines[j].id = lines[k].id => j = k
    /\ Counted(lines[k])

Recoverable(disk) ==
  LET lines == disk.journal.lines
  IN  /\ CountedLines(lines)
      /\ \A c \in disk.pending \cup disk.applied : Descends(copies[c], lines)
      /\ ValidResolution(disk.applied)
      /\ \A c \in submitted : c \in disk.pending \cup disk.applied \cup disk.denied \/ SettledBy(c, lines)
      /\ \A c \in approved : c \in disk.applied \/ SettledBy(c, lines)
      /\ sealed \subseteq Ids(lines)

\* Every rename and removal is in the image.
Current(i) == \A d \in File : i.lag[d] = 0

\* The lines "full", or these without some of the last that were appended.
Begins(short, full) ==
  /\ Len(short) <= Len(full)
  /\ \A k \in DOMAIN short : short[k] = full[k]
  /\ \A k \in DOMAIN full \ DOMAIN short : full[k].by = <<>>

\* A compaction has renamed its rewrite and not finished.
RewriteDone ==
  \E p \in Worker : pc[p] \in {"compact.evict", "compact.delete", "compact.rebuild", "compact.audit"}

\* Such an image may lack lines at the end of the journal, and candidates whose
\* submission was not answered.
UpToDate(i) ==
  /\ i.disk.applied = applied /\ i.disk.denied = denied
  /\ i.disk.pending \subseteq pending /\ pending \cap submitted \subseteq i.disk.pending
  /\ Begins(i.disk.journal.lines, journal)
  /\ RewriteDone => i.disk.journal.lines = journal

ImagesRecoverable == \A i \in images : Recoverable(i.disk) /\ (Current(i) => UpToDate(i))

CarriedInv == Rewrites /\ VersionInv /\ CandidateInv /\ LinesCurrent

DiskInv == OrderedMetadata /\ DurableInv /\ CarriedInv /\ ImagesRecoverable

\* What the handlers carry over each step is right, whatever the images.
LEMMA StepCarried ==
  ASSUME TypeInv, CarriedInv, [Next]_vars
  PROVE  TypeInv' /\ CarriedInv'
<1>1. TypeInv'
  BY NextTypes
<1>2. Rewrites' /\ VersionInv' /\ LinesCurrent'
  BY <1>1, StepRewrites, StepVersions, StepLinesCurrent DEF CarriedInv
<1>3. CandidateInv'
  BY <1>1, <1>2, StepBatches, StepStages, StepBatchSettled, StepConserved DEF CarriedInv, CandidateInv
<1> QED BY <1>1, <1>2, <1>3 DEF CarriedInv

\* Settled is settled by the journal,
LEMMA SettledByJournal ==
  ASSUME NEW c
  PROVE  Settled(c) <=> SettledBy(c, journal)
  BY DEF Settled, SettledBy

\* by more lines if by fewer;
LEMMA BeginsSettles ==
  ASSUME NEW short \in Seq(Record), NEW full \in Seq(Record), Begins(short, full), NEW c
  PROVE  /\ SettledBy(c, short) => SettledBy(c, full)
         /\ Ids(short) \subseteq Ids(full)
<1>1. \A k \in DOMAIN short : k \in DOMAIN full /\ short[k] = full[k]
  BY DEF Begins
<1> QED BY <1>1 DEF SettledBy, Ids

\* a candidate whose line is not among fewer lines was made from a record that
\* nothing had replaced.
LEMMA BeginsDescends ==
  ASSUME NEW short \in Seq(Record), NEW full \in Seq(Record), Begins(short, full), CountedLines(full),
         NEW copy \in Record, Descends(copy, full)
  PROVE  Descends(copy, short)
<1>1. \A k \in DOMAIN short : k \in DOMAIN full /\ short[k] = full[k]
  BY DEF Begins
<1>2. CASE copy.by = <<>> /\ copy.id \notin Ids(full)
  BY <1>1, <1>2 DEF Descends, Ids
<1>3. ASSUME NEW k \in DOMAIN full, VersionOf(copy, full[k]) PROVE Descends(copy, short)
  <2>1. CASE k \in DOMAIN short
    BY <1>1, <1>3, <2>1 DEF Descends
  <2>2. CASE k \notin DOMAIN short
    <3>1. full[k].by = <<>> /\ copy.id = full[k].id /\ Len(copy.by) <= Len(full[k].by)
      BY <1>3, <2>2 DEF Begins, VersionOf
    <3>2. copy.by \in Seq(CandId)
      BY DEF Record
    <3>3. copy.by = <<>>
      BY <3>1, <3>2
    <3>4. \A j \in DOMAIN short : short[j].id # copy.id
      BY <1>1, <2>2, <3>1 DEF CountedLines
    <3> QED BY <3>3, <3>4 DEF Descends, Ids
  <2> QED BY <2>1, <2>2
<1> QED BY <1>2, <1>3 DEF Descends

\* The journal begins with itself.
LEMMA BeginsItself ==
  ASSUME NEW lines \in Seq(Record)
  PROVE  Begins(lines, lines)
  BY DEF Begins

\* Without a lag an image is reached by every write.
LEMMA UpToCurrent ==
  ASSUME OrderedMetadata, images \subseteq Image, NEW D, NEW i \in UpTo(D), D # {}
  PROVE  i \in images /\ Current(i)
<1>1. i \in images /\ \A e \in File : ~ i.lag[e] > 0
  BY DEF UpTo, Behind
<1>2. \A e \in File : i.lag[e] \in Nat
  BY <1>1 DEF Image
<1> QED BY <1>1, <1>2 DEF Current

\* An image stays as good as it was.
LEMMA RecoverableStays ==
  ASSUME TypeInv, [Next]_vars, NEW disk, Recoverable(disk), AnsweredExist, SubmittedExist,
         \A c \in disk.pending \cup disk.applied : c \in CandId /\ copies[c] # None,
         UNCHANGED <<submitted, approved, sealed>>
  PROVE  Recoverable(disk)'
<1>1. \A c \in disk.pending \cup disk.applied \cup submitted \cup approved : copies'[c] = copies[c]
  BY CandidatesStay DEF TypeInv, TypeOK, AnsweredExist, SubmittedExist
<1>2. \A c \in disk.pending \cup disk.applied : Descends(copies'[c], disk.journal.lines)
  BY <1>1 DEF Recoverable
<1>3. \A c, d \in disk.applied : copies'[c].id = copies'[d].id => c = d
  BY <1>1 DEF Recoverable, ValidResolution
<1>4. \A c \in submitted \cup approved : SettledBy(c, disk.journal.lines) => SettledBy(c, disk.journal.lines)'
  BY <1>1 DEF SettledBy
<1> QED BY <1>2, <1>3, <1>4 DEF Recoverable, ValidResolution

\* The rename is what starts the end of a compaction.
LEMMA RewriteDoneComes ==
  ASSUME TypeInv, [Next]_vars, RewriteDone'
  PROVE  RewriteDone \/ \E p \in Worker : RenameTmp(p)
<1>1. PICK p \in Worker :
        pc'[p] \in {"compact.evict", "compact.delete", "compact.rebuild", "compact.audit"}
  BY DEF RewriteDone
<1>2. CASE WorkerStep(p)
  <2>1. \/ RenameTmp(p)
        \/ Evict(p)
        \/ pc[p] \in {"compact.delete", "compact.rebuild"}
    BY <1>1, <1>2, StepGoes
  <2> QED BY <2>1 DEF Evict, RewriteDone
<1>3. CASE \E q \in Worker \ {p} : WorkerStep(q)
  BY <1>1, <1>3, OthersStay DEF RewriteDone
<1>4. CASE Crash
  BY <1>1, <1>4 DEF Crash
<1>5. CASE UNCHANGED workerVars \/ UNCHANGED vars
  BY <1>1, <1>5 DEF workerVars, vars, RewriteDone
<1> QED BY <1>2, <1>3, <1>4, <1>5, StepKinds


\* It does not start in a step of a worker elsewhere.
LEMMA RewriteDoneStays ==
  ASSUME TypeInv, NEW p \in Worker, WorkerStep(p), pc[p] # "compact.rename" \/ pc'[p] = "idle", RewriteDone'
  PROVE  RewriteDone
<1>1. PICK q \in Worker :
        pc'[q] \in {"compact.evict", "compact.delete", "compact.rebuild", "compact.audit"}
  BY DEF RewriteDone
<1>2. CASE q # p
  BY <1>1, <1>2, OthersStay DEF RewriteDone
<1>3. CASE q = p
  <2>1. \/ RenameTmp(p)
        \/ Evict(p)
        \/ pc[p] \in {"compact.delete", "compact.rebuild"}
    BY <1>1, <1>3, StepGoes
  <2>2. ~ RenameTmp(p)
    BY <1>1, <1>3 DEF RenameTmp
  <2> QED BY <2>1, <2>2 DEF Evict, RewriteDone
<1> QED BY <1>2, <1>3

\* What the images promise of candidates and records, after a step that leaves
\* these lines in the journal.
Traced(lines) ==
  /\ sealed' \subseteq Ids(lines)
  /\ \A c \in submitted' :
       c \in pending' \cup applied' \cup denied' \/ (c \in submitted /\ SettledBy(c, lines))
  /\ \A c \in approved' : c \in applied' \/ (c \in approved /\ SettledBy(c, lines))

\* What a current image says of the present files.
LEMMA CurrentTrace ==
  ASSUME DiskInv, NEW i \in images, Current(i)
  PROVE  LET lines == i.disk.journal.lines
         IN  /\ sealed \subseteq Ids(lines)
             /\ \A c \in submitted : c \in pending \cup applied \cup denied \/ SettledBy(c, lines)
             /\ \A c \in approved : c \in applied \/ SettledBy(c, lines)
             /\ RewriteDone => lines = journal
             /\ lines \in Seq(Record)
             /\ Begins(lines, journal)
<1>1. i.disk.journal.lines \in Seq(Record)
  BY DEF DiskInv, DurableInv, ImagesTyped, Image, Disk
<1> QED BY <1>1 DEF DiskInv, ImagesRecoverable, Recoverable, UpToDate

\* The lines of the journal are counted.
LEMMA JournalCounted == VersionInv <=> VersionInv /\ CountedLines(journal)
  BY DEF VersionInv, RevisionCounts, CountedLines, Counted

\* A new state of a candidate file reaches a current image.
LEMMA ExchangedImage ==
  ASSUME DiskInv, TypeInv', CarriedInv', [Next]_vars, UNCHANGED journal, RewriteDone' => RewriteDone,
         NEW i \in images, Current(i), Traced(i.disk.journal.lines),
         NEW d \in {"pending", "applied", "denied", "audit"},
         \A e \in File \ {d} : Files'[e] = Files[e], d # "pending" => UNCHANGED submitted,
         NEW j, Exchanged(i, j, d)
  PROVE  Recoverable(j.disk)' /\ UpToDate(j)'
<1> DEFINE lines == i.disk.journal.lines
<1>1. /\ j \in Image /\ j.disk.journal = i.disk.journal
      /\ j.disk.applied = applied' /\ j.disk.denied = denied'
      /\ j.disk.pending \subseteq pending' /\ pending' \cap submitted' \subseteq j.disk.pending
  <2>1. /\ Files.pending = pending /\ Files.applied = applied /\ Files.denied = denied
        /\ Files'.pending = pending' /\ Files'.applied = applied' /\ Files'.denied = denied'
    BY DEF Files
  <2>2. /\ i.disk.applied = applied /\ i.disk.denied = denied
        /\ i.disk.pending \subseteq pending /\ pending \cap submitted \subseteq i.disk.pending
    BY DEF DiskInv, ImagesRecoverable, UpToDate
  <2>3. CASE d = "pending"
    BY <2>1, <2>2, <2>3 DEF Exchanged, File
  <2>4. CASE d = "applied"
    BY <2>1, <2>2, <2>4 DEF Exchanged, File
  <2>5. CASE d = "denied"
    BY <2>1, <2>2, <2>5 DEF Exchanged, File
  <2>6. CASE d = "audit"
    BY <2>1, <2>2, <2>6 DEF Exchanged, File
  <2> QED BY <2>3, <2>4, <2>5, <2>6
<1>2. /\ lines \in Seq(Record) /\ Begins(lines, journal) /\ journal \in Seq(Record)
      /\ RewriteDone => lines = journal
  BY CurrentTrace DEF DiskInv, DurableInv, TypeInv, TypeOK
<1>3. CountedLines(lines)
  BY DEF DiskInv, ImagesRecoverable, Recoverable
<1>4. ASSUME NEW c \in j.disk.pending \cup j.disk.applied PROVE Descends(copies'[c], lines)
  <2>1. c \in pending' \cup applied'
    BY <1>1, <1>4
  <2>2. copies'[c] \in Record
    BY <2>1 DEF TypeInv, TypeOK, Created
  <2>3. Descends(copies'[c], journal')
    BY <2>1 DEF CarriedInv, VersionInv, CopiesMatch, Live
  <2>4. Descends(copies'[c], journal) /\ CountedLines(journal)
    BY <2>3, JournalCounted DEF DiskInv, CarriedInv
  <2>5. PICK copy : copy = copies'[c]
    OBVIOUS
  <2>6. copy \in Record /\ Descends(copy, journal)
    BY <2>2, <2>4, <2>5
  <2>7. Descends(copy, lines)
    BY <1>2, <2>4, <2>6, BeginsDescends
  <2> QED BY <2>5, <2>7
<1>5. \A c \in submitted \cup approved : copies'[c] = copies[c]
  BY CandidatesStay DEF DiskInv, DurableInv, TypeInv, TypeOK, AnsweredExist, CarriedInv, CandidateInv,
                        SubmittedExist
<1>6. \A c \in submitted \cup approved : SettledBy(c, lines) => SettledBy(c, lines)'
  BY <1>1, <1>5 DEF SettledBy
<1>7. \A c, e \in j.disk.applied : copies'[c].id = copies'[e].id => c = e
  BY <1>1 DEF CarriedInv, CandidateInv, Batches, ValidResolution
<1>8. /\ \A c \in submitted' : c \in j.disk.pending \cup j.disk.applied \cup j.disk.denied \/ SettledBy(c, lines)'
      /\ \A c \in approved' : c \in j.disk.applied \/ SettledBy(c, lines)'
      /\ sealed' \subseteq Ids(lines)
  BY <1>1, <1>6 DEF Traced
<1>9. Recoverable(j.disk)'
  BY <1>1, <1>3, <1>4, <1>7, <1>8 DEF Recoverable, ValidResolution
<1>10. UpToDate(j)'
  <2>1. Begins(j.disk.journal.lines, journal') /\ (RewriteDone' => j.disk.journal.lines = journal')
    BY <1>1, <1>2
  <2> QED BY <1>1, <2>1 DEF UpToDate, Begins
<1> QED BY <1>9, <1>10


\* An image stays a state to go on from when nobody is answered.
LEMMA KeptRecoverable ==
  ASSUME DiskInv, [Next]_vars, NEW i \in images, UNCHANGED <<submitted, approved, sealed>>
  PROVE  Recoverable(i.disk)'
<1> DEFINE disk == i.disk
<1>1. /\ TypeInv /\ AnsweredExist /\ SubmittedExist /\ Recoverable(disk)
      /\ \A c \in disk.pending \cup disk.applied : c \in CandId /\ copies[c] # None
  BY DEF DiskInv, DurableInv, CarriedInv, CandidateInv, ImagesTyped, ImagesRecoverable, Image, Disk
<1> HIDE DEF disk
<1>2. Recoverable(disk)'
  BY <1>1, RecoverableStays
<1> QED BY <1>2 DEF disk

\* The images that a step keeps are as good as they were when it writes no file
\* and answers nobody.
LEMMA KeptImages ==
  ASSUME DiskInv, [Next]_vars, images' \subseteq images, RewriteDone' => RewriteDone,
         UNCHANGED <<journal, pending, applied, denied, submitted, approved, sealed>>
  PROVE  ImagesRecoverable'
<1> SUFFICES ASSUME NEW i \in images'
             PROVE  Recoverable(i.disk)' /\ (Current(i) => UpToDate(i)')
  BY DEF ImagesRecoverable, Current
<1>1. i \in images
  OBVIOUS
<1>2. Recoverable(i.disk)'
  BY <1>1, KeptRecoverable
<1>3. ASSUME Current(i) PROVE UpToDate(i)'
  <2>1. UpToDate(i)
    BY <1>1, <1>3 DEF DiskInv, ImagesRecoverable
  <2> QED BY <2>1 DEF UpToDate, Begins
<1> QED BY <1>2, <1>3

\* After a step that syncs what it writes, every image has it.
LEMMA SyncedImages ==
  ASSUME OrderedMetadata, images \subseteq Image, Files' \in Disk, NEW d \in File,
         \/ \E D \in SUBSET File : RelinkSync(d, D)
         \/ \E exists \in BOOLEAN : WriteSync(d, exists),
         NEW j \in images'
  PROVE  \E i \in images : Current(i) /\ Exchanged(i, j, d)
<1>1. CASE \E D \in SUBSET File : RelinkSync(d, D)
  <2>1. PICK D \in SUBSET File : RelinkSync(d, D)
    BY <1>1
  <2>2. PICK i \in UpTo({d} \cup D) : Exchanged(i, j, d)
    BY <2>1, RelinkSyncImages
  <2> QED BY <2>2, UpToCurrent
<1>2. CASE \E exists \in BOOLEAN : WriteSync(d, exists)
  <2>1. PICK i \in UpTo({d}) : Exchanged(i, j, d)
    BY <1>2, WrittenImages DEF WriteSync
  <2> QED BY <2>1, UpToCurrent
<1> QED BY <1>1, <1>2

\* What every current image has to say of a step.
AllTraced == \A i \in images : Current(i) => Traced(i.disk.journal.lines)

\* A step that writes a candidate file, or the audit: it answers nobody, or what it
\* wrote is synced with all renames before.
LEMMA CandidateWrites ==
  ASSUME DiskInv, TypeInv', CarriedInv', [Next]_vars, UNCHANGED journal, RewriteDone' => RewriteDone,
         NEW d \in {"pending", "applied", "denied", "audit"},
         \A e \in File \ {d} : Files'[e] = Files[e], d # "pending" => UNCHANGED submitted,
         AllTraced,
         \/ \E D \in SUBSET File : RelinkSync(d, D)
         \/ \E exists \in BOOLEAN : WriteSync(d, exists)
         \/ Relink(d) /\ UNCHANGED <<submitted, approved, sealed>>
         \/ /\ Write(d) /\ UNCHANGED <<applied, denied, submitted, approved, sealed>>
            /\ pending \subseteq pending' /\ pending' \cap submitted \subseteq pending
  PROVE  ImagesRecoverable'
<1> SUFFICES ASSUME NEW j \in images'
             PROVE  Recoverable(j.disk)' /\ (Current(j) => UpToDate(j)')
  BY DEF ImagesRecoverable, Current
<1>1. OrderedMetadata /\ images \subseteq Image /\ d \in File
  BY DEF DiskInv, DurableInv, ImagesTyped, File
<1>2. Files' \in Disk
  <2>1. (TypeInv => Files \in Disk)'
    BY FilesType, PTL
  <2> QED BY <2>1
<1>3. CASE \E i \in images : Current(i) /\ Exchanged(i, j, d)
  BY <1>3, ExchangedImage DEF AllTraced
<1>4. CASE \/ \E D \in SUBSET File : RelinkSync(d, D)
           \/ \E exists \in BOOLEAN : WriteSync(d, exists)
  BY <1>1, <1>2, <1>3, <1>4, SyncedImages
<1>5. CASE Relink(d) /\ UNCHANGED <<submitted, approved, sealed>>
  <2>1. ASSUME NEW i \in images, Lagging(i, j, d)
        PROVE  Recoverable(j.disk)' /\ ~ Current(j)
    <3>1. Recoverable(i.disk)'
      BY <1>5, KeptRecoverable
    <3>2. j.disk = i.disk
      BY <2>1 DEF Lagging
    <3>3. Recoverable(j.disk)'
      BY <3>1, <3>2 DEF Recoverable
    <3> QED BY <1>1, <2>1, <3>3 DEF Lagging, Current
  <2>2. ASSUME NEW i \in UpTo({d}), Exchanged(i, j, d)
        PROVE  Recoverable(j.disk)' /\ (Current(j) => UpToDate(j)')
    BY <1>1, <1>3, <2>2, UpToCurrent
  <2> QED BY <1>1, <1>2, <1>5, <2>1, <2>2, RelinkImages
<1>6. CASE /\ Write(d) /\ UNCHANGED <<applied, denied, submitted, approved, sealed>>
           /\ pending \subseteq pending' /\ pending' \cap submitted \subseteq pending
  <2>1. CASE j \in images
    <3>1. Recoverable(j.disk)'
      BY <1>6, <2>1, KeptRecoverable
    <3>2. ASSUME Current(j) PROVE UpToDate(j)'
      <4>1. UpToDate(j)
        BY <2>1, <3>2 DEF DiskInv, ImagesRecoverable
      <4> QED BY <1>6, <4>1 DEF UpToDate, Begins
    <3> QED BY <3>1, <3>2
  <2>2. ASSUME NEW i \in UpTo({d}), Exchanged(i, j, d)
        PROVE  Recoverable(j.disk)' /\ (Current(j) => UpToDate(j)')
    BY <1>1, <1>3, <2>2, UpToCurrent
  <2> QED BY <1>1, <1>2, <1>6, <2>1, <2>2, WrittenImages DEF Write
<1> QED BY <1>4, <1>5, <1>6


\* What holds after a step of a handler that writes.
LEMMA WriteContext ==
  ASSUME DiskInv, NEW p \in Worker, WriteStep(p)
  PROVE  /\ WorkerStep(p) /\ [Next]_vars /\ TypeInv' /\ CarriedInv'
         /\ pc[p] # "compact.rename" => (RewriteDone' => RewriteDone)
<1>1. TypeInv /\ Stages /\ CarriedInv
  BY DEF DiskInv, DurableInv
<1>2. WorkerStep(p)
  BY <1>1, WriteSteps
<1>3. [Next]_vars
  BY <1>2 DEF Next, WorkerStep
<1> QED BY <1>1, <1>2, <1>3, StepCarried, RewriteDoneStays

\* A step that loses no candidate, and none from the applied file that was approved.
Moved ==
  /\ UNCHANGED sealed
  /\ submitted' \subseteq submitted \cup pending'
  /\ approved' \subseteq approved \cup applied'
  /\ pending \cup applied \cup denied \subseteq pending' \cup applied' \cup denied'
  /\ approved \cap applied \subseteq applied'

LEMMA MovedTraced ==
  ASSUME DiskInv, Moved
  PROVE  AllTraced
  BY CurrentTrace DEF AllTraced, Traced, Moved

\* The other step is a compaction's deletion: what it deletes is settled by the
\* rewrite, and every current image has that.
LEMMA DeletedTraced ==
  ASSUME DiskInv, NEW p \in Worker, pc[p] = "compact.delete", applied' = Uncompacted(p),
         UNCHANGED <<pending, denied, submitted, approved, sealed>>
  PROVE  AllTraced
<1> SUFFICES ASSUME NEW i \in images, Current(i)
             PROVE  Traced(i.disk.journal.lines)
  BY DEF AllTraced
<1> DEFINE lines == i.disk.journal.lines
<1>1. RewriteDone
  BY DEF RewriteDone
<1>2. lines = journal
  BY <1>1, CurrentTrace
<1>3. ASSUME NEW c \in applied, c \notin applied' PROVE SettledBy(c, lines)
  <2>1. c \in job[p].batch
    BY <1>3 DEF Uncompacted
  <2>2. Settled(c)
    BY <2>1 DEF DiskInv, CarriedInv, CandidateInv, BatchSettled
  <2> QED BY <1>2, <2>2, SettledByJournal
<1> QED BY <1>3, CurrentTrace DEF Traced

\* The end of a compaction: the records that it seals are in the journal of every
\* current image.
LEMMA AuditTraced ==
  ASSUME DiskInv, NEW p \in Worker, pc[p] = "compact.audit", Seal(p),
         UNCHANGED <<pending, applied, denied, submitted, approved>>
  PROVE  AllTraced
<1> SUFFICES ASSUME NEW i \in images, Current(i)
             PROVE  Traced(i.disk.journal.lines)
  BY DEF AllTraced
<1> DEFINE lines == i.disk.journal.lines
<1>1. RewriteDone
  BY DEF RewriteDone
<1>2. lines = journal
  BY <1>1, CurrentTrace
<1>3. job[p].lines = journal
  BY DEF DiskInv, CarriedInv, LinesCurrent
<1>4. sealed' \subseteq Ids(lines)
  BY <1>2, <1>3, CurrentTrace DEF Seal
<1> QED BY <1>4, CurrentTrace DEF Traced

\* Only the audit seals.
LEMMA SealsLater ==
  ASSUME NEW p \in Worker, Seal(p), pc[p] # "compact.audit" \/ faults' # faults
  PROVE  UNCHANGED sealed
  BY DEF Seal

\* A submission.
LEMMA SubmitSurvives ==
  ASSUME DiskInv, NEW p \in Worker, DurableSubmit(p), Seal(p)
  PROVE  ImagesRecoverable'
<1>1. [Next]_vars /\ TypeInv' /\ CarriedInv' /\ (RewriteDone' => RewriteDone)
  BY WriteContext DEF WriteStep, DurableSubmit, SubmitAppend, SubmitFails
<1>2. /\ UNCHANGED <<journal, tear, applied, denied, audit, approved, sealed>>
  BY SealsLater DEF DurableSubmit, SubmitAppend, SubmitFails, journalVars, answerVars
<1>3. \A e \in File \ {"pending"} : Files'[e] = Files[e]
  BY <1>2, OtherFiles
<1>4. CASE SubmitAppend(p) /\ WriteSync("pending", pending # {})
  <2>1. AllTraced
    BY <1>2, <1>4, MovedTraced DEF SubmitAppend, WritePending, Moved
  <2>2. (pending # {}) \in BOOLEAN
    OBVIOUS
  <2>3. \E exists \in BOOLEAN : WriteSync("pending", exists)
    BY <1>4, <2>2, Zenon
  <2> QED BY <1>1, <1>2, <1>3, <2>1, <2>3, CandidateWrites
<1>5. CASE SubmitFails(p) /\ pending' # pending
  <2>1. PICK c \in CandId : WritePending(p, c)
    BY <1>5 DEF SubmitFails
  <2>2. c \notin submitted
    BY <2>1 DEF WritePending, DiskInv, CarriedInv, CandidateInv, SubmittedExist
  <2>3. UNCHANGED submitted
    BY <1>5 DEF SubmitFails, answerVars
  <2>4. AllTraced
    BY <1>2, <2>1, <2>3, MovedTraced DEF WritePending, Moved
  <2>5. Write("pending")
    BY <1>5 DEF DurableSubmit, SubmitFails, SubmitAppend, Fault, boundVars
  <2>6. pending \subseteq pending' /\ pending' \cap submitted \subseteq pending
    BY <2>1, <2>2 DEF WritePending
  <2> QED BY <1>1, <1>2, <1>3, <2>3, <2>4, <2>5, <2>6, CandidateWrites
<1>6. CASE SubmitFails(p) /\ pending' = pending /\ UNCHANGED images
  <2>1. UNCHANGED submitted
    BY <1>6 DEF SubmitFails, answerVars
  <2> QED BY <1>1, <1>2, <1>6, <2>1, KeptImages
<1> QED BY <1>4, <1>5, <1>6 DEF DurableSubmit


\* A resolve, at each rename.
LEMMA ResolveSurvives ==
  ASSUME DiskInv, NEW p \in Worker, DurableResolve(p), Seal(p)
  PROVE  ImagesRecoverable'
<1>1. [Next]_vars /\ TypeInv' /\ CarriedInv' /\ (RewriteDone' => RewriteDone)
  BY WriteContext DEF WriteStep, DurableResolve, MoveApplied, MoveDenied, RemovePending
<1>2. UNCHANGED <<journal, tear, audit, submitted, sealed>>
  BY SealsLater DEF DurableResolve, MoveApplied, MoveDenied, RemovePending, journalVars, answerVars
<1>3. Stages
  BY DEF DiskInv, DurableInv
<1>4. CASE /\ MoveApplied(p)
           /\ IF job[p].batch = {} THEN UNCHANGED images ELSE Relink("applied")
  <2>1. UNCHANGED <<pending, denied, approved>> /\ pc[p] = "resolve.applied" /\ applied = {}
        /\ applied' = job[p].batch
    BY <1>3, <1>4 DEF MoveApplied, Stages, answerVars
  <2>2. CASE job[p].batch = {}
    BY <1>1, <1>2, <1>4, <2>1, <2>2, KeptImages
  <2>3. CASE job[p].batch # {}
    <3>1. AllTraced
      BY <1>2, <2>1, MovedTraced DEF Moved
    <3>2. \A e \in File \ {"applied"} : Files'[e] = Files[e]
      BY <1>2, <2>1, OtherFiles
    <3> QED BY <1>1, <1>2, <1>4, <2>1, <2>3, <3>1, <3>2, CandidateWrites
  <2> QED BY <2>2, <2>3
<1>5. CASE /\ MoveDenied(p)
           /\ IF job[p].deny = {} THEN UNCHANGED images ELSE Relink("denied")
  <2>1. UNCHANGED <<pending, applied, approved>> /\ denied' = job[p].deny /\ denied \subseteq denied'
    BY <1>3, <1>5 DEF MoveDenied, Stages, Decided, answerVars
  <2>2. CASE job[p].deny = {}
    <3>1. denied' = denied
      BY <2>1, <2>2
    <3> QED BY <1>1, <1>2, <1>5, <2>1, <2>2, <3>1, KeptImages
  <2>3. CASE job[p].deny # {}
    <3>1. AllTraced
      BY <1>2, <2>1, MovedTraced DEF Moved
    <3>2. \A e \in File \ {"denied"} : Files'[e] = Files[e]
      BY <1>2, <2>1, OtherFiles
    <3> QED BY <1>1, <1>2, <1>5, <2>1, <2>3, <3>1, <3>2, CandidateWrites
  <2> QED BY <2>2, <2>3
<1>6. ASSUME NEW D \in SUBSET File, RemovePending(p), RelinkSync("pending", D)
      PROVE  ImagesRecoverable'
  <2>1. /\ UNCHANGED <<applied, denied>> /\ pending' = {} /\ approved' = approved \cup applied
        /\ pending \subseteq applied \cup denied
    BY <1>3, <1>6 DEF RemovePending, Stages
  <2>2. AllTraced
    BY <1>2, <2>1, MovedTraced DEF Moved
  <2>3. \A e \in File \ {"pending"} : Files'[e] = Files[e]
    BY <1>2, <2>1, OtherFiles
  <2> QED BY <1>1, <1>2, <1>6, <2>2, <2>3, CandidateWrites
<1>7. ((IF job[p].batch = {} THEN {} ELSE {"applied"}) \cup (IF job[p].deny = {} THEN {} ELSE {"denied"}))
        \in SUBSET File
  BY DEF File
<1> QED BY <1>4, <1>5, <1>6, <1>7 DEF DurableResolve

\* A resolve that fails.  What a failed rename of the denied file takes out of the
\* applied file is pending still.
LEMMA MoveFailsSurvives ==
  ASSUME DiskInv, NEW p \in Worker, DurableMoveFails(p), Seal(p)
  PROVE  ImagesRecoverable'
<1>1. [Next]_vars /\ TypeInv' /\ CarriedInv' /\ (RewriteDone' => RewriteDone)
  BY WriteContext DEF WriteStep, DurableMoveFails, MoveFails
<1>2. UNCHANGED <<journal, tear, denied, audit, submitted, approved, sealed>>
  BY SealsLater DEF DurableMoveFails, MoveFails, journalVars, answerVars
<1>3. Stages /\ MoveFails(p)
  BY DEF DiskInv, DurableInv, DurableMoveFails
<1>4. CASE pending' # pending
  <2>1. UNCHANGED applied /\ pending \subseteq applied \cup denied
    BY <1>3, <1>4 DEF MoveFails, Stages
  <2>2. AllTraced
    BY <1>2, <2>1, MovedTraced DEF Moved
  <2>3. Relink("pending") /\ \A e \in File \ {"pending"} : Files'[e] = Files[e]
    BY <1>2, <1>4, <2>1, OtherFiles DEF DurableMoveFails
  <2> QED BY <1>1, <1>2, <2>2, <2>3, CandidateWrites
<1>5. CASE pending' = pending /\ applied' # applied
  <2>1. applied \subseteq pending
    BY <1>3, <1>5 DEF MoveFails, Stages
  <2>2. approved \cap pending = {}
    BY PresentFiles DEF DiskInv, DurableInv, ImagesTyped, DecidedOnDisk
  <2>3. AllTraced
    BY <1>2, <1>5, <2>1, <2>2, MovedTraced DEF Moved
  <2>4. Relink("applied") /\ \A e \in File \ {"applied"} : Files'[e] = Files[e]
    BY <1>2, <1>5, OtherFiles DEF DurableMoveFails
  <2> QED BY <1>1, <1>2, <2>3, <2>4, CandidateWrites
<1>6. CASE pending' = pending /\ applied' = applied
  <2>1. UNCHANGED images
    BY <1>6 DEF DurableMoveFails
  <2> QED BY <1>1, <1>2, <1>6, <2>1, KeptImages
<1> QED BY <1>4, <1>5, <1>6

\* The end of a compaction, after the rename: the deletion and the audit,
LEMMA CompactSurvives ==
  ASSUME DiskInv, NEW p \in Worker, DurableCompact(p), Seal(p), ~ RenameTmp(p)
  PROVE  ImagesRecoverable'
<1>1. CASE DeleteApplied(p) /\ IF applied = {} THEN UNCHANGED images ELSE RelinkSync("applied", {})
  <2>1. [Next]_vars /\ TypeInv' /\ CarriedInv' /\ (RewriteDone' => RewriteDone)
    BY <1>1, WriteContext DEF WriteStep, DurableCompact, DeleteApplied
  <2>2. /\ UNCHANGED <<journal, tear, pending, denied, audit, submitted, approved, sealed>>
        /\ pc[p] = "compact.delete" /\ applied' = Uncompacted(p)
    BY <1>1, SealsLater DEF DeleteApplied, journalVars, answerVars
  <2>3. CASE applied = {}
    <3>1. applied' = applied
      BY <2>2, <2>3 DEF Uncompacted
    <3> QED BY <1>1, <2>1, <2>2, <2>3, <3>1, KeptImages
  <2>4. CASE applied # {}
    <3>1. AllTraced
      BY <2>2, DeletedTraced
    <3>2. \A e \in File \ {"applied"} : Files'[e] = Files[e]
      BY <2>2, OtherFiles
    <3>3. {} \in SUBSET File
      OBVIOUS
    <3> QED BY <1>1, <2>1, <2>2, <2>4, <3>1, <3>2, <3>3, CandidateWrites
  <2> QED BY <2>3, <2>4
<1>2. CASE AuditAppend(p) /\ WriteSync("audit", audit > 0)
  <2>1. [Next]_vars /\ TypeInv' /\ CarriedInv' /\ (RewriteDone' => RewriteDone)
    BY <1>2, WriteContext DEF WriteStep, DurableCompact, AuditAppend
  <2>2. /\ UNCHANGED <<journal, tear, pending, applied, denied, submitted, approved>>
        /\ pc[p] = "compact.audit"
    BY <1>2 DEF AuditAppend, journalVars, answerVars
  <2>3. AllTraced
    BY <2>2, AuditTraced
  <2>4. \A e \in File \ {"audit"} : Files'[e] = Files[e]
    BY <2>2, OtherFiles
  <2>5. (audit > 0) \in BOOLEAN
    OBVIOUS
  <2>6. \E exists \in BOOLEAN : WriteSync("audit", exists)
    BY <1>2, <2>5, Zenon
  <2> QED BY <2>1, <2>2, <2>3, <2>4, <2>6, CandidateWrites
<1> QED BY <1>1, <1>2 DEF DurableCompact

\* and these two when they fail.
LEMMA CleanupSurvives ==
  ASSUME DiskInv, NEW p \in Worker, DurableCleanupFails(p), Seal(p)
  PROVE  ImagesRecoverable'
<1>1. [Next]_vars /\ TypeInv' /\ CarriedInv' /\ (RewriteDone' => RewriteDone)
  BY WriteContext DEF WriteStep, DurableCleanupFails, CleanupFails
<1>2. CleanupFails(p) /\ faults' # faults
  BY DEF DurableCleanupFails, CleanupFails, Fault, DiskInv, DurableInv, TypeInv, TypeOK
<1>3. UNCHANGED <<journal, tear, pending, denied, submitted, approved, sealed>>
  BY <1>2, SealsLater DEF CleanupFails, journalVars, answerVars
<1>4. CASE applied' # applied
  <2>1. pc[p] = "compact.delete" /\ applied' = Uncompacted(p) /\ UNCHANGED audit
    BY <1>2, <1>4 DEF CleanupFails
  <2>2. AllTraced
    BY <1>3, <2>1, DeletedTraced
  <2>3. Relink("applied") /\ \A e \in File \ {"applied"} : Files'[e] = Files[e]
    BY <1>3, <1>4, <2>1, OtherFiles DEF DurableCleanupFails
  <2> QED BY <1>1, <1>3, <2>2, <2>3, CandidateWrites
<1>5. CASE applied' = applied /\ audit' # audit
  <2>1. AllTraced
    BY <1>3, <1>5, MovedTraced DEF Moved
  <2>2. Write("audit") /\ \A e \in File \ {"audit"} : Files'[e] = Files[e]
    BY <1>3, <1>5, OtherFiles DEF DurableCleanupFails
  <2>3. pending \subseteq pending' /\ pending' \cap submitted \subseteq pending
    BY <1>3
  <2> QED BY <1>1, <1>3, <1>5, <2>1, <2>2, <2>3, CandidateWrites
<1>6. CASE applied' = applied /\ audit' = audit
  <2>1. UNCHANGED images
    BY <1>6 DEF DurableCleanupFails
  <2> QED BY <1>1, <1>3, <1>6, <2>1, KeptImages
<1> QED BY <1>4, <1>5, <1>6

\* The index is synced: no image is behind in its renames.
LEMMA IndexSurvives ==
  ASSUME DiskInv, NEW p \in Worker, DurableIndex(p), Seal(p)
  PROVE  ImagesRecoverable'
<1>1. [Next]_vars /\ TypeInv' /\ CarriedInv' /\ (RewriteDone' => RewriteDone)
  BY WriteContext DEF WriteStep, DurableIndex, InsertCommit, RebuildIndex
<1>2. UNCHANGED <<journal, pending, applied, denied, submitted, approved, sealed>>
  BY SealsLater DEF DurableIndex, InsertCommit, RebuildIndex, journalVars, candidateVars, answerVars
<1>3. images' \subseteq images
  BY DEF DurableIndex, CommitIndex, UpTo
<1> QED BY <1>1, <1>2, <1>3, KeptImages


-----------------------------------------------------------------------------
\* The steps that write the journal.

\* What descends from fewer lines descends from more.
LEMMA BeginsDescendants ==
  ASSUME NEW short \in Seq(Record), NEW full \in Seq(Record), Begins(short, full),
         NEW copy \in Record, Descends(copy, short)
  PROVE  Descends(copy, full)
<1>1. \A k \in DOMAIN short : k \in DOMAIN full /\ short[k] = full[k]
  BY DEF Begins
<1>2. ASSUME NEW k \in DOMAIN short, VersionOf(copy, short[k]) PROVE Descends(copy, full)
  BY <1>1, <1>2 DEF Descends
<1>3. ASSUME copy.by = <<>>, NEW k \in DOMAIN full, full[k].id = copy.id PROVE VersionOf(copy, full[k])
  <2>1. full[k] \in Record
    OBVIOUS
  <2>2. Len(full[k].by) \in Nat
    BY <2>1 DEF Record
  <2> QED BY <1>3, <2>2 DEF VersionOf
<1> QED BY <1>2, <1>3 DEF Descends, Ids

\* A line at the end for a record without replacements.
LEMMA BeginsLonger ==
  ASSUME TypeInv, NEW short \in Seq(Record), Begins(short, journal), NEW p \in Worker, AppendWrite(p)
  PROVE  Begins(short, journal')
<1>1. CASE UNCHANGED journal
  BY <1>1 DEF Begins
<1>2. ASSUME NEW r \in RecId, journal' = Append(journal, [id |-> r, rev |-> 1, by |-> <<>>])
      PROVE  Begins(short, journal')
  <2>1. /\ DOMAIN journal' = DOMAIN journal \cup {Len(journal) + 1}
        /\ \A k \in DOMAIN journal : journal'[k] = journal[k]
        /\ journal'[Len(journal) + 1].by = <<>>
    BY <1>2, AppendedLine
  <2>2. journal \in Seq(Record) /\ journal' \in Seq(Record) /\ Len(journal') = Len(journal) + 1
    <3>1. journal \in Seq(Record) /\ [id |-> r, rev |-> 1, by |-> <<>>] \in Record
      BY DEF TypeInv, TypeOK, Record
    <3> QED BY <1>2, <3>1
  <2>3. Len(short) <= Len(journal')
    BY <2>2 DEF Begins
  <2>4. \A k \in DOMAIN short : short[k] = journal'[k]
    <3>1. \A k \in DOMAIN short : k \in DOMAIN journal /\ short[k] = journal[k]
      BY <2>2 DEF Begins
    <3> QED BY <2>1, <3>1
  <2>5. \A k \in DOMAIN journal' \ DOMAIN short : journal'[k].by = <<>>
    BY <2>1 DEF Begins
  <2> QED BY <2>3, <2>4, <2>5 DEF Begins
<1> QED BY <1>1, <1>2, AppendAddsNewRecord

\* The journal as it is after the step reaches an image that holds its beginning.
LEMMA ExchangedJournal ==
  ASSUME DiskInv, TypeInv', CarriedInv', [Next]_vars,
         UNCHANGED <<pending, applied, denied, submitted, approved, sealed>>,
         NEW i \in images, Begins(i.disk.journal.lines, journal), NEW j, Exchanged(i, j, "journal")
  PROVE  Recoverable(j.disk)' /\ (Current(j) => UpToDate(j)')
<1> DEFINE lines == i.disk.journal.lines
<1>0. PICK new : new = journal'
  OBVIOUS
<1>1. /\ j.disk.journal.lines = new /\ j.disk.pending = i.disk.pending
      /\ j.disk.applied = i.disk.applied /\ j.disk.denied = i.disk.denied
      /\ Current(j) => Current(i)
  <2>1. Files'["journal"] = [lines |-> journal', tear |-> tear']
    BY DEF Files
  <2> QED BY <1>0, <2>1 DEF Exchanged, File, Current
<1>2. /\ lines \in Seq(Record) /\ journal \in Seq(Record) /\ journal' \in Seq(Record)
      /\ i.disk.pending \cup i.disk.applied \subseteq CandId
      /\ \A c \in i.disk.pending \cup i.disk.applied : copies[c] # None /\ copies[c] \in Record
      /\ \A c \in submitted \cup approved : copies[c] # None /\ c \in CandId
      /\ TypeInv /\ Rewrites /\ VersionInv
  <2>1. i.disk \in Disk
    BY DEF DiskInv, DurableInv, ImagesTyped, Image
  <2>2. \A c \in i.disk.pending \cup i.disk.applied : copies[c] # None
    BY DEF DiskInv, DurableInv, ImagesTyped
  <2>3. lines \in Seq(Record) /\ i.disk.pending \cup i.disk.applied \subseteq CandId
    BY <2>1 DEF Disk
  <2>4. TypeInv /\ Rewrites /\ VersionInv
    BY DEF DiskInv, DurableInv, CarriedInv
  <2>5. journal \in Seq(Record) /\ journal' \in Seq(Record)
    BY <2>4 DEF TypeInv, TypeOK
  <2>6. \A c \in i.disk.pending \cup i.disk.applied : copies[c] \in Record
    BY <2>2, <2>3, <2>4 DEF TypeInv, TypeOK
  <2>7. \A c \in submitted \cup approved : copies[c] # None /\ c \in CandId
    BY <2>4 DEF TypeInv, TypeOK, DiskInv, DurableInv, AnsweredExist, CarriedInv, CandidateInv, SubmittedExist
  <2> QED BY <2>2, <2>3, <2>4, <2>5, <2>6, <2>7
<1>3. Recoverable(i.disk)
  BY DEF DiskInv, ImagesRecoverable
<1>4. CountedLines(new)
  BY <1>0 DEF CarriedInv, VersionInv, RevisionCounts, CountedLines, Counted
<1>5. ASSUME NEW c \in i.disk.pending \cup i.disk.applied PROVE Descends(copies'[c], new)
  <2>1. copies'[c] = copies[c]
    BY <1>2, CandidatesStay
  <2>2. PICK copy : copy = copies[c]
    OBVIOUS
  <2>3. copy \in Record /\ Descends(copy, lines)
    BY <1>2, <1>3, <2>2 DEF Recoverable
  <2>4. Descends(copy, journal)
    BY <1>2, <2>3, BeginsDescendants
  <2> QED BY <1>0, <1>2, <2>1, <2>2, <2>3, <2>4, DescendsLater
<1>6. \A c, d \in i.disk.applied : copies'[c].id = copies'[d].id => c = d
  <2>1. \A c \in i.disk.applied : copies'[c] = copies[c]
    BY <1>2, CandidatesStay
  <2> QED BY <1>3, <2>1 DEF Recoverable, ValidResolution
<1>7. ASSUME NEW c \in submitted \cup approved, SettledBy(c, lines) PROVE SettledBy(c, new)'
  <2>1. Settled(c)
    BY <1>2, <1>7, BeginsSettles, SettledByJournal
  <2>2. VersionInv'
    BY DEF CarriedInv
  <2>3. Settled(c)'
    BY <1>2, <2>1, <2>2, SettledStays
  <2> QED BY <1>0, <2>3 DEF Settled, SettledBy
<1>8. sealed \subseteq Ids(new)
  <2>1. \A k \in DOMAIN journal : k \in DOMAIN journal' /\ journal'[k].id = journal[k].id
    BY <1>2, LinesGrow
  <2>2. Ids(lines) \subseteq Ids(journal) /\ Ids(journal) \subseteq Ids(journal')
    BY <1>2, <2>1, BeginsSettles DEF Ids
  <2> QED BY <1>0, <1>3, <2>2 DEF Recoverable
<1>9. Recoverable(j.disk)'
  <2>1. \A c \in submitted' : c \in j.disk.pending \cup j.disk.applied \cup j.disk.denied \/ SettledBy(c, new)'
    BY <1>1, <1>3, <1>7 DEF Recoverable
  <2>2. \A c \in approved' : c \in j.disk.applied \/ SettledBy(c, new)'
    BY <1>1, <1>3, <1>7 DEF Recoverable
  <2> QED BY <1>1, <1>4, <1>5, <1>6, <1>8, <2>1, <2>2 DEF Recoverable, ValidResolution
<1>10. ASSUME Current(j) PROVE UpToDate(j)'
  <2>1. UpToDate(i)
    BY <1>1, <1>10 DEF DiskInv, ImagesRecoverable
  <2>2. Begins(journal', journal')
    BY <1>2, BeginsItself
  <2> QED BY <1>0, <1>1, <2>1, <2>2 DEF UpToDate, Begins
<1> QED BY <1>9, <1>10

\* The rename of the rewrite.
LEMMA RenameSurvives ==
  ASSUME DiskInv, NEW p \in Worker, RenameTmp(p), DurableCompact(p), Seal(p)
  PROVE  ImagesRecoverable'
<1> SUFFICES ASSUME NEW j \in images'
             PROVE  Recoverable(j.disk)' /\ (Current(j) => UpToDate(j)')
  BY DEF ImagesRecoverable, Current
<1>1. [Next]_vars /\ TypeInv' /\ CarriedInv'
  BY WriteContext DEF WriteStep
<1>2. UNCHANGED <<pending, applied, denied, submitted, approved, sealed>>
  BY SealsLater DEF RenameTmp, candidateVars, answerVars
<1>3. Relink("journal")
  BY DEF DurableCompact, RenameTmp, DeleteApplied, AuditAppend
<1>4. OrderedMetadata /\ images \subseteq Image /\ "journal" \in File
  BY DEF DiskInv, DurableInv, ImagesTyped, File
<1>5. Files' \in Disk
  <2>1. (TypeInv => Files \in Disk)'
    BY FilesType, PTL
  <2> QED BY <1>1, <2>1
<1>6. ASSUME NEW i \in images, Lagging(i, j, "journal")
      PROVE  Recoverable(j.disk)' /\ ~ Current(j)
  <2>1. Recoverable(i.disk)'
    BY <1>1, <1>2, KeptRecoverable
  <2>2. j.disk = i.disk
    BY <1>6 DEF Lagging
  <2>3. Recoverable(j.disk)'
    BY <2>1, <2>2 DEF Recoverable
  <2>4. \E e \in File : ~ j.lag[e] = 0
    BY <1>4, <1>6 DEF Lagging
  <2> QED BY <2>3, <2>4 DEF Current
<1>7. ASSUME NEW i \in UpTo({"journal"}), Exchanged(i, j, "journal")
      PROVE  Recoverable(j.disk)' /\ (Current(j) => UpToDate(j)')
  <2>1. i \in images /\ Current(i)
    BY <1>4, UpToCurrent
  <2>2. Begins(i.disk.journal.lines, journal)
    BY <2>1, CurrentTrace
  <2> QED BY <1>1, <1>2, <1>7, <2>1, <2>2, ExchangedJournal
<1> QED BY <1>3, <1>4, <1>5, <1>6, <1>7, RelinkImages


\* An append, which syncs nothing: its line may be lost, or half of it.
LEMMA AppendSurvives ==
  ASSUME DiskInv, NEW p \in Worker, DurableAppend(p), Seal(p)
  PROVE  ImagesRecoverable'
<1> SUFFICES ASSUME NEW j \in images'
             PROVE  Recoverable(j.disk)' /\ (Current(j) => UpToDate(j)')
  BY DEF ImagesRecoverable, Current
<1>1. /\ [Next]_vars /\ TypeInv' /\ CarriedInv' /\ (RewriteDone' => RewriteDone)
      /\ pc[p] = "append.write"
  BY WriteContext DEF WriteStep, DurableAppend, AppendWrite, AppendWriteFails
<1>2. UNCHANGED <<pending, applied, denied, submitted, approved, sealed>>
  BY SealsLater DEF DurableAppend, AppendWrite, AppendWriteFails, candidateVars, answerVars
<1>3. ~ RewriteDone'
  BY <1>1, CompactionIsAlone
     DEF RewriteDone, DiskInv, DurableInv, TypeInv, AppendHolding, CompactHolding
<1>4. images \subseteq Image /\ TypeInv /\ journal \in Seq(Record)
  BY DEF DiskInv, DurableInv, ImagesTyped, TypeInv, TypeOK
<1>5. Files' \in Disk
  <2>1. (TypeInv => Files \in Disk)'
    BY FilesType, PTL
  <2> QED BY <1>1, <2>1
<1>6. ASSUME NEW i \in images,
             /\ i.disk.journal.lines = j.disk.journal.lines /\ i.disk.pending = j.disk.pending
             /\ i.disk.applied = j.disk.applied /\ i.disk.denied = j.disk.denied /\ i.lag = j.lag
      PROVE  Recoverable(j.disk)' /\ (Current(j) => UpToDate(j)')
  <2>1. Recoverable(i.disk)'
    BY <1>1, <1>2, KeptRecoverable
  <2>2. Recoverable(j.disk)'
    BY <1>6, <2>1 DEF Recoverable
  <2>3. ASSUME Current(j) PROVE UpToDate(j)'
    <3>1. Current(i)
      BY <1>6, <2>3 DEF Current
    <3>2. UpToDate(i)
      BY <3>1 DEF DiskInv, ImagesRecoverable
    <3>3. Begins(i.disk.journal.lines, journal')
      <4>1. i.disk.journal.lines \in Seq(Record) /\ Begins(i.disk.journal.lines, journal)
        BY <3>1, CurrentTrace
      <4>2. CASE AppendWrite(p)
        BY <1>4, <4>1, <4>2, BeginsLonger
      <4>3. CASE UNCHANGED journal
        BY <4>1, <4>3 DEF Begins
      <4> QED BY <4>2, <4>3 DEF DurableAppend, AppendWriteFails
    <3> QED BY <1>2, <1>3, <1>6, <3>2, <3>3 DEF UpToDate, Begins
  <2> QED BY <2>2, <2>3
<1>7. CASE j \in images
  BY <1>6, <1>7
<1>8. ASSUME NEW i \in images, Torn(i, j)
      PROVE  Recoverable(j.disk)' /\ (Current(j) => UpToDate(j)')
  BY <1>6, <1>8 DEF Torn, File
<1>9. ASSUME NEW i \in images, i.disk.journal = Files.journal, Exchanged(i, j, "journal")
      PROVE  Recoverable(j.disk)' /\ (Current(j) => UpToDate(j)')
  <2>1. i.disk.journal.lines = journal
    BY <1>9 DEF Files
  <2>2. Begins(i.disk.journal.lines, journal)
    BY <1>4, <2>1, BeginsItself
  <2> QED BY <1>1, <1>2, <1>9, <2>2, ExchangedJournal
<1>10. WriteJournal
  BY DEF DurableAppend
<1> QED BY <1>4, <1>5, <1>7, <1>8, <1>9, <1>10, WriteJournalImages

\* Every step that writes leaves images to go on from.
LEMMA WriteSurvives ==
  ASSUME DiskInv, NEW p \in Worker, WriteStep(p), Seal(p)
  PROVE  ImagesRecoverable'
<1>1. CASE DurableCompact(p)
  BY <1>1, RenameSurvives, CompactSurvives
<1> QED BY <1>1, AppendSurvives, IndexSurvives, SubmitSurvives, ResolveSurvives, MoveFailsSurvives,
           CleanupSurvives DEF WriteStep

\* So does one that does not write,
LEMMA QuietSurvives ==
  ASSUME DiskInv, NEW p \in Worker, QuietStep(p), UNCHANGED <<images, sealed>>
  PROVE  ImagesRecoverable'
<1>1. /\ WorkerStep(p)
      /\ UNCHANGED <<journal, pending, applied, denied, submitted, approved>>
  BY QuietSteps
<1>2. [Next]_vars
  BY <1>1 DEF Next, WorkerStep
<1>3. pc[p] # "compact.rename" \/ pc'[p] = "idle"
  <2>1. CASE RewriteFails(p)
    BY <2>1 DEF RewriteFails, Return, Goto, DiskInv, DurableInv, TypeInv, TypeOK
  <2>2. CASE \/ \E k \in Kind : Arrive(p, k)
             \/ AppendLock(p) \/ InsertBegin(p) \/ InsertConflict(p) \/ InsertFails(p)
             \/ CandidateLock(p) \/ SubmitRead(p) \/ SubmitRejected(p) \/ ListRead(p)
    BY <2>2 DEF Arrive, AppendLock, InsertBegin, InsertConflict, InsertFails, CandidateLock, SubmitRead,
                SubmitRejected, ListRead
  <2>3. CASE \/ ResolveRead(p) \/ ResolveRejected(p)
             \/ CompactList(p) \/ CompactLockJournal(p) \/ CompactLockCandidates(p)
             \/ CompactRead(p) \/ CompactUnreadable(p) \/ WriteTmp(p) \/ Evict(p)
             \/ LockFails(p) \/ CompactListFails(p) \/ CompactCancel(p)
    BY <2>3 DEF ResolveRead, ResolveRejected, CompactList, CompactLockJournal, CompactLockCandidates,
                CompactRead, CompactUnreadable, WriteTmp, Evict, LockFails, CompactListFails, CompactCancel
  <2> QED BY <2>1, <2>2, <2>3 DEF QuietStep
<1>4. RewriteDone' => RewriteDone
  BY <1>1, <1>3, RewriteDoneStays DEF DiskInv, DurableInv
<1> QED BY <1>1, <1>2, <1>4, KeptImages

\* and a step of no handler.
LEMMA IdleSurvives ==
  ASSUME DiskInv, UNCHANGED <<images, sealed>>, Restart \/ RecoveryFails \/ UNCHANGED vars
  PROVE  ImagesRecoverable' /\ [Next]_vars
<1>1. UNCHANGED <<journal, pending, applied, denied, submitted, approved, pc>>
  BY DEF Restart, RecoveryFails, vars, journalVars, candidateVars, answerVars, workerVars
<1>2. RewriteDone' => RewriteDone
  BY <1>1 DEF RewriteDone
<1>3. [Next]_vars
  BY DEF Next
<1> QED BY <1>1, <1>2, <1>3, KeptImages

\* What the power loss leaves is one of the images.
LEMMA PowerLossSurvives ==
  ASSUME DiskInv, PowerLoss
  PROVE  CarriedInv' /\ ImagesRecoverable'
<1>1. PICK i \in images :
        /\ journal' = i.disk.journal.lines /\ tear' = i.disk.journal.tear
        /\ pending' = i.disk.pending /\ applied' = i.disk.applied /\ denied' = i.disk.denied
        /\ images' = Settle(i.disk)
  BY DEF PowerLoss
<1>2. /\ pc' = [p \in Worker |-> "idle"] /\ job' = [p \in Worker |-> NoJob]
      /\ UNCHANGED <<copies, submitted, approved, sealed>>
  BY DEF PowerLoss, answerVars
<1>3. Recoverable(i.disk)
  BY DEF DiskInv, ImagesRecoverable
<1>4. i.disk.journal.lines \in Seq(Record)
  BY DEF DiskInv, DurableInv, ImagesTyped, Image, Disk
<1>5. Rewrites' /\ LinesCurrent' /\ Stages' /\ BatchSettled' /\ CopyCurrent'
  BY <1>2 DEF Rewrites, LinesCurrent, Stages, BatchSettled, CopyCurrent
<1>6. RevisionCounts'
  BY <1>1, <1>3 DEF Recoverable, CountedLines, Counted, RevisionCounts
<1>7. CopiesCounted' /\ CopiesMatch'
  <2>1. CopiesCounted'
    BY <1>2 DEF DiskInv, CarriedInv, VersionInv, CopiesCounted
  <2>2. Live' = pending' \cup applied'
    BY <1>2 DEF Live, NoJob
  <2>3. \A c \in pending' \cup applied' : Descends(copies[c], i.disk.journal.lines)
    BY <1>1, <1>3 DEF Recoverable
  <2> QED BY <1>1, <1>2, <2>1, <2>2, <2>3 DEF CopiesMatch
<1>8. Batches'
  <2>1. \A c, d \in applied' : copies[c].id = copies[d].id => c = d
    BY <1>1, <1>3 DEF Recoverable, ValidResolution
  <2> QED BY <1>2, <2>1 DEF Batches, ValidResolution, NoJob
<1>9. SubmittedExist' /\ CandidateConserved'
  <2>1. SubmittedExist'
    BY <1>2 DEF DiskInv, CarriedInv, CandidateInv, SubmittedExist
  <2>2. ASSUME NEW c \in submitted, SettledBy(c, i.disk.journal.lines) PROVE Settled(c)'
    BY <1>1, <1>2, <2>2 DEF Settled, SettledBy
  <2> QED BY <1>1, <1>2, <1>3, <2>1, <2>2 DEF Recoverable, CandidateConserved
<1>10. CarriedInv'
  BY <1>5, <1>6, <1>7, <1>8, <1>9 DEF CarriedInv, VersionInv, CandidateInv
<1>11. ASSUME NEW j \in images' PROVE Recoverable(j.disk)' /\ UpToDate(j)'
  <2>1. j.disk = i.disk
    BY <1>1, <1>11 DEF Settle
  <2>2. Recoverable(i.disk)'
    BY <1>2, <1>3 DEF Recoverable, ValidResolution, SettledBy
  <2>3. Recoverable(j.disk)'
    BY <2>1, <2>2 DEF Recoverable
  <2>4. Begins(journal', journal')
    BY <1>1, <1>4, BeginsItself
  <2>5. UpToDate(j)'
    BY <1>1, <2>1, <2>4 DEF UpToDate, Begins
  <2> QED BY <2>3, <2>5
<1> QED BY <1>10, <1>11 DEF ImagesRecoverable


-----------------------------------------------------------------------------
\* The theorems for a disk that orders renames.

\* Before the first step the only image is the files as they are.
LEMMA InitDisk ==
  ASSUME OrderedMetadata, DurableInit
  PROVE  DiskInv
<1>1. DurableInv
  BY InitDurable
<1>2. CarriedInv
  <2>1. Rewrites /\ VersionInv
    BY InitJournal, InitHistory DEF DurableInit, JournalInv, HistoryInv
  <2>2. CandidateInv /\ LinesCurrent
    BY InitCandidate, InitOutcome DEF DurableInit, OutcomeInv
  <2> QED BY <2>1, <2>2 DEF CarriedInv
<1>3. ASSUME NEW i \in images PROVE Recoverable(i.disk) /\ UpToDate(i)
  <2>1. i.disk = Files
    BY <1>3 DEF DurableInit, Settle
  <2>2. i.disk.journal.lines = journal /\ i.disk.pending = pending /\ i.disk.applied = applied
        /\ i.disk.denied = denied
    BY <2>1 DEF Files
  <2>3. pending = {} /\ applied = {} /\ submitted = {} /\ approved = {} /\ sealed = {}
    BY DEF DurableInit, Init
  <2>4. CountedLines(journal)
    BY <1>2 DEF CarriedInv, VersionInv, RevisionCounts, CountedLines, Counted
  <2>5. Recoverable(i.disk)
    BY <2>2, <2>3, <2>4 DEF Recoverable, ValidResolution
  <2>6. Begins(journal, journal)
    BY BeginsItself, InitialJournalAssumption DEF DurableInit, Init
  <2>7. UpToDate(i)
    BY <2>2, <2>6 DEF UpToDate
  <2> QED BY <2>5, <2>7
<1> QED BY <1>1, <1>2, <1>3 DEF DiskInv, ImagesRecoverable

\* Every step leaves images to go on from.
LEMMA NextDisk ==
  ASSUME DiskInv, [DurableNext]_durableVars
  PROVE  DiskInv'
<1>1. DurableInv' /\ OrderedMetadata
  BY NextDurable DEF DiskInv
<1>2. ASSUME [Next]_vars PROVE CarriedInv'
  BY <1>2, StepCarried DEF DiskInv, DurableInv
<1>3. ASSUME NEW p \in Worker, QuietStep(p), UNCHANGED <<images, sealed>>
      PROVE  CarriedInv' /\ ImagesRecoverable'
  <2>1. [Next]_vars
    BY <1>3, QuietSteps DEF Next, WorkerStep
  <2> QED BY <1>2, <1>3, <2>1, QuietSurvives
<1>4. ASSUME NEW p \in Worker, WriteStep(p), Seal(p)
      PROVE  CarriedInv' /\ ImagesRecoverable'
  BY <1>4, WriteContext, WriteSurvives
<1>5. ASSUME UNCHANGED <<images, sealed>>, Restart \/ RecoveryFails \/ UNCHANGED vars
      PROVE  CarriedInv' /\ ImagesRecoverable'
  BY <1>2, <1>5, IdleSurvives
<1>6. ASSUME PowerLoss PROVE CarriedInv' /\ ImagesRecoverable'
  BY <1>6, PowerLossSurvives
<1>7. UNCHANGED durableVars => UNCHANGED <<images, sealed>> /\ UNCHANGED vars
  BY DEF durableVars
<1> QED BY <1>1, <1>3, <1>4, <1>5, <1>6, <1>7 DEF DurableNext, DiskInv

\* Every state that a power loss may leave is one the next processes can go on
\* from (jsonl.go, ReplaceFile; store.go, AppendCandidate and MoveCandidates).
THEOREM DiskAlways ==
  ASSUME OrderedMetadata
  PROVE  DurableSpec => []DiskInv
<1>1. DurableInit => DiskInv
  BY InitDisk
<1>2. DiskInv /\ [DurableNext]_durableVars => DiskInv'
  BY NextDisk
<1> QED BY <1>1, <1>2, PTL DEF DurableSpec

\* After any power losses a record has one line, and its revision counts the
\* replacements that led to it (compact.go, applySubstitutions).
THEOREM RevisionsCountAfterLosses ==
  ASSUME OrderedMetadata
  PROVE  DurableSpec => []RevisionCounts
<1>1. DiskInv => RevisionCounts
  BY DEF DiskInv, CarriedInv, VersionInv
<1> QED BY <1>1, DiskAlways, PTL

\* A candidate whose submission was answered does not disappear in a power loss:
\* its line was synced, and no loss keeps the removal of one file without the
\* rename of the other (store.go, AppendCandidate and MoveCandidates).
THEOREM CandidatesSurviveLosses ==
  ASSUME OrderedMetadata
  PROVE  DurableSpec => []CandidateConserved
<1>1. DiskInv => CandidateConserved
  BY DEF DiskInv, CarriedInv, CandidateInv
<1> QED BY <1>1, DiskAlways, PTL

\* No power loss keeps the deletion of an approved candidate and loses the rewrite
\* of the journal before it (jsonl.go, ReplaceFile; store.go, DeleteApplied).
THEOREM RewritesReachTheDiskFirst ==
  ASSUME OrderedMetadata
  PROVE  DurableSpec => []ReplacedBeforeDeleted
<1>1. ASSUME DiskInv PROVE ReplacedBeforeDeleted
  <2>1. PICK i \in images : Present(i)
    BY <1>1 DEF DiskInv, DurableInv, ImagesTyped
  <2>2. i.disk.journal.lines = journal /\ i.disk.applied = applied
    BY <2>1, PresentFiles
  <2>3. \A c \in approved : c \in applied \/ SettledBy(c, journal)
    BY <1>1, <2>2 DEF DiskInv, ImagesRecoverable, Recoverable
  <2> QED BY <2>3, SettledByJournal DEF ReplacedBeforeDeleted
<1> QED BY <1>1, DiskAlways, PTL

\* A record that a finished compaction rewrote survives every power loss, though
\* neither its append nor the rename was synced: the audit's fsync came after them
\* (compact.go steps 4 to 8; jsonl.go, ReplaceFile).
THEOREM CompactedRecordsSurvive ==
  ASSUME OrderedMetadata
  PROVE  DurableSpec => []CompactedSurvives
<1>1. ASSUME DiskInv PROVE CompactedSurvives
  <2>1. PICK i \in images : Present(i)
    BY <1>1 DEF DiskInv, DurableInv, ImagesTyped
  <2>2. i.disk.journal.lines = journal
    BY <2>1, PresentFiles
  <2> QED BY <1>1, <2>2 DEF DiskInv, ImagesRecoverable, Recoverable, CompactedSurvives
<1> QED BY <1>1, DiskAlways, PTL

\* Every line is there after the step, with no less of a history.
NothingUndone ==
  \A k \in DOMAIN journal :
    /\ k \in DOMAIN journal'
    /\ journal'[k].id = journal[k].id
    /\ \/ journal'[k].by = journal[k].by
       \/ \E c \in CandId : journal'[k].by = Append(journal[k].by, c)

\* Between power losses, and after any number of them, the journal behaves as if
\* there were none: no step undoes a replacement, builds on a version that is not
\* the current one, or takes a line away (compact.go, applySubstitutions).
THEOREM HistoriesGrowBetweenLosses ==
  ASSUME OrderedMetadata
  PROVE  DurableSpec => [][PowerLoss \/ NothingUndone]_durableVars
<1>1. DiskInv /\ [DurableNext]_durableVars => [PowerLoss \/ NothingUndone]_durableVars
  BY DurableSteps, LinesGrow DEF DiskInv, DurableInv, CarriedInv, GrowsBy, NothingUndone
<1> QED BY <1>1, DiskAlways, PTL DEF DurableSpec
=============================================================================

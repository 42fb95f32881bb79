----------------------------- MODULE Durability -----------------------------
(***************************************************************************)
(* Module Partition on a disk that loses what was not synced.  The journal *)
(* append does not sync its line; candidates, temporaries and audit events *)
(* are synced; candidatestore syncs the directory after a rename or a      *)
(* removal, ReplaceFile does not.  A power loss replaces the files by some *)
(* state the disk may hold.                                                *)
(*                                                                         *)
(* The disk.  Appended lines of one file reach it in their order.  Renames *)
(* and removals reach it, when OrderedMetadata, in one order for the whole *)
(* file system, and any fsync brings the earlier ones there (the journals  *)
(* of ext4 and XFS); otherwise in one order per directory, which only an   *)
(* fsync of that directory waits for (all that POSIX promises).  SQLite    *)
(* syncs each commit, so the index row survives.                           *)
(***************************************************************************)
EXTENDS Partition

CONSTANT OrderedMetadata

ASSUME OrderedMetadataAssumption == OrderedMetadata \in BOOLEAN

VARIABLES
  images,  \* the disk states that a power loss may leave
  sealed   \* the records that were in the file when a compaction finished

durableVars == <<vars, images, sealed>>

\* The files of the partition, each in a directory of its own, as processes see them.
File == {"journal", "pending", "applied", "denied", "audit"}

Files == [journal |-> [lines |-> journal, tear |-> tear], pending |-> pending,
          applied |-> applied, denied |-> denied, audit |-> audit]

\* An image is the files with, for each, how many of its renames and removals
\* are not in it.
Settle(files) == {[disk |-> files, lag |-> [d \in File |-> 0]]}

\* The image lacks a rename or a removal that has to come before one of file d.
Behind(image, d) ==
  IF OrderedMetadata THEN \E e \in File : image.lag[e] > 0 ELSE image.lag[d] > 0

UpTo(D) == {i \in images : \A d \in D : ~ Behind(i, d)}

-----------------------------------------------------------------------------
\* What one step does to the images.

\* Faulty variant: the temporary is renamed before its contents are synced.
UnsyncedInode(d) ==
  IF d = "journal" THEN {Files'[d], [lines |-> <<>>, tear |-> "none"]} ELSE {Files'[d]}

\* What a power loss may leave under the new name: every temporary is synced
\* before its rename.
NewInode(d) == {Files'[d]}

Relinked(d, before) ==
  {[i EXCEPT !.disk[d] = contents] : i \in before, contents \in NewInode(d)}

\* File d is renamed over or removed; no fsync follows.
Relink(d) ==
  images' = {[i EXCEPT !.lag[d] = @ + 1] : i \in images} \cup Relinked(d, UpTo({d}))

\* File d is renamed over or removed, then the directories D are synced.
RelinkSync(d, D) == images' = Relinked(d, UpTo({d} \cup D))

Written(d) == {[i EXCEPT !.disk[d] = Files'[d]] : i \in UpTo({d})}

\* Faulty variant: the disk never gets the data of a failed fsync.
DropWrite(d) == UNCHANGED images

\* Data is appended to file d; no fsync follows.
Write(d) == images' = images \cup Written(d)

\* Data is appended to file d, which the open creates if it is not there, and
\* the file is synced: its data, and with OrderedMetadata its name.
WriteSync(d, exists) ==
  IF OrderedMetadata THEN images' = Written(d)
  ELSE IF exists THEN images' = (images \ UpTo({d})) \cup Written(d)
  ELSE Relink(d)

\* A line at the end of the journal: an image has it, or half of it, only after
\* all lines before it.
WriteJournal ==
  LET whole == {i \in images : i.disk.journal = Files.journal}
  IN  images' = images \cup {[i EXCEPT !.disk.journal = Files'.journal] : i \in whole}
                       \cup {[i EXCEPT !.disk.journal.tear = "tail"] :
                               i \in IF TornWrites /\ journal' # journal THEN whole ELSE {}}

\* SQLite commits: an fsync of another file.
CommitIndex == images' = IF OrderedMetadata THEN UpTo(File) ELSE images

-----------------------------------------------------------------------------
\* The steps that write.

DurableAppend(p) == (AppendWrite(p) \/ AppendWriteFails(p)) /\ WriteJournal

DurableIndex(p) == (InsertCommit(p) \/ RebuildIndex(p)) /\ CommitIndex

DurableSubmit(p) ==
  \/ SubmitAppend(p) /\ WriteSync("pending", pending # {})
  \/ SubmitFails(p) /\ IF pending' = pending THEN UNCHANGED images ELSE Write("pending")

\* Faulty variant: success is answered before the directories are synced.
ResolveUnsynced(p) ==
  \/ MoveApplied(p) /\ IF job[p].batch = {} THEN UNCHANGED images ELSE Relink("applied")
  \/ MoveDenied(p) /\ IF job[p].deny = {} THEN UNCHANGED images ELSE Relink("denied")
  \/ RemovePending(p) /\ Relink("pending")

\* MoveCandidates: a file without candidates has no temporary and no rename; the
\* directories of the renamed files and of pending are synced at the end.
DurableResolve(p) ==
  \/ MoveApplied(p) /\ IF job[p].batch = {} THEN UNCHANGED images ELSE Relink("applied")
  \/ MoveDenied(p) /\ IF job[p].deny = {} THEN UNCHANGED images ELSE Relink("denied")
  \/ RemovePending(p) /\ RelinkSync("pending",
                           (IF job[p].batch = {} THEN {} ELSE {"applied"})
                           \cup (IF job[p].deny = {} THEN {} ELSE {"denied"}))

DurableMoveFails(p) ==
  /\ MoveFails(p)
  /\ IF pending' # pending THEN Relink("pending")
     ELSE IF applied' # applied THEN Relink("applied")
     ELSE UNCHANGED images

DurableCompact(p) ==
  \/ RenameTmp(p) /\ Relink("journal")
  \/ DeleteApplied(p) /\ IF applied = {} THEN UNCHANGED images ELSE RelinkSync("applied", {})
  \/ AuditAppend(p) /\ WriteSync("audit", audit > 0)

DurableCleanupFails(p) ==
  /\ CleanupFails(p)
  /\ IF applied' # applied THEN Relink("applied")
     ELSE IF audit' # audit THEN Write("audit")
     ELSE UNCHANGED images

\* A compaction that ran to its end.
Seal(p) ==
  sealed' = IF pc[p] = "compact.audit" /\ audit' = audit + job[p].count /\ faults' = faults
            THEN sealed \cup Ids(job[p].lines) ELSE sealed

\* The steps that read, lock, or touch only the temporary or the descriptor.
QuietStep(p) ==
  \/ \E k \in Kind : Arrive(p, k)
  \/ AppendLock(p) \/ InsertBegin(p) \/ InsertConflict(p) \/ InsertFails(p)
  \/ CandidateLock(p) \/ SubmitRead(p) \/ SubmitRejected(p) \/ ListRead(p)
  \/ ResolveRead(p) \/ ResolveRejected(p)
  \/ CompactList(p) \/ CompactLockJournal(p) \/ CompactLockCandidates(p)
  \/ CompactRead(p) \/ CompactUnreadable(p) \/ WriteTmp(p) \/ Evict(p)
  \/ LockFails(p) \/ CompactListFails(p) \/ CompactCancel(p) \/ RewriteFails(p)

WriteStep(p) ==
  \/ DurableAppend(p) \/ DurableIndex(p) \/ DurableSubmit(p)
  \/ DurableResolve(p) \/ DurableMoveFails(p)
  \/ DurableCompact(p) \/ DurableCleanupFails(p)

-----------------------------------------------------------------------------
\* The machine loses power: every process dies, and the files are what the disk
\* holds, with or without a temporary.
PowerLoss ==
  /\ up
  /\ crashes < MaxCrashes
  /\ crashes' = crashes + 1
  /\ up' = FALSE
  /\ pc' = [p \in Worker |-> "idle"]
  /\ job' = [p \in Worker |-> NoJob]
  /\ fd' = "none"
  /\ jlock' = Unlocked /\ clock' = Unlocked
  /\ \E i \in images :
       /\ journal' = i.disk.journal.lines
       /\ tear' = i.disk.journal.tear
       /\ pending' = i.disk.pending
       /\ applied' = i.disk.applied
       /\ denied' = i.disk.denied
       /\ audit' = i.disk.audit
       /\ images' = Settle(i.disk)
  /\ tmp' \in {None, <<>>}
  /\ UNCHANGED <<row, copies, answerVars, left, faults, sealed>>

DurableInit == Init /\ images = Settle(Files) /\ sealed = {}

DurableNext ==
  \/ \E p \in Worker : QuietStep(p) /\ UNCHANGED <<images, sealed>>
  \/ \E p \in Worker : WriteStep(p) /\ Seal(p)
  \/ (Restart \/ RecoveryFails) /\ UNCHANGED <<images, sealed>>
  \/ PowerLoss

DurableSpec == DurableInit /\ [][DurableNext]_durableVars

-----------------------------------------------------------------------------
\* Every image is a state of the files in which candidates and records are the
\* ones that exist, and what the processes see is one of the images.
DurableTypeOK ==
  /\ \A i \in images :
       /\ Ids(i.disk.journal.lines) \subseteq RecId
       /\ i.disk.journal.tear \in {"none", "tail", "inner"}
       /\ \A d \in {"pending", "applied", "denied"} :
            \A c \in i.disk[d] : copies[c] # None
       /\ i.disk.audit \in 0..audit
       /\ i.lag \in [File -> Nat]
  /\ \E i \in images : i.disk = Files
  /\ sealed \subseteq RecId

\* A candidate whose approval was answered with success never waits for a
\* decision again, whatever power losses follow: resolve syncs before it answers.
DecidedStaysDecided == approved \cap pending = {}

\* An approved candidate waits in the applied file or the journal has moved past
\* its version: a power loss never keeps the deletion of the applied file and
\* loses the rewrite of the journal that came before it.
ReplacedBeforeDeleted == \A c \in approved : c \in applied \/ Settled(c)

\* A record that a finished compaction rewrote is on the disk for good, although
\* its append never synced it and ReplaceFile does not sync the directory.
CompactedSurvives == sealed \subseteq Ids(journal)
=============================================================================

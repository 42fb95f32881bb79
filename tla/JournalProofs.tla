----------------------------- MODULE JournalProofs -----------------------------
(***************************************************************************)
(* The journal file of a partition and the versions of its records, for    *)
(* any number of workers, requests, compactions, failures and crashes.     *)
(*                                                                         *)
(* First the file: no answered record loses its line.  A line is written   *)
(* before its record is answered; from then on it can only be lost to a    *)
(* compaction that read the file before, or to a write through a           *)
(* descriptor of the file that was replaced.  The locks exclude both: no   *)
(* append runs between the read of a compaction and the moment it has      *)
(* dropped the descriptor.                                                 *)
(*                                                                         *)
(* Then the versions.  The compare-and-swap of a compaction compares       *)
(* numbers; that it compares versions rests on what revisions count and on *)
(* where copies come from: every copy of a record, in a candidate or in    *)
(* the hands of a submit, is a version its record has or had, whatever     *)
(* happened to the journal since.                                          *)
(***************************************************************************)
EXTENDS PartitionProofs

\* An append that has written its line has it in the file.
LineWritten ==
  tear = "none" =>
    \A p \in Worker : pc[p] \in {"append.begin", "append.upsert"} => job[p].rec \in Ids(journal)

\* What a compaction is about to write is still what its substitution makes of
\* the file and of the candidates.
Rewrites ==
  \A p \in Worker :
    /\ pc[p] \in {"compact.tmp", "compact.rename"} =>
         tear = "none" /\ job[p].lines = ApplySubstitutions(journal, job[p].batch, copies)
    /\ pc[p] = "compact.rename" => tmp = job[p].lines

\* A descriptor is stale only until the compaction that made it so drops it.
StaleIsBrief == fd = "stale" => \E p \in Worker : pc[p] = "compact.evict"

JournalInv == NoLostRecord /\ LineWritten /\ Rewrites /\ StaleIsBrief

\* The first state, with an empty journal.
LEMMA InitJournal == Init => JournalInv
  BY DEF Init, JournalInv, NoLostRecord, LineWritten, Rewrites, StaleIsBrief

\* The steps at which a handler has something at stake in the journal file.
Engaged == {"append.begin", "append.upsert", "compact.tmp", "compact.rename", "compact.evict"}

\* A candidate is not written while a compaction has its candidates read.
CopiesStay == copies' = copies \/ \A q \in Worker : pc[q] \notin CompactHolding

\* A step of a worker that is not engaged, and does not become so, which leaves
\* the journal file and the answers alone.
LEMMA ElsewhereJournal ==
  ASSUME JournalInv, TypeInv, NEW p \in Worker, NEW t \in Step, Goto(p, t),
         pc[p] \notin Engaged \/ pc[p] \in {"append.begin", "append.upsert"}, t \notin Engaged,
         \A q \in Worker \ {p} : job'[q] = job[q],
         UNCHANGED <<up, journalVars, answer>>, CopiesStay
  PROVE  JournalInv'
<1>1. pc'[p] \notin Engaged /\ \A q \in Worker \ {p} : pc'[q] = pc[q] /\ job'[q] = job[q]
  BY DEF TypeInv, TypeOK, Goto
<1>2. UNCHANGED <<up, journal, tear, tmp, fd, answer>>
  BY DEF journalVars
<1>3. NoLostRecord' /\ LineWritten'
  BY <1>1, <1>2 DEF JournalInv, NoLostRecord, LineWritten, Engaged
<1>5. Rewrites'
  <2>1. CASE copies' = copies
    BY <1>1, <1>2, <2>1 DEF JournalInv, Rewrites, Engaged
  <2>2. CASE \A q \in Worker : pc[q] \notin CompactHolding
    BY <1>1, <2>2 DEF Rewrites, Engaged, CompactHolding
  <2> QED BY <2>1, <2>2 DEF CopiesStay
<1>4. StaleIsBrief'
  BY <1>1, <1>2 DEF JournalInv, StaleIsBrief, Engaged
<1> QED BY <1>3, <1>4, <1>5 DEF JournalInv

\* What a handler keeps is its own.
LEMMA KeepIsLocal ==
  ASSUME TypeInv, NEW p \in Worker, NEW value, Keep(p, value)
  PROVE  job'[p] = value /\ \A q \in Worker \ {p} : job'[q] = job[q]
  BY DEF TypeInv, TypeOK, Keep

\* An idle worker is at none of the steps of a rewrite.
LEMMA IdleIsElsewhere == "idle" \in Step /\ "idle" \notin Engaged
  BY DEF Step, Engaged

\* A handler that returns without touching the file or the answers.
LEMMA ReturnJournal ==
  ASSUME JournalInv, TypeInv, NEW p \in Worker, Return(p),
         pc[p] \notin Engaged, UNCHANGED <<up, journalVars, answer>>, CopiesStay
  PROVE  JournalInv'
<1>1. Goto(p, "idle") /\ \A q \in Worker \ {p} : job'[q] = job[q]
  BY KeepIsLocal DEF Return
<1> QED BY <1>1, IdleIsElsewhere, ElsewhereJournal

-----------------------------------------------------------------------------
\* AppendPath.

\* No descriptor is stale while an append writes.
LEMMA DescriptorCurrent ==
  ASSUME JournalInv, TypeInv, NEW p \in Worker, pc[p] \in AppendHolding
  PROVE  fd # "stale" /\ \A q \in Worker : pc[q] \notin {"compact.tmp", "compact.rename", "compact.evict"}
<1>1. ASSUME NEW q \in Worker, pc[q] \in CompactHolding PROVE FALSE
  <2>1. AppendHolding \cap CompactHolding = {}
    BY DEF AppendHolding, CompactHolding
  <2>2. q # p
    BY <1>1, <2>1
  <2> QED BY <1>1, <2>2, CompactionIsAlone DEF TypeInv
<1>2. \A q \in Worker : pc[q] \notin {"compact.tmp", "compact.rename", "compact.evict"}
  BY <1>1 DEF CompactHolding
<1> QED BY <1>2 DEF JournalInv, StaleIsBrief

\* A line at the end keeps the others and adds its own.
LEMMA AppendIds ==
  ASSUME NEW records \in Seq(Record), NEW record \in Record
  PROVE  Ids(Append(records, record)) = Ids(records) \cup {record.id}
  BY DEF Ids

\* An append adds a line, or tears the file, and takes no line.
LEMMA AppendWriteJournal ==
  ASSUME JournalInv, TypeInv, NEW p \in Worker, AppendWrite(p)
  PROVE  JournalInv'
<1>1. PICK r \in RecId : /\ WriteLine([id |-> r, rev |-> 1, by |-> <<>>])
                         /\ Keep(p, [job[p] EXCEPT !.rec = r])
  BY DEF AppendWrite
<1> DEFINE record == [id |-> r, rev |-> 1, by |-> <<>>]
<1>2. record \in Record /\ record.id = r
  BY DEF Record
<1>3. /\ fd # "stale"
      /\ \A q \in Worker : pc[q] \notin {"compact.tmp", "compact.rename", "compact.evict"}
  BY DescriptorCurrent DEF AppendWrite, AppendHolding
<1>4. /\ fd' # "stale" /\ UNCHANGED <<up, tmp, answer>>
      /\ tear' = "none" => tear = "none" /\ journal' = Append(journal, record)
  BY <1>1, <1>3 DEF AppendWrite, WriteLine, OpenAppend, answerVars
<1>5. /\ job'[p].rec = r /\ \A q \in Worker \ {p} : job'[q] = job[q] /\ pc'[q] = pc[q]
      /\ pc'[p] = "append.begin"
  BY <1>1 DEF AppendWrite, TypeInv, TypeOK, Keep, Goto, Job
<1>6. tear' = "none" => Ids(journal') = Ids(journal) \cup {r}
  BY <1>2, <1>4, AppendIds DEF TypeInv, TypeOK
<1>7. NoLostRecord'
  BY <1>4, <1>6 DEF JournalInv, NoLostRecord
<1>8. LineWritten'
  BY <1>4, <1>5, <1>6 DEF JournalInv, LineWritten
<1>9. Rewrites'
  BY <1>3, <1>5 DEF Rewrites
<1>10. StaleIsBrief'
  BY <1>3, <1>4, <1>5 DEF JournalInv, StaleIsBrief
<1> QED BY <1>7, <1>8, <1>9, <1>10 DEF JournalInv

\* A record is answered once its line is there.
LEMMA AnsweredJournal ==
  ASSUME JournalInv, TypeInv, NEW p \in Worker, InsertCommit(p) \/ InsertConflict(p) \/ InsertFails(p)
  PROVE  JournalInv'
<1>1. /\ pc[p] \in {"append.begin", "append.upsert"} /\ Return(p)
      /\ UNCHANGED <<up, journalVars, candidateVars>>
      /\ \E told : answer' = [answer EXCEPT ![job[p].rec] = told]
  BY DEF InsertCommit, InsertConflict, InsertFails, AcceptedOnly
<1>2. /\ pc'[p] = "idle" /\ \A q \in Worker \ {p} : job'[q] = job[q] /\ pc'[q] = pc[q]
  BY <1>1 DEF TypeInv, TypeOK, Return, Keep, Goto
<1>3. UNCHANGED <<up, journal, tear, tmp, fd, copies>>
  BY <1>1 DEF journalVars, candidateVars
<1>4. NoLostRecord'
  BY <1>1, <1>3 DEF JournalInv, NoLostRecord, LineWritten, TypeInv, TypeOK
<1>5. LineWritten' /\ Rewrites'
  BY <1>2, <1>3 DEF JournalInv, LineWritten, Rewrites
<1>6. StaleIsBrief'
  BY <1>1, <1>2, <1>3 DEF JournalInv, StaleIsBrief
<1> QED BY <1>4, <1>5, <1>6 DEF JournalInv

\* The same over every step of an append,
LEMMA AppendJournal ==
  ASSUME JournalInv, TypeInv, NEW p \in Worker, AppendProgress(p) \/ AppendFault(p)
  PROVE  JournalInv'
<1>1. CASE AppendLock(p)
  <2>1. "append.write" \in Step /\ "append.write" \notin Engaged /\ "append.lock" \notin Engaged
    BY DEF Step, AppendHolding, Engaged
  <2> QED BY <1>1, <2>1, ElsewhereJournal DEF AppendLock, answerVars, candidateVars, CopiesStay
<1>2. CASE InsertBegin(p)
  <2>1. /\ job'[p].rec = job[p].rec /\ \A q \in Worker \ {p} : job'[q] = job[q] /\ pc'[q] = pc[q]
        /\ pc[p] = "append.begin" /\ pc'[p] = "append.upsert"
    BY <1>2 DEF InsertBegin, TypeInv, TypeOK, Keep, Goto, Job
  <2>2. UNCHANGED <<up, journal, tear, tmp, fd, copies, answer>>
    BY <1>2 DEF InsertBegin, journalVars, candidateVars, answerVars
  <2>3. NoLostRecord' /\ LineWritten' /\ Rewrites'
    BY <2>1, <2>2 DEF JournalInv, NoLostRecord, LineWritten, Rewrites
  <2>4. StaleIsBrief'
    BY <2>1, <2>2 DEF JournalInv, StaleIsBrief
  <2> QED BY <2>3, <2>4 DEF JournalInv
<1>3. CASE AppendWriteFails(p)
  <2>1. /\ pc[p] = "append.write" /\ pc'[p] = "idle"
        /\ \A q \in Worker \ {p} : job'[q] = job[q] /\ pc'[q] = pc[q]
    BY <1>3 DEF AppendWriteFails, TypeInv, TypeOK, Return, Keep, Goto
  <2>2. fd # "stale" /\ \A q \in Worker : pc[q] \notin {"compact.tmp", "compact.rename", "compact.evict"}
    BY <2>1, DescriptorCurrent DEF AppendHolding
  <2>3. /\ UNCHANGED <<up, journal, tmp, answer>> /\ fd' # "stale"
        /\ tear' = "none" => tear = "none"
    BY <1>3, <2>2 DEF AppendWriteFails, OpenAppend, answerVars
  <2>4. NoLostRecord' /\ LineWritten'
    BY <2>1, <2>3 DEF JournalInv, NoLostRecord, LineWritten
  <2>5. Rewrites' /\ StaleIsBrief'
    BY <2>1, <2>2, <2>3 DEF JournalInv, Rewrites, StaleIsBrief
  <2> QED BY <2>4, <2>5 DEF JournalInv
<1> QED BY <1>1, <1>2, <1>3, AppendWriteJournal, AnsweredJournal DEF AppendProgress, AppendFault

-----------------------------------------------------------------------------
\* CandidatePath never touches the journal.

\* of a submit, a list and a resolve,
LEMMA CandidateJournal ==
  ASSUME JournalInv, TypeInv, NEW p \in Worker, CandidateProgress(p) \/ CandidateFault(p)
  PROVE  JournalInv'
<1> DEFINE Goes == SubmitRead(p) \/ ResolveRead(p) \/ MoveApplied(p) \/ MoveDenied(p) \/ CandidateLock(p)
           Ends == \/ SubmitRejected(p) \/ SubmitAppend(p) \/ ListRead(p) \/ ResolveRejected(p)
                   \/ RemovePending(p) \/ SubmitFails(p) \/ MoveFails(p)
<1>1. CASE Goes
  <2>1. PICK t \in SharedHolding \cup ResolveHolding : Goto(p, t)
    BY <1>1 DEF SubmitRead, ResolveRead, MoveApplied, MoveDenied, CandidateLock, SharedHolding, ResolveHolding
  <2>2. t \in Step /\ t \notin Engaged /\ pc[p] \notin Engaged
    BY <1>1 DEF SubmitRead, ResolveRead, MoveApplied, MoveDenied, CandidateLock, SharedHolding,
                ResolveHolding, Engaged, Step
  <2>3. \A q \in Worker \ {p} : job'[q] = job[q]
    <3>1. (\E value : Keep(p, value)) \/ UNCHANGED job
      BY <1>1 DEF SubmitRead, ResolveRead, MoveApplied, MoveDenied, CandidateLock
    <3> QED BY <3>1, KeepIsLocal
  <2>4. UNCHANGED <<up, journalVars, answer>> /\ CopiesStay
    BY <1>1 DEF SubmitRead, ResolveRead, MoveApplied, MoveDenied, CandidateLock, answerVars,
                candidateVars, CopiesStay
  <2> QED BY <2>1, <2>2, <2>3, <2>4, ElsewhereJournal
<1>2. CASE Ends
  <2>1. Return(p) /\ UNCHANGED <<up, journalVars, answer>> /\ pc[p] \notin Engaged
    BY <1>2 DEF SubmitRejected, SubmitAppend, ListRead, ResolveRejected, RemovePending,
                SubmitFails, MoveFails, answerVars, Engaged
  <2>2. CopiesStay
    <3>1. CASE SubmitAppend(p) \/ SubmitFails(p)
      <4>1. pc[p] \in SharedHolding
        BY <3>1 DEF SubmitAppend, SubmitFails, SharedHolding
      <4> QED BY <4>1, SubmitMeetsNoCompaction DEF CopiesStay, TypeInv
    <3>2. CASE ~ (SubmitAppend(p) \/ SubmitFails(p))
      BY <1>2, <3>2 DEF SubmitRejected, ListRead, ResolveRejected, RemovePending, MoveFails,
                        candidateVars, CopiesStay
    <3> QED BY <3>1, <3>2
  <2> QED BY <2>1, <2>2, ReturnJournal
<1> QED BY <1>1, <1>2 DEF CandidateProgress, CandidateFault

-----------------------------------------------------------------------------
\* CompactionPath.

\* Only the compaction at work is engaged: the others wait for its lock.
LEMMA OthersNotEngaged ==
  ASSUME TypeInv, NEW p \in Worker, pc[p] \in CompactHolding, NEW q \in Worker, q # p
  PROVE  pc[q] \notin Engaged
  BY CompactionIsAlone DEF TypeInv, Engaged, AppendHolding, CompactHolding

\* The new contents of the file have every line of the old ones.
LEMMA SubstitutionIds ==
  ASSUME TypeInv, NEW p \in Worker, pc[p] \in CompactHolding
  PROVE  Ids(journal) \subseteq Ids(ApplySubstitutions(journal, job[p].batch, copies))
<1> DEFINE batch == job[p].batch
<1>1. batch \in SUBSET CandId /\ \A c \in batch : copies[c] \in RecordsOver(RecId, CandId)
  BY RecordIsRecordOver DEF TypeInv, TypeOK, Created, Job
<1>2. journal \in Seq(RecordsOver(RecId, CandId)) /\ IsFiniteSet(RecId)
  BY RecordIsRecordOver, FiniteIdsAssumption DEF TypeInv, TypeOK
<1> QED BY <1>1, <1>2, SubstitutionKeepsRecords

\* of the part of a compaction that plans a rewrite under its locks,
LEMMA CompactReadJournal ==
  ASSUME JournalInv, TypeInv, NEW p \in Worker, CompactRead(p)
  PROVE  JournalInv'
<1>1. /\ job'[p].lines = ApplySubstitutions(journal, job[p].batch, copies)
      /\ job'[p].batch = job[p].batch
      /\ \A q \in Worker \ {p} : job'[q] = job[q]
  BY DEF CompactRead, TypeInv, TypeOK, Keep, Job
<1>2. /\ pc[p] = "compact.read" /\ pc'[p] = "compact.tmp" /\ \A q \in Worker \ {p} : pc'[q] = pc[q]
      /\ tear = "none" /\ UNCHANGED <<up, journal, tear, tmp, fd, copies, answer>>
  BY DEF CompactRead, TypeInv, TypeOK, Goto, journalVars, candidateVars, answerVars
<1>3. NoLostRecord' /\ LineWritten'
  BY <1>1, <1>2 DEF JournalInv, NoLostRecord, LineWritten
<1>4. Rewrites'
  BY <1>1, <1>2 DEF JournalInv, Rewrites
<1>5. StaleIsBrief'
  BY <1>2 DEF JournalInv, StaleIsBrief
<1> QED BY <1>3, <1>4, <1>5 DEF JournalInv

\* of the rename, which puts in place a file computed from the present one,
LEMMA RewriteJournal ==
  ASSUME JournalInv, TypeInv, NEW p \in Worker,
         WriteTmp(p) \/ RenameTmp(p) \/ Evict(p) \/ RewriteFails(p)
  PROVE  JournalInv'
<1>1. \A q \in Worker \ {p} : pc[q] \notin Engaged
  <2>1. pc[p] \in CompactHolding
    BY DEF WriteTmp, RenameTmp, Evict, RewriteFails, CompactHolding
  <2> QED BY <2>1, OthersNotEngaged
<1>2. \A q \in Worker \ {p} : pc'[q] = pc[q] /\ job'[q] = job[q]
  BY DEF WriteTmp, RenameTmp, Evict, RewriteFails, TypeInv, TypeOK, Goto, Return, Keep
<1>3. UNCHANGED <<up, answer>>
  BY DEF WriteTmp, RenameTmp, Evict, RewriteFails, answerVars
<1>4. CASE WriteTmp(p)
  <2>1. pc[p] = "compact.tmp" /\ pc'[p] = "compact.rename" /\ tmp' = job[p].lines
        /\ UNCHANGED <<journal, tear, fd, job, copies>>
    BY <1>4 DEF WriteTmp, TypeInv, TypeOK, Goto, candidateVars
  <2>2. NoLostRecord' /\ LineWritten' /\ Rewrites'
    BY <1>1, <1>2, <1>3, <2>1 DEF JournalInv, NoLostRecord, LineWritten, Rewrites, Engaged
  <2>3. StaleIsBrief'
    BY <1>2, <2>1 DEF JournalInv, StaleIsBrief
  <2> QED BY <2>2, <2>3 DEF JournalInv
<1>5. CASE RenameTmp(p)
  <2>1. pc[p] = "compact.rename" /\ pc'[p] = "compact.evict" /\ journal' = tmp /\ tmp' = None
    BY <1>5 DEF RenameTmp, TypeInv, TypeOK, Goto
  <2>2. tear = "none" /\ Ids(journal) \subseteq Ids(journal')
    BY <2>1, SubstitutionIds DEF JournalInv, Rewrites, CompactHolding
  <2>3. NoLostRecord'
    BY <1>3, <2>2 DEF JournalInv, NoLostRecord
  <2>4. LineWritten' /\ Rewrites'
    BY <1>1, <1>2, <2>1 DEF LineWritten, Rewrites, Engaged
  <2>5. StaleIsBrief'
    BY <1>2, <2>1 DEF StaleIsBrief
  <2> QED BY <2>3, <2>4, <2>5 DEF JournalInv
<1>6. CASE Evict(p)
  <2>1. pc[p] = "compact.evict" /\ pc'[p] = "compact.delete" /\ fd' = "none"
        /\ UNCHANGED <<journal, tear, tmp, job>>
    BY <1>6 DEF Evict, TypeInv, TypeOK, Goto
  <2>2. NoLostRecord' /\ LineWritten' /\ Rewrites'
    BY <1>1, <1>2, <1>3, <2>1 DEF JournalInv, NoLostRecord, LineWritten, Rewrites, Engaged
  <2>3. StaleIsBrief'
    BY <1>1, <1>2, <1>3, <2>1 DEF JournalInv, StaleIsBrief, Engaged
  <2> QED BY <2>2, <2>3 DEF JournalInv
<1>7. CASE RewriteFails(p)
  <2>1. pc[p] \in {"compact.read", "compact.tmp", "compact.rename"} /\ pc'[p] = "idle"
        /\ UNCHANGED <<journal, tear, fd>>
    BY <1>7 DEF RewriteFails, TypeInv, TypeOK, Return, Goto
  <2>2. NoLostRecord' /\ LineWritten' /\ Rewrites'
    BY <1>1, <1>2, <1>3, <2>1 DEF JournalInv, NoLostRecord, LineWritten, Rewrites, Engaged
  <2>3. StaleIsBrief'
    BY <1>1, <1>2, <1>3, <2>1 DEF JournalInv, StaleIsBrief, Engaged
  <2> QED BY <2>2, <2>3 DEF JournalInv
<1> QED BY <1>4, <1>5, <1>6, <1>7

\* of a whole compaction,
LEMMA CompactionJournal ==
  ASSUME JournalInv, TypeInv, NEW p \in Worker, CompactProgress(p) \/ CompactFault(p)
  PROVE  JournalInv'
<1> DEFINE Goes == \/ CompactList(p) /\ applied # {}
                   \/ CompactLockJournal(p) \/ CompactLockCandidates(p)
                   \/ DeleteApplied(p) \/ RebuildIndex(p)
                   \/ CleanupFails(p) /\ pc[p] # "compact.audit"
           Ends == \/ CompactList(p) /\ applied = {}
                   \/ CompactListFails(p) \/ CompactUnreadable(p) \/ CompactCancel(p) \/ AuditAppend(p)
                   \/ CleanupFails(p) /\ pc[p] = "compact.audit"
<1>1. CASE Goes
  <2>1. PICK t \in {"compact.journal", "compact.candidate", "compact.read", "compact.rebuild", "compact.audit"} :
          Goto(p, t)
    BY <1>1 DEF CompactList, CompactLockJournal, CompactLockCandidates, DeleteApplied, RebuildIndex,
                CleanupFails
  <2>2. t \in Step /\ t \notin Engaged /\ pc[p] \notin Engaged
    BY <1>1 DEF CompactList, CompactLockJournal, CompactLockCandidates, DeleteApplied, RebuildIndex,
                CleanupFails, Engaged, Step, Waiting, CompactHolding
  <2>3. \A q \in Worker \ {p} : job'[q] = job[q]
    <3>1. (\E value : Keep(p, value)) \/ UNCHANGED job
      BY <1>1 DEF CompactList, CompactLockJournal, CompactLockCandidates, DeleteApplied, RebuildIndex,
                  CleanupFails
    <3> QED BY <3>1, KeepIsLocal
  <2>4. UNCHANGED <<up, journalVars, answer>> /\ CopiesStay
    BY <1>1 DEF CompactList, CompactLockJournal, CompactLockCandidates, DeleteApplied, RebuildIndex,
                CleanupFails, answerVars, candidateVars, CopiesStay
  <2> QED BY <2>1, <2>2, <2>3, <2>4, ElsewhereJournal
<1>2. CASE Ends
  <2>1. Return(p) /\ UNCHANGED <<up, journalVars, answer>> /\ pc[p] \notin Engaged /\ CopiesStay
    BY <1>2 DEF CompactList, CompactListFails, CompactUnreadable, CompactCancel, AuditAppend,
                CleanupFails, answerVars, Engaged, candidateVars, CopiesStay
  <2> QED BY <2>1, ReturnJournal
<1> QED BY <1>1, <1>2, CompactReadJournal, RewriteJournal DEF CompactProgress, CompactFault

-----------------------------------------------------------------------------
\* The process, and the theorems.

\* of crash, restart and cancellation,
LEMMA ProcessJournal ==
  ASSUME JournalInv, TypeInv, Crash \/ Restart \/ RecoveryFails
  PROVE  JournalInv'
<1>1. CASE Crash
  <2>1. /\ pc' = [p \in Worker |-> "idle"] /\ fd' = "none" /\ UNCHANGED <<journal, answer>>
        /\ tear' = "none" => tear = "none"
    BY <1>1 DEF Crash, answerVars
  <2> QED BY <2>1 DEF JournalInv, NoLostRecord, LineWritten, Rewrites, StaleIsBrief
<1>2. CASE Restart \/ RecoveryFails
  <2>1. /\ \A p \in Worker : pc[p] = "idle"
        /\ UNCHANGED <<pc, job, journal, tear, fd, answer>>
    BY <1>2 DEF Restart, RecoveryFails, workerVars, journalVars, answerVars, TypeInv, DownIdle
  <2> QED BY <2>1 DEF JournalInv, NoLostRecord, LineWritten, Rewrites, StaleIsBrief
<1> QED BY <1>1, <1>2

\* and of an arrival.
LEMMA ArriveJournal ==
  ASSUME JournalInv, TypeInv, NEW p \in Worker, NEW k \in Kind, Arrive(p, k)
  PROVE  JournalInv'
<1>1. FirstStep[k] \in Waiting
  BY DEF FirstStep, Kind, Waiting
<1>2. FirstStep[k] \in Step /\ FirstStep[k] \notin Engaged /\ pc[p] \notin Engaged
  BY <1>1 DEF Step, Waiting, Engaged, Arrive
<1> QED BY <1>2, ElsewhereJournal DEF Arrive, answerVars, candidateVars, CopiesStay

\* Every step preserves the journal's invariant.
LEMMA NextJournal == JournalInv /\ TypeInv /\ [Next]_vars => JournalInv'
<1> SUFFICES ASSUME JournalInv, TypeInv, [Next]_vars PROVE JournalInv'
  OBVIOUS
<1>1. ASSUME NEW p \in Worker, NEW k \in Kind, Arrive(p, k) PROVE JournalInv'
  BY <1>1, ArriveJournal
<1>2. ASSUME NEW p \in Worker, Progress(p) PROVE JournalInv'
  BY <1>2, AppendJournal, CandidateJournal, CompactionJournal DEF Progress
<1>3. ASSUME NEW p \in Worker, LockFails(p) PROVE JournalInv'
  BY <1>3, ReturnJournal DEF LockFails, Engaged, answerVars, candidateVars, CopiesStay
<1>4. ASSUME NEW p \in Worker, Failure(p) PROVE JournalInv'
  BY <1>3, <1>4, AppendJournal, CandidateJournal, CompactionJournal DEF Failure
<1>5. CASE Crash \/ Restart \/ RecoveryFails
  BY <1>5, ProcessJournal
<1>6. CASE UNCHANGED vars
  BY <1>6 DEF JournalInv, NoLostRecord, LineWritten, Rewrites, StaleIsBrief, vars,
             workerVars, journalVars, candidateVars, answerVars
<1> QED BY <1>1, <1>2, <1>4, <1>5, <1>6 DEF Next

\* In every state the answered records are in the journal, and a rewrite in
\* preparation is one of the present journal (compact.go, Compact; jsonl.go,
\* ReplaceFile).
THEOREM JournalAlways == Spec => []JournalInv
<1> QED BY InitJournal, NextJournal, TypeInvAlways, PTL DEF Spec

\* A record the client was told of, 201 or 202, keeps its line in the journal
\* through every compaction, failure, cancellation and crash, unless a torn
\* write has made the file unreadable (store.go Append and RewriteRecords,
\* jsonl.go ReplaceFile and getOrCreate, compact.go).
THEOREM AnsweredRecordsStay == Spec => []NoLostRecord
<1>1. JournalInv => NoLostRecord
  BY DEF JournalInv
<1> QED BY <1>1, JournalAlways, PTL

\* From the rename of its temporary a compaction goes on only by renaming it.
LEMMA OnlyRenames ==
  ASSUME TypeInv, [Next]_vars, NEW p \in Worker, pc[p] = "compact.rename", pc'[p] = "compact.evict"
  PROVE  journal' = tmp
<1>1. ASSUME NEW q \in Worker, NEW t, Goto(q, t), pc[q] # "compact.rename" \/ t = "idle"
      PROVE  FALSE
  <2>1. pc'[q] = t /\ (q # p => pc'[p] = pc[p])
    BY <1>1 DEF Goto, TypeInv, TypeOK
  <2> QED BY <1>1, <2>1
<1>2. ASSUME NEW q \in Worker, NEW k \in Kind, Arrive(q, k) PROVE FALSE
  BY <1>1, <1>2 DEF Arrive
<1>3. ASSUME NEW q \in Worker, AppendProgress(q) \/ AppendFault(q) PROVE FALSE
  <2>1. pc[q] # "compact.rename" /\ \E t : Goto(q, t)
    BY <1>3 DEF AppendProgress, AppendFault, AppendLock, AppendWrite, InsertBegin, InsertCommit,
                InsertConflict, InsertFails, AcceptedOnly, AppendWriteFails, Return
  <2> QED BY <1>1, <2>1
<1>4. ASSUME NEW q \in Worker, CandidateProgress(q) \/ CandidateFault(q) PROVE FALSE
  <2>1. pc[q] # "compact.rename" /\ \E t : Goto(q, t)
    BY <1>4 DEF CandidateProgress, CandidateFault, CandidateLock, SubmitRead, SubmitRejected, SubmitAppend,
                SubmitFails, ListRead, ResolveRead, ResolveRejected, MoveApplied, MoveDenied,
                RemovePending, MoveFails, Return
  <2> QED BY <1>1, <2>1
<1>5. ASSUME NEW q \in Worker, CompactProgress(q) \/ CompactFault(q) PROVE journal' = tmp
  <2>1. CASE RenameTmp(q)
    BY <2>1 DEF RenameTmp
  <2>2. CASE RewriteFails(q)
    BY <1>1, <2>2 DEF RewriteFails, Return
  <2>3. CASE ~ (RenameTmp(q) \/ RewriteFails(q))
    <3>1. pc[q] # "compact.rename" /\ \E t : Goto(q, t)
      BY <1>5, <2>3 DEF CompactProgress, CompactFault, CompactList, CompactLockJournal,
           CompactLockCandidates, CompactRead, CompactUnreadable, WriteTmp, Evict, DeleteApplied,
           RebuildIndex, AuditAppend, CompactListFails, CompactCancel, CleanupFails, Return
    <3> QED BY <1>1, <3>1
  <2> QED BY <2>1, <2>2, <2>3
<1>6. ASSUME NEW q \in Worker, LockFails(q) PROVE FALSE
  BY <1>1, <1>6 DEF LockFails, Return
<1>7. CASE Crash \/ Restart \/ RecoveryFails \/ UNCHANGED vars
  BY <1>7 DEF Crash, Restart, RecoveryFails, vars, workerVars
<1> QED BY <1>2, <1>3, <1>4, <1>5, <1>6, <1>7 DEF Next, Progress, Failure

\* A rewrite is computed from what the compaction read, some steps before the
\* rename, yet takes effect as if it were one step: no append, submit, resolve,
\* failure or restart comes between, and no leftover of another compaction is
\* renamed in its place (compact.go steps 2 to 5, jsonl.go ReplaceFile).
THEOREM RewritesAreAtomic == Spec => RewriteIsAtomic
<1>1. JournalInv /\ TypeInv /\ [Next]_vars =>
        [\A p \in Worker : pc[p] = "compact.rename" /\ pc'[p] = "compact.evict" =>
           journal' = ApplySubstitutions(journal, job[p].batch, copies)]_vars
  BY OnlyRenames DEF JournalInv, Rewrites
<1> QED BY <1>1, JournalAlways, TypeInvAlways, PTL DEF Spec, RewriteIsAtomic

-----------------------------------------------------------------------------
\* The versions of records.

\* The copies of records outside the journal.
Copied == ({copies[c] : c \in CandId} \cup {job[p].copy : p \in Worker}) \ {None}

\* Each is a version of a record of the journal.
CopiesDescend ==
  \A copy \in Copied :
    Counted(copy) /\ \E k \in DOMAIN journal : VersionOf(copy, journal[k])

\* What a submit is about to write is the present version: the lock it holds
\* keeps compactions away.
CopyCurrent ==
  \A p \in Worker :
    pc[p] = "submit.append" => \E k \in DOMAIN journal : journal[k] = job[p].copy

\* The candidates that may still take effect.
Live == pending \cup applied \cup UNION {job[p].batch : p \in Worker}

\* A copy never changes, and a candidate that may take effect was made from a
\* version of its record, or of a record without a line.
CopiesCounted == \A c \in CandId : copies[c] # None => Counted(copies[c])
CopiesMatch == \A c \in Live : Descends(copies[c], journal)

\* This holds as well if the disk loses lines (module Durability); if it does not,
\* every copy is one of a record with a line.
VersionInv == RevisionCounts /\ CopiesCounted /\ CopiesMatch /\ CopyCurrent
HistoryInv == VersionInv /\ CopiesDescend

\* A step of a handler.
WorkerStep(p) == (\E k \in Kind : Arrive(p, k)) \/ Progress(p) \/ Failure(p)

\* A step appends a line, renames a rewrite, or leaves the journal alone.
LEMMA StepKinds ==
  ASSUME [Next]_vars
  PROVE  \/ \E p \in Worker : WorkerStep(p)
         \/ Crash
         \/ (Restart \/ RecoveryFails) /\ UNCHANGED workerVars
         \/ UNCHANGED vars
  BY DEF Next, WorkerStep, Restart, RecoveryFails

\* Where a step takes its worker, and what it does to the others: nothing.
LEMMA OthersStay ==
  ASSUME TypeInv, NEW p \in Worker, WorkerStep(p)
  PROVE  \A q \in Worker \ {p} : pc'[q] = pc[q] /\ job'[q] = job[q]
<1>1. \E t : Goto(p, t)
  <2>1. ASSUME AppendProgress(p) \/ AppendFault(p) PROVE \E t : Goto(p, t)
    BY <2>1 DEF AppendProgress, AppendFault, AppendLock, AppendWrite, InsertBegin, InsertCommit,
         InsertConflict, InsertFails, AcceptedOnly, AppendWriteFails, Return
  <2>2. ASSUME CandidateProgress(p) \/ CandidateFault(p) PROVE \E t : Goto(p, t)
    BY <2>2 DEF CandidateProgress, CandidateFault, CandidateLock, SubmitRead, SubmitRejected,
         SubmitAppend, SubmitFails, ListRead, ResolveRead, ResolveRejected, MoveApplied, MoveDenied,
         RemovePending, MoveFails, Return
  <2>3. ASSUME CompactProgress(p) \/ CompactFault(p) PROVE \E t : Goto(p, t)
    BY <2>3 DEF CompactProgress, CompactFault, CompactList, CompactLockJournal,
         CompactLockCandidates, CompactRead, CompactUnreadable, WriteTmp, RenameTmp, Evict,
         DeleteApplied, RebuildIndex, AuditAppend, CompactListFails, CompactCancel, RewriteFails,
         CleanupFails, Return
  <2> QED BY <2>1, <2>2, <2>3 DEF WorkerStep, Progress, Failure, Arrive, LockFails, Return
<1>2. UNCHANGED job \/ \E value : Keep(p, value)
  <2>1. ASSUME AppendProgress(p) \/ AppendFault(p) PROVE UNCHANGED job \/ \E value : Keep(p, value)
    BY <2>1 DEF AppendProgress, AppendFault, AppendLock, AppendWrite, InsertBegin, InsertCommit,
         InsertConflict, InsertFails, AcceptedOnly, AppendWriteFails, Return
  <2>2. ASSUME CandidateProgress(p) \/ CandidateFault(p) PROVE UNCHANGED job \/ \E value : Keep(p, value)
    BY <2>2 DEF CandidateProgress, CandidateFault, CandidateLock, SubmitRead, SubmitRejected,
         SubmitAppend, SubmitFails, ListRead, ResolveRead, ResolveRejected, MoveApplied, MoveDenied,
         RemovePending, MoveFails, Return
  <2>3. ASSUME CompactProgress(p) \/ CompactFault(p) PROVE UNCHANGED job \/ \E value : Keep(p, value)
    BY <2>3 DEF CompactProgress, CompactFault, CompactList, CompactLockJournal,
         CompactLockCandidates, CompactRead, CompactUnreadable, WriteTmp, RenameTmp, Evict,
         DeleteApplied, RebuildIndex, AuditAppend, CompactListFails, CompactCancel, RewriteFails,
         CleanupFails, Return
  <2> QED BY <2>1, <2>2, <2>3 DEF WorkerStep, Progress, Failure, Arrive, LockFails, Return
<1> QED BY <1>1, <1>2, KeepIsLocal DEF TypeInv, TypeOK, Goto

\* Where the step of a worker takes it: to one of the places that say nothing of
\* what it carries, or to the place behind one action.
LEMMA StepGoes ==
  ASSUME TypeInv, NEW p \in Worker, WorkerStep(p)
  PROVE  \/ pc'[p] \in {"idle", "append.lock", "submit.lock", "list.lock", "resolve.lock", "compact.list",
                        "append.write", "submit.read", "list.read", "resolve.read"}
         \/ AppendWrite(p) /\ pc'[p] = "append.begin"
         \/ InsertBegin(p) /\ pc'[p] = "append.upsert"
         \/ SubmitRead(p) /\ pc'[p] = "submit.append"
         \/ ResolveRead(p) /\ pc'[p] = "resolve.applied"
         \/ MoveApplied(p) /\ pc'[p] = "resolve.denied"
         \/ MoveDenied(p) /\ pc'[p] = "resolve.pending"
         \/ CompactList(p) /\ pc'[p] = "compact.journal"
         \/ CompactLockJournal(p) /\ pc'[p] = "compact.candidate"
         \/ CompactLockCandidates(p) /\ pc'[p] = "compact.read"
         \/ CompactRead(p) /\ pc'[p] = "compact.tmp"
         \/ WriteTmp(p) /\ pc'[p] = "compact.rename"
         \/ RenameTmp(p) /\ pc'[p] = "compact.evict"
         \/ Evict(p) /\ pc'[p] = "compact.delete"
         \/ (DeleteApplied(p) \/ CleanupFails(p)) /\ pc[p] = "compact.delete" /\ pc'[p] = "compact.rebuild"
         \/ (RebuildIndex(p) \/ CleanupFails(p)) /\ pc[p] = "compact.rebuild" /\ pc'[p] = "compact.audit"
<1> DEFINE Plain == {"idle", "append.lock", "submit.lock", "list.lock", "resolve.lock", "compact.list",
                     "append.write", "submit.read", "list.read", "resolve.read"}
<1>1. ASSUME NEW t, Goto(p, t) PROVE pc'[p] = t
  BY <1>1 DEF TypeInv, TypeOK, Goto
<1>2. ASSUME Return(p) PROVE pc'[p] \in Plain
  BY <1>1, <1>2 DEF Return
<1>3. CASE AppendProgress(p) \/ AppendFault(p)
  <2>1. CASE AppendLock(p) \/ AppendWrite(p) \/ InsertBegin(p)
    BY <1>1, <2>1 DEF AppendLock, AppendWrite, InsertBegin
  <2>2. CASE ~ (AppendLock(p) \/ AppendWrite(p) \/ InsertBegin(p))
    <3>1. Return(p)
      BY <1>3, <2>2 DEF AppendProgress, AppendFault, InsertCommit, InsertConflict, InsertFails,
           AcceptedOnly, AppendWriteFails
    <3> QED BY <1>2, <3>1
  <2> QED BY <2>1, <2>2
<1>4. CASE CandidateProgress(p) \/ CandidateFault(p)
  <2>1. CASE CandidateLock(p)
    <3>1. Goto(p, "submit.read") \/ Goto(p, "list.read") \/ Goto(p, "resolve.read")
      BY <2>1 DEF CandidateLock
    <3> QED BY <1>1, <3>1
  <2>2. CASE SubmitRead(p) \/ ResolveRead(p) \/ MoveApplied(p) \/ MoveDenied(p)
    BY <1>1, <2>2 DEF SubmitRead, ResolveRead, MoveApplied, MoveDenied
  <2>3. CASE \/ SubmitRejected(p) \/ SubmitAppend(p) \/ SubmitFails(p) \/ ListRead(p)
             \/ ResolveRejected(p) \/ RemovePending(p) \/ MoveFails(p)
    <3>1. Return(p)
      BY <2>3 DEF SubmitRejected, SubmitAppend, SubmitFails, ListRead, ResolveRejected, RemovePending,
                  MoveFails
    <3> QED BY <1>2, <3>1
  <2> QED BY <1>4, <2>1, <2>2, <2>3 DEF CandidateProgress, CandidateFault
<1>5. CASE CompactProgress(p) \/ CompactFault(p)
  <2>1. CASE CompactLockJournal(p) \/ RebuildIndex(p)
    BY <1>1, <2>1 DEF CompactLockJournal, RebuildIndex
  <2>2. CASE \/ CompactLockCandidates(p) \/ CompactRead(p) \/ WriteTmp(p) \/ RenameTmp(p) \/ Evict(p)
             \/ DeleteApplied(p)
    BY <1>1, <2>2 DEF CompactLockCandidates, CompactRead, WriteTmp, RenameTmp, Evict, DeleteApplied
  <2>3. CASE CompactList(p)
    <3>1. Return(p) \/ Goto(p, "compact.journal")
      BY <2>3 DEF CompactList
    <3> QED BY <1>1, <1>2, <2>3, <3>1
  <2>4. CASE CleanupFails(p)
    BY <1>1, <1>2, <2>4 DEF CleanupFails
  <2>5. CASE CompactUnreadable(p) \/ AuditAppend(p) \/ CompactListFails(p) \/ CompactCancel(p) \/ RewriteFails(p)
    <3>1. Return(p)
      BY <2>5 DEF CompactUnreadable, AuditAppend, CompactListFails, CompactCancel, RewriteFails
    <3> QED BY <1>2, <3>1
  <2> QED BY <1>5, <2>1, <2>2, <2>3, <2>4, <2>5 DEF CompactProgress, CompactFault
<1>6. CASE LockFails(p) \/ \E k \in Kind : Arrive(p, k)
  BY <1>1, <1>2, <1>6 DEF LockFails, Arrive, FirstStep, Kind
<1> QED BY <1>3, <1>4, <1>5, <1>6 DEF WorkerStep, Progress, Failure

-----------------------------------------------------------------------------
\* What each path leaves alone.

\* Appends leave the candidates alone, and write the journal in one place;
LEMMA AppendLeaves ==
  ASSUME NEW p \in Worker, AppendProgress(p) \/ AppendFault(p)
  PROVE  /\ UNCHANGED <<up, candidateVars, submitted, approved, tmp>>
         /\ AppendWrite(p) \/ UNCHANGED journal
<1>1. CASE AppendWrite(p)
  BY <1>1 DEF AppendWrite, answerVars
<1>2. CASE AppendLock(p) \/ InsertBegin(p)
  BY <1>2 DEF AppendLock, InsertBegin, answerVars, journalVars
<1>3. CASE InsertCommit(p) \/ InsertConflict(p) \/ InsertFails(p)
  BY <1>3 DEF InsertCommit, InsertConflict, InsertFails, AcceptedOnly, journalVars
<1>4. CASE AppendWriteFails(p)
  BY <1>4 DEF AppendWriteFails, answerVars
<1> QED BY <1>1, <1>2, <1>3, <1>4 DEF AppendProgress, AppendFault

\* candidate requests leave the journal and its index alone;
LEMMA CandidateLeaves ==
  ASSUME NEW p \in Worker, CandidateProgress(p) \/ CandidateFault(p)
  PROVE  /\ UNCHANGED <<up, journalVars, row, audit, answer>>
         /\ \/ UNCHANGED copies
            \/ \E c \in CandId : /\ pc[p] = "submit.append" /\ WritePending(p, c)
                                 /\ SubmitAppend(p) \/ SubmitFails(p)
<1>1. CASE CandidateLock(p) \/ SubmitRead(p) \/ SubmitRejected(p) \/ ListRead(p)
           \/ ResolveRead(p) \/ ResolveRejected(p)
  BY <1>1 DEF CandidateLock, SubmitRead, SubmitRejected, ListRead, ResolveRead, ResolveRejected,
       candidateVars, answerVars
<1>2. CASE MoveApplied(p) \/ MoveDenied(p) \/ RemovePending(p) \/ MoveFails(p)
  BY <1>2 DEF MoveApplied, MoveDenied, RemovePending, MoveFails, answerVars
<1>3. CASE SubmitAppend(p)
  BY <1>3 DEF SubmitAppend
<1>4. CASE SubmitFails(p)
  BY <1>4 DEF SubmitFails, answerVars
<1> QED BY <1>1, <1>2, <1>3, <1>4 DEF CandidateProgress, CandidateFault

\* compactions submit and answer nothing, and rename the journal in one place.
LEMMA CompactionLeaves ==
  ASSUME NEW p \in Worker, CompactProgress(p) \/ CompactFault(p)
  PROVE  /\ UNCHANGED <<up, copies, pending, denied, answerVars>>
         /\ RenameTmp(p) \/ UNCHANGED <<journal, tear>>
<1>1. CASE CompactList(p) \/ CompactListFails(p) \/ CompactLockJournal(p)
           \/ CompactLockCandidates(p) \/ CompactCancel(p)
  BY <1>1 DEF CompactList, CompactListFails, CompactLockJournal, CompactLockCandidates, CompactCancel,
       candidateVars, journalVars
<1>2. CASE CompactRead(p) \/ CompactUnreadable(p) \/ WriteTmp(p) \/ Evict(p) \/ RewriteFails(p)
  BY <1>2 DEF CompactRead, CompactUnreadable, WriteTmp, Evict, RewriteFails, candidateVars, journalVars
<1>3. CASE RenameTmp(p)
  BY <1>3 DEF RenameTmp, candidateVars
<1>4. CASE DeleteApplied(p) \/ RebuildIndex(p) \/ AuditAppend(p) \/ CleanupFails(p)
  BY <1>4 DEF DeleteApplied, RebuildIndex, AuditAppend, CleanupFails, candidateVars, journalVars
<1> QED BY <1>1, <1>2, <1>3, <1>4 DEF CompactProgress, CompactFault

\* The journal file changes in two ways only, and candidates in one.
LEMMA JournalSteps ==
  ASSUME [Next]_vars
  PROVE  /\ \/ UNCHANGED journal
            \/ \E p \in Worker : AppendWrite(p)
            \/ \E p \in Worker : RenameTmp(p)
         /\ \/ UNCHANGED copies
            \/ \E p \in Worker, c \in CandId :
                 /\ pc[p] = "submit.append" /\ WritePending(p, c)
                 /\ SubmitAppend(p) \/ SubmitFails(p)
<1>1. ASSUME NEW p \in Worker, AppendProgress(p) \/ AppendFault(p)
      PROVE  UNCHANGED copies /\ (AppendWrite(p) \/ UNCHANGED journal)
  BY <1>1, AppendLeaves DEF candidateVars
<1>2. ASSUME NEW p \in Worker, CompactProgress(p) \/ CompactFault(p)
      PROVE  UNCHANGED copies /\ (RenameTmp(p) \/ UNCHANGED journal)
  BY <1>2, CompactionLeaves
<1>3. ASSUME NEW p \in Worker, CandidateProgress(p) \/ CandidateFault(p)
      PROVE  /\ UNCHANGED journal
             /\ \/ UNCHANGED copies
                \/ \E c \in CandId : /\ pc[p] = "submit.append" /\ WritePending(p, c)
                                     /\ SubmitAppend(p) \/ SubmitFails(p)
  BY <1>3, CandidateLeaves DEF journalVars
<1>4. ASSUME NEW p \in Worker, LockFails(p) \/ \E k \in Kind : Arrive(p, k)
      PROVE  UNCHANGED <<journal, copies>>
  BY <1>4 DEF LockFails, Arrive, journalVars, candidateVars
<1>5. CASE Crash \/ Restart \/ RecoveryFails \/ UNCHANGED vars
  BY <1>5 DEF Crash, Restart, RecoveryFails, vars, journalVars, candidateVars
<1> QED BY <1>1, <1>2, <1>3, <1>4, <1>5 DEF Next, Progress, Failure

\* A candidate enters the pending file by a submit only.
LEMMA PendingGrows ==
  ASSUME [Next]_vars, NEW c \in pending' \ pending
  PROVE  \E p \in Worker, d \in CandId : pc[p] = "submit.append" /\ WritePending(p, d)
<1>1. ASSUME NEW p \in Worker, AppendProgress(p) \/ AppendFault(p) PROVE UNCHANGED pending
  BY <1>1, AppendLeaves DEF candidateVars
<1>2. ASSUME NEW p \in Worker, CompactProgress(p) \/ CompactFault(p) PROVE UNCHANGED pending
  BY <1>2, CompactionLeaves
<1>3. ASSUME NEW p \in Worker, CandidateProgress(p) \/ CandidateFault(p)
      PROVE  \/ pending' \subseteq pending
             \/ \E d \in CandId : pc[p] = "submit.append" /\ WritePending(p, d)
  BY <1>3 DEF CandidateProgress, CandidateFault, CandidateLock, SubmitRead, SubmitRejected, ListRead,
       ResolveRead, ResolveRejected, MoveApplied, MoveDenied, RemovePending, MoveFails, SubmitAppend,
       SubmitFails, candidateVars
<1>4. ASSUME NEW p \in Worker, LockFails(p) \/ \E k \in Kind : Arrive(p, k) PROVE UNCHANGED pending
  BY <1>4 DEF LockFails, Arrive, candidateVars
<1>5. CASE Crash \/ Restart \/ RecoveryFails \/ UNCHANGED vars
  BY <1>5 DEF Crash, Restart, RecoveryFails, vars, candidateVars
<1> QED BY <1>1, <1>2, <1>3, <1>4, <1>5 DEF Next, Progress, Failure

\* What a candidate was made with never changes.
LEMMA CandidatesStay ==
  ASSUME TypeInv, [Next]_vars, NEW c \in CandId, copies[c] # None
  PROVE  copies'[c] = copies[c]
<1>1. CASE UNCHANGED copies
  BY <1>1
<1>2. CASE \E p \in Worker, d \in CandId : WritePending(p, d)
  BY <1>2 DEF WritePending, TypeInv, TypeOK
<1> QED BY <1>1, <1>2, JournalSteps

\* The actions that write candidate files.
FileStep(p) ==
  \/ SubmitAppend(p) \/ SubmitFails(p) \/ MoveApplied(p) \/ MoveDenied(p) \/ RemovePending(p)
  \/ MoveFails(p) \/ DeleteApplied(p) \/ CleanupFails(p)

\* Only those actions change what the candidate files hold.
LEMMA FileSteps ==
  ASSUME [Next]_vars
  PROVE  UNCHANGED <<pending, applied, denied, submitted>> \/ \E p \in Worker : FileStep(p)
<1>1. ASSUME NEW p \in Worker, AppendProgress(p) \/ AppendFault(p)
      PROVE  UNCHANGED <<pending, applied, denied, submitted>>
  BY <1>1, AppendLeaves DEF candidateVars
<1>2. ASSUME NEW p \in Worker, CandidateProgress(p) \/ CandidateFault(p)
      PROVE  UNCHANGED <<pending, applied, denied, submitted>> \/ FileStep(p)
  BY <1>2 DEF CandidateProgress, CandidateFault, CandidateLock, SubmitRead, SubmitRejected, ListRead,
              ResolveRead, ResolveRejected, FileStep, candidateVars, answerVars
<1>3. ASSUME NEW p \in Worker, CompactProgress(p) \/ CompactFault(p)
      PROVE  UNCHANGED <<pending, applied, denied, submitted>> \/ FileStep(p)
  <2>1. CASE \/ CompactList(p) \/ CompactListFails(p) \/ CompactLockJournal(p)
             \/ CompactLockCandidates(p) \/ CompactCancel(p) \/ CompactRead(p) \/ CompactUnreadable(p)
    BY <2>1 DEF CompactList, CompactListFails, CompactLockJournal, CompactLockCandidates,
                CompactCancel, CompactRead, CompactUnreadable, candidateVars, answerVars
  <2>2. CASE WriteTmp(p) \/ RenameTmp(p) \/ Evict(p) \/ RewriteFails(p) \/ RebuildIndex(p) \/ AuditAppend(p)
    BY <2>2 DEF WriteTmp, RenameTmp, Evict, RewriteFails, RebuildIndex, AuditAppend, candidateVars,
                answerVars
  <2> QED BY <1>3, <2>1, <2>2 DEF CompactProgress, CompactFault, FileStep
<1>4. ASSUME NEW p \in Worker, LockFails(p) \/ \E k \in Kind : Arrive(p, k)
      PROVE  UNCHANGED <<pending, applied, denied, submitted>>
  BY <1>4 DEF LockFails, Arrive, candidateVars, answerVars
<1>5. CASE Crash \/ Restart \/ RecoveryFails \/ UNCHANGED vars
  BY <1>5 DEF Crash, Restart, RecoveryFails, vars, candidateVars, answerVars
<1> QED BY <1>1, <1>2, <1>3, <1>4, <1>5 DEF Next, Progress, Failure

\* A candidate comes to the applied file from a resolve's batch.
LEMMA AppliedComes ==
  ASSUME [Next]_vars
  PROVE  applied' \subseteq applied \/ \E p \in Worker : MoveApplied(p) /\ applied' = job[p].batch
<1>1. ASSUME NEW p \in Worker, FileStep(p)
      PROVE  applied' \subseteq applied \/ (MoveApplied(p) /\ applied' = job[p].batch)
  BY <1>1 DEF FileStep, SubmitAppend, SubmitFails, MoveApplied, MoveDenied, RemovePending, MoveFails,
              DeleteApplied, CleanupFails, Uncompacted
<1> QED BY <1>1, FileSteps

\* The temporary, and half a line in the journal, come and go in these steps only.
LEMMA TmpSteps ==
  ASSUME [Next]_vars
  PROVE  \/ UNCHANGED <<tear, tmp>>
         \/ \E p \in Worker : AppendWrite(p) \/ AppendWriteFails(p)
         \/ \E p \in Worker : WriteTmp(p) \/ RenameTmp(p) \/ RewriteFails(p)
         \/ Crash
         \/ ~ up
<1>1. ASSUME NEW p \in Worker, AppendProgress(p) \/ AppendFault(p)
      PROVE  UNCHANGED <<tear, tmp>> \/ AppendWrite(p) \/ AppendWriteFails(p)
  BY <1>1 DEF AppendProgress, AppendFault, AppendLock, InsertBegin, InsertCommit, InsertConflict,
       InsertFails, AcceptedOnly, journalVars
<1>2. ASSUME NEW p \in Worker, CandidateProgress(p) \/ CandidateFault(p) PROVE UNCHANGED <<tear, tmp>>
  BY <1>2, CandidateLeaves DEF journalVars
<1>3. ASSUME NEW p \in Worker, CompactProgress(p) \/ CompactFault(p)
      PROVE  UNCHANGED <<tear, tmp>> \/ WriteTmp(p) \/ RenameTmp(p) \/ RewriteFails(p)
  BY <1>3 DEF CompactProgress, CompactFault, CompactList, CompactListFails, CompactLockJournal,
       CompactLockCandidates, CompactCancel, CompactRead, CompactUnreadable, Evict, DeleteApplied,
       RebuildIndex, AuditAppend, CleanupFails, journalVars
<1>4. ASSUME NEW p \in Worker, LockFails(p) \/ \E k \in Kind : Arrive(p, k) PROVE UNCHANGED <<tear, tmp>>
  BY <1>4 DEF LockFails, Arrive, journalVars
<1>5. CASE Restart \/ RecoveryFails \/ UNCHANGED vars
  BY <1>5 DEF Restart, RecoveryFails, vars, journalVars
<1> QED BY <1>1, <1>2, <1>3, <1>4, <1>5 DEF Next, Progress, Failure

\* Nobody writes the journal, its temporary or a candidate while a compaction
\* prepares its rewrite.
LEMMA PreparedAlone ==
  ASSUME TypeInv, [Next]_vars, NEW p \in Worker, pc[p] \in {"compact.tmp", "compact.rename"},
         pc'[p] = pc[p]
  PROVE  UNCHANGED <<journal, tear, tmp, copies>>
<1>1. ASSUME NEW q \in Worker, AppendWrite(q) \/ AppendWriteFails(q) PROVE FALSE
  BY <1>1, CompactionIsAlone DEF TypeInv, AppendWrite, AppendWriteFails, AppendHolding, CompactHolding
<1>2. ASSUME NEW q \in Worker, WriteTmp(q) \/ RenameTmp(q) \/ RewriteFails(q) PROVE FALSE
  <2>1. q = p
    BY <1>2, CompactionIsAlone DEF TypeInv, WriteTmp, RenameTmp, RewriteFails, CompactHolding
  <2> QED BY <1>2, <2>1 DEF WriteTmp, RenameTmp, RewriteFails, Return, Goto, TypeInv, TypeOK
<1>3. ASSUME NEW q \in Worker, pc[q] = "submit.append" PROVE FALSE
  BY <1>3, SubmitMeetsNoCompaction DEF TypeInv, SharedHolding, CompactHolding
<1>4. ~ Crash /\ up
  BY DEF Crash, TypeInv, DownIdle
<1>5. UNCHANGED <<journal, copies>>
  BY <1>1, <1>2, <1>3, JournalSteps
<1> QED BY <1>1, <1>2, <1>4, <1>5, TmpSteps

\* That a planned rewrite is one of the present file needs the locks and nothing else.
LEMMA StepRewrites ==
  ASSUME TypeInv, Rewrites, [Next]_vars
  PROVE  Rewrites'
<1> SUFFICES ASSUME NEW p \in Worker, pc'[p] \in {"compact.tmp", "compact.rename"}
             PROVE  /\ tear' = "none"
                    /\ job'[p].lines = ApplySubstitutions(journal', job'[p].batch, copies')
                    /\ pc'[p] = "compact.rename" => tmp' = job'[p].lines
  BY DEF Rewrites
<1>1. CASE pc'[p] = pc[p] /\ job'[p] = job[p]
  BY <1>1, PreparedAlone DEF Rewrites
<1>2. CASE WorkerStep(p)
  <2>1. CASE CompactRead(p)
    <3>1. /\ job'[p].lines = ApplySubstitutions(journal, job[p].batch, copies)
          /\ job'[p].batch = job[p].batch
      BY <2>1 DEF CompactRead, TypeInv, TypeOK, Keep, Job
    <3>2. tear = "none" /\ UNCHANGED <<journal, tear, copies>> /\ pc'[p] = "compact.tmp"
      BY <2>1 DEF CompactRead, journalVars, candidateVars, Goto, TypeInv, TypeOK
    <3> QED BY <3>1, <3>2
  <2>2. CASE WriteTmp(p)
    BY <2>2 DEF WriteTmp, candidateVars, Rewrites
  <2> QED BY <1>2, <2>1, <2>2, StepGoes
<1>3. CASE \E q \in Worker \ {p} : WorkerStep(q)
  BY <1>1, <1>3, OthersStay
<1>4. CASE Crash
  BY <1>4 DEF Crash
<1>5. CASE UNCHANGED workerVars \/ UNCHANGED vars
  BY <1>1, <1>5 DEF workerVars, vars
<1> QED BY <1>2, <1>3, <1>4, <1>5, StepKinds

-----------------------------------------------------------------------------
\* Copies of records.

\* A submit reads a line of the journal.
LEMMA SubmitReadsLine ==
  ASSUME TypeInv, NEW p \in Worker, SubmitRead(p)
  PROVE  \E k \in DOMAIN journal : journal[k] = job'[p].copy
<1>1. PICK r \in Ids(journal) :
        Keep(p, [job[p] EXCEPT !.copy = journal[FirstLine(journal, r)]])
  BY DEF SubmitRead
<1>2. job'[p] = [job[p] EXCEPT !.copy = journal[FirstLine(journal, r)]]
  BY <1>1, KeepIsLocal
<1>3. job'[p].copy = journal[FirstLine(journal, r)]
  BY <1>2 DEF TypeInv, TypeOK, Job
<1>4. FirstLine(journal, r) \in DOMAIN journal
  BY FirstLineType DEF TypeInv, TypeOK
<1> QED BY <1>3, <1>4

\* A resolve divides the pending file.
LEMMA ResolveDecides ==
  ASSUME TypeInv, NEW p \in Worker, ResolveRead(p)
  PROVE  /\ job'[p].batch \subseteq pending
         /\ ValidResolution(job'[p].batch)
         /\ job'[p].deny = NewDenied(job'[p].batch)
         /\ job'[p].rec = job[p].rec /\ job'[p].copy = job[p].copy
<1>1. PICK accepted \in SUBSET pending :
        /\ ValidResolution(accepted)
        /\ Keep(p, [job[p] EXCEPT !.batch = accepted, !.deny = NewDenied(accepted)])
  BY DEF ResolveRead
<1>2. job'[p] = [job[p] EXCEPT !.batch = accepted, !.deny = NewDenied(accepted)]
  BY <1>1, KeepIsLocal
<1>3. /\ job'[p].rec = job[p].rec /\ job'[p].copy = job[p].copy
      /\ job'[p].batch = accepted /\ job'[p].deny = NewDenied(accepted)
  BY <1>2 DEF TypeInv, TypeOK, Job
<1> QED BY <1>1, <1>3

\* What the step of a worker does to what its handler carries.
LEMMA JobComes ==
  ASSUME TypeInv, NEW p \in Worker, WorkerStep(p)
  PROVE  \/ pc'[p] = "idle" /\ job'[p] = NoJob
         \/ /\ \/ job'[p].rec = job[p].rec
               \/ AppendWrite(p) /\ job'[p].rec \in RecId /\ FreshRecord(job'[p].rec)
            /\ \/ job'[p].copy = job[p].copy
               \/ SubmitRead(p) /\ \E k \in DOMAIN journal : journal[k] = job'[p].copy
            /\ \/ job'[p].batch = job[p].batch /\ job'[p].deny = job[p].deny
               \/ CompactList(p) /\ job'[p].batch = applied /\ job'[p].deny = job[p].deny
               \/ /\ ResolveRead(p) /\ job'[p].batch \subseteq pending
                  /\ ValidResolution(job'[p].batch) /\ job'[p].deny = NewDenied(job'[p].batch)
<1>1. CASE Return(p)
  BY <1>1, KeepIsLocal DEF Return, Goto, TypeInv, TypeOK
<1>2. CASE UNCHANGED job
  BY <1>2
<1>3. job[p] \in Job
  BY DEF TypeInv, TypeOK
<1>4. CASE AppendWrite(p)
  <2>1. PICK r \in RecId : FreshRecord(r) /\ Keep(p, [job[p] EXCEPT !.rec = r])
    BY <1>4 DEF AppendWrite
  <2>2. job'[p] = [job[p] EXCEPT !.rec = r]
    BY <2>1, KeepIsLocal
  <2>3. /\ job'[p].rec = r /\ job'[p].copy = job[p].copy
        /\ job'[p].batch = job[p].batch /\ job'[p].deny = job[p].deny
    BY <1>3, <2>2 DEF Job
  <2> QED BY <1>4, <2>1, <2>3
<1>5. CASE InsertBegin(p)
  <2>1. job'[p] = [job[p] EXCEPT !.row = row]
    BY <1>5, KeepIsLocal DEF InsertBegin
  <2> QED BY <1>3, <2>1 DEF Job
<1>6. CASE SubmitRead(p)
  <2>1. PICK copy : Keep(p, [job[p] EXCEPT !.copy = copy])
    BY <1>6 DEF SubmitRead
  <2>2. job'[p] = [job[p] EXCEPT !.copy = copy]
    BY <2>1, KeepIsLocal
  <2>3. job'[p].rec = job[p].rec /\ job'[p].batch = job[p].batch /\ job'[p].deny = job[p].deny
    BY <1>3, <2>2 DEF Job
  <2> QED BY <1>6, <2>3, SubmitReadsLine
<1>7. CASE ResolveRead(p)
  BY <1>7, ResolveDecides
<1>8. CASE CompactList(p) /\ ~ Return(p)
  <2>1. job'[p] = [job[p] EXCEPT !.batch = applied]
    BY <1>8, KeepIsLocal DEF CompactList
  <2> QED BY <1>3, <1>8, <2>1 DEF Job
<1>9. CASE CompactRead(p)
  <2> DEFINE lines == ApplySubstitutions(journal, job[p].batch, copies)
             count == AppliedCount(journal, job[p].batch, copies)
  <2>1. job'[p] = [job[p] EXCEPT !.lines = lines, !.count = count]
    BY <1>9, KeepIsLocal DEF CompactRead
  <2> HIDE DEF lines, count
  <2> QED BY <1>3, <2>1 DEF Job
<1>10. AppendProgress(p) \/ AppendFault(p) =>
         Return(p) \/ UNCHANGED job \/ AppendWrite(p) \/ InsertBegin(p)
  BY DEF AppendProgress, AppendFault, AppendLock, InsertCommit, InsertConflict, InsertFails,
         AcceptedOnly, AppendWriteFails
<1>11. CandidateProgress(p) \/ CandidateFault(p) =>
         Return(p) \/ UNCHANGED job \/ SubmitRead(p) \/ ResolveRead(p)
  BY DEF CandidateProgress, CandidateFault, CandidateLock, SubmitRejected, SubmitAppend, SubmitFails,
         ListRead, ResolveRejected, MoveApplied, MoveDenied, RemovePending, MoveFails
<1>12. CompactProgress(p) \/ CompactFault(p) =>
         Return(p) \/ UNCHANGED job \/ CompactList(p) \/ CompactRead(p)
  BY DEF CompactProgress, CompactFault, CompactLockJournal, CompactLockCandidates, CompactUnreadable,
         WriteTmp, RenameTmp, Evict, DeleteApplied, RebuildIndex, AuditAppend, CompactListFails,
         CompactCancel, RewriteFails, CleanupFails
<1>13. LockFails(p) \/ (\E k \in Kind : Arrive(p, k)) => Return(p) \/ UNCHANGED job
  BY DEF LockFails, Arrive
<1> QED BY <1>1, <1>2, <1>4, <1>5, <1>6, <1>7, <1>8, <1>9, <1>10, <1>11, <1>12, <1>13
        DEF WorkerStep, Progress, Failure

\* No copy comes from anywhere but the journal.
LEMMA NewCopies ==
  ASSUME TypeInv, [Next]_vars, NEW copy \in Copied'
  PROVE  copy \in Copied \/ (\E k \in DOMAIN journal : journal[k] = copy)
<1>1. CASE \E c \in CandId : copies'[c] = copy
  <2>1. CASE UNCHANGED copies
    BY <1>1, <2>1 DEF Copied
  <2>2. CASE \E p \in Worker, c \in CandId : WritePending(p, c)
    <3>1. PICK p \in Worker, c \in CandId : WritePending(p, c)
      BY <2>2
    <3>2. \A d \in CandId : copies'[d] \in {copies[d], job[p].copy}
      BY <3>1 DEF WritePending, TypeInv, TypeOK
    <3> QED BY <1>1, <3>2 DEF Copied
  <2> QED BY <2>1, <2>2, JournalSteps
<1>2. CASE \E p \in Worker : job'[p].copy = copy
  <2>1. PICK p \in Worker : job'[p].copy = copy
    BY <1>2
  <2>2. copy # None
    BY DEF Copied
  <2>3. CASE \E q \in Worker : WorkerStep(q)
    <3>1. PICK q \in Worker : WorkerStep(q)
      BY <2>3
    <3>2. CASE q = p
      BY <2>1, <2>2, <3>1, <3>2, JobComes DEF Copied, NoJob
    <3>3. CASE q # p
      BY <2>1, <2>2, <3>1, <3>3, OthersStay DEF Copied
    <3> QED BY <3>2, <3>3
  <2>4. CASE Crash
    BY <2>1, <2>2, <2>4 DEF Crash, NoJob
  <2>5. CASE UNCHANGED workerVars \/ UNCHANGED vars
    BY <2>1, <2>2, <2>5 DEF workerVars, vars, Copied
  <2> QED BY <2>3, <2>4, <2>5, StepKinds
<1> QED BY <1>1, <1>2 DEF Copied

-----------------------------------------------------------------------------
\* What a step does to the versions in the journal.

\* Replacing a version leaves the earlier ones what they were.
LEMMA VersionsAreKept ==
  ASSUME NEW old \in Record, NEW line \in Record, NEW next \in Record,
         NEW batch \in SUBSET CandId, NEW bases,
         VersionOf(old, line), GrowsBy(line, next, batch, bases)
  PROVE  VersionOf(old, next)
<1>1. old.by \in Seq(CandId) /\ line.by \in Seq(CandId)
  BY DEF Record
<1>2. CASE next = line
  BY <1>2
<1>3. ASSUME NEW c \in CandId, next.id = line.id, next.by = Append(line.by, c)
      PROVE  VersionOf(old, next)
  <2> DEFINE by == line.by
             more == Append(by, c)
  <2>1. Len(more) = Len(by) + 1 /\ \A i \in 1..Len(by) : more[i] = by[i]
    BY <1>1
  <2>2. Len(old.by) <= Len(by) /\ Len(old.by) \in Nat /\ Len(by) \in Nat
    BY <1>1 DEF VersionOf
  <2>3. \A i \in 1..Len(old.by) : old.by[i] = by[i]
    BY DEF VersionOf
  <2>4. next.by = more
    BY <1>3
  <2> HIDE DEF by, more
  <2> QED BY <1>3, <2>1, <2>2, <2>3, <2>4 DEF VersionOf
<1> QED BY <1>2, <1>3 DEF GrowsBy

\* What a compaction is about to rename into place: every line as it was or
\* replaced once, and new lines for the candidates whose record has none.
LEMMA RewriteKeepsVersions ==
  ASSUME TypeInv, Rewrites, VersionInv, NEW p \in Worker, RenameTmp(p)
  PROVE  /\ Versioned(RecId, CandId, journal, job[p].batch, copies)
         /\ journal' = ApplySubstitutions(journal, job[p].batch, copies)
<1> DEFINE batch == job[p].batch
<1>1. batch \in SUBSET CandId /\ \A c \in batch : copies[c] \in RecordsOver(RecId, CandId)
  BY RecordIsRecordOver DEF TypeInv, TypeOK, Created, Job
<1>2. journal \in Seq(RecordsOver(RecId, CandId)) /\ IsFiniteSet(RecId)
  BY RecordIsRecordOver, FiniteIdsAssumption DEF TypeInv, TypeOK
<1>3. \A c \in batch : Counted(copies[c]) /\ Descends(copies[c], journal)
  BY <1>1 DEF TypeInv, Created, VersionInv, CopiesCounted, CopiesMatch, Live
<1>4. \A k \in DOMAIN journal : Counted(journal[k])
  BY DEF VersionInv, RevisionCounts, Counted
<1>5. Versioned(RecId, CandId, journal, batch, copies)
  BY <1>1, <1>2, <1>3, <1>4 DEF VersionInv, RevisionCounts, Versioned
<1> QED BY <1>5 DEF RenameTmp, Rewrites

\* If every copy has its record, the lines are the same.
LEMMA RewriteBuildsOnVersions ==
  ASSUME TypeInv, JournalInv, HistoryInv, NEW p \in Worker, RenameTmp(p)
  PROVE  /\ DOMAIN journal' = DOMAIN journal
         /\ \A k \in DOMAIN journal :
              /\ journal'[k].id = journal[k].id
              /\ Counted(journal'[k])
              /\ GrowsBy(journal[k], journal'[k], job[p].batch, copies)
              /\ \A c \in job[p].batch :
                   /\ copies[c].id = journal[k].id
                   /\ \A d \in job[p].batch : copies[d].id = copies[c].id => c = d
                   /\ copies[c].by = journal[k].by
                   => journal'[k].by = Append(journal[k].by, c)
<1> DEFINE batch == job[p].batch
<1>1. Targets(batch, copies) \subseteq Ids(journal)
  <2>1. \A c \in batch : copies[c] \in Copied
    BY DEF TypeInv, TypeOK, Job, Created, Copied
  <2>2. \A c \in batch : \E k \in DOMAIN journal : journal[k].id = copies[c].id
    BY <2>1 DEF HistoryInv, CopiesDescend, VersionOf
  <2> QED BY <2>2 DEF Targets, Ids
<1>2. /\ Versioned(RecId, CandId, journal, batch, copies)
      /\ journal' = ApplySubstitutions(journal, batch, copies)
  BY RewriteKeepsVersions DEF JournalInv, HistoryInv
<1> HIDE DEF batch
<1> QED BY <1>1, <1>2, SubstitutionBuildsOnVersions DEF batch

\* An append adds a line for a record that has none, or no line at all.
LEMMA AppendAddsNewRecord ==
  ASSUME NEW p \in Worker, AppendWrite(p)
  PROVE  \/ UNCHANGED journal
         \/ \E r \in RecId : /\ FreshRecord(r)
                             /\ journal' = Append(journal, [id |-> r, rev |-> 1, by |-> <<>>])
                             /\ Keep(p, [job[p] EXCEPT !.rec = r])
  BY DEF AppendWrite, WriteLine

\* The line an append adds is the first of its record.
LEMMA AppendedLine ==
  ASSUME TypeInv, NEW r \in RecId, journal' = Append(journal, [id |-> r, rev |-> 1, by |-> <<>>])
  PROVE  /\ DOMAIN journal' = DOMAIN journal \cup {Len(journal) + 1}
         /\ Len(journal) + 1 \notin DOMAIN journal
         /\ \A k \in DOMAIN journal : journal'[k] = journal[k]
         /\ journal'[Len(journal) + 1] = [id |-> r, rev |-> 1, by |-> <<>>]
<1>1. journal \in Seq(Record) /\ [id |-> r, rev |-> 1, by |-> <<>>] \in Record
  BY DEF TypeInv, TypeOK, Record
<1> QED BY <1>1

\* Every line keeps its record, and its version or one more.
LEMMA LinesGrow ==
  ASSUME TypeInv, Rewrites, VersionInv, [Next]_vars, NEW k \in DOMAIN journal
  PROVE  /\ k \in DOMAIN journal'
         /\ journal'[k].id = journal[k].id
         /\ GrowsBy(journal[k], journal'[k], CandId, copies)
<1>1. CASE UNCHANGED journal
  BY <1>1 DEF GrowsBy
<1>2. CASE \E p \in Worker : AppendWrite(p)
  <2>1. PICK p \in Worker : AppendWrite(p)
    BY <1>2
  <2>2. CASE \E r \in RecId : journal' = Append(journal, [id |-> r, rev |-> 1, by |-> <<>>])
    BY <2>2, AppendedLine DEF GrowsBy
  <2> QED BY <1>1, <2>1, <2>2, AppendAddsNewRecord
<1>3. CASE \E p \in Worker : RenameTmp(p)
  <2>1. PICK p \in Worker : RenameTmp(p)
    BY <1>3
  <2>2. k \in DOMAIN journal' /\ journal'[k].id = journal[k].id
        /\ GrowsBy(journal[k], journal'[k], job[p].batch, copies)
    BY <2>1, RewriteKeepsVersions, SubstitutionBuildsOnVersions
  <2>3. job[p].batch \subseteq CandId
    BY DEF TypeInv, TypeOK, Job
  <2> QED BY <2>2, <2>3 DEF GrowsBy
<1> QED BY <1>1, <1>2, <1>3, JournalSteps

\* No step makes a second line of a record, or a revision that miscounts.
LEMMA StepCounts ==
  ASSUME TypeInv, Rewrites, VersionInv, [Next]_vars
  PROVE  RevisionCounts'
<1>1. CASE UNCHANGED journal
  BY <1>1 DEF VersionInv, RevisionCounts
<1>2. CASE \E p \in Worker : AppendWrite(p)
  <2>1. PICK p \in Worker : AppendWrite(p)
    BY <1>2
  <2>2. ASSUME NEW r \in RecId, r \notin Ids(journal),
               journal' = Append(journal, [id |-> r, rev |-> 1, by |-> <<>>])
        PROVE  RevisionCounts'
    <3>1. NormalizedRevision(1) = 1 + Len(<<>>)
      BY DEF NormalizedRevision
    <3>2. \A k \in DOMAIN journal : journal[k].id # r
      BY <2>2 DEF Ids
    <3>3. /\ DOMAIN journal' = DOMAIN journal \cup {Len(journal) + 1}
          /\ \A k \in DOMAIN journal : journal'[k] = journal[k]
          /\ journal'[Len(journal) + 1].id = r
          /\ journal'[Len(journal) + 1].rev = 1
          /\ journal'[Len(journal) + 1].by = <<>>
      BY <2>2, AppendedLine
    <3> QED BY <3>1, <3>2, <3>3 DEF VersionInv, RevisionCounts
  <2> QED BY <1>1, <2>1, <2>2, AppendAddsNewRecord DEF FreshRecord
<1>3. CASE \E p \in Worker : RenameTmp(p)
  <2>1. PICK p \in Worker : RenameTmp(p)
    BY <1>3
  <2>2. \A j, k \in DOMAIN journal' : journal'[j].id = journal'[k].id => j = k
    BY <2>1, RewriteKeepsVersions, SubstitutionBuildsOnVersions
  <2>3. ASSUME NEW k \in DOMAIN journal' PROVE Counted(journal'[k])
    <3>1. CASE k \in DOMAIN journal
      BY <2>1, <3>1, RewriteKeepsVersions, SubstitutionBuildsOnVersions
    <3>2. CASE k \notin DOMAIN journal
      BY <2>1, <3>2, RewriteKeepsVersions, SubstitutionBuildsOnVersions
    <3> QED BY <3>1, <3>2
  <2> QED BY <2>2, <2>3 DEF RevisionCounts, Counted
<1> QED BY <1>1, <1>2, <1>3, JournalSteps

\* No step leaves a candidate behind whose version is not in the history.
LEMMA StepCopiesDescend ==
  ASSUME TypeInv, TypeInv', JournalInv, HistoryInv, [Next]_vars
  PROVE  CopiesDescend'
<1> SUFFICES ASSUME NEW copy \in Copied'
             PROVE  Counted(copy) /\ \E k \in DOMAIN journal' : VersionOf(copy, journal'[k])
  BY DEF CopiesDescend
<1>1. \A k \in DOMAIN journal : journal[k] \in Record
  BY DEF TypeInv, TypeOK
<1>2. \A k \in DOMAIN journal : Counted(journal[k]) /\ VersionOf(journal[k], journal[k])
  BY <1>1 DEF HistoryInv, VersionInv, RevisionCounts, Counted, VersionOf, Record
<1>3. Counted(copy) /\ \E k \in DOMAIN journal : VersionOf(copy, journal[k])
  BY <1>2, NewCopies DEF HistoryInv, CopiesDescend
<1>4. PICK k \in DOMAIN journal : VersionOf(copy, journal[k])
  BY <1>3
<1>5. k \in DOMAIN journal' /\ GrowsBy(journal[k], journal'[k], CandId, copies)
  BY LinesGrow DEF JournalInv, HistoryInv
<1>6. copy \in Record
  BY DEF TypeInv, TypeOK, Job, Copied
<1>7. journal'[k] \in Record
  BY <1>5 DEF TypeInv, TypeOK
<1>8. VersionOf(copy, journal'[k])
  BY <1>1, <1>4, <1>5, <1>6, <1>7, VersionsAreKept
<1> QED BY <1>3, <1>5, <1>8

\* A candidate becomes live by the submit that writes it.
LEMMA LiveComes ==
  ASSUME TypeInv, [Next]_vars, NEW c \in Live'
  PROVE  \/ c \in Live
         \/ \E p \in Worker, d \in CandId : pc[p] = "submit.append" /\ WritePending(p, d) /\ c = d
<1>1. CASE c \in pending'
  BY <1>1, PendingGrows DEF Live, WritePending
<1>2. CASE c \in applied'
  BY <1>2, AppliedComes DEF Live
<1>3. ASSUME NEW p \in Worker, c \in job'[p].batch PROVE c \in Live
  <2>1. CASE job'[p].batch = job[p].batch
    BY <1>3, <2>1 DEF Live
  <2>2. CASE WorkerStep(p)
    BY <1>3, <2>1, <2>2, JobComes DEF NoJob, Live
  <2>3. CASE \E q \in Worker \ {p} : WorkerStep(q)
    BY <2>1, <2>3, OthersStay
  <2>4. CASE Crash
    BY <1>3, <2>4 DEF Crash, NoJob
  <2>5. CASE UNCHANGED workerVars \/ UNCHANGED vars
    BY <2>1, <2>5 DEF workerVars, vars
  <2> QED BY <2>2, <2>3, <2>4, <2>5, StepKinds
<1> QED BY <1>1, <1>2, <1>3 DEF Live

\* Live candidates exist.
LEMMA LiveExist ==
  ASSUME TypeInv, NEW c \in Live
  PROVE  c \in CandId /\ copies[c] # None /\ copies[c] \in Record
  BY DEF TypeInv, TypeOK, Created, Job, Live

\* What descends from a version of the journal does so after a step.
LEMMA DescendsLater ==
  ASSUME TypeInv, TypeInv', Rewrites, VersionInv, [Next]_vars, NEW copy \in Record, Descends(copy, journal)
  PROVE  Descends(copy, journal')
<1>1. ASSUME NEW k \in DOMAIN journal, VersionOf(copy, journal[k])
      PROVE  Descends(copy, journal')
  <2>1. k \in DOMAIN journal' /\ GrowsBy(journal[k], journal'[k], CandId, copies)
    BY LinesGrow
  <2>2. journal[k] \in Record /\ journal'[k] \in Record
    BY <2>1 DEF TypeInv, TypeOK
  <2> QED BY <1>1, <2>1, <2>2, VersionsAreKept DEF Descends
<1>2. ASSUME copy.by = <<>>, NEW k \in DOMAIN journal', journal'[k].id = copy.id
      PROVE  VersionOf(copy, journal'[k])
  <2>1. journal'[k] \in Record
    BY DEF TypeInv, TypeOK
  <2>2. Len(journal'[k].by) \in Nat
    BY <2>1 DEF Record
  <2> QED BY <1>2, <2>2 DEF VersionOf
<1> QED BY <1>1, <1>2 DEF Descends, Ids

\* No step leaves a live candidate behind whose version is not in the history.
LEMMA StepCopiesMatch ==
  ASSUME TypeInv, TypeInv', Rewrites, VersionInv, [Next]_vars
  PROVE  CopiesCounted' /\ CopiesMatch'
<1>1. \A k \in DOMAIN journal : journal[k] \in Record
  BY DEF TypeInv, TypeOK
<1>2. \A k \in DOMAIN journal : Counted(journal[k]) /\ VersionOf(journal[k], journal[k])
  BY <1>1 DEF VersionInv, RevisionCounts, Counted, VersionOf, Record
<1>3. ASSUME NEW p \in Worker, NEW c \in CandId, pc[p] = "submit.append", WritePending(p, c)
      PROVE  /\ \E k \in DOMAIN journal : journal[k] = copies'[c]
             /\ \A d \in CandId : d # c => copies'[d] = copies[d]
  BY <1>3 DEF VersionInv, CopyCurrent, WritePending, TypeInv, TypeOK
<1>4. ASSUME NEW c \in CandId, copies'[c] # None PROVE Counted(copies'[c])
  <2>1. CASE copies'[c] = copies[c]
    BY <1>4, <2>1 DEF VersionInv, CopiesCounted
  <2>2. ASSUME NEW p \in Worker, NEW d \in CandId, pc[p] = "submit.append", WritePending(p, d)
        PROVE  Counted(copies'[c])
    BY <1>2, <1>3, <2>1, <2>2
  <2> QED BY <2>1, <2>2, JournalSteps
<1>5. ASSUME NEW c \in Live' PROVE Descends(copies'[c], journal')
  <2>1. CASE c \in Live
    <3>1. copies'[c] = copies[c] /\ copies[c] \in Record
      BY <2>1, LiveExist, CandidatesStay
    <3> QED BY <2>1, <3>1, DescendsLater DEF VersionInv, CopiesMatch
  <2>2. ASSUME NEW p \in Worker, c \in CandId, pc[p] = "submit.append", WritePending(p, c)
        PROVE  Descends(copies'[c], journal')
    <3>1. PICK k \in DOMAIN journal : journal[k] = copies'[c]
      BY <1>3, <2>2
    <3>2. Descends(copies'[c], journal)
      BY <1>2, <3>1 DEF Descends
    <3> QED BY <1>1, <3>1, <3>2, DescendsLater
  <2> QED BY <2>1, <2>2, LiveComes
<1> QED BY <1>4, <1>5 DEF CopiesCounted, CopiesMatch

\* No step replaces a record under a submit that has copied it.
LEMMA StepCopyCurrent ==
  ASSUME TypeInv, VersionInv, [Next]_vars
  PROVE  CopyCurrent'
<1> SUFFICES ASSUME NEW p \in Worker, pc'[p] = "submit.append"
             PROVE  \E k \in DOMAIN journal' : journal'[k] = job'[p].copy
  BY DEF CopyCurrent
<1>1. CASE SubmitRead(p)
  <2>1. UNCHANGED journal
    BY <1>1 DEF SubmitRead, journalVars
  <2> QED BY <1>1, <2>1, SubmitReadsLine
<1>2. CASE pc[p] = "submit.append" /\ job'[p] = job[p]
  <2>1. PICK k \in DOMAIN journal : journal[k] = job[p].copy
    BY <1>2 DEF VersionInv, CopyCurrent
  <2>2. k \in DOMAIN journal' /\ journal'[k] = journal[k]
    <3>1. CASE UNCHANGED journal
      BY <3>1
    <3>2. CASE \E q \in Worker : AppendWrite(q)
      <4>1. PICK q \in Worker : AppendWrite(q)
        BY <3>2
      <4> QED BY <3>1, <4>1, AppendAddsNewRecord, AppendedLine
    <3>3. CASE \E q \in Worker : RenameTmp(q)
      BY <1>2, <3>3, SubmitMeetsNoCompaction DEF TypeInv, RenameTmp, SharedHolding, CompactHolding
    <3> QED BY <3>1, <3>2, <3>3, JournalSteps
  <2> QED BY <1>2, <2>1, <2>2
<1>3. CASE \E q \in Worker : WorkerStep(q)
  <2>1. PICK q \in Worker : WorkerStep(q)
    BY <1>3
  <2>2. CASE q = p
    BY <1>1, <2>1, <2>2, StepGoes
  <2>3. CASE q # p
    BY <1>2, <2>1, <2>3, OthersStay
  <2> QED BY <2>2, <2>3
<1>4. CASE Crash
  BY <1>4 DEF Crash
<1>5. CASE UNCHANGED workerVars \/ UNCHANGED vars
  BY <1>2, <1>5 DEF workerVars, vars
<1> QED BY <1>3, <1>4, <1>5, StepKinds

\* Every step preserves the versions.
LEMMA StepVersions ==
  ASSUME TypeInv, TypeInv', Rewrites, VersionInv, [Next]_vars
  PROVE  VersionInv'
  BY StepCounts, StepCopiesMatch, StepCopyCurrent DEF VersionInv

-----------------------------------------------------------------------------
\* The theorems.

\* The first state, where no record has a history.
LEMMA InitHistory == Init => HistoryInv
<1> SUFFICES ASSUME Init PROVE HistoryInv
  OBVIOUS
<1>1. RevisionCounts
  BY InitialJournalAssumption DEF Init, RevisionCounts, NormalizedRevision
<1>2. Copied = {} /\ Live = {}
  BY DEF Init, Copied, Live, NoJob
<1> QED BY <1>1, <1>2 DEF Init, HistoryInv, VersionInv, CopiesDescend, CopiesCounted, CopiesMatch,
                          CopyCurrent

\* In every state a record's line carries as many replacements as its revision
\* says, and each candidate was made from a version in its record's history
\* (compact.go, applySubstitutions; submit.go).
THEOREM HistoryAlways == Spec => []HistoryInv
<1>1. TypeInv /\ TypeInv' /\ JournalInv /\ HistoryInv /\ [Next]_vars => HistoryInv'
  BY StepVersions, StepCopiesDescend DEF HistoryInv, JournalInv
<1> QED BY <1>1, InitHistory, TypeInvAlways, JournalAlways, PTL DEF Spec

\* A record has one line, and its revision counts the replacements that led to
\* it, through every order of appends, submits and compactions, every failure
\* and every crash: comparing revisions is comparing versions (compact.go,
\* applySubstitutions; record.go, NormalizedRevision).
THEOREM RevisionsCountReplacements == Spec => []RevisionCounts
<1>1. HistoryInv => RevisionCounts
  BY DEF HistoryInv, VersionInv
<1> QED BY <1>1, HistoryAlways, PTL

\* No step of any handler undoes a replacement, builds on a version that is no
\* longer the current one, or takes a line away (compact.go, applySubstitutions;
\* jsonl.go, ReplaceFile).
THEOREM HistoriesGrow == Spec => HistoryGrows
<1>1. TypeInv /\ JournalInv /\ HistoryInv /\ [Next]_vars =>
        [\A k \in DOMAIN journal :
           /\ k \in DOMAIN journal'
           /\ journal'[k].id = journal[k].id
           /\ \/ journal'[k].by = journal[k].by
              \/ \E c \in CandId : journal'[k].by = Append(journal[k].by, c)]_vars
  BY LinesGrow DEF GrowsBy, JournalInv, HistoryInv
<1> QED BY <1>1, HistoryAlways, JournalAlways, TypeInvAlways, PTL DEF Spec, HistoryGrows

\* A candidate is made from the version of its record that is current when it is
\* written, although the journal is read without its lock and some steps before:
\* the shared candidate lock keeps every compaction out in between
\* (candidate_handler.go, Submit; compact.go step 3).
THEOREM SubmitsCopyCurrent == Spec => SubmitCopiesCurrent
<1>1. ASSUME TypeInv, HistoryInv, [Next]_vars, NEW c \in pending' \ pending
      PROVE  \E k \in DOMAIN journal : journal[k] = copies'[c]
  <2>1. PICK p \in Worker, d \in CandId : pc[p] = "submit.append" /\ WritePending(p, d)
    BY <1>1, PendingGrows
  <2>2. c = d /\ copies'[c] = job[p].copy
    BY <1>1, <2>1 DEF WritePending, TypeInv, TypeOK
  <2> QED BY <1>1, <2>1, <2>2 DEF HistoryInv, VersionInv, CopyCurrent
<1>2. TypeInv /\ HistoryInv /\ [Next]_vars =>
        [\A c \in pending' \ pending : \E k \in DOMAIN journal : journal[k] = copies'[c]]_vars
  BY <1>1
<1> QED BY <1>2, HistoryAlways, TypeInvAlways, PTL DEF Spec, SubmitCopiesCurrent
=============================================================================

----------------------------- MODULE ClientProofs -----------------------------
(***************************************************************************)
(* What the clients of a partition see, for any number of workers,         *)
(* requests, failures and crashes.                                         *)
(*                                                                         *)
(* First, a partition implements the journal of JournalSpec, until a write *)
(* leaves half a line.  Of the steps of the handlers four kinds are        *)
(* visible: a line is written, a record answered, a candidate written, a   *)
(* temporary renamed over the journal.  That the last is one substitution  *)
(* on versions is what JournalProofs proves; here it meets the abstract    *)
(* step.                                                                   *)
(*                                                                         *)
(* Then a search, whose two steps other handlers come between: what the    *)
(* index says of a record that was announced, and what has become of its   *)
(* line when the file is read.                                             *)
(***************************************************************************)
EXTENDS PartitionQueries, CandidateProofs

\* A record is answered once: its handler alone carries it.
Untold ==
  \A p \in Worker : pc[p] \in {"append.begin", "append.upsert"} => answer[job[p].rec] = "none"

OwnRecord ==
  \A p, q \in Worker : job[p].rec = job[q].rec /\ job[p].rec # None => p = q

Whole == TornWrites = FALSE => tear = "none"

AnswerInv == Untold /\ OwnRecord /\ Whole

\* The first state, where nobody was told anything.
LEMMA InitAnswer == Init => AnswerInv
  BY DEF Init, AnswerInv, Untold, OwnRecord, Whole, NoJob

\* The answers change when an insert ends, and only for the record of its handler.
LEMMA AnswerComes ==
  ASSUME [Next]_vars
  PROVE  \/ UNCHANGED answer
         \/ \E p \in Worker, text \in {"created", "accepted"} :
              /\ pc[p] \in {"append.begin", "append.upsert"}
              /\ answer' = [answer EXCEPT ![job[p].rec] = text]
              /\ Return(p)
              /\ UNCHANGED <<journal, copies>>
<1>1. ASSUME NEW p \in Worker, InsertCommit(p)
      PROVE  /\ pc[p] \in {"append.begin", "append.upsert"}
             /\ answer' = [answer EXCEPT ![job[p].rec] = "created"]
             /\ Return(p) /\ UNCHANGED <<journal, copies>>
  BY <1>1 DEF InsertCommit, journalVars, candidateVars
<1>2. ASSUME NEW p \in Worker, InsertConflict(p) \/ InsertFails(p)
      PROVE  /\ pc[p] \in {"append.begin", "append.upsert"}
             /\ answer' = [answer EXCEPT ![job[p].rec] = "accepted"]
             /\ Return(p) /\ UNCHANGED <<journal, copies>>
  BY <1>2 DEF InsertConflict, InsertFails, AcceptedOnly, journalVars, candidateVars
<1> QED BY <1>1, <1>2, RowSteps

\* No step gives two requests one record.
LEMMA StepOwnRecord ==
  ASSUME TypeInv, OwnRecord, [Next]_vars
  PROVE  OwnRecord'
<1> SUFFICES ASSUME NEW p \in Worker, NEW q \in Worker, job'[p].rec = job'[q].rec, job'[p].rec # None,
                    p # q
             PROVE  FALSE
  BY DEF OwnRecord
<1>1. ASSUME NEW w \in Worker, WorkerStep(w) PROVE FALSE
  <2>1. \A v \in Worker \ {w} : job'[v] = job[v]
    BY <1>1, OthersStay
  <2>2. job'[w].rec \in {job[w].rec, None} \/ FreshRecord(job'[w].rec)
    BY <1>1, JobComes DEF NoJob
  <2> QED BY <2>1, <2>2 DEF OwnRecord, FreshRecord
<1>2. CASE Crash
  BY <1>2 DEF Crash, NoJob
<1>3. CASE UNCHANGED workerVars \/ UNCHANGED vars
  BY <1>3 DEF workerVars, vars, OwnRecord
<1> QED BY <1>1, <1>2, <1>3, StepKinds

\* No step tells a client before its handler is done with the record.
LEMMA StepUntold ==
  ASSUME TypeInv, OwnRecord, Untold, [Next]_vars
  PROVE  Untold'
<1> SUFFICES ASSUME NEW p \in Worker, pc'[p] \in {"append.begin", "append.upsert"}
             PROVE  answer'[job'[p].rec] = "none"
  BY DEF Untold
<1>1. CASE pc[p] \in {"append.begin", "append.upsert"} /\ job'[p].rec = job[p].rec
  <2>1. job[p].rec \in RecId /\ answer[job[p].rec] = "none"
    BY <1>1 DEF Untold, TypeInv, TypeOK, Carried, Job
  <2>2. ASSUME NEW q \in Worker, NEW text, pc[q] \in {"append.begin", "append.upsert"}, Return(q),
               answer' = [answer EXCEPT ![job[q].rec] = text]
        PROVE  answer'[job[p].rec] = "none"
    <3>1. q # p
      BY <2>2 DEF Return, Goto, TypeInv, TypeOK
    <3>2. job[q].rec # job[p].rec
      BY <2>1, <3>1, NoneAssumption DEF OwnRecord
    <3> QED BY <2>1, <2>2, <3>2 DEF TypeInv, TypeOK
  <2> QED BY <1>1, <2>1, <2>2, AnswerComes
<1>2. CASE AppendWrite(p)
  <2>1. UNCHANGED answer
    BY <1>2 DEF AppendWrite, answerVars
  <2>2. PICK r \in RecId : FreshRecord(r) /\ Keep(p, [job[p] EXCEPT !.rec = r])
    BY <1>2 DEF AppendWrite
  <2>3. job'[p].rec = r
    <3>1. job'[p] = [job[p] EXCEPT !.rec = r]
      BY <2>2, KeepIsLocal
    <3> QED BY <3>1 DEF TypeInv, TypeOK, Job
  <2> QED BY <2>1, <2>2, <2>3 DEF FreshRecord
<1>3. CASE WorkerStep(p)
  <2>1. CASE InsertBegin(p)
    <3>1. job'[p].rec = job[p].rec
      <4>1. job'[p] = [job[p] EXCEPT !.row = row]
        BY <2>1, KeepIsLocal DEF InsertBegin
      <4> QED BY <4>1 DEF TypeInv, TypeOK, Job
    <3> QED BY <1>1, <2>1, <3>1 DEF InsertBegin
  <2> QED BY <1>2, <1>3, <2>1, StepGoes
<1>4. CASE \E q \in Worker \ {p} : WorkerStep(q)
  BY <1>1, <1>4, OthersStay
<1>5. CASE Crash
  BY <1>5 DEF Crash
<1>6. CASE UNCHANGED workerVars \/ UNCHANGED vars
  BY <1>1, <1>6 DEF workerVars, vars
<1> QED BY <1>3, <1>4, <1>5, <1>6, StepKinds

\* Without torn writes no line is ever torn.
LEMMA StepWhole ==
  ASSUME TypeInv, Whole, [Next]_vars
  PROVE  Whole'
<1> SUFFICES ASSUME TornWrites = FALSE, tear = "none" PROVE tear' = "none"
  BY DEF Whole
<1>1. ASSUME NEW p \in Worker, AppendProgress(p) \/ AppendFault(p) PROVE tear' = "none"
  BY <1>1 DEF AppendProgress, AppendFault, AppendLock, AppendWrite, WriteLine, InsertBegin,
       InsertCommit, InsertConflict, InsertFails, AcceptedOnly, AppendWriteFails, journalVars
<1>2. ASSUME NEW p \in Worker, CandidateProgress(p) \/ CandidateFault(p) PROVE tear' = "none"
  BY <1>2, CandidateLeaves DEF journalVars
<1>3. ASSUME NEW p \in Worker, CompactProgress(p) \/ CompactFault(p) PROVE tear' = "none"
  BY <1>3, CompactionLeaves DEF RenameTmp
<1>4. ASSUME NEW p \in Worker, LockFails(p) \/ \E k \in Kind : Arrive(p, k) PROVE tear' = "none"
  BY <1>4 DEF LockFails, Arrive, journalVars
<1>5. CASE Crash \/ Restart \/ RecoveryFails \/ UNCHANGED vars
  BY <1>5 DEF Crash, Restart, RecoveryFails, vars, journalVars
<1> QED BY <1>1, <1>2, <1>3, <1>4, <1>5 DEF Next, Progress, Failure

\* In every state a record is announced by the one append that wrote it, and
\* a journal that is whole stays whole (append.go; commandstore/store.go, Append).
THEOREM AnswerAlways == Spec => []AnswerInv
<1>1. TypeInv /\ AnswerInv /\ [Next]_vars => AnswerInv'
  BY StepUntold, StepOwnRecord, StepWhole DEF AnswerInv
<1> QED BY <1>1, InitAnswer, TypeInvAlways, PTL DEF Spec

-----------------------------------------------------------------------------
\* The abstract state, line by line.

\* When every record has one line, the first line of a record is its line.
LEMMA OnlyLine ==
  ASSUME NEW records \in Seq(Record), NEW k \in DOMAIN records,
         \A j \in DOMAIN records : records[j].id = records[k].id => j = k
  PROVE  FirstLine(records, records[k].id) = k
<1>1. records[k].id \in Ids(records)
  BY DEF Ids
<1> QED BY <1>1, FirstLineType

\* A record with a line has the version of that line, and only then a version.
LEMMA HistoryOfLine ==
  ASSUME TypeInv, HistoryInv, NEW k \in DOMAIN journal
  PROVE  /\ journal[k].id \in RecId
         /\ Histories[journal[k].id] = journal[k].by
         /\ journal[k].by \in Seq(CandId)
         /\ journal[k].by # None
<1>1. journal \in Seq(Record)
  BY DEF TypeInv, TypeOK
<1>2. FirstLine(journal, journal[k].id) = k
  BY <1>1, OnlyLine DEF HistoryInv, VersionInv, RevisionCounts
<1>3. journal[k] \in Record
  BY <1>1
<1>4. journal[k].id \in RecId /\ journal[k].by \in Seq(CandId)
  BY <1>3 DEF Record
<1>5. journal[k].by # None
  BY <1>4, NoneAssumption
<1> QED BY <1>2, <1>4, <1>5 DEF Histories, Ids

\* The history of a record in the next state is the one its next line carries.
LEMMA NextHistoryOfLine ==
  ASSUME TypeInv', HistoryInv', NEW k \in DOMAIN journal'
  PROVE  Histories'[journal'[k].id] = journal'[k].by
<1>1. journal' \in Seq(Record)
  BY DEF TypeInv, TypeOK
<1>2. FirstLine(journal', journal'[k].id) = k
  BY <1>1, OnlyLine DEF HistoryInv, VersionInv, RevisionCounts
<1>3. journal'[k] \in Record
  BY <1>1
<1>4. journal'[k].id \in RecId
  BY <1>3 DEF Record
<1> QED BY <1>2, <1>4 DEF Histories, Ids

\* A record without a line has no history.
LEMMA NoLineNoHistory ==
  ASSUME NEW r \in RecId
  PROVE  /\ r \notin Ids(journal) => Histories[r] = None
         /\ r \notin Ids(journal)' => Histories'[r] = None
  BY DEF Histories

\* A candidate that exists has the version of its copy.
LEMMA BaseOfCopy ==
  ASSUME TypeInv, NEW c \in CandId, copies[c] # None
  PROVE  /\ Bases[c] = [id |-> copies[c].id, by |-> copies[c].by]
         /\ Bases[c] # None
         /\ copies[c].id \in RecId /\ copies[c].by \in Seq(CandId)
<1>1. copies[c] \in Record
  BY DEF TypeInv, TypeOK
<1>2. Content(copies[c]) \in [id : RecId, by : Seq(CandId)]
  BY <1>1, ContentType
<1> QED BY <1>1, <1>2, NoneAssumption DEF Bases, Content, Record

-----------------------------------------------------------------------------
\* The visible steps.

\* The write of an append adds a record to the abstract journal.
LEMMA WriteAdds ==
  ASSUME TypeInv, TypeInv', HistoryInv, HistoryInv', NEW r \in RecId, r \notin Ids(journal),
         journal' = Append(journal, [id |-> r, rev |-> 1, by |-> <<>>]), UNCHANGED <<copies, answer>>
  PROVE  Journal!Add(r)
<1>1. /\ DOMAIN journal' = DOMAIN journal \cup {Len(journal) + 1}
      /\ \A k \in DOMAIN journal : journal'[k] = journal[k]
      /\ journal'[Len(journal) + 1].id = r /\ journal'[Len(journal) + 1].by = <<>>
  BY AppendedLine
<1>2. Histories[r] = None /\ Histories'[r] = <<>>
  BY <1>1, NoLineNoHistory, NextHistoryOfLine
<1>3. ASSUME NEW s \in RecId, s # r PROVE Histories'[s] = Histories[s]
  <2>1. CASE s \in Ids(journal)
    <3>1. PICK k \in DOMAIN journal : journal[k].id = s
      BY <2>1 DEF Ids
    <3>2. Histories[s] = journal[k].by
      BY <3>1, HistoryOfLine
    <3>3. Histories'[s] = journal'[k].by
      BY <1>1, <3>1, NextHistoryOfLine
    <3> QED BY <1>1, <3>2, <3>3
  <2>2. CASE s \notin Ids(journal)
    <3>1. s \notin Ids(journal)'
      BY <1>1, <1>3, <2>2 DEF Ids
    <3> QED BY <2>2, <3>1, NoLineNoHistory
  <2> QED BY <2>1, <2>2
<1>4. Histories' = [Histories EXCEPT ![r] = <<>>]
  BY <1>2, <1>3 DEF Histories
<1>5. UNCHANGED Bases
  BY DEF Bases
<1> QED BY <1>2, <1>4, <1>5 DEF Journal!Add

\* The index transaction of an append tells the client.
LEMMA InsertTells ==
  ASSUME TypeInv, JournalInv, HistoryInv, AnswerInv, tear = "none",
         NEW p \in Worker, pc[p] \in {"append.begin", "append.upsert"}, NEW text,
         answer' = [answer EXCEPT ![job[p].rec] = text], UNCHANGED <<journal, copies>>
  PROVE  Journal!Tell(job[p].rec, text) /\ job[p].rec \in RecId
<1>1. job[p].rec \in RecId
  BY DEF TypeInv, TypeOK, Carried, Job
<1>2. PICK k \in DOMAIN journal : journal[k].id = job[p].rec
  BY DEF JournalInv, LineWritten, Ids
<1>3. Histories[job[p].rec] # None
  BY <1>2, HistoryOfLine
<1>4. answer[job[p].rec] = "none"
  BY DEF AnswerInv, Untold
<1>5. UNCHANGED <<Histories, Bases>>
  BY DEF Histories, Bases
<1> QED BY <1>1, <1>3, <1>4, <1>5 DEF Journal!Tell

\* The write of a submit proposes a candidate.
LEMMA SubmitProposes ==
  ASSUME TypeInv, HistoryInv, NEW p \in Worker, pc[p] = "submit.append",
         NEW c \in CandId, WritePending(p, c), UNCHANGED <<journal, answer>>
  PROVE  \E r \in RecId : Journal!Propose(c, r)
<1>1. PICK k \in DOMAIN journal : journal[k] = job[p].copy
  BY DEF HistoryInv, VersionInv, CopyCurrent
<1> DEFINE copy == job[p].copy
           r == copy.id
<1>2. r \in RecId /\ Histories[r] = copy.by /\ Histories[r] # None
  BY <1>1, HistoryOfLine
<1>3. copy # None /\ copies[c] = None
  BY DEF TypeInv, Carried, WritePending
<1>4. Bases[c] = None
  BY <1>3 DEF Bases
<1>5. copies' = [copies EXCEPT ![c] = copy]
  BY DEF WritePending
<1>6. Bases' = [Bases EXCEPT ![c] = [id |-> r, by |-> copy.by]]
  BY <1>3, <1>5 DEF Bases, Content, TypeInv, TypeOK
<1>7. UNCHANGED Histories
  BY DEF Histories
<1> QED BY <1>2, <1>4, <1>6, <1>7 DEF Journal!Propose, Journal!Version

\* The rename of a compaction materialises its batch, all at once.
LEMMA RenameMaterialises ==
  ASSUME TypeInv, TypeInv', JournalInv, HistoryInv, HistoryInv', CandidateInv,
         NEW p \in Worker, RenameTmp(p)
  PROVE  /\ Journal!Materialise(job[p].batch)
         /\ job[p].batch \in SUBSET {c \in CandId : Bases[c] # None}
<1> DEFINE batch == job[p].batch
           Fits(r) == Journal!Fitting(batch, r)
<1>1. \A c \in batch : c \in CandId /\ copies[c] # None
  BY DEF TypeInv, TypeOK, Created, Job
<1>2. \A c \in batch : /\ Bases[c] = [id |-> copies[c].id, by |-> copies[c].by] /\ Bases[c] # None
                        /\ copies[c].by \in Seq(CandId)
  BY <1>1, BaseOfCopy
<1>3. \A c, d \in batch : Bases[c].id = Bases[d].id => c = d
  <2>1. ASSUME NEW c \in batch PROVE Bases[c].id = copies[c].id
    <3>1. Bases[c] = [id |-> copies[c].id, by |-> copies[c].by]
      BY <1>2
    <3> QED BY <3>1
  <2> QED BY <2>1 DEF CandidateInv, Batches, ValidResolution
<1>4. /\ DOMAIN journal' = DOMAIN journal
      /\ \A k \in DOMAIN journal : journal'[k].id = journal[k].id
  BY RewriteBuildsOnVersions
<1>5. ASSUME NEW r \in RecId
      PROVE  Histories'[r] = IF Fits(r) = {} THEN Histories[r]
                             ELSE Append(Histories[r], CHOOSE c \in Fits(r) : TRUE)
  <2>1. \A c : c \in Fits(r) <=> c \in batch /\ copies[c].id = r /\ copies[c].by = Histories[r]
    <3>1. ASSUME NEW c \in batch
          PROVE  Bases[c] = Journal!Version(r) <=> copies[c].id = r /\ copies[c].by = Histories[r]
      <4>1. Bases[c] = [id |-> copies[c].id, by |-> copies[c].by]
        BY <1>2
      <4>2. Journal!Version(r) = [id |-> r, by |-> Histories[r]]
        BY DEF Journal!Version
      <4> QED BY <4>1, <4>2
    <3> QED BY <3>1 DEF Journal!Fitting
  <2>2. CASE r \in Ids(journal)
    <3>1. PICK k \in DOMAIN journal : journal[k].id = r
      BY <2>2 DEF Ids
    <3>2. Histories[r] = journal[k].by /\ Histories'[r] = journal'[k].by
      BY <1>4, <3>1, HistoryOfLine, NextHistoryOfLine
    <3>3. /\ GrowsBy(journal[k], journal'[k], batch, copies)
          /\ \A c \in batch :
               /\ copies[c].id = journal[k].id
               /\ \A d \in batch : copies[d].id = copies[c].id => c = d
               /\ copies[c].by = journal[k].by
               => journal'[k].by = Append(journal[k].by, c)
      BY RewriteBuildsOnVersions
    <3>4. CASE Fits(r) = {}
      <4>1. ~ \E c \in batch : copies[c].id = journal[k].id /\ copies[c].by = journal[k].by
        BY <2>1, <3>1, <3>2, <3>4
      <4> QED BY <3>2, <3>3, <3>4, <4>1 DEF GrowsBy
    <3>5. CASE Fits(r) # {}
      <4> DEFINE c == CHOOSE d \in Fits(r) : TRUE
      <4>1. c \in Fits(r)
        BY <3>5
      <4>2. c \in batch /\ copies[c].id = journal[k].id /\ copies[c].by = journal[k].by
        BY <2>1, <3>1, <3>2, <4>1
      <4>3. \A d \in batch : copies[d].id = copies[c].id => c = d
        BY <4>2 DEF CandidateInv, Batches, ValidResolution
      <4>4. journal'[k].by = Append(journal[k].by, c)
        <5> HIDE DEF c
        <5> QED BY <3>3, <4>2, <4>3
      <4> QED BY <3>2, <3>5, <4>4
    <3> QED BY <3>4, <3>5
  <2>3. CASE r \notin Ids(journal)
    <3>1. r \notin Ids(journal)'
      BY <1>4, <2>3 DEF Ids
    <3>2. Histories[r] = None /\ Histories'[r] = None
      BY <2>3, <3>1, NoLineNoHistory
    <3>3. ASSUME NEW c, c \in Fits(r) PROVE FALSE
      <4>1. c \in batch /\ copies[c].by = None
        BY <2>1, <3>2, <3>3
      <4>2. copies[c].by \in Seq(CandId)
        BY <1>2, <4>1
      <4> QED BY <4>1, <4>2, NoneAssumption
    <3>4. Fits(r) = {}
      BY <3>3
    <3> QED BY <3>2, <3>4
  <2> QED BY <2>2, <2>3
<1>6. Histories' = [r \in RecId |-> IF Fits(r) = {} THEN Histories[r]
                                   ELSE Append(Histories[r], CHOOSE c \in Fits(r) : TRUE)]
  <2>1. DOMAIN Histories' = RecId /\ Histories' = [r \in RecId |-> Histories'[r]]
    BY DEF Histories
  <2> HIDE DEF Fits
  <2> QED BY <1>5, <2>1
<1>7. UNCHANGED <<Bases, answer>>
  BY DEF RenameTmp, candidateVars, answerVars, Bases
<1>8. batch \in SUBSET {c \in CandId : Bases[c] # None}
  BY <1>1, <1>2
<1> QED BY <1>3, <1>6, <1>7, <1>8 DEF Journal!Materialise

-----------------------------------------------------------------------------
\* The theorem.

\* The first state is the abstract one's.
LEMMA InitRefines == Init => Journal!Init
<1> SUFFICES ASSUME Init PROVE Journal!Init
  OBVIOUS
<1>1. journal = InitialJournal /\ journal \in Seq(Record)
  BY InitialJournalAssumption DEF Init
<1>2. ASSUME NEW r \in RecId PROVE Histories[r] \in {None, <<>>}
  <2>1. CASE r \in Ids(journal)
    <3>1. FirstLine(journal, r) \in DOMAIN journal
      BY <1>1, <2>1, FirstLineType
    <3>2. journal[FirstLine(journal, r)].by = <<>>
      BY <1>1, <3>1, InitialJournalAssumption
    <3> QED BY <2>1, <3>2 DEF Histories
  <2>2. CASE r \notin Ids(journal)
    BY <2>2 DEF Histories
  <2> QED BY <2>1, <2>2
<1>3. Histories \in [RecId -> {None, <<>>}]
  BY <1>2 DEF Histories
<1>4. Bases = [c \in CandId |-> None]
  BY DEF Init, Bases
<1>5. answer = [r \in RecId |-> "none"]
  BY DEF Init
<1> QED BY <1>3, <1>4, <1>5 DEF Journal!Init

\* Every step of a whole partition is one of the journal's, or none that its clients see.
LEMMA StepRefinesJournal ==
  ASSUME tear = "none", TypeInv, TypeInv', JournalInv, HistoryInv, HistoryInv', CandidateInv,
         AnswerInv, [Next]_vars
  PROVE  [Journal!Next]_<<Histories, Bases, answer>>
<1>1. ASSUME NEW p \in Worker, AppendWrite(p)
      PROVE  [Journal!Next]_<<Histories, Bases, answer>>
  <2>1. UNCHANGED <<copies, answer>>
    BY <1>1 DEF AppendWrite, candidateVars, answerVars
  <2>2. CASE UNCHANGED journal
    BY <2>1, <2>2 DEF Histories, Bases
  <2>3. CASE \E r \in RecId : FreshRecord(r) /\ journal' = Append(journal, [id |-> r, rev |-> 1, by |-> <<>>])
    BY <2>1, <2>3, WriteAdds DEF FreshRecord, Journal!Next
  <2> QED BY <1>1, <2>2, <2>3, AppendAddsNewRecord
<1>2. ASSUME NEW p \in Worker, RenameTmp(p) PROVE Journal!Next
  BY <1>2, RenameMaterialises DEF Journal!Next
<1>3. ASSUME NEW p \in Worker, NEW c \in CandId, pc[p] = "submit.append", WritePending(p, c),
             SubmitAppend(p) \/ SubmitFails(p)
      PROVE  Journal!Next
  <2>1. UNCHANGED <<journal, answer>>
    BY <1>3 DEF SubmitAppend, SubmitFails, journalVars, answerVars
  <2> QED BY <1>3, <2>1, SubmitProposes DEF Journal!Next
<1>4. CASE UNCHANGED <<journal, copies>>
  <2>1. CASE UNCHANGED answer
    BY <1>4, <2>1 DEF Histories, Bases
  <2>2. ASSUME NEW p \in Worker, NEW text \in {"created", "accepted"},
               pc[p] \in {"append.begin", "append.upsert"},
               answer' = [answer EXCEPT ![job[p].rec] = text]
        PROVE  Journal!Next
    BY <1>4, <2>2, InsertTells DEF Journal!Next
  <2> QED BY <2>1, <2>2, AnswerComes
<1> QED BY <1>1, <1>2, <1>3, <1>4, JournalSteps

\* With locks, temporaries, revisions, failed steps and crashes, a partition
\* behaves like the journal of JournalSpec until a write is cut in half: every
\* record is added, answered once, and replaced by whole batches, each candidate
\* on the version it was made from (jsonl.go, Append; compact.go, Compact).
THEOREM WholePartitionRefinesJournal ==
  Spec => /\ Journal!Init
          /\ [][tear = "none" => [Journal!Next]_<<Histories, Bases, answer>>]_vars
<1>1. /\ TypeInv /\ TypeInv' /\ JournalInv /\ HistoryInv /\ HistoryInv' /\ CandidateInv /\ AnswerInv
      /\ [Next]_vars
      => [tear = "none" => [Journal!Next]_<<Histories, Bases, answer>>]_vars
  BY StepRefinesJournal
<1> QED BY <1>1, InitRefines, TypeInvAlways, JournalAlways, HistoryAlways, CandidateAlways, AnswerAlways,
           PTL DEF Spec

\* If no write is ever cut in half, it does so for ever: the partition implements
\* the journal.
THEOREM PartitionRefinesJournal ==
  ASSUME TornWrites = FALSE
  PROVE  Spec => ImplementsJournal
<1>1. /\ TypeInv /\ TypeInv' /\ JournalInv /\ HistoryInv /\ HistoryInv' /\ CandidateInv /\ AnswerInv
      /\ [Next]_vars
      => [Journal!Next]_<<Histories, Bases, answer>>
  <2>1. AnswerInv => tear = "none"
    BY DEF AnswerInv, Whole
  <2> QED BY <2>1, StepRefinesJournal
<1> QED BY <1>1, InitRefines, TypeInvAlways, JournalAlways, HistoryAlways, CandidateAlways, AnswerAlways,
           PTL DEF Spec, ImplementsJournal, Journal!Spec

-----------------------------------------------------------------------------
\* Queries.

queryVars == <<vars, query>>

\* A query reads, and the others step as they would without it.
LEMMA QuerySteps == [QueryNext]_queryVars => [Next]_vars
  BY DEF QueryNext, queryVars, Next, QuerySelect, QueryRead, QueryFails

\* The time of a record answered 201 is in the row.
CreatedIsSelected ==
  tear = "none" => \A r \in RecId : answer[r] = "created" => \E content \in row : content.id = r

\* What the index has answered of an announced version, and where its line is now.
QuerySound ==
  query # None /\ tear = "none" =>
    /\ query.byTime
    /\ query.announced => query.byTags
    /\ query.from.by \in Seq(CandId)
    /\ \E k \in DOMAIN journal : VersionOf(query.from, journal[k])

QueryInv == CreatedIsSelected /\ QuerySound

\* Half a line stays: no compaction reads the journal past it.
LEMMA TornStays ==
  ASSUME Rewrites, [Next]_vars, tear' = "none"
  PROVE  tear = "none"
<1>1. ASSUME NEW p \in Worker, AppendProgress(p) \/ AppendFault(p) PROVE tear = "none"
  BY <1>1 DEF AppendProgress, AppendFault, AppendLock, AppendWrite, WriteLine, InsertBegin,
       InsertCommit, InsertConflict, InsertFails, AcceptedOnly, AppendWriteFails, journalVars
<1>2. ASSUME NEW p \in Worker, CandidateProgress(p) \/ CandidateFault(p) PROVE tear = "none"
  BY <1>2, CandidateLeaves DEF journalVars
<1>3. ASSUME NEW p \in Worker, CompactProgress(p) \/ CompactFault(p) PROVE tear = "none"
  BY <1>3, CompactionLeaves DEF RenameTmp, Rewrites
<1>4. ASSUME NEW p \in Worker, LockFails(p) \/ \E k \in Kind : Arrive(p, k) PROVE tear = "none"
  BY <1>4 DEF LockFails, Arrive, journalVars
<1>5. CASE Crash \/ Restart \/ RecoveryFails \/ UNCHANGED vars
  BY <1>5 DEF Crash, Restart, RecoveryFails, vars, journalVars
<1> QED BY <1>1, <1>2, <1>3, <1>4, <1>5 DEF Next, Progress, Failure

\* No step takes the time of an announced record out of the row.
LEMMA StepSelected ==
  ASSUME TypeInv, TypeInv', JournalInv, LinesCurrent, CreatedIsSelected, [Next]_vars
  PROVE  CreatedIsSelected'
<1> SUFFICES ASSUME tear' = "none", NEW r \in RecId, answer'[r] = "created"
             PROVE  \E content \in row' : content.id = r
  BY DEF CreatedIsSelected
<1>1. tear = "none"
  BY TornStays DEF JournalInv
<1>2. CASE UNCHANGED <<row, answer>>
  BY <1>1, <1>2 DEF CreatedIsSelected
<1>3. ASSUME NEW p \in Worker, InsertCommit(p) PROVE \E content \in row' : content.id = r
  <2>1. CASE r = job[p].rec
    BY <1>3, <2>1, CommitKeepsRow
  <2>2. CASE r # job[p].rec
    BY <1>1, <1>3, <2>2, CommitKeepsRow DEF CreatedIsSelected
  <2> QED BY <2>1, <2>2
<1>4. ASSUME NEW p \in Worker, AcceptedOnly(p) PROVE \E content \in row' : content.id = r
  <2>1. answer[r] = "created" /\ row' = row
    BY <1>4 DEF AcceptedOnly, TypeInv, TypeOK
  <2> QED BY <1>1, <2>1 DEF CreatedIsSelected
<1>5. ASSUME NEW p \in Worker, RebuildIndex(p), UNCHANGED <<journal, answer>>
      PROVE  \E content \in row' : content.id = r
  <2>1. row' = Contents(journal)
    BY <1>5 DEF RebuildIndex, LinesCurrent
  <2>2. r \in Ids(journal)
    BY <1>1, <1>5 DEF JournalInv, NoLostRecord
  <2>3. PICK k \in DOMAIN journal : journal[k].id = r
    BY <2>2 DEF Ids
  <2>4. Content(journal[k]) \in row' /\ Content(journal[k]).id = r
    BY <2>1, <2>3 DEF Contents, Content
  <2> QED BY <2>4
<1> QED BY <1>2, <1>3, <1>4, <1>5, RowSteps

\* The current version of a record is that of its line.
LEMMA CurrentLine ==
  ASSUME TypeInv, HistoryInv, NEW k \in DOMAIN journal
  PROVE  Current(journal[k].id) = Content(journal[k])
<1>1. journal \in Seq(Record)
  BY DEF TypeInv, TypeOK
<1>2. FirstLine(journal, journal[k].id) = k
  BY <1>1, OnlyLine DEF HistoryInv, VersionInv, RevisionCounts
<1> QED BY <1>2 DEF Current, Ids

\* The index selects the file for what was announced before it was asked.
LEMMA SelectSound ==
  ASSUME TypeInv, JournalInv, HistoryInv, OutcomeInv, CreatedIsSelected, QuerySelect, tear = "none"
  PROVE  /\ query'.byTime
         /\ query'.announced => query'.byTags
         /\ query'.from.by \in Seq(CandId)
         /\ \E k \in DOMAIN journal : VersionOf(query'.from, journal[k])
<1>1. PICK r \in RecId :
        /\ answer[r] = "created" \/ Announced(Current(r))
        /\ query' = [from |-> Current(r), announced |-> Announced(Current(r)),
                     byTime |-> SelectedByTime(Current(r)), byTags |-> SelectedByTags(Current(r))]
  BY DEF QuerySelect
<1>2. r \in Ids(journal)
  <2>1. CASE answer[r] = "created"
    BY <2>1 DEF JournalInv, NoLostRecord
  <2>2. CASE Announced(Current(r)) /\ r \notin Ids(journal)
    BY <2>2 DEF Announced, Current, JournalInv, NoLostRecord
  <2> QED BY <1>1, <2>1, <2>2
<1>3. PICK k \in DOMAIN journal : journal[k].id = r
  BY <1>2 DEF Ids
<1>4. Current(r) = Content(journal[k]) /\ Current(r).id = r /\ Current(r).by = journal[k].by
  <2>1. Current(r) = Content(journal[k])
    BY <1>3, CurrentLine
  <2> QED BY <1>3, <2>1 DEF Content
<1>5. Announced(Current(r)) => Content(journal[k]) \in row
  <2>1. CASE journal[k].by = <<>>
    BY <1>3, <1>4, <2>1 DEF Announced, OutcomeInv, CreatedIsIndexed
  <2>2. CASE journal[k].by # <<>>
    BY <1>4, <2>2 DEF Announced, OutcomeInv, IndexComplete, Undisturbed
  <2> QED BY <2>1, <2>2
<1>6. SelectedByTime(Current(r))
  <2>1. CASE answer[r] = "created"
    BY <1>4, <2>1 DEF CreatedIsSelected, SelectedByTime
  <2>2. CASE Announced(Current(r))
    BY <1>4, <1>5, <2>2 DEF SelectedByTime
  <2> QED BY <1>1, <2>1, <2>2
<1>7. VersionOf(Current(r), journal[k]) /\ Current(r).by \in Seq(CandId)
  <2>1. journal[k] \in Record
    BY DEF TypeInv, TypeOK
  <2>2. journal[k].by \in Seq(CandId)
    BY <2>1 DEF Record
  <2> QED BY <1>3, <1>4, <2>2 DEF VersionOf
<1> QED BY <1>1, <1>4, <1>5, <1>6, <1>7 DEF SelectedByTags

\* A line stays a later version of what it was a version of.
LEMMA LaterVersion ==
  ASSUME TypeInv, Rewrites, VersionInv, [Next]_vars,
         NEW content, content.by \in Seq(CandId), NEW k \in DOMAIN journal, VersionOf(content, journal[k])
  PROVE  k \in DOMAIN journal' /\ VersionOf(content, journal'[k])
<1>1. /\ k \in DOMAIN journal' /\ journal'[k].id = journal[k].id
      /\ GrowsBy(journal[k], journal'[k], CandId, copies)
  BY LinesGrow
<1>2. journal[k] \in Record
  BY DEF TypeInv, TypeOK
<1>3. journal[k].by \in Seq(CandId)
  BY <1>2 DEF Record
<1>4. CASE journal'[k] = journal[k]
  BY <1>1, <1>4
<1>5. ASSUME NEW c \in CandId, journal'[k].by = Append(journal[k].by, c)
      PROVE  VersionOf(content, journal'[k])
  BY <1>1, <1>3, <1>5 DEF VersionOf
<1> QED BY <1>1, <1>4, <1>5 DEF GrowsBy

\* Every step keeps what a query holds true.
LEMMA StepQuery ==
  ASSUME TypeInv, TypeInv', JournalInv, HistoryInv, OutcomeInv, QueryInv, [QueryNext]_queryVars
  PROVE  QueryInv'
<1>1. [Next]_vars
  BY QuerySteps
<1>2. CreatedIsSelected'
  BY <1>1, StepSelected DEF QueryInv, OutcomeInv
<1>3. QuerySound'
  <2> SUFFICES ASSUME query' # None, tear' = "none"
               PROVE  /\ query'.byTime
                      /\ query'.announced => query'.byTags
                      /\ query'.from.by \in Seq(CandId)
                      /\ \E k \in DOMAIN journal' : VersionOf(query'.from, journal'[k])
    BY DEF QuerySound
  <2>1. tear = "none"
    BY <1>1, TornStays DEF JournalInv
  <2>2. CASE QuerySelect
    BY <2>1, <2>2, SelectSound DEF QueryInv, QuerySelect, vars, journalVars
  <2>3. CASE query' = query
    <3>1. PICK k \in DOMAIN journal : VersionOf(query.from, journal[k])
      BY <2>1, <2>3 DEF QueryInv, QuerySound
    <3>2. k \in DOMAIN journal' /\ VersionOf(query.from, journal'[k])
      BY <1>1, <2>1, <2>3, <3>1, LaterVersion DEF QueryInv, QuerySound, JournalInv, HistoryInv
    <3> QED BY <2>1, <2>3, <3>2 DEF QueryInv, QuerySound
  <2> QED BY <2>2, <2>3 DEF QueryNext, QueryRead, QueryFails, queryVars
<1> QED BY <1>2, <1>3 DEF QueryInv

\* Searching clients change nothing: all that is proved of Spec holds with them.
THEOREM QueriesOnlyRead == QuerySpec => Spec
<1>1. QueryInit => Init
  BY DEF QueryInit
<1>2. [QueryNext]_queryVars => [Next]_vars
  BY QuerySteps
<1> QED BY <1>1, <1>2, PTL DEF QuerySpec, Spec, queryVars

\* In every state a query that has been answered by the index was answered rightly,
\* and its record has a line of that version or a later one (index.go, Search).
THEOREM QueryAlways == QuerySpec => []QueryInv
<1>1. QueryInit => QueryInv
  BY DEF QueryInit, QueryInv, QuerySound, CreatedIsSelected, Init
<1>2. TypeInv /\ TypeInv' /\ JournalInv /\ HistoryInv /\ OutcomeInv /\ QueryInv
      /\ [QueryNext]_queryVars => QueryInv'
  BY StepQuery
<1> QED BY <1>1, <1>2, QueriesOnlyRead, TypeInvAlways, JournalAlways, HistoryAlways, OutcomeAlways,
           PTL DEF QuerySpec, queryVars

\* A search for a record that was announced before it began selects its file by
\* time and reads the record once, in the version it had or a later one, whatever
\* runs between the selection and the read (search.go, SearchRecords).
THEOREM QueriesFindRecords == QuerySpec => QueryFindsRecord
<1>1. ASSUME TypeInv, HistoryInv, QueryInv, QueryRead
      PROVE  /\ query.byTime
             /\ \E c \in Versions(query.from.id) :
                  Versions(query.from.id) = {c} /\ IsPrefix(query.from.by, c.by)
  <2>1. query # None /\ tear = "none"
    BY <1>1 DEF QueryRead, Readable
  <2>2. query.byTime /\ query.from.by \in Seq(CandId)
    BY <1>1, <2>1 DEF QueryInv, QuerySound
  <2>3. PICK k \in DOMAIN journal : VersionOf(query.from, journal[k])
    BY <1>1, <2>1 DEF QueryInv, QuerySound
  <2>4. journal[k] \in Record
    BY <1>1 DEF TypeInv, TypeOK
  <2>5. journal[k].by \in Seq(CandId)
    BY <2>4 DEF Record
  <2>6. \A j \in DOMAIN journal : journal[j].id = query.from.id <=> j = k
    BY <1>1, <2>3 DEF VersionOf, HistoryInv, VersionInv, RevisionCounts
  <2>7. Versions(query.from.id) = {Content(journal[k])}
    BY <2>6 DEF Versions, Contents, Content
  <2>8. IsPrefix(query.from.by, journal[k].by)
    <3>1. SubSeq(query.from.by, 1, Len(query.from.by)) = SubSeq(journal[k].by, 1, Len(query.from.by))
      BY <2>2, <2>3, <2>5 DEF VersionOf
    <3> QED BY <2>3, <3>1 DEF IsPrefix, VersionOf
  <2>9. Content(journal[k]).by = journal[k].by
    BY DEF Content
  <2> QED BY <2>2, <2>7, <2>8, <2>9
<1>2. TypeInv /\ HistoryInv /\ QueryInv =>
        [QueryRead =>
           /\ query.byTime
           /\ \E c \in Versions(query.from.id) :
                Versions(query.from.id) = {c} /\ IsPrefix(query.from.by, c.by)]_query
  BY <1>1
<1> QED BY <1>2, QueriesOnlyRead, QueryAlways, TypeInvAlways, HistoryAlways, PTL DEF QueryFindsRecord

\* A search by the tags or the type of a version that was announced before it began
\* finds that version unless a newer one has replaced it before the read
\* (index.go, RebuildPartition and Insert).
THEOREM QueriesFindVersions == QuerySpec => QueryFindsVersion
<1>1. QueryInv => [QueryRead /\ query.announced /\ query.from \in Versions(query.from.id) =>
                    query.byTags]_query
  BY DEF QueryInv, QuerySound, QueryRead, Readable
<1> QED BY <1>1, QueryAlways, PTL DEF QueryFindsVersion
=============================================================================

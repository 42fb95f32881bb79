----------------------------- MODULE AppendPath -----------------------------
(***************************************************************************)
(* POST /v1/journal: AppendRecord takes the shared journal lock, writes    *)
(* one line through the cached descriptor, then merges the record into the *)
(* index row in one SQLite transaction.  A failed transaction does not     *)
(* undo the line: the client is told 202 instead of 201.                   *)
(***************************************************************************)
EXTENDS PartitionState

\* Faulty variant: no lock is taken.
AppendUnlocked(p) ==
  /\ pc[p] = "append.lock"
  /\ Goto(p, "append.write")
  /\ UNCHANGED <<up, job, journalVars, row, candidateVars, lockVars, answerVars, boundVars>>

\* RWLock.SharedLock: a blocking flock, deaf to the request's context.
AppendLock(p) ==
  /\ pc[p] = "append.lock"
  /\ CanShare(jlock)
  /\ jlock' = Share(jlock, p)
  /\ Goto(p, "append.write")
  /\ UNCHANGED <<up, job, journalVars, row, candidateVars, clock, answerVars, boundVars>>

\* uuid.NewString: an id nobody has used.
FreshRecord(r) ==
  /\ answer[r] = "none"
  /\ r \notin Ids(journal)
  /\ \A p \in Worker : job[p].rec # r
  /\ \A c \in CandId : copies[c] # None => copies[c].id # r

\* getOrCreate: the descriptor cached for this path, or a new one.
OpenAppend(cached) == IF cached = "none" THEN "current" ELSE cached

\* Writing one line.  Through a stale descriptor it goes to the file that was
\* renamed over; behind half a line it is glued to it and cannot be parsed.
WriteLine(record) ==
  /\ journal' = IF OpenAppend(fd) = "stale" \/ tear = "tail"
                THEN journal
                ELSE Append(journal, record)
  /\ tear' = IF OpenAppend(fd) # "stale" /\ tear = "tail" THEN "inner" ELSE tear
  /\ fd' = OpenAppend(fd)

AppendWrite(p) ==
  /\ pc[p] = "append.write"
  /\ \E r \in RecId :
       /\ FreshRecord(r)
       /\ WriteLine([id |-> r, rev |-> 1, by |-> <<>>])
       /\ Keep(p, [job[p] EXCEPT !.rec = r])
  /\ Goto(p, "append.begin")
  /\ UNCHANGED <<up, tmp, row, candidateVars, lockVars, answerVars, boundVars>>

\* The open fails, or the write does, after half a line if TornWrites: the client
\* gets an error.
AppendWriteFails(p) ==
  /\ pc[p] = "append.write"
  /\ Fault
  /\ fd' \in {fd, OpenAppend(fd)}
  /\ tear' \in IF TornWrites THEN {tear, "tail"} ELSE {tear}
  /\ Return(p)
  /\ ReleaseJournal(p)
  /\ UNCHANGED <<up, journal, tmp, row, candidateVars, answerVars>>

\* Insert, first half: the transaction reads the row it will merge into.
InsertBegin(p) ==
  /\ pc[p] = "append.begin"
  /\ Keep(p, [job[p] EXCEPT !.row = row])
  /\ Goto(p, "append.upsert")
  /\ UNCHANGED <<up, journalVars, row, candidateVars, lockVars, answerVars, boundVars>>

\* Faulty variant: the merged row is written over whatever was committed since.
BlindUpsert(p) == TRUE

\* SQLite lets a transaction that has read write only if nobody wrote since.
SnapshotCurrent(p) == row = job[p].row

\* Insert, second half: the upsert of the merged row commits; 201.
InsertCommit(p) ==
  /\ pc[p] = "append.upsert"
  /\ SnapshotCurrent(p)
  /\ row' = job[p].row \cup {Content([id |-> job[p].rec, rev |-> 1, by |-> <<>>])}
  /\ answer' = [answer EXCEPT ![job[p].rec] = "created"]
  /\ Return(p)
  /\ ReleaseJournal(p)
  /\ UNCHANGED <<up, journalVars, candidateVars, submitted, approved, boundVars>>

\* The record is written but not indexed: ErrIndexFailed, 202.
AcceptedOnly(p) ==
  /\ answer' = [answer EXCEPT ![job[p].rec] = "accepted"]
  /\ Return(p)
  /\ ReleaseJournal(p)
  /\ UNCHANGED <<up, journalVars, row, candidateVars, submitted, approved>>

\* SQLITE_BUSY: another transaction on the index committed, or holds the write lock.
InsertConflict(p) ==
  /\ pc[p] = "append.upsert"
  /\ ~ SnapshotCurrent(p) \/ \E q \in Worker \ {p} : pc[q] = "append.upsert"
  /\ AcceptedOnly(p)
  /\ UNCHANGED boundVars

InsertFails(p) ==
  /\ pc[p] \in {"append.begin", "append.upsert"}
  /\ Fault
  /\ AcceptedOnly(p)

AppendProgress(p) ==
  \/ AppendLock(p)
  \/ AppendWrite(p)
  \/ InsertBegin(p)
  \/ InsertCommit(p)
  \/ InsertConflict(p)

AppendFault(p) == AppendWriteFails(p) \/ InsertFails(p)
=============================================================================

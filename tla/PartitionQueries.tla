-------------------------- MODULE PartitionQueries --------------------------
(***************************************************************************)
(* Module Partition with a client that searches.  SearchRecords selects    *)
(* files in the index, then reads them; it takes no lock, so appends and   *)
(* compactions run between its two steps.  A query only reads, so one at a *)
(* time shows what any number of them can see.                             *)
(*                                                                         *)
(* The query is one that the record "rec" answers: by its time, which no   *)
(* candidate changes, or by the tags or type of the version "from" that is *)
(* current when the query begins.  Module Search has the filters.          *)
(***************************************************************************)
EXTENDS Partition

VARIABLE query   \* what the handler of the query knows, None when there is none

\* The version of record r that the journal holds, or else should hold.
Current(r) ==
  IF r \in Ids(journal) THEN Content(journal[FirstLine(journal, r)]) ELSE [id |-> r, by |-> <<>>]

\* A search should find this version: its append was answered 201, or the
\* compaction that wrote it has rebuilt the index.
Announced(content) ==
  IF content.by = <<>> THEN answer[content.id] = "created"
  ELSE ~ RewritingJournal /\ faults = 0 /\ crashes = 0

\* index.Search, one SQLite statement: is the file selected by the record's time?
\* By its tags and type?
SelectedByTime(content) == \E c \in row : c.id = content.id
SelectedByTags(content) == content \in row

\* Search: the index is asked, for a record that some client was told of.
QuerySelect ==
  /\ up
  /\ query = None
  /\ \E r \in RecId :
       /\ answer[r] = "created" \/ Announced(Current(r))
       /\ query' = [from |-> Current(r),
                    announced |-> Announced(Current(r)),
                    byTime |-> SelectedByTime(Current(r)),
                    byTags |-> SelectedByTags(Current(r))]
  /\ UNCHANGED vars

\* The versions of the record in the file, before record-level filtering.
Versions(r) == {c \in Contents(journal) : c.id = r}

\* Read: the file is opened, and scanned to its end; a rename in between leaves
\* the scan with the file it opened.  Lines appended during the scan are lines
\* that no client was told of when it began.
QueryRead ==
  /\ query # None
  /\ Readable
  /\ query' = None
  /\ UNCHANGED vars

\* 500: a torn line, or a line that is being written when the scan meets it.
QueryFails ==
  /\ query # None
  /\ ~ Readable \/ \E p \in Worker : pc[p] = "append.write"
  /\ query' = None
  /\ UNCHANGED vars

QueryInit == Init /\ query = None

QueryNext ==
  \/ \E p \in Worker :
       /\ (\E k \in Kind : Arrive(p, k)) \/ Progress(p) \/ Failure(p)
       /\ UNCHANGED query
  \/ Crash /\ query' = None
  \/ (Restart \/ RecoveryFails) /\ UNCHANGED query
  \/ QuerySelect
  \/ QueryRead
  \/ QueryFails

QuerySpec == QueryInit /\ [][QueryNext]_<<vars, query>>

-----------------------------------------------------------------------------
\* A search by time that begins after a record was announced returns it, in one
\* version, which the version current at the beginning led to: a compaction
\* between the selection and the read never hides the record, shows it twice or
\* goes back.
QueryFindsRecord ==
  [][QueryRead =>
       /\ query.byTime
       /\ \E c \in Versions(query.from.id) :
            Versions(query.from.id) = {c} /\ IsPrefix(query.from.by, c.by)]_query

\* A search by the tags or the type of an announced version returns it unless a
\* newer version has replaced it before the read.
QueryFindsVersion ==
  [][QueryRead /\ query.announced /\ query.from \in Versions(query.from.id) =>
       query.byTags]_query
=============================================================================

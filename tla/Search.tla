------------------------------- MODULE Search -------------------------------
(***************************************************************************)
(* The file index and the queries over all day partitions.  A query first  *)
(* selects files by their index rows, whose times are truncated to         *)
(* milliseconds and compared as text, then filters the records of at most  *)
(* MaxFiles files at full precision, and returns the newest.  Requests run *)
(* one at a time here; their interleavings are in module Partition.        *)
(*                                                                         *)
(* An instant is a number of ticks since some midnight UTC, a zone the     *)
(* number of ticks its clocks are ahead of UTC.                            *)
(***************************************************************************)
EXTENDS Integers, FiniteSets

CONSTANTS
  RecId, Tag, Type,
  Labels,      \* the pairs of tags and type that records have
  Instant,     \* BOUND: the instants of records and of query bounds
  Zone,
  MilliTicks,  \* ticks in a millisecond
  DayTicks,    \* ticks in a day
  EndOfText,   \* the first instant whose year has five digits in UTC
  MaxFiles,    \* maxFilesPerSearch
  Limit,       \* the limit of a query
  None         \* no row, no bound

ASSUME LabelsAssumption == Labels \subseteq [tags : SUBSET Tag, type : Type]

ASSUME TimeAssumption ==
  /\ Instant \subseteq Nat /\ Zone \subseteq Int
  /\ MilliTicks \in Nat \ {0} /\ DayTicks \in Nat \ {0} /\ EndOfText \in Nat
  /\ DayTicks % MilliTicks = 0 /\ EndOfText % MilliTicks = 0
  /\ \A z \in Zone : z % MilliTicks = 0
  /\ \A t \in Instant : t < 2 * EndOfText

ASSUME LimitsAssumption == MaxFiles \in Nat \ {0} /\ Limit \in Nat \ {0}

ASSUME NoneAssumption ==
  None \notin Instant \cup [min : Int, max : Int, tags : SUBSET Tag, types : SUBSET Type]

VARIABLES
  files,   \* files[d]: the records in the journal file of day d
  rows,    \* rows[d]: the row of that file, None if there is none
  found    \* the records whose present version an insert or a rebuild has indexed

vars == <<files, rows, found>>

-----------------------------------------------------------------------------
\* Time.

\* PartitionFromTime: the date on the clocks of the record's own zone.
DayOf(at, zone) == (at + zone) \div DayTicks

Day == {DayOf(t, z) : t \in Instant, z \in Zone}

Record == [id : RecId, at : Instant, zone : Zone, label : Labels]

\* A record is refused when its own clocks show a year of more than four digits.
Encodable(at, zone) == at + zone < EndOfText

\* Faulty variant: nothing is truncated.
FullPrecision(t) == t

Normalize(t) == t - (t % MilliTicks)

\* The order of the formatted times.  The layout has a fixed width up to year
\* 9999; "10000-..." sorts before every year from 1001 on (earlier ones are left out).
TextOrder(t) == IF t < EndOfText THEN t ELSE t - 2 * EndOfText

TextMin(s, t) == IF TextOrder(s) <= TextOrder(t) THEN s ELSE t
TextMax(s, t) == IF TextOrder(s) <= TextOrder(t) THEN t ELSE s

\* Parse reads four digits of a year.
Parses(t) == t < EndOfText

-----------------------------------------------------------------------------
\* The index.

RowFor(record) ==
  [min |-> Normalize(record.at), max |-> Normalize(record.at),
   tags |-> record.label.tags, types |-> {record.label.type}]

\* Faulty variant: the time range is not widened.
MergeLabels(row, record) ==
  IF row = None THEN RowFor(record)
  ELSE [row EXCEPT !.tags = @ \cup record.label.tags, !.types = @ \cup {record.label.type}]

\* Insert: the union of the labels, and SQL's MIN and MAX of the texts.
Merge(row, record) ==
  IF row = None THEN RowFor(record)
  ELSE [min |-> TextMin(row.min, Normalize(record.at)),
        max |-> TextMax(row.max, Normalize(record.at)),
        tags |-> row.tags \cup record.label.tags,
        types |-> row.types \cup {record.label.type}]

Earliest(records) == CHOOSE x \in records : \A y \in records : x.at <= y.at
Latest(records) == CHOOSE x \in records : \A y \in records : y.at <= x.at

\* RebuildPartition compares times, not texts.
Rebuild(records) ==
  IF records = {} THEN None
  ELSE [min |-> Normalize(Earliest(records).at), max |-> Normalize(Latest(records).at),
        tags |-> UNION {x.label.tags : x \in records},
        types |-> {x.label.type : x \in records}]

-----------------------------------------------------------------------------
\* Queries.

\* What validation lets through.
Query ==
  {q \in [from : Instant \cup {None}, to : Instant \cup {None},
          tags : SUBSET Tag, types : SUBSET Type] :
     q.from # None /\ q.to # None => q.from <= q.to}

AnyOf(wanted, labels) == wanted = {} \/ wanted \cap labels # {}

\* Faulty variant: the bound keeps its precision.
ExactBound(t) == TextOrder(t)

\* A bound as the rows have their times: truncated, as text.
Bound(t) == TextOrder(Normalize(t))

\* The WHERE clause.
Selects(q, row) ==
  /\ row # None
  /\ q.from # None => TextOrder(row.max) >= Bound(q.from)
  /\ q.to # None => TextOrder(row.min) <= Bound(q.to)
  /\ AnyOf(q.tags, row.tags)
  /\ AnyOf(q.types, row.types)

Selected(q) == {d \in Day : Selects(q, rows[d])}

\* Faulty variant: the oldest files first.
OldestKept(d, e) == TextOrder(rows[d].max) <= TextOrder(rows[e].max)

\* ORDER BY max_ts DESC: file d may come before file e.
Before(d, e) == TextOrder(rows[d].max) >= TextOrder(rows[e].max)

\* LIMIT: the sets of files the query may read; files with equal times come in any order.
Smaller(m, n) == IF m <= n THEN m ELSE n
Kept(q) ==
  LET selected == Selected(q)
  IN  {D \in SUBSET selected :
         /\ Cardinality(D) = Smaller(MaxFiles, Cardinality(selected))
         /\ \A d \in D, e \in selected \ D : Before(d, e)}

\* A row whose times cannot be parsed fails the whole search: 500.
Fails(D) == \E d \in D : ~ Parses(rows[d].min) \/ ~ Parses(rows[d].max)

\* filterRecords: full precision, OR within tags and within types.
Matches(q, x) ==
  /\ q.from # None => q.from <= x.at
  /\ q.to # None => x.at <= q.to
  /\ AnyOf(q.tags, x.label.tags)
  /\ q.types = {} \/ x.label.type \in q.types

Matching(q, D) == {x \in UNION {files[d] : d \in D} : Matches(q, x)}

\* Sorted by time, newest first, and cut: the sets of records it may return.
Answers(q, D) ==
  LET matching == Matching(q, D)
  IN  {A \in SUBSET matching :
         /\ Cardinality(A) = Smaller(Limit, Cardinality(matching))
         /\ \A x \in A, y \in matching \ A : y.at <= x.at}

-----------------------------------------------------------------------------
\* The requests that write.

Stored == UNION {files[d] : d \in Day}

\* POST /v1/journal: the line, and its insert, which may fail (202).
Append(r) ==
  /\ \A x \in Stored : x.id # r
  /\ \E at \in Instant, zone \in Zone, label \in Labels :
       LET record == [id |-> r, at |-> at, zone |-> zone, label |-> label]
           d == DayOf(at, zone)
       IN  /\ Encodable(at, zone)
           /\ files' = [files EXCEPT ![d] = @ \cup {record}]
           /\ \/ /\ rows' = [rows EXCEPT ![d] = Merge(rows[d], record)]
                 /\ found' = found \cup {r}
              \/ UNCHANGED <<rows, found>>

\* POST /v1/compaction: record r gets new labels and keeps its time; the rebuild
\* of the row may fail.
Compact(d) ==
  /\ \E x \in files[d], label \in Labels :
       /\ label # x.label
       /\ files' = [files EXCEPT ![d] = (@ \ {x}) \cup {[x EXCEPT !.label = label]}]
       /\ \/ /\ rows' = [rows EXCEPT ![d] = Rebuild(files'[d])]
             /\ found' = found \cup {y.id : y \in files[d]}
          \/ /\ UNCHANGED rows
             /\ found' = found \ {x.id}

Init ==
  /\ files = [d \in Day |-> {}]
  /\ rows = [d \in Day |-> None]
  /\ found = {}

Next ==
  \/ \E r \in RecId : Append(r)
  \/ \E d \in Day : Compact(d)

Spec == Init /\ [][Next]_vars

-----------------------------------------------------------------------------
\* Files hold records of their day, one for each id; rows are made of
\* milliseconds.
TypeOK ==
  /\ files \in [Day -> SUBSET Record]
  /\ \A d \in Day : \A x \in files[d] : DayOf(x.at, x.zone) = d
  /\ \A x, y \in Stored : x.id = y.id => x = y
  /\ \A d \in Day : rows[d] # None =>
       rows[d].min % MilliTicks = 0 /\ rows[d].max % MilliTicks = 0
  /\ found \subseteq {x.id : x \in Stored}

\* No record of the file, no bound of the query has a year that takes five digits.
FixedWidth(d) == \A x \in files[d] : x.at < EndOfText

PlainQuery == {q \in Query : \A t \in {q.from, q.to} \ {None} : t < EndOfText}

\* A query that an indexed record answers selects its file, although rows and
\* bounds are truncated and records are not, whatever the zones of the records:
\* unless the file holds a record of a year that breaks the fixed width.
SelectionMissesNothing ==
  \A d \in Day : \A x \in files[d] :
    x.id \in found /\ FixedWidth(d) =>
      \A q \in PlainQuery : Matches(q, x) => Selects(q, rows[d])

\* An answer consists of the newest of the indexed records that match.  None is
\* missing that is newer than one returned, also when more files are selected
\* than read, if all records were written in one zone.  (Days of two zones
\* overlap: then a file that is not read may have newer records.)  And when all
\* selected files are read, the answer is cut short by the limit only.  There is
\* an answer: the times of the rows can be read back.
OneZone == \A x, y \in Stored : x.zone = y.zone

AnswerIsNewest ==
  (\A d \in Day : FixedWidth(d)) =>
    \A q \in PlainQuery : \A D \in Kept(q) :
      /\ ~ Fails(D)
      /\ \A A \in Answers(q, D) : \A x \in Stored \ A :
           x.id \in found /\ Matches(q, x) =>
             /\ OneZone \/ Selected(q) = D => \A y \in A : x.at <= y.at
             /\ Selected(q) = D => Cardinality(A) = Limit
=============================================================================

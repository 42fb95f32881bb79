----------------------------- MODULE SearchProofs -----------------------------
(***************************************************************************)
(* The file index and the searches, for any records, labels, instants,     *)
(* zones, queries and limits.  A row covers the records of its file that   *)
(* inserts and rebuilds have seen: its times, truncated, are around        *)
(* theirs, its labels include theirs.  Truncation keeps the order of       *)
(* times, and a day begins on a millisecond; the rest is what the WHERE    *)
(* clause, the order and the limits make of that.                          *)
(***************************************************************************)
EXTENDS Search, FiniteSetTheorems, WellFoundedInduction, TLAPS

Row == [min : Int, max : Int, tags : SUBSET Tag, types : SUBSET Type]

\* Files hold records of their day, one for each id, and finitely many.
FilesOK ==
  /\ files \in [Day -> SUBSET Record]
  /\ \A d \in Day : \A x \in files[d] : DayOf(x.at, x.zone) = d
  /\ \A x, y \in Stored : x.id = y.id => x = y
  /\ IsFiniteSet(Stored)
  /\ found \subseteq {x.id : x \in Stored}

\* The times of a row are those of records in its file, truncated.
RowsMade ==
  /\ rows \in [Day -> Row \cup {None}]
  /\ \A d \in Day : rows[d] # None =>
       \E u, v \in files[d] : rows[d].min = Normalize(u.at) /\ rows[d].max = Normalize(v.at)

\* As text, the times of the row are around that of the record.
Covers(row, x) ==
  /\ TextOrder(row.min) <= TextOrder(Normalize(x.at))
  /\ TextOrder(Normalize(x.at)) <= TextOrder(row.max)
  /\ x.label.tags \subseteq row.tags
  /\ x.label.type \in row.types

RowsCover ==
  \A d \in Day : FixedWidth(d) =>
    \A x \in files[d] : x.id \in found => rows[d] # None /\ Covers(rows[d], x)

SearchInv == FilesOK /\ RowsMade /\ RowsCover

-----------------------------------------------------------------------------
\* Time.

\* The constants of time are numbers.
LEMMA InstantType ==
  /\ Instant \subseteq Nat /\ Zone \subseteq Int
  /\ MilliTicks \in Nat \ {0} /\ DayTicks \in Nat \ {0} /\ EndOfText \in Nat
  /\ \A t \in Instant : 2 * EndOfText - t \in Nat
  BY TimeAssumption

\* An instant is a number.
LEMMA InstantIsInt ==
  ASSUME NEW t \in Instant
  PROVE  t \in Nat /\ t \in Int
<1>1. t \in Nat
  BY InstantType
<1> QED BY <1>1

\* Truncation takes an instant down by less than a millisecond,
LEMMA NormalizeBounds ==
  ASSUME NEW t \in Int
  PROVE  /\ Normalize(t) \in Int /\ Normalize(t) <= t /\ t < Normalize(t) + MilliTicks
         /\ Normalize(t) = MilliTicks * (t \div MilliTicks) /\ t \div MilliTicks \in Int
         /\ Normalize(t) % MilliTicks = 0
<1>1. MilliTicks \in Nat \ {0}
  BY InstantType
<1>2. t % MilliTicks = t - MilliTicks * (t \div MilliTicks) /\ t \div MilliTicks \in Int
  BY <1>1
<1>3. t % MilliTicks \in 0 .. MilliTicks - 1
  BY <1>1
<1>4. Normalize(t) = MilliTicks * (t \div MilliTicks)
  BY <1>1, <1>2 DEF Normalize
<1>5. (MilliTicks * (t \div MilliTicks)) % MilliTicks = 0
  BY <1>1, <1>2
<1> QED BY <1>1, <1>2, <1>3, <1>4, <1>5 DEF Normalize

\* to the last whole millisecond,
LEMMA NormalizeIsLast ==
  ASSUME NEW t \in Int, NEW k \in Int, MilliTicks * k <= t
  PROVE  MilliTicks * k <= Normalize(t)
<1> DEFINE q == t \div MilliTicks
<1>1. MilliTicks \in Nat \ {0} /\ q \in Int /\ Normalize(t) = MilliTicks * q /\ t < MilliTicks * q + MilliTicks
  BY InstantType, NormalizeBounds
<1> HIDE DEF q
<1>2. MilliTicks * k < MilliTicks * q + MilliTicks
  BY <1>1
<1> QED BY <1>1, <1>2

\* and so keeps the order.
LEMMA NormalizeMonotone ==
  ASSUME NEW s \in Int, NEW t \in Int, s <= t
  PROVE  Normalize(s) <= Normalize(t)
<1> DEFINE k == s \div MilliTicks
<1>1. k \in Int /\ Normalize(s) = MilliTicks * k /\ Normalize(s) <= s /\ Normalize(s) \in Int
  BY NormalizeBounds
<1> HIDE DEF k
<1>2. MilliTicks * k <= t
  BY <1>1
<1> QED BY <1>1, <1>2, NormalizeIsLast

\* Up to the last year of four digits, texts sort as times do.
LEMMA PlainText ==
  ASSUME NEW t \in Int, t < EndOfText
  PROVE  /\ Normalize(t) < EndOfText
         /\ TextOrder(Normalize(t)) = Normalize(t)
  BY NormalizeBounds, InstantType DEF TextOrder

\* What a timestamp compares as is a number.
LEMMA TextOrderType ==
  ASSUME NEW t \in Int
  PROVE  TextOrder(t) \in Int
  BY InstantType DEF TextOrder

\* An instant whose millisecond is not earlier is not on an earlier day, in one
\* zone: midnight falls between milliseconds there.
LEMMA LaterDay ==
  ASSUME NEW s \in Instant, NEW t \in Instant, NEW z \in Zone, Normalize(t) <= Normalize(s)
  PROVE  DayOf(t, z) <= DayOf(s, z)
<1> DEFINE day == (t + z) \div DayTicks
           k == DayTicks \div MilliTicks
           j == z \div MilliTicks
<1>1. /\ s \in Int /\ t \in Int /\ z \in Int
      /\ MilliTicks \in Nat \ {0} /\ DayTicks \in Nat \ {0}
  BY InstantType
<1>2. DayTicks = MilliTicks * k /\ k \in Int
  BY <1>1, TimeAssumption
<1>3. z = MilliTicks * j /\ j \in Int
  BY <1>1, TimeAssumption
<1>4. day \in Int /\ DayTicks * day <= t + z
  BY <1>1
<1> HIDE DEF day, k, j
<1>5. DayTicks * day - z = MilliTicks * (k * day - j)
  BY <1>1, <1>2, <1>3, <1>4
<1> DEFINE n == k * day - j
<1>6. n \in Int /\ DayTicks * day - z = MilliTicks * n
  BY <1>2, <1>3, <1>4, <1>5
<1> HIDE DEF n
<1>7. DayTicks * day - z <= Normalize(t)
  <2>1. MilliTicks * n <= t
    BY <1>1, <1>4, <1>6
  <2> QED BY <1>1, <1>6, <2>1, NormalizeIsLast
<1>8. DayTicks * day <= s + z
  BY <1>1, <1>4, <1>7, NormalizeBounds
<1>9. day <= (s + z) \div DayTicks
  BY <1>1, <1>4, <1>8
<1> QED BY <1>9 DEF DayOf, day

-----------------------------------------------------------------------------
\* Rows.

\* The fields of a record.
LEMMA LabelType ==
  ASSUME NEW x \in Record
  PROVE  /\ x.at \in Instant /\ x.at \in Int /\ x.zone \in Zone /\ x.id \in RecId
         /\ x.label.tags \in SUBSET Tag /\ x.label.type \in Type
<1>1. x.at \in Instant /\ x.zone \in Zone /\ x.id \in RecId /\ x.label \in Labels
  BY DEF Record
<1>2. x.label \in [tags : SUBSET Tag, type : Type]
  BY <1>1, LabelsAssumption
<1>3. x.label.tags \in SUBSET Tag /\ x.label.type \in Type
  BY <1>2
<1> QED BY <1>1, <1>3, InstantIsInt

\* The row of one record.
LEMMA RowForCovers ==
  ASSUME NEW x \in Record
  PROVE  RowFor(x) \in Row /\ Covers(RowFor(x), x)
<1>1. Normalize(x.at) \in Int /\ TextOrder(Normalize(x.at)) \in Int
  BY LabelType, NormalizeBounds, TextOrderType
<1> QED BY <1>1, LabelType DEF RowFor, Row, Covers

\* A row that takes in a record covers it, and all that it covered before; each
\* of its times is one that it had or the record's.
LEMMA MergeCovers ==
  ASSUME NEW row \in Row, NEW x \in Record
  PROVE  /\ Merge(row, x) \in Row
         /\ Covers(Merge(row, x), x)
         /\ \A y \in Record : Covers(row, y) => Covers(Merge(row, x), y)
         /\ Merge(row, x).min \in {row.min, Normalize(x.at)}
         /\ Merge(row, x).max \in {row.max, Normalize(x.at)}
<1> DEFINE n == Normalize(x.at)
           merged == Merge(row, x)
<1>1. n \in Int /\ row.min \in Int /\ row.max \in Int
  BY LabelType, NormalizeBounds DEF Row
<1>2. TextOrder(n) \in Int /\ TextOrder(row.min) \in Int /\ TextOrder(row.max) \in Int
  BY <1>1, TextOrderType
<1>3. row # None
  BY NoneAssumption DEF Row
<1>4. merged = [min |-> TextMin(row.min, n), max |-> TextMax(row.max, n),
                tags |-> row.tags \cup x.label.tags, types |-> row.types \cup {x.label.type}]
  BY <1>3 DEF Merge
<1>5. /\ merged.min = TextMin(row.min, n) /\ merged.max = TextMax(row.max, n)
      /\ merged.tags = row.tags \cup x.label.tags /\ merged.types = row.types \cup {x.label.type}
  BY <1>4
<1>6. /\ TextMin(row.min, n) \in {row.min, n} /\ TextMax(row.max, n) \in {row.max, n}
      /\ TextOrder(TextMin(row.min, n)) <= TextOrder(row.min)
      /\ TextOrder(TextMin(row.min, n)) <= TextOrder(n)
      /\ TextOrder(row.max) <= TextOrder(TextMax(row.max, n))
      /\ TextOrder(n) <= TextOrder(TextMax(row.max, n))
  <2> HIDE DEF n
  <2> QED BY <1>1, <1>2 DEF TextMin, TextMax
<1>7. merged \in Row
  BY <1>1, <1>4, <1>6, LabelType DEF Row
<1>8. Covers(merged, x)
  BY <1>5, <1>6 DEF Covers
<1>9. ASSUME NEW y \in Record, Covers(row, y) PROVE Covers(merged, y)
  <2>1. TextOrder(Normalize(y.at)) \in Int
    BY LabelType, NormalizeBounds, TextOrderType
  <2>2. TextOrder(merged.min) \in Int /\ TextOrder(merged.max) \in Int
    BY <1>7, TextOrderType DEF Row
  <2>3. TextOrder(merged.min) <= TextOrder(row.min) /\ TextOrder(row.max) <= TextOrder(merged.max)
    BY <1>5, <1>6
  <2>4. /\ TextOrder(row.min) <= TextOrder(Normalize(y.at)) /\ TextOrder(Normalize(y.at)) <= TextOrder(row.max)
        /\ y.label.tags \subseteq row.tags /\ y.label.type \in row.types
    BY <1>9 DEF Covers
  <2>5. /\ TextOrder(merged.min) <= TextOrder(Normalize(y.at))
        /\ TextOrder(Normalize(y.at)) <= TextOrder(merged.max)
    BY <1>2, <2>1, <2>2, <2>3, <2>4
  <2>6. y.label.tags \subseteq merged.tags /\ y.label.type \in merged.types
    BY <1>5, <2>4
  <2> QED BY <2>5, <2>6 DEF Covers
<1> QED BY <1>5, <1>6, <1>7, <1>8, <1>9

\* A set of naturals that is not empty has a least element.
LEMMA LeastNatural ==
  ASSUME NEW T \in SUBSET Nat, T # {}
  PROVE  \E m \in T : \A n \in T : m <= n
<1> DEFINE Less == OpToRel(<, Nat)
<1>1. IsWellFoundedOn(Less, Nat)
  BY NatLessThanWellFounded
<1>2. PICK m \in T : \A n \in T : <<n, m>> \notin Less
  <2> HIDE DEF Less
  <2> QED BY <1>1, WFMin
<1>3. \A n \in T : ~ (n < m)
  BY <1>2 DEF OpToRel
<1> QED BY <1>3

\* Records have an earliest and a latest: instants are bounded.
LEMMA Extremes ==
  ASSUME NEW records \in SUBSET Record, records # {}
  PROVE  /\ Earliest(records) \in records /\ \A y \in records : Earliest(records).at <= y.at
         /\ Latest(records) \in records /\ \A y \in records : y.at <= Latest(records).at
<1>1. \A x \in records : x.at \in Instant /\ x.at \in Nat /\ 2 * EndOfText - x.at \in Nat
  BY LabelType, InstantType
<1>2. \E x \in records : \A y \in records : x.at <= y.at
  <2> DEFINE T == {x.at : x \in records}
  <2>1. PICK m \in T : \A n \in T : m <= n
    <3>1. T \in SUBSET Nat /\ T # {}
      BY <1>1
    <3> HIDE DEF T
    <3> QED BY <3>1, LeastNatural
  <2> QED BY <2>1
<1>3. \E x \in records : \A y \in records : y.at <= x.at
  <2> DEFINE T == {2 * EndOfText - x.at : x \in records}
  <2>1. PICK m \in T : \A n \in T : m <= n
    <3>1. T \in SUBSET Nat /\ T # {}
      BY <1>1
    <3> HIDE DEF T
    <3> QED BY <3>1, LeastNatural
  <2>2. PICK x \in records : m = 2 * EndOfText - x.at
    BY <2>1
  <2>3. ASSUME NEW y \in records PROVE y.at <= x.at
    <3>1. 2 * EndOfText - x.at <= 2 * EndOfText - y.at
      BY <2>1, <2>2
    <3> QED BY <1>1, <3>1, InstantType
  <2> QED BY <2>3
<1> QED BY <1>2, <1>3 DEF Earliest, Latest

\* A rebuilt row has the times of two records of the file, and covers all, unless
\* a year of five digits is among them.
LEMMA RebuildCovers ==
  ASSUME NEW records \in SUBSET Record, records # {}
  PROVE  /\ Rebuild(records) \in Row
         /\ \E u, v \in records : /\ Rebuild(records).min = Normalize(u.at)
                                  /\ Rebuild(records).max = Normalize(v.at)
         /\ (\A x \in records : x.at < EndOfText) => \A x \in records : Covers(Rebuild(records), x)
<1> DEFINE u == Earliest(records)
           v == Latest(records)
           row == Rebuild(records)
<1>1. u \in records /\ v \in records /\ \A y \in records : u.at <= y.at /\ y.at <= v.at
  BY Extremes
<1>2. \A x \in records : x.at \in Int /\ x.label.tags \in SUBSET Tag /\ x.label.type \in Type
  BY LabelType
<1>3. row = [min |-> Normalize(u.at), max |-> Normalize(v.at),
             tags |-> UNION {x.label.tags : x \in records}, types |-> {x.label.type : x \in records}]
  BY DEF Rebuild
<1> HIDE DEF u, v
<1>4. Normalize(u.at) \in Int /\ Normalize(v.at) \in Int
  BY <1>1, <1>2, NormalizeBounds
<1>5. row \in Row
  <2>1. UNION {x.label.tags : x \in records} \in SUBSET Tag /\ {x.label.type : x \in records} \in SUBSET Type
    BY <1>2
  <2> HIDE DEF row
  <2> QED BY <1>3, <1>4, <2>1 DEF Row
<1>6. ASSUME \A x \in records : x.at < EndOfText, NEW x \in records PROVE Covers(row, x)
  <2>1. Normalize(u.at) <= Normalize(x.at) /\ Normalize(x.at) <= Normalize(v.at)
    BY <1>1, <1>2, NormalizeMonotone
  <2>2. \A y \in records : TextOrder(Normalize(y.at)) = Normalize(y.at)
    BY <1>2, <1>6, PlainText
  <2>3. /\ row.min = Normalize(u.at) /\ row.max = Normalize(v.at)
        /\ x.label.tags \subseteq row.tags /\ x.label.type \in row.types
    <3> HIDE DEF row
    <3> QED BY <1>3
  <2> HIDE DEF row
  <2> QED BY <1>1, <2>1, <2>2, <2>3 DEF Covers
<1>7. row.min = Normalize(u.at) /\ row.max = Normalize(v.at)
  <2> HIDE DEF row
  <2> QED BY <1>3
<1> QED BY <1>1, <1>5, <1>6, <1>7

-----------------------------------------------------------------------------
\* The requests.

\* What an append does to one file and its row.
LEMMA AppendStep ==
  ASSUME NEW r \in RecId, Append(r)
  PROVE  \E x \in Record, d \in Day :
           /\ x.id = r /\ DayOf(x.at, x.zone) = d
           /\ \A y \in Stored : y.id # r
           /\ files' = [files EXCEPT ![d] = @ \cup {x}]
           /\ \/ /\ rows' = [rows EXCEPT ![d] = Merge(rows[d], x)]
                 /\ found' = found \cup {r}
              \/ UNCHANGED <<rows, found>>
<1>1. PICK at \in Instant, zone \in Zone, label \in Labels :
        LET record == [id |-> r, at |-> at, zone |-> zone, label |-> label]
            d == DayOf(at, zone)
        IN  /\ files' = [files EXCEPT ![d] = @ \cup {record}]
            /\ \/ /\ rows' = [rows EXCEPT ![d] = Merge(rows[d], record)]
                  /\ found' = found \cup {r}
               \/ UNCHANGED <<rows, found>>
  BY DEF Append
<1> DEFINE x == [id |-> r, at |-> at, zone |-> zone, label |-> label]
           d == DayOf(at, zone)
<1>2. x \in Record /\ x.id = r /\ DayOf(x.at, x.zone) = d
  BY DEF Record
<1>3. d \in Day
  BY DEF Day
<1> QED BY <1>1, <1>2, <1>3 DEF Append

\* What a compaction does to one file and its row.
LEMMA CompactStep ==
  ASSUME FilesOK, NEW d \in Day, Compact(d)
  PROVE  \E x \in files[d], y \in Record :
           /\ y.id = x.id /\ y.at = x.at /\ y.zone = x.zone
           /\ files' = [files EXCEPT ![d] = (@ \ {x}) \cup {y}]
           /\ \/ /\ rows' = [rows EXCEPT ![d] = Rebuild(files'[d])]
                 /\ found' = found \cup {u.id : u \in files[d]}
              \/ /\ UNCHANGED rows
                 /\ found' = found \ {x.id}
<1>1. PICK x \in files[d], label \in Labels :
        /\ files' = [files EXCEPT ![d] = (@ \ {x}) \cup {[x EXCEPT !.label = label]}]
        /\ \/ /\ rows' = [rows EXCEPT ![d] = Rebuild(files'[d])]
              /\ found' = found \cup {u.id : u \in files[d]}
           \/ /\ UNCHANGED rows
              /\ found' = found \ {x.id}
  BY DEF Compact
<1> DEFINE y == [x EXCEPT !.label = label]
<1>2. x \in Record
  BY DEF FilesOK
<1>3. y \in Record /\ y.id = x.id /\ y.at = x.at /\ y.zone = x.zone
  BY <1>2 DEF Record
<1> QED BY <1>1, <1>3

\* What is in the files after each, and that an id is in one place.
LEMMA StoredIn ==
  /\ \A d \in Day : files[d] \subseteq Stored
  /\ \A x \in Stored : \E d \in Day : x \in files[d]
  BY DEF Stored

\* A step changes one day's file at most.
LEMMA OneFile ==
  ASSUME FilesOK, NEW d \in Day, NEW e \in Day, NEW x \in files[d], NEW y \in files[e], x.id = y.id
  PROVE  d = e /\ x = y
<1>1. x = y
  BY StoredIn DEF FilesOK
<1> QED BY <1>1 DEF FilesOK

\* The first state, without files.
LEMMA InitSearch == Init => SearchInv
<1> SUFFICES ASSUME Init PROVE SearchInv
  OBVIOUS
<1>1. Stored = {}
  BY DEF Init, Stored
<1>2. FilesOK
  BY <1>1, FS_EmptySet DEF Init, FilesOK
<1>3. RowsMade /\ RowsCover
  BY DEF Init, RowsMade, RowsCover
<1> QED BY <1>2, <1>3 DEF SearchInv

\* No step puts a record in a file of another day, or an id in two files.
LEMMA StepFiles ==
  ASSUME FilesOK, [Next]_vars
  PROVE  FilesOK'
<1>1. ASSUME NEW r \in RecId, Append(r) PROVE FilesOK'
  <2>1. PICK x \in Record, d \in Day :
          /\ x.id = r /\ DayOf(x.at, x.zone) = d
          /\ \A y \in Stored : y.id # r
          /\ files' = [files EXCEPT ![d] = @ \cup {x}]
          /\ found' \subseteq found \cup {r}
    BY <1>1, AppendStep
  <2>2. /\ files' \in [Day -> SUBSET Record] /\ files'[d] = files[d] \cup {x}
        /\ \A e \in Day \ {d} : files'[e] = files[e]
    BY <2>1 DEF FilesOK
  <2>3. Stored' = Stored \cup {x}
    BY <2>2 DEF Stored
  <2>4. IsFiniteSet(Stored')
    BY <2>3, FS_AddElement DEF FilesOK
  <2>5. \A e \in Day : \A y \in files'[e] : DayOf(y.at, y.zone) = e
    BY <2>1, <2>2 DEF FilesOK
  <2>6. \A y, z \in Stored' : y.id = z.id => y = z
    BY <2>1, <2>3 DEF FilesOK
  <2>7. found' \subseteq {y.id : y \in Stored'}
    BY <2>1, <2>3 DEF FilesOK
  <2> QED BY <2>2, <2>4, <2>5, <2>6, <2>7 DEF FilesOK
<1>2. ASSUME NEW d \in Day, Compact(d) PROVE FilesOK'
  <2>1. PICK x \in files[d], y \in Record :
          /\ y.id = x.id /\ y.at = x.at /\ y.zone = x.zone
          /\ files' = [files EXCEPT ![d] = (@ \ {x}) \cup {y}]
          /\ found' \subseteq found \cup {u.id : u \in files[d]}
    BY <1>2, CompactStep
  <2>2. /\ files' \in [Day -> SUBSET Record] /\ files'[d] = (files[d] \ {x}) \cup {y}
        /\ \A e \in Day \ {d} : files'[e] = files[e]
    BY <2>1 DEF FilesOK
  <2>3. \A e \in Day \ {d} : x \notin files[e]
    BY OneFile
  <2>4. Stored' = (Stored \ {x}) \cup {y}
    BY <2>2, <2>3 DEF Stored
  <2>5. IsFiniteSet(Stored')
    BY <2>4, FS_AddElement, FS_RemoveElement DEF FilesOK
  <2>6. \A e \in Day : \A u \in files'[e] : DayOf(u.at, u.zone) = e
    BY <2>1, <2>2 DEF FilesOK
  <2>7. x \in Stored
    BY StoredIn
  <2>8. \A u, v \in Stored' : u.id = v.id => u = v
    BY <2>1, <2>4, <2>7 DEF FilesOK
  <2>9. found' \subseteq {u.id : u \in Stored'}
    <3>1. {u.id : u \in files[d]} \subseteq {u.id : u \in Stored}
      BY StoredIn
    <3>2. {u.id : u \in Stored} \subseteq {u.id : u \in Stored'}
      BY <2>1, <2>4
    <3> QED BY <2>1, <3>1, <3>2 DEF FilesOK
  <2> QED BY <2>2, <2>5, <2>6, <2>8, <2>9 DEF FilesOK
<1>3. CASE UNCHANGED vars
  BY <1>3 DEF vars, FilesOK, Stored
<1> QED BY <1>1, <1>2, <1>3 DEF Next

\* No step leaves a row with bounds of no instant.
LEMMA StepMade ==
  ASSUME FilesOK, FilesOK', RowsMade, [Next]_vars
  PROVE  RowsMade'
<1>1. ASSUME NEW r \in RecId, Append(r) PROVE RowsMade'
  <2>1. PICK x \in Record, d \in Day :
          /\ files' = [files EXCEPT ![d] = @ \cup {x}]
          /\ rows' = [rows EXCEPT ![d] = Merge(rows[d], x)] \/ UNCHANGED rows
    BY <1>1, AppendStep
  <2>2. files'[d] = files[d] \cup {x} /\ \A e \in Day \ {d} : files'[e] = files[e]
    BY <2>1 DEF FilesOK
  <2>3. CASE UNCHANGED rows
    BY <2>2, <2>3 DEF RowsMade
  <2>4. CASE rows' = [rows EXCEPT ![d] = Merge(rows[d], x)]
    <3>1. Merge(rows[d], x) \in Row /\ \E u, v \in files'[d] : /\ Merge(rows[d], x).min = Normalize(u.at)
                                                              /\ Merge(rows[d], x).max = Normalize(v.at)
      <4>1. CASE rows[d] = None
        <5>1. Merge(rows[d], x) = RowFor(x)
          BY <4>1 DEF Merge
        <5>2. RowFor(x).min = Normalize(x.at) /\ RowFor(x).max = Normalize(x.at)
          BY DEF RowFor
        <5> QED BY <2>2, <5>1, <5>2, RowForCovers
      <4>2. CASE rows[d] # None
        <5>1. rows[d] \in Row /\ \E u, v \in files[d] : rows[d].min = Normalize(u.at) /\ rows[d].max = Normalize(v.at)
          BY <4>2 DEF RowsMade
        <5>2. /\ Merge(rows[d], x) \in Row
              /\ Merge(rows[d], x).min \in {rows[d].min, Normalize(x.at)}
              /\ Merge(rows[d], x).max \in {rows[d].max, Normalize(x.at)}
          BY <5>1, MergeCovers
        <5> QED BY <2>2, <5>1, <5>2
      <4> QED BY <4>1, <4>2
    <3> DEFINE merged == Merge(rows[d], x)
    <3> HIDE DEF merged
    <3>2. /\ rows' \in [Day -> Row \cup {None}] /\ rows'[d] = merged
          /\ \A e \in Day \ {d} : rows'[e] = rows[e]
      BY <2>4, <3>1 DEF RowsMade, merged
    <3>3. \E u, v \in files'[d] : rows'[d].min = Normalize(u.at) /\ rows'[d].max = Normalize(v.at)
      BY <3>1, <3>2 DEF merged
    <3> QED BY <2>2, <3>2, <3>3 DEF RowsMade
  <2> QED BY <2>1, <2>3, <2>4
<1>2. ASSUME NEW d \in Day, Compact(d) PROVE RowsMade'
  <2>1. PICK x \in files[d], y \in Record :
          /\ y.at = x.at
          /\ files' = [files EXCEPT ![d] = (@ \ {x}) \cup {y}]
          /\ rows' = [rows EXCEPT ![d] = Rebuild(files'[d])] \/ UNCHANGED rows
    BY <1>2, CompactStep
  <2>2. files'[d] = (files[d] \ {x}) \cup {y} /\ \A e \in Day \ {d} : files'[e] = files[e]
    BY <2>1 DEF FilesOK
  <2>3. CASE UNCHANGED rows
    <3>1. \A u \in files[d] : \E w \in files'[d] : w.at = u.at
      BY <2>1, <2>2
    <3>2. \A e \in Day : \A u \in files[e] : \E w \in files'[e] : w.at = u.at
      BY <2>2, <3>1
    <3>3. ASSUME NEW e \in Day, rows'[e] # None
          PROVE  \E u, v \in files'[e] : rows'[e].min = Normalize(u.at) /\ rows'[e].max = Normalize(v.at)
      <4>1. PICK u \in files[e], v \in files[e] : rows[e].min = Normalize(u.at) /\ rows[e].max = Normalize(v.at)
        BY <2>3, <3>3 DEF RowsMade
      <4>2. PICK t \in files'[e], w \in files'[e] : t.at = u.at /\ w.at = v.at
        BY <3>2
      <4> QED BY <2>3, <4>1, <4>2
    <3> QED BY <2>3, <3>3 DEF RowsMade
  <2>4. CASE rows' = [rows EXCEPT ![d] = Rebuild(files'[d])]
    <3> DEFINE rebuilt == Rebuild(files'[d])
    <3>1. files'[d] \in SUBSET Record /\ files'[d] # {}
      BY <2>2 DEF FilesOK
    <3>2. rebuilt \in Row /\ \E u, v \in files'[d] : rebuilt.min = Normalize(u.at) /\ rebuilt.max = Normalize(v.at)
      <4> DEFINE records == files'[d]
      <4> HIDE DEF records
      <4>1. records \in SUBSET Record /\ records # {}
        BY <3>1 DEF records
      <4>2. Rebuild(records) \in Row /\ \E u, v \in records : /\ Rebuild(records).min = Normalize(u.at)
                                                             /\ Rebuild(records).max = Normalize(v.at)
        BY <4>1, RebuildCovers
      <4> QED BY <4>2 DEF records
    <3> HIDE DEF rebuilt
    <3>3. /\ rows' \in [Day -> Row \cup {None}] /\ rows'[d] = rebuilt
          /\ \A e \in Day \ {d} : rows'[e] = rows[e]
      BY <2>4, <3>2 DEF RowsMade, rebuilt
    <3> QED BY <2>2, <3>2, <3>3 DEF RowsMade
  <2> QED BY <2>1, <2>3, <2>4
<1>3. CASE UNCHANGED vars
  BY <1>3 DEF vars, RowsMade
<1> QED BY <1>1, <1>2, <1>3 DEF Next

\* No step leaves a record that its file's row does not cover.
LEMMA StepCover ==
  ASSUME FilesOK, FilesOK', RowsMade, RowsCover, [Next]_vars
  PROVE  RowsCover'
<1> SUFFICES ASSUME NEW e \in Day, FixedWidth(e)', NEW u \in files'[e], u.id \in found'
             PROVE  rows'[e] # None /\ Covers(rows'[e], u)
  BY DEF RowsCover, Covers, TextOrder, Normalize
<1> DEFINE Goal == rows'[e] # None /\ Covers(rows'[e], u)
<1>1. ASSUME u \in files[e], u.id \in found, FixedWidth(e), rows'[e] = rows[e] PROVE Goal
  BY <1>1 DEF RowsCover
<1>2. ASSUME NEW r \in RecId, Append(r) PROVE Goal
  <2>1. PICK x \in Record, d \in Day :
          /\ x.id = r
          /\ \A y \in Stored : y.id # r
          /\ files' = [files EXCEPT ![d] = @ \cup {x}]
          /\ \/ /\ rows' = [rows EXCEPT ![d] = Merge(rows[d], x)]
                /\ found' = found \cup {r}
             \/ UNCHANGED <<rows, found>>
    BY <1>2, AppendStep
  <2>2. files'[d] = files[d] \cup {x} /\ \A f \in Day \ {d} : files'[f] = files[f]
    BY <2>1 DEF FilesOK
  <2>3. files[e] \subseteq files'[e]
    BY <2>2
  <2>4. FixedWidth(e)
    BY <2>3 DEF FixedWidth
  <2>5. CASE u \in files[e]
    <3>1. u.id \in found
      BY <2>1, <2>5, StoredIn
    <3>2. rows[e] # None /\ Covers(rows[e], u) /\ rows[e] \in Row /\ u \in Record
      BY <2>4, <2>5, <3>1 DEF RowsCover, RowsMade, FilesOK
    <3>3. CASE rows'[e] = rows[e]
      BY <3>2, <3>3
    <3>4. CASE e = d /\ rows' = [rows EXCEPT ![d] = Merge(rows[d], x)]
      <4>1. rows'[e] = Merge(rows[e], x)
        BY <3>4 DEF RowsMade
      <4>2. Merge(rows[e], x) \in Row /\ Covers(Merge(rows[e], x), u)
        BY <3>2, MergeCovers
      <4>3. Merge(rows[e], x) # None
        BY <4>2, NoneAssumption DEF Row
      <4> QED BY <4>1, <4>2, <4>3
    <3> QED BY <2>1, <3>3, <3>4 DEF RowsMade
  <2>6. CASE u \notin files[e]
    <3>1. e = d /\ u = x
      BY <2>2, <2>6
    <3>2. r \notin found
      BY <2>1 DEF FilesOK
    <3>3. rows'[e] = Merge(rows[d], x)
      BY <2>1, <3>1, <3>2 DEF RowsMade
    <3>4. Merge(rows[d], x) \in Row /\ Covers(Merge(rows[d], x), x)
      <4>1. CASE rows[d] = None
        BY <4>1, RowForCovers DEF Merge
      <4>2. CASE rows[d] # None
        BY <4>2, MergeCovers DEF RowsMade
      <4> QED BY <4>1, <4>2
    <3>5. Merge(rows[d], x) # None
      BY <3>4, NoneAssumption DEF Row
    <3> QED BY <3>1, <3>3, <3>4, <3>5
  <2> QED BY <2>5, <2>6
<1>3. ASSUME NEW d \in Day, Compact(d) PROVE Goal
  <2>1. PICK x \in files[d], y \in Record :
          /\ y.id = x.id /\ y.at = x.at
          /\ files' = [files EXCEPT ![d] = (@ \ {x}) \cup {y}]
          /\ \/ /\ rows' = [rows EXCEPT ![d] = Rebuild(files'[d])]
                /\ found' = found \cup {w.id : w \in files[d]}
             \/ /\ UNCHANGED rows
                /\ found' = found \ {x.id}
    BY <1>3, CompactStep
  <2>2. files'[d] = (files[d] \ {x}) \cup {y} /\ \A f \in Day \ {d} : files'[f] = files[f]
    BY <2>1 DEF FilesOK
  <2>3. FixedWidth(e)
    BY <2>1, <2>2 DEF FixedWidth
  <2>4. CASE rows' = [rows EXCEPT ![d] = Rebuild(files'[d])] /\ e = d
    <3> DEFINE records == files'[d]
    <3> HIDE DEF records
    <3>1. records \in SUBSET Record /\ records # {} /\ u \in records
      BY <2>2, <2>4 DEF FilesOK, records
    <3>2. \A w \in records : w.at < EndOfText
      BY <2>4 DEF FixedWidth, records
    <3>3. Rebuild(records) \in Row /\ Covers(Rebuild(records), u)
      BY <3>1, <3>2, RebuildCovers
    <3>4. rows'[e] = Rebuild(records)
      BY <2>4 DEF RowsMade, records
    <3>5. Rebuild(records) # None
      BY <3>3, NoneAssumption DEF Row
    <3> QED BY <3>3, <3>4, <3>5
  <2>5. CASE e # d
    <3>1. u \in files[e] /\ rows'[e] = rows[e]
      BY <2>1, <2>2, <2>5 DEF RowsMade
    <3>2. \A w \in files[d] : w.id # u.id
      BY <2>5, <3>1, OneFile
    <3>3. u.id \in found
      BY <2>1, <3>2
    <3> QED BY <1>1, <2>3, <3>1, <3>3
  <2>6. CASE UNCHANGED rows /\ found' = found \ {x.id} /\ e = d
    <3>1. u \in files[e]
      BY <2>1, <2>2, <2>6
    <3> QED BY <1>1, <2>3, <2>6, <3>1
  <2> QED BY <2>1, <2>4, <2>5, <2>6
<1>4. CASE UNCHANGED vars
  <2>1. FixedWidth(e)
    BY <1>4 DEF vars, FixedWidth
  <2> QED BY <1>1, <1>4, <2>1 DEF vars
<1> QED BY <1>2, <1>3, <1>4 DEF Next

-----------------------------------------------------------------------------
\* What queries find.

\* A record that matches, in a file its row covers, has its file selected.
LEMMA CoveredIsSelected ==
  ASSUME NEW q \in PlainQuery, NEW x \in Record, x.at < EndOfText,
         NEW row \in Row, Covers(row, x), Matches(q, x)
  PROVE  Selects(q, row)
<1>1. row # None
  BY NoneAssumption DEF Row
<1>2. /\ q.from # None => q.from \in Instant /\ q.from < EndOfText
      /\ q.to # None => q.to \in Instant /\ q.to < EndOfText
  BY DEF PlainQuery, Query
<1>3. x.at \in Int /\ TextOrder(Normalize(x.at)) = Normalize(x.at) /\ Normalize(x.at) \in Int
  BY LabelType, PlainText, NormalizeBounds
<1>4. TextOrder(row.min) \in Int /\ TextOrder(row.max) \in Int
  BY TextOrderType DEF Row
<1>5. q.from # None => TextOrder(row.max) >= Bound(q.from)
  <2> SUFFICES ASSUME q.from # None PROVE TextOrder(row.max) >= Bound(q.from)
    OBVIOUS
  <2>1. q.from \in Int /\ q.from < EndOfText /\ q.from <= x.at
    BY <1>2, InstantIsInt DEF Matches
  <2>2. Normalize(q.from) <= Normalize(x.at) /\ Bound(q.from) = Normalize(q.from) /\ Normalize(q.from) \in Int
    BY <1>3, <2>1, NormalizeMonotone, PlainText, NormalizeBounds DEF Bound
  <2> QED BY <1>3, <1>4, <2>2 DEF Covers
<1>6. q.to # None => TextOrder(row.min) <= Bound(q.to)
  <2> SUFFICES ASSUME q.to # None PROVE TextOrder(row.min) <= Bound(q.to)
    OBVIOUS
  <2>1. q.to \in Int /\ q.to < EndOfText /\ x.at <= q.to
    BY <1>2, InstantIsInt DEF Matches
  <2>2. Normalize(x.at) <= Normalize(q.to) /\ Bound(q.to) = Normalize(q.to) /\ Normalize(q.to) \in Int
    BY <1>3, <2>1, NormalizeMonotone, PlainText, NormalizeBounds DEF Bound
  <2> QED BY <1>3, <1>4, <2>2 DEF Covers
<1>7. AnyOf(q.tags, row.tags) /\ AnyOf(q.types, row.types)
  BY DEF Covers, Matches, AnyOf
<1> QED BY <1>1, <1>5, <1>6, <1>7 DEF Selects

\* A row that covers its file is selected by every query that the file answers.
LEMMA MissesNothing == SearchInv => SelectionMissesNothing
<1> SUFFICES ASSUME SearchInv, NEW d \in Day, NEW x \in files[d], x.id \in found, FixedWidth(d),
                    NEW q \in PlainQuery, Matches(q, x)
             PROVE  Selects(q, rows[d])
  BY DEF SelectionMissesNothing
<1>1. x \in Record /\ x.at < EndOfText
  BY DEF SearchInv, FilesOK, FixedWidth
<1>2. rows[d] \in Row /\ Covers(rows[d], x)
  BY DEF SearchInv, RowsMade, RowsCover
<1> QED BY <1>1, <1>2, CoveredIsSelected

\* Times of rows and of records, in files and for queries of four digits.
LEMMA RowTimes ==
  ASSUME SearchInv, NEW d \in Day, rows[d] # None, FixedWidth(d)
  PROVE  \E u, v \in files[d] :
           /\ rows[d].min = Normalize(u.at) /\ rows[d].max = Normalize(v.at)
           /\ u.at \in Instant /\ v.at \in Instant /\ v.zone \in Zone
           /\ DayOf(v.at, v.zone) = d
           /\ rows[d].min < EndOfText /\ rows[d].max < EndOfText
           /\ TextOrder(rows[d].max) = Normalize(v.at)
<1>1. PICK u \in files[d], v \in files[d] : rows[d].min = Normalize(u.at) /\ rows[d].max = Normalize(v.at)
  BY DEF SearchInv, RowsMade
<1>2. /\ u \in Record /\ v \in Record /\ DayOf(v.at, v.zone) = d
      /\ u.at < EndOfText /\ v.at < EndOfText
  BY DEF SearchInv, FilesOK, FixedWidth
<1>3. /\ u.at \in Instant /\ v.at \in Instant /\ v.zone \in Zone
      /\ u.at \in Int /\ v.at \in Int
  BY <1>2, LabelType
<1>4. /\ Normalize(u.at) < EndOfText /\ Normalize(v.at) < EndOfText
      /\ TextOrder(Normalize(v.at)) = Normalize(v.at)
  BY <1>2, <1>3, PlainText
<1> QED BY <1>1, <1>2, <1>3, <1>4

\* A record of a file that was not read is not newer than one of a file that
\* was, if the clocks of both are in one zone.
LEMMA UnreadIsOlder ==
  ASSUME SearchInv, OneZone, NEW d \in Day, NEW e \in Day, d # e, FixedWidth(d), FixedWidth(e),
         rows[d] # None, rows[e] # None, Before(e, d),
         NEW x \in files[d], NEW y \in files[e]
  PROVE  x.at <= y.at
<1>1. PICK v \in files[d] : /\ v.at \in Instant /\ v.zone \in Zone /\ DayOf(v.at, v.zone) = d
                            /\ TextOrder(rows[d].max) = Normalize(v.at)
  BY RowTimes
<1>2. PICK w \in files[e] : /\ w.at \in Instant /\ w.zone \in Zone /\ DayOf(w.at, w.zone) = e
                            /\ TextOrder(rows[e].max) = Normalize(w.at)
  BY RowTimes
<1>3. Normalize(v.at) <= Normalize(w.at)
  <2>1. TextOrder(rows[e].max) >= TextOrder(rows[d].max)
    BY DEF Before
  <2>2. Normalize(v.at) \in Int /\ Normalize(w.at) \in Int
    BY <1>1, <1>2, InstantIsInt, NormalizeBounds
  <2> QED BY <1>1, <1>2, <2>1, <2>2
<1>4. w.zone = v.zone /\ x.zone = v.zone /\ y.zone = v.zone
  BY StoredIn DEF OneZone
<1>5. d <= e
  BY <1>1, <1>2, <1>3, <1>4, LaterDay
<1>6. DayOf(x.at, v.zone) = d /\ DayOf(y.at, v.zone) = e /\ x \in Record /\ y \in Record
  BY <1>4 DEF SearchInv, FilesOK
<1>7. x.at \in Instant /\ y.at \in Instant /\ x.at \in Int /\ y.at \in Int
  BY <1>6, LabelType
<1>8. CASE y.at < x.at
  <2>1. Normalize(y.at) <= Normalize(x.at)
    BY <1>7, <1>8, NormalizeMonotone
  <2>2. e <= d
    BY <1>1, <1>6, <1>7, <2>1, LaterDay
  <2>3. d \in Int /\ e \in Int
    BY <1>1, <1>2, InstantIsInt, InstantType DEF DayOf
  <2> QED BY <1>5, <2>2, <2>3
<1> QED BY <1>7, <1>8

\* An answer that leaves out a record that matches has as many as the limit lets it.
LEMMA CutIsFull ==
  ASSUME SearchInv, NEW q, NEW D \in SUBSET Day, NEW A \in Answers(q, D),
         NEW x \in Matching(q, D), x \notin A
  PROVE  Cardinality(A) = Limit /\ \A y \in A : x.at <= y.at
<1> DEFINE matching == Matching(q, D)
<1>1. A \subseteq matching /\ Cardinality(A) = Smaller(Limit, Cardinality(matching))
  BY DEF Answers
<1>2. matching \subseteq Stored
  BY StoredIn DEF Matching
<1>3. IsFiniteSet(matching)
  BY <1>2, FS_Subset DEF SearchInv, FilesOK
<1>4. Cardinality(A) # Cardinality(matching)
  BY <1>1, <1>3, FS_Subset
<1>5. \A y \in A : x.at <= y.at
  BY DEF Answers
<1> QED BY <1>1, <1>4, <1>5 DEF Smaller

\* What the limits leave is newer than what they drop.
LEMMA NewestFirst == SearchInv => AnswerIsNewest
<1> SUFFICES ASSUME SearchInv, \A d \in Day : FixedWidth(d), NEW q \in PlainQuery, NEW D \in Kept(q)
             PROVE  /\ ~ Fails(D)
                    /\ \A A \in Answers(q, D) : \A x \in Stored \ A :
                         x.id \in found /\ Matches(q, x) =>
                           /\ OneZone \/ Selected(q) = D => \A y \in A : x.at <= y.at
                           /\ Selected(q) = D => Cardinality(A) = Limit
  BY DEF AnswerIsNewest
<1>1. /\ D \subseteq Selected(q)
      /\ \A d \in D, e \in Selected(q) \ D : Before(d, e)
  BY DEF Kept
<1>2. D \subseteq Day /\ \A d \in Selected(q) : d \in Day /\ rows[d] # None
  BY <1>1 DEF Selected, Selects
<1>3. ~ Fails(D)
  <2> SUFFICES ASSUME NEW d \in D, ~ Parses(rows[d].min) \/ ~ Parses(rows[d].max) PROVE FALSE
    BY DEF Fails
  <2>1. d \in Day /\ rows[d] # None
    BY <1>1, <1>2
  <2>2. rows[d].min < EndOfText /\ rows[d].max < EndOfText
    BY <2>1, RowTimes
  <2> QED BY <2>2 DEF Parses
<1>4. ASSUME NEW A \in Answers(q, D), NEW x \in Stored \ A, x.id \in found, Matches(q, x)
      PROVE  /\ OneZone \/ Selected(q) = D => \A y \in A : x.at <= y.at
             /\ Selected(q) = D => Cardinality(A) = Limit
  <2>1. PICK d \in Day : x \in files[d]
    BY StoredIn
  <2>2. d \in Selected(q)
    BY <1>4, <2>1, MissesNothing DEF SelectionMissesNothing, Selected
  <2>3. CASE d \in D
    <3>1. x \in Matching(q, D)
      BY <1>4, <2>1, <2>3 DEF Matching
    <3> QED BY <1>2, <3>1, CutIsFull
  <2>4. CASE d \notin D
    <3> SUFFICES ASSUME OneZone, NEW y \in A PROVE x.at <= y.at
      BY <2>2, <2>4
    <3>1. y \in Matching(q, D)
      BY DEF Answers
    <3>2. PICK e \in D : y \in files[e]
      BY <3>1 DEF Matching
    <3>3. e \in Day /\ rows[e] # None /\ rows[d] # None /\ d # e /\ Before(e, d)
      BY <1>1, <1>2, <2>2, <2>4
    <3> QED BY <2>1, <3>2, <3>3, UnreadIsOlder
  <2> QED BY <2>3, <2>4
<1> QED BY <1>3, <1>4

-----------------------------------------------------------------------------
\* The theorems.

\* The inductive invariant holds in every behaviour.
THEOREM SearchAlways == Spec => []SearchInv
<1>1. SearchInv /\ [Next]_vars => SearchInv'
  BY StepFiles, StepMade, StepCover DEF SearchInv
<1> QED BY <1>1, InitSearch, PTL DEF Spec

\* Files hold records of their day, one for each id, and rows hold milliseconds
\* (partition.go PartitionFromTime, index.go normalize).
THEOREM SearchTypes == Spec => []TypeOK
<1>1. SearchInv => TypeOK
  <2> SUFFICES ASSUME SearchInv PROVE TypeOK
    OBVIOUS
  <2>1. ASSUME NEW d \in Day, rows[d] # None
        PROVE  rows[d].min % MilliTicks = 0 /\ rows[d].max % MilliTicks = 0
    <3>1. PICK u \in files[d], v \in files[d] : rows[d].min = Normalize(u.at) /\ rows[d].max = Normalize(v.at)
      BY <2>1 DEF SearchInv, RowsMade
    <3>2. u \in Record /\ v \in Record
      BY DEF SearchInv, FilesOK
    <3>3. u.at \in Int /\ v.at \in Int
      BY <3>2, LabelType
    <3> QED BY <3>1, <3>3, NormalizeBounds
  <2> QED BY <2>1 DEF SearchInv, FilesOK, TypeOK
<1> QED BY <1>1, SearchAlways, PTL

\* The file of an indexed record is selected by every query the record matches,
\* whatever the precision of times and bounds and the zones of the records, as
\* long as no year takes five digits (index.go Search, Insert, RebuildPartition).
THEOREM SelectionIsComplete == Spec => []SelectionMissesNothing
  BY SearchAlways, MissesNothing, PTL

\* An answer consists of the newest of the indexed records that match, if they
\* were written in one zone or all selected files were read, for every limit on
\* files and on records (search.go; index.go Search).
THEOREM AnswersAreNewest == Spec => []AnswerIsNewest
  BY SearchAlways, NewestFirst, PTL
=============================================================================

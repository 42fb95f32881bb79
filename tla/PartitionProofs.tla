---------------------------- MODULE PartitionProofs ----------------------------
(***************************************************************************)
(* Substitutions, locks and types of a partition, for any number of        *)
(* workers, records, candidates, requests, failures and crashes.           *)
(*                                                                         *)
(* First the pure part, what a substitution makes of any partition, any    *)
(* batch and any copies inside its candidates: records again, with the     *)
(* line of every record still there.                                       *)
(*                                                                         *)
(* Then the locks: every handler holds exactly the locks its step calls    *)
(* for, on every path.  The proof sees of a step only where it takes a     *)
(* worker and which locks it takes or drops, so it has one lemma for each  *)
(* kind of step and cites it for every action of that kind.                *)
(*                                                                         *)
(* Then the types.  That a step stays within them rests on what earlier    *)
(* steps left behind: a candidate file names candidates that exist, a      *)
(* handler past its read carries a record, and only the compaction that    *)
(* wrote a temporary renames it, which is where the locks come in.         *)
(***************************************************************************)
EXTENDS Partition, FiniteSetTheorems, WellFoundedInduction, TLAPS

\* The records over record ids R and candidate ids C.
RecordsOver(R, C) == [id : R, rev : Nat, by : Seq(C)]

\* A finite set has an enumeration, so SetToSeq chooses one.
LEMMA SetToSeqType ==
  ASSUME NEW S, IsFiniteSet(S)
  PROVE  /\ SetToSeq(S) \in [1..Cardinality(S) -> S]
         /\ Cardinality(S) \in Nat
         /\ SetToSeq(S) \in Seq(S)
<1>1. Cardinality(S) \in Nat /\ ExistsBijection(1..Cardinality(S), S)
  BY FS_CardinalityType
<1>2. \E f \in [1..Cardinality(S) -> S] : IsInjective(f)
  BY <1>1 DEF ExistsBijection, Bijection, Injection
<1>3. SetToSeq(S) \in [1..Cardinality(S) -> S]
  BY <1>2 DEF SetToSeq
<1> QED BY <1>1, <1>3

\* A function on an initial segment of the naturals is a sequence.
LEMMA SegmentIsSeq ==
  ASSUME NEW n \in Nat, NEW T, NEW f \in [1..n -> T]
  PROVE  f \in Seq(T)
  OBVIOUS

\* A replacement is a record, at a positive revision.
LEMMA ReplacementType ==
  ASSUME NEW R, NEW C, NEW copy \in RecordsOver(R, C), NEW revision \in Nat, NEW c \in C
  PROVE  Replacement(copy, revision, c) \in RecordsOver(R, C)
  BY DEF Replacement, NextRevision, NormalizedRevision, RecordsOver

\* The candidate looked up for a target is one of the batch, for that record.
LEMMA CandidateForTarget ==
  ASSUME NEW batch, NEW bases, NEW id \in Targets(batch, bases)
  PROVE  /\ CandidateFor(id, batch, bases) \in batch
         /\ bases[CandidateFor(id, batch, bases)].id = id
  BY DEF Targets, CandidateFor

\* A rewritten record is a record.
LEMMA RewrittenType ==
  ASSUME NEW R, NEW C, NEW records \in Seq(RecordsOver(R, C)), NEW batch \in SUBSET C,
         NEW bases, \A c \in batch : bases[c] \in RecordsOver(R, C)
  PROVE  /\ Rewritten(records, batch, bases) \in Seq(RecordsOver(R, C))
         /\ Len(Rewritten(records, batch, bases)) = Len(records)
         /\ \A k \in DOMAIN records : Rewritten(records, batch, bases)[k].id = records[k].id
<1> DEFINE line(k) == Rewritten(records, batch, bases)[k]
<1>1. ASSUME NEW k \in DOMAIN records
      PROVE  line(k) \in RecordsOver(R, C) /\ line(k).id = records[k].id
  <2>1. records[k] \in RecordsOver(R, C)
    OBVIOUS
  <2>2. CASE records[k].id \in Targets(batch, bases)
    <3> DEFINE c == CandidateFor(records[k].id, batch, bases)
    <3>1. c \in batch /\ bases[c].id = records[k].id
      BY <2>2, CandidateForTarget
    <3>2. bases[c] \in RecordsOver(R, C) /\ records[k].rev \in Nat /\ c \in C
      BY <2>1, <3>1 DEF RecordsOver
    <3>3. Replacement(bases[c], records[k].rev, c) \in RecordsOver(R, C)
      BY <3>2, ReplacementType
    <3>4. Replacement(bases[c], records[k].rev, c).id = records[k].id
      BY <3>1 DEF Replacement
    <3>5. line(k) = ApplyCandidate(records[k], bases[c], c)
      BY <2>2 DEF Rewritten
    <3> QED BY <2>1, <3>3, <3>4, <3>5 DEF ApplyCandidate
  <2>3. CASE records[k].id \notin Targets(batch, bases)
    BY <2>1, <2>3 DEF Rewritten
  <2> QED BY <2>2, <2>3
<1>2. Rewritten(records, batch, bases) \in [1..Len(records) -> RecordsOver(R, C)]
  BY <1>1 DEF Rewritten
<1> QED BY <1>1, <1>2

\* A copy without a line is one that is appended.
LEMMA UnmatchedType ==
  ASSUME NEW R, NEW C, IsFiniteSet(R), NEW records, NEW batch \in SUBSET C,
         NEW bases, \A c \in batch : bases[c] \in RecordsOver(R, C)
  PROVE  Unmatched(records, batch, bases) \in Seq(RecordsOver(R, C))
<1> DEFINE rest == Targets(batch, bases) \ Ids(records)
           missing == SetToSeq(rest)
           line(k) == Replacement(bases[CandidateFor(missing[k], batch, bases)],
                                  bases[CandidateFor(missing[k], batch, bases)].rev,
                                  CandidateFor(missing[k], batch, bases))
<1>1. rest \in SUBSET R
  BY DEF Targets, RecordsOver
<1>2. IsFiniteSet(rest)
  BY <1>1, FS_Subset
<1>3. missing \in [1..Cardinality(rest) -> rest] /\ Cardinality(rest) \in Nat
  BY <1>2, SetToSeqType
<1>4. ASSUME NEW k \in 1..Cardinality(rest) PROVE line(k) \in RecordsOver(R, C)
  <2> DEFINE c == CandidateFor(missing[k], batch, bases)
  <2>1. missing[k] \in Targets(batch, bases)
    BY <1>3
  <2>2. c \in batch
    BY <2>1, CandidateForTarget
  <2>3. bases[c] \in RecordsOver(R, C) /\ bases[c].rev \in Nat /\ c \in C
    BY <2>2 DEF RecordsOver
  <2> QED BY <2>3, ReplacementType
<1>5. Unmatched(records, batch, bases) = [k \in 1..Cardinality(rest) |-> line(k)]
  BY <1>3 DEF Unmatched
<1>6. [k \in 1..Cardinality(rest) |-> line(k)] \in [1..Cardinality(rest) -> RecordsOver(R, C)]
  BY <1>4
<1>7. Cardinality(rest) \in Nat
  BY <1>3
<1> HIDE DEF rest, missing, line
<1> QED BY <1>5, <1>6, <1>7, SegmentIsSeq

\* A compaction writes records, one for each line it read and some more at the
\* end: whatever the batch and however stale, no record loses its line
\* (compact.go, applySubstitutions).
THEOREM SubstitutionKeepsRecords ==
  ASSUME NEW R, NEW C, IsFiniteSet(R), NEW records \in Seq(RecordsOver(R, C)),
         NEW batch \in SUBSET C,
         NEW bases, \A c \in batch : bases[c] \in RecordsOver(R, C)
  PROVE  /\ ApplySubstitutions(records, batch, bases) \in Seq(RecordsOver(R, C))
         /\ Ids(records) \subseteq Ids(ApplySubstitutions(records, batch, bases))
<1> DEFINE old == Rewritten(records, batch, bases)
           new == Unmatched(records, batch, bases)
<1>1. old \in Seq(RecordsOver(R, C)) /\ Len(old) = Len(records)
      /\ \A k \in DOMAIN records : old[k].id = records[k].id
  BY RewrittenType
<1>2. new \in Seq(RecordsOver(R, C))
  BY UnmatchedType
<1>3. old \o new \in Seq(RecordsOver(R, C)) /\ Len(old \o new) = Len(old) + Len(new)
      /\ \A k \in 1..Len(old) : (old \o new)[k] = old[k]
  BY <1>1, <1>2
<1>4. ASSUME NEW k \in DOMAIN records
      PROVE  k \in DOMAIN (old \o new) /\ (old \o new)[k].id = records[k].id
  BY <1>1, <1>2, <1>3
<1> QED BY <1>3, <1>4 DEF ApplySubstitutions, Ids

\* The number the audit reports is a natural number.
LEMMA AppliedCountType ==
  ASSUME NEW R, NEW C, IsFiniteSet(R), NEW records \in Seq(RecordsOver(R, C)),
         NEW batch \in SUBSET C,
         NEW bases, \A c \in batch : bases[c] \in RecordsOver(R, C)
  PROVE  AppliedCount(records, batch, bases) \in Nat
<1> DEFINE hits == {k \in DOMAIN records :
                     /\ records[k].id \in Targets(batch, bases)
                     /\ SameRevision(records[k], bases[CandidateFor(records[k].id, batch, bases)])}
<1>1. IsFiniteSet(DOMAIN records)
  <2>1. DOMAIN records = 1..Len(records) /\ Len(records) \in Nat
    OBVIOUS
  <2> QED BY <2>1, FS_Interval
<1>2. Cardinality(hits) \in Nat
  <2>1. hits \in SUBSET DOMAIN records
    OBVIOUS
  <2> QED BY <1>1, <2>1, FS_Subset, FS_CardinalityType
<1>3. Cardinality(Targets(batch, bases) \ Ids(records)) \in Nat
  <2>1. Targets(batch, bases) \ Ids(records) \in SUBSET R
    BY DEF Targets, RecordsOver
  <2> QED BY <2>1, FS_Subset, FS_CardinalityType
<1> QED BY <1>2, <1>3 DEF AppliedCount
-----------------------------------------------------------------------------
\* Revisions and versions.  The revision of a record counts its replacements,

Counted(record) == NormalizedRevision(record.rev) = 1 + Len(record.by)

\* and "old" is a version that the record of this line has or had.
VersionOf(old, line) ==
  /\ old.id = line.id
  /\ Len(old.by) <= Len(line.by)
  /\ \A i \in 1..Len(old.by) : old.by[i] = line.by[i]

\* The line that a record had becomes this one: nothing happens to it, or one
\* candidate of the batch, made from that very version, replaces it.
GrowsBy(line, next, batch, bases) ==
  \/ next = line
  \/ \E c \in batch :
       /\ bases[c].id = line.id
       /\ bases[c].by = line.by
       /\ next.id = line.id
       /\ next.by = Append(line.by, c)

\* Comparing revisions is comparing versions.
LEMMA SameRevisionSameVersion ==
  ASSUME NEW R, NEW C, NEW copy \in RecordsOver(R, C), NEW line \in RecordsOver(R, C),
         Counted(copy), Counted(line), VersionOf(copy, line)
  PROVE  SameRevision(line, copy) <=> copy.by = line.by
<1>1. copy.by \in Seq(C) /\ line.by \in Seq(C)
  BY DEF RecordsOver
<1>2. SameRevision(line, copy) <=> Len(copy.by) = Len(line.by)
  <2>1. Len(copy.by) \in Nat /\ Len(line.by) \in Nat
    BY <1>1
  <2> QED BY <2>1 DEF SameRevision, Counted
<1>3. Len(copy.by) = Len(line.by) => copy.by = line.by
  BY <1>1 DEF VersionOf
<1> QED BY <1>2, <1>3

\* The replacement of a counted line is counted.
LEMMA ReplacementCounted ==
  ASSUME NEW R, NEW C, NEW copy \in RecordsOver(R, C), NEW line \in RecordsOver(R, C),
         NEW c \in C, Counted(line), copy.by = line.by
  PROVE  Counted(Replacement(copy, line.rev, c))
<1> DEFINE by == line.by
<1>1. by \in Seq(C) /\ Len(by) \in Nat /\ Len(Append(by, c)) = Len(by) + 1
  BY DEF RecordsOver
<1>2. NormalizedRevision(line.rev) = 1 + Len(by)
  BY DEF Counted
<1>3. NextRevision(line.rev) = 2 + Len(by)
  BY <1>1, <1>2 DEF NextRevision
<1>4. NormalizedRevision(NextRevision(line.rev)) = 2 + Len(by)
  BY <1>1, <1>3 DEF NormalizedRevision
<1> QED BY <1>1, <1>4 DEF Counted, Replacement

\* One line and a candidate made from a version that its record has or had.
LEMMA LineGrows ==
  ASSUME NEW R, NEW C, NEW line \in RecordsOver(R, C), NEW copy \in RecordsOver(R, C),
         NEW c \in C, Counted(line), Counted(copy), VersionOf(copy, line),
         NEW next, next = ApplyCandidate(line, copy, c)
  PROVE  /\ Counted(next)
         /\ copy.by # line.by => next = line
         /\ copy.by = line.by => next.id = line.id /\ next.by = Append(line.by, c)
<1>1. SameRevision(line, copy) <=> copy.by = line.by
  BY SameRevisionSameVersion
<1>2. CASE copy.by = line.by
  <2>1. next = Replacement(copy, line.rev, c)
    BY <1>1, <1>2 DEF ApplyCandidate
  <2>2. Counted(Replacement(copy, line.rev, c))
    BY <1>2, ReplacementCounted
  <2> QED BY <1>2, <2>1, <2>2 DEF VersionOf, Replacement
<1>3. CASE copy.by # line.by
  BY <1>1, <1>3 DEF ApplyCandidate
<1> QED BY <1>2, <1>3

\* A set is enumerated once and entirely.
LEMMA SetToSeqEnumerates ==
  ASSUME NEW S, IsFiniteSet(S)
  PROVE  /\ \A j, k \in 1..Cardinality(S) : SetToSeq(S)[j] = SetToSeq(S)[k] => j = k
         /\ \A x \in S : \E k \in 1..Cardinality(S) : SetToSeq(S)[k] = x
<1>1. Cardinality(S) \in Nat /\ ExistsBijection(1..Cardinality(S), S)
  BY FS_CardinalityType
<1>2. \E f \in [1..Cardinality(S) -> S] : IsInjective(f)
  BY <1>1 DEF ExistsBijection, Bijection, Injection
<1>3. SetToSeq(S) \in [1..Cardinality(S) -> S] /\ IsInjective(SetToSeq(S))
  BY <1>2 DEF SetToSeq
<1>4. SetToSeq(S) \in Injection(1..Cardinality(S), S)
  BY <1>3 DEF Injection
<1>5. IsFiniteSet(1..Cardinality(S)) /\ Cardinality(1..Cardinality(S)) = Cardinality(S)
  BY <1>1, FS_Interval
<1>6. SetToSeq(S) \in Surjection(1..Cardinality(S), S)
  BY <1>4, <1>5, FS_Injection
<1> QED BY <1>3, <1>6 DEF IsInjective, Surjection

\* A copy of a record, in a candidate: of a version that the line of the record
\* has or had or, where the line was lost, of one without replacements.
Descends(copy, records) ==
  \/ \E k \in DOMAIN records : VersionOf(copy, records[k])
  \/ copy.by = <<>> /\ copy.id \notin Ids(records)

\* A partition in which revisions count replacements, and candidates made from
\* versions that its records have or had.
Versioned(R, C, records, batch, bases) ==
  /\ IsFiniteSet(R)
  /\ records \in Seq(RecordsOver(R, C)) /\ batch \subseteq C
  /\ \A c \in batch : bases[c] \in RecordsOver(R, C)
  /\ \A j, k \in DOMAIN records : records[j].id = records[k].id => j = k
  /\ \A k \in DOMAIN records : Counted(records[k])
  /\ \A c \in batch : Counted(bases[c]) /\ Descends(bases[c], records)

\* What is appended for candidates without a line: one line for each record.
LEMMA UnmatchedLines ==
  ASSUME NEW R, NEW C, NEW records, NEW batch, NEW bases,
         Versioned(R, C, records, batch, bases),
         NEW new, new = Unmatched(records, batch, bases)
  PROVE  /\ \A k \in DOMAIN new : \E c \in batch :
              /\ bases[c].id \notin Ids(records)
              /\ new[k].id = bases[c].id /\ new[k].by = <<c>> /\ Counted(new[k])
         /\ \A j, k \in DOMAIN new : new[j].id = new[k].id => j = k
         /\ \A c \in batch : bases[c].id \notin Ids(records) =>
              \E k \in DOMAIN new : new[k].id = bases[c].id
<1> DEFINE rest == Targets(batch, bases) \ Ids(records)
           missing == SetToSeq(rest)
           n == Cardinality(rest)
<1>0. /\ IsFiniteSet(R) /\ batch \in SUBSET C
      /\ \A c \in batch : bases[c] \in RecordsOver(R, C) /\ Counted(bases[c])
      /\ \A c \in batch : bases[c].id \notin Ids(records) => bases[c].by = <<>>
  BY DEF Versioned, Descends, VersionOf, Ids
<1>1. rest \in SUBSET R
  BY <1>0 DEF Targets, RecordsOver
<1>2. IsFiniteSet(rest)
  BY <1>0, <1>1, FS_Subset
<1>3. /\ missing \in [1..n -> rest]
      /\ \A j, k \in 1..n : missing[j] = missing[k] => j = k
      /\ \A x \in rest : \E k \in 1..n : missing[k] = x
  BY <1>2, SetToSeqType, SetToSeqEnumerates
<1>4. DOMAIN new = 1..n
  BY <1>3 DEF Unmatched
<1>5. ASSUME NEW k \in 1..n
      PROVE  \E c \in batch : /\ bases[c].id \notin Ids(records) /\ bases[c].id = missing[k]
                              /\ new[k].id = missing[k] /\ new[k].by = <<c>> /\ Counted(new[k])
  <2> DEFINE c == CandidateFor(missing[k], batch, bases)
  <2>1. missing[k] \in Targets(batch, bases) /\ missing[k] \notin Ids(records)
    BY <1>3
  <2>2. c \in batch /\ bases[c].id = missing[k]
    BY <2>1, CandidateForTarget
  <2>3. new[k] = Replacement(bases[c], bases[c].rev, c)
    BY <1>3 DEF Unmatched
  <2>4. bases[c] \in RecordsOver(R, C) /\ Counted(bases[c]) /\ bases[c].by = <<>> /\ c \in C
    BY <1>0, <2>1, <2>2
  <2> HIDE DEF c
  <2>5. Counted(new[k])
    BY <2>3, <2>4, ReplacementCounted
  <2> QED BY <2>1, <2>2, <2>3, <2>4, <2>5 DEF Replacement
<1>6. ASSUME NEW c \in batch, bases[c].id \notin Ids(records)
      PROVE  bases[c].id \in rest
  BY <1>6 DEF Targets
<1> HIDE DEF rest, missing, n
<1>7. ASSUME NEW j \in 1..n, NEW k \in 1..n, new[j].id = new[k].id
      PROVE  j = k
  <2>1. new[j].id = missing[j] /\ new[k].id = missing[k]
    BY <1>5
  <2> QED BY <1>3, <1>7, <2>1
<1>8. ASSUME NEW c \in batch, bases[c].id \notin Ids(records)
      PROVE  \E k \in 1..n : new[k].id = bases[c].id
  <2>1. PICK k \in 1..n : missing[k] = bases[c].id
    BY <1>3, <1>6, <1>8
  <2>2. new[k].id = missing[k]
    BY <1>5
  <2> QED BY <2>1, <2>2
<1> QED BY <1>4, <1>5, <1>7, <1>8

\* What a compaction makes of those: the same records, line by line, each as it
\* was or replaced by a candidate that was made from its present version, at a
\* revision that counts the replacement; a candidate made from the present
\* version, and alone for its record, takes effect.  What is appended is one line
\* for each record that has lost its own, none if every candidate has a line
\* (compact.go, applySubstitutions).
THEOREM SubstitutionBuildsOnVersions ==
  ASSUME NEW R, NEW C, NEW records, NEW batch, NEW bases,
         Versioned(R, C, records, batch, bases),
         NEW next, next = ApplySubstitutions(records, batch, bases)
  PROVE  /\ DOMAIN records \subseteq DOMAIN next
         /\ \A k \in DOMAIN records :
              /\ next[k].id = records[k].id
              /\ Counted(next[k])
              /\ GrowsBy(records[k], next[k], batch, bases)
              /\ \A c \in batch :
                   /\ bases[c].id = records[k].id
                   /\ \A d \in batch : bases[d].id = bases[c].id => c = d
                   /\ bases[c].by = records[k].by
                   => next[k].by = Append(records[k].by, c)
         /\ \A k \in DOMAIN next \ DOMAIN records : \E c \in batch :
              /\ bases[c].id \notin Ids(records)
              /\ next[k].id = bases[c].id /\ next[k].by = <<c>> /\ Counted(next[k])
         /\ \A j, k \in DOMAIN next : next[j].id = next[k].id => j = k
         /\ \A c \in batch : bases[c].id \notin Ids(records) =>
              \E k \in DOMAIN next \ DOMAIN records : next[k].id = bases[c].id
         /\ Targets(batch, bases) \subseteq Ids(records) => DOMAIN next = DOMAIN records
<1> DEFINE old == Rewritten(records, batch, bases)
           new == Unmatched(records, batch, bases)
<1>0. /\ IsFiniteSet(R) /\ records \in Seq(RecordsOver(R, C)) /\ batch \in SUBSET C
      /\ \A c \in batch : bases[c] \in RecordsOver(R, C)
  BY DEF Versioned
<1>1. old \in Seq(RecordsOver(R, C)) /\ Len(old) = Len(records)
      /\ \A k \in DOMAIN records : old[k].id = records[k].id
  <2> HIDE DEF old
  <2> QED BY ONLY <1>0, RewrittenType DEF old
<1>2. new \in Seq(RecordsOver(R, C))
  <2> HIDE DEF new
  <2> QED BY ONLY <1>0, UnmatchedType DEF new
<1>3. /\ \A k \in DOMAIN new : \E c \in batch :
           /\ bases[c].id \notin Ids(records)
           /\ new[k].id = bases[c].id /\ new[k].by = <<c>> /\ Counted(new[k])
      /\ \A j, k \in DOMAIN new : new[j].id = new[k].id => j = k
      /\ \A c \in batch : bases[c].id \notin Ids(records) =>
           \E k \in DOMAIN new : new[k].id = bases[c].id
  BY UnmatchedLines
<1>4. /\ DOMAIN records = 1..Len(records) /\ DOMAIN new = 1..Len(new)
      /\ Len(records) \in Nat /\ Len(new) \in Nat
      /\ DOMAIN next = 1..(Len(records) + Len(new))
      /\ \A k \in DOMAIN records : next[k] = old[k]
      /\ \A k \in DOMAIN new : next[Len(records) + k] = new[k]
  <2>1. next = old \o new
    BY DEF ApplySubstitutions
  <2> DEFINE T == RecordsOver(R, C)
  <2>2. old \in Seq(T) /\ new \in Seq(T) /\ records \in Seq(T) /\ Len(old) = Len(records)
    BY <1>0, <1>1, <1>2
  <2> HIDE DEF old, new, T
  <2>3. next \in Seq(T) /\ Len(next) = Len(old) + Len(new)
    <3>1. old \o new \in Seq(T)
      BY ONLY <2>2
    <3>2. Len(old \o new) = Len(old) + Len(new)
      BY ONLY <2>2
    <3> QED BY ONLY <2>1, <3>1, <3>2
  <2>7. DOMAIN next = 1..Len(next)
    BY <2>3
  <2>4. DOMAIN records = 1..Len(records) /\ DOMAIN new = 1..Len(new) /\ DOMAIN old = 1..Len(old)
        /\ Len(records) \in Nat /\ Len(new) \in Nat
    BY ONLY <2>2
  <2>5. \A k \in DOMAIN old : next[k] = old[k]
    BY ONLY <2>1, <2>2
  <2>6. \A k \in DOMAIN new : next[Len(old) + k] = new[k]
    BY ONLY <2>1, <2>2
  <2> QED BY ONLY <2>2, <2>3, <2>4, <2>5, <2>6, <2>7
<1>5. ASSUME NEW k \in DOMAIN records, records[k].id \notin Targets(batch, bases)
      PROVE  /\ Counted(old[k]) /\ GrowsBy(records[k], old[k], batch, bases)
             /\ \A c \in batch : bases[c].id # records[k].id
  <2>1. old[k] = records[k]
    BY <1>5 DEF Rewritten
  <2> QED BY <1>5, <2>1 DEF Targets, GrowsBy, Versioned
<1>6. ASSUME NEW k \in DOMAIN records, records[k].id \in Targets(batch, bases)
      PROVE  /\ Counted(old[k]) /\ GrowsBy(records[k], old[k], batch, bases)
             /\ \A c \in batch :
                  /\ bases[c].id = records[k].id
                  /\ \A d \in batch : bases[d].id = bases[c].id => c = d
                  /\ bases[c].by = records[k].by
                  => old[k].by = Append(records[k].by, c)
  <2> DEFINE c == CandidateFor(records[k].id, batch, bases)
             copy == bases[c]
             line == records[k]
  <2>1. c \in batch /\ copy.id = line.id
    BY <1>6, CandidateForTarget
  <2>2. old[k] = ApplyCandidate(line, copy, c)
    BY <1>6 DEF Rewritten
  <2>3. PICK j \in DOMAIN records : VersionOf(copy, records[j])
    <3>1. Descends(copy, records)
      BY <2>1 DEF Versioned
    <3>2. copy.id \in Ids(records)
      BY <2>1 DEF Ids
    <3> HIDE DEF c
    <3> QED BY <3>1, <3>2 DEF Descends
  <2>4. j = k
    BY <2>1, <2>3 DEF VersionOf, Versioned
  <2>5. /\ line \in RecordsOver(R, C) /\ copy \in RecordsOver(R, C) /\ c \in C
        /\ Counted(line) /\ Counted(copy) /\ VersionOf(copy, line)
    BY <2>1, <2>3, <2>4 DEF Versioned
  <2>6. /\ Counted(old[k])
        /\ copy.by # line.by => old[k] = line
        /\ copy.by = line.by => old[k].id = line.id /\ old[k].by = Append(line.by, c)
    <3> HIDE DEF c, old, copy, line
    <3> QED BY <2>2, <2>5, LineGrows
  <2>7. GrowsBy(line, old[k], batch, bases)
    <3> HIDE DEF old, c
    <3> QED BY <2>1, <2>6 DEF GrowsBy
  <2> HIDE DEF c, old
  <2> QED BY <2>1, <2>6, <2>7
<1> HIDE DEF old, new
<1>7. DOMAIN records \subseteq DOMAIN next
  BY <1>4
<1>8. \A k \in DOMAIN next \ DOMAIN records : \E j \in DOMAIN new : next[k] = new[j] /\ k = Len(records) + j
  <2> SUFFICES ASSUME NEW k \in DOMAIN next \ DOMAIN records
               PROVE  \E j \in DOMAIN new : next[k] = new[j] /\ k = Len(records) + j
    OBVIOUS
  <2>1. k - Len(records) \in DOMAIN new /\ k = Len(records) + (k - Len(records))
    BY <1>4
  <2> QED BY <1>4, <2>1
<1>9. \A k \in DOMAIN next \ DOMAIN records : \E c \in batch :
        /\ bases[c].id \notin Ids(records)
        /\ next[k].id = bases[c].id /\ next[k].by = <<c>> /\ Counted(next[k])
  BY <1>3, <1>8
<1>10. ASSUME NEW j \in DOMAIN next, NEW k \in DOMAIN next, next[j].id = next[k].id
       PROVE  j = k
  <2>1. CASE j \in DOMAIN records /\ k \in DOMAIN records
    BY <1>1, <1>4, <1>10, <2>1 DEF Versioned
  <2>2. \A l \in DOMAIN records : next[l].id \in Ids(records)
    BY <1>1, <1>4 DEF Ids
  <2>3. CASE j \in DOMAIN records <=> k \notin DOMAIN records
    BY <1>9, <1>10, <2>2, <2>3
  <2>4. CASE j \notin DOMAIN records /\ k \notin DOMAIN records
    BY <1>3, <1>8, <1>10, <2>4
  <2> QED BY <2>1, <2>3, <2>4
<1>11. ASSUME NEW c \in batch, bases[c].id \notin Ids(records)
       PROVE  \E k \in DOMAIN next \ DOMAIN records : next[k].id = bases[c].id
  <2>1. PICK j \in DOMAIN new : new[j].id = bases[c].id
    BY <1>3, <1>11
  <2>2. Len(records) + j \in DOMAIN next \ DOMAIN records /\ next[Len(records) + j] = new[j]
    BY <1>4
  <2> QED BY <2>1, <2>2
<1>12. ASSUME Targets(batch, bases) \subseteq Ids(records) PROVE DOMAIN next = DOMAIN records
  <2>1. \A k \in DOMAIN next : k \in DOMAIN records
    BY <1>9, <1>12 DEF Targets
  <2> QED BY <1>7, <2>1
<1> QED BY <1>1, <1>4, <1>5, <1>6, <1>7, <1>9, <1>10, <1>11, <1>12

-----------------------------------------------------------------------------
\* The locks.

\* LockDiscipline alone is inductive, with the types of what it speaks of.
LockInv ==
  /\ pc \in [Worker -> Step]
  /\ jlock \in LockStates(Worker)
  /\ clock \in LockStates(Worker)
  /\ LockDiscipline

\* The steps s and t call for the same locks.
SameLocks(s, t) ==
  /\ s \in AppendHolding <=> t \in AppendHolding
  /\ s \in CompactHolding \cup {"compact.candidate"}
       <=> t \in CompactHolding \cup {"compact.candidate"}
  /\ s \in SharedHolding <=> t \in SharedHolding
  /\ s \in ResolveHolding \cup CompactHolding <=> t \in ResolveHolding \cup CompactHolding

\* A worker is in at most one of the sections that the locks guard.
LEMMA StepsDisjoint ==
  /\ AppendHolding \cap (CompactHolding \cup {"compact.candidate"}) = {}
  /\ SharedHolding \cap (ResolveHolding \cup CompactHolding) = {}
  /\ (AppendHolding \cup CompactHolding \cup {"compact.candidate"})
       \cap (SharedHolding \cup ResolveHolding) = {}
  BY DEF AppendHolding, SharedHolding, ResolveHolding, CompactHolding

\* Initially nobody is in a handler and nobody holds a lock.
LEMMA InitLocks == Init => LockInv
  BY DEF Init, LockInv, LockDiscipline, LockStates, Unlocked, Exclusive, Holders, Step,
         Waiting, AppendHolding, SharedHolding, ResolveHolding, CompactHolding

\* Going on within a section, or waiting, changes no lock.
LEMMA MoveKeepsLocks ==
  ASSUME LockInv, NEW p \in Worker, NEW t \in Step, Goto(p, t), UNCHANGED lockVars,
         SameLocks(pc[p], t)
  PROVE  LockInv'
<1>1. pc' \in [Worker -> Step] /\ UNCHANGED <<jlock, clock>>
  BY DEF LockInv, Goto, lockVars
<1>2. \A q \in Worker : SameLocks(pc[q], pc'[q])
  BY DEF LockInv, Goto, SameLocks
<1> QED BY <1>1, <1>2 DEF LockInv, LockDiscipline, SameLocks, Exclusive, Holders

\* A step that leaves every worker and every lock alone.
LEMMA StutterKeepsLocks ==
  ASSUME LockInv, UNCHANGED <<pc, lockVars>>
  PROVE  LockInv'
  BY DEF LockInv, LockDiscipline, Exclusive, Holders, lockVars

\* A handler that releases both locks and returns.
LEMMA ReleaseKeepsLocks ==
  ASSUME LockInv, NEW p \in Worker, Goto(p, "idle"),
         jlock' = Unlock(jlock, p), clock' = Unlock(clock, p)
  PROVE  LockInv'
<1>1. pc' \in [Worker -> Step] /\ pc'[p] = "idle" /\ \A q \in Worker \ {p} : pc'[q] = pc[q]
  BY DEF LockInv, Goto, Step
<1>2. jlock' \in LockStates(Worker) /\ clock' \in LockStates(Worker)
  BY DEF LockInv, LockStates, Unlock
<1>3. Exclusive(jlock)' /\ Exclusive(clock)'
  BY DEF LockInv, LockDiscipline, Exclusive, Holders, Unlock, LockStates
<1>4. "idle" \notin AppendHolding \cup CompactHolding \cup {"compact.candidate"}
                     \cup SharedHolding \cup ResolveHolding
  BY DEF AppendHolding, SharedHolding, ResolveHolding, CompactHolding
<1>5. ASSUME NEW q \in Worker
      PROVE  /\ q \in jlock'.shared <=> q # p /\ q \in jlock.shared
             /\ q \in jlock'.exclusive <=> q # p /\ q \in jlock.exclusive
             /\ q \in clock'.shared <=> q # p /\ q \in clock.shared
             /\ q \in clock'.exclusive <=> q # p /\ q \in clock.exclusive
  BY DEF Unlock
<1> QED BY <1>1, <1>2, <1>3, <1>4, <1>5 DEF LockInv, LockDiscipline

\* Releasing a lock one does not hold does nothing.
LEMMA UnlockNotHeld ==
  ASSUME NEW lock \in LockStates(Worker), NEW p, p \notin Holders(lock)
  PROVE  Unlock(lock, p) = lock
  BY DEF LockStates, Unlock, Holders

\* The two ways out of a section that needs one lock.
LEMMA ReleaseJournalKeepsLocks ==
  ASSUME LockInv, NEW p \in Worker, Goto(p, "idle"), ReleaseJournal(p),
         pc[p] \in AppendHolding \cup {"compact.candidate"}
  PROVE  LockInv'
<1>1. p \notin Holders(clock)
  BY DEF LockInv, LockDiscipline, Holders, AppendHolding, SharedHolding, ResolveHolding,
         CompactHolding
<1>2. Unlock(clock, p) = clock
  BY <1>1, UnlockNotHeld DEF LockInv
<1> QED BY <1>2, ReleaseKeepsLocks DEF ReleaseJournal

\* The same of the candidate lock.
LEMMA ReleaseCandidatesKeepsLocks ==
  ASSUME LockInv, NEW p \in Worker, Goto(p, "idle"), ReleaseCandidates(p),
         pc[p] \in SharedHolding \cup ResolveHolding
  PROVE  LockInv'
<1>1. p \notin Holders(jlock)
  BY DEF LockInv, LockDiscipline, Holders, AppendHolding, SharedHolding, ResolveHolding,
         CompactHolding
<1>2. Unlock(jlock, p) = jlock
  BY <1>1, UnlockNotHeld DEF LockInv
<1> QED BY <1>2, ReleaseKeepsLocks DEF ReleaseCandidates

\* Taking the journal lock, shared or exclusive.
LEMMA LockJournalKeepsLocks ==
  ASSUME LockInv, NEW p \in Worker, UNCHANGED clock,
         \/ /\ pc[p] = "append.lock" /\ CanShare(jlock)
            /\ jlock' = Share(jlock, p) /\ Goto(p, "append.write")
         \/ /\ pc[p] = "compact.journal" /\ CanExclude(jlock)
            /\ jlock' = Exclude(jlock, p) /\ Goto(p, "compact.candidate")
  PROVE  LockInv'
<1>1. pc' \in [Worker -> Step] /\ jlock' \in LockStates(Worker) /\ clock' \in LockStates(Worker)
  BY DEF LockInv, Goto, Step, AppendHolding, Waiting, LockStates, Share, Exclude
<1>2. Exclusive(jlock)' /\ Exclusive(clock)'
  BY DEF LockInv, LockDiscipline, Exclusive, Holders, Share, Exclude, CanShare, CanExclude,
         LockStates
<1>3. \A q \in Worker :
        /\ q \in jlock'.shared <=> pc'[q] \in AppendHolding
        /\ q \in jlock'.exclusive <=> pc'[q] \in CompactHolding \cup {"compact.candidate"}
  BY DEF LockInv, LockDiscipline, Goto, Share, Exclude, LockStates, AppendHolding, CompactHolding
<1>4. \A q \in Worker :
        /\ q \in clock'.shared <=> pc'[q] \in SharedHolding
        /\ q \in clock'.exclusive <=> pc'[q] \in ResolveHolding \cup CompactHolding
  BY DEF LockInv, LockDiscipline, Goto, SharedHolding, ResolveHolding, CompactHolding
<1> QED BY <1>1, <1>2, <1>3, <1>4 DEF LockInv, LockDiscipline

\* Taking the candidate lock, shared or exclusive.
LEMMA LockCandidatesKeepsLocks ==
  ASSUME LockInv, NEW p \in Worker, UNCHANGED jlock,
         \/ /\ CanShare(clock) /\ clock' = Share(clock, p)
            /\ \/ pc[p] = "submit.lock" /\ Goto(p, "submit.read")
               \/ pc[p] = "list.lock" /\ Goto(p, "list.read")
         \/ /\ CanExclude(clock) /\ clock' = Exclude(clock, p)
            /\ \/ pc[p] = "resolve.lock" /\ Goto(p, "resolve.read")
               \/ pc[p] = "compact.candidate" /\ Goto(p, "compact.read")
  PROVE  LockInv'
<1>1. pc' \in [Worker -> Step] /\ jlock' \in LockStates(Worker) /\ clock' \in LockStates(Worker)
  BY DEF LockInv, Goto, Step, SharedHolding, ResolveHolding, CompactHolding, LockStates,
         Share, Exclude
<1>2. Exclusive(jlock)' /\ Exclusive(clock)'
  BY DEF LockInv, LockDiscipline, Exclusive, Holders, Share, Exclude, CanShare, CanExclude,
         LockStates
<1>3. \A q \in Worker :
        /\ q \in jlock'.shared <=> pc'[q] \in AppendHolding
        /\ q \in jlock'.exclusive <=> pc'[q] \in CompactHolding \cup {"compact.candidate"}
  BY DEF LockInv, LockDiscipline, Goto, AppendHolding, CompactHolding
<1>4. \A q \in Worker :
        /\ q \in clock'.shared <=> pc'[q] \in SharedHolding
        /\ q \in clock'.exclusive <=> pc'[q] \in ResolveHolding \cup CompactHolding
  BY DEF LockInv, LockDiscipline, Goto, Share, Exclude, LockStates, SharedHolding,
         ResolveHolding, CompactHolding
<1> QED BY <1>1, <1>2, <1>3, <1>4 DEF LockInv, LockDiscipline

-----------------------------------------------------------------------------
\* The actions, by component.

\* The lock invariant over the arrival of a request,
LEMMA ArriveLocks ==
  ASSUME LockInv, NEW p \in Worker, NEW k \in Kind, Arrive(p, k)
  PROVE  LockInv'
<1>1. FirstStep[k] \in Waiting \ {"compact.candidate"}
  BY DEF FirstStep, Kind, Waiting
<1>2. FirstStep[k] \in Step /\ SameLocks("idle", FirstStep[k])
  BY <1>1 DEF SameLocks, Step, Waiting, AppendHolding, SharedHolding, ResolveHolding,
              CompactHolding
<1> QED BY <1>2, MoveKeepsLocks DEF Arrive

\* over every step of an append,
LEMMA AppendLocks ==
  ASSUME LockInv, NEW p \in Worker, AppendProgress(p) \/ AppendFault(p)
  PROVE  LockInv'
<1>1. CASE AppendLock(p)
  BY <1>1, LockJournalKeepsLocks DEF AppendLock
<1>2. CASE AppendWrite(p)
  <2>1. SameLocks("append.write", "append.begin") /\ "append.begin" \in Step
    BY DEF SameLocks, Step, AppendHolding, SharedHolding, ResolveHolding, CompactHolding
  <2> QED BY <1>2, <2>1, MoveKeepsLocks DEF AppendWrite
<1>3. CASE InsertBegin(p)
  <2>1. SameLocks("append.begin", "append.upsert") /\ "append.upsert" \in Step
    BY DEF SameLocks, Step, AppendHolding, SharedHolding, ResolveHolding, CompactHolding
  <2> QED BY <1>3, <2>1, MoveKeepsLocks DEF InsertBegin
<1>4. CASE InsertCommit(p) \/ InsertConflict(p) \/ AppendWriteFails(p) \/ InsertFails(p)
  <2>1. pc[p] \in AppendHolding
    BY <1>4 DEF InsertCommit, InsertConflict, AppendWriteFails, InsertFails, AppendHolding
  <2>2. Goto(p, "idle") /\ ReleaseJournal(p)
    BY <1>4 DEF InsertCommit, InsertConflict, AppendWriteFails, InsertFails, AcceptedOnly, Return
  <2> QED BY <2>1, <2>2, ReleaseJournalKeepsLocks
<1> QED BY <1>1, <1>2, <1>3, <1>4 DEF AppendProgress, AppendFault

\* of a submit, a list and a resolve,
LEMMA CandidateLocks ==
  ASSUME LockInv, NEW p \in Worker, CandidateProgress(p) \/ CandidateFault(p)
  PROVE  LockInv'
<1>1. CASE CandidateLock(p)
  BY <1>1, LockCandidatesKeepsLocks DEF CandidateLock
<1>2. CASE SubmitRead(p)
  <2>1. SameLocks("submit.read", "submit.append") /\ "submit.append" \in Step
    BY DEF SameLocks, Step, AppendHolding, SharedHolding, ResolveHolding, CompactHolding
  <2> QED BY <1>2, <2>1, MoveKeepsLocks DEF SubmitRead
<1>3. CASE ResolveRead(p) \/ MoveApplied(p) \/ MoveDenied(p)
  <2>1. \A s, t \in ResolveHolding : SameLocks(s, t) /\ t \in Step
    BY DEF SameLocks, Step, AppendHolding, SharedHolding, ResolveHolding, CompactHolding
  <2>2. PICK t \in ResolveHolding : Goto(p, t)
    BY <1>3 DEF ResolveRead, MoveApplied, MoveDenied, ResolveHolding
  <2>3. pc[p] \in ResolveHolding /\ UNCHANGED lockVars
    BY <1>3 DEF ResolveRead, MoveApplied, MoveDenied, ResolveHolding
  <2> QED BY <2>1, <2>2, <2>3, MoveKeepsLocks
<1>4. CASE \/ SubmitRejected(p) \/ SubmitAppend(p) \/ ListRead(p) \/ ResolveRejected(p)
           \/ RemovePending(p) \/ SubmitFails(p) \/ MoveFails(p)
  <2>1. pc[p] \in SharedHolding \cup ResolveHolding
    BY <1>4 DEF SubmitRejected, SubmitAppend, ListRead, ResolveRejected, RemovePending,
                SubmitFails, MoveFails, SharedHolding, ResolveHolding
  <2>2. Goto(p, "idle") /\ ReleaseCandidates(p)
    BY <1>4 DEF SubmitRejected, SubmitAppend, ListRead, ResolveRejected, RemovePending,
                SubmitFails, MoveFails, Return
  <2> QED BY <2>1, <2>2, ReleaseCandidatesKeepsLocks
<1> QED BY <1>1, <1>2, <1>3, <1>4 DEF CandidateProgress, CandidateFault

\* of a compaction,
LEMMA CompactionLocks ==
  ASSUME LockInv, NEW p \in Worker, CompactProgress(p) \/ CompactFault(p)
  PROVE  LockInv'
<1> DEFINE InSection ==
      \/ CompactRead(p) \/ WriteTmp(p) \/ RenameTmp(p) \/ Evict(p)
      \/ DeleteApplied(p) \/ RebuildIndex(p)
      \/ CleanupFails(p) /\ pc[p] # "compact.audit"
    Leaves ==
      \/ CompactUnreadable(p) \/ AuditAppend(p) \/ RewriteFails(p)
      \/ CleanupFails(p) /\ pc[p] = "compact.audit"
<1>1. CASE CompactLockJournal(p)
  BY <1>1, LockJournalKeepsLocks DEF CompactLockJournal
<1>2. CASE CompactLockCandidates(p)
  BY <1>2, LockCandidatesKeepsLocks DEF CompactLockCandidates
<1>3. CASE CompactList(p) \/ CompactListFails(p)
  <2>1. \A t \in {"idle", "compact.journal"} : SameLocks("compact.list", t) /\ t \in Step
    BY DEF SameLocks, Step, Waiting, AppendHolding, SharedHolding, ResolveHolding, CompactHolding
  <2>2. PICK t \in {"idle", "compact.journal"} : Goto(p, t)
    BY <1>3 DEF CompactList, CompactListFails, Return
  <2>3. pc[p] = "compact.list" /\ UNCHANGED lockVars
    BY <1>3 DEF CompactList, CompactListFails
  <2> QED BY <2>1, <2>2, <2>3, MoveKeepsLocks
<1>4. CASE InSection
  <2>1. \A s, t \in CompactHolding : SameLocks(s, t) /\ t \in Step
    BY DEF SameLocks, Step, AppendHolding, SharedHolding, ResolveHolding, CompactHolding
  <2>2. pc[p] \in CompactHolding
    BY <1>4 DEF CompactRead, WriteTmp, RenameTmp, Evict, DeleteApplied, RebuildIndex,
                CleanupFails, CompactHolding
  <2>3. PICK t \in CompactHolding : Goto(p, t)
    BY <1>4 DEF CompactRead, WriteTmp, RenameTmp, Evict, DeleteApplied, RebuildIndex,
                CleanupFails, CompactHolding
  <2>4. UNCHANGED lockVars
    BY <1>4 DEF CompactRead, WriteTmp, RenameTmp, Evict, DeleteApplied, RebuildIndex, CleanupFails
  <2> QED BY <2>1, <2>2, <2>3, <2>4, MoveKeepsLocks
<1>5. CASE Leaves
  BY <1>5, ReleaseKeepsLocks
     DEF CompactUnreadable, AuditAppend, RewriteFails, CleanupFails, Return, ReleaseBoth
<1>6. CASE CompactCancel(p)
  BY <1>6, ReleaseJournalKeepsLocks DEF CompactCancel, Return
<1> QED BY <1>1, <1>2, <1>3, <1>4, <1>5, <1>6 DEF CompactProgress, CompactFault

\* and over a lock that cannot be opened.
LEMMA LockFailsLocks ==
  ASSUME LockInv, NEW p \in Worker, LockFails(p)
  PROVE  LockInv'
<1>1. SameLocks(pc[p], "idle") /\ "idle" \in Step
  BY DEF LockFails, SameLocks, Step, AppendHolding, SharedHolding, ResolveHolding, CompactHolding
<1> QED BY <1>1, MoveKeepsLocks DEF LockFails, Return

\* A dead process holds nothing.
LEMMA CrashLocks ==
  ASSUME Crash
  PROVE  LockInv'
  BY DEF Crash, LockInv, LockDiscipline, LockStates, Unlocked, Exclusive, Holders, Step,
         AppendHolding, SharedHolding, ResolveHolding, CompactHolding

\* Every step preserves the lock invariant.
LEMMA NextLocks == LockInv /\ [Next]_vars => LockInv'
<1> SUFFICES ASSUME LockInv, [Next]_vars PROVE LockInv'
  OBVIOUS
<1>1. ASSUME NEW p \in Worker, NEW k \in Kind, Arrive(p, k) PROVE LockInv'
  BY <1>1, ArriveLocks
<1>2. ASSUME NEW p \in Worker, Progress(p) PROVE LockInv'
  BY <1>2, AppendLocks, CandidateLocks, CompactionLocks DEF Progress
<1>3. ASSUME NEW p \in Worker, Failure(p) PROVE LockInv'
  BY <1>3, LockFailsLocks, AppendLocks, CandidateLocks, CompactionLocks DEF Failure
<1>4. CASE Crash
  BY <1>4, CrashLocks
<1>5. CASE Restart \/ RecoveryFails
  BY <1>5, StutterKeepsLocks DEF Restart, RecoveryFails, workerVars
<1>6. CASE UNCHANGED vars
  BY <1>6, StutterKeepsLocks DEF vars, workerVars
<1> QED BY <1>1, <1>2, <1>3, <1>4, <1>5, <1>6 DEF Next

\* In every state who holds a lock is at a step of its handler between
\* acquisition and release (pkg/flock/flock.go; handler.go of every request).
THEOREM LocksAlways == Spec => []LockInv
<1> QED BY InitLocks, NextLocks, PTL DEF Spec

\* What the journal lock gives a compaction: nobody else is where it matters.
LEMMA CompactionIsAlone ==
  ASSUME LockInv, NEW p \in Worker, pc[p] \in CompactHolding,
         NEW q \in Worker, q # p
  PROVE  pc[q] \notin AppendHolding \cup CompactHolding
  BY DEF LockInv, LockDiscipline, Exclusive, Holders, LockStates

\* What the candidate lock gives a submit: no compaction holds it.
LEMMA SubmitMeetsNoCompaction ==
  ASSUME LockInv, NEW p \in Worker, pc[p] \in SharedHolding, NEW q \in Worker
  PROVE  pc[q] \notin CompactHolding
<1>1. p \in clock.shared
  BY DEF LockInv, LockDiscipline
<1>2. q \notin clock.exclusive
  <2>1. SUFFICES ASSUME q \in clock.exclusive PROVE FALSE
    OBVIOUS
  <2>2. p = q
    BY <1>1, <2>1 DEF LockInv, LockDiscipline, Exclusive, Holders
  <2>3. pc[q] \in ResolveHolding \cup CompactHolding
    BY <2>1 DEF LockInv, LockDiscipline
  <2> QED BY <2>2, <2>3, StepsDisjoint
<1> QED BY <1>2 DEF LockInv, LockDiscipline

\* Whatever handlers run, fail, are cancelled or die, a lock is held exactly
\* between its acquisition and its release, and a writer is alone: appends never
\* meet a journal rewrite, submits and lists never meet a move of candidates
\* (store.go Append, SharedLock, ExclusiveLock; compact.go steps 2 and 3).
THEOREM LocksFollowHandlers == Spec => []LockDiscipline
<1>1. LockInv => LockDiscipline
  BY DEF LockInv
<1> QED BY <1>1, LocksAlways, PTL

-----------------------------------------------------------------------------
\* Types.

\* Candidates in a file, or read from one, exist.
Created ==
  /\ \A c \in pending \cup applied : copies[c] # None
  /\ \A p \in Worker : \A c \in job[p].batch : copies[c] # None

\* What a handler brings to the step it is at.
Carried ==
  \A p \in Worker :
    /\ pc[p] \in {"append.begin", "append.upsert"} => job[p].rec # None
    /\ pc[p] = "submit.append" => job[p].copy # None
    /\ pc[p] = "compact.rename" => tmp # None

\* A dead process has no handlers.
DownIdle == ~ up => \A p \in Worker : pc[p] = "idle"

TypeInv == TypeOK /\ LockInv /\ Created /\ Carried /\ DownIdle

\* The sets the types are made of.
LEMMA RecordIsRecordOver == Record = RecordsOver(RecId, CandId)
  BY DEF Record, RecordsOver

\* The job of an idle worker is a job.
LEMMA NoJobIsJob == NoJob \in Job
  BY DEF NoJob, Job

\* The content of a record is its id and its history.
LEMMA ContentType ==
  ASSUME NEW record \in Record
  PROVE  Content(record) \in [id : RecId, by : Seq(CandId)]
  BY DEF Content, Record

\* Reading a file yields records.
LEMMA ContentsType ==
  ASSUME NEW records \in Seq(Record)
  PROVE  Contents(records) \in SUBSET [id : RecId, by : Seq(CandId)]
<1>1. \A k \in DOMAIN records : Content(records[k]) \in [id : RecId, by : Seq(CandId)]
  <2>1. \A k \in DOMAIN records : records[k] \in Record
    OBVIOUS
  <2> QED BY <2>1, ContentType
<1> QED BY <1>1 DEF Contents

\* The first state, with empty files.
LEMMA InitTypes == Init => TypeInv
<1> SUFFICES ASSUME Init PROVE TypeInv
  OBVIOUS
<1>1. TypeOK
  <2>1. row \in SUBSET [id : RecId, by : Seq(CandId)]
    BY ContentsType, InitialJournalAssumption DEF Init
  <2> QED BY <2>1, InitLocks, NoJobIsJob, InitialJournalAssumption, BoundsAssumption
          DEF Init, TypeOK, LockInv
<1>2. Created /\ Carried /\ DownIdle
  BY DEF Init, Created, Carried, DownIdle, NoJob
<1> QED BY <1>1, <1>2, InitLocks DEF TypeInv

\* A handler that keeps a value.
LEMMA KeepTypes ==
  ASSUME job \in [Worker -> Job], NEW p \in Worker, NEW value \in Job, Keep(p, value)
  PROVE  /\ job' \in [Worker -> Job]
         /\ job'[p] = value
         /\ \A q \in Worker \ {p} : job'[q] = job[q]
  BY DEF Keep

\* A handler that returns carries nothing any more.
LEMMA ReturnTypes ==
  ASSUME TypeInv, LockInv', NEW p \in Worker, Return(p), UNCHANGED <<up, copies, tmp>>,
         \A c \in pending' \cup applied' : c \in pending \cup applied
  PROVE  job' \in [Worker -> Job] /\ Created' /\ Carried' /\ DownIdle'
<1>1. job' \in [Worker -> Job]
  BY NoJobIsJob DEF TypeInv, TypeOK, Return, Keep
<1>2. job'[p].batch = {} /\ pc'[p] = "idle" /\ \A q \in Worker \ {p} : job'[q] = job[q] /\ pc'[q] = pc[q]
  BY DEF TypeInv, TypeOK, Return, Keep, Goto, NoJob
<1>3. Created'
  BY <1>2 DEF TypeInv, Created
<1>4. Carried' /\ DownIdle'
  BY <1>2 DEF TypeInv, Carried, DownIdle
<1> QED BY <1>1, <1>3, <1>4

\* Types over the arrival of a request,
LEMMA ArriveTypes ==
  ASSUME TypeInv, LockInv', NEW p \in Worker, NEW k \in Kind, Arrive(p, k)
  PROVE  TypeInv'
<1>1. TypeOK'
  BY DEF TypeInv, TypeOK, LockInv, Arrive, journalVars, candidateVars, answerVars
<1>2. FirstStep[k] \in Waiting
  BY DEF FirstStep, Kind, Waiting
<1>3. Created' /\ Carried' /\ DownIdle'
  BY <1>2 DEF TypeInv, TypeOK, Created, Carried, DownIdle, Arrive, Goto, Waiting, candidateVars,
              journalVars
<1> QED BY <1>1, <1>3 DEF TypeInv

-----------------------------------------------------------------------------
\* AppendPath.

\* over a write to the journal, whole or torn,
LEMMA AppendWriteTypes ==
  ASSUME TypeInv, LockInv', NEW p \in Worker, AppendWrite(p)
  PROVE  TypeInv'
<1>1. PICK r \in RecId : /\ WriteLine([id |-> r, rev |-> 1, by |-> <<>>])
                         /\ Keep(p, [job[p] EXCEPT !.rec = r])
  BY DEF AppendWrite
<1>2. [id |-> r, rev |-> 1, by |-> <<>>] \in Record
  BY DEF Record
<1>3. journal' \in Seq(Record) /\ tear' \in {"none", "tail", "inner"}
      /\ fd' \in {"none", "current", "stale"}
  BY <1>1, <1>2 DEF TypeInv, TypeOK, WriteLine, OpenAppend
<1>4. job' \in [Worker -> Job] /\ job'[p].rec = r /\ job'[p].batch = job[p].batch
      /\ \A q \in Worker \ {p} : job'[q] = job[q]
  <2>1. job \in [Worker -> Job]
    BY DEF TypeInv, TypeOK
  <2>2. LET next == [job[p] EXCEPT !.rec = r]
        IN  next \in Job /\ next.rec = r /\ next.batch = job[p].batch
    BY <2>1 DEF Job
  <2>3. job' = [job EXCEPT ![p] = [job[p] EXCEPT !.rec = r]]
    BY <1>1 DEF Keep
  <2> QED BY <2>1, <2>2, <2>3
<1>5. TypeOK'
  BY <1>3, <1>4 DEF TypeInv, TypeOK, LockInv, AppendWrite, candidateVars, answerVars, boundVars
<1>6. r # None
  BY NoneAssumption
<1>7. Created'
  BY <1>4 DEF TypeInv, Created, AppendWrite, candidateVars
<1>8. Carried' /\ DownIdle'
  BY <1>4, <1>6 DEF TypeInv, TypeOK, Carried, DownIdle, AppendWrite, Goto
<1> QED BY <1>5, <1>7, <1>8 DEF TypeInv

\* over every step of an append,
LEMMA AppendTypes ==
  ASSUME TypeInv, LockInv', NEW p \in Worker, AppendProgress(p) \/ AppendFault(p)
  PROVE  TypeInv'
<1>1. CASE AppendLock(p)
  <2>1. TypeOK'
    BY <1>1 DEF TypeInv, TypeOK, LockInv, AppendLock, journalVars, candidateVars, answerVars, boundVars
  <2>2. Created' /\ Carried' /\ DownIdle'
    BY <1>1 DEF TypeInv, TypeOK, Created, Carried, DownIdle, AppendLock, Goto, candidateVars, journalVars
  <2> QED BY <2>1, <2>2 DEF TypeInv
<1>2. CASE AppendWrite(p)
  BY <1>2, AppendWriteTypes
<1>3. CASE InsertBegin(p)
  <2>1. job' \in [Worker -> Job] /\ job'[p].rec = job[p].rec /\ job'[p].batch = job[p].batch
        /\ \A q \in Worker \ {p} : job'[q] = job[q]
    <3>1. job \in [Worker -> Job] /\ row \in SUBSET [id : RecId, by : Seq(CandId)]
      BY DEF TypeInv, TypeOK
    <3>2. LET next == [job[p] EXCEPT !.row = row]
          IN  next \in Job /\ next.rec = job[p].rec /\ next.batch = job[p].batch
      BY <3>1 DEF Job
    <3>3. job' = [job EXCEPT ![p] = [job[p] EXCEPT !.row = row]]
      BY <1>3 DEF InsertBegin, Keep
    <3> QED BY <3>1, <3>2, <3>3
  <2>2. TypeOK'
    BY <1>3, <2>1 DEF TypeInv, TypeOK, LockInv, InsertBegin, journalVars, candidateVars, answerVars, boundVars
  <2>3. Created'
    BY <1>3, <2>1 DEF TypeInv, Created, InsertBegin, candidateVars
  <2>4. Carried' /\ DownIdle'
    BY <1>3, <2>1 DEF TypeInv, TypeOK, Carried, DownIdle, InsertBegin, Goto, journalVars
  <2> QED BY <2>2, <2>3, <2>4 DEF TypeInv
<1>4. CASE AppendWriteFails(p)
  <2>1. job' \in [Worker -> Job] /\ Created' /\ Carried' /\ DownIdle'
    BY <1>4, ReturnTypes DEF AppendWriteFails, candidateVars
  <2>2. TypeOK'
    BY <1>4, <2>1 DEF TypeInv, TypeOK, LockInv, AppendWriteFails, OpenAppend, Fault, candidateVars, answerVars
  <2> QED BY <2>1, <2>2 DEF TypeInv
<1>5. CASE InsertCommit(p)
  <2>1. job' \in [Worker -> Job] /\ Created' /\ Carried' /\ DownIdle'
    BY <1>5, ReturnTypes DEF InsertCommit, candidateVars, journalVars
  <2>2. job[p] \in Job /\ job[p].rec \in RecId
    BY <1>5 DEF TypeInv, TypeOK, Carried, InsertCommit, Job
  <2>3. row' \in SUBSET [id : RecId, by : Seq(CandId)]
    <3> DEFINE record == [id |-> job[p].rec, rev |-> 1, by |-> <<>>]
    <3>1. record \in Record
      BY <2>2 DEF Record
    <3>2. Content(record) \in [id : RecId, by : Seq(CandId)]
      BY <3>1, ContentType
    <3>3. job[p].row \in SUBSET [id : RecId, by : Seq(CandId)]
      BY <2>2 DEF Job
    <3> QED BY <1>5, <3>2, <3>3 DEF InsertCommit
  <2>4. answer' \in [RecId -> {"none", "created", "accepted"}]
    BY <1>5, <2>2 DEF TypeInv, TypeOK, InsertCommit
  <2>5. TypeOK'
    BY <1>5, <2>1, <2>3, <2>4 DEF TypeInv, TypeOK, LockInv, InsertCommit, candidateVars, journalVars, boundVars
  <2> QED BY <2>1, <2>5 DEF TypeInv
<1>6. CASE InsertConflict(p) \/ InsertFails(p)
  <2>1. /\ pc[p] \in {"append.begin", "append.upsert"} /\ AcceptedOnly(p)
        /\ left' \in [Kind -> Nat] /\ faults' \in Nat /\ crashes' \in Nat
    BY <1>6 DEF InsertConflict, InsertFails, TypeInv, TypeOK, Fault, boundVars
  <2>2. job' \in [Worker -> Job] /\ Created' /\ Carried' /\ DownIdle'
    BY <2>1, ReturnTypes DEF AcceptedOnly, candidateVars, journalVars
  <2>3. TypeOK'
    BY <2>1, <2>2 DEF TypeInv, TypeOK, LockInv, AcceptedOnly, candidateVars, journalVars
  <2> QED BY <2>2, <2>3 DEF TypeInv
<1> QED BY <1>1, <1>2, <1>3, <1>4, <1>5, <1>6 DEF AppendProgress, AppendFault

-----------------------------------------------------------------------------
\* CandidatePath.

\* A set of naturals that is not empty has a least element.
LEMMA LeastNatural ==
  ASSUME NEW T \in SUBSET Nat, T # {}
  PROVE  \E m \in T : \A n \in T : m <= n
<1> DEFINE Less == {ss \in Nat \X Nat : ss[1] < ss[2]}
<1>1. IsWellFoundedOn(Less, Nat)
  BY NatLessThanWellFounded DEF OpToRel
<1>2. \E m \in T : \A n \in T : <<n, m>> \notin Less
  <2> HIDE DEF Less
  <2> QED BY <1>1, WFMin
<1>3. PICK m \in T : \A n \in T : <<n, m>> \notin Less
  BY <1>2
<1>4. \A n \in T : n \in Nat /\ m \in Nat /\ ~ (n < m)
  BY <1>3
<1> QED BY <1>4

\* The line ReadRecord finds is a record of the journal, for the id asked for.
LEMMA FirstLineType ==
  ASSUME NEW records \in Seq(Record), NEW r \in Ids(records)
  PROVE  /\ FirstLine(records, r) \in DOMAIN records
         /\ records[FirstLine(records, r)] \in Record
         /\ records[FirstLine(records, r)].id = r
<1> DEFINE lines == {k \in DOMAIN records : records[k].id = r}
<1>1. lines \in SUBSET Nat /\ lines # {}
  BY DEF Ids
<1>2. PICK k \in lines : \A j \in lines : k <= j
  <2> HIDE DEF lines
  <2> QED BY <1>1, LeastNatural
<1>3. \E n \in DOMAIN records :
        /\ records[n].id = r
        /\ \A j \in DOMAIN records : records[j].id = r => n <= j
  BY <1>2
<1>4. /\ FirstLine(records, r) \in DOMAIN records
      /\ records[FirstLine(records, r)].id = r
  BY <1>3 DEF FirstLine
<1> QED BY <1>4

\* over the write of a candidate,
LEMMA WritePendingTypes ==
  ASSUME TypeInv, NEW p \in Worker, NEW c \in CandId, WritePending(p, c),
         pc[p] = "submit.append"
  PROVE  /\ copies' \in [CandId -> Record \cup {None}]
         /\ pending' \in SUBSET CandId
         /\ \A d \in CandId : copies[d] # None => copies'[d] # None
         /\ \A d \in pending' : copies'[d] # None
<1>1. job[p].copy \in Record
  BY DEF TypeInv, TypeOK, Carried, Job
<1>2. job[p].copy # None
  BY DEF TypeInv, Carried
<1> QED BY <1>1, <1>2 DEF TypeInv, TypeOK, Created, WritePending

\* over a submit,
LEMMA SubmitTypes ==
  ASSUME TypeInv, LockInv', NEW p \in Worker,
         SubmitRead(p) \/ SubmitAppend(p) \/ SubmitFails(p)
  PROVE  TypeInv'
<1>1. CASE SubmitRead(p)
  <2>1. PICK r \in Ids(journal) :
          Keep(p, [job[p] EXCEPT !.copy = journal[FirstLine(journal, r)]])
    BY <1>1 DEF SubmitRead
  <2>2. journal[FirstLine(journal, r)] \in Record
    BY FirstLineType DEF TypeInv, TypeOK
  <2>3. job' \in [Worker -> Job] /\ job'[p].batch = job[p].batch /\ job'[p].copy # None
        /\ \A q \in Worker \ {p} : job'[q] = job[q]
    <3> DEFINE value == [job[p] EXCEPT !.copy = journal[FirstLine(journal, r)]]
    <3>1. value \in Job /\ value.batch = job[p].batch
          /\ value.copy = journal[FirstLine(journal, r)]
      BY <2>2 DEF TypeInv, TypeOK, Job
    <3>2. journal[FirstLine(journal, r)] # None
      BY <2>2, NoneAssumption
    <3>3. job \in [Worker -> Job]
      BY DEF TypeInv, TypeOK
    <3> HIDE DEF value
    <3> QED BY <2>1, <3>1, <3>2, <3>3, KeepTypes DEF value
  <2>4. TypeOK'
    BY <1>1, <2>3 DEF TypeInv, TypeOK, LockInv, SubmitRead, journalVars, candidateVars, answerVars, boundVars
  <2>5. Created'
    BY <1>1, <2>3 DEF TypeInv, Created, SubmitRead, candidateVars
  <2>6. Carried' /\ DownIdle'
    BY <1>1, <2>3 DEF TypeInv, TypeOK, Carried, DownIdle, SubmitRead, Goto, journalVars
  <2> QED BY <2>4, <2>5, <2>6 DEF TypeInv
<1>2. CASE \E c \in CandId : pc[p] = "submit.append" /\ WritePending(p, c)
             /\ (SubmitAppend(p) \/ SubmitFails(p))
  <2>1. PICK c \in CandId : pc[p] = "submit.append" /\ WritePending(p, c)
                              /\ (SubmitAppend(p) \/ SubmitFails(p))
    BY <1>2
  <2>2. /\ copies' \in [CandId -> Record \cup {None}]
        /\ pending' \in SUBSET CandId
        /\ \A d \in CandId : copies[d] # None => copies'[d] # None
        /\ \A d \in pending' : copies'[d] # None
    BY <2>1, WritePendingTypes
  <2>3. Return(p) /\ UNCHANGED <<up, journalVars, row, applied, denied, audit, answer, approved>>
    BY <2>1 DEF SubmitAppend, SubmitFails, answerVars
  <2>4. submitted' \in SUBSET CandId /\ left' \in [Kind -> Nat] /\ faults' \in Nat /\ crashes' \in Nat
    BY <2>1 DEF SubmitAppend, SubmitFails, Fault, TypeInv, TypeOK, boundVars, answerVars
  <2>5. job' \in [Worker -> Job] /\ job'[p] = NoJob /\ pc'[p] = "idle"
        /\ \A q \in Worker \ {p} : job'[q] = job[q] /\ pc'[q] = pc[q]
    BY <2>3, NoJobIsJob DEF TypeInv, TypeOK, Return, Keep, Goto
  <2>6. TypeOK'
    BY <2>2, <2>3, <2>4, <2>5 DEF TypeInv, TypeOK, LockInv, journalVars
  <2>7. Created'
    <3>1. \A q \in Worker : job[q].batch \in SUBSET CandId
      BY DEF TypeInv, TypeOK, Job
    <3> QED BY <2>2, <2>3, <2>5, <3>1 DEF TypeInv, TypeOK, Created, NoJob
  <2>8. Carried' /\ DownIdle'
    BY <2>3, <2>5 DEF TypeInv, Carried, DownIdle, journalVars
  <2> QED BY <2>6, <2>7, <2>8 DEF TypeInv
<1>3. CASE SubmitFails(p) /\ UNCHANGED <<copies, pending>>
  <2>1. job' \in [Worker -> Job] /\ Created' /\ Carried' /\ DownIdle'
    BY <1>3, ReturnTypes DEF SubmitFails, journalVars
  <2>2. TypeOK'
    BY <1>3, <2>1 DEF TypeInv, TypeOK, LockInv, SubmitFails, Fault, journalVars, answerVars
  <2> QED BY <2>1, <2>2 DEF TypeInv
<1> QED BY <1>1, <1>2, <1>3 DEF SubmitAppend, SubmitFails

\* a list and a resolve,
LEMMA ResolveTypes ==
  ASSUME TypeInv, LockInv', NEW p \in Worker,
         ResolveRead(p) \/ MoveApplied(p) \/ MoveDenied(p) \/ RemovePending(p) \/ MoveFails(p)
  PROVE  TypeInv'
<1>1. CASE ResolveRead(p)
  <2>1. PICK accepted \in SUBSET pending :
          Keep(p, [job[p] EXCEPT !.batch = accepted, !.deny = NewDenied(accepted)])
    BY <1>1 DEF ResolveRead
  <2>2. job' \in [Worker -> Job] /\ job'[p].batch = accepted
        /\ \A q \in Worker \ {p} : job'[q] = job[q]
    <3> DEFINE value == [job[p] EXCEPT !.batch = accepted, !.deny = NewDenied(accepted)]
    <3>1. accepted \in SUBSET CandId /\ NewDenied(accepted) \in SUBSET CandId
      BY DEF TypeInv, TypeOK, NewDenied
    <3>2. job \in [Worker -> Job]
      BY DEF TypeInv, TypeOK
    <3>3. value \in Job /\ value.batch = accepted
      BY <3>1, <3>2 DEF Job
    <3> HIDE DEF value
    <3> QED BY <2>1, <3>2, <3>3, KeepTypes DEF value
  <2>3. TypeOK'
    BY <1>1, <2>2 DEF TypeInv, TypeOK, LockInv, ResolveRead, journalVars, candidateVars, answerVars, boundVars
  <2>4. Created'
    BY <1>1, <2>2 DEF TypeInv, Created, ResolveRead, candidateVars
  <2>5. Carried' /\ DownIdle'
    BY <1>1, <2>2 DEF TypeInv, TypeOK, Carried, DownIdle, ResolveRead, Goto, journalVars
  <2> QED BY <2>3, <2>4, <2>5 DEF TypeInv
<1>2. CASE MoveApplied(p) \/ MoveDenied(p)
  <2>1. /\ applied' \in SUBSET CandId /\ denied' \in SUBSET CandId
        /\ \A c \in applied' : copies[c] # None
    BY <1>2 DEF TypeInv, TypeOK, Created, MoveApplied, MoveDenied, Job
  <2>2. TypeOK'
    BY <1>2, <2>1 DEF TypeInv, TypeOK, LockInv, MoveApplied, MoveDenied, journalVars, answerVars, boundVars
  <2>3. Created'
    BY <1>2, <2>1 DEF TypeInv, Created, MoveApplied, MoveDenied
  <2>4. Carried' /\ DownIdle'
    BY <1>2 DEF TypeInv, TypeOK, Carried, DownIdle, MoveApplied, MoveDenied, Goto, journalVars
  <2> QED BY <2>2, <2>3, <2>4 DEF TypeInv
<1>3. CASE RemovePending(p)
  <2>1. job' \in [Worker -> Job] /\ Created' /\ Carried' /\ DownIdle'
    BY <1>3, ReturnTypes DEF RemovePending, journalVars
  <2>2. approved' \in SUBSET CandId
    BY <1>3 DEF TypeInv, TypeOK, RemovePending, Job
  <2>3. TypeOK'
    BY <1>3, <2>1, <2>2 DEF TypeInv, TypeOK, LockInv, RemovePending, journalVars, boundVars
  <2> QED BY <2>1, <2>3 DEF TypeInv
<1>4. CASE MoveFails(p)
  <2>1. applied' \in {applied, {}} /\ pending' \in {pending, {}}
    BY <1>4 DEF MoveFails
  <2>2. job' \in [Worker -> Job] /\ Created' /\ Carried' /\ DownIdle'
    BY <1>4, <2>1, ReturnTypes DEF MoveFails, journalVars
  <2>3. TypeOK'
    BY <1>4, <2>1, <2>2 DEF TypeInv, TypeOK, LockInv, MoveFails, Fault, journalVars, answerVars
  <2> QED BY <2>2, <2>3 DEF TypeInv
<1> QED BY <1>1, <1>2, <1>3, <1>4

\* so over every candidate request,
LEMMA CandidateTypes ==
  ASSUME TypeInv, LockInv', NEW p \in Worker, CandidateProgress(p) \/ CandidateFault(p)
  PROVE  TypeInv'
<1>1. CASE CandidateLock(p)
  <2>1. TypeOK'
    BY <1>1 DEF TypeInv, TypeOK, LockInv, CandidateLock, journalVars, candidateVars, answerVars, boundVars
  <2>2. Created' /\ Carried' /\ DownIdle'
    BY <1>1 DEF TypeInv, TypeOK, Created, Carried, DownIdle, CandidateLock, Goto, candidateVars, journalVars
  <2> QED BY <2>1, <2>2 DEF TypeInv
<1>2. CASE SubmitRejected(p) \/ ListRead(p) \/ ResolveRejected(p)
  <2>1. Return(p) /\ UNCHANGED <<up, journalVars, row, candidateVars, answerVars, boundVars>>
    BY <1>2 DEF SubmitRejected, ListRead, ResolveRejected
  <2>2. job' \in [Worker -> Job] /\ Created' /\ Carried' /\ DownIdle'
    BY <2>1, ReturnTypes DEF journalVars, candidateVars
  <2>3. TypeOK'
    BY <2>1, <2>2 DEF TypeInv, TypeOK, LockInv, journalVars, candidateVars, answerVars, boundVars
  <2> QED BY <2>2, <2>3 DEF TypeInv
<1> QED BY <1>1, <1>2, SubmitTypes, ResolveTypes DEF CandidateProgress, CandidateFault

-----------------------------------------------------------------------------
\* CompactionPath.

\* over the planning of a compaction,
LEMMA CompactReadTypes ==
  ASSUME TypeInv, LockInv', NEW p \in Worker, CompactRead(p)
  PROVE  TypeInv'
<1> DEFINE batch == job[p].batch
           value == [job[p] EXCEPT !.lines = ApplySubstitutions(journal, batch, copies),
                                   !.count = AppliedCount(journal, batch, copies)]
<1>1. batch \in SUBSET CandId /\ \A c \in batch : copies[c] \in RecordsOver(RecId, CandId)
  BY RecordIsRecordOver DEF TypeInv, TypeOK, Created, Job
<1>2. journal \in Seq(RecordsOver(RecId, CandId)) /\ IsFiniteSet(RecId)
  BY RecordIsRecordOver, FiniteIdsAssumption DEF TypeInv, TypeOK
<1>3. ApplySubstitutions(journal, batch, copies) \in Seq(Record)
  BY <1>1, <1>2, RecordIsRecordOver, SubstitutionKeepsRecords
<1>4. AppliedCount(journal, batch, copies) \in Nat
  BY <1>1, <1>2, AppliedCountType
<1>5. value \in Job /\ value.batch = batch
  BY <1>3, <1>4 DEF TypeInv, TypeOK, Job
<1>6. job' \in [Worker -> Job] /\ job'[p].batch = batch /\ \A q \in Worker \ {p} : job'[q] = job[q]
  <2>1. job \in [Worker -> Job] /\ Keep(p, value)
    BY DEF CompactRead, TypeInv, TypeOK
  <2> HIDE DEF value
  <2> QED BY <1>5, <2>1, KeepTypes
<1>7. TypeOK'
  BY <1>6 DEF TypeInv, TypeOK, LockInv, CompactRead, journalVars, candidateVars, answerVars, boundVars
<1>8. Created'
  BY <1>6 DEF TypeInv, Created, CompactRead, candidateVars
<1>9. Carried' /\ DownIdle'
  BY <1>6 DEF TypeInv, TypeOK, Carried, DownIdle, CompactRead, Goto, journalVars
<1> QED BY <1>7, <1>8, <1>9 DEF TypeInv

\* The steps that touch the temporary or the journal file.
LEMMA RewriteTypes ==
  ASSUME TypeInv, LockInv', NEW p \in Worker,
         WriteTmp(p) \/ RenameTmp(p) \/ Evict(p) \/ RewriteFails(p)
  PROVE  TypeInv'
<1>1. \A q \in Worker \ {p} : pc[q] # "compact.rename"
  <2>1. pc[p] \in CompactHolding
    BY DEF WriteTmp, RenameTmp, Evict, RewriteFails, CompactHolding
  <2> QED BY <2>1, CompactionIsAlone DEF TypeInv, CompactHolding
<1>2. job[p].lines \in Seq(Record)
  BY DEF TypeInv, TypeOK, Job
<1>3. CASE WriteTmp(p)
  <2>1. TypeOK'
    BY <1>2, <1>3 DEF TypeInv, TypeOK, LockInv, WriteTmp, candidateVars, answerVars, boundVars
  <2>2. Created' /\ DownIdle'
    BY <1>3 DEF TypeInv, TypeOK, Created, DownIdle, WriteTmp, Goto, candidateVars
  <2>3. Carried'
    BY <1>1, <1>2, <1>3, NoneAssumption DEF TypeInv, TypeOK, Carried, WriteTmp, Goto
  <2> QED BY <2>1, <2>2, <2>3 DEF TypeInv
<1>4. CASE RenameTmp(p)
  <2>1. tmp \in Seq(Record)
    BY <1>4 DEF TypeInv, TypeOK, Carried, RenameTmp
  <2>2. TypeOK'
    BY <1>4, <2>1 DEF TypeInv, TypeOK, LockInv, RenameTmp, candidateVars, answerVars, boundVars
  <2>3. Created' /\ DownIdle'
    BY <1>4 DEF TypeInv, TypeOK, Created, DownIdle, RenameTmp, Goto, candidateVars
  <2>4. Carried'
    BY <1>1, <1>4 DEF TypeInv, TypeOK, Carried, RenameTmp, Goto
  <2> QED BY <2>2, <2>3, <2>4 DEF TypeInv
<1>5. CASE Evict(p)
  <2>1. TypeOK'
    BY <1>5 DEF TypeInv, TypeOK, LockInv, Evict, candidateVars, answerVars, boundVars
  <2>2. Created' /\ DownIdle' /\ Carried'
    BY <1>5 DEF TypeInv, TypeOK, Created, DownIdle, Carried, Evict, Goto, candidateVars
  <2> QED BY <2>1, <2>2 DEF TypeInv
<1>6. CASE RewriteFails(p)
  <2>1. job' \in [Worker -> Job] /\ job'[p].batch = {} /\ pc'[p] = "idle"
        /\ \A q \in Worker \ {p} : job'[q] = job[q] /\ pc'[q] = pc[q]
    BY <1>6, NoJobIsJob DEF TypeInv, TypeOK, RewriteFails, Return, Keep, Goto, NoJob
  <2>2. TypeOK'
    <3>1. tmp' \in Seq(Record) \cup {None}
      <4>1. <<>> \in Seq(Record)
        OBVIOUS
      <4> QED BY <1>6, <4>1 DEF TypeInv, TypeOK, RewriteFails, Leftovers
    <3> QED BY <1>6, <2>1, <3>1 DEF TypeInv, TypeOK, LockInv, RewriteFails, Fault, candidateVars, answerVars
  <2>3. Created' /\ DownIdle'
    BY <1>6, <2>1 DEF TypeInv, Created, DownIdle, RewriteFails, candidateVars
  <2>4. Carried'
    BY <1>1, <1>6, <2>1 DEF TypeInv, Carried, RewriteFails
  <2> QED BY <2>2, <2>3, <2>4 DEF TypeInv
<1> QED BY <1>3, <1>4, <1>5, <1>6

\* The clean-up steps.
LEMMA CleanupTypes ==
  ASSUME TypeInv, LockInv', NEW p \in Worker,
         DeleteApplied(p) \/ RebuildIndex(p) \/ AuditAppend(p) \/ CleanupFails(p)
  PROVE  TypeInv'
<1>1. CASE DeleteApplied(p)
  <2>1. TypeOK'
    BY <1>1 DEF TypeInv, TypeOK, LockInv, DeleteApplied, Uncompacted, journalVars, answerVars, boundVars
  <2>2. Created' /\ DownIdle' /\ Carried'
    BY <1>1 DEF TypeInv, TypeOK, Created, DownIdle, Carried, DeleteApplied, Uncompacted, Goto, journalVars
  <2> QED BY <2>1, <2>2 DEF TypeInv
<1>2. CASE RebuildIndex(p)
  <2>1. job[p].lines \in Seq(Record)
    BY DEF TypeInv, TypeOK, Job
  <2>2. row' \in SUBSET [id : RecId, by : Seq(CandId)]
    BY <1>2, <2>1, ContentsType DEF RebuildIndex
  <2>3. TypeOK'
    BY <1>2, <2>2 DEF TypeInv, TypeOK, LockInv, RebuildIndex, journalVars, candidateVars, answerVars, boundVars
  <2>4. Created' /\ DownIdle' /\ Carried'
    BY <1>2 DEF TypeInv, TypeOK, Created, DownIdle, Carried, RebuildIndex, Goto, journalVars, candidateVars
  <2> QED BY <2>3, <2>4 DEF TypeInv
<1>3. CASE AuditAppend(p)
  <2>1. job' \in [Worker -> Job] /\ Created' /\ Carried' /\ DownIdle'
    BY <1>3, ReturnTypes DEF AuditAppend, journalVars
  <2>2. audit' \in Nat
    BY <1>3 DEF TypeInv, TypeOK, AuditAppend, Job
  <2>3. TypeOK'
    BY <1>3, <2>1, <2>2 DEF TypeInv, TypeOK, LockInv, AuditAppend, journalVars, answerVars, boundVars
  <2> QED BY <2>1, <2>3 DEF TypeInv
<1>4. CASE CleanupFails(p) /\ pc[p] = "compact.audit"
  <2>1. job' \in [Worker -> Job] /\ Created' /\ Carried' /\ DownIdle'
    BY <1>4, ReturnTypes DEF CleanupFails, journalVars
  <2>2. audit' \in Nat
    BY <1>4 DEF TypeInv, TypeOK, CleanupFails, Job
  <2>3. TypeOK'
    BY <1>4, <2>1, <2>2 DEF TypeInv, TypeOK, LockInv, CleanupFails, Fault, journalVars, answerVars
  <2> QED BY <2>1, <2>3 DEF TypeInv
<1>5. CASE CleanupFails(p) /\ pc[p] # "compact.audit"
  <2>1. TypeOK'
    BY <1>5 DEF TypeInv, TypeOK, LockInv, CleanupFails, Uncompacted, Fault, journalVars, answerVars
  <2>2. Created' /\ DownIdle' /\ Carried'
    BY <1>5 DEF TypeInv, TypeOK, Created, DownIdle, Carried, CleanupFails, Uncompacted, Goto, journalVars
  <2> QED BY <2>1, <2>2 DEF TypeInv
<1> QED BY <1>1, <1>2, <1>3, <1>4, <1>5

\* over a whole compaction,
LEMMA CompactionTypes ==
  ASSUME TypeInv, LockInv', NEW p \in Worker, CompactProgress(p) \/ CompactFault(p)
  PROVE  TypeInv'
<1>1. CASE CompactList(p) /\ applied # {}
  <2> DEFINE value == [job[p] EXCEPT !.batch = applied]
  <2>1. value \in Job /\ value.batch = applied
    BY DEF TypeInv, TypeOK, Job
  <2>2. job' \in [Worker -> Job] /\ job'[p].batch = applied
        /\ \A q \in Worker \ {p} : job'[q] = job[q]
    <3>1. job \in [Worker -> Job] /\ Keep(p, value)
      BY <1>1 DEF CompactList, TypeInv, TypeOK
    <3> HIDE DEF value
    <3> QED BY <2>1, <3>1, KeepTypes
  <2>3. TypeOK'
    BY <1>1, <2>2 DEF TypeInv, TypeOK, LockInv, CompactList, journalVars, candidateVars, answerVars, boundVars
  <2>4. Created'
    BY <1>1, <2>2 DEF TypeInv, Created, CompactList, candidateVars
  <2>5. Carried' /\ DownIdle'
    BY <1>1, <2>2 DEF TypeInv, TypeOK, Carried, DownIdle, CompactList, Goto, journalVars
  <2> QED BY <2>3, <2>4, <2>5 DEF TypeInv
<1>2. CASE \/ CompactList(p) /\ applied = {}
           \/ CompactListFails(p) \/ CompactUnreadable(p) \/ CompactCancel(p)
  <2>1. /\ Return(p) /\ UNCHANGED <<up, journalVars, row, candidateVars, answerVars>>
        /\ left' \in [Kind -> Nat] /\ faults' \in Nat /\ crashes' \in Nat
    BY <1>2 DEF CompactList, CompactListFails, CompactUnreadable, CompactCancel, Fault, boundVars,
                TypeInv, TypeOK
  <2>2. job' \in [Worker -> Job] /\ Created' /\ Carried' /\ DownIdle'
    BY <2>1, ReturnTypes DEF journalVars, candidateVars
  <2>3. TypeOK'
    BY <2>1, <2>2 DEF TypeInv, TypeOK, LockInv, journalVars, candidateVars, answerVars
  <2> QED BY <2>2, <2>3 DEF TypeInv
<1>3. CASE CompactLockJournal(p) \/ CompactLockCandidates(p)
  <2>1. TypeOK'
    BY <1>3 DEF TypeInv, TypeOK, LockInv, CompactLockJournal, CompactLockCandidates,
                journalVars, candidateVars, answerVars, boundVars
  <2>2. Created' /\ Carried' /\ DownIdle'
    BY <1>3 DEF TypeInv, TypeOK, Created, Carried, DownIdle, CompactLockJournal,
                CompactLockCandidates, Goto, candidateVars, journalVars
  <2> QED BY <2>1, <2>2 DEF TypeInv
<1> QED BY <1>1, <1>2, <1>3, CompactReadTypes, RewriteTypes, CleanupTypes
        DEF CompactProgress, CompactFault

-----------------------------------------------------------------------------
\* The process.

\* and over crash, restart and cancellation.
LEMMA ProcessTypes ==
  ASSUME TypeInv, LockInv', Crash \/ Restart \/ RecoveryFails
  PROVE  TypeInv'
<1>1. CASE Crash
  <2>1. pc' = [p \in Worker |-> "idle"] /\ job' = [p \in Worker |-> NoJob]
    BY <1>1 DEF Crash
  <2>2. <<>> \in Seq(Record)
    OBVIOUS
  <2>3. TypeOK'
    <3>1. job' \in [Worker -> Job]
      BY <2>1, NoJobIsJob
    <3>2. tear' \in {"none", "tail", "inner"} /\ fd' \in {"none", "current", "stale"}
          /\ crashes' \in Nat
      BY <1>1 DEF TypeInv, TypeOK, Crash
    <3>3. tmp' \in Seq(Record) \cup {None}
      BY <1>1, <2>2 DEF TypeInv, TypeOK, Crash
    <3> QED BY <1>1, <3>1, <3>2, <3>3 DEF TypeInv, TypeOK, LockInv, Crash, candidateVars, answerVars
  <2>4. Created' /\ Carried' /\ DownIdle'
    BY <1>1, <2>1 DEF TypeInv, Created, Carried, DownIdle, Crash, candidateVars, NoJob
  <2> QED BY <2>3, <2>4 DEF TypeInv
<1>2. CASE Restart \/ RecoveryFails
  <2>1. left' \in [Kind -> Nat] /\ faults' \in Nat /\ crashes' \in Nat
    BY <1>2 DEF TypeInv, TypeOK, Restart, RecoveryFails, Fault, boundVars
  <2>2. TypeOK'
    BY <1>2, <2>1 DEF TypeInv, TypeOK, LockInv, Restart, RecoveryFails, workerVars, journalVars,
                      candidateVars, answerVars
  <2>3. Created' /\ Carried' /\ DownIdle'
    BY <1>2 DEF TypeInv, Created, Carried, DownIdle, Restart, RecoveryFails, candidateVars, workerVars
  <2> QED BY <2>2, <2>3 DEF TypeInv
<1> QED BY <1>1, <1>2

\* Every step preserves types.
LEMMA NextTypes == TypeInv /\ [Next]_vars => TypeInv'
<1> SUFFICES ASSUME TypeInv, [Next]_vars PROVE TypeInv'
  OBVIOUS
<1>1. LockInv'
  BY NextLocks DEF TypeInv
<1>2. ASSUME NEW p \in Worker, NEW k \in Kind, Arrive(p, k) PROVE TypeInv'
  BY <1>1, <1>2, ArriveTypes
<1>3. ASSUME NEW p \in Worker, Progress(p) PROVE TypeInv'
  BY <1>1, <1>3, AppendTypes, CandidateTypes, CompactionTypes DEF Progress
<1>4. ASSUME NEW p \in Worker, LockFails(p) PROVE TypeInv'
  <2>1. job' \in [Worker -> Job] /\ Created' /\ Carried' /\ DownIdle'
    BY <1>1, <1>4, ReturnTypes DEF LockFails, journalVars, candidateVars
  <2>2. TypeOK'
    BY <1>1, <1>4, <2>1 DEF TypeInv, TypeOK, LockInv, LockFails, Fault, journalVars, candidateVars, answerVars
  <2> QED BY <1>1, <2>1, <2>2 DEF TypeInv
<1>5. ASSUME NEW p \in Worker, Failure(p) PROVE TypeInv'
  BY <1>1, <1>4, <1>5, AppendTypes, CandidateTypes, CompactionTypes DEF Failure
<1>6. CASE Crash \/ Restart \/ RecoveryFails
  BY <1>1, <1>6, ProcessTypes
<1>7. CASE UNCHANGED vars
  BY <1>7 DEF TypeInv, TypeOK, LockInv, LockDiscipline, Created, Carried, DownIdle, vars,
             workerVars, journalVars, candidateVars, lockVars, answerVars, boundVars
<1> QED BY <1>2, <1>3, <1>5, <1>6, <1>7 DEF Next

\* What a handler carries and what the files name exists, at every step of every
\* behaviour.
THEOREM TypeInvAlways == Spec => []TypeInv
<1> QED BY InitTypes, NextTypes, PTL DEF Spec

\* Every variable stays within its type, whatever requests, failures and crashes
\* come: no handler indexes a record it does not have, no compaction renames a
\* temporary that is not there (compact.go steps 4 and 5, jsonl.go ReplaceFile).
THEOREM PartitionTypes == Spec => []TypeOK
<1>1. TypeInv => TypeOK
  BY DEF TypeInv
<1> QED BY <1>1, TypeInvAlways, PTL
=============================================================================

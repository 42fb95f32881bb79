---------------------------- MODULE Substitution ----------------------------
(***************************************************************************)
(* The pure part of a compaction: how the records of one partition are     *)
(* rewritten by a batch of applied candidates                              *)
(* (internal/domain/command/compaction/compact.go, applySubstitutions).    *)
(*                                                                         *)
(* A record is [id, rev, by].  "by" stands for its type, tags and data:    *)
(* the candidates whose replacements led to them, oldest first, <<>> for   *)
(* the record as it was appended.  A candidate's record is a copy of the   *)
(* one its author read, so the copy's "by" is the version the author saw.  *)
(***************************************************************************)
EXTENDS Integers, Sequences, SequencesExt

Ids(records) == {records[k].id : k \in DOMAIN records}

\* The line ReadRecord returns for id: the first one that carries it.
FirstLine(records, id) ==
  CHOOSE k \in DOMAIN records :
    /\ records[k].id = id
    /\ \A j \in DOMAIN records : records[j].id = id => k <= j

\* Lines written before revisions existed carry none: they count as revision 1.
NormalizedRevision(revision) == IF revision < 1 THEN 1 ELSE revision

NextRevision(revision) == NormalizedRevision(revision) + 1

\* The candidate c, made from the copy of a record, at the revision after "revision".
Replacement(copy, revision, c) ==
  [id |-> copy.id, rev |-> NextRevision(revision), by |-> Append(copy.by, c)]

\* Faulty variants: no compare at all; a candidate from an older revision accepted.
AnyRevision(current, copy) == TRUE
OlderRevision(current, copy) ==
  NormalizedRevision(copy.rev) <= NormalizedRevision(current.rev)

\* The compare of the compare-and-swap.
SameRevision(current, copy) ==
  NormalizedRevision(copy.rev) = NormalizedRevision(current.rev)

\* The swap: a candidate made from another revision leaves the record alone.
ApplyCandidate(current, copy, c) ==
  IF SameRevision(current, copy) THEN Replacement(copy, current.rev, c) ELSE current

-----------------------------------------------------------------------------
\* copies[c] is the record inside candidate c; batch is a set of candidates,
\* at most one for each record (what resolve guarantees of an applied file).

Targets(batch, copies) == {copies[c].id : c \in batch}

CandidateFor(id, batch, copies) == CHOOSE c \in batch : copies[c].id = id

\* The existing lines, in their order.
Rewritten(records, batch, copies) ==
  [k \in DOMAIN records |->
     IF records[k].id \in Targets(batch, copies)
     THEN LET c == CandidateFor(records[k].id, batch, copies)
          IN  ApplyCandidate(records[k], copies[c], c)
     ELSE records[k]]

\* The candidates without a line, appended at the end.
Unmatched(records, batch, copies) ==
  LET missing == SetToSeq(Targets(batch, copies) \ Ids(records))
  IN  [k \in DOMAIN missing |->
         LET c == CandidateFor(missing[k], batch, copies)
         IN  Replacement(copies[c], copies[c].rev, c)]

ApplySubstitutions(records, batch, copies) ==
  Rewritten(records, batch, copies) \o Unmatched(records, batch, copies)

\* Faulty variant: skipped candidates counted too.
TargetCount(records, batch, copies) == Cardinality(Targets(batch, copies))

\* appliedCount, the number the audit event reports: the candidates that took effect.
AppliedCount(records, batch, copies) ==
  Cardinality({k \in DOMAIN records :
                 /\ records[k].id \in Targets(batch, copies)
                 /\ SameRevision(records[k], copies[CandidateFor(records[k].id, batch, copies)])})
  + Cardinality(Targets(batch, copies) \ Ids(records))
=============================================================================

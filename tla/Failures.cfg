SPECIFICATION QuerySpec
CONSTANTS
  p1 = p1
  p2 = p2
  p3 = p3
  r1 = r1
  r2 = r2
  r3 = r3
  c1 = c1
  c2 = c2
  None = None
  Worker = {p1, p2}
  RecId = {r1, r2}
  CandId = {c1, c2}
  InitialJournal <- LegacyLine
  Quota <- FailureQuota
  MaxFaults = 1
  MaxCrashes = 1
  TornWrites = FALSE
SYMMETRY Symmetry
INVARIANTS
  TypeOK
  RevisionCounts
  CandidateConserved
  AuditCountsReplacements
PROPERTIES
  RewriteIsAtomic
  HistoryGrows
  AppliedUntilSettled
  QueryFindsRecord
  QueryFindsVersion
  ImplementsJournal
CHECK_DEADLOCK FALSE

SPECIFICATION DurableSpec
CONSTANTS
  p1 = p1
  p2 = p2
  r1 = r1
  r2 = r2
  r3 = r3
  c1 = c1
  c2 = c2
  None = None
  Worker = {p1, p2}
  RecId = {r1, r2}
  CandId = {c1, c2}
  InitialJournal <- LegacyLine
  Quota <- PowerQuota
  MaxFaults = 1
  MaxCrashes = 1
  TornWrites = TRUE
  OrderedMetadata = TRUE
SYMMETRY Symmetry
INVARIANTS
  LockDiscipline
  DurableTypeOK
  CandidateConserved
  RevisionCounts
  DecidedStaysDecided
  ReplacedBeforeDeleted
  CompactedSurvives
CHECK_DEADLOCK FALSE

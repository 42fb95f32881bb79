SPECIFICATION QuerySpec
CONSTANTS
  p1 = p1
  p2 = p2
  p3 = p3
  r1 = r1
  r2 = r2
  r3 = r3
  c1 = c1
  c2 = c2
  None = None
  Worker = {p1, p2, p3}
  RecId = {r1, r2, r3}
  CandId = {c1, c2}
  InitialJournal <- LegacyLine
  Quota <- InterleavingQuota
  MaxFaults = 0
  MaxCrashes = 0
  TornWrites = FALSE
SYMMETRY Symmetry
INVARIANTS
  NoLostRecord
  ResolveAtomic
  DeniedNeverApplied
  IndexRepairable
  CreatedIsIndexed
PROPERTIES
  SubmitCopiesCurrent
  QueryFindsRecord
  QueryFindsVersion
CHECK_DEADLOCK FALSE

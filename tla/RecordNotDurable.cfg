SPECIFICATION DurableSpec
CONSTANTS
  p1 = p1
  p2 = p2
  r1 = r1
  r2 = r2
  r3 = r3
  c1 = c1
  c2 = c2
  None = None
  Worker = {p1}
  RecId = {r1, r2}
  CandId = {c1}
  InitialJournal <- LegacyLine
  Quota <- OneOfEach
  MaxFaults = 0
  MaxCrashes = 1
  TornWrites = FALSE
  OrderedMetadata = TRUE
SYMMETRY Symmetry
INVARIANTS
  NoLostRecord
CHECK_DEADLOCK FALSE

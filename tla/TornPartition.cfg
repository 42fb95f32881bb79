SPECIFICATION Spec
CONSTANTS
  p1 = p1
  p2 = p2
  p3 = p3
  r1 = r1
  r2 = r2
  r3 = r3
  c1 = c1
  c2 = c2
  None = None
  Worker = {p1}
  RecId = {r1, r2, r3}
  CandId = {c1}
  InitialJournal <- LegacyLine
  Quota <- OneOfEach
  MaxFaults = 1
  MaxCrashes = 0
  TornWrites = TRUE
SYMMETRY Symmetry
INVARIANTS
  AnsweredReadable
CHECK_DEADLOCK FALSE

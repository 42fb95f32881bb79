SPECIFICATION Spec
CONSTANTS
  a = a
  note = note
  task = task
  None = None
  RecId = {r1, r2, r3}
  Tag = {a}
  Type = {note, task}
  Labels <- TwoLabels
  Instant <- Ticks
  Zone <- Zones
  MilliTicks = 2
  DayTicks = 4
  EndOfText = 12
  MaxFiles = 2
  Limit = 1
SYMMETRY Symmetry
INVARIANTS
  TypeOK
  SelectionMissesNothing
  AnswerIsNewest

SPECIFICATION Spec
CONSTANTS
  None = None
  Process = {old, new}
  Slot = {s1, s2}
  RecId = {r1, r2, r3}
  MaxStarts = 3
  Quota <- Requests
  MaxKills = 1
SYMMETRY Symmetry
INVARIANTS
  TypeOK
  OwnerHandles
  DescriptorsInUse
  RecoverySpares
  AnsweredInFile
PROPERTIES
  NothingVisibleLost
CHECK_DEADLOCK FALSE

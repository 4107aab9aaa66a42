SPECIFICATION Spec
CONSTANTS
  MaxWriteOps = 4
  Ptr = {p1, p2}
  NULL = NULL
  EntrySizes <- MCEntrySizes
  SizeMod = 8
  StrayWords <- MCStrayWords
INVARIANTS
  TypeOK
  SlotsInUse
  SizeBeforeWrap
  FindAnswersForConcatenation
PROPERTY
  RefinesRecentWrites

SPECIFICATION Spec
CONSTANTS
  MaxWriteOps = 2
  NULL = NULL
  SizeMod <- MCSizeMod
  StrayWords <- MCStrayWords
  Block = {b1, b2, b3, b4, b5}
  File = {f1}
  Task = {t1, t2}
  Nobody = Nobody
  FREE = FREE
  NL = "n"
  JUNK = "?"
  UserData <- MixedData
  ReadCounts <- MixedCounts
  SeekArgs <- NoSeeks
  SeekToArgs <- NoSeekTos
  MaxCalls = 4
CHECK_DEADLOCK FALSE
SYMMETRY MCSymmetry
INVARIANTS
  TypeOK
  MutualExclusion
  HeapOwnership
PROPERTIES
  LeaksOnlyAt
  ReadsWhatWasWritten
  ImplementsCommandLog

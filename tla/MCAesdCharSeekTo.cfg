SPECIFICATION Spec
CONSTANTS
  MaxWriteOps = 2
  NULL = NULL
  SizeMod <- MCSizeMod
  StrayWords <- MCStrayWords
  Block = {b1, b2, b3, b4}
  FREE = FREE
  File = {f1}
  Task = {t1}
  Nobody = Nobody
  NL = "n"
  JUNK = "?"
  UserData <- WholeData
  ReadCounts <- NoCounts
  SeekArgs <- NoSeeks
  SeekToArgs <- SomeSeekTos
  MaxCalls = 4
CHECK_DEADLOCK FALSE
PROPERTY
  SeekToFindsByte

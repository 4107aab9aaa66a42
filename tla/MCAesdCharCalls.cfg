SPECIFICATION FairSpec
CONSTANTS
  MaxWriteOps = 3
  NULL = NULL
  SizeMod <- MCSizeMod
  StrayWords <- MCStrayWords
  Block = {b1, b2, b3}
  FREE = FREE
  File = {f1}
  Task = {t1, t2}
  Nobody = Nobody
  NL = "n"
  JUNK = "?"
  UserData <- WholeData
  ReadCounts <- WholeCounts
  SeekArgs <- SomeSeeks
  SeekToArgs <- SomeSeekTos
  MaxCalls = 3
CHECK_DEADLOCK FALSE
PROPERTIES
  LockKeptOnlyByFailedSeek
  SeekStaysInText
  SeekToFindsByteUnwrapped
  CallsReturn

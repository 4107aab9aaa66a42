SPECIFICATION FairSpec
CONSTANTS
  Handler = {c1,c2}
  Nobody = Nobody
  DESTROYED = DESTROYED
  Fds <- MCFds
  BufLen = 1
  Script <- MCScript
  MaxActive = 2
CHECK_DEADLOCK FALSE
INVARIANTS
  TypeOK
  MutexNotAbandoned
  ReplyIsWholeFile
  NothingLeftOpen
  FileIsMergeOfChunks
  RepliesComeFromFile
PROPERTY
  HandlersComplete

SPECIFICATION FairSpec
CONSTANTS
  c1 = c1
  c2 = c2
  OLD = OLD
  Handler = {c1, c2}
  Nobody = Nobody
  DESTROYED = DESTROYED
  NL = NL
  JUNK = JUNK
  Fds <- MCFds
  BufLen = 3
  Script <- MCScript
  Capacity = 2
  Stored <- MCStored
  Unfinished <- MCUnfinished
  Asks <- MCAsks
CHECK_DEADLOCK FALSE
INVARIANTS
  DeviceIsMergeOfPieces
  ReplyStartsWhereAsked
  SelfWaitOnlyAfterPartOfCommand
  SocketsClosed
PROPERTY
  OnlyStuckClientsDelayExit

SPECIFICATION MCSpec
CONSTANTS
  Thread = {t1, t2}
  Nobody = Nobody
  DESTROYED = DESTROYED
  Process = {p1, p2, p3}
  Main = p1
  MaxCalls = 3
CHECK_DEADLOCK FALSE
INVARIANTS
  FlagTellsSuccess
  OnlyRedirectReturnsTwice
  TrueMeansSuccess
PROPERTIES
  ThreadsEnd
  CallsReturn

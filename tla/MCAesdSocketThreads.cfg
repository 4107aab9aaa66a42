SPECIFICATION FairSpec
CONSTANTS
  Thread = {t1, t2, t3}
  Nobody = Nobody
  DESTROYED = DESTROYED
  MaxSignals = 2
CHECK_DEADLOCK FALSE
INVARIANTS
  NoUseAfterFree
  ExitLeavesNoThread
PROPERTY
  SignalEndsProgram

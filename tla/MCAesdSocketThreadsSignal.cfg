SPECIFICATION FairSpec
CONSTANTS
  Thread = {t1}
  Nobody = Nobody
  DESTROYED = DESTROYED
  MaxSignals = 1
CHECK_DEADLOCK FALSE
PROPERTY
  CaughtSignalExits

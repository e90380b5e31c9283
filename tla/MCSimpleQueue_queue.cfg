SPECIFICATION FairSpec
CONSTANTS
  Threads = {t1, t2, t3}
  Nobody = Nobody
  NoValue = NoValue
  Scripts <- MCScripts
  MaxCalls = 2
  MaxSpurious = 1
INVARIANTS NeverPopsEmpty WakeupsCoverItems
PROPERTIES Linearizable Quiescence
CHECK_DEADLOCK FALSE

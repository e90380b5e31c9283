SPECIFICATION FairSpec
CONSTANTS
  Handles = {j1, j2, tmp, plain}
  Joining = {j1, j2, tmp}
  Temporaries = {tmp}
  Threads = {t1, t2, t3}
  NoThread = NoThread
  Throwing = {t3}
INVARIANTS HeldOnce OnlyPlainThreadsTerminate
PROPERTIES AssignTransfers ScopeEnds
CHECK_DEADLOCK FALSE

SPECIFICATION Spec
CONSTANTS
  Threads = {t1, t2}
  Mutexes = {m1, m2, m3}
  Nobody = Nobody
  NoMutex = NoMutex
  MaxUlong = 3
  Word = 2
SYMMETRY MCSymmetry
INVARIANTS IndexRestored
CHECK_DEADLOCK FALSE

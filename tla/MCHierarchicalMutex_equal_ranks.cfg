SPECIFICATION Spec
CONSTANTS
  Threads = {t1, t2}
  Mutexes = {m1, m2, m3}
  Nobody = Nobody
  NoMutex = NoMutex
  MaxUlong = 3
  Word = 4
SYMMETRY MCSymmetry
INVARIANTS AbortJustified
CHECK_DEADLOCK FALSE

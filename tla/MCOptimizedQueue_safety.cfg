SPECIFICATION Spec
CONSTANTS
  Threads = {t1, t2, t3}
  Nobody = Nobody
  NoValue = NoValue
  Nodes = {n1, n2, n3, n4}
  Null = Null
  Scripts <- MCScripts
  Unlucky = {t1, t2, t3}
  MaxCalls = 2
  MaxSpurious = 1
SYMMETRY MCSymmetry
INVARIANTS TypeOK SingleOwner NoDataRace StuckOnlyAtRest
PROPERTIES Linearizable DestructionIsFlat
CHECK_DEADLOCK FALSE

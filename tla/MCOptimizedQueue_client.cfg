SPECIFICATION FairSpec
CONSTANTS
  Threads = {t1, t2}
  Nobody = Nobody
  NoValue = NoValue
  Nodes = {n1, n2, n3}
  Null = Null
  Scripts <- MCClientScripts
  Unlucky = {}
  MaxCalls = 2
  MaxSpurious = 0
PROPERTIES Termination
CHECK_DEADLOCK FALSE

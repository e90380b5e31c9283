SPECIFICATION FairSpec
CONSTANTS
  Threads = {main, t1, t2}
  Main = main
  Nobody = Nobody
  MaxKey = 1
  Values = {v1, v2}
  Default = Default
  Absent = Absent
  MainScripts <- MCMainScripts
  Scripts <- MCScripts
  Unlucky = {t1}
INVARIANTS ReadersFind
PROPERTIES Linearizable CallsReturn
CHECK_DEADLOCK FALSE

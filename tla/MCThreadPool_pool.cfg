SPECIFICATION FairSpec
CONSTANTS
  Clients = {main, other}
  Owner = main
  Nobody = Nobody
  NoTask = NoTask
  Scripts <- MCScripts
  MaxCalls = 2
  MaxThreads = 2
  MaxSpurious = 1
  MayFail = {"thread", "push_back", "push"}
INVARIANTS TaskAccounting NoLostCompletion QuietDestructionIsSafe AtMostOneLateTask
PROPERTIES WaitAllReturns ShutdownEnds ImplementsTaskGroup UngrownVectorHangs HopelessWaitsHang
CHECK_DEADLOCK FALSE

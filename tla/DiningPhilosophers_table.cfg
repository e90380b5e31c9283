SPECIFICATION FairSpec
CONSTANTS
  SeatCount = 4
  Diners = 5
  Nobody = Nobody
INVARIANTS DeadlockNeedsFullTable TableOutlivesDiners
PROPERTIES NobodyStarves OnlyCirclesHangMain
CHECK_DEADLOCK FALSE

SPECIFICATION FairSpec
CONSTANTS
  N = 8
  Inputs <- MCInputs
INVARIANTS DisjointWrites NoOrphans ResultSorted
PROPERTIES SortedIsFinal SortEnds
CHECK_DEADLOCK FALSE

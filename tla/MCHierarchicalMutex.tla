------------------------- MODULE MCHierarchicalMutex -------------------------
(***************************************************************************)
(* Small instances of HierarchicalMutex: every assignment of ranks.        *)
(***************************************************************************)
EXTENDS HierarchicalMutex, TLC

MCSymmetry == Permutations(Threads) \cup Permutations(Mutexes)
=============================================================================

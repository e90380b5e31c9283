--------------------------- MODULE MCOptimizedQueue ---------------------------
(***************************************************************************)
(* Small instances of OptimizedThreadSafeQueue.                            *)
(***************************************************************************)
EXTENDS OptimizedThreadSafeQueue, TLC

\* Producers, consumers, pollers, and one that does both.
MCScripts ==
  { <<"push", "push">>, <<"wait_and_pop">>, <<"try_pop", "try_pop">>,
    <<"wait_and_pop", "push">> }

\* The producer and the consumer of 8_thread_safe_queue.cpp, with one value.
MCClientScripts == { <<"push">>, <<"wait_and_pop">> }

MCSymmetry == Permutations(Threads) \cup Permutations(Nodes)
=============================================================================

---------------------------- MODULE MCSimpleQueue ----------------------------
(***************************************************************************)
(* Small instances of SimpleThreadSafeQueue.                               *)
(***************************************************************************)
EXTENDS SimpleThreadSafeQueue, TLC

\* Producers, consumers and pollers with one or two calls each, and a thread
\* that consumes before it produces.
MCScripts ==
  { <<"push", "push">>, <<"wait_and_pop">>, <<"wait_and_pop", "wait_and_pop">>,
    <<"try_pop">>, <<"wait_and_pop", "push">> }

MCSymmetry == Permutations(Threads)
=============================================================================

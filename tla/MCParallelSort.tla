---------------------------- MODULE MCParallelSort ----------------------------
(***************************************************************************)
(* A small instance of ParallelSort.                                       *)
(***************************************************************************)
EXTENDS ParallelSort

\* In reverse order, in order, all equal, alternating, the only large value
\* first, and two rounds of four values.
MCInputs ==
  { [i \in Index |-> (N - 1 - i) \div 3], [i \in Index |-> i \div 4],
    [i \in Index |-> 0], [i \in Index |-> i % 2], [i \in Index |-> IF i = 0 THEN 1 ELSE 0],
    [i \in Index |-> (3 * i) % 4] }
=============================================================================

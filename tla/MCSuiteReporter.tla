--------------------------- MODULE MCSuiteReporter ---------------------------
(***************************************************************************)
(* A small instance of SuiteReporter.                                      *)
(***************************************************************************)
EXTENDS SuiteReporter

CONSTANTS simple, optimized, unoptimized, naive, naive_list

\* "unoptimized" contains "optimized", and "naive_list" contains "naive".
MCIncludes ==
  {<<b, b>> : b \in Benchmarks} \cup {<<unoptimized, optimized>>, <<naive_list, naive>>}

\* Up to four different benchmarks in any order.
MCPrograms ==
  UNION {{p \in [1..n -> Benchmarks] : IsInjective(p)} : n \in 0..4}
=============================================================================

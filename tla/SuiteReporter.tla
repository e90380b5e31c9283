---------------------------- MODULE SuiteReporter ----------------------------
(***************************************************************************)
(* src/src/x_start.cpp: the reporter of the benchmark programs.  It puts   *)
(* the runs of one benchmark into a column and consecutive benchmarks into *)
(* one suite, a table in which each row compares a measure of all columns; *)
(* a benchmark whose name contains "naive" begins a new suite.             *)
(*                                                                         *)
(* Benchmarks are known by their names up to the slash.  A program runs    *)
(* some benchmarks in the order of their registration, each with the       *)
(* arguments 1, 2, ... of its range.                                       *)
(*                                                                         *)
(* Init, Next and Spec have the component's name in front here, so that    *)
(* another module can extend this one together with a second component.    *)
(***************************************************************************)
EXTENDS SequencesExt

CONSTANTS Benchmarks,
          Includes,  \* the pairs of names of which the first contains the second
          Naive,     \* the names that contain "naive"
          Complex,   \* the benchmarks that ask for their complexity
          Programs,  \* sequences of different benchmarks
          MaxArgs

ASSUME IncludesAssumption ==
  /\ Includes \subseteq Benchmarks \X Benchmarks
  /\ \A b \in Benchmarks : <<b, b>> \in Includes
  /\ \A p \in Includes : p[2] \in Naive => p[1] \in Naive
ASSUME ProgramsAssumption == \A p \in Programs : p \in Seq(Benchmarks) /\ IsInjective(p)
ASSUME MaxArgsAssumption == MaxArgs \in Nat \ {0}

VARIABLES program,   \* the benchmarks main() runs
          range,     \* the number of arguments of each
          next,      \* the next run: a position in the program, and an argument
          suite_,    \* the columns collected so far
          printed,   \* the suites printed so far
          reported,  \* the measures that have come in
          ended      \* the reporter is destroyed

reporterVars == <<program, range, next, suite_, printed, reported, ended>>

Measure == [of : Benchmarks, arg : 0..MaxArgs, complexity : {"oNone", "big_o"}]
Column == [name : Benchmarks, measures : Seq(Measure)]
Suite == Seq(Column)

Time(b, a) == [of |-> b, arg |-> a, complexity |-> "oNone"]
BigO(b) == [of |-> b, arg |-> 0, complexity |-> "big_o"]

-----------------------------------------------------------------------------
ReporterInit ==
  /\ program \in Programs
  /\ range \in [Benchmarks -> 1..MaxArgs]
  /\ next = <<1, 1>>
  /\ suite_ = <<>>
  /\ printed = <<>>
  /\ reported = <<>>
  /\ ended = FALSE

\* PrintSuiteInfo(): nothing for an empty suite.
PrintSuiteInfo(suites, s) == IF s = <<>> THEN suites ELSE Append(suites, s)

\* The rows of a table: as many as the shortest column has measures, each with a
\* cell per column, which holds a complexity or a time relative to that of the
\* first column.
Rows(s) ==
  LET height == {k \in 0..Len(reported) : \A c \in DOMAIN s : k <= Len(s[c].measures)}
  IN  [i \in {k \in height : k > 0} |->
        [c \in DOMAIN s |-> <<s[c].measures[i], s[1].measures[i]>>]]

AddNewBenchmarkToSuite(s, b) == Append(s, [name |-> b, measures |-> <<>>])

\* Faulty variant: the first column is compared instead of the last.
BenchChanged_Front(s, b) == s = <<>> \/ <<b, s[1].name>> \notin Includes

BenchChanged(s, b) == s = <<>> \/ <<b, Last(s).name>> \notin Includes

\* Faulty variant: StartNewSuite() before PrintSuiteInfo().
CheckForBenchChanges_ClearFirst(b) ==
  IF BenchChanged(suite_, b) /\ b \in Naive
    THEN [suite |-> AddNewBenchmarkToSuite(<<>>, b), printed |-> PrintSuiteInfo(printed, <<>>)]
  ELSE IF BenchChanged(suite_, b)
    THEN [suite |-> AddNewBenchmarkToSuite(suite_, b), printed |-> printed]
  ELSE [suite |-> suite_, printed |-> printed]

\* What CheckForBenchChanges() makes of the suite and the output.
CheckForBenchChanges(b) ==
  IF BenchChanged(suite_, b) /\ b \in Naive
    THEN [suite |-> AddNewBenchmarkToSuite(<<>>, b), printed |-> PrintSuiteInfo(printed, suite_)]
  ELSE IF BenchChanged(suite_, b)
    THEN [suite |-> AddNewBenchmarkToSuite(suite_, b), printed |-> printed]
  ELSE [suite |-> suite_, printed |-> printed]

\* AddTimeMeasureToLastBenchmark() and AddBigOMeasureToLastBenchmark().
AddMeasures(s, ms) == [s EXCEPT ![Len(s)].measures = @ \o ms]

\* What the harness reports of a run: its time, and for the last run of a
\* benchmark its complexity and the error of the fit, which gets no measure.
Measures(b, a) ==
  IF b \in Complex /\ a = range[b] THEN <<Time(b, a), BigO(b)>> ELSE <<Time(b, a)>>

\* ReportRuns(): the harness has done a run with all its repetitions.
ReportRuns ==
  /\ ~ended
  /\ next[1] <= Len(program)
  /\ LET b == program[next[1]]
         checked == CheckForBenchChanges(b)
         new == Measures(b, next[2])
     IN  /\ printed' = checked.printed
         /\ suite_' = AddMeasures(checked.suite, new)
         /\ reported' = reported \o new
         /\ next' = IF next[2] = range[b] THEN <<next[1] + 1, 1>> ELSE <<next[1], next[2] + 1>>
  /\ UNCHANGED <<program, range, ended>>

\* The destructor prints the last suite.
Destroy ==
  /\ ~ended
  /\ next[1] > Len(program)
  /\ printed' = PrintSuiteInfo(printed, suite_)
  /\ ended' = TRUE
  /\ UNCHANGED <<program, range, next, suite_, reported>>

ReporterNext == ReportRuns \/ Destroy

ReporterSpec == ReporterInit /\ [][ReporterNext]_reporterVars
-----------------------------------------------------------------------------
(***************************************************************************)
(* Properties                                                              *)
(***************************************************************************)

\* The suites of the program so far, whether printed or not.
Suites == IF ended THEN printed ELSE PrintSuiteInfo(printed, suite_)

\* Measures, columns and suites have their types, and the reporter collects
\* no measure beyond the range of the benchmark that is running.
ReporterTypeOK ==
  /\ program \in Programs
  /\ range \in [Benchmarks -> 1..MaxArgs]
  /\ next[1] \in 1..(Len(program) + 1)
  /\ next[2] \in 1..(IF next[1] <= Len(program) THEN range[program[next[1]]] ELSE 1)
  /\ suite_ \in Suite
  /\ printed \in Seq(Suite)
  /\ reported \in Seq(Measure)
  /\ ended \in BOOLEAN

\* The measures of a suite, column by column.
Shown(s) == FlattenSeq([c \in DOMAIN s |-> s[c].measures])

\* No measure is lost, shown twice or put out of order: the columns of the
\* suites, one after the other, hold exactly what was reported.
NothingLost == FlattenSeq([k \in DOMAIN Suites |-> Shown(Suites[k])]) = reported

\* The benchmarks that have been reported, by their position.
Count == IF next[2] > 1 THEN next[1] ELSE next[1] - 1
Reported == 1..Count
\* The grouping that is meant: a suite ends before each naive benchmark.
SuiteNo(i) == 1 + Cardinality({j \in 2..i : program[j] \in Naive})
Place(i) == Cardinality({j \in 1..i : SuiteNo(j) = SuiteNo(i)})
\* No name contains that of the benchmark before it.
NamesDistinct == \A i \in 2..Len(program) : <<program[i], program[i - 1]>> \notin Includes

\* Unless a name contains the previous one, the suites and columns that are made
\* run by run are those of the whole program: each benchmark has the column of
\* its place in its suite, and there are no others.
GroupedAsRegistered ==
  NamesDistinct =>
    /\ \A i \in Reported : Suites[SuiteNo(i)][Place(i)].name = program[i]
    /\ \A k \in DOMAIN Suites : \A c \in DOMAIN Suites[k] :
         \E i \in Reported : SuiteNo(i) = k /\ Place(i) = c

\* Unless a name contains the previous one, every row that is printed for
\* benchmarks with the same number of arguments compares runs of the same
\* argument, or complexities, although not all of them ask for a complexity.
LikeWithLike ==
  NamesDistinct =>
    \A k \in DOMAIN printed :
      (\A c \in DOMAIN printed[k] : range[printed[k][c].name] = range[printed[k][1].name])
        => \A i \in DOMAIN Rows(printed[k]) : \A c \in DOMAIN printed[k] :
             LET cell == Rows(printed[k])[i][c] IN cell[1].arg = cell[2].arg
=============================================================================

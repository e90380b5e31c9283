----------------------------- MODULE ParallelSort -----------------------------
(***************************************************************************)
(* src/src/9_thread_pool.cpp: the two quick sorts of the lesson, and the   *)
(* benchmark body that runs one of them and tests its result.              *)
(*                                                                         *)
(* A call sorts the elements from begin to end - 1 of one shared vector.   *)
(* It is named by its pair <<begin, end>>, which no other call of the      *)
(* recursion has: what is left of the divide point goes to the left call,  *)
(* in a JoinableThread of its own in the multithreaded sort, and what is   *)
(* right of it to the right call, in the same thread.                      *)
(***************************************************************************)
EXTENDS Integers, FiniteSets

CONSTANTS N,        \* the size of the container, state.range()
          Inputs    \* what fill_container may fill it with

Index == 0..(N - 1)

ASSUME SizeAssumption == N \in Nat
ASSUME InputsAssumption == Inputs \subseteq [Index -> Int]

VARIABLES sorter,    \* the SorterFunc given to sort_impl
          data,      \* the container
          input,     \* its contents before the sort
          pc,        \* where each call of the recursion is
          outcome    \* of the iteration of sort_impl

vars == <<sorter, data, input, pc, outcome>>

Calls == {c \in (0..N) \X (0..N) : c[1] <= c[2]}
Root == <<0, N>>

Size(c) == c[2] - c[1]
Elements(c) == c[1]..(c[2] - 1)
Mid(c) == c[1] + Size(c) \div 2
Left(c) == <<c[1], Mid(c)>>
Right(c) == <<Mid(c) + 1, c[2]>>

Points == {"none", "called", "nth_element", "left", "in_left", "right", "in_right",
           "join", "unwind", "returned", "failed"}
Over == {"returned", "failed"}

Started(c) == pc[c] # "none"
Live(c) == Started(c) /\ pc[c] \notin Over

Count(f, S, v) == Cardinality({i \in S : f[i] = v})

-----------------------------------------------------------------------------
Init ==
  /\ sorter \in {"single_threaded", "multithreaded"}
  /\ input \in Inputs
  /\ data = input
  /\ pc = [c \in Calls |-> IF c = Root THEN "called" ELSE "none"]
  /\ outcome = "sorting"

\* std::terminate and the end of the iteration stop every call.
At(c, point) == outcome = "sorting" /\ pc[c] = point
Goto(c, point) == pc' = [pc EXCEPT ![c] = point]
GotoAndCall(c, point, d) == pc' = [pc EXCEPT ![c] = point, ![d] = "called"]

\* At most one element.
ReturnAtOnce(c) ==
  /\ At(c, "called") /\ Size(c) <= 1
  /\ Goto(c, "returned")
  /\ UNCHANGED <<sorter, data, input, outcome>>

\* Faulty variant: the left half is handed out before it is partitioned.
Begin_LeftFirst(c) ==
  /\ At(c, "called") /\ Size(c) > 1
  /\ GotoAndCall(c, "nth_element", Left(c))
  /\ UNCHANGED <<sorter, data, input, outcome>>

\* nth_element starts to read and write the elements ...
Begin(c) ==
  /\ At(c, "called") /\ Size(c) > 1
  /\ Goto(c, "nth_element")
  /\ UNCHANGED <<sorter, data, input, outcome>>

\* The orders nth_element may leave the elements of c in.
Partitions(c) ==
  LET values == {data[i] : i \in Elements(c)}
  IN  {d \in [Elements(c) -> values] :
         /\ \A i \in Elements(c) : /\ i < Mid(c) => d[i] <= d[Mid(c)]
                                   /\ i > Mid(c) => d[i] >= d[Mid(c)]
         /\ \A v \in values : Count(d, Elements(c), v) = Count(data, Elements(c), v)}

\* ... and is done with them.
Partition(c) ==
  /\ At(c, "nth_element")
  /\ \E d \in Partitions(c) :
       data' = [i \in Index |-> IF i \in Elements(c) THEN d[i] ELSE data[i]]
  /\ Goto(c, "left")
  /\ UNCHANGED <<sorter, input, outcome>>

\* The left half: started in a thread, or called.
StartLeft(c) ==
  /\ At(c, "left")
  /\ GotoAndCall(c, IF sorter = "multithreaded" THEN "right" ELSE "in_left", Left(c))
  /\ UNCHANGED <<sorter, data, input, outcome>>

\* The constructor of std::thread throws: there is no asyncTask to join.
ThreadThrows(c) ==
  /\ At(c, "left") /\ sorter = "multithreaded"
  /\ Goto(c, "failed")
  /\ UNCHANGED <<sorter, data, input, outcome>>

LeftReturns(c) ==
  /\ At(c, "in_left") /\ pc[Left(c)] = "returned"
  /\ Goto(c, "right")
  /\ UNCHANGED <<sorter, data, input, outcome>>

CallRight(c) ==
  /\ At(c, "right")
  /\ GotoAndCall(c, "in_right", Right(c))
  /\ UNCHANGED <<sorter, data, input, outcome>>

RightReturns(c) ==
  /\ At(c, "in_right") /\ pc[Right(c)] = "returned"
  /\ Goto(c, IF sorter = "multithreaded" THEN "join" ELSE "returned")
  /\ UNCHANGED <<sorter, data, input, outcome>>

\* Faulty variant: the exception passes a thread that nobody joins.
RightThrows_Detached(c) ==
  /\ At(c, "in_right") /\ pc[Right(c)] = "failed"
  /\ Goto(c, "failed")
  /\ UNCHANGED <<sorter, data, input, outcome>>

\* The exception of the right call destroys asyncTask on its way.
RightThrows(c) ==
  /\ At(c, "in_right") /\ pc[Right(c)] = "failed"
  /\ Goto(c, "unwind")
  /\ UNCHANGED <<sorter, data, input, outcome>>

\* Faulty variant: the destructor detaches the thread.
Join_Detached(c) ==
  /\ At(c, "join") \/ At(c, "unwind")
  /\ Goto(c, IF pc[c] = "join" THEN "returned" ELSE "failed")
  /\ UNCHANGED <<sorter, data, input, outcome>>

\* ~JoinableThread waits for the thread of the left half.
Join(c) ==
  /\ At(c, "join") \/ At(c, "unwind")
  /\ pc[Left(c)] = "returned"
  /\ Goto(c, IF pc[c] = "join" THEN "returned" ELSE "failed")
  /\ UNCHANGED <<sorter, data, input, outcome>>

\* The first call of a thread: of the benchmark's, or of an asyncTask.
FirstOfThread(c) ==
  \/ c = Root
  \/ \E d \in Calls \ {c} : Started(d) /\ c = Left(d)

\* Faulty variant: an exception in a started thread is lost.
Terminate_MainOnly(c) ==
  /\ At(c, "failed") /\ c = Root
  /\ outcome' = "terminated"
  /\ UNCHANGED <<sorter, data, input, pc>>

\* An exception leaves the first call of a thread.
Terminate(c) ==
  /\ At(c, "failed") /\ FirstOfThread(c)
  /\ outcome' = "terminated"
  /\ UNCHANGED <<sorter, data, input, pc>>

Sorted(f, S) == \A i, j \in S : i < j => f[i] <= f[j]

\* sort_impl: std::is_sorted, or a logic_error.
Check ==
  /\ At(Root, "returned")
  /\ outcome' = IF Sorted(data, Index) THEN "sorted" ELSE "logic_error"
  /\ UNCHANGED <<sorter, data, input, pc>>

Next ==
  \/ \E c \in Calls :
       \/ ReturnAtOnce(c) \/ Begin(c) \/ Partition(c)
       \/ StartLeft(c) \/ ThreadThrows(c) \/ LeftReturns(c)
       \/ CallRight(c) \/ RightReturns(c) \/ RightThrows(c)
       \/ Join(c) \/ Terminate(c)
  \/ Check

Spec == Init /\ [][Next]_vars

\* Some thread that can run does.
FairSpec == Spec /\ WF_vars(Next)
-----------------------------------------------------------------------------
(***************************************************************************)
(* Properties                                                              *)
(***************************************************************************)

\* The types of the state; and that the halves a call has passed are started.
TypeOK ==
  /\ sorter \in {"single_threaded", "multithreaded"}
  /\ input \in Inputs
  /\ data \in [Index -> Int]
  /\ pc \in [Calls -> Points]
  /\ outcome \in {"sorting", "sorted", "logic_error", "terminated"}
  /\ \A c \in Calls :
       /\ pc[c] \notin {"none", "called", "returned"} => Size(c) > 1
       /\ pc[c] \in {"in_left", "right", "in_right", "join", "unwind"} => Started(Left(c))
       /\ pc[c] \in {"in_right", "join", "unwind"} => Started(Right(c))

\* No data race: while nth_element works on a range, no other thread is in
\* nth_element on a range that shares an element with it.
DisjointWrites ==
  \A c, d \in Calls :
    c # d /\ pc[c] = "nth_element" /\ pc[d] = "nth_element"
    => Elements(c) \cap Elements(d) = {}

\* What a call has sorted is sorted and stays as it is: neither its caller nor
\* any thread that is still running touches it again.
SortedIsFinal ==
  [][\A c \in Calls : pc[c] = "returned" =>
       \A i \in Elements(c) :
         /\ data'[i] = data[i]
         /\ i + 1 \in Elements(c) => data[i] <= data[i + 1]]_vars

\* No thread outlives the call that started it, even when that call is left by
\* an exception: within the range of a call that is over nothing is running.
NoOrphans ==
  \A c, d \in Calls :
    pc[c] \in Over /\ c[1] <= d[1] /\ d[2] <= c[2] => ~Live(d)

\* When the first call returns the container is sorted and holds what it held
\* before, so that sort_impl never throws "the range is not sorted correctly".
ResultSorted ==
  /\ outcome # "logic_error"
  /\ pc[Root] = "returned" =>
       /\ Sorted(data, Index)
       /\ \A i \in Index : Count(data, Index, input[i]) = Count(input, Index, input[i])

\* Some call has divided its range and is over without a left call.
WantOfThreads ==
  /\ sorter = "multithreaded"
  /\ \E c \in Calls : Size(c) > 1 /\ pc[c] = "failed" /\ pc[Left(c)] = "none"

\* The sort fails only for want of a thread.
FailsOnlyForWantOfThreads == outcome \in {"logic_error", "terminated"} => WantOfThreads

\* Every iteration comes to an end: the container is sorted, or the process is
\* terminated for want of a thread.
SortEnds == <>(outcome = "sorted" \/ (outcome = "terminated" /\ WantOfThreads))
=============================================================================

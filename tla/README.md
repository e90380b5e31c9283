# concurrencycourse: a TLA+ model of its concurrent components

The repository is a course on C++ concurrency. Its own code is in `src/src/`: a
handful of headers with the data structures the course builds, and one numbered
program per lesson that uses or measures them. `src/benchmark/` is a vendored
copy of Google Benchmark, the harness of those programs; the `*.vcxproj` files
are generated for Visual C++, where `unsigned long` has 32 bits; the
`CMakeLists.txt` build the same programs on systems where it has 64.

This directory holds specifications of that code, the TLC configurations that
check them on small instances, and TLAPS proofs of their main properties for
all instances. `PROJECT.json` lists every component, run, mutant, hazard,
finding and theorem, and maps each definition to the lines it translates.

## 1. Inventory

| component | state | operations | interacts with | hard behaviour | correct when |
|---|---|---|---|---|---|
| **Simple queue** `SimpleThreadSafeQueue.h` | a deque, a mutex, a condition variable | `push`, `wait_and_pop`, `try_pop` | any number of producers and consumers; the thread pool | wakeups race with other pops, spurious wakeups, allocation failure | linearizable FIFO, where a push that throws has queued nothing; no lost wakeup; never pops an empty deque |
| **Optimized queue** `OptimizedThreadSafeQueue.h` | a linked list with a dummy tail, one mutex per end, a condition variable | `push`, `wait_and_pop`, `try_pop`, destructor | the same clients | two locks, raw and owning pointers, moving out of a detached node without a lock, a notify outside the consumers' mutex, deep destruction | list shape, one owner per node, no data race, linearizable, the two mutexes never hold each other up |
| **Queue client** `8_thread_safe_queue.cpp` | one queue per iteration | a producer of n values, a consumer of n values, both joined | both queues | it ends only if no consumer is left asleep | every iteration ends |
| **Thread pool** `ThreadPool.h` | a queue of tasks, `done`, the count of unfinished tasks, a mutex and a condition variable, a vector of joining threads | constructor, `submit`, `wait_all`, destructor, `worker_thread` | simple queue, joinable thread, tasks that submit tasks | a count changed outside the mutex of the wait on it, exceptions in the constructor and in `submit`, members destroyed before the workers are joined | the count is exact; no task is run twice; `wait_all` covers all the caller's tasks; shutdown ends |
| **Joinable thread** `JoinableThread.h` | a thread handle | move, assign, join in the destructor | pool, sort, exercises | moving over a running thread, assignment to itself, exceptions that leave a scope | each unjoined thread belongs to exactly one handle; none is left when a scope is; only a plain `std::thread` ends the process |
| **Hierarchical mutex** `hierarchical_mutex.h/.cpp` | a mutex, its rank, the saved rank; a `thread_local` rank per thread | `lock`, `try_lock`, `unlock`, the check, the update | clients with several locks | order of locking across threads, unlock in another order, two integer widths, `abort()` | no deadlock, the rank is restored, an abort only where the order is violated |
| **Concurrent map** `concurrent_map.h`, `5_concurrent_map_2.cpp` | a map and a mutex | `Update`, `Get`, `Remove`, `Fetch` with a callback, `Dump` | the re-entrant callback of `4_concurrent_map.cpp`; four reading threads in `5_concurrent_map_2.cpp` | the callback runs under a mutex that is not recursive | each operation is atomic; while a callback looks at its pair the map still has it; readers find what was stored before they started |
| **Dining philosophers** `6_deadlock_detection.cpp` | seats and forks of a table, a thread per philosopher | eat, think, cancel, join | forks are mutexes | circular wait; joining a deadlocked thread | neighbours never eat together; a deadlock needs a full table; otherwise nobody starves and `main` returns; the forks outlive the threads |
| **Parallel sort** `9_thread_pool.cpp` | one vector; the calls of a recursion, each with its range | a sort in one thread, a sort with a thread per left half, the benchmark body that tests the result | joinable thread | threads that partition parts of one vector, a thread that cannot be started deep in the recursion, an exception beside a running thread | no two calls partition the same element, what is sorted stays, no thread outlives its caller, the result is sorted and complete |
| **Suite reporter** `x_start.cpp` | the suite collected so far | group benchmark runs into columns and suites, print, clear | benchmark harness | a change of benchmark is seen from names that may contain each other | no measure is lost, suites are those of the registration, rows compare like with like |
| **Exercises** `1_thread.cpp`, `2_async.cpp`, `3_mutex.cpp`, `7_condition_variable.cpp`, `Logger.h` | little | start, print, wait | joinable thread, standard library | exceptions between start and join, futures that are discarded | the process is terminated only for a plain thread or a throwing function |
| **Benchmark harness** `src/benchmark/` (vendored) | barrier, thread manager | run iterations in threads | every program | barrier phases, last thread to finish | all threads start together |

## 2. Modules

| module | role |
|---|---|
| `FifoQueue` | abstract: a linearizable FIFO queue whose calls are invoked, take effect and return, or throw and have no effect |
| `SimpleThreadSafeQueue` | the simple queue, one step per access to mutex, condition variable or deque |
| `OptimizedThreadSafeQueue` | the two-lock list on an explicit heap of nodes |
| `TaskGroup` | abstract: tasks that are submitted, queued, run at most once, and waited for |
| `ThreadPool` | the pool; a queue call is one atomic step, which the refinement theorem of the simple queue justifies |
| `JoinableThread` | handles of threads, joining and plain, as one client uses them in any legal order |
| `ParallelSort` | both sorts of the last lesson, call by call, and their benchmark body |
| `HierarchicalMutex` | ranked mutexes and their clients, with the widths of the two integer types as constants |
| `AtomicMap` | abstract: a map whose operations take effect at one instant, `Fetch` with a stage in which its callback runs |
| `ConcurrentMap` | the map and its mutex, one step per access, with callbacks that look or that call back |
| `DiningPhilosophers` | the table, the philosophers' threads and `main`, for any number of seats and philosophers |
| `SuiteReporter` | how runs become measures, columns and suites |
| `..._proofs` | the theorems of `SimpleThreadSafeQueue`, `OptimizedThreadSafeQueue`, `ThreadPool`, `JoinableThread`, `ParallelSort`, `HierarchicalMutex` and `ConcurrentMap` |
| `Programs_proofs` | the theorems of `DiningPhilosophers` and of `SuiteReporter`, the two components that are parts of programs and not of the course's headers |
| `MC...` | the small instances: scripts, inputs and symmetry sets |

Both queue modules implement `FifoQueue` by an `INSTANCE ... WITH` refinement;
`ThreadPool` then uses the queue at that abstract level, and implements
`TaskGroup`. `ConcurrentMap` implements `AtomicMap`. All four refinements are
proved as well as checked. The constants of `DiningPhilosophers` and of
`JoinableThread` are numbers and sets of names, so their configurations run
the modules themselves. `Programs_proofs` extends two components that have
nothing to do with each other; this is why the reporter's specification is called
`ReporterSpec`, and its parts `ReporterInit`, `ReporterNext` and `reporterVars`.

### How state and actions correspond to the code

*Variables* carry the names of the members and locals they stand for
(`m_queue`, `m_taskCount`, `previous_hierarchy_value`, ...). A `std::mutex` is
the thread that holds it, or `Nobody`. `pc[t]` is the statement thread `t` is
about to execute, named for it. Clients are given by `Scripts`: each thread
runs some sequence of calls from that set, and a theorem about the module holds
for every set of scripts.

*A condition variable* is the set of threads whose `pc` is `"asleep"`.
`notify_one` moves some sleeper to `"relock"`, `notify_all` all of them, and a
notification nobody is asleep for is lost. A sleeper may also wake
spuriously. Falling asleep releases the mutex in the same step, as the standard
requires. Where every notifier holds the mutex of the wait, the test of the
predicate and falling asleep form one step (`WaitBlock` of the simple queue);
where the code notifies without it, or changes the predicate without it, they
are two steps (`Test` and `Sleep` of the optimized queue, `WaitTest` and
`WaitSleep` of the pool), since something can happen in between.

*Simple queue.* `Call` and `Unlock` begin and end a call, `Lock` is the
`lock_guard` or `unique_lock`. `push` is `PushBack` (or `PushThrows` when
`emplace_back` throws) and `NotifyOne`; a push that throws is an answer of its own
in `FifoQueue` (`Threw`), so that one which returns has queued its value.
`wait_and_pop` is `WaitReady` or
`WaitBlock`, after a wakeup `Relock`, then `PopFront`; `try_pop` is `PopFront`
or `TryPopEmpty`.

*Optimized queue.* `live` is the set of addresses in use and `new` may hand out
an address that was freed; `data` and `next` are the members of the nodes.
`push` is `NewNode` ... `NotifyOne` in the order of lines 124 to 132, a pop is
`LockHead`, `GetTail`, `Test`, `PopHead`, `UnlockHead`, `TakeData` and `Free`:
the value leaves the detached node after the mutex is released. The destructor
is `Collect` (the loop that fills the vector), one `ResetNext` per element from
the back, and `FreeHead`. Destroying a `unique_ptr` frees everything its node
owns, so a destructor in the wrong order would free several nodes in one step.

*Thread pool.* `submit` is `Submit` (`fetch_add`) and `Push`, from a client or
from a running task; a worker is `While`, `TryPop` or `Yield`, `Run`,
`FetchSub`, and `Lock`, `NotifyAll`, `Unlock` when it saw the count fall to
zero. The constructor is `StartThread` per iteration with its two exceptions:
`ThreadThrows` when the thread cannot be started, `PushBackThrows` when the
vector cannot grow, in which case the temporary joins the started thread before
the handler sets `done`. The destructor is `SetDone`, then `DestroyMembers`
(members go in the reverse order of their declaration, so the mutex, the
condition variable and the count go before `threads`), then `Join`. `leaked`,
`late` and `quiet` are history variables, and so is `over`, the tasks that
have ended or were never queued. The refinement gives each task its state from the
places it is at (`Places`): a submission, a place in the queue, a worker, or
`over`. A task at two places at once, popped by a second worker or run again
after its end, has no state that `TaskGroup` knows. A client waits from its first
test of the count to the return of `wait_all`.

*Hierarchical mutex.* `CheckFails` and `CheckPasses` are
`check_for_hierarchy_violation` at the head of `lock` and `try_lock`; `Lock`,
`TryLockFails` and `Update` follow; `unlock` is `Restore` and then `Unlock`, two
steps in that order. After `CheckFails` the process has aborted and nothing
moves. An `unsigned` keeps a rank modulo `Word`. `beneath` is a history
variable: what the thread held when it took a lock. Clients may release any
lock they hold. Scoped locks, the only ones in the repository, release the one
that was taken last; `strayed` is a history variable with the threads that have
released another one, and the promises are for threads that have not.

*Concurrent map.* `Lock` and `Unlock` are the scope of the `lock_guard`.
`Update` is `UpdateFind` (`operator[]`, which inserts a default value for a key
that is absent) and `UpdateAssign`; `UpdateThrows` is a failing allocation in
either. `Get` and `Remove` are one step, `Dump` copies the map pair by pair in
`DumpPair`. `Fetch` is `Find`, after which the thread is in the callback,
mutex held, until `HandlerReturns`; or the callback calls the map
(`HandlerUpdates`) and the thread stands before a mutex it holds itself, which
is undefined: it stays there, or `lock` throws (`RelockThrows`) through `main`.
A script of `Main` may contain `async`, which starts the other threads, and
`join`, the destructors of their futures. The refinement hides a default value
that waits for its assignment; a failed `Update` may leave it behind, and
`AtomicMap` says so. Its caller gets an exception, which `AtomicMap` tells from an
answer. The callback is shown a `Pair` whose key is not `const`, that is a copy of
the map's pair: the mutex, held while it looks, is what keeps the map from moving
on in the meantime.

*Dining philosophers.* `While` is the test of `m_cancelled`, then come the two
locks, the meal and the unlocks in reverse order (`Lock1` ... `Unlock1`).
`main` is `Start` once per philosopher, then per destructor, the last
philosopher first, `Cancel` and `Join`, and at the end `ClearTable`, which
destroys the forks.

*Joinable thread.* A handle is an object: `alive` says which are constructed,
`m_thread` what they refer to. Those in `Joining` are `JoinableThread`s (the
futures of `std::async` join in their destructors too), the others plain
`std::thread`s; those in `Temporaries` are destroyed before the next statement.
An operation that may wait is a record in `call`. An assignment to a
`JoinableThread` is `Assign`, then `AfterJoin` (the old thread is joined), then
the assignment to its member; a destructor is `CallDestroy`, `AfterJoin`, then the
destruction of the member, so that a thread may end between the steps. The member
is a `std::thread` like a plain handle, whose assignment and destructor consist
of this last step alone: it is `Move` or `Release` when the `std::thread` is not
joinable, and ends the process when it is (`Terminate`). `Leave` is a return from
the scope or an exception anywhere in it, after which only destructors run.

*Parallel sort.* A call is named by its pair `<<begin, end>>`: no two calls of
the recursion share it, since the left call ends where the divide point is and
the right one begins behind it. `nth_element` is two steps, `Begin` and
`Partition`; in between its range is being written, and it may leave any
partition of the elements about the middle one. `StartLeft` starts a thread, or
calls, according to the sorter; `ThreadThrows` is a constructor of `std::thread`
that throws, at any call. The exception then goes up the calls: `RightThrows`
leaves one whose left half is running, and `Join` is the destructor of its
`asyncTask`; at the first call of a thread it ends the process (`Terminate`).
`Check` is the test of the benchmark body.

*Suite reporter.* A program is a sequence of benchmarks, each with a range of
arguments. A benchmark is known by its name up to the slash, and `Includes` is
the relation "contains" on names. `ReportRuns` is the whole of the callback: it
looks whether the benchmark is a new one (`CheckForBenchChanges`), which may
print and clear the suite, and adds the measures of the run. `Rows` is what the
printing loop compares in each row.

Operators that start with the comment "Faulty variant" are not part of any
specification. Each is a plausible bug in the definition that follows it (a
notification sent too seldom, a predicate not evaluated again, a rank not
restored). Substituted for that definition it breaks the property it is paired
with under "mutants" in `PROJECT.json`, which shows that the property speaks
about the code.

## 3. Runs

| run | instance | shows |
|---|---|---|
| `simple_queue` | 3 threads, 5 scripts, fair | no pop of an empty deque; `WakeupsCoverItems`: while anybody sleeps each value has a thread of its own on the way to it, although pushes outrun wakeups and `try_pop` steals; the queue implements `FifoQueue`; `Quiescence`: it comes to rest only when each thread has finished or sleeps on an empty queue |
| `optimized_queue_safety` | 3 threads, 4 addresses | exactly one owner per node (no leak, double free or use after free), no data race between the two ends, linearizability, a destructor that frees one node at a time; `StuckOnlyAtRest`: neither the two mutexes nor a sleeping consumer ever hold up a `push` or a `try_pop` |
| `optimized_queue_client` | 1 producer, 1 consumer, 1 value, fair | *violation*: the consumer can miss its only notification |
| `thread_pool` | 2 clients, 0 to 2 workers, every failure, fair | the count is exact (`TaskAccounting`), no completion is lost, a quiet pool is not touched after its members are gone, each worker begins at most one task after `done`; a constructor whose vector cannot grow joins for ever (`UngrownVectorHangs`); the pool implements `TaskGroup`, so no task is run twice; `wait_all` returns unless a submission was lost or there is no worker, in which case it never does (`HopelessWaitsHang`), and shutdown ends |
| `hierarchy_same_width` | 2 threads, 3 mutexes, all ranks 0..3, `Word` 4, unlocks in any order | among the threads that unlock in order: no deadlock, ranks restored exactly |
| `hierarchy_equal_ranks` | the same | *violation*: a thread is aborted at a mutex of equal rank, not only at one of higher rank |
| `hierarchy_cut_restore` | the same with `Word` 2 | *violation*: the rank is not the previous one after an unlock |
| `philosophers_table` | 5 philosophers, 4 seats, fair | whoever waits in a circle fills the table; without a circle nobody starves and `main` ends; no thread and no held fork outlives the table |
| `map` | 3 threads, 2 keys, all operations, fair | linearizability including `Dump`, callbacks and failed updates, readers find what was stored before they started; every call returns, unless a callback has called the map |
| `parallel_sort` | 8 elements, 6 inputs, both sorts, any thread may fail to start, fair | no two calls partition the same element, what is sorted stays, no thread outlives its caller, the result is sorted and complete, and every iteration ends |
| `joinable_thread` | 4 handles, 3 threads of which one may throw, fair | each unjoined thread has exactly one handle, an assignment transfers the thread, no member of a `JoinableThread` ends the process, only a plain handle or a throwing function does, and a scope that is left ends |
| `suite_reporter` | all programs of up to 4 of 5 benchmarks | no measure is lost, suites are those of the registration order, rows compare like with like |

Some invariants of the modules are in no run because a theorem states them for
all instances: `NoLostWakeup`, `ListShape`, `NeverPopsDummy`, `WaitAllCovers`,
`HeldDescending`, `AbortAccounted`, `PairIsStable`, `NoThreadLeft`,
`FailsOnlyForWantOfThreads`, `ReporterTypeOK`, and all of the `TypeOK` but that
of the optimized queue.

### Bounds, and why they are enough

* `Scripts`, `MaxCalls`: two calls per thread. They contain producers that push
  twice in a row before a consumer runs, consumers that sleep twice, pollers
  that steal, and threads that both consume and produce. Three threads allow two
  sleepers beside a notifier, or one beside a notifier and a thief, which is what
  lost-wakeup errors need; the theorems cover any number.
* `MaxSpurious` = 1: a spurious wakeup leads to the same point as a real one;
  one is enough to reach it without a notification.
* `Nodes`: with four addresses two producers can fill a list of several nodes
  while a detached node is being freed and its address reused. When no address
  is free `NewNode` is disabled. Threads in `Unlucky` may then, and at any other
  time, see `bad_alloc`; in the runs with properties of progress every thread
  is unlucky, so that the bound never blocks a push.
* `MaxThreads` = 2 and `thread_count` in 0..2: no worker, one worker, and two
  that race for the last task, its count and its notification.
* Ranks 0..3 with three mutexes: all orders, equal ranks, and the largest rank.
  `Word` = 4 cuts no rank (Visual C++), `Word` = 2 does (LP64). That descending
  order and freedom from deadlock survive the cut is proved for all widths.
* Eight elements give a recursion of depth four: calls whose ranges are
  separated by pivots of two levels, three threads at a time, empty and one
  element halves, and a failure with threads running on both sides of the call.
  The six inputs have few different values, which leaves `nth_element` many
  partitions; the theorems are about every size and contents.
* Four handles (two joining, a temporary, a plain one) and three threads: a chain
  of moves, an assignment over a running thread from a temporary, and a thread
  left to be started while another is being joined.
* Programs of up to four of five benchmarks: two suites of two, a suite in
  which only some columns have a complexity, and both pairs of names of which
  one contains the other, next to each other and apart. Ranges of one or two
  arguments (`MaxArgs`), different for each benchmark.
* Two keys, two values, at most five calls of `Main` and two of the others: a
  `Dump` can meet an update of the key it has copied and of the one it has not,
  a key can be removed and inserted again between two calls, and a callback can
  run while another thread waits with an `Update` of its pair.
* Five philosophers at four seats: two of them share both forks, which `GetSeat`
  allows and the program does not need; circles of four, and waiting outside
  the circle, both occur.
* Symmetry of threads, nodes and mutexes is used in safety runs only.

Deadlock checking is off everywhere (`CHECK_DEADLOCK FALSE`): the scripts are
finite and the systems really stop, and after an abort or in a real deadlock
nothing moves. What must not be stuck is said by properties
(`Quiescence`, `StuckOnlyAtRest`, `WaitAllReturns`, `ShutdownEnds`,
`NoDeadlock`, `CallsReturn`, `OnlyCirclesHangMain`, `NobodyStarves`, `SortEnds`,
`ScopeEnds`).

### Fairness

`FairSpec` gives each thread weak fairness of its own step: the operating
system eventually runs a thread that can run. Nothing is assumed of spurious
wakeups, nor of which sleeper `notify_one` chooses. No strong fairness is assumed for mutexes: the
clients make finitely many calls, so a mutex is eventually left alone long
enough for a waiting thread. The workers of the pool loop for ever, but take
`m_tasksCompleteMutex` only when a task finishes, of which there are finitely
many.

`FairSpec` of `ParallelSort` is weak fairness of `Next` alone, that some thread
which can run does: its behaviours are finite, so that is enough. In
`JoinableThread` the client goes on and the functions of the threads end, which
those of the programs do; none is assumed to throw.

The philosophers are the exception. Each eats and thinks without end until it is
cancelled, so a neighbour that waits finds its fork free again and again and
might be passed over each time. `FairSpec` of `DiningPhilosophers` therefore
adds strong fairness of the locks: a philosopher leaves its forks alone for at
least 50 ms between two meals, far longer than a woken thread needs to take a
free mutex. A `lock` of a mutex the thread itself holds is not assumed to throw.

## 4. Proofs

All theorems hold for every value of the constants that satisfies the named
assumptions of the modules: any finite set of threads, any scripts, any heap,
any number of workers, any ranks and widths, any container. They are proved
about `Spec`, safety only. A theorem that needs more says so in its statement:
that no rank is cut (`RankIsRestored`, `OnlyViolationsAbort`), that no
allocation of `main` fails (`ReadersAlwaysFind`), that a seat is empty
(`EmptySeatSuffices`).

*Simple queue.* The inductive invariant `IndInv` joins `TypeOK`,
`NeverPopsEmpty`, and `CallInv`: at each point of a call the head of the script
is that call and the argument or result is where it should be. `TypeCorrect` and
`PopsAreSafe` follow. `WakeupsCoverItems` is preserved under it by counting: the only step
that lengthens the deque is that of a thread that thereby becomes promised
(`PushBack`); a thread leaves the promise at `NotifyOne`, which puts a sleeper
in its place or finds none asleep, at `PopFront`, which shortens the deque by
one, or at `WaitBlock`, where the deque is empty. `NoWakeupIsLost` is a
corollary. `Refinement` maps each step to an action of `FifoQueue` or a
stutter: a push takes effect at `PushBack` and fails at `PushThrows`, a pop takes effect at
`PopFront`, the empty answer at `TryPopEmpty`.

*Optimized queue.* The nodes after a node are given by a recursive function
(`After`); well-founded induction on the naturals shows that its equation has a
solution (`AfterDef`) and what it is along a path of `next` pointers
(`PathLemma`). The invariant says that there is such a path: `n` different nodes
from `head`, with the dummy of `tail` at place `p`, which is the last or, while a
push has linked a node and not yet moved `tail`, the last but one (`EndsInv`);
outside it exactly the nodes that threads own, all different and without a
successor (`LiveInv`); values up to `p` (`DataInv`). What keeps consumers off the
dummy is `SeenInv`: the tail that a consumer has seen is on the path, no further
than `p`, and so a consumer that finds another node there than `head` may pop
even if `tail` has moved on. Each step of a thread gives the new path from the
old: the same, one longer (`LinkNext`), without its first node (`PopHead`), or
with `p` one further (`MoveTail`). `ListIsWhole`, `NodesHaveOneOwner`,
`PopsAreSafe` and `NodesAreNotShared` follow. For the destructor `Dying` says
that the vector holds the first nodes of what is left, and that at most one node
is left that it does not hold, so that each iteration frees one
(`DestructorsAreFlat`). `Refinement` shows `Spec => Linearizable`: the items are
the data of the path before `p`; a push takes effect at `MoveTail`, a pop at
`PopHead`, an empty answer when `get_tail` has read the node `head` is at.

*Thread pool.* The invariant has the types, mutual exclusion, and for the
owner, each client and each worker what holds at each of its points. On top of
it `TaskAccounting` is preserved: every step moves one unit between the terms
of the sum, or changes the sum and the count alike. Since the terms are natural
numbers the unsigned count never goes below zero. `NoLostCompletion` needs the
stronger `NotificationOwed`, which begins at the failed test of the predicate
rather than at the sleep: the worker that takes the count to zero in between
still needs the mutex the client holds. `WaitAllIsComplete` follows from the exact
count and from the fact that clients are occupied with `wait_all` while they
wait, so only others submit. `OneLateTask` and `QuietIsSafe` follow from what a
worker may do after `done`: one pop, from the point behind the test. For the
refinement of `TaskGroup`, `OnceInv` says that a task is in one place at a time
(being submitted, in the queue once, with one worker, or over) and `NewInv` that
whatever is in one of these places was submitted: its client is past the call, or
its parent past its own submission. A task about to be submitted is therefore
new, one that is popped has not been run and is popped once, and when `wait_all`
finds the count at zero none of its caller's is left. `HopelessIsForever` is about
the count alone: once a leaked submission is part of it, or there is no worker to
lower it, each step leaves it above zero (`HopelessLasts`, `HopelessCount`), so the
test in `wait_all` fails for ever. `FailedConstructorHangs` puts together that no
worker ends before `done` (`DoneInv`), that the thread in the temporary was started
(`TempInv`), and that no other thread uses the pool while it is being constructed:
`Join` stays disabled and no other step moves the owner.

*Hierarchical mutex.* The locks of a thread that has not strayed (`Orderly`)
form a chain by `beneath`; the saved rank of each is no higher than all locks
beneath it, and the rank of the thread is no higher than all it holds. Cutting a
rank to an `unsigned` only makes it smaller (`CutIsLower`), which keeps these
bounds: that is why deadlock freedom survives where `IndexRestored` does not.
`DeadlockFreedom` then takes, among the mutexes a circular wait would be on, one of
lowest rank; its owner waits for a mutex of still lower rank, a contradiction.
Where no rank is cut (`Word > MaxUlong`) the bounds are exact (`ExactInv`): the
rank of a thread is that of the top of its chain, and `RankIsRestored` and
`OnlyViolationsAbort` follow.

*Concurrent map.* `IndInv` joins `TypeOK`, which says that exactly the thread
inside a `lock_guard` owns the mutex, with what each call has found so far: a
callback's pair is the one in the map (`ShownInv`), a `Dump` has copied the
map up to a key (`FoundInv`), and a key being filled holds the default value.
`StablePair` follows. `Refinement` shows `Spec => Linearizable`: an `Update`
takes effect at `UpdateAssign`, a failed one at `UpdateThrows`, a `Dump` when it
has copied the last key, `Fetch` at `Find`, and every other step inside an
operation changes nothing a caller sees. No other thread is inside then
(`OneInside`), so no callback is running, as `AtomicMap` demands.
`ReadersAlwaysFind` rests on `KeepingInv`: a key that is kept is in the map, or
`main` has still to store it before it starts the readers.

*Parallel sort.* The calls form a tree: two calls that have started have
nothing in common, or one lies in a half the other has already handed out
(`TreeInv`); it is preserved because a call hands out a half once, and its
ancestors' other halves are apart from it. With it a step of `nth_element` touches
no other call's elements: `NoDataRace`, `SortedStays`, and `PivotInv` (the divide
point stays between the halves, since the halves are only permuted within
themselves). A call whose halves are sorted is then sorted (`SortedInv`), and
`CountInv` says that every value is there as often as at first, by adding up
the counts inside and outside a range. `NoOrphans` needs `HalvesInv`, what a call
knows of its halves at each of its points: it is left only after the join.

*Joinable thread.* `HeldOnce` is inductive with `CallInv`: while the left side of
an assignment is joined the right one is another handle and keeps what it held,
and by the time of the move the left one is empty, so a move overwrites no
thread. The test for self-assignment is what makes the sides different.
`JoiningIsSafe` rests on the same invariant: a `JoinableThread` whose member is
about to be assigned to or destroyed has come from `AfterJoin`, and nothing has
given it a thread since.

*Dining philosophers.* The invariant ties each fork to the point of the thread
that holds it, and `main` to the philosophers it has started and joined.
For `OnlyFullTablesDeadlock` take philosophers that all wait for one another.
All stand before a lock, and of these only those at their second lock hold
anything, their first fork. So whoever waits for a second fork waits for one
whose first fork that is, and the first forks held by the set contain with each
fork the next. `RoundTheTable` shows that these are all the forks: beyond the
highest of them only fork 0 can come, and the lowest missing one would come
after one that is there (both by well-foundedness of the naturals). Hence fewer
philosophers than seats cannot deadlock at all (`EmptySeatSuffices`, whose
assumption `Diners < SeatCount` is the condition).

*Suite reporter.* `FlattenSeq` of the community modules is given by a recursive
function on sequences of all lengths; induction on sets of naturals
(`SetInduction`) shows that its equation has a solution (`FlatDef`), that what it
makes of the first sequences does not depend on the later ones, and that one more
sequence is appended to the result (`FlattenAppend`). Nothing more is needed for
`AllMeasuresAreShown`: a run lengthens the last column of the last suite
(`ShownAdded`), a new column is empty, and `PrintSuiteInfo` moves the suite to the
output before it is cleared (`ContentsPrinted`, `CheckedContents`). For
`SuitesAsRegistered` the invariant `GroupInv` says in addition that the number of
suites and the length of the last one are the number and the place of the
benchmark that ran last; numbers and places are cardinalities, which grow by one
at a naive benchmark, or elsewhere (`SuiteNumbers`, `Places`). `NamesDistinct` is what makes a
change of benchmark seen. `RowsCompareLikeWithLike` rests on `ColumnInv`: the
measures of a column have the arguments 1, 2, ... of its range in this order, and
behind them there is at most one more, without an argument: the complexity. Two
columns with the same range therefore agree in each row that both have.

*Progress.* The prover cannot reason about fairness, nor about `ENABLED`. What
makes the liveness properties true is nevertheless safety, and this half of
them is proved, in a section of its own in each module of proofs:

* *nothing is stuck*: an invariant that says that until the end some thread can
  step. `CanStep` and its like are the guards of the actions, written out (for
  TLC, which can evaluate `ENABLED`, `CanStep(t) <=> ENABLED Step(t)` is an
  invariant of the instances);
* *steps lead to the end*: an action property that says what each step uses up, by
  a rank of the points of a call or a count of what is left.

With weak fairness of the threads the liveness properties then follow by
well-founded induction, which is the part that only TLC checks. By component:

* *Simple queue*: `NeverStuck` rests on `NoLostWakeup`; a step that is not the
  waking of a consumer brings a thread closer to the end of its script, and a
  consumer is woken by one push each, or spuriously (`EveryStepDescends`).
* *Optimized queue*: the same with two mutexes, where a consumer holds
  `head_mutex` while it wants `tail_mutex` and never the other way round, so the
  holder of `tail_mutex` can always step. `AtRest` allows consumers that sleep
  beside a value, which is the first finding. Each step of the destructor frees a
  node or stores one in the vector.
* *Pool*: `DoneInv` says who sets `done` and that no worker ends before it. From
  then on each worker has at most one task left (`ShutdownIsFinite`), and what
  the owner waits for in `Join` can step (`ShutdownNeverStuck`). For `wait_all`,
  a count above zero means, by `TaskAccounting`, a task that is being submitted,
  is queued, or is with a worker, and a count of zero a notification that is owed
  (`WaitingIsNeverStuck`); the idle turns of a worker do not count as work.
* *Map*: the holder of the mutex can step unless its callback has called the map
  (`CallsNeverStuck`). `EveryStepDescends` also covers `async`, which starts
  threads and so lengthens nobody's script.
* *Parallel sort*: a smallest call that is not over can step, since its halves
  are smaller and so over, unless its left half has failed in its thread; then
  that one ends the process (`SortNeverStuck`). That `nth_element` can return is
  part of this: `PartitionsExist` shows by selection that every range has an
  order which the standard allows it to be left in.
* *Joinable thread*: a wait is for a thread that runs or has ended and is not
  joined (`CallsWaitForRunningThreads`), and in a scope that is left `Distance`, made of
  handles, running threads and the call under way, falls with each step.
* *Philosophers*: a set that waits for none outside it contains one that can go on
  (`WaitingEndsSomewhere`), and so the program can until `main` ends
  (`NobodyElseStops`), both unless the circle is closed. Philosophers have no
  end of their own, but a cancelled one leaves after at most one meal
  (`CancelledLeave`), and `main` has a bounded number of steps (`MainEndsSometime`).

*Only model-checked:* the liveness properties themselves (`Quiescence`,
`WaitAllReturns`, `ShutdownEnds`, `CallsReturn`, `NobodyStarves`,
`OnlyCirclesHangMain`, `SortEnds`, `ScopeEnds`), whose last step, from the two
halves above to "eventually", needs fairness; for
`NobodyStarves` also that strong fairness of the locks gives each philosopher
its turn.

## 5. Findings

1. `OptimizedThreadSafeQueue.h:132` notifies without `head_mutex`, so a
   consumer between its test and its sleep misses the notification. The client of
   `8_thread_safe_queue.cpp` can then hang (`optimized_queue_client`). The simple
   queue notifies under its mutex and passes the corresponding run.
2. `hierarchical_mutex.h:54` saves an `unsigned long` rank in an `unsigned`. On
   LP64 the rank is not restored as the comment at line 14 says
   (`hierarchy_cut_restore`). This never admits a deadlock (proved); a thread may
   from then on be refused ranks from 2^32 - 1 upwards.
3. `hierarchical_mutex.h:60` aborts when the rank of a thread is less than or equal
   to that of the mutex; the comment at lines 15-16 calls only a smaller one a
   deadlock (`hierarchy_equal_ranks`: a thread that holds a mutex is aborted at a
   free one of the same rank). Freedom from deadlock needs the code's comparison:
   with `<` two threads could take two mutexes of one rank in different orders.
   `AbortJustified` states the comment and leaves out what is an error under either
   reading: a mutex the thread holds already, and a thread that has released
   locks out of order; and also a mutex of the largest rank, which no thread can
   ever lock. What the code does keep, that it aborts only for a rank that is not
   below all the thread holds, is proved (`OnlyViolationsAbort`).

What the models show besides, and the repository does not contradict:

* *Hierarchical mutex.* Locks released in another order than the reverse leave
  the rank of the thread above locks it still holds, and it may then deadlock
  undetected; the promises are for threads in whose history this has not happened.
  A mutex of the largest rank can never be locked.
* *Philosophers.* Three philosophers at three seats can each hold one fork;
  `main` then hangs in the destructor of the last. The comment at line 23 sets
  this as the exercise. With one more seat there is no deadlock (proved), and
  nothing else hangs `main` (checked).
* *Map.* `concurrent_map.h:41` calls the callback with the mutex locked, and the
  callback of `4_concurrent_map.cpp` calls `Update` of the same map. The program
  hangs or ends with an exception, as the comment at line 9 there says.
* *Pool.* A `submit` that throws leaves the count raised, so a later `wait_all`
  never returns; the same holds after a submission to a pool without workers (both
  proved, `HopelessIsForever`). A
  pool may be destroyed only when no worker is running a task or still notifying
  (returning from `wait_all` is not enough, the notifying worker may still be
  about to lock the mutex that is being destroyed). A task must not call
  `wait_all`. If the vector cannot grow after a thread was started, the
  constructor never returns, since it joins that thread before its handler can set
  `done` (proved).
* *Parallel sort.* A thread that cannot be started in the thread of another call
  ends the process, however many calls are above it: the exception does not
  cross threads.
* *Suite reporter.* A benchmark whose name contains that of the one before it is
  taken for part of it. When the columns of a suite have different numbers of
  arguments, a row may compare a complexity with a time. Otherwise grouping and
  rows are right (proved).

## 6. Not modelled

* Memory orders. Every module is sequentially consistent. The count of the pool
  is changed with relaxed operations; its value is right all the same since an
  atomic has one modification order, but whether the effects of the tasks are
  visible to a client that found zero is not covered.
* Tasks that throw (the process terminates), tasks that call `wait_all`.
* The members of the optimized queue that do not compile when instantiated
  (`wait_and_pop(T&)` calls a function that does not exist, and so on) and the
  two helpers only they use.
* A philosopher's thread that cannot be started, `bad_alloc` in `main`, and a
  `Get`, `Dump` or callback of the map that throws (the map is unchanged and the
  mutex released, which a return would do too).
* Contents of tasks and values, timing.
* In the suite reporter, column widths, the editing of measure names, and that
  with repetitions every row of a benchmark gets the time of the first report.
* What the exercises print without synchronisation (`1_thread.cpp`,
  `3_mutex.cpp`, `Logger.h`): lines of console output that interleave are what
  the lesson shows, and no state depends on them.
* Google Benchmark (vendored) and the build files.

## 7. Plan

The queues and the pool came first because other programs are built on them,
then the mutex, the map and the philosophers, then the sort, the handles and the
reporter, each with its abstract specification where it has one. All of these
are done, and the safety of all of them is proved, with the safety that their
progress rests on.

What could still be added: a model of the relaxed count of the pool with
explicit views of memory, for the one ordering hazard that has no property; tasks
that call `wait_all`; and the repetitions of the reporter.

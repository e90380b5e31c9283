------------------------------ MODULE ThreadPool ------------------------------
(***************************************************************************)
(* src/src/ThreadPool.h: workers that poll a SimpleThreadSafeQueue, an     *)
(* atomic count of unfinished tasks, and wait_all.                         *)
(*                                                                         *)
(* Clients run scripts of calls: "leaf" and "spawner" submit a task, a     *)
(* spawner submits one more from inside the pool.  The owner constructs    *)
(* the pool and destroys it when every script is over.  A call of the      *)
(* queue is one step: SimpleThreadSafeQueue_proofs!Refinement shows that   *)
(* it takes effect in one.                                                 *)
(***************************************************************************)
EXTENDS Integers, Sequences, FiniteSets

CONSTANTS Clients,       \* the threads that call submit and wait_all
          Owner,         \* the client that constructs and destroys the pool
          Nobody,        \* the owner of a free mutex
          NoTask,        \* no task
          Scripts,       \* the call sequences a client may run
          MaxCalls,      \* bound: the length of the longest script
          MaxThreads,    \* bound: what hardware_concurrency() returns at most
          MaxSpurious,   \* bound: spurious wakeups in one behaviour
          MayFail        \* what may throw: "thread", "push_back", "push"

Calls   == {"leaf", "spawner", "wait_all"}
Workers == 1..MaxThreads
Actors  == Clients \cup Workers

ASSUME ClientsAssumption ==
  /\ IsFiniteSet(Clients) /\ Owner \in Clients
  /\ Nobody \notin Clients \cup Int /\ Clients \cap Int = {}
ASSUME ScriptsAssumption == \A s \in Scripts : s \in Seq(Calls) /\ Len(s) <= MaxCalls
ASSUME BoundsAssumption == MaxCalls \in Nat /\ MaxThreads \in Nat /\ MaxSpurious \in Nat
ASSUME NoTaskAssumption ==
  NoTask \notin [by : Clients, at : 1..MaxCalls, kind : {"leaf", "spawner", "child"}]

VARIABLES done, work_queue, m_taskCount,
          mutex,          \* the thread that holds m_tasksCompleteMutex, or Nobody
          threads,        \* how many threads have been started
          thread_count,   \* what hardware_concurrency() returned
          pc,             \* where each client and worker is
          todo,           \* the calls each client still has to make
          task,           \* the task a worker popped
          f,              \* the task a thread is submitting
          destroyed,      \* mutex, condition variable and count no longer exist
          spurious,       \* spurious wakeups so far
          leaked,         \* history: submissions counted but never queued
          over,           \* history: the tasks that have ended or were never queued
          late,           \* history: tasks each worker popped when done was set
          quiet           \* history: no worker was busy when the members died

sharedVars  == <<done, work_queue, m_taskCount, mutex>>
historyVars == <<leaked, over, late, quiet>>
ownerVars   == <<threads, thread_count, destroyed>>
vars == <<sharedVars, ownerVars, pc, todo, task, f, spurious, historyVars>>

Tasks == [by : Clients, at : 1..MaxCalls, kind : {"leaf", "spawner", "child"}]

\* The points at which a thread holds m_tasksCompleteMutex.
Holding == {"notify_all", "unlock", "test", "sleep", "return"}
Points  == Holding \cup
  {"none", "ctor", "idle", "push", "asleep", "relock",                  \* clients
   "destroy", "join_temp", "join", "gone",                      \* the owner
   "while", "try_pop", "run", "fetch_sub", "lock", "exited"}            \* workers

Asleep == {c \in Clients : pc[c] = "asleep"}
Goto(x, point) == pc' = [pc EXCEPT ![x] = point]

-----------------------------------------------------------------------------
Init ==
  /\ done = FALSE /\ work_queue = <<>> /\ m_taskCount = 0 /\ mutex = Nobody
  /\ threads = 0 /\ thread_count \in 0..MaxThreads
  /\ pc = [x \in Actors |-> IF x = Owner THEN "ctor" ELSE "none"]
  /\ todo \in [Clients -> Scripts]
  /\ task = [w \in Workers |-> NoTask]
  /\ f = [x \in Actors |-> NoTask]
  /\ destroyed = FALSE /\ spurious = 0
  /\ leaked = 0 /\ over = {} /\ late = [w \in Workers |-> 0] /\ quiet = TRUE

(* the constructor *)

\* One iteration: the thread runs, and is in the vector.
StartThread ==
  /\ pc[Owner] = "ctor"
  /\ threads < thread_count
  /\ threads' = threads + 1
  /\ Goto(threads + 1, "while")
  /\ UNCHANGED <<sharedVars, thread_count, destroyed, todo, task, f, spurious, historyVars>>

\* std::thread throws: the handler sets done, the members are destroyed.
ThreadThrows ==
  /\ pc[Owner] = "ctor"
  /\ "thread" \in MayFail
  /\ threads < thread_count
  /\ done' = TRUE
  /\ Goto(Owner, "destroy")
  /\ UNCHANGED <<work_queue, m_taskCount, mutex, ownerVars, todo, task, f, spurious,
                 historyVars>>

\* Faulty variant: done is set before the temporary is destroyed.
PushBackThrows_DoneFirst ==
  /\ pc[Owner] = "ctor"
  /\ "push_back" \in MayFail
  /\ threads < thread_count
  /\ threads' = threads + 1
  /\ done' = TRUE
  /\ pc' = [pc EXCEPT ![Owner] = "join_temp", ![threads + 1] = "while"]
  /\ UNCHANGED <<work_queue, m_taskCount, mutex, thread_count, destroyed, todo, task, f,
                 spurious, historyVars>>

\* The vector cannot grow: the thread runs, and the temporary JoinableThread is
\* destroyed, that is joined, before the handler sets done.
PushBackThrows ==
  /\ pc[Owner] = "ctor"
  /\ "push_back" \in MayFail
  /\ threads < thread_count
  /\ threads' = threads + 1
  /\ pc' = [pc EXCEPT ![Owner] = "join_temp", ![threads + 1] = "while"]
  /\ UNCHANGED <<sharedVars, thread_count, destroyed, todo, task, f, spurious, historyVars>>

\* The pool is complete and the clients may use it.
Constructed ==
  /\ pc[Owner] = "ctor"
  /\ threads = thread_count
  /\ pc' = [x \in Actors |-> IF x \in Clients THEN "idle" ELSE pc[x]]
  /\ UNCHANGED <<sharedVars, ownerVars, todo, task, f, spurious, historyVars>>

(* submit, from a client or from a task *)

\* fetch_add; k is the task submitted.
FetchAdd(x, k) ==
  /\ m_taskCount' = m_taskCount + 1
  /\ f' = [f EXCEPT ![x] = k]
  /\ Goto(x, "push")

Submit(c) ==
  /\ pc[c] = "idle"
  /\ todo[c] # <<>> /\ Head(todo[c]) # "wait_all"
  /\ FetchAdd(c, [by |-> c, at |-> Len(todo[c]), kind |-> Head(todo[c])])
  /\ UNCHANGED <<done, work_queue, mutex, ownerVars, todo, task, spurious, historyVars>>

\* submit returns: to the client, or to the task that called it.
Submitted(x) ==
  /\ f' = [f EXCEPT ![x] = NoTask]
  /\ Goto(x, IF x \in Clients THEN "idle" ELSE "fetch_sub")
  /\ todo' = IF x \in Clients THEN [todo EXCEPT ![x] = Tail(@)] ELSE todo

Push(x) ==
  /\ pc[x] = "push"
  /\ work_queue' = Append(work_queue, f[x])
  /\ Submitted(x)
  /\ UNCHANGED <<done, m_taskCount, mutex, ownerVars, task, spurious, historyVars>>

\* Faulty variant: a submission that fails is not counted.
PushThrows_Uncounted(x) ==
  /\ pc[x] = "push"
  /\ "push" \in MayFail
  /\ m_taskCount' = m_taskCount - 1
  /\ leaked' = leaked + 1
  /\ over' = over \cup {f[x]}
  /\ Submitted(x)
  /\ UNCHANGED <<done, work_queue, mutex, ownerVars, task, spurious, late, quiet>>

\* The queue cannot grow; the caller catches bad_alloc.  The count stays.
PushThrows(x) ==
  /\ pc[x] = "push"
  /\ "push" \in MayFail
  /\ leaked' = leaked + 1
  /\ over' = over \cup {f[x]}
  /\ Submitted(x)
  /\ UNCHANGED <<sharedVars, ownerVars, task, spurious, late, quiet>>

(* worker_thread *)

\* Faulty variant: a worker goes on for as long as there are tasks.
While_QueueFirst(w) ==
  /\ pc[w] = "while"
  /\ Goto(w, IF done /\ work_queue = <<>> THEN "exited" ELSE "try_pop")
  /\ UNCHANGED <<sharedVars, ownerVars, todo, task, f, spurious, historyVars>>

\* while (!done)
While(w) ==
  /\ pc[w] = "while"
  /\ Goto(w, IF done THEN "exited" ELSE "try_pop")
  /\ UNCHANGED <<sharedVars, ownerVars, todo, task, f, spurious, historyVars>>

\* Faulty variant: the task is read, and stays at the front of the queue.
TryPop_Peeks(w) ==
  /\ pc[w] = "try_pop"
  /\ work_queue # <<>>
  /\ task' = [task EXCEPT ![w] = Head(work_queue)]
  /\ late' = IF done THEN [late EXCEPT ![w] = @ + 1] ELSE late
  /\ Goto(w, "run")
  /\ UNCHANGED <<sharedVars, ownerVars, todo, f, spurious, leaked, over, quiet>>

TryPop(w) ==
  /\ pc[w] = "try_pop"
  /\ work_queue # <<>>
  /\ task' = [task EXCEPT ![w] = Head(work_queue)]
  /\ work_queue' = Tail(work_queue)
  /\ late' = IF done THEN [late EXCEPT ![w] = @ + 1] ELSE late
  /\ Goto(w, "run")
  /\ UNCHANGED <<done, m_taskCount, mutex, ownerVars, todo, f, spurious, leaked, over, quiet>>

\* Faulty variant: the worker waits in the queue for its next task.
Yield_Blocks(w) ==
  /\ pc[w] = "try_pop"
  /\ work_queue = <<>>
  /\ UNCHANGED vars

\* The queue is empty: yield.
Yield(w) ==
  /\ pc[w] = "try_pop"
  /\ work_queue = <<>>
  /\ Goto(w, "while")
  /\ UNCHANGED <<sharedVars, ownerVars, todo, task, f, spurious, historyVars>>

\* Faulty variant: a task pushes its child without counting it.
Run_Uncounted(w) ==
  /\ pc[w] = "run"
  /\ IF task[w].kind = "spawner"
       THEN /\ f' = [f EXCEPT ![w] = [task[w] EXCEPT !.kind = "child"]]
            /\ Goto(w, "push")
       ELSE Goto(w, "fetch_sub") /\ UNCHANGED f
  /\ UNCHANGED <<sharedVars, ownerVars, todo, task, spurious, historyVars>>

\* task(): a spawner is in submit when it leaves this step.
Run(w) ==
  /\ pc[w] = "run"
  /\ IF task[w].kind = "spawner"
       THEN FetchAdd(w, [task[w] EXCEPT !.kind = "child"])
       ELSE Goto(w, "fetch_sub") /\ UNCHANGED <<m_taskCount, f>>
  /\ UNCHANGED <<done, work_queue, mutex, ownerVars, todo, task, spurious, historyVars>>

\* Faulty variant: the last worker notifies without the mutex.
FetchSub_NoLock(w) ==
  /\ pc[w] = "fetch_sub"
  /\ m_taskCount' = m_taskCount - 1
  /\ task' = [task EXCEPT ![w] = NoTask]
  /\ over' = over \cup {task[w]}
  /\ pc' = [x \in Actors |-> IF x = w THEN "while"
                             ELSE IF m_taskCount = 1 /\ pc[x] = "asleep" THEN "relock"
                             ELSE pc[x]]
  /\ UNCHANGED <<done, work_queue, mutex, ownerVars, todo, f, spurious, leaked, late,
                 quiet>>

\* fetch_sub returns the old value: only the worker that saw 1 notifies.
FetchSub(w) ==
  /\ pc[w] = "fetch_sub"
  /\ m_taskCount' = m_taskCount - 1
  /\ task' = [task EXCEPT ![w] = NoTask]
  /\ over' = over \cup {task[w]}
  /\ Goto(w, IF m_taskCount = 1 THEN "lock" ELSE "while")
  /\ UNCHANGED <<done, work_queue, mutex, ownerVars, todo, f, spurious, leaked, late,
                 quiet>>

Lock(w) ==
  /\ pc[w] = "lock"
  /\ mutex = Nobody
  /\ mutex' = w
  /\ Goto(w, "notify_all")
  /\ UNCHANGED <<done, work_queue, m_taskCount, ownerVars, todo, task, f, spurious, historyVars>>

\* Faulty variant: notify_one.
NotifyAll_One(w) ==
  /\ pc[w] = "notify_all"
  /\ IF Asleep = {} THEN Goto(w, "unlock")
     ELSE \E c \in Asleep : pc' = [pc EXCEPT ![w] = "unlock", ![c] = "relock"]
  /\ UNCHANGED <<sharedVars, ownerVars, todo, task, f, spurious, historyVars>>

NotifyAll(w) ==
  /\ pc[w] = "notify_all"
  /\ pc' = [x \in Actors |-> IF x = w THEN "unlock"
                             ELSE IF pc[x] = "asleep" THEN "relock" ELSE pc[x]]
  /\ UNCHANGED <<sharedVars, ownerVars, todo, task, f, spurious, historyVars>>

Unlock(w) ==
  /\ pc[w] = "unlock"
  /\ mutex' = Nobody
  /\ Goto(w, "while")
  /\ UNCHANGED <<done, work_queue, m_taskCount, ownerVars, todo, task, f, spurious, historyVars>>

(* wait_all *)

\* The call, and the return of a woken thread from sleep: take the mutex.
WaitLock(c) ==
  /\ \/ pc[c] = "idle" /\ todo[c] # <<>> /\ Head(todo[c]) = "wait_all"
     \/ pc[c] = "relock"
  /\ mutex = Nobody
  /\ mutex' = c
  /\ Goto(c, "test")
  /\ UNCHANGED <<done, work_queue, m_taskCount, ownerVars, todo, task, f, spurious, historyVars>>

\* The predicate m_taskCount == 0: the count may change before the sleep.
WaitTest(c) ==
  /\ pc[c] = "test"
  /\ Goto(c, IF m_taskCount = 0 THEN "return" ELSE "sleep")
  /\ UNCHANGED <<sharedVars, ownerVars, todo, task, f, spurious, historyVars>>

WaitSleep(c) ==
  /\ pc[c] = "sleep"
  /\ mutex' = Nobody
  /\ Goto(c, "asleep")
  /\ UNCHANGED <<done, work_queue, m_taskCount, ownerVars, todo, task, f, spurious, historyVars>>

SpuriousWakeup(c) ==
  /\ pc[c] = "asleep"
  /\ spurious < MaxSpurious
  /\ spurious' = spurious + 1
  /\ Goto(c, "relock")
  /\ UNCHANGED <<sharedVars, ownerVars, todo, task, f, historyVars>>

WaitReturn(c) ==
  /\ pc[c] = "return"
  /\ mutex' = Nobody
  /\ todo' = [todo EXCEPT ![c] = Tail(@)]
  /\ Goto(c, "idle")
  /\ UNCHANGED <<done, work_queue, m_taskCount, ownerVars, task, f, spurious, historyVars>>

(* the destructor *)

\* ~thread_pool, when every client has finished.
SetDone ==
  /\ \A c \in Clients : pc[c] = "idle" /\ todo[c] = <<>>
  /\ done' = TRUE
  /\ Goto(Owner, "destroy")
  /\ UNCHANGED <<work_queue, m_taskCount, mutex, ownerVars, todo, task, f, spurious,
                 historyVars>>

\* Members go in reverse order of declaration: m_tasksCompleteMutex,
\* m_tasksComplete and m_taskCount before threads.
DestroyMembers ==
  /\ pc[Owner] = "destroy"
  /\ destroyed' = TRUE
  /\ quiet' = \A w \in Workers : \/ pc[w] \in {"none", "while", "exited"}
                                 \/ pc[w] = "try_pop" /\ work_queue = <<>>
  /\ Goto(Owner, "join")
  /\ UNCHANGED <<sharedVars, threads, thread_count, todo, task, f, spurious, leaked, over, late>>

\* The destructors of the JoinableThreads; of one that never reached the
\* vector, then the handler follows.
Join ==
  /\ pc[Owner] \in {"join", "join_temp"}
  /\ LET joined == IF pc[Owner] = "join" THEN 1..threads ELSE {threads}
     IN  \A w \in joined : pc[w] = "exited"
  /\ done' = TRUE
  /\ Goto(Owner, IF pc[Owner] = "join" THEN "gone" ELSE "destroy")
  /\ UNCHANGED <<work_queue, m_taskCount, mutex, ownerVars, todo, task, f, spurious,
                 historyVars>>

OwnerStep ==
  \/ StartThread \/ ThreadThrows \/ PushBackThrows \/ Constructed
  \/ SetDone \/ DestroyMembers \/ Join

ClientStep(c) ==
  \/ Submit(c) \/ Push(c) \/ PushThrows(c)
  \/ WaitLock(c) \/ WaitTest(c) \/ WaitSleep(c) \/ WaitReturn(c)

WorkerStep(w) ==
  \/ While(w) \/ TryPop(w) \/ Yield(w) \/ Run(w) \/ Push(w) \/ PushThrows(w)
  \/ FetchSub(w) \/ Lock(w) \/ NotifyAll(w) \/ Unlock(w)

Next ==
  \/ OwnerStep
  \/ \E c \in Clients : ClientStep(c) \/ SpuriousWakeup(c)
  \/ \E w \in Workers : WorkerStep(w)

Spec == Init /\ [][Next]_vars

\* Every runnable thread is eventually scheduled.
FairSpec ==
  /\ Spec /\ WF_vars(OwnerStep)
  /\ \A c \in Clients : WF_vars(ClientStep(c))
  /\ \A w \in Workers : WF_vars(WorkerStep(w))

-----------------------------------------------------------------------------
(***************************************************************************)
(* Properties                                                              *)
(***************************************************************************)

\* The types of the state, and that exactly the thread inside a critical
\* section owns m_tasksCompleteMutex.
TypeOK ==
  /\ done \in BOOLEAN /\ work_queue \in Seq(Tasks) /\ m_taskCount \in Nat
  /\ mutex \in Actors \cup {Nobody}
  /\ thread_count \in 0..MaxThreads /\ threads \in 0..thread_count
  /\ pc \in [Actors -> Points] /\ todo \in [Clients -> Seq(Calls)]
  /\ task \in [Workers -> Tasks \cup {NoTask}] /\ f \in [Actors -> Tasks \cup {NoTask}]
  /\ destroyed \in BOOLEAN /\ quiet \in BOOLEAN
  /\ spurious \in 0..MaxSpurious /\ leaked \in Nat /\ late \in [Workers -> Nat]
  /\ over \subseteq Tasks
  /\ \A x \in Actors : pc[x] \in Holding <=> mutex = x

Submitting == {x \in Actors : pc[x] = "push"}
Busy == {w \in Workers : task[w] # NoTask}

\* m_taskCount, which no mutex protects and which is raised before and lowered
\* after the queue operation, is at every moment the number of tasks queued, on
\* their way to the queue, or popped and not yet finished, plus those a
\* throwing push left behind; it never wraps below zero.
TaskAccounting ==
  m_taskCount = Len(work_queue) + Cardinality(Submitting) + Cardinality(Busy) + leaked

\* The worker that finishes the last task does not slip its notification in
\* between a client's test of the count and its sleep: while the count is zero
\* and a client sleeps, a notification is still to come.
NoLostCompletion ==
  Asleep # {} /\ m_taskCount = 0 =>
    \E w \in Workers : pc[w] \in {"lock", "notify_all"}

\* The tasks that will still run.
Unfinished ==
  {work_queue[i] : i \in 1..Len(work_queue)}
    \cup {f[x] : x \in Submitting}
    \cup {task[w] : w \in {v \in Workers : pc[v] \in {"run", "push"}}}

\* When wait_all returns, nothing the caller submitted before, and nothing a
\* task of its has submitted, is still to run: the count may not touch zero
\* between a parent's end and its child's beginning.
WaitAllCovers ==
  \A c \in Clients : pc[c] = "return" => \A k \in Unfinished : k.by # c

\* After the destructor (or the constructor's handler) has set done, a worker
\* begins at most the one task it was about to pop.
AtMostOneLateTask == \A w \in Workers : late[w] <= 1

\* The count, the mutex and the condition variable are destroyed before the
\* workers are joined.  A pool whose workers are all between two tasks at that
\* moment is safe: none of them touches a destroyed member afterwards.  (After
\* wait_all a worker may still be at "lock", and then it does.)
QuietDestructionIsSafe ==
  destroyed /\ quiet =>
    \A w \in Workers : pc[w] \notin {"push", "fetch_sub", "lock", "notify_all", "unlock"}

\* A constructor whose vector cannot grow never returns, not even with an exception:
\* it joins the thread it has just started before its handler could tell that thread
\* to end, and no other thread does.
UngrownVectorHangs == [][pc[Owner] = "join_temp" => pc'[Owner] = "join_temp"]_vars

InWaitAll(c) == pc[c] \in {"test", "sleep", "asleep", "relock", "return"}

\* wait_all returns, unless a push threw or the machine reported no processor.
WaitAllReturns ==
  \A c \in Clients : InWaitAll(c) ~> (~InWaitAll(c) \/ leaked > 0 \/ threads = 0)

\* Once done is set, every started worker ends and the pool is gone, tasks
\* left in the queue or not.
ShutdownEnds == done ~> (pc[Owner] = "gone")

\* No worker will ever bring the count to zero: a push threw after it was
\* counted, or there is no worker.
Hopeless == leaked > 0 \/ (thread_count = 0 /\ m_taskCount > 0)

\* submit counts a task before it queues it, and nobody lowers the count for a
\* task that was not queued, or that no worker pops.  From then on no wait_all,
\* of whichever client and whatever else it submits, goes on to return.
HopelessWaitsHang ==
  [][Hopeless => /\ Hopeless'
                 /\ \A c \in Clients : pc'[c] = "return" => pc[c] = "return"]_vars

(* The pool as its clients see it. *)

ParentOf(k) == IF k.kind = "child" THEN [k EXCEPT !.kind = "spawner"] ELSE NoTask

\* Where task k is: with a thread that submits it, at places in the queue, with
\* workers, or among those that are over.
Places(k) ==
  {<<"submitted", x>> : x \in {y \in Submitting : f[y] = k}}
    \cup {<<"queued", i>> : i \in {j \in 1..Len(work_queue) : work_queue[j] = k}}
    \cup {<<"running", w>> : w \in {v \in Busy : task[v] = k}}
    \cup {<<"over", j>> : j \in over \cap {k}}

\* A task in two places at once, queued again after its end or with a second
\* worker, is in no state that TaskGroup knows.
StateOf(k) ==
  IF Places(k) = {} THEN "new"
  ELSE IF \E p, q \in Places(k) : p # q THEN "duplicate"
  ELSE (CHOOSE p \in Places(k) : TRUE)[1]

Waiting == {c \in Clients : pc[c] \in {"test", "sleep", "asleep", "relock"}}

Group == INSTANCE TaskGroup WITH
  By <- [k \in Tasks |-> k.by], Parent <- [k \in Tasks |-> ParentOf(k)],
  state <- [k \in Tasks |-> StateOf(k)], waiting <- Waiting

\* Every task is run at most once and only after it was queued, none is in two
\* places at once, a child is submitted by a parent that runs, and wait_all
\* returns only when nothing that was submitted for its caller is queued or run,
\* whichever worker popped it.
ImplementsTaskGroup == Group!Spec
=============================================================================

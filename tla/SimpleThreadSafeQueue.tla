------------------------ MODULE SimpleThreadSafeQueue ------------------------
(***************************************************************************)
(* src/src/SimpleThreadSafeQueue.h: a std::deque guarded by one std::mutex *)
(* with one std::condition_variable.                                       *)
(*                                                                         *)
(* Each thread runs a script, a sequence of calls; the scripts stand for   *)
(* every client: the producer and the consumer of 8_thread_safe_queue.cpp, *)
(* and the submitters and the workers of ThreadPool.h.  A step is one      *)
(* access to the mutex, the condition variable or the deque; what happens  *)
(* while the mutex is held is still one step per statement.                *)
(***************************************************************************)
EXTENDS Integers, Sequences, FiniteSets

CONSTANTS Threads,      \* the threads that share the queue
          Nobody,       \* the owner of a free mutex
          NoValue,      \* no value
          Scripts,      \* the call sequences a thread may run
          MaxCalls,     \* bound: the length of the longest script
          MaxSpurious   \* bound: spurious wakeups in one behaviour

Operations == {"push", "wait_and_pop", "try_pop"}

ASSUME ThreadsAssumption == IsFiniteSet(Threads) /\ Nobody \notin Threads
ASSUME ScriptsAssumption ==
  \A s \in Scripts : s \in Seq(Operations) /\ Len(s) <= MaxCalls
ASSUME BoundsAssumption == MaxCalls \in Nat /\ MaxSpurious \in Nat

VARIABLES m_queue,   \* the deque
          m_mutex,   \* the thread that holds the mutex, or Nobody
          pc,        \* where each thread is
          todo,      \* the calls each thread still has to make, current first
          val,       \* the argument of a push, the result of a pop
          spurious   \* spurious wakeups so far

vars == <<m_queue, m_mutex, pc, todo, val, spurious>>

\* The values pushed: who pushed it, and how many calls it had left then.
Values == Threads \X (1..MaxCalls)

\* Points at which a thread holds m_mutex, and all points.
Holding == {"emplace_back", "notify_one", "wait", "pop_front", "try_pop", "unlock", "unwind"}
Points  == Holding \cup {"idle", "lock", "asleep", "relock"}

\* The first statement of each call under the lock.
Body == [push |-> "emplace_back", wait_and_pop |-> "wait", try_pop |-> "try_pop"]

Asleep == {t \in Threads : pc[t] = "asleep"}

Goto(t, point) == pc' = [pc EXCEPT ![t] = point]

-----------------------------------------------------------------------------
Init ==
  /\ m_queue = <<>>
  /\ m_mutex = Nobody
  /\ pc = [t \in Threads |-> "idle"]
  /\ todo \in [Threads -> Scripts]
  /\ val = [t \in Threads |-> NoValue]
  /\ spurious = 0

\* The client makes its next call.
Call(t) ==
  /\ pc[t] = "idle"
  /\ todo[t] # <<>>
  /\ val' = [val EXCEPT ![t] = IF Head(todo[t]) = "push" THEN <<t, Len(todo[t])>>
                                                         ELSE NoValue]
  /\ Goto(t, "lock")
  /\ UNCHANGED <<m_queue, m_mutex, todo, spurious>>

\* lock_guard / unique_lock: acquire the mutex, enter the body of the call.
Lock(t) ==
  /\ pc[t] = "lock"
  /\ m_mutex = Nobody
  /\ m_mutex' = t
  /\ Goto(t, Body[Head(todo[t])])
  /\ UNCHANGED <<m_queue, todo, val, spurious>>

PushBack(t) ==
  /\ pc[t] = "emplace_back"
  /\ m_queue' = Append(m_queue, val[t])
  /\ val' = [val EXCEPT ![t] = NoValue]
  /\ Goto(t, "notify_one")
  /\ UNCHANGED <<m_mutex, todo, spurious>>

\* Faulty variant: push catches the exception and returns.
PushThrows_Swallowed(t) ==
  /\ pc[t] = "emplace_back"
  /\ val' = [val EXCEPT ![t] = NoValue]
  /\ Goto(t, "unlock")
  /\ UNCHANGED <<m_queue, m_mutex, todo, spurious>>

\* emplace_back throws bad_alloc: nobody is notified, and the exception leaves
\* the call once the lock_guard has unlocked.
PushThrows(t) ==
  /\ pc[t] = "emplace_back"
  /\ val' = [val EXCEPT ![t] = NoValue]
  /\ Goto(t, "unwind")
  /\ UNCHANGED <<m_queue, m_mutex, todo, spurious>>

\* Faulty variant: notify only on the transition from empty.
NotifyOne_OnlyFirst(t) ==
  /\ pc[t] = "notify_one"
  /\ IF Asleep = {} \/ Len(m_queue) # 1 THEN Goto(t, "unlock")
     ELSE \E s \in Asleep : pc' = [pc EXCEPT ![t] = "unlock", ![s] = "relock"]
  /\ UNCHANGED <<m_queue, m_mutex, todo, val, spurious>>

\* notify_one wakes some sleeper; without one it is lost.
NotifyOne(t) ==
  /\ pc[t] = "notify_one"
  /\ IF Asleep = {} THEN Goto(t, "unlock")
     ELSE \E s \in Asleep : pc' = [pc EXCEPT ![t] = "unlock", ![s] = "relock"]
  /\ UNCHANGED <<m_queue, m_mutex, todo, val, spurious>>

\* The predicate of the wait holds: go on to pop with the mutex held.
WaitReady(t) ==
  /\ pc[t] = "wait"
  /\ m_queue # <<>>
  /\ Goto(t, "pop_front")
  /\ UNCHANGED <<m_queue, m_mutex, todo, val, spurious>>

\* It does not: release the mutex and fall asleep, atomically.
WaitBlock(t) ==
  /\ pc[t] = "wait"
  /\ m_queue = <<>>
  /\ m_mutex' = Nobody
  /\ Goto(t, "asleep")
  /\ UNCHANGED <<m_queue, todo, val, spurious>>

SpuriousWakeup(t) ==
  /\ pc[t] = "asleep"
  /\ spurious < MaxSpurious
  /\ spurious' = spurious + 1
  /\ Goto(t, "relock")
  /\ UNCHANGED <<m_queue, m_mutex, todo, val>>

\* Faulty variant: the predicate is not evaluated again after a wakeup.
Relock_NoRecheck(t) ==
  /\ pc[t] = "relock"
  /\ m_mutex = Nobody
  /\ m_mutex' = t
  /\ Goto(t, "pop_front")
  /\ UNCHANGED <<m_queue, todo, val, spurious>>

\* A woken thread gets the mutex back and evaluates the predicate again.
Relock(t) ==
  /\ pc[t] = "relock"
  /\ m_mutex = Nobody
  /\ m_mutex' = t
  /\ Goto(t, "wait")
  /\ UNCHANGED <<m_queue, todo, val, spurious>>

\* The tail of wait_and_pop, and try_pop on a queue that is not empty.
PopFront(t) ==
  /\ \/ pc[t] = "pop_front"
     \/ pc[t] = "try_pop" /\ m_queue # <<>>
  /\ val' = [val EXCEPT ![t] = Head(m_queue)]
  /\ m_queue' = Tail(m_queue)
  /\ Goto(t, "unlock")
  /\ UNCHANGED <<m_mutex, todo, spurious>>

TryPopEmpty(t) ==
  /\ pc[t] = "try_pop"
  /\ m_queue = <<>>
  /\ Goto(t, "unlock")
  /\ UNCHANGED <<m_queue, m_mutex, todo, val, spurious>>

\* The lock goes out of scope and the call is over: it returns, or its
\* exception reaches the client.
Unlock(t) ==
  /\ pc[t] \in {"unlock", "unwind"}
  /\ m_mutex' = Nobody
  /\ todo' = [todo EXCEPT ![t] = Tail(@)]
  /\ val' = [val EXCEPT ![t] = NoValue]
  /\ Goto(t, "idle")
  /\ UNCHANGED <<m_queue, spurious>>

\* Everything thread t does without help from the scheduler's whims.
Step(t) ==
  \/ Call(t) \/ Lock(t) \/ PushBack(t) \/ PushThrows(t) \/ NotifyOne(t)
  \/ WaitReady(t) \/ WaitBlock(t) \/ Relock(t)
  \/ PopFront(t) \/ TryPopEmpty(t) \/ Unlock(t)

Next == \E t \in Threads : Step(t) \/ SpuriousWakeup(t)

Spec == Init /\ [][Next]_vars

\* Every runnable thread is eventually scheduled; spurious wakeups are not owed.
FairSpec == Spec /\ \A t \in Threads : WF_vars(Step(t))
-----------------------------------------------------------------------------
(***************************************************************************)
(* Properties                                                              *)
(***************************************************************************)

\* The types of the state, and that exactly the thread inside a critical
\* section owns m_mutex (the scope of every lock_guard and unique_lock).
TypeOK ==
  /\ m_queue \in Seq(Values)
  /\ m_mutex \in Threads \cup {Nobody}
  /\ pc \in [Threads -> Points]
  /\ todo \in [Threads -> Seq(Operations)]
  /\ val \in [Threads -> Values \cup {NoValue}]
  /\ spurious \in 0..MaxSpurious
  /\ \A t \in Threads : pc[t] \in Holding <=> m_mutex = t

\* wait_and_pop never moves from the front of an empty deque (undefined
\* behaviour), whichever thread took the value it was woken for.
NeverPopsEmpty == \A t \in Threads : pc[t] = "pop_front" => m_queue # <<>>

\* The threads that will look at the queue, or wake one that will, without
\* any further call being made.
Promised == {t \in Threads : pc[t] \in {"notify_one", "relock", "wait", "pop_front"}}

\* While anybody sleeps in wait_and_pop, each queued value has a thread of its
\* own on the way to it: one notify_one per push is enough, although pushes
\* come faster than wakeups and try_pop steals values.
WakeupsCoverItems == Asleep # {} => Len(m_queue) <= Cardinality(Promised)

\* No lost wakeup: nobody sleeps beside a value that nobody is coming for.
NoLostWakeup == Asleep # {} /\ m_queue # <<>> => Promised # {}

\* How a call stands that is at a point: it is answered once the deque has been
\* accessed, and has thrown once an exception is on its way to the client.
StageOf == [p \in Points |->
              CASE p = "idle" -> "none"
                [] p \in {"notify_one", "unlock"} -> "answered"
                [] p = "unwind" -> "threw"
                [] OTHER -> "pending"]

\* The queue as its callers see it: the argument or the answer of the call
\* each thread is in.
CallOf(t) ==
  IF pc[t] = "idle" THEN [stage |-> "none", op |-> "none", val |-> NoValue]
  ELSE [stage |-> StageOf[pc[t]],
        op    |-> Head(todo[t]),
        val   |-> val[t]]

Calls == [t \in Threads |-> CallOf(t)]

Fifo == INSTANCE FifoQueue WITH items <- m_queue, calls <- Calls

\* SimpleThreadSafeQueue is a linearizable FIFO queue: a push that returns has
\* queued its value, in order and for one consumer only, and a push that throws
\* has left nothing behind.
Linearizable == Fifo!Spec

\* In the end each thread has finished its script, or sleeps in a
\* wait_and_pop on a queue that is empty: nobody waits for a mutex forever,
\* nobody sleeps beside a value.
Quiescence ==
  <>[]\A t \in Threads : \/ /\ pc[t] = "idle"
                             /\ todo[t] = <<>>
                          \/ /\ pc[t] = "asleep"
                             /\ m_queue = <<>>
=============================================================================

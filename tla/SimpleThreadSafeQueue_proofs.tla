-------------------- MODULE SimpleThreadSafeQueue_proofs --------------------
(***************************************************************************)
(* Safety of SimpleThreadSafeQueue for any finite set of threads and any   *)
(* scripts.                                                                *)
(***************************************************************************)
EXTENDS SimpleThreadSafeQueue, FiniteSetTheorems, TLAPS

\* Where a thread is fits the call it is making and the value it carries.
CallInv(t) ==
  /\ Len(todo[t]) <= MaxCalls
  /\ pc[t] # "idle" => todo[t] # <<>>
  /\ pc[t] \in {"emplace_back", "notify_one", "unwind"} => Head(todo[t]) = "push"
  /\ pc[t] \in {"wait", "asleep", "relock", "pop_front"} => Head(todo[t]) = "wait_and_pop"
  /\ pc[t] = "try_pop" => Head(todo[t]) = "try_pop"
  /\ pc[t] \in {"lock", "emplace_back"} /\ Head(todo[t]) = "push" => val[t] \in Values
  /\ \/ pc[t] \in {"idle", "notify_one", "wait", "asleep", "relock", "pop_front", "try_pop",
                   "unwind"}
     \/ pc[t] = "lock" /\ Head(todo[t]) # "push"
     => val[t] = NoValue

\* The inductive invariant behind the types.
IndInv == TypeOK /\ NeverPopsEmpty /\ \A t \in Threads : CallInv(t)

-----------------------------------------------------------------------------
LEMMA InitIndInv == Init => IndInv
  <1> SUFFICES ASSUME Init PROVE IndInv
    OBVIOUS
  <1>1. \A t \in Threads : todo[t] \in Seq(Operations) /\ Len(todo[t]) <= MaxCalls
    BY ScriptsAssumption DEF Init
  <1>2. TypeOK
    BY <1>1, ThreadsAssumption, BoundsAssumption DEF Init, TypeOK, Points, Holding
  <1>3. NeverPopsEmpty /\ \A t \in Threads : CallInv(t)
    BY <1>1 DEF Init, NeverPopsEmpty, CallInv
  <1> QED
    BY <1>2, <1>3 DEF IndInv

\* A step moves only the thread that takes it, except that NotifyOne may also
\* move one sleeper.
LEMMA StepIndInv == IndInv /\ [Next]_vars => IndInv'
  <1> SUFFICES ASSUME IndInv, [Next]_vars PROVE IndInv'
    OBVIOUS
  <1> USE ThreadsAssumption, BoundsAssumption
      DEF IndInv, TypeOK, NeverPopsEmpty, CallInv, Goto, Points, Holding, Operations
  <1>1. CASE UNCHANGED vars
    BY <1>1 DEF vars
  <1>2. ASSUME NEW t \in Threads, Call(t) PROVE IndInv'
    BY <1>2 DEF Call, Values
  <1>3. ASSUME NEW t \in Threads, Lock(t) PROVE IndInv'
    BY <1>3 DEF Lock, Body
  <1>4. ASSUME NEW t \in Threads, PushBack(t) PROVE IndInv'
    BY <1>4 DEF PushBack
  <1>5. ASSUME NEW t \in Threads, PushThrows(t) PROVE IndInv'
    BY <1>5 DEF PushThrows
  <1>6. ASSUME NEW t \in Threads, NotifyOne(t) PROVE IndInv'
    BY <1>6 DEF NotifyOne, Asleep
  <1>7. ASSUME NEW t \in Threads, WaitReady(t) PROVE IndInv'
    BY <1>7 DEF WaitReady
  <1>8. ASSUME NEW t \in Threads, WaitBlock(t) PROVE IndInv'
    BY <1>8 DEF WaitBlock
  <1>9. ASSUME NEW t \in Threads, Relock(t) PROVE IndInv'
    BY <1>9 DEF Relock
  <1>10. ASSUME NEW t \in Threads, PopFront(t) PROVE IndInv'
    BY <1>10 DEF PopFront
  <1>11. ASSUME NEW t \in Threads, TryPopEmpty(t) PROVE IndInv'
    BY <1>11 DEF TryPopEmpty
  <1>12. ASSUME NEW t \in Threads, Unlock(t) PROVE IndInv'
    BY <1>12 DEF Unlock
  <1>13. ASSUME NEW t \in Threads, SpuriousWakeup(t) PROVE IndInv'
    BY <1>13 DEF SpuriousWakeup
  <1> QED
    BY <1>1, <1>2, <1>3, <1>4, <1>5, <1>6, <1>7, <1>8, <1>9, <1>10, <1>11, <1>12, <1>13
       DEF Next, Step

\* Every reachable state is well typed, the critical sections exclude each
\* other, and no call is at a point that does not belong to it.
THEOREM Invariance == Spec => []IndInv
  BY InitIndInv, StepIndInv, PTL DEF Spec

\* The state is well typed, and each critical section is entered by one thread at
\* a time.
THEOREM TypeCorrect == Spec => []TypeOK
  <1>1. IndInv => TypeOK
    BY DEF IndInv
  <1> QED
    BY <1>1, Invariance, PTL

\* No consumer pops an empty deque, whatever it was woken by.
THEOREM PopsAreSafe == Spec => []NeverPopsEmpty
  <1>1. IndInv => NeverPopsEmpty
    BY DEF IndInv
  <1> QED
    BY <1>1, Invariance, PTL

-----------------------------------------------------------------------------
(***************************************************************************)
(* No lost wakeup.  WakeupsCoverItems counts: it compares the length of    *)
(* the deque with the number of threads on their way to it.                *)
(***************************************************************************)
LEMMA PromisedFinite == IsFiniteSet(Promised) /\ Cardinality(Promised) \in Nat
  <1>1. Promised \subseteq Threads
    BY DEF Promised
  <1> QED
    BY <1>1, ThreadsAssumption, FS_Subset, FS_CardinalityType

LEMMA InitWakeups == Init => WakeupsCoverItems
  BY DEF Init, WakeupsCoverItems, Asleep

\* A step that neither puts a thread to sleep, nor makes the deque longer, nor
\* sends a thread away from it keeps the count.
LEMMA WakeupsKept ==
  ASSUME IndInv, WakeupsCoverItems,
         Asleep' \subseteq Asleep, m_queue' = m_queue, Promised \subseteq Promised',
         pc' \in [Threads -> Points]
  PROVE  WakeupsCoverItems'
  <1>1. IsFiniteSet(Promised')
    <2>1. Promised' \subseteq Threads
      BY DEF Promised
    <2> QED
      BY <2>1, ThreadsAssumption, FS_Subset
  <1>2. /\ Cardinality(Promised) <= Cardinality(Promised')
        /\ Cardinality(Promised') \in Nat
    BY <1>1, FS_Subset, FS_CardinalityType
  <1>3. Len(m_queue) \in Nat
    BY DEF IndInv, TypeOK
  <1> QED
    BY <1>2, <1>3, PromisedFinite DEF WakeupsCoverItems

LEMMA StepWakeups == IndInv /\ WakeupsCoverItems /\ [Next]_vars => WakeupsCoverItems'
  <1> SUFFICES ASSUME IndInv, WakeupsCoverItems, [Next]_vars PROVE WakeupsCoverItems'
    OBVIOUS
  <1> USE DEF Goto
  <1>t. /\ pc \in [Threads -> Points] /\ pc' \in [Threads -> Points]
        /\ m_queue \in Seq(Values) /\ Len(m_queue) \in Nat
    BY StepIndInv DEF IndInv, TypeOK
  \* What the steps that leave the deque alone have in common.
  <1>k. ASSUME Asleep' \subseteq Asleep, m_queue' = m_queue, Promised \subseteq Promised'
        PROVE  WakeupsCoverItems'
    BY <1>k, <1>t, WakeupsKept
  <1>1. CASE UNCHANGED vars
    BY <1>1, <1>k DEF vars, Asleep, Promised
  <1>2. ASSUME NEW t \in Threads,
               Call(t) \/ Lock(t) \/ PushThrows(t) \/ WaitReady(t) \/ Relock(t)
                 \/ TryPopEmpty(t) \/ Unlock(t) \/ SpuriousWakeup(t)
        PROVE  WakeupsCoverItems'
    <2>1. \E p \in Points \ {"asleep"} :
            /\ pc' = [pc EXCEPT ![t] = p]
            /\ t \in Promised => p \in {"relock", "wait", "pop_front"}
      <3>1. CASE Lock(t)
        <4>1. Head(todo[t]) \in Operations
          BY <3>1 DEF Lock, IndInv, TypeOK, CallInv
        <4>2. Body[Head(todo[t])] \in Points \ {"asleep"}
          BY <4>1 DEF Body, Operations, Points, Holding
        <4> QED
          BY <3>1, <4>2 DEF Lock, Promised
      <3>2. CASE ~Lock(t)
        BY <1>2, <3>2, <1>t
           DEF Call, PushThrows, WaitReady, Relock, TryPopEmpty, Unlock, SpuriousWakeup,
               Promised, Points, Holding
      <3> QED
        BY <3>1, <3>2
    <2>2. m_queue' = m_queue
      BY <1>2 DEF Call, Lock, PushThrows, WaitReady, Relock, TryPopEmpty, Unlock, SpuriousWakeup
    <2>3. Asleep' \subseteq Asleep /\ Promised \subseteq Promised'
      BY <2>1, <1>t DEF Asleep, Promised
    <2> QED
      BY <2>2, <2>3, <1>k
  \* One more value, and one more thread: the one that is about to notify.
  <1>3. ASSUME NEW t \in Threads, PushBack(t) PROVE WakeupsCoverItems'
    <2>1. /\ Asleep' = Asleep /\ Promised' = Promised \cup {t} /\ t \notin Promised
      BY <1>3, <1>t DEF PushBack, Asleep, Promised
    <2>2. Len(m_queue') = Len(m_queue) + 1
      BY <1>3, <1>t DEF PushBack, IndInv, TypeOK, CallInv
    <2>3. Cardinality(Promised') = Cardinality(Promised) + 1
      BY <2>1, PromisedFinite, FS_AddElement
    <2> QED
      BY <2>1, <2>2, <2>3, <1>t, PromisedFinite DEF WakeupsCoverItems
  \* The notifier leaves, the sleeper it woke takes its place.
  <1>4. ASSUME NEW t \in Threads, NotifyOne(t) PROVE WakeupsCoverItems'
    <2>1. CASE Asleep = {}
      BY <1>4, <2>1, <1>t DEF NotifyOne, Asleep, WakeupsCoverItems
    <2>2. CASE Asleep # {}
      <3>1. PICK s \in Asleep : pc' = [pc EXCEPT ![t] = "unlock", ![s] = "relock"]
        BY <1>4, <2>2 DEF NotifyOne
      <3>2. /\ t \in Promised /\ s \notin Promised
            /\ Promised' = (Promised \ {t}) \cup {s}
        BY <1>4, <3>1, <1>t DEF NotifyOne, Asleep, Promised
      <3>3. Cardinality(Promised') = Cardinality(Promised)
        <4>1. IsFiniteSet(Promised \ {t})
              /\ Cardinality(Promised \ {t}) = Cardinality(Promised) - 1
          BY <3>2, PromisedFinite, FS_RemoveElement
        <4>2. Cardinality((Promised \ {t}) \cup {s}) = Cardinality(Promised \ {t}) + 1
          BY <4>1, <3>2, FS_AddElement
        <4> QED
          BY <4>1, <4>2, <3>2, PromisedFinite
      <3>4. m_queue' = m_queue
        BY <1>4 DEF NotifyOne
      <3> QED
        BY <2>2, <3>3, <3>4 DEF WakeupsCoverItems
    <2> QED
      BY <2>1, <2>2
  <1>5. ASSUME NEW t \in Threads, WaitBlock(t) PROVE WakeupsCoverItems'
    <2>1. Len(m_queue') = 0
      BY <1>5 DEF WaitBlock
    <2>2. Cardinality(Promised') \in Nat
      <3>1. Promised' \subseteq Threads
        BY DEF Promised
      <3> QED
        BY <3>1, ThreadsAssumption, FS_Subset, FS_CardinalityType
    <2> QED
      BY <2>1, <2>2 DEF WakeupsCoverItems
  \* One value less, and at most one thread less.
  <1>6. ASSUME NEW t \in Threads, PopFront(t) PROVE WakeupsCoverItems'
    <2>1. Asleep' = Asleep /\ Promised' = Promised \ {t}
      BY <1>6, <1>t DEF PopFront, Asleep, Promised
    <2>2. Len(m_queue') = Len(m_queue) - 1
      BY <1>6, <1>t DEF PopFront, IndInv, NeverPopsEmpty
    <2>3. Cardinality(Promised') \in {Cardinality(Promised), Cardinality(Promised) - 1}
      BY <2>1, PromisedFinite, FS_RemoveElement
    <2> QED
      BY <2>1, <2>2, <2>3, <1>t, PromisedFinite DEF WakeupsCoverItems
  <1> QED
    BY <1>1, <1>2, <1>3, <1>4, <1>5, <1>6 DEF Next, Step

\* One notify_one per push never leaves more values behind than there are
\* threads coming for them (push, wait_and_pop and try_pop together).
THEOREM WakeupsSuffice == Spec => []WakeupsCoverItems
  BY Invariance, InitWakeups, StepWakeups, PTL DEF Spec

\* No thread sleeps in wait_and_pop beside a value nobody is coming for.
THEOREM NoWakeupIsLost == Spec => []NoLostWakeup
  <1>1. IndInv /\ WakeupsCoverItems => NoLostWakeup
    <2> SUFFICES ASSUME IndInv, WakeupsCoverItems, Asleep # {}, m_queue # <<>>, Promised = {}
                 PROVE  FALSE
      BY DEF NoLostWakeup
    <2>1. Len(m_queue) > 0
      BY DEF IndInv, TypeOK
    <2>2. Cardinality(Promised) = 0
      BY FS_EmptySet
    <2> QED
      BY <2>1, <2>2 DEF WakeupsCoverItems, IndInv, TypeOK
  <1> QED
    BY <1>1, Invariance, WakeupsSuffice, PTL

-----------------------------------------------------------------------------
(***************************************************************************)
(* Why the queue comes to rest (Quiescence): in every state short of rest  *)
(* some thread can step, and a step brings its thread closer to the end of *)
(* its call, except that a thread may be woken to look again.              *)
(***************************************************************************)

\* The guards of Step(t).
CanStep(t) ==
  \/ pc[t] = "idle" /\ todo[t] # <<>>
  \/ pc[t] \in {"lock", "relock"} /\ m_mutex = Nobody
  \/ pc[t] \in Holding

AtRest(t) ==
  \/ pc[t] = "idle" /\ todo[t] = <<>>
  \/ pc[t] = "asleep" /\ m_queue = <<>>

\* Nobody can step exactly when each thread has finished, or sleeps on a queue that
\* is empty: no thread is stuck at the mutex, or asleep beside a value.
StuckOnlyAtRest == (\A t \in Threads : ~CanStep(t)) <=> (\A t \in Threads : AtRest(t))

\* How far a thread is from the end of its call.
Rank == [p \in Points |->
           CASE p = "idle" -> 6
             [] p \in {"lock", "relock"} -> 5
             [] p \in {"emplace_back", "wait", "try_pop"} -> 4
             [] p \in {"notify_one", "pop_front"} -> 3
             [] p \in {"unlock", "unwind"} -> 2
             [] p = "asleep" -> 1]

WokenUp(t) == pc[t] = "asleep" /\ pc'[t] = "relock" /\ todo'[t] = todo[t]

Descends(t) ==
  \/ todo'[t] = todo[t] /\ Rank[pc'[t]] < Rank[pc[t]]
  \/ Len(todo'[t]) = Len(todo[t]) - 1 /\ pc'[t] = "idle"

\* Each step moves one thread closer to the end of its script, and leaves the
\* others where they are, except that it may wake one of them; a wakeup that no
\* push paid for is counted in spurious.
StepsDown ==
  /\ \A t \in Threads : \/ pc'[t] = pc[t] /\ todo'[t] = todo[t]
                        \/ WokenUp(t) \/ Descends(t)
  /\ \A t, s \in Threads : WokenUp(t) /\ WokenUp(s) => t = s
  /\ \/ spurious' = spurious + 1
     \/ /\ spurious' = spurious
        /\ \E s \in Threads :
             Descends(s) /\ \A t \in Threads : WokenUp(t) => pc[s] = "notify_one"

CallsDescend == [][StepsDown]_vars

LEMMA RankOf ==
  /\ Rank["idle"] = 6 /\ Rank["lock"] = 5 /\ Rank["relock"] = 5
  /\ Rank["emplace_back"] = 4 /\ Rank["wait"] = 4 /\ Rank["try_pop"] = 4
  /\ Rank["notify_one"] = 3 /\ Rank["pop_front"] = 3
  /\ Rank["unlock"] = 2 /\ Rank["unwind"] = 2 /\ Rank["asleep"] = 1
  BY DEF Rank, Points, Holding

\* Whoever holds the mutex can step, and where it is free whoever wants it can.
LEMMA NotStuck == IndInv /\ NoLostWakeup => StuckOnlyAtRest
  <1> SUFFICES ASSUME IndInv, NoLostWakeup PROVE StuckOnlyAtRest
    OBVIOUS
  <1> USE DEF IndInv, TypeOK, CanStep, AtRest
  <1>1. ASSUME \A t \in Threads : ~CanStep(t) PROVE \A t \in Threads : AtRest(t)
    <2>1. m_mutex = Nobody
      BY <1>1
    <2>2. ASSUME NEW t \in Threads PROVE pc[t] = "asleep" \/ (pc[t] = "idle" /\ todo[t] = <<>>)
      <3>1. pc[t] \in Points /\ pc[t] \notin Holding /\ pc[t] \notin {"lock", "relock"}
        BY <1>1, <2>1
      <3>2. pc[t] \in {"idle", "asleep"}
        BY <3>1 DEF Points
      <3> QED
        BY <1>1, <3>2
    <2>3. Promised = {}
      BY <2>2 DEF Promised
    <2>4. Asleep = {} \/ m_queue = <<>>
      BY <2>3 DEF NoLostWakeup
    <2> QED
      BY <2>2, <2>4 DEF Asleep
  <1>2. ASSUME \A t \in Threads : AtRest(t) PROVE \A t \in Threads : ~CanStep(t)
    BY <1>2 DEF Holding
  <1> QED
    BY <1>1, <1>2 DEF StuckOnlyAtRest

\* A step of thread t that wakes nobody.
LEMMA OneDescends ==
  ASSUME IndInv, NEW t \in Threads, Descends(t), spurious' = spurious,
         \A s \in Threads \ {t} : pc'[s] = pc[s] /\ todo'[s] = todo[s]
  PROVE  StepsDown
  <1>1. ~WokenUp(t)
    BY RankOf DEF WokenUp, Descends, IndInv, TypeOK
  <1>2. \A s \in Threads : ~WokenUp(s)
    BY <1>1 DEF WokenUp
  <1> QED
    BY <1>2 DEF StepsDown

LEMMA StepDescends == IndInv /\ IndInv' /\ Next => StepsDown
  <1> SUFFICES ASSUME IndInv, IndInv', Next PROVE StepsDown
    OBVIOUS
  <1> USE DEF Goto
  <1>0. /\ pc \in [Threads -> Points] /\ pc' \in [Threads -> Points]
        /\ todo \in [Threads -> Seq(Operations)] /\ spurious \in Nat
    BY BoundsAssumption DEF IndInv, TypeOK
  <1>1. ASSUME NEW t \in Threads,
               Call(t) \/ Lock(t) \/ PushBack(t) \/ PushThrows(t) \/ WaitReady(t) \/ WaitBlock(t)
                 \/ Relock(t) \/ PopFront(t) \/ TryPopEmpty(t)
        PROVE  StepsDown
    <2>1. /\ spurious' = spurious /\ todo' = todo
          /\ \A s \in Threads \ {t} : pc'[s] = pc[s]
      BY <1>0, <1>1
         DEF Call, Lock, PushBack, PushThrows, WaitReady, WaitBlock, Relock, PopFront, TryPopEmpty
    <2>2. CASE ~Lock(t)
      <3>1. Rank[pc'[t]] < Rank[pc[t]]
        BY <1>0, <1>1, <2>2, RankOf
           DEF Call, PushBack, PushThrows, WaitReady, WaitBlock, Relock, PopFront, TryPopEmpty
      <3> QED
        BY <2>1, <3>1, OneDescends DEF Descends
    <2>3. CASE Lock(t)
      <3>1. pc[t] = "lock" /\ Head(todo[t]) \in Operations /\ pc'[t] = Body[Head(todo[t])]
        BY <1>0, <2>3 DEF Lock, IndInv, CallInv
      <3>2. pc'[t] \in {"emplace_back", "wait", "try_pop"}
        BY <3>1 DEF Body, Operations
      <3>3. Rank[pc'[t]] < Rank[pc[t]]
        BY <3>1, <3>2, RankOf
      <3> QED
        BY <2>1, <3>3, OneDescends DEF Descends
    <2> QED
      BY <2>2, <2>3
  <1>2. ASSUME NEW t \in Threads, Unlock(t) PROVE StepsDown
    <2>1. /\ pc'[t] = "idle" /\ todo'[t] = Tail(todo[t]) /\ todo[t] # <<>> /\ spurious' = spurious
          /\ \A s \in Threads \ {t} : pc'[s] = pc[s] /\ todo'[s] = todo[s]
      BY <1>0, <1>2 DEF Unlock, IndInv, CallInv
    <2>2. Len(Tail(todo[t])) = Len(todo[t]) - 1
      BY <1>0, <2>1
    <2> QED
      BY <2>1, <2>2, OneDescends DEF Descends
  <1>3. ASSUME NEW t \in Threads, NotifyOne(t) PROVE StepsDown
    <2>1. pc[t] = "notify_one" /\ todo' = todo /\ spurious' = spurious
      BY <1>3 DEF NotifyOne
    <2>2. CASE Asleep = {}
      <3>1. pc' = [pc EXCEPT ![t] = "unlock"]
        BY <1>3, <2>2 DEF NotifyOne
      <3>2. Rank[pc'[t]] < Rank[pc[t]]
        BY <1>0, <2>1, <3>1, RankOf
      <3> QED
        BY <1>0, <2>1, <3>1, <3>2, OneDescends DEF Descends
    <2>3. CASE Asleep # {}
      <3>1. PICK s \in Asleep : pc' = [pc EXCEPT ![t] = "unlock", ![s] = "relock"]
        BY <1>3, <2>3 DEF NotifyOne
      <3>2. /\ pc[s] = "asleep" /\ s # t /\ pc'[t] = "unlock" /\ pc'[s] = "relock"
            /\ \A r \in Threads \ {s, t} : pc'[r] = pc[r]
        BY <1>0, <2>1, <3>1 DEF Asleep
      <3>3. Descends(t)
        BY <2>1, <3>2, RankOf DEF Descends
      <3>4. \A r \in Threads : WokenUp(r) => r = s
        BY <2>1, <3>2 DEF WokenUp
      <3>5. WokenUp(s)
        BY <2>1, <3>2 DEF WokenUp
      <3> QED
        BY <2>1, <3>2, <3>3, <3>4, <3>5 DEF StepsDown
    <2> QED
      BY <2>2, <2>3
  <1>4. ASSUME NEW t \in Threads, SpuriousWakeup(t) PROVE StepsDown
    <2>1. /\ pc[t] = "asleep" /\ pc'[t] = "relock" /\ todo' = todo /\ spurious' = spurious + 1
          /\ \A s \in Threads \ {t} : pc'[s] = pc[s]
      BY <1>0, <1>4 DEF SpuriousWakeup
    <2> QED
      BY <2>1 DEF StepsDown, WokenUp
  <1> QED
    BY <1>1, <1>2, <1>3, <1>4 DEF Next, Step

\* The clients of a queue are never stuck short of rest (lock_guard, unique_lock and
\* the wait of wait_and_pop together).
THEOREM NeverStuck == Spec => []StuckOnlyAtRest
  BY NotStuck, Invariance, NoWakeupIsLost, PTL

\* Each step brings a thread closer to the end of its script; a consumer that is
\* woken and finds nothing was woken by a push or spuriously.
THEOREM EveryStepDescends == Spec => CallsDescend
  <1>1. IndInv /\ IndInv' /\ [Next]_vars => [StepsDown]_vars
    BY StepDescends
  <1>2. Spec => [][StepsDown]_vars
    BY <1>1, Invariance, PTL DEF Spec
  <1> QED
    BY <1>2 DEF CallsDescend

-----------------------------------------------------------------------------
(***************************************************************************)
(* Refinement.  Each step answers one call of the FIFO queue, or none.     *)
(***************************************************************************)
LEMMA Stages ==
  /\ StageOf["idle"] = "none" /\ StageOf["lock"] = "pending" /\ StageOf["relock"] = "pending"
  /\ StageOf["emplace_back"] = "pending" /\ StageOf["wait"] = "pending"
  /\ StageOf["asleep"] = "pending" /\ StageOf["pop_front"] = "pending"
  /\ StageOf["try_pop"] = "pending" /\ StageOf["notify_one"] = "answered"
  /\ StageOf["unlock"] = "answered" /\ StageOf["unwind"] = "threw"
  BY DEF StageOf, Points, Holding

\* A step that moves only thread t changes only the call t is in.
LEMMA CallsOf ==
  ASSUME IndInv, IndInv', NEW t \in Threads, NEW c, CallOf(t)' = c,
         \A s \in Threads \ {t} : CallOf(s)' = CallOf(s)
  PROVE  Calls' = [Calls EXCEPT ![t] = c]
  BY DEF Calls

LEMMA StepRefines == IndInv /\ IndInv' /\ [Next]_vars => [Fifo!Next]_Fifo!vars
  <1> SUFFICES ASSUME IndInv, IndInv', [Next]_vars PROVE [Fifo!Next]_Fifo!vars
    OBVIOUS
  <1> USE DEF Fifo!vars, Goto
  <1>t. /\ pc \in [Threads -> Points] /\ todo \in [Threads -> Seq(Operations)]
        /\ val \in [Threads -> Values \cup {NoValue}] /\ m_queue \in Seq(Values)
        /\ pc' \in [Threads -> Points]
    BY DEF IndInv, TypeOK
  <1>s. ASSUME m_queue' = m_queue, \A t \in Threads : CallOf(t)' = CallOf(t)
        PROVE  [Fifo!Next]_Fifo!vars
    BY <1>s DEF Calls
  <1>1. CASE UNCHANGED vars
    BY <1>1, <1>s DEF vars, CallOf
  <1>2. ASSUME NEW t \in Threads, Call(t) PROVE Fifo!Next
    <2> DEFINE o == Head(todo[t])
               v == val'[t]
    <2>1. CallOf(t) = Fifo!NoCall /\ CallOf(t)' = Fifo!Pending(o, v)
      BY <1>2, <1>t, Stages DEF Call, CallOf, Fifo!NoCall, Fifo!Pending, IndInv, CallInv
    <2>2. Calls' = [Calls EXCEPT ![t] = Fifo!Pending(o, v)]
      <3>1. \A s \in Threads \ {t} : CallOf(s)' = CallOf(s)
        BY <1>2, <1>t DEF Call, CallOf
      <3> QED
        BY <2>1, <3>1, CallsOf
    <2>3. /\ o \in Operations
          /\ o = "push" => v \in Values
          /\ o # "push" => v = NoValue
      <3>1. o \in Operations
        BY <1>2, <1>t DEF Call
      <3>2. pc'[t] = "lock" /\ todo' = todo
        BY <1>2, <1>t DEF Call
      <3>3. CallInv(t)'
        BY DEF IndInv
      <3>4. o = "push" => v \in Values
        BY <3>2, <3>3 DEF CallInv
      <3>5. o # "push" => v = NoValue
        BY <3>2, <3>3 DEF CallInv
      <3> QED
        BY <3>1, <3>4, <3>5
    <2>4. Fifo!Invoke(t, o, v)
      BY <1>2, <2>1, <2>2 DEF Call, Calls, Fifo!Invoke
    <2> QED
      BY <2>3, <2>4 DEF Fifo!Next, Operations
  <1>3. ASSUME NEW t \in Threads,
               Lock(t) \/ NotifyOne(t) \/ WaitReady(t) \/ WaitBlock(t) \/ Relock(t)
                 \/ SpuriousWakeup(t)
        PROVE  [Fifo!Next]_Fifo!vars
    <2>1. m_queue' = m_queue /\ todo' = todo /\ val' = val
      BY <1>3 DEF Lock, NotifyOne, WaitReady, WaitBlock, Relock, SpuriousWakeup
    <2>2. ASSUME NEW s \in Threads
          PROVE  /\ pc[s] = "idle" <=> pc'[s] = "idle"
                 /\ StageOf[pc[s]] = StageOf[pc'[s]]
      <3>1. CASE Lock(t)
        <4>1. Head(todo[t]) \in Operations
          BY <3>1 DEF Lock, IndInv, TypeOK, CallInv
        <4>2. Body[Head(todo[t])] \in {"emplace_back", "wait", "try_pop"}
          BY <4>1 DEF Body, Operations
        <4> QED
          BY <3>1, <4>2, <1>t, Stages DEF Lock
      <3>2. CASE NotifyOne(t)
        <4>1. /\ pc[t] = "notify_one"
              /\ \/ pc' = [pc EXCEPT ![t] = "unlock"]
                 \/ \E r \in Asleep : pc' = [pc EXCEPT ![t] = "unlock", ![r] = "relock"]
          BY <3>2 DEF NotifyOne
        <4>2. \/ pc'[s] = pc[s]
              \/ pc[s] = "notify_one" /\ pc'[s] = "unlock"
              \/ pc[s] = "asleep" /\ pc'[s] = "relock"
          BY <4>1, <1>t DEF Asleep
        <4> QED
          BY <4>2, Stages
      <3>3. CASE WaitReady(t) \/ WaitBlock(t) \/ Relock(t) \/ SpuriousWakeup(t)
        BY <3>3, <1>t, Stages DEF WaitReady, WaitBlock, Relock, SpuriousWakeup
      <3> QED
        BY <1>3, <3>1, <3>2, <3>3
    <2> QED
      BY <2>1, <2>2, <1>s DEF CallOf
  <1>4. ASSUME NEW t \in Threads, PushBack(t) PROVE Fifo!Next
    <2>1. /\ CallOf(t) = Fifo!Pending("push", val[t])
          /\ CallOf(t)' = Fifo!Answered("push", NoValue)
      BY <1>4, <1>t, Stages DEF PushBack, CallOf, Fifo!Pending, Fifo!Answered, IndInv, CallInv
    <2>2. Calls' = [Calls EXCEPT ![t] = Fifo!Answered("push", NoValue)]
      <3>1. \A s \in Threads \ {t} : CallOf(s)' = CallOf(s)
        BY <1>4, <1>t DEF PushBack, CallOf
      <3> QED
        BY <2>1, <3>1, CallsOf
    <2>3. Fifo!Enqueue(t)
      BY <1>4, <2>1, <2>2 DEF PushBack, Calls, Fifo!Enqueue, Fifo!Pending
    <2> QED
      BY <2>3 DEF Fifo!Next, Fifo!Answer
  <1>5. ASSUME NEW t \in Threads, PushThrows(t) PROVE Fifo!Next
    <2>1. /\ CallOf(t) = Fifo!Pending("push", val[t])
          /\ CallOf(t)' = Fifo!Threw("push")
      BY <1>5, <1>t, Stages DEF PushThrows, CallOf, Fifo!Pending, Fifo!Threw, IndInv, CallInv
    <2>2. Calls' = [Calls EXCEPT ![t] = Fifo!Threw("push")]
      <3>1. \A s \in Threads \ {t} : CallOf(s)' = CallOf(s)
        BY <1>5, <1>t DEF PushThrows, CallOf
      <3> QED
        BY <2>1, <3>1, CallsOf
    <2>3. Fifo!Reject(t)
      BY <1>5, <2>1, <2>2 DEF PushThrows, Calls, Fifo!Reject, Fifo!Pending
    <2> QED
      BY <2>3 DEF Fifo!Next, Fifo!Answer
  <1>6. ASSUME NEW t \in Threads, PopFront(t) PROVE Fifo!Next
    <2> DEFINE o == Head(todo[t])
    <2>1. o \in {"wait_and_pop", "try_pop"} /\ m_queue # <<>>
      BY <1>6 DEF PopFront, IndInv, CallInv, NeverPopsEmpty
    <2>2. /\ CallOf(t) = Fifo!Pending(o, NoValue)
          /\ CallOf(t)' = Fifo!Answered(o, Head(m_queue))
      BY <1>6, <1>t, Stages DEF PopFront, CallOf, Fifo!Pending, Fifo!Answered, IndInv, CallInv
    <2>3. Calls' = [Calls EXCEPT ![t] = Fifo!Answered(o, Head(m_queue))]
      <3>1. \A s \in Threads \ {t} : CallOf(s)' = CallOf(s)
        BY <1>6, <1>t DEF PopFront, CallOf
      <3> QED
        BY <2>2, <3>1, CallsOf
    <2>4. Fifo!Dequeue(t)
      BY <1>6, <2>1, <2>2, <2>3 DEF PopFront, Calls, Fifo!Dequeue
    <2> QED
      BY <2>4 DEF Fifo!Next, Fifo!Answer
  <1>7. ASSUME NEW t \in Threads, TryPopEmpty(t) PROVE Fifo!Next
    <2>1. /\ CallOf(t) = Fifo!Pending("try_pop", NoValue)
          /\ CallOf(t)' = Fifo!Answered("try_pop", NoValue)
      BY <1>7, <1>t, Stages DEF TryPopEmpty, CallOf, Fifo!Pending, Fifo!Answered, IndInv, CallInv
    <2>2. Calls' = [Calls EXCEPT ![t] = Fifo!Answered("try_pop", NoValue)]
      <3>1. \A s \in Threads \ {t} : CallOf(s)' = CallOf(s)
        BY <1>7, <1>t DEF TryPopEmpty, CallOf
      <3> QED
        BY <2>1, <3>1, CallsOf
    <2>3. Fifo!AnswerEmpty(t)
      BY <1>7, <2>1, <2>2 DEF TryPopEmpty, Calls, Fifo!AnswerEmpty
    <2> QED
      BY <2>3 DEF Fifo!Next, Fifo!Answer
  <1>8. ASSUME NEW t \in Threads, Unlock(t) PROVE Fifo!Next
    <2>1. CallOf(t).stage \in {"answered", "threw"} /\ CallOf(t)' = Fifo!NoCall
      BY <1>8, <1>t, Stages DEF Unlock, CallOf, Fifo!NoCall
    <2>2. Calls' = [Calls EXCEPT ![t] = Fifo!NoCall]
      <3>1. \A s \in Threads \ {t} : CallOf(s)' = CallOf(s)
        BY <1>8, <1>t DEF Unlock, CallOf
      <3> QED
        BY <2>1, <3>1, CallsOf
    <2>3. Fifo!Return(t)
      BY <1>8, <2>1, <2>2 DEF Unlock, Calls, Fifo!Return
    <2> QED
      BY <2>3 DEF Fifo!Next
  <1> QED
    BY <1>1, <1>2, <1>3, <1>4, <1>5, <1>6, <1>7, <1>8 DEF Next, Step

\* SimpleThreadSafeQueue is a linearizable FIFO queue: push takes effect at
\* emplace_back, a pop at pop_front, an empty answer at the test of empty(), and
\* a push that queued nothing ends in an exception.
THEOREM Refinement == Spec => Linearizable
  <1>1. Init => Fifo!Init
    BY DEF Init, Fifo!Init, Calls, CallOf, Fifo!NoCall
  <1>2. Spec => [][Fifo!Next]_Fifo!vars
    BY Invariance, StepRefines, PTL DEF Spec
  <1> QED
    BY <1>1, <1>2, PTL DEF Linearizable, Fifo!Spec, Spec
=============================================================================

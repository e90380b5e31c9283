-------------------------- MODULE ThreadPool_proofs --------------------------
(***************************************************************************)
(* Safety of ThreadPool for any clients and scripts and any number of      *)
(* workers.                                                                *)
(***************************************************************************)
EXTENDS ThreadPool, FiniteSetTheorems, TLAPS

WorkerPoints == {"none", "while", "try_pop", "run", "push", "fetch_sub", "lock",
                 "notify_all", "unlock", "exited"}
CallPoints   == {"idle", "push", "test", "sleep", "asleep", "relock", "return"}
OwnerPoints  == {"ctor", "destroy", "join_temp", "join", "gone"}

\* A client is at a point of the call it makes, and submits its own tasks.
ClientInv(c) ==
  /\ pc[c] \in CallPoints \cup OwnerPoints \cup {"none"}
  /\ pc[c] \in OwnerPoints => c = Owner
  /\ Len(todo[c]) <= MaxCalls
  /\ pc[c] \in CallPoints \ {"idle"} => todo[c] # <<>>
  /\ pc[c] = "push" => f[c] \in Tasks /\ f[c].by = c

\* The started workers are the first ones; a worker has a task from the pop to
\* the end of fetch_sub, and what it submits belongs to the client of its task.
WorkerInv(w) ==
  /\ pc[w] \in WorkerPoints
  /\ w <= threads <=> pc[w] # "none"
  /\ task[w] # NoTask <=> pc[w] \in {"run", "push", "fetch_sub"}
  /\ pc[w] = "push" => f[w] \in Tasks /\ f[w].by = task[w].by

\* While the owner constructs the pool nobody uses it; when it destroys the
\* pool, done is set and nobody submits any more.
OwnerInv ==
  /\ pc[Owner] \in {"ctor", "join_temp"} => \A c \in Clients \ {Owner} : pc[c] = "none"
  /\ pc[Owner] \in {"destroy", "join", "gone"} =>
       /\ done
       /\ \A c \in Clients \ {Owner} : pc[c] = "none" \/ (pc[c] = "idle" /\ todo[c] = <<>>)
  /\ destroyed <=> pc[Owner] \in {"join", "gone"}

\* TypeOK in two parts, but for the sign of the count.
TypeInv ==
  /\ done \in BOOLEAN /\ work_queue \in Seq(Tasks) /\ m_taskCount \in Int
  /\ mutex \in Actors \cup {Nobody}
  /\ thread_count \in 0..MaxThreads /\ threads \in 0..thread_count
  /\ pc \in [Actors -> Points] /\ todo \in [Clients -> Seq(Calls)]
  /\ task \in [Workers -> Tasks \cup {NoTask}] /\ f \in [Actors -> Tasks \cup {NoTask}]
  /\ destroyed \in BOOLEAN /\ quiet \in BOOLEAN
  /\ spurious \in 0..MaxSpurious /\ leaked \in Nat /\ late \in [Workers -> Nat]
  /\ over \subseteq Tasks

MutexInv == \A x \in Actors : pc[x] \in Holding <=> mutex = x

IndInv ==
  /\ TypeInv /\ MutexInv /\ OwnerInv
  /\ \A c \in Clients : ClientInv(c)
  /\ \A w \in Workers : WorkerInv(w)

-----------------------------------------------------------------------------
LEMMA NoTaskIsNoTask == NoTask \notin Tasks
  BY NoTaskAssumption DEF Tasks

LEMMA InitIndInv == Init => IndInv
  <1> SUFFICES ASSUME Init PROVE IndInv
    OBVIOUS
  <1>1. \A c \in Clients : todo[c] \in Seq(Calls) /\ Len(todo[c]) <= MaxCalls
    BY ScriptsAssumption DEF Init
  <1> USE ClientsAssumption, BoundsAssumption
      DEF Init, Actors, Workers, Points, Holding, CallPoints, OwnerPoints, WorkerPoints
  <1>2. TypeInv
    <2>1. pc \in [Actors -> Points] /\ f \in [Actors -> Tasks \cup {NoTask}]
      OBVIOUS
    <2>2. todo \in [Clients -> Seq(Calls)]
      BY <1>1
    <2>3. task \in [Workers -> Tasks \cup {NoTask}] /\ late \in [Workers -> Nat]
      OBVIOUS
    <2>4. thread_count \in 0..MaxThreads /\ threads \in 0..thread_count /\ spurious \in 0..MaxSpurious
      OBVIOUS
    <2>5. work_queue \in Seq(Tasks) /\ m_taskCount \in Int /\ leaked \in Nat
      OBVIOUS
    <2> QED
      BY <2>1, <2>2, <2>3, <2>4, <2>5 DEF TypeInv
  <1>3. MutexInv /\ OwnerInv
    BY DEF MutexInv, OwnerInv
  <1>4. \A c \in Clients : ClientInv(c)
    BY <1>1 DEF ClientInv
  <1>5. \A w \in Workers : WorkerInv(w)
    BY DEF WorkerInv
  <1> QED
    BY <1>2, <1>3, <1>4, <1>5 DEF IndInv

LEMMA StepIndInv == IndInv /\ [Next]_vars => IndInv'
  <1> SUFFICES ASSUME IndInv, [Next]_vars PROVE IndInv'
    OBVIOUS
  <1> USE ClientsAssumption, BoundsAssumption, NoTaskIsNoTask
      DEF IndInv, TypeInv, MutexInv, OwnerInv, ClientInv, WorkerInv, Goto, Actors, Workers, Points,
          Holding, CallPoints, OwnerPoints, WorkerPoints,
          sharedVars, ownerVars, historyVars
  <1>1. CASE UNCHANGED vars
    BY <1>1 DEF vars
  <1>2. CASE StartThread
    <2>1. TypeInv'
      BY <1>2 DEF StartThread
    <2>m. MutexInv'
      BY <1>2 DEF StartThread
    <2>2. OwnerInv'
      BY <1>2 DEF StartThread
    <2>3. ASSUME NEW c \in Clients PROVE ClientInv(c)'
      BY <1>2 DEF StartThread
    <2>4. ASSUME NEW v \in Workers PROVE WorkerInv(v)'
      BY <1>2 DEF StartThread
    <2> QED
      BY <2>m, <2>1, <2>2, <2>3, <2>4
  <1>3. CASE ThreadThrows
    BY <1>3 DEF ThreadThrows
  <1>4. CASE PushBackThrows
    <2>1. TypeInv'
      BY <1>4 DEF PushBackThrows
    <2>m. MutexInv'
      BY <1>4 DEF PushBackThrows
    <2>2. OwnerInv'
      BY <1>4 DEF PushBackThrows
    <2>3. ASSUME NEW c \in Clients PROVE ClientInv(c)'
      BY <1>4 DEF PushBackThrows
    <2>4. ASSUME NEW v \in Workers PROVE WorkerInv(v)'
      <3>1. threads + 1 \in Workers /\ Owner \notin Workers /\ pc[threads + 1] = "none"
        BY <1>4 DEF PushBackThrows
      <3>2. /\ threads' = threads + 1 /\ task' = task /\ f' = f
            /\ pc'[v] = IF v = threads + 1 THEN "while" ELSE pc[v]
        BY <1>4, <3>1 DEF PushBackThrows
      <3> QED
        BY <3>1, <3>2
    <2> QED
      BY <2>m, <2>1, <2>2, <2>3, <2>4
  <1>5. CASE Constructed
    <2>1. TypeInv'
      BY <1>5 DEF Constructed
    <2>m. MutexInv'
      BY <1>5 DEF Constructed
    <2>2. OwnerInv'
      BY <1>5 DEF Constructed
    <2>3. ASSUME NEW c \in Clients PROVE ClientInv(c)'
      BY <1>5 DEF Constructed
    <2>4. ASSUME NEW v \in Workers PROVE WorkerInv(v)'
      BY <1>5 DEF Constructed
    <2> QED
      BY <2>m, <2>1, <2>2, <2>3, <2>4
  <1>6. CASE SetDone
    BY <1>6 DEF SetDone
  <1>7. CASE DestroyMembers
    BY <1>7 DEF DestroyMembers
  <1>8. CASE Join
    BY <1>8 DEF Join
  <1>9. ASSUME NEW c \in Clients, Submit(c) PROVE IndInv'
    <2> DEFINE k == [by |-> c, at |-> Len(todo[c]), kind |-> Head(todo[c])]
    <2>0. pc[c] = "idle" /\ todo[c] # <<>>
      BY <1>9 DEF Submit
    <2>1. Len(todo[c]) \in 1..MaxCalls
      BY <2>0
    <2>2. Head(todo[c]) \in {"leaf", "spawner"}
      BY <1>9 DEF Submit, Calls
    <2>k. k \in Tasks /\ k.by = c
      BY <2>1, <2>2 DEF Tasks
    <2> HIDE DEF k
    <2>3. /\ pc' = [pc EXCEPT ![c] = "push"] /\ f' = [f EXCEPT ![c] = k]
          /\ m_taskCount' = m_taskCount + 1
          /\ UNCHANGED <<done, work_queue, mutex, ownerVars, todo, task, spurious, historyVars>>
      BY <1>9 DEF Submit, FetchAdd, k
    <2>4. TypeInv'
      BY <2>0, <2>3, <2>k
    <2>m. MutexInv'
      BY <2>0, <2>3, <2>k
    <2>5. OwnerInv'
      BY <2>0, <2>3
    <2>6. ASSUME NEW d \in Clients PROVE ClientInv(d)'
      BY <2>0, <2>3, <2>k
    <2>7. ASSUME NEW v \in Workers PROVE WorkerInv(v)'
      BY <2>0, <2>3
    <2> QED
      BY <2>m, <2>4, <2>5, <2>6, <2>7
  <1>10. ASSUME NEW x \in Actors, Push(x) PROVE IndInv'
    <2>0. /\ x \in Clients => todo[x] # <<>>
          /\ f[x] \in Tasks
      BY <1>10 DEF Push
    <2>1. TypeInv'
      <3>1. work_queue' \in Seq(Tasks)
        BY <1>10, <2>0 DEF Push
      <3>2. todo' \in [Clients -> Seq(Calls)]
        BY <1>10, <2>0 DEF Push, Submitted
      <3>3. pc' \in [Actors -> Points] /\ f' \in [Actors -> Tasks \cup {NoTask}]
        BY <1>10 DEF Push, Submitted
      <3> QED
        BY <1>10, <3>1, <3>2, <3>3 DEF Push
    <2>m. MutexInv'
      BY <1>10 DEF Push, Submitted
    <2>2. OwnerInv'
      BY <1>10 DEF Push, Submitted
    <2>3. ASSUME NEW c \in Clients PROVE ClientInv(c)'
      BY <1>10 DEF Push, Submitted
    <2>4. ASSUME NEW v \in Workers PROVE WorkerInv(v)'
      BY <1>10 DEF Push, Submitted
    <2> QED
      BY <2>m, <2>1, <2>2, <2>3, <2>4
  <1>11. ASSUME NEW x \in Actors, PushThrows(x) PROVE IndInv'
    <2>1. TypeInv'
      <3>1. leaked' \in Nat
        BY <1>11 DEF PushThrows
      <3>2. todo' \in [Clients -> Seq(Calls)]
        BY <1>11 DEF PushThrows, Submitted
      <3>3. pc' \in [Actors -> Points] /\ f' \in [Actors -> Tasks \cup {NoTask}]
        BY <1>11 DEF PushThrows, Submitted
      <3> QED
        BY <1>11, <3>1, <3>2, <3>3 DEF PushThrows
    <2>m. MutexInv'
      BY <1>11 DEF PushThrows, Submitted
    <2>2. OwnerInv'
      BY <1>11 DEF PushThrows, Submitted
    <2>3. ASSUME NEW c \in Clients PROVE ClientInv(c)'
      BY <1>11 DEF PushThrows, Submitted
    <2>4. ASSUME NEW v \in Workers PROVE WorkerInv(v)'
      BY <1>11 DEF PushThrows, Submitted
    <2> QED
      BY <2>m, <2>1, <2>2, <2>3, <2>4
  <1>12. ASSUME NEW c \in Clients, WaitLock(c) PROVE IndInv'
    BY <1>12 DEF WaitLock
  <1>13. ASSUME NEW c \in Clients, WaitTest(c) PROVE IndInv'
    BY <1>13 DEF WaitTest
  <1>14. ASSUME NEW c \in Clients, WaitSleep(c) PROVE IndInv'
    BY <1>14 DEF WaitSleep
  <1>15. ASSUME NEW c \in Clients, WaitReturn(c) PROVE IndInv'
    BY <1>15 DEF WaitReturn
  <1>16. ASSUME NEW c \in Clients, SpuriousWakeup(c) PROVE IndInv'
    BY <1>16 DEF SpuriousWakeup
  <1>17. ASSUME NEW w \in Workers, While(w) PROVE IndInv'
    BY <1>17 DEF While
  <1>18. ASSUME NEW w \in Workers, TryPop(w) PROVE IndInv'
    <2>0. Head(work_queue) \in Tasks /\ Tail(work_queue) \in Seq(Tasks)
      BY <1>18 DEF TryPop
    <2>1. TypeInv'
      BY <1>18, <2>0 DEF TryPop
    <2>m. MutexInv'
      BY <1>18, <2>0 DEF TryPop
    <2>2. OwnerInv'
      BY <1>18 DEF TryPop
    <2>3. ASSUME NEW c \in Clients PROVE ClientInv(c)'
      BY <1>18 DEF TryPop
    <2>4. ASSUME NEW v \in Workers PROVE WorkerInv(v)'
      BY <1>18, <2>0 DEF TryPop
    <2> QED
      BY <2>m, <2>1, <2>2, <2>3, <2>4
  <1>19. ASSUME NEW w \in Workers, Yield(w) PROVE IndInv'
    BY <1>19 DEF Yield
  <1>20. ASSUME NEW w \in Workers, Run(w) PROVE IndInv'
    <2> DEFINE k == [task[w] EXCEPT !.kind = "child"]
    <2>0. task[w] \in Tasks
      BY <1>20 DEF Run
    <2>k. k \in Tasks /\ k.by = task[w].by
      BY <2>0 DEF Tasks
    <2> HIDE DEF k
    <2>1. CASE task[w].kind = "spawner"
      <3>1. /\ pc' = [pc EXCEPT ![w] = "push"] /\ f' = [f EXCEPT ![w] = k]
            /\ m_taskCount' = m_taskCount + 1
            /\ UNCHANGED <<done, work_queue, mutex, ownerVars, todo, task, spurious, historyVars>>
        BY <1>20, <2>1 DEF Run, FetchAdd, k
      <3>2. pc[w] = "run"
        BY <1>20 DEF Run
      <3>3. TypeInv'
        BY <3>1, <3>2, <2>k
      <3>m. MutexInv'
        BY <3>1, <3>2, <2>k
      <3>4. OwnerInv' /\ \A c \in Clients : ClientInv(c)'
        BY <3>1, <3>2
      <3>5. ASSUME NEW v \in Workers PROVE WorkerInv(v)'
        BY <3>1, <3>2, <2>k
      <3> QED
        BY <3>m, <3>3, <3>4, <3>5
    <2>2. CASE task[w].kind # "spawner"
      <3>1. /\ pc' = [pc EXCEPT ![w] = "fetch_sub"] /\ pc[w] = "run"
            /\ UNCHANGED <<sharedVars, f, ownerVars, todo, task, spurious, historyVars>>
        BY <1>20, <2>2 DEF Run
      <3>2. TypeInv' /\ MutexInv'
        BY <3>1
      <3>3. OwnerInv' /\ \A c \in Clients : ClientInv(c)'
        BY <3>1
      <3>4. \A v \in Workers : WorkerInv(v)'
        BY <3>1
      <3> QED
        BY <3>2, <3>3, <3>4
    <2> QED
      BY <2>1, <2>2
  <1>21. ASSUME NEW w \in Workers, FetchSub(w) PROVE IndInv'
    <2>1. TypeInv'
      BY <1>21 DEF FetchSub
    <2>m. MutexInv'
      BY <1>21 DEF FetchSub
    <2>2. OwnerInv'
      BY <1>21 DEF FetchSub
    <2>3. ASSUME NEW c \in Clients PROVE ClientInv(c)'
      BY <1>21 DEF FetchSub
    <2>4. ASSUME NEW v \in Workers PROVE WorkerInv(v)'
      BY <1>21 DEF FetchSub
    <2> QED
      BY <2>m, <2>1, <2>2, <2>3, <2>4
  <1>22. ASSUME NEW w \in Workers, Lock(w) PROVE IndInv'
    <2>1. TypeInv'
      BY <1>22 DEF Lock
    <2>m. MutexInv'
      BY <1>22 DEF Lock
    <2>2. OwnerInv'
      BY <1>22 DEF Lock
    <2>3. \A c \in Clients : ClientInv(c)'
      BY <1>22 DEF Lock
    <2>4. \A v \in Workers : WorkerInv(v)'
      BY <1>22 DEF Lock
    <2> QED
      BY <2>m, <2>1, <2>2, <2>3, <2>4
  <1>23. ASSUME NEW w \in Workers, NotifyAll(w) PROVE IndInv'
    BY <1>23 DEF NotifyAll
  <1>24. ASSUME NEW w \in Workers, Unlock(w) PROVE IndInv'
    <2>1. TypeInv'
      BY <1>24 DEF Unlock
    <2>m. MutexInv'
      <3>1. mutex = w /\ mutex' = Nobody /\ pc' = [pc EXCEPT ![w] = "while"]
        BY <1>24 DEF Unlock
      <3>2. \A x \in Actors : pc'[x] \notin Holding
        BY <3>1
      <3>3. Nobody \notin Actors
        OBVIOUS
      <3> QED
        BY <3>1, <3>2, <3>3
    <2>2. OwnerInv'
      BY <1>24 DEF Unlock
    <2>3. ASSUME NEW c \in Clients PROVE ClientInv(c)'
      BY <1>24 DEF Unlock
    <2>4. ASSUME NEW v \in Workers PROVE WorkerInv(v)'
      BY <1>24 DEF Unlock
    <2> QED
      BY <2>m, <2>1, <2>2, <2>3, <2>4
  <1> QED
    BY <1>1, <1>2, <1>3, <1>4, <1>5, <1>6, <1>7, <1>8, <1>9, <1>10, <1>11, <1>12, <1>13,
       <1>14, <1>15, <1>16, <1>17, <1>18, <1>19, <1>20, <1>21, <1>22, <1>23, <1>24
       DEF Next, OwnerStep, ClientStep, WorkerStep

\* Every call is at a point of its own, every task belongs to the client it was
\* submitted for, and one thread at a time holds the mutex.
THEOREM Invariance == Spec => []IndInv
  BY InitIndInv, StepIndInv, PTL DEF Spec

-----------------------------------------------------------------------------
(***************************************************************************)
(* m_taskCount counts.                                                     *)
(***************************************************************************)
LEMMA SetsFinite ==
  /\ IsFiniteSet(Submitting) /\ Cardinality(Submitting) \in Nat
  /\ IsFiniteSet(Busy) /\ Cardinality(Busy) \in Nat
  <1>1. IsFiniteSet(Workers)
    BY BoundsAssumption, FS_Interval DEF Workers
  <1>2. IsFiniteSet(Actors)
    BY <1>1, ClientsAssumption, FS_Union DEF Actors
  <1>3. Submitting \subseteq Actors /\ Busy \subseteq Workers
    BY DEF Submitting, Busy
  <1> QED
    BY <1>1, <1>2, <1>3, FS_Subset, FS_CardinalityType

LEMMA InitAccounting == Init => TaskAccounting
  <1> SUFFICES ASSUME Init PROVE TaskAccounting
    OBVIOUS
  <1>1. Submitting = {} /\ Busy = {}
    BY DEF Init, Submitting, Busy
  <1> QED
    BY <1>1, FS_EmptySet DEF Init, TaskAccounting

\* The steps that change no term of the sum.
LEMMA AccountingKept ==
  ASSUME TaskAccounting, work_queue' = work_queue, m_taskCount' = m_taskCount,
         leaked' = leaked, Submitting' = Submitting, Busy' = Busy
  PROVE  TaskAccounting'
  BY DEF TaskAccounting

\* fetch_add and the queueing are two steps; in between the task is counted as
\* being submitted.
LEMMA SubmissionCounted ==
  ASSUME TaskAccounting, IndInv, NEW x \in Actors, x \notin Submitting,
         m_taskCount' = m_taskCount + 1, Submitting' = Submitting \cup {x},
         work_queue' = work_queue, leaked' = leaked, Busy' = Busy
  PROVE  TaskAccounting'
  <1>1. Cardinality(Submitting') = Cardinality(Submitting) + 1
    BY SetsFinite, FS_AddElement
  <1>2. Len(work_queue) \in Nat /\ leaked \in Nat
    BY DEF IndInv, TypeInv
  <1> QED
    BY <1>1, <1>2, SetsFinite DEF TaskAccounting

LEMMA StepAccounting == IndInv /\ TaskAccounting /\ [Next]_vars => TaskAccounting'
  <1> SUFFICES ASSUME IndInv, TaskAccounting, [Next]_vars PROVE TaskAccounting'
    OBVIOUS
  <1> USE ClientsAssumption DEF Goto, sharedVars, ownerVars, historyVars
  <1>t. /\ pc \in [Actors -> Points] /\ task \in [Workers -> Tasks \cup {NoTask}]
        /\ work_queue \in Seq(Tasks) /\ Len(work_queue) \in Nat /\ leaked \in Nat
        /\ m_taskCount \in Int /\ Owner \in Actors
        /\ Clients \subseteq Actors /\ Workers \subseteq Actors /\ Workers \cap Clients = {}
    BY BoundsAssumption DEF IndInv, TypeInv, Actors, Workers
  <1>1. CASE UNCHANGED vars
    BY <1>1, AccountingKept DEF vars, Submitting, Busy
  <1>2. CASE OwnerStep
    <2>1. /\ work_queue' = work_queue /\ m_taskCount' = m_taskCount
          /\ leaked' = leaked /\ task' = task
      BY <1>2 DEF OwnerStep, StartThread, ThreadThrows, PushBackThrows, Constructed, SetDone,
                  DestroyMembers, Join
    <2>2. Submitting' = Submitting
      <3>1. CASE StartThread \/ PushBackThrows
        <4>1. threads + 1 \in Workers /\ pc[threads + 1] = "none"
          BY <3>1, BoundsAssumption DEF StartThread, PushBackThrows, IndInv, TypeInv, WorkerInv,
                                        Workers
        <4> QED
          BY <3>1, <4>1, <1>t DEF StartThread, PushBackThrows, Submitting
      <3>2. CASE Constructed
        <4>1. \A c \in Clients : pc[c] # "push"
          BY <3>2 DEF Constructed, IndInv, OwnerInv
        <4> QED
          BY <3>2, <4>1, <1>t DEF Constructed, Submitting
      <3>3. CASE ThreadThrows \/ SetDone \/ DestroyMembers \/ Join
        BY <3>3, <1>t DEF ThreadThrows, SetDone, DestroyMembers, Join, Submitting
      <3> QED
        BY <1>2, <3>1, <3>2, <3>3 DEF OwnerStep
    <2> QED
      BY <2>1, <2>2, AccountingKept DEF Busy
  <1>3. ASSUME NEW c \in Clients,
               \/ WaitLock(c) \/ WaitTest(c) \/ WaitSleep(c) \/ WaitReturn(c)
               \/ SpuriousWakeup(c)
        PROVE  TaskAccounting'
    <2>1. /\ work_queue' = work_queue /\ m_taskCount' = m_taskCount
          /\ leaked' = leaked /\ task' = task
      BY <1>3 DEF WaitLock, WaitTest, WaitSleep, WaitReturn, SpuriousWakeup
    <2>2. Submitting' = Submitting
      BY <1>3, <1>t DEF WaitLock, WaitTest, WaitSleep, WaitReturn, SpuriousWakeup, Submitting
    <2> QED
      BY <2>1, <2>2, AccountingKept DEF Busy
  <1>4. ASSUME NEW w \in Workers, While(w) \/ Yield(w) \/ Lock(w) \/ NotifyAll(w) \/ Unlock(w)
        PROVE  TaskAccounting'
    <2>1. /\ work_queue' = work_queue /\ m_taskCount' = m_taskCount
          /\ leaked' = leaked /\ task' = task
      BY <1>4 DEF While, Yield, Lock, NotifyAll, Unlock
    <2>2. Submitting' = Submitting
      BY <1>4, <1>t DEF While, Yield, Lock, NotifyAll, Unlock, Submitting
    <2> QED
      BY <2>1, <2>2, AccountingKept DEF Busy
  <1>5. ASSUME NEW c \in Clients, Submit(c) PROVE TaskAccounting'
    <2>1. c \notin Submitting /\ Submitting' = Submitting \cup {c}
      BY <1>5, <1>t DEF Submit, FetchAdd, Submitting
    <2>2. /\ work_queue' = work_queue /\ m_taskCount' = m_taskCount + 1
          /\ leaked' = leaked /\ task' = task
      BY <1>5 DEF Submit, FetchAdd
    <2> QED
      BY <2>1, <2>2, <1>t, SubmissionCounted DEF Busy
  <1>6. ASSUME NEW w \in Workers, Run(w) PROVE TaskAccounting'
    <2>1. CASE task[w].kind = "spawner"
      <3>1. w \notin Submitting /\ Submitting' = Submitting \cup {w}
        BY <1>6, <2>1, <1>t DEF Run, FetchAdd, Submitting
      <3>2. /\ work_queue' = work_queue /\ m_taskCount' = m_taskCount + 1
            /\ leaked' = leaked /\ task' = task
        BY <1>6, <2>1 DEF Run, FetchAdd
      <3> QED
        BY <3>1, <3>2, <1>t, SubmissionCounted DEF Busy
    <2>2. CASE task[w].kind # "spawner"
      <3>1. Submitting' = Submitting
        BY <1>6, <2>2, <1>t DEF Run, Submitting
      <3>2. /\ work_queue' = work_queue /\ m_taskCount' = m_taskCount
            /\ leaked' = leaked /\ task' = task
        BY <1>6, <2>2 DEF Run
      <3> QED
        BY <3>1, <3>2, AccountingKept DEF Busy
    <2> QED
      BY <2>1, <2>2
  <1>7. ASSUME NEW x \in Actors, Push(x) \/ PushThrows(x) PROVE TaskAccounting'
    <2>1. x \in Submitting /\ Submitting' = Submitting \ {x}
      BY <1>7, <1>t DEF Push, PushThrows, Submitted, Submitting
    <2>2. Cardinality(Submitting') = Cardinality(Submitting) - 1
      BY <2>1, SetsFinite, FS_RemoveElement
    <2>3. /\ Busy' = Busy /\ m_taskCount' = m_taskCount
          /\ Len(work_queue') + leaked' = Len(work_queue) + leaked + 1
          /\ Len(work_queue') \in Nat /\ leaked' \in Nat
      <3>1. CASE Push(x)
        <4>1. f[x] \in Tasks
          BY <3>1 DEF Push, IndInv, ClientInv, WorkerInv, Actors
        <4> QED
          BY <3>1, <4>1, <1>t DEF Push, Submitted, Busy
      <3>2. CASE PushThrows(x)
        BY <3>2, <1>t DEF PushThrows, Submitted, Busy
      <3> QED
        BY <1>7, <3>1, <3>2
    <2> QED
      BY <2>2, <2>3, <1>t, SetsFinite DEF TaskAccounting
  <1>8. ASSUME NEW w \in Workers, TryPop(w) PROVE TaskAccounting'
    <2>1. task[w] = NoTask /\ Head(work_queue) \in Tasks
      BY <1>8, <1>t DEF TryPop, IndInv, WorkerInv
    <2>2. w \notin Busy /\ Busy' = Busy \cup {w}
      BY <1>8, <2>1, <1>t, NoTaskIsNoTask DEF TryPop, Busy
    <2>3. Cardinality(Busy') = Cardinality(Busy) + 1
      BY <2>2, SetsFinite, FS_AddElement
    <2>4. /\ m_taskCount' = m_taskCount /\ leaked' = leaked
          /\ Len(work_queue') = Len(work_queue) - 1
      BY <1>8, <1>t DEF TryPop
    <2>5. Submitting' = Submitting
      BY <1>8, <1>t DEF TryPop, Submitting
    <2> QED
      BY <2>3, <2>4, <2>5, <1>t, SetsFinite DEF TaskAccounting
  <1>9. ASSUME NEW w \in Workers, FetchSub(w) PROVE TaskAccounting'
    <2>1. w \in Busy /\ Busy' = Busy \ {w}
      BY <1>9, <1>t DEF FetchSub, IndInv, WorkerInv, Busy
    <2>2. Cardinality(Busy') = Cardinality(Busy) - 1
      BY <2>1, SetsFinite, FS_RemoveElement
    <2>3. /\ m_taskCount' = m_taskCount - 1 /\ leaked' = leaked /\ work_queue' = work_queue
      BY <1>9 DEF FetchSub
    <2>4. Submitting' = Submitting
      BY <1>9, <1>t DEF FetchSub, Submitting
    <2> QED
      BY <2>2, <2>3, <2>4, <1>t, SetsFinite DEF TaskAccounting
  <1> QED
    BY <1>t, <1>1, <1>2, <1>3, <1>4, <1>5, <1>6, <1>7, <1>8, <1>9
       DEF Next, ClientStep, WorkerStep

\* The relaxed counter agrees at every moment with what the pool still owes.
THEOREM CountIsExact == Spec => []TaskAccounting
  BY Invariance, InitAccounting, StepAccounting, PTL DEF Spec

\* The pool is type correct, and its unsigned counter never wraps below zero.
THEOREM TypeCorrect == Spec => []TypeOK
  <1>1. IndInv /\ TaskAccounting => TypeOK
    BY SetsFinite DEF IndInv, TypeInv, MutexInv, TaskAccounting, TypeOK
  <1> QED
    BY <1>1, Invariance, CountIsExact, PTL

-----------------------------------------------------------------------------
(***************************************************************************)
(* wait_all.  A client is committed to sleep from its test on: the worker  *)
(* that lowers the count to zero after that test still needs the mutex.    *)
(***************************************************************************)
NotificationOwed ==
  (\E c \in Clients : pc[c] \in {"sleep", "asleep"}) /\ m_taskCount = 0 =>
    \E w \in Workers : pc[w] \in {"lock", "notify_all"}

LEMMA StepNotification == IndInv /\ TypeOK /\ NotificationOwed /\ [Next]_vars => NotificationOwed'
  <1> SUFFICES ASSUME IndInv, TypeOK, NotificationOwed, [Next]_vars PROVE NotificationOwed'
    OBVIOUS
  <1> USE ClientsAssumption DEF Goto, sharedVars, ownerVars, historyVars, NotificationOwed
  <1>t. /\ pc \in [Actors -> Points] /\ m_taskCount \in Nat
        /\ Owner \in Clients /\ Clients \subseteq Actors /\ Workers \subseteq Actors
        /\ Workers \cap Clients = {}
    BY BoundsAssumption DEF TypeOK, Actors, Workers
  <1>1. CASE UNCHANGED vars
    BY <1>1 DEF vars
  <1>2. CASE OwnerStep
    <2>1. \A w \in Workers : pc[w] \in {"lock", "notify_all"} => pc'[w] = pc[w]
      <3>1. CASE StartThread \/ PushBackThrows
        <4>1. threads + 1 \in Workers /\ pc[threads + 1] = "none"
          BY <3>1, BoundsAssumption DEF StartThread, PushBackThrows, IndInv, TypeInv, WorkerInv,
                                        Workers
        <4> QED
          BY <3>1, <4>1, <1>t DEF StartThread, PushBackThrows
      <3>2. CASE ThreadThrows \/ Constructed \/ SetDone \/ DestroyMembers \/ Join
        BY <3>2, <1>t DEF ThreadThrows, Constructed, SetDone, DestroyMembers, Join
      <3> QED
        BY <1>2, <3>1, <3>2 DEF OwnerStep
    <2>2. \A c \in Clients : pc'[c] \in {"sleep", "asleep"} => pc[c] = pc'[c]
      <3>1. CASE StartThread \/ PushBackThrows
        <4>1. threads + 1 \in Workers
          BY <3>1, BoundsAssumption DEF StartThread, PushBackThrows, IndInv, TypeInv, Workers
        <4> QED
          BY <3>1, <4>1, <1>t DEF StartThread, PushBackThrows
      <3>2. CASE ThreadThrows \/ Constructed \/ SetDone \/ DestroyMembers \/ Join
        BY <3>2, <1>t DEF ThreadThrows, Constructed, SetDone, DestroyMembers, Join
      <3> QED
        BY <1>2, <3>1, <3>2 DEF OwnerStep
    <2>3. m_taskCount' = m_taskCount
      BY <1>2 DEF OwnerStep, StartThread, ThreadThrows, PushBackThrows, Constructed, SetDone,
                  DestroyMembers, Join
    <2> QED
      BY <2>1, <2>2, <2>3
  <1>3. ASSUME NEW c \in Clients, WaitTest(c) PROVE NotificationOwed'
    BY <1>3, <1>t DEF WaitTest
  <1>4. ASSUME NEW c \in Clients,
               WaitLock(c) \/ WaitSleep(c) \/ WaitReturn(c) \/ SpuriousWakeup(c)
        PROVE  NotificationOwed'
    BY <1>4, <1>t DEF WaitLock, WaitSleep, WaitReturn, SpuriousWakeup
  <1>5. ASSUME NEW x \in Actors, Push(x) \/ PushThrows(x) PROVE NotificationOwed'
    BY <1>5, <1>t DEF Push, PushThrows, Submitted
  <1>6. ASSUME NEW c \in Clients, Submit(c) PROVE NotificationOwed'
    <2>1. m_taskCount' = m_taskCount + 1 /\ pc' = [pc EXCEPT ![c] = "push"]
      BY <1>6 DEF Submit, FetchAdd
    <2> QED
      BY <2>1, <1>t
  <1>7. ASSUME NEW w \in Workers, Run(w) PROVE NotificationOwed'
    <2>1. /\ m_taskCount' \in {m_taskCount, m_taskCount + 1}
          /\ \E p \in {"push", "fetch_sub"} : pc' = [pc EXCEPT ![w] = p]
          /\ pc[w] = "run"
      BY <1>7, <1>t DEF Run, FetchAdd
    <2> QED
      BY <2>1, <1>t
  <1>8. ASSUME NEW w \in Workers, FetchSub(w) PROVE NotificationOwed'
    BY <1>8, <1>t DEF FetchSub
  \* Nobody is between test and sleep: w holds the mutex.  Nobody stays asleep.
  <1>9. ASSUME NEW w \in Workers, NotifyAll(w) PROVE NotificationOwed'
    <2>1. \A c \in Clients : pc[c] # "sleep"
      BY <1>9, <1>t DEF NotifyAll, IndInv, MutexInv, Holding
    <2> QED
      BY <1>9, <2>1, <1>t DEF NotifyAll
  <1>10. ASSUME NEW w \in Workers, While(w) \/ TryPop(w) \/ Yield(w) \/ Lock(w) \/ Unlock(w)
         PROVE  NotificationOwed'
    BY <1>10, <1>t DEF While, TryPop, Yield, Lock, Unlock
  <1> QED
    BY <1>t, <1>1, <1>2, <1>3, <1>4, <1>5, <1>6, <1>7, <1>8, <1>9, <1>10
       DEF Next, ClientStep, WorkerStep

\* No completion is lost: while the count is zero and a client sleeps in
\* wait_all, a worker is about to notify it.
THEOREM NoCompletionIsLost == Spec => []NoLostCompletion
  <1>1. Init => NotificationOwed
    BY ClientsAssumption DEF Init, NotificationOwed, Actors
  <1>2. NotificationOwed => NoLostCompletion
    BY DEF NotificationOwed, NoLostCompletion, Asleep
  <1> QED
    BY <1>1, <1>2, Invariance, TypeCorrect, StepNotification, PTL DEF Spec

-----------------------------------------------------------------------------
(***************************************************************************)
(* What wait_all promises its caller: at the test of the count nothing is  *)
(* unfinished, and what is submitted later belongs to other clients.       *)
(***************************************************************************)
Queued  == {work_queue[i] : i \in 1..Len(work_queue)}
InPush  == {f[x] : x \in Submitting}
Running == {w \in Workers : pc[w] \in {"run", "push"}}
NoneOf(c) == \A k \in Unfinished : k.by # c

LEMMA NothingUnfinished ==
  ASSUME IndInv, TaskAccounting, m_taskCount = 0
  PROVE  Unfinished = {}
  <1>1. Len(work_queue) \in Nat /\ leaked \in Nat
    BY DEF IndInv, TypeInv
  <1>2. Len(work_queue) = 0 /\ Cardinality(Submitting) = 0 /\ Cardinality(Busy) = 0
    BY <1>1, SetsFinite DEF TaskAccounting
  <1>3. Submitting = {} /\ Busy = {}
    BY <1>2, SetsFinite, FS_EmptySet
  <1>4. Running \subseteq Busy
    BY DEF Running, Busy, IndInv, WorkerInv
  <1> QED
    BY <1>2, <1>3, <1>4 DEF Unfinished, Running

\* The steps that add no task of c to the unfinished ones.
LEMMA CoversKept ==
  ASSUME NEW c \in Clients, NoneOf(c),
         \A k \in Queued' \cup InPush' \cup {task'[w] : w \in Running'} :
           k \in Unfinished \/ k.by # c
  PROVE  NoneOf(c)'
  BY DEF NoneOf, Unfinished, Queued, InPush, Running

LEMMA StepCovers ==
  ASSUME IndInv, [Next]_vars, NEW c \in Clients, pc[c] = "return",
         NoneOf(c)
  PROVE  NoneOf(c)'
  <1> USE ClientsAssumption DEF Goto, sharedVars, ownerVars, historyVars
  <1>t. /\ pc \in [Actors -> Points] /\ task \in [Workers -> Tasks \cup {NoTask}]
        /\ f \in [Actors -> Tasks \cup {NoTask}] /\ work_queue \in Seq(Tasks)
        /\ Owner \in Clients /\ Clients \subseteq Actors /\ Workers \subseteq Actors
        /\ Workers \cap Clients = {} /\ Actors = Clients \cup Workers
    BY BoundsAssumption DEF IndInv, TypeInv, Actors, Workers
  <1>u. Unfinished = Queued \cup InPush \cup {task[w] : w \in Running}
    BY DEF Unfinished, Queued, InPush, Running
  <1>s. ASSUME work_queue' = work_queue, f' = f, task' = task,
               Submitting' \subseteq Submitting, Running' \subseteq Running
        PROVE  NoneOf(c)'
    <2>1. Queued' = Queued /\ InPush' \subseteq InPush
      BY <1>s DEF Queued, InPush
    <2>2. {task'[w] : w \in Running'} \subseteq {task[w] : w \in Running}
      BY <1>s
    <2> QED
      BY <2>1, <2>2, <1>u, CoversKept
  <1>1. CASE UNCHANGED vars
    BY <1>1, <1>s DEF vars, Submitting, Running
  <1>2. CASE OwnerStep
    <2>1. work_queue' = work_queue /\ f' = f /\ task' = task
      BY <1>2 DEF OwnerStep, StartThread, ThreadThrows, PushBackThrows, Constructed, SetDone,
                  DestroyMembers, Join
    <2>2. \A x \in Actors : pc'[x] \in {"run", "push"} => pc'[x] = pc[x]
      <3>1. CASE StartThread \/ PushBackThrows
        <4>1. threads + 1 \in Workers
          BY <3>1, BoundsAssumption DEF StartThread, PushBackThrows, IndInv, TypeInv, Workers
        <4> QED
          BY <3>1, <4>1, <1>t DEF StartThread, PushBackThrows
      <3>2. CASE ThreadThrows \/ Constructed \/ SetDone \/ DestroyMembers \/ Join
        BY <3>2, <1>t DEF ThreadThrows, Constructed, SetDone, DestroyMembers, Join
      <3> QED
        BY <1>2, <3>1, <3>2 DEF OwnerStep
    <2> QED
      BY <2>1, <2>2, <1>s, <1>t DEF Submitting, Running
  <1>3. ASSUME NEW d \in Clients,
               \/ WaitLock(d) \/ WaitTest(d) \/ WaitSleep(d) \/ WaitReturn(d)
               \/ SpuriousWakeup(d)
        PROVE  NoneOf(c)'
    BY <1>3, <1>s, <1>t
       DEF WaitLock, WaitTest, WaitSleep, WaitReturn, SpuriousWakeup, Submitting, Running
  <1>4. ASSUME NEW w \in Workers, While(w) \/ Yield(w) \/ Lock(w) \/ NotifyAll(w) \/ Unlock(w)
        PROVE  NoneOf(c)'
    BY <1>4, <1>s, <1>t DEF While, Yield, Lock, NotifyAll, Unlock, Submitting, Running
  \* c is in wait_all, so it is another client that submits.
  <1>5. ASSUME NEW d \in Clients, Submit(d) PROVE NoneOf(c)'
    <2>1. d # c /\ d \in Actors /\ f'[d].by = d /\ \A x \in Actors \ {d} : f'[x] = f[x]
      BY <1>5, <1>t DEF Submit, FetchAdd
    <2>2. work_queue' = work_queue /\ task' = task
      BY <1>5 DEF Submit, FetchAdd
    <2>3. Submitting' \subseteq Submitting \cup {d} /\ Running' = Running
      BY <1>5, <1>t DEF Submit, FetchAdd, Submitting, Running
    <2>4. \A k \in InPush' : k \in InPush \/ k.by # c
      BY <2>1, <2>3 DEF InPush, Submitting
    <2> QED
      BY <2>2, <2>3, <2>4, <1>u, CoversKept DEF Queued
  \* A running task is unfinished, so it is not c's, and its child is not either.
  <1>6. ASSUME NEW w \in Workers, Run(w) PROVE NoneOf(c)'
    <2>1. pc[w] = "run" /\ task[w] \in Tasks /\ task[w].by # c
      BY <1>6, <1>t, <1>u, NoTaskIsNoTask DEF NoneOf, Run, Running, IndInv, WorkerInv
    <2>2. CASE task[w].kind = "spawner"
      <3>1. f'[w].by = task[w].by /\ \A x \in Actors \ {w} : f'[x] = f[x]
        BY <1>6, <1>t, <2>1, <2>2 DEF Run, FetchAdd, Tasks
      <3>2. work_queue' = work_queue /\ task' = task
        BY <1>6, <2>2 DEF Run, FetchAdd
      <3>3. Submitting' \subseteq Submitting \cup {w} /\ Running' = Running
        BY <1>6, <2>2, <1>t DEF Run, FetchAdd, Submitting, Running
      <3>4. \A k \in InPush' : k \in InPush \/ k.by # c
        BY <2>1, <3>1, <3>3 DEF InPush, Submitting
      <3> QED
        BY <3>2, <3>3, <3>4, <1>u, CoversKept DEF Queued
    <2>3. CASE task[w].kind # "spawner"
      BY <1>6, <2>3, <1>s, <1>t DEF Run, Submitting, Running
    <2> QED
      BY <2>2, <2>3
  <1>7. ASSUME NEW x \in Actors, Push(x) PROVE NoneOf(c)'
    <2>1. x \in Submitting /\ f[x] \in Tasks
      BY <1>7, <1>t DEF Push, Submitting, IndInv, ClientInv, WorkerInv
    <2>2. Queued' \subseteq Queued \cup {f[x]} /\ f[x] \in InPush
      BY <1>7, <2>1, <1>t DEF Push, Queued, InPush
    <2>3. Submitting' \subseteq Submitting \ {x} /\ Running' \subseteq Running
          /\ \A y \in Submitting' : f'[y] = f[y]
      BY <1>7, <1>t DEF Push, Submitted, Submitting, Running
    <2>4. InPush' \subseteq InPush
      BY <2>3 DEF InPush
    <2>5. task' = task
      BY <1>7 DEF Push
    <2> QED
      BY <2>2, <2>3, <2>4, <2>5, <1>u, CoversKept
  <1>8. ASSUME NEW x \in Actors, PushThrows(x) PROVE NoneOf(c)'
    <2>1. Submitting' \subseteq Submitting \ {x} /\ Running' \subseteq Running
          /\ \A y \in Submitting' : f'[y] = f[y]
      BY <1>8, <1>t DEF PushThrows, Submitted, Submitting, Running
    <2>2. InPush' \subseteq InPush
      BY <2>1 DEF InPush
    <2>3. task' = task /\ work_queue' = work_queue
      BY <1>8 DEF PushThrows
    <2> QED
      BY <2>1, <2>2, <2>3, <1>u, CoversKept DEF Queued
  <1>9. ASSUME NEW w \in Workers, TryPop(w) PROVE NoneOf(c)'
    <2>1. Head(work_queue) \in Queued /\ Queued' \subseteq Queued
      BY <1>9, <1>t DEF TryPop, Queued
    <2>2. task' = [task EXCEPT ![w] = Head(work_queue)] /\ f' = f
      BY <1>9 DEF TryPop
    <2>3. Submitting' = Submitting /\ Running' = Running \cup {w}
      BY <1>9, <1>t DEF TryPop, Submitting, Running
    <2>4. \A k \in {task'[v] : v \in Running'} : k \in Queued \/ k \in {task[v] : v \in Running}
      BY <2>1, <2>2, <2>3, <1>t DEF Running
    <2>5. InPush' = InPush
      BY <2>2, <2>3 DEF InPush
    <2> QED
      BY <2>1, <2>4, <2>5, <1>u, CoversKept
  <1>10. ASSUME NEW w \in Workers, FetchSub(w) PROVE NoneOf(c)'
    <2>1. work_queue' = work_queue /\ f' = f /\ Submitting' = Submitting
      BY <1>10, <1>t DEF FetchSub, Submitting
    <2>2. Running' = Running /\ \A v \in Running : task'[v] = task[v]
      BY <1>10, <1>t DEF FetchSub, Running
    <2>3. Queued' = Queued /\ InPush' = InPush
      BY <2>1 DEF Queued, InPush
    <2> QED
      BY <2>2, <2>3, <1>u, CoversKept
  <1>11. ASSUME NEW d \in Clients, ClientStep(d) \/ SpuriousWakeup(d) PROVE NoneOf(c)'
    BY <1>t, <1>11, <1>3, <1>5, <1>7, <1>8 DEF ClientStep
  <1>12. ASSUME NEW w \in Workers, WorkerStep(w) PROVE NoneOf(c)'
    BY <1>t, <1>12, <1>4, <1>6, <1>7, <1>8, <1>9, <1>10 DEF WorkerStep
  <1> QED
    BY <1>1, <1>2, <1>11, <1>12 DEF Next

\* wait_all returns only by testing a count of zero.
LEMMA OnlyTestReturns ==
  ASSUME IndInv, [Next]_vars, NEW c \in Clients, pc[c] # "return", pc'[c] = "return"
  PROVE  m_taskCount = 0 /\ Unfinished' = Unfinished
  <1> USE ClientsAssumption DEF Goto, sharedVars, ownerVars, historyVars
  <1>t. /\ pc \in [Actors -> Points] /\ Owner \in Clients
        /\ Clients \subseteq Actors /\ Workers \subseteq Actors /\ Workers \cap Clients = {}
    BY BoundsAssumption DEF IndInv, TypeInv, Actors, Workers
  <1>1. ASSUME OwnerStep PROVE FALSE
    <2>1. CASE StartThread \/ PushBackThrows
      <3>1. threads + 1 \in Workers
        BY <2>1, BoundsAssumption DEF StartThread, PushBackThrows, IndInv, TypeInv, Workers
      <3> QED
        BY <2>1, <3>1, <1>t DEF StartThread, PushBackThrows
    <2>2. CASE ThreadThrows \/ Constructed \/ SetDone \/ DestroyMembers \/ Join
      BY <2>2, <1>t DEF ThreadThrows, Constructed, SetDone, DestroyMembers, Join
    <2> QED
      BY <1>1, <2>1, <2>2 DEF OwnerStep
  <1>2. ASSUME NEW w \in Workers,
               \/ While(w) \/ TryPop(w) \/ Yield(w) \/ Run(w) \/ FetchSub(w) \/ Lock(w)
               \/ NotifyAll(w) \/ Unlock(w)
        PROVE  FALSE
    BY <1>2, <1>t DEF While, TryPop, Yield, Run, FetchAdd, FetchSub, Lock, NotifyAll, Unlock
  <1>3. ASSUME NEW x \in Actors, Push(x) \/ PushThrows(x) PROVE FALSE
    BY <1>3, <1>t DEF Push, PushThrows, Submitted
  <1>4. ASSUME NEW d \in Clients,
               \/ Submit(d) \/ WaitLock(d) \/ WaitSleep(d) \/ WaitReturn(d)
               \/ SpuriousWakeup(d)
        PROVE  FALSE
    BY <1>4, <1>t DEF Submit, FetchAdd, WaitLock, WaitSleep, WaitReturn, SpuriousWakeup
  <1>5. ASSUME NEW d \in Clients, WaitTest(d) PROVE m_taskCount = 0 /\ Unfinished' = Unfinished
    <2>1. m_taskCount = 0 /\ work_queue' = work_queue /\ f' = f /\ task' = task
      BY <1>5, <1>t DEF WaitTest
    <2>2. Submitting' = Submitting /\ Running' = Running
      BY <1>5, <1>t DEF WaitTest, Submitting, Running
    <2> QED
      BY <2>1, <2>2 DEF Unfinished, Running
  <1> QED
    BY <1>t, <1>1, <1>2, <1>3, <1>4, <1>5 DEF Next, ClientStep, WorkerStep, vars

\* When wait_all returns, every task its caller submitted before, and every
\* task those have submitted, is finished.
THEOREM WaitAllIsComplete == Spec => []WaitAllCovers
  <1>1. Init => WaitAllCovers
    BY ClientsAssumption DEF Init, WaitAllCovers, Actors
  <1>2. IndInv /\ TaskAccounting /\ WaitAllCovers /\ [Next]_vars => WaitAllCovers'
    <2> SUFFICES ASSUME IndInv, TaskAccounting, WaitAllCovers, [Next]_vars,
                        NEW c \in Clients, pc'[c] = "return"
                 PROVE  NoneOf(c)'
      BY DEF WaitAllCovers, NoneOf
    <2>1. CASE pc[c] = "return"
      <3>1. NoneOf(c)
        BY <2>1 DEF WaitAllCovers, NoneOf
      <3> QED
        BY <2>1, <3>1, StepCovers
    <2>2. CASE pc[c] # "return"
      <3>1. m_taskCount = 0 /\ Unfinished' = Unfinished
        BY <2>2, OnlyTestReturns
      <3>2. Unfinished = {}
        BY <3>1, NothingUnfinished
      <3> QED
        BY <3>1, <3>2 DEF NoneOf
    <2> QED
      BY <2>1, <2>2
  <1> QED
    BY <1>1, <1>2, Invariance, CountIsExact, PTL DEF Spec

-----------------------------------------------------------------------------
(***************************************************************************)
(* Shutdown.                                                               *)
(***************************************************************************)
LateInv ==
  \A w \in Workers : /\ late[w] <= 1
                     /\ late[w] > 0 => done
                     /\ pc[w] = "try_pop" => late[w] = 0
                     /\ pc[w] = "none" => late[w] = 0

QuietInv ==
  destroyed /\ quiet =>
    \A w \in Workers : \/ pc[w] \in {"none", "while", "exited"}
                       \/ pc[w] = "try_pop" /\ work_queue = <<>>

LEMMA StepShutdown == IndInv /\ LateInv /\ QuietInv /\ [Next]_vars => LateInv' /\ QuietInv'
  <1> SUFFICES ASSUME IndInv, LateInv, QuietInv, [Next]_vars PROVE LateInv' /\ QuietInv'
    OBVIOUS
  <1> USE ClientsAssumption, BoundsAssumption
      DEF Goto, sharedVars, ownerVars, historyVars, LateInv, QuietInv
  <1>t. /\ pc \in [Actors -> Points] /\ late \in [Workers -> Nat]
        /\ Owner \in Clients /\ Clients \subseteq Actors /\ Workers \subseteq Actors
        /\ Workers \cap Clients = {} /\ Actors = Clients \cup Workers
    BY DEF IndInv, TypeInv, Actors, Workers
  <1>o. destroyed => /\ done /\ pc[Owner] \in {"join", "gone"}
                     /\ \A c \in Clients : pc[c] \in {"none", "join", "gone"} \/
                                           (pc[c] = "idle" /\ todo[c] = <<>>)
    BY DEF IndInv, OwnerInv
  <1>1. CASE UNCHANGED vars
    BY <1>1 DEF vars
  <1>2. CASE StartThread \/ PushBackThrows
    <2>1. threads + 1 \in Workers /\ pc[threads + 1] = "none" /\ pc[Owner] = "ctor"
      BY <1>2 DEF StartThread, PushBackThrows, IndInv, TypeInv, WorkerInv, Workers
    <2> QED
      BY <1>2, <2>1, <1>t, <1>o DEF StartThread, PushBackThrows
  <1>3. CASE ThreadThrows \/ Constructed \/ SetDone \/ DestroyMembers \/ Join
    BY <1>3, <1>t, <1>o DEF ThreadThrows, Constructed, SetDone, DestroyMembers, Join
  <1>4. ASSUME NEW c \in Clients,
               \/ Submit(c) \/ WaitLock(c) \/ WaitTest(c) \/ WaitSleep(c) \/ WaitReturn(c)
               \/ SpuriousWakeup(c)
        PROVE  LateInv' /\ QuietInv'
    BY <1>4, <1>t, <1>o
       DEF Submit, FetchAdd, WaitLock, WaitTest, WaitSleep, WaitReturn, SpuriousWakeup
  <1>5. ASSUME NEW x \in Actors, Push(x) \/ PushThrows(x) PROVE LateInv' /\ QuietInv'
    BY <1>5, <1>t, <1>o DEF Push, PushThrows, Submitted
  <1>6. ASSUME NEW w \in Workers,
               \/ While(w) \/ TryPop(w) \/ Yield(w) \/ Run(w) \/ FetchSub(w) \/ Lock(w)
               \/ NotifyAll(w) \/ Unlock(w)
        PROVE  LateInv' /\ QuietInv'
    <2>1. CASE While(w) \/ Yield(w) \/ Lock(w) \/ NotifyAll(w) \/ Unlock(w)
      BY <2>1, <1>t, <1>o DEF While, Yield, Lock, NotifyAll, Unlock
    <2>2. CASE TryPop(w)
      BY <2>2, <1>t, <1>o DEF TryPop
    <2>3. CASE Run(w) \/ FetchSub(w)
      BY <2>3, <1>t, <1>o DEF Run, FetchAdd, FetchSub
    <2> QED
      BY <1>6, <2>1, <2>2, <2>3
  <1> QED
    BY <1>t, <1>1, <1>2, <1>3, <1>4, <1>5, <1>6 DEF Next, OwnerStep, ClientStep, WorkerStep

LEMMA ShutdownInv == Spec => [](LateInv /\ QuietInv)
  <1>1. Init => LateInv /\ QuietInv
    BY ClientsAssumption DEF Init, LateInv, QuietInv, Actors, Workers
  <1> QED
    BY <1>1, Invariance, StepShutdown, PTL DEF Spec

\* Once done is set, a worker begins at most one more task.
THEOREM OneLateTask == Spec => []AtMostOneLateTask
  <1>1. LateInv => AtMostOneLateTask
    BY DEF LateInv, AtMostOneLateTask
  <1> QED
    BY <1>1, ShutdownInv, PTL

\* A pool that was quiet when its members were destroyed touches none of them.
THEOREM QuietIsSafe == Spec => []QuietDestructionIsSafe
  <1>1. QuietInv => QuietDestructionIsSafe
    BY DEF QuietInv, QuietDestructionIsSafe
  <1> QED
    BY <1>1, ShutdownInv, PTL

-----------------------------------------------------------------------------
(***************************************************************************)
(* Why shutdown ends (ShutdownEnds), and why wait_all returns              *)
(* (WaitAllReturns).  Once done is set every step moves one thread towards *)
(* its end, and a step is always possible.  While a client waits, a step   *)
(* other than an idle turn of a worker is possible.                        *)
(***************************************************************************)

\* done is set by the owner, and only then do workers end.
DoneInv ==
  /\ done => pc[Owner] \in {"destroy", "join", "gone"}
  /\ \A w \in Workers : pc[w] = "exited" => done

\* How far a worker, or the owner, is from its end once done is set.
Rank == [p \in Points |->
           CASE p = "try_pop" -> 8
             [] p = "run" -> 7
             [] p = "push" -> 6
             [] p = "fetch_sub" -> 5
             [] p = "lock" -> 4
             [] p = "notify_all" -> 3
             [] p \in {"unlock", "destroy"} -> 2
             [] p \in {"while", "join"} -> 1
             [] OTHER -> 0]

\* The guards of WorkerStep(w), and of OwnerStep in the destructor.
WorkerCanStep(w) ==
  \/ pc[w] \in {"while", "try_pop", "run", "push", "fetch_sub", "notify_all", "unlock"}
  \/ pc[w] = "lock" /\ mutex = Nobody
OwnerCanFinish ==
  \/ pc[Owner] = "destroy"
  \/ pc[Owner] = "join" /\ \A w \in 1..threads : pc[w] = "exited"

\* A pool that is shutting down is not stuck before it is gone.
ShutdownNotStuck ==
  done => pc[Owner] = "gone" \/ OwnerCanFinish \/ \E w \in Workers : WorkerCanStep(w)

\* Each of its steps moves one thread, which comes closer to its end.
ShutdownStep ==
  done => \E x \in Workers \cup {Owner} :
            /\ Rank[pc'[x]] < Rank[pc[x]]
            /\ \A y \in Actors \ {x} : pc'[y] = pc[y]

ShutdownDescends == [][ShutdownStep]_vars

\* The guards of the steps that are not an idle turn of a worker.
CanWork(x) ==
  \/ pc[x] \in {"push", "test", "sleep", "return", "run", "fetch_sub", "notify_all", "unlock"}
  \/ pc[x] \in {"lock", "relock"} /\ mutex = Nobody
  \/ x \in Workers /\ pc[x] \in {"while", "try_pop"} /\ work_queue # <<>>

\* A client waits only while something is still being done: a task is on its way, or
\* a worker is there to take it, or the notification is.
WaitNotStuck ==
  leaked = 0 /\ threads > 0 /\ (\E c \in Clients : InWaitAll(c)) => \E x \in Actors : CanWork(x)

LEMMA StepDone == IndInv /\ DoneInv /\ [Next]_vars => DoneInv'
  <1> SUFFICES ASSUME IndInv, DoneInv, [Next]_vars PROVE DoneInv'
    OBVIOUS
  <1> USE ClientsAssumption, BoundsAssumption DEF Goto, sharedVars, ownerVars, DoneInv
  <1>t. /\ pc \in [Actors -> Points]
        /\ Owner \in Clients /\ Clients \subseteq Actors /\ Workers \subseteq Actors
        /\ Workers \cap Clients = {} /\ Actors = Clients \cup Workers
    BY DEF IndInv, TypeInv, Actors, Workers
  <1>1. CASE UNCHANGED vars
    BY <1>1 DEF vars
  <1>2. CASE StartThread \/ PushBackThrows
    <2>1. threads + 1 \in Workers
      BY <1>2 DEF StartThread, PushBackThrows, IndInv, TypeInv, Workers
    <2> QED
      BY <1>2, <2>1, <1>t DEF StartThread, PushBackThrows
  <1>3. CASE ThreadThrows \/ SetDone \/ DestroyMembers \/ Join
    <2>1. /\ pc'[Owner] \in {"destroy", "join", "gone"}
          /\ \A w \in Workers : pc'[w] = pc[w]
      BY <1>3, <1>t DEF ThreadThrows, SetDone, DestroyMembers, Join
    <2>2. done => done'
      BY <1>3 DEF ThreadThrows, SetDone, DestroyMembers, Join
    <2> QED
      BY <2>1, <2>2
  <1>7. CASE Constructed
    <2>1. pc[Owner] = "ctor" /\ done' = done /\ \A w \in Workers : pc'[w] = pc[w]
      BY <1>7, <1>t DEF Constructed
    <2> QED
      BY <2>1
  <1>4. ASSUME NEW c \in Clients,
               \/ Submit(c) \/ WaitLock(c) \/ WaitTest(c) \/ WaitSleep(c) \/ WaitReturn(c)
               \/ SpuriousWakeup(c)
        PROVE  DoneInv'
    BY <1>4, <1>t DEF Submit, FetchAdd, WaitLock, WaitTest, WaitSleep, WaitReturn, SpuriousWakeup
  <1>5. ASSUME NEW x \in Actors, Push(x) \/ PushThrows(x) PROVE DoneInv'
    BY <1>5, <1>t DEF Push, PushThrows, Submitted
  <1>6. ASSUME NEW w \in Workers,
               \/ While(w) \/ TryPop(w) \/ Yield(w) \/ Run(w) \/ FetchSub(w) \/ Lock(w)
               \/ NotifyAll(w) \/ Unlock(w)
        PROVE  DoneInv'
    BY <1>6, <1>t DEF While, TryPop, Yield, Run, FetchAdd, FetchSub, Lock, NotifyAll, Unlock
  <1> QED
    BY <1>t, <1>1, <1>2, <1>3, <1>4, <1>5, <1>6, <1>7
       DEF Next, OwnerStep, ClientStep, WorkerStep

\* Only the owner sets done, as the first thing it does in the destructor or in the
\* handler of the constructor; no worker ends before.
THEOREM WorkersStayUntilDone == Spec => []DoneInv
  <1>1. Init => DoneInv
    BY ClientsAssumption DEF Init, DoneInv, Actors, Workers
  <1> QED
    BY <1>1, Invariance, StepDone, PTL DEF Spec

\* The thread the constructor joins in the temporary was started.
TempInv == pc[Owner] = "join_temp" => threads > 0

LEMMA StepTemp == IndInv /\ TempInv /\ [Next]_vars => TempInv'
  <1> SUFFICES ASSUME IndInv, TempInv, [Next]_vars PROVE TempInv'
    OBVIOUS
  <1> USE ClientsAssumption DEF TempInv, Goto
  <1>t. /\ pc \in [Actors -> Points] /\ threads \in Nat
        /\ Owner \in Clients /\ Owner \in Actors /\ Owner \notin Workers
        /\ Clients \subseteq Actors /\ Workers \subseteq Actors
    BY BoundsAssumption DEF IndInv, TypeInv, Actors, Workers
  <1>1. CASE UNCHANGED vars
    BY <1>1 DEF vars, ownerVars
  <1>2. CASE StartThread \/ PushBackThrows
    BY <1>2, <1>t DEF StartThread, PushBackThrows
  <1>3. CASE ThreadThrows \/ Constructed \/ SetDone \/ DestroyMembers \/ Join
    BY <1>3, <1>t DEF ThreadThrows, Constructed, SetDone, DestroyMembers, Join, ownerVars
  <1>4. ASSUME NEW c \in Clients, ClientStep(c) \/ SpuriousWakeup(c) PROVE TempInv'
    <2>1. threads' = threads /\ (pc'[Owner] = "join_temp" => pc[Owner] = "join_temp")
      BY <1>4, <1>t DEF ClientStep, Submit, FetchAdd, Push, PushThrows, Submitted, WaitLock,
                        WaitTest, WaitSleep, WaitReturn, SpuriousWakeup, ownerVars
    <2> QED
      BY <2>1
  <1>5. ASSUME NEW w \in Workers, WorkerStep(w) PROVE TempInv'
    <2>1. threads' = threads /\ (pc'[Owner] = "join_temp" => pc[Owner] = "join_temp")
      BY <1>5, <1>t DEF WorkerStep, While, TryPop, Yield, Run, FetchAdd, Push, PushThrows,
                        Submitted, FetchSub, Lock, NotifyAll, Unlock, ownerVars
    <2> QED
      BY <2>1
  <1> QED
    BY <1>1, <1>2, <1>3, <1>4, <1>5 DEF Next, OwnerStep

LEMMA TempStep ==
  IndInv /\ DoneInv /\ TempInv /\ Next => (pc[Owner] = "join_temp" => pc'[Owner] = "join_temp")
  <1> SUFFICES ASSUME IndInv, DoneInv, TempInv, Next, pc[Owner] = "join_temp"
               PROVE  pc'[Owner] = "join_temp"
    OBVIOUS
  <1> USE ClientsAssumption DEF Goto
  <1>t. /\ pc \in [Actors -> Points]
        /\ Owner \in Clients /\ Owner \in Actors /\ Owner \notin Workers
        /\ Clients \subseteq Actors /\ Workers \subseteq Actors
    BY DEF IndInv, TypeInv, Actors, Workers
  <1>c. \A c \in Clients : pc[c] \in {"none", "join_temp"}
    BY DEF IndInv, OwnerInv
  <1>1. ~Join
    <2>1. threads \in Workers /\ pc[threads] # "exited"
      BY BoundsAssumption DEF IndInv, TypeInv, TempInv, DoneInv, Workers
    <2> QED
      BY <2>1 DEF Join
  <1>2. ~(StartThread \/ ThreadThrows \/ PushBackThrows \/ Constructed \/ SetDone \/ DestroyMembers)
    BY DEF StartThread, ThreadThrows, PushBackThrows, Constructed, SetDone, DestroyMembers
  <1>3. ASSUME NEW c \in Clients PROVE ~(ClientStep(c) \/ SpuriousWakeup(c))
    BY <1>c DEF ClientStep, Submit, Push, PushThrows, WaitLock, WaitTest, WaitSleep, WaitReturn,
                SpuriousWakeup
  <1>4. ASSUME NEW w \in Workers, WorkerStep(w) PROVE pc'[Owner] = "join_temp"
    BY <1>4, <1>t DEF WorkerStep, While, TryPop, Yield, Run, FetchAdd, Push, PushThrows,
                      Submitted, FetchSub, Lock, NotifyAll, Unlock
  <1> QED
    BY <1>1, <1>2, <1>3, <1>4 DEF Next, OwnerStep

\* A constructor whose vector cannot grow stays where it joins the thread that did not
\* get into the vector: that thread runs until done, which only this constructor's
\* handler would set.
THEOREM FailedConstructorHangs == Spec => UngrownVectorHangs
  <1>1. Init => TempInv
    BY ClientsAssumption DEF Init, TempInv, Actors
  <1>2. Spec => []TempInv
    BY <1>1, Invariance, StepTemp, PTL DEF Spec
  <1>3. IndInv /\ DoneInv /\ TempInv /\ [Next]_vars
          => [pc[Owner] = "join_temp" => pc'[Owner] = "join_temp"]_vars
    BY TempStep
  <1>4. Spec => [][pc[Owner] = "join_temp" => pc'[Owner] = "join_temp"]_vars
    BY <1>2, <1>3, Invariance, WorkersStayUntilDone, PTL DEF Spec
  <1> QED
    BY <1>4 DEF UngrownVectorHangs

-----------------------------------------------------------------------------
(***************************************************************************)
(* When no worker will bring the count to zero, it stays above zero.       *)
(***************************************************************************)

\* What was leaked, and the lack of workers, last.
LEMMA HopelessLasts == IndInv /\ TaskAccounting /\ Hopeless /\ [Next]_vars => Hopeless'
  <1> SUFFICES ASSUME IndInv, TaskAccounting, Hopeless, [Next]_vars PROVE Hopeless'
    OBVIOUS
  <1> USE DEF Goto, sharedVars, ownerVars, historyVars
  <1>t. /\ leaked \in Nat /\ threads \in Nat /\ m_taskCount \in Nat
        /\ thread_count \in Nat /\ threads <= thread_count
    <2>1. Len(work_queue) \in Nat
      BY DEF IndInv, TypeInv
    <2> QED
      BY <2>1, BoundsAssumption, SetsFinite DEF IndInv, TypeInv, TaskAccounting
  <1>k. ASSUME leaked' >= leaked, thread_count' = thread_count, leaked' \in Nat,
               m_taskCount' >= m_taskCount, m_taskCount' \in Nat
        PROVE  Hopeless'
    <2>1. leaked > 0 => leaked' > 0
      BY <1>t, <1>k
    <2>2. thread_count = 0 /\ m_taskCount > 0 => thread_count' = 0 /\ m_taskCount' > 0
      BY <1>t, <1>k
    <2> QED
      BY <2>1, <2>2 DEF Hopeless
  <1>1. CASE UNCHANGED vars \/ OwnerStep
    <2>1. leaked' = leaked /\ thread_count' = thread_count /\ m_taskCount' = m_taskCount
      BY <1>1 DEF vars, OwnerStep, StartThread, ThreadThrows, PushBackThrows, Constructed,
                  SetDone, DestroyMembers, Join
    <2> QED
      BY <2>1 DEF Hopeless
  <1>2. ASSUME NEW c \in Clients, ClientStep(c) \/ SpuriousWakeup(c) PROVE Hopeless'
    BY <1>2, <1>t, <1>k DEF ClientStep, Submit, FetchAdd, Push, PushThrows, WaitLock, WaitTest,
                            WaitSleep, WaitReturn, SpuriousWakeup
  \* A worker that runs was started, so without any the count is not lowered.
  <1>3. ASSUME NEW w \in Workers, FetchSub(w) PROVE Hopeless'
    <2>1. leaked' = leaked /\ pc[w] = "fetch_sub" /\ w > 0
      BY <1>3 DEF FetchSub, Workers
    <2>2. w <= threads
      BY <2>1 DEF IndInv, WorkerInv
    <2>3. thread_count # 0
      BY <1>t, <2>1, <2>2, BoundsAssumption DEF Workers
    <2> QED
      BY <1>t, <2>1, <2>3 DEF Hopeless
  <1>4. ASSUME NEW w \in Workers,
               \/ While(w) \/ TryPop(w) \/ Yield(w) \/ Run(w) \/ Push(w) \/ PushThrows(w)
               \/ Lock(w) \/ NotifyAll(w) \/ Unlock(w)
        PROVE  Hopeless'
    BY <1>4, <1>t, <1>k DEF While, TryPop, Yield, Run, FetchAdd, Push, PushThrows, Lock,
                            NotifyAll, Unlock
  <1> QED
    BY <1>1, <1>2, <1>3, <1>4 DEF Next, WorkerStep

LEMMA HopelessCount == IndInv /\ TaskAccounting /\ Hopeless => m_taskCount # 0
  <1> SUFFICES ASSUME IndInv, TaskAccounting, leaked > 0 PROVE m_taskCount # 0
    BY DEF Hopeless
  <1>1. Len(work_queue) \in Nat /\ leaked \in Nat
    BY DEF IndInv, TypeInv
  <1> QED
    BY <1>1, SetsFinite DEF TaskAccounting

\* After a push that threw, or with a task and no worker, no wait_all that has
\* not yet tested the count returns, now or later.
THEOREM HopelessIsForever == Spec => HopelessWaitsHang
  <1> DEFINE A == Hopeless => /\ Hopeless'
                              /\ \A c \in Clients : pc'[c] = "return" => pc[c] = "return"
  <1>1. IndInv /\ TaskAccounting /\ [Next]_vars => A
    <2> SUFFICES ASSUME IndInv, TaskAccounting, [Next]_vars, Hopeless PROVE A
      OBVIOUS
    <2>1. Hopeless'
      BY HopelessLasts
    <2>2. ASSUME NEW c \in Clients, pc'[c] = "return" PROVE pc[c] = "return"
      BY <2>2, HopelessCount, OnlyTestReturns
    <2> QED
      BY <2>1, <2>2
  <1>2. IndInv /\ TaskAccounting /\ [Next]_vars => [A]_vars
    BY <1>1
  <1> HIDE DEF A
  <1>3. Spec => [][A]_vars
    BY <1>2, Invariance, CountIsExact, PTL DEF Spec
  <1> QED
    BY <1>3 DEF HopelessWaitsHang, A

\* The worker inside the critical section can step; if none is, the others can.
LEMMA ShutdownCanStep == IndInv /\ DoneInv => ShutdownNotStuck
  <1> SUFFICES ASSUME IndInv, DoneInv, done, pc[Owner] # "gone",
                      \A w \in Workers : ~WorkerCanStep(w)
               PROVE  OwnerCanFinish
    BY DEF ShutdownNotStuck
  <1>1. pc[Owner] \in {"destroy", "join"}
    BY DEF DoneInv
  <1>2. mutex = Nobody
    <2>1. mutex \in Actors => mutex \in Workers
      BY <1>1 DEF IndInv, TypeInv, MutexInv, OwnerInv, Actors, Holding
    <2>2. mutex \notin Workers
      BY DEF IndInv, MutexInv, WorkerInv, WorkerPoints, WorkerCanStep, Holding, Actors
    <2> QED
      BY <2>1, <2>2 DEF IndInv, TypeInv
  <1>3. \A w \in Workers : pc[w] \in {"none", "exited"}
    BY <1>2 DEF IndInv, WorkerInv, WorkerPoints, WorkerCanStep
  <1>4. \A w \in 1..threads : w \in Workers /\ pc[w] # "none"
    BY BoundsAssumption DEF IndInv, TypeInv, WorkerInv, Workers
  <1> QED
    BY <1>1, <1>3, <1>4 DEF OwnerCanFinish

LEMMA RankOf ==
  /\ Rank["try_pop"] = 8 /\ Rank["run"] = 7 /\ Rank["push"] = 6 /\ Rank["fetch_sub"] = 5
  /\ Rank["lock"] = 4 /\ Rank["notify_all"] = 3 /\ Rank["unlock"] = 2 /\ Rank["destroy"] = 2
  /\ Rank["while"] = 1 /\ Rank["join"] = 1 /\ Rank["exited"] = 0 /\ Rank["gone"] = 0
  BY DEF Rank, Points, Holding

LEMMA ShutdownSteps == IndInv /\ DoneInv /\ Next => ShutdownStep
  <1> SUFFICES ASSUME IndInv, DoneInv, Next, done PROVE ShutdownStep
    BY DEF ShutdownStep
  <1> USE ClientsAssumption, RankOf DEF Goto
  <1>t. /\ pc \in [Actors -> Points]
        /\ Owner \in Clients /\ Clients \subseteq Actors /\ Workers \subseteq Actors
        /\ Workers \cap Clients = {} /\ Actors = Clients \cup Workers
    BY DEF IndInv, TypeInv, Actors, Workers
  <1>o. /\ pc[Owner] \in {"destroy", "join", "gone"}
        /\ \A c \in Clients \ {Owner} : pc[c] = "none" \/ (pc[c] = "idle" /\ todo[c] = <<>>)
    BY DEF IndInv, OwnerInv, DoneInv
  <1>m. \A x \in Workers \cup {Owner} : \A p :
          pc' = [pc EXCEPT ![x] = p] /\ Rank[p] < Rank[pc[x]] => ShutdownStep
    BY <1>t DEF ShutdownStep
  <1>1. CASE DestroyMembers \/ Join
    <2>1. \/ pc[Owner] = "destroy" /\ pc' = [pc EXCEPT ![Owner] = "join"]
          \/ pc[Owner] = "join" /\ pc' = [pc EXCEPT ![Owner] = "gone"]
      BY <1>1, <1>o DEF DestroyMembers, Join
    <2> QED
      BY <2>1, <1>t, <1>m
  <1>2. CASE StartThread \/ ThreadThrows \/ PushBackThrows \/ Constructed \/ SetDone
    BY <1>2, <1>o, <1>t DEF StartThread, ThreadThrows, PushBackThrows, Constructed, SetDone
  <1>3. ASSUME NEW c \in Clients, ClientStep(c) \/ SpuriousWakeup(c) PROVE FALSE
    BY <1>3, <1>o DEF ClientStep, Submit, Push, PushThrows, WaitLock, WaitTest, WaitSleep, WaitReturn,
                      SpuriousWakeup
  <1>4. ASSUME NEW w \in Workers, WorkerStep(w) PROVE ShutdownStep
    <2>1. CASE \/ While(w) \/ TryPop(w) \/ Yield(w) \/ Run(w) \/ FetchSub(w) \/ Lock(w)
               \/ Unlock(w)
      <3>1. CASE While(w)
        <4>1. pc[w] = "while" /\ pc' = [pc EXCEPT ![w] = "exited"]
          BY <3>1 DEF While
        <4>2. Rank["exited"] < Rank[pc[w]] /\ w \in Workers \cup {Owner}
          BY <4>1
        <4> QED
          BY <4>1, <4>2, <1>m
      <3>2. CASE TryPop(w) \/ Yield(w)
        <4>1. /\ pc[w] = "try_pop"
              /\ \/ pc' = [pc EXCEPT ![w] = "run"]
                 \/ pc' = [pc EXCEPT ![w] = "while"]
          BY <3>2 DEF TryPop, Yield
        <4> QED
          BY <4>1, <1>m
      <3>3. CASE Run(w)
        <4>1. /\ pc[w] = "run"
              /\ \/ pc' = [pc EXCEPT ![w] = "push"]
                 \/ pc' = [pc EXCEPT ![w] = "fetch_sub"]
          BY <3>3 DEF Run, FetchAdd
        <4> QED
          BY <4>1, <1>m
      <3>4. CASE FetchSub(w)
        <4>1. /\ pc[w] = "fetch_sub"
              /\ \/ pc' = [pc EXCEPT ![w] = "lock"]
                 \/ pc' = [pc EXCEPT ![w] = "while"]
          BY <3>4 DEF FetchSub
        <4> QED
          BY <4>1, <1>m
      <3>5. CASE Lock(w)
        <4>1. pc[w] = "lock" /\ pc' = [pc EXCEPT ![w] = "notify_all"]
          BY <3>5 DEF Lock
        <4>2. Rank["notify_all"] < Rank[pc[w]] /\ w \in Workers \cup {Owner}
          BY <4>1
        <4> QED
          BY <4>1, <4>2, <1>m
      <3>6. CASE Unlock(w)
        <4>1. pc[w] = "unlock" /\ pc' = [pc EXCEPT ![w] = "while"]
          BY <3>6 DEF Unlock
        <4>2. Rank["while"] < Rank[pc[w]] /\ w \in Workers \cup {Owner}
          BY <4>1
        <4> QED
          BY <4>1, <4>2, <1>m
      <3> QED
        BY <2>1, <3>1, <3>2, <3>3, <3>4, <3>5, <3>6
    <2>2. CASE Push(w) \/ PushThrows(w)
      <3>1. pc[w] = "push" /\ pc' = [pc EXCEPT ![w] = "fetch_sub"]
        BY <2>2, <1>t DEF Push, PushThrows, Submitted
      <3> QED
        BY <3>1, <1>t DEF ShutdownStep
    <2>3. CASE NotifyAll(w)
      <3>1. \A y \in Actors : pc[y] # "asleep"
        BY <1>t, <1>o DEF IndInv, WorkerInv, WorkerPoints
      <3>2. pc[w] = "notify_all" /\ \A y \in Actors : pc'[y] = IF y = w THEN "unlock" ELSE pc[y]
        BY <2>3, <3>1 DEF NotifyAll
      <3> QED
        BY <3>2, <1>t DEF ShutdownStep
    <2> QED
      BY <1>4, <2>1, <2>2, <2>3 DEF WorkerStep
  <1> QED
    BY <1>1, <1>2, <1>3, <1>4 DEF Next, OwnerStep

\* A pool that is shutting down can always go on until it is gone: no worker waits
\* for the mutex of a thread that will not release it.
THEOREM ShutdownNeverStuck == Spec => []ShutdownNotStuck
  BY ShutdownCanStep, Invariance, WorkersStayUntilDone, PTL

\* Every step after done is set brings a thread closer to its end, so that there are
\* at most eight per worker and two of the owner.
THEOREM ShutdownIsFinite == Spec => ShutdownDescends
  <1>1. IndInv /\ DoneInv /\ [Next]_vars => [ShutdownStep]_vars
    BY ShutdownSteps
  <1>2. Spec => [][ShutdownStep]_vars
    BY <1>1, Invariance, WorkersStayUntilDone, PTL DEF Spec
  <1> QED
    BY <1>2 DEF ShutdownDescends

\* With a task counted and none leaked, the task is being submitted, with a worker, or
\* in the queue, and the first worker is in its loop; with none, the notification is
\* owed to the sleeper.
THEOREM WaitingIsNeverStuck == Spec => []WaitNotStuck
  <1>1. IndInv /\ DoneInv /\ TaskAccounting /\ NoLostCompletion => WaitNotStuck
    <2> SUFFICES ASSUME IndInv, DoneInv, TaskAccounting, NoLostCompletion, leaked = 0, threads > 0,
                        NEW c \in Clients, InWaitAll(c), \A x \in Actors : ~CanWork(x)
                 PROVE  FALSE
      BY DEF WaitNotStuck
    <2>t. Workers \subseteq Actors /\ Clients \subseteq Actors
      BY DEF Actors
    <2>1. mutex = Nobody
      BY DEF IndInv, TypeInv, MutexInv, Holding, CanWork
    <2>2. pc[c] = "asleep"
      BY <2>t, <2>1 DEF InWaitAll, CanWork
    <2>3. \A w \in Workers : pc[w] \notin {"lock", "notify_all", "run", "push", "fetch_sub", "unlock"}
      BY <2>t, <2>1 DEF CanWork
    <2>4. m_taskCount # 0
      BY <2>2, <2>3 DEF NoLostCompletion, Asleep
    <2>5. Submitting = {}
      BY DEF Submitting, CanWork
    <2>6. Busy = {}
      BY <2>3 DEF Busy, IndInv, WorkerInv
    <2>7. work_queue # <<>>
      <3>1. Cardinality(Submitting) = 0 /\ Cardinality(Busy) = 0
        BY <2>5, <2>6, FS_EmptySet
      <3> QED
        BY <2>4, <3>1 DEF TaskAccounting
    <2>8. ~done
      BY <2>2, ClientsAssumption DEF DoneInv, IndInv, OwnerInv
    <2>9. 1 \in Workers /\ pc[1] # "none"
      BY BoundsAssumption DEF Workers, IndInv, TypeInv, WorkerInv
    <2>10. pc[1] \in {"while", "try_pop"}
      BY <2>3, <2>8, <2>9 DEF DoneInv, IndInv, WorkerInv, WorkerPoints
    <2> QED
      BY <2>t, <2>7, <2>9, <2>10 DEF CanWork
  <1> QED
    BY <1>1, Invariance, WorkersStayUntilDone, CountIsExact, NoCompletionIsLost, PTL

-----------------------------------------------------------------------------
(***************************************************************************)
(* The pool implements TaskGroup.  A task is in one place at a time: being *)
(* submitted, in the queue once, with one worker, or over.                 *)
(***************************************************************************)
RunBy == {task[w] : w \in Busy}

OnceInv ==
  /\ \A i, j \in 1..Len(work_queue) : work_queue[i] = work_queue[j] => i = j
  /\ \A v, w \in Busy : task[v] = task[w] => v = w
  /\ \A i \in 1..Len(work_queue) : work_queue[i] \notin over \cup RunBy
  /\ \A w \in Busy : task[w] \notin over

\* A task that was submitted: its client is past the call, or its parent past
\* its own submission.
Known(k) ==
  IF k.kind = "child"
    THEN ParentOf(k) \in over \/ \E w \in Busy : task[w] = ParentOf(k) /\ pc[w] = "fetch_sub"
    ELSE Len(todo[k.by]) < k.at

NewInv ==
  /\ \A k \in Queued \cup RunBy \cup over : Known(k)
  /\ \A c \in Clients : pc[c] = "push" => f[c].kind # "child" /\ f[c].at = Len(todo[c])
  /\ \A w \in Workers :
       pc[w] = "push" => task[w].kind = "spawner" /\ f[w] = [task[w] EXCEPT !.kind = "child"]

LEMMA ChildOf ==
  ASSUME NEW k \in Tasks, k.kind = "spawner"
  PROVE  LET c == [k EXCEPT !.kind = "child"]
         IN  c \in Tasks /\ c.kind = "child" /\ ParentOf(c) = k
  BY DEF Tasks, ParentOf

LEMMA TaskTypes ==
  ASSUME IndInv
  PROVE  /\ Queued \subseteq Tasks /\ over \subseteq Tasks
         /\ \A w \in Busy : w \in Workers /\ task[w] \in Tasks
         /\ \A x \in Submitting : x \in Actors /\ f[x] \in Tasks
         /\ \A w \in Workers : pc[w] = "push" => w \in Busy
  BY DEF IndInv, TypeInv, ClientInv, WorkerInv, Queued, Busy, Submitting, Actors

\* What is being submitted is in no other place, and by one thread.
LEMMA SubmittedOnce ==
  ASSUME IndInv, OnceInv, NewInv, NEW x \in Submitting
  PROVE  /\ f[x] \in Tasks /\ f[x] \notin Queued \cup RunBy \cup over
         /\ \A y \in Submitting : f[y] = f[x] => y = x
  <1>1. /\ f[x] \in Tasks /\ pc[x] = "push" /\ x \in Clients \cup Workers
        /\ \A y \in Submitting : f[y] \in Tasks /\ pc[y] = "push" /\ y \in Clients \cup Workers
    BY TaskTypes DEF Submitting, Actors
  <1>2. CASE x \in Clients
    <2>1. /\ f[x].kind # "child" /\ f[x].at = Len(todo[x]) /\ f[x].by = x
          /\ Len(todo[x]) \in Nat
      BY <1>1, <1>2 DEF NewInv, IndInv, TypeInv, ClientInv
    <2>2. ~Known(f[x])
      BY <2>1 DEF Known
    <2>3. \A y \in Submitting : f[y] = f[x] => y = x
      <3> TAKE y \in Submitting
      <3>1. CASE y \in Clients
        BY <1>1, <2>1, <3>1 DEF IndInv, ClientInv
      <3>2. CASE y \in Workers
        <4>1. task[y] \in Tasks /\ task[y].kind = "spawner"
              /\ f[y] = [task[y] EXCEPT !.kind = "child"]
          BY <1>1, <3>2, TaskTypes DEF NewInv
        <4>2. f[y].kind = "child"
          BY <4>1, ChildOf
        <4> QED
          BY <2>1, <4>2
      <3> QED
        BY <1>1, <3>1, <3>2
    <2> QED
      BY <1>1, <2>2, <2>3 DEF NewInv
  <1>3. CASE x \in Workers
    <2>1. /\ x \in Busy /\ task[x] \in Tasks /\ task[x].kind = "spawner"
          /\ f[x] = [task[x] EXCEPT !.kind = "child"]
      BY <1>1, <1>3, TaskTypes DEF NewInv
    <2>2. f[x].kind = "child" /\ ParentOf(f[x]) = task[x]
      BY <2>1, ChildOf
    <2>3. ~Known(f[x])
      BY <1>1, <2>1, <2>2 DEF Known, OnceInv
    <2>4. \A y \in Submitting : f[y] = f[x] => y = x
      <3> TAKE y \in Submitting
      <3>1. CASE y \in Clients
        BY <1>1, <2>2, <3>1 DEF NewInv
      <3>2. CASE y \in Workers
        <4>1. /\ y \in Busy /\ task[y] \in Tasks /\ task[y].kind = "spawner"
              /\ f[y] = [task[y] EXCEPT !.kind = "child"]
          BY <1>1, <3>2, TaskTypes DEF NewInv
        <4>2. ParentOf(f[y]) = task[y]
          BY <4>1, ChildOf
        <4> QED
          BY <2>1, <2>2, <4>1, <4>2 DEF OnceInv
      <3> QED
        BY <1>1, <3>1, <3>2
    <2> QED
      BY <1>1, <2>3, <2>4 DEF NewInv
  <1> QED
    BY <1>1, <1>2, <1>3

LEMMA InitOnce == Init => OnceInv /\ NewInv
  BY ClientsAssumption DEF Init, OnceInv, NewInv, Busy, RunBy, Queued, Actors, Workers

\* The steps that move no task.
LEMMA OnceKept ==
  ASSUME OnceInv, work_queue' = work_queue, task' = task, over' = over
  PROVE  OnceInv'
  BY DEF OnceInv, Busy, RunBy

LEMMA NewKept ==
  ASSUME IndInv, NewInv, work_queue' = work_queue, task' = task, over' = over,
         \A c \in Clients : Len(todo'[c]) \in Nat /\ Len(todo'[c]) <= Len(todo[c]),
         \A c \in Clients :
           pc'[c] = "push" => pc[c] = "push" /\ f'[c] = f[c] /\ todo'[c] = todo[c],
         \A w \in Workers : /\ pc[w] = "fetch_sub" => pc'[w] = "fetch_sub"
                            /\ pc'[w] = "push" => pc[w] = "push" /\ f'[w] = f[w]
  PROVE  NewInv'
  <1>1. Queued' = Queued /\ RunBy' = RunBy /\ Busy' = Busy
    BY DEF Queued, RunBy, Busy
  <1>2. ASSUME NEW k \in Queued \cup RunBy \cup over PROVE Known(k)'
    <2>1. Known(k) /\ k \in Tasks
      BY TaskTypes DEF NewInv, RunBy
    <2>2. k.at \in Nat /\ k.by \in Clients
      BY <2>1, BoundsAssumption DEF Tasks
    <2>3. \A w \in Busy : w \in Workers
      BY DEF Busy
    <2>4. Len(todo[k.by]) \in Nat
      BY <2>2 DEF IndInv, TypeInv
    <2>5. CASE k.kind = "child"
      <3>1. ParentOf(k) \in over \/ \E w \in Busy : task[w] = ParentOf(k) /\ pc[w] = "fetch_sub"
        BY <2>1, <2>5 DEF Known
      <3> QED
        BY <1>1, <2>3, <2>5, <3>1 DEF Known, ParentOf
    <2>6. CASE k.kind # "child"
      BY <2>1, <2>2, <2>4, <2>6 DEF Known
    <2> QED
      BY <2>5, <2>6
  <1>3. ASSUME NEW c \in Clients, pc'[c] = "push"
        PROVE  f'[c].kind # "child" /\ f'[c].at = Len(todo'[c])
    BY <1>3 DEF NewInv
  <1>4. ASSUME NEW w \in Workers, pc'[w] = "push"
        PROVE  task'[w].kind = "spawner" /\ f'[w] = [task'[w] EXCEPT !.kind = "child"]
    <2>1. /\ pc[w] = "push" /\ f'[w] = f[w] /\ task'[w] = task[w]
      BY <1>4
    <2>2. task[w].kind = "spawner" /\ f[w] = [task[w] EXCEPT !.kind = "child"]
      BY <2>1 DEF NewInv
    <2> QED
      BY <2>1, <2>2
  <1>5. \A k \in (Queued \cup RunBy \cup over)' : Known(k)'
    BY <1>1, <1>2
  <1> QED
    BY <1>3, <1>4, <1>5 DEF NewInv

LEMMA StepOnce ==
  ASSUME IndInv, OnceInv, NewInv, [Next]_vars
  PROVE  OnceInv' /\ NewInv'
  <1> USE ClientsAssumption DEF Goto, sharedVars, ownerVars, historyVars
  <1>t. /\ pc \in [Actors -> Points] /\ task \in [Workers -> Tasks \cup {NoTask}]
        /\ f \in [Actors -> Tasks \cup {NoTask}] /\ todo \in [Clients -> Seq(Calls)]
        /\ work_queue \in Seq(Tasks) /\ over \subseteq Tasks
        /\ Owner \in Clients /\ Clients \subseteq Actors /\ Workers \subseteq Actors
        /\ Workers \cap Clients = {} /\ Actors = Clients \cup Workers
    BY BoundsAssumption DEF IndInv, TypeInv, Actors, Workers
  <1>l. \A c \in Clients : Len(todo[c]) \in Nat
    BY <1>t
  <1>1. CASE UNCHANGED vars
    <2>1. \A c \in Clients : Len(todo'[c]) \in Nat /\ Len(todo'[c]) <= Len(todo[c])
      BY <1>1, <1>l DEF vars
    <2> QED
      BY <1>1, <2>1, OnceKept, NewKept DEF vars
  <1>2. CASE OwnerStep
    <2>1. /\ work_queue' = work_queue /\ task' = task /\ over' = over /\ f' = f /\ todo' = todo
      BY <1>2 DEF OwnerStep, StartThread, ThreadThrows, PushBackThrows, Constructed, SetDone,
                  DestroyMembers, Join
    <2>2. \A x \in Actors : /\ pc'[x] = "push" => pc[x] = "push"
                            /\ x \in Workers /\ pc[x] = "fetch_sub" => pc'[x] = "fetch_sub"
      <3>1. CASE StartThread \/ PushBackThrows
        <4>1. threads + 1 \in Workers /\ pc[threads + 1] = "none"
          BY <3>1, BoundsAssumption DEF StartThread, PushBackThrows, IndInv, TypeInv, WorkerInv,
                                        Workers
        <4> QED
          BY <3>1, <4>1, <1>t DEF StartThread, PushBackThrows
      <3>2. CASE ThreadThrows \/ Constructed \/ SetDone \/ DestroyMembers \/ Join
        BY <3>2, <1>t DEF ThreadThrows, Constructed, SetDone, DestroyMembers, Join
      <3> QED
        BY <1>2, <3>1, <3>2 DEF OwnerStep
    <2> QED
      BY <1>l, <1>t, <2>1, <2>2, OnceKept, NewKept
  <1>3. ASSUME NEW c \in Clients,
               \/ WaitLock(c) \/ WaitTest(c) \/ WaitSleep(c) \/ WaitReturn(c)
               \/ SpuriousWakeup(c)
        PROVE  OnceInv' /\ NewInv'
    <2>1. /\ work_queue' = work_queue /\ task' = task /\ over' = over /\ f' = f
      BY <1>3 DEF WaitLock, WaitTest, WaitSleep, WaitReturn, SpuriousWakeup
    <2>2. /\ \A x \in Actors \ {c} : pc'[x] = pc[x]
          /\ pc'[c] # "push"
          /\ \A d \in Clients \ {c} : todo'[d] = todo[d]
      BY <1>3, <1>t DEF WaitLock, WaitTest, WaitSleep, WaitReturn, SpuriousWakeup
    <2>3. Len(todo'[c]) \in Nat /\ Len(todo'[c]) <= Len(todo[c])
      <3>1. CASE todo' = todo
        BY <1>l, <3>1
      <3>2. CASE WaitReturn(c)
        <4>1. todo[c] # <<>> /\ todo'[c] = Tail(todo[c]) /\ todo[c] \in Seq(Calls)
          BY <1>t, <3>2 DEF WaitReturn, IndInv, ClientInv, CallPoints
        <4> QED
          BY <4>1
      <3> QED
        BY <1>3, <3>1, <3>2 DEF WaitLock, WaitTest, WaitSleep, SpuriousWakeup
    <2>4. \A d \in Clients : Len(todo'[d]) \in Nat /\ Len(todo'[d]) <= Len(todo[d])
      BY <1>l, <2>2, <2>3
    <2>5. \A d \in Clients : pc'[d] = "push" => pc[d] = "push" /\ todo'[d] = todo[d]
      BY <1>t, <2>2
    <2>6. \A w \in Workers : pc'[w] = pc[w]
      BY <1>t, <2>2
    <2> QED
      BY <2>1, <2>4, <2>5, <2>6, OnceKept, NewKept
  <1>4. ASSUME NEW w \in Workers, While(w) \/ Yield(w) \/ Lock(w) \/ NotifyAll(w) \/ Unlock(w)
        PROVE  OnceInv' /\ NewInv'
    <2>1. /\ work_queue' = work_queue /\ task' = task /\ over' = over /\ f' = f /\ todo' = todo
      BY <1>4 DEF While, Yield, Lock, NotifyAll, Unlock
    <2>2. \A x \in Actors : /\ pc'[x] = "push" => pc[x] = "push"
                            /\ x \in Workers /\ pc[x] = "fetch_sub" => pc'[x] = "fetch_sub"
      BY <1>4, <1>t DEF While, Yield, Lock, NotifyAll, Unlock
    <2> QED
      BY <1>l, <1>t, <2>1, <2>2, OnceKept, NewKept
  <1>5. ASSUME NEW c \in Clients, Submit(c) PROVE OnceInv' /\ NewInv'
    <2>1. /\ work_queue' = work_queue /\ task' = task /\ over' = over /\ todo' = todo
          /\ pc' = [pc EXCEPT ![c] = "push"]
          /\ f' = [f EXCEPT ![c] = [by |-> c, at |-> Len(todo[c]), kind |-> Head(todo[c])]]
          /\ todo[c] # <<>> /\ Head(todo[c]) # "wait_all"
      BY <1>5 DEF Submit, FetchAdd
    <2>2. Head(todo[c]) \in Calls
      BY <1>t, <2>1
    <2>3. f'[c].kind # "child" /\ f'[c].at = Len(todo'[c])
      BY <1>t, <2>1, <2>2 DEF Calls
    <2>4. Queued' = Queued /\ RunBy' = RunBy /\ Busy' = Busy
      BY <2>1 DEF Queued, RunBy, Busy
    <2>5. \A k : Known(k) => Known(k)'
      BY <1>t, <2>1, <2>4 DEF Known, Busy
    <2>6. \A w \in Workers : pc'[w] = pc[w] /\ f'[w] = f[w]
      BY <1>t, <2>1
    <2>7. \A d \in Clients \ {c} : pc'[d] = pc[d] /\ f'[d] = f[d]
      BY <1>t, <2>1
    <2> QED
      BY <2>1, <2>3, <2>4, <2>5, <2>6, <2>7, OnceKept DEF NewInv
  <1>6. ASSUME NEW w \in Workers, Run(w) PROVE OnceInv' /\ NewInv'
    <2>1. /\ work_queue' = work_queue /\ task' = task /\ over' = over /\ todo' = todo
          /\ pc[w] = "run" /\ \A x \in Actors \ {w} : pc'[x] = pc[x] /\ f'[x] = f[x]
          /\ \/ pc'[w] = "fetch_sub"
             \/ /\ pc'[w] = "push" /\ task[w].kind = "spawner"
                /\ f'[w] = [task[w] EXCEPT !.kind = "child"]
      BY <1>6, <1>t DEF Run, FetchAdd
    <2>2. Queued' = Queued /\ RunBy' = RunBy /\ Busy' = Busy
      BY <2>1 DEF Queued, RunBy, Busy
    <2>3. \A k : Known(k) => Known(k)'
      BY <1>t, <2>1, <2>2 DEF Known, Busy
    <2> QED
      BY <1>t, <2>1, <2>2, <2>3, OnceKept DEF NewInv
  <1>7. ASSUME NEW x \in Actors, Push(x) \/ PushThrows(x) PROVE OnceInv' /\ NewInv'
    <2>1. x \in Submitting /\ pc[x] = "push" /\ task' = task /\ Busy' = Busy /\ RunBy' = RunBy
      BY <1>7, <1>t DEF Push, PushThrows, Submitting, Busy, RunBy
    <2>2. f[x] \in Tasks /\ f[x] \notin Queued \cup RunBy \cup over
      BY <2>1, SubmittedOnce
    <2>3. \/ work_queue' = Append(work_queue, f[x]) /\ over' = over
          \/ work_queue' = work_queue /\ over' = over \cup {f[x]}
      BY <1>7 DEF Push, PushThrows
    <2>4. OnceInv'
      <3>1. CASE work_queue' = Append(work_queue, f[x]) /\ over' = over
        <4>1. /\ Len(work_queue') = Len(work_queue) + 1 /\ Len(work_queue) \in Nat
              /\ \A i \in 1..Len(work_queue) : work_queue'[i] = work_queue[i] /\ work_queue[i] # f[x]
              /\ work_queue'[Len(work_queue) + 1] = f[x]
          BY <1>t, <2>2, <3>1 DEF Queued
        <4>2. \A i \in 1..Len(work_queue') : i \in 1..Len(work_queue) \/ i = Len(work_queue) + 1
          BY <4>1
        <4>3. \A i, j \in 1..Len(work_queue') : work_queue'[i] = work_queue'[j] => i = j
          BY <4>1, <4>2 DEF OnceInv
        <4>4. \A i \in 1..Len(work_queue') : work_queue'[i] \notin over' \cup RunBy'
          BY <2>1, <2>2, <3>1, <4>1, <4>2 DEF OnceInv
        <4> QED
          BY <2>1, <3>1, <4>3, <4>4 DEF OnceInv
      <3>2. CASE work_queue' = work_queue /\ over' = over \cup {f[x]}
        BY <2>1, <2>2, <3>2 DEF OnceInv, Queued, RunBy
      <3> QED
        BY <2>3, <3>1, <3>2
    <2>5. /\ \A y \in Actors \ {x} : pc'[y] = pc[y] /\ f'[y] = f[y]
          /\ pc'[x] # "push"
          /\ x \in Workers => pc'[x] = "fetch_sub" /\ todo' = todo
      BY <1>7, <1>t DEF Push, PushThrows, Submitted
    <2>6. \A c \in Clients : /\ Len(todo'[c]) \in Nat
                             /\ c # x => todo'[c] = todo[c]
                             /\ c = x => Len(todo'[c]) < Len(todo[c])
      <3>1. CASE x \in Clients
        <4>1. todo[x] # <<>> /\ todo' = [todo EXCEPT ![x] = Tail(todo[x])]
          BY <1>7, <2>1, <3>1 DEF Push, PushThrows, Submitted, IndInv, ClientInv, CallPoints
        <4>2. Len(Tail(todo[x])) = Len(todo[x]) - 1 /\ Len(todo[x]) \in Nat \ {0}
          BY <1>t, <3>1, <4>1
        <4> QED
          BY <1>t, <1>l, <4>1, <4>2
      <3>2. CASE x \notin Clients
        BY <1>l, <1>t, <2>5, <3>2
      <3> QED
        BY <3>1, <3>2
    <2>7. ASSUME NEW k \in Tasks, Known(k) PROVE Known(k)'
      <3>1. CASE k.kind = "child"
        <4>1. ParentOf(k) \in over \/ \E w \in Busy : task[w] = ParentOf(k) /\ pc[w] = "fetch_sub"
          BY <2>7, <3>1 DEF Known
        <4>2. \A w \in Busy : pc[w] = "fetch_sub" => pc'[w] = "fetch_sub"
          BY <1>t, <2>1, <2>5 DEF Busy
        <4> QED
          BY <2>1, <2>3, <3>1, <4>1, <4>2 DEF Known
      <3>2. CASE k.kind # "child"
        <4>1. k.by \in Clients /\ k.at \in Nat
          BY BoundsAssumption DEF Tasks
        <4> QED
          <5>1. Len(todo[k.by]) < k.at
            BY <2>7, <3>2 DEF Known
          <5>2. Len(todo'[k.by]) < k.at
            BY <1>l, <2>6, <4>1, <5>1
          <5> QED
            BY <3>2, <5>2 DEF Known
      <3> QED
        BY <3>1, <3>2
    <2>k. PICK k : k = f[x]
      OBVIOUS
    <2>8. Known(k)'
      <3>1. CASE x \in Clients
        <4>1. f[x].kind # "child" /\ f[x].at = Len(todo[x]) /\ f[x].by = x
          BY <2>1, <3>1 DEF NewInv, IndInv, ClientInv
        <4> QED
          <5>1. Len(todo'[x]) < k.at /\ k.by = x /\ k.kind # "child"
            BY <1>l, <2>6, <2>k, <3>1, <4>1
          <5> QED
            BY <5>1 DEF Known
      <3>2. CASE x \in Workers
        <4>1. /\ x \in Busy /\ task[x] \in Tasks /\ task[x].kind = "spawner"
              /\ f[x] = [task[x] EXCEPT !.kind = "child"]
          BY <2>1, <3>2, TaskTypes DEF NewInv
        <4>2. f[x].kind = "child" /\ ParentOf(f[x]) = task[x]
          BY <4>1, ChildOf
        <4> QED
          <5>1. k.kind = "child" /\ ParentOf(k) = task[x]
            BY <2>k, <4>2
          <5> QED
            BY <2>1, <2>5, <3>2, <4>1, <5>1 DEF Known, ParentOf
      <3> QED
        BY <1>t, <3>1, <3>2
    <2>9. Queued' \cup RunBy' \cup over' = Queued \cup RunBy \cup over \cup {f[x]}
      <3>1. CASE work_queue' = Append(work_queue, f[x]) /\ over' = over
        <4>1. /\ Len(work_queue') = Len(work_queue) + 1 /\ Len(work_queue) \in Nat
              /\ \A i \in 1..Len(work_queue) : work_queue'[i] = work_queue[i]
              /\ work_queue'[Len(work_queue) + 1] = f[x]
          BY <1>t, <2>2, <3>1
        <4>2. Queued' = Queued \cup {f[x]}
          BY <4>1 DEF Queued
        <4> QED
          BY <2>1, <3>1, <4>2
      <3>2. CASE work_queue' = work_queue /\ over' = over \cup {f[x]}
        BY <2>1, <3>2 DEF Queued
      <3> QED
        BY <2>3, <3>1, <3>2
    <2>10. Queued \cup RunBy \cup over \subseteq Tasks
      BY TaskTypes DEF RunBy
    <2>11. \A j \in (Queued \cup RunBy \cup over)' : Known(j)'
      BY <2>7, <2>8, <2>9, <2>10, <2>k DEF NewInv
    <2>12. /\ \A c \in Clients : pc'[c] = "push" => f'[c].kind # "child" /\ f'[c].at = Len(todo'[c])
           /\ \A w \in Workers : pc'[w] = "push" =>
                task'[w].kind = "spawner" /\ f'[w] = [task'[w] EXCEPT !.kind = "child"]
      <3>1. \A y \in Actors : pc'[y] = "push" => y # x /\ pc[y] = "push" /\ f'[y] = f[y]
        BY <2>5
      <3>2. \A c \in Clients \ {x} : todo'[c] = todo[c]
        BY <2>6
      <3> QED
        BY <1>t, <2>1, <3>1, <3>2 DEF NewInv
    <2> QED
      BY <2>4, <2>11, <2>12 DEF NewInv
  <1>8. ASSUME NEW w \in Workers, TryPop(w) PROVE OnceInv' /\ NewInv'
    <2> DEFINE h == Head(work_queue)
    <2>1. /\ work_queue # <<>> /\ work_queue' = Tail(work_queue) /\ over' = over
          /\ task' = [task EXCEPT ![w] = h] /\ pc' = [pc EXCEPT ![w] = "run"]
          /\ f' = f /\ todo' = todo /\ pc[w] = "try_pop"
      BY <1>8 DEF TryPop
    <2>2. /\ h = work_queue[1] /\ h \in Tasks /\ 1 \in 1..Len(work_queue)
          /\ Len(work_queue') = Len(work_queue) - 1 /\ Len(work_queue) \in Nat
          /\ \A i \in 1..(Len(work_queue) - 1) : work_queue'[i] = work_queue[i + 1]
      BY <1>t, <2>1
    <2>3. \A i \in 1..Len(work_queue') :
            i + 1 \in 1..Len(work_queue) /\ work_queue'[i] = work_queue[i + 1] /\ i + 1 # 1
      BY <2>2
    <2>4. task[w] = NoTask /\ w \notin Busy
      BY <2>1 DEF IndInv, WorkerInv, Busy
    <2> HIDE DEF h
    <2>5. /\ Busy' = Busy \cup {w} /\ task'[w] = h
          /\ \A v \in Busy : v \in Workers /\ v # w /\ task'[v] = task[v]
      BY <1>t, <2>1, <2>2, <2>4, NoTaskIsNoTask DEF Busy
    <2>6. h \notin over /\ h \notin RunBy /\ h \in Queued
      BY <2>2 DEF OnceInv, Queued
    <2>7. RunBy' = RunBy \cup {h}
      BY <2>5 DEF RunBy
    <2>8. OnceInv'
      <3>1. \A i, j \in 1..Len(work_queue') : work_queue'[i] = work_queue'[j] => i = j
        BY <2>2, <2>3 DEF OnceInv
      <3>2. \A v, u \in Busy' : task'[v] = task'[u] => v = u
        BY <2>5, <2>6 DEF OnceInv, RunBy
      <3>3. \A i \in 1..Len(work_queue') : work_queue'[i] \notin over' \cup RunBy'
        BY <2>1, <2>2, <2>3, <2>7 DEF OnceInv
      <3>4. \A v \in Busy' : task'[v] \notin over'
        BY <2>1, <2>5, <2>6 DEF OnceInv
      <3> QED
        BY <3>1, <3>2, <3>3, <3>4 DEF OnceInv
    <2>9. Queued' \subseteq Queued
      BY <2>3 DEF Queued
    <2>10. \A k : Known(k) => Known(k)'
      BY <1>t, <2>1, <2>5 DEF Known, ParentOf
    <2>11. \A j \in (Queued \cup RunBy \cup over)' : Known(j)'
      BY <2>1, <2>6, <2>7, <2>9, <2>10 DEF NewInv
    <2>12. \A x \in Actors \ {w} : pc'[x] = pc[x]
      BY <1>t, <2>1
    <2>13. \A v \in Workers \ {w} : task'[v] = task[v]
      BY <1>t, <2>1
    <2>14. pc'[w] # "push"
      BY <1>t, <2>1
    <2> QED
      BY <1>t, <2>1, <2>8, <2>11, <2>12, <2>13, <2>14 DEF NewInv
  <1>9. ASSUME NEW w \in Workers, FetchSub(w) PROVE OnceInv' /\ NewInv'
    <2>1. /\ work_queue' = work_queue /\ over' = over \cup {task[w]} /\ f' = f /\ todo' = todo
          /\ task' = [task EXCEPT ![w] = NoTask] /\ w \in Busy /\ pc[w] = "fetch_sub"
          /\ \A x \in Actors \ {w} : pc'[x] = pc[x]
          /\ pc'[w] \in {"lock", "while"}
      BY <1>9, <1>t DEF FetchSub, IndInv, WorkerInv, Busy
    <2>2. /\ Busy' = Busy \ {w} /\ \A v \in Workers \ {w} : task'[v] = task[v]
          /\ Busy \subseteq Workers
      BY <1>t, <2>1 DEF Busy
    <2>3. RunBy' \cup {task[w]} = RunBy /\ task[w] \notin RunBy' /\ Queued' = Queued
      BY <2>1, <2>2 DEF RunBy, Queued, OnceInv
    <2>4. OnceInv'
      <3>1. \A v, u \in Busy' : task'[v] = task'[u] => v = u
        BY <2>2 DEF OnceInv
      <3>2. \A i \in 1..Len(work_queue') : work_queue'[i] \notin over' \cup RunBy'
        BY <2>1, <2>3 DEF OnceInv
      <3>3. \A v \in Busy' : task'[v] \notin over'
        BY <2>1, <2>2 DEF OnceInv
      <3> QED
        BY <2>1, <3>1, <3>2, <3>3 DEF OnceInv
    <2>5. ASSUME NEW k, Known(k) PROVE Known(k)'
      <3>1. CASE k.kind = "child"
        <4>1. ParentOf(k) \in over \/ \E v \in Busy : task[v] = ParentOf(k) /\ pc[v] = "fetch_sub"
          BY <2>5, <3>1 DEF Known
        <4>2. \A v \in Busy \ {w} : v \in Busy' /\ task'[v] = task[v] /\ pc'[v] = pc[v]
          BY <1>t, <2>1, <2>2
        <4> QED
          BY <2>1, <3>1, <4>1, <4>2 DEF Known
      <3>2. CASE k.kind # "child"
        BY <2>1, <2>5, <3>2 DEF Known
      <3> QED
        BY <3>1, <3>2
    <2>6. \A k \in (Queued \cup RunBy \cup over)' : Known(k)'
      BY <2>1, <2>3, <2>5 DEF NewInv
    <2> QED
      BY <1>t, <2>1, <2>2, <2>4, <2>6 DEF NewInv
  <1> QED
    BY <1>t, <1>1, <1>2, <1>3, <1>4, <1>5, <1>6, <1>7, <1>8, <1>9
       DEF Next, ClientStep, WorkerStep

SubmittedAlone ==
  \A x \in Submitting : /\ f[x] \in Tasks /\ f[x] \notin Queued \cup RunBy \cup over
                        /\ \A y \in Submitting : f[y] = f[x] => y = x

LEMMA SubmittedIsAlone == IndInv /\ OnceInv /\ NewInv => SubmittedAlone
  BY SubmittedOnce DEF SubmittedAlone

AbsState == [k \in Tasks |-> StateOf(k)]

Placed == IndInv /\ OnceInv /\ NewInv

Place(k) == IF k \in over THEN "over" ELSE IF k \in RunBy THEN "running"
            ELSE IF k \in Queued THEN "queued" ELSE IF k \in InPush THEN "submitted" ELSE "new"

\* No task is in two places, so its state is the kind of the one it is in.
LEMMA StateIs == Placed => AbsState = [k \in Tasks |-> Place(k)]
  <1> SUFFICES ASSUME Placed, NEW k \in Tasks PROVE StateOf(k) = Place(k)
    BY DEF AbsState
  <1>1. SubmittedAlone /\ OnceInv
    BY SubmittedIsAlone DEF Placed
  <1>2. \A q \in Places(k) :
          \/ \E x \in Submitting : f[x] = k /\ q = <<"submitted", x>>
          \/ \E i \in 1..Len(work_queue) : work_queue[i] = k /\ q = <<"queued", i>>
          \/ \E w \in Busy : task[w] = k /\ q = <<"running", w>>
          \/ k \in over /\ q = <<"over", k>>
    BY DEF Places
  <1>3. \A q \in Places(k) :
          /\ q[1] = "submitted" => k \in InPush /\ k \notin Queued \cup RunBy \cup over
          /\ q[1] = "queued" => k \in Queued /\ k \notin RunBy \cup over
          /\ q[1] = "running" => k \in RunBy /\ k \notin over
          /\ q[1] = "over" => k \in over
          /\ q[1] \in {"submitted", "queued", "running", "over"}
    <2> TAKE q \in Places(k)
    <2>1. CASE \E x \in Submitting : f[x] = k /\ q = <<"submitted", x>>
      BY <1>1, <2>1 DEF SubmittedAlone, InPush
    <2>2. CASE \E i \in 1..Len(work_queue) : work_queue[i] = k /\ q = <<"queued", i>>
      BY <1>1, <2>2 DEF OnceInv, Queued
    <2>3. CASE \E w \in Busy : task[w] = k /\ q = <<"running", w>>
      BY <1>1, <2>3 DEF OnceInv, RunBy
    <2>4. CASE k \in over /\ q = <<"over", k>>
      BY <2>4
    <2> QED
      BY <1>2, <2>1, <2>2, <2>3, <2>4
  <1>4. \A q \in Places(k) : q[1] = Place(k)
    BY <1>3 DEF Place
  <1>5. \A q, r \in Places(k) : q = r
    <2> TAKE q, r \in Places(k)
    <2>1. q[1] = r[1]
      BY <1>4
    <2>2. CASE \E x \in Submitting : f[x] = k /\ q = <<"submitted", x>>
      BY <1>1, <1>2, <2>1, <2>2 DEF SubmittedAlone
    <2>3. CASE \E i \in 1..Len(work_queue) : work_queue[i] = k /\ q = <<"queued", i>>
      BY <1>1, <1>2, <2>1, <2>3 DEF OnceInv
    <2>4. CASE \E w \in Busy : task[w] = k /\ q = <<"running", w>>
      BY <1>1, <1>2, <2>1, <2>4 DEF OnceInv
    <2>5. CASE k \in over /\ q = <<"over", k>>
      BY <1>2, <2>1, <2>5
    <2> QED
      BY <1>2, <2>2, <2>3, <2>4, <2>5
  <1>6. Place(k) # "new" => Places(k) # {}
    <2>1. k \in InPush => \E x \in Submitting : <<"submitted", x>> \in Places(k)
      BY DEF InPush, Places
    <2>2. k \in Queued => \E i \in 1..Len(work_queue) : <<"queued", i>> \in Places(k)
      BY DEF Queued, Places
    <2>3. k \in RunBy => \E w \in Busy : <<"running", w>> \in Places(k)
      BY DEF RunBy, Places
    <2>4. k \in over => <<"over", k>> \in Places(k)
      BY DEF Places
    <2> QED
      BY <2>1, <2>2, <2>3, <2>4 DEF Place
  <1>7. Places(k) # {} => (CHOOSE q \in Places(k) : TRUE) \in Places(k) /\ Place(k) # "new"
    BY <1>3, <1>4
  <1> QED
    BY <1>4, <1>5, <1>6, <1>7 DEF StateOf

LEMMA StatesAre ==
  ASSUME Placed, Placed'
  PROVE  /\ AbsState = [k \in Tasks |-> Place(k)]
         /\ AbsState' = [k \in Tasks |->
                IF k \in over' THEN "over" ELSE IF k \in RunBy' THEN "running"
                ELSE IF k \in Queued' THEN "queued" ELSE IF k \in InPush' THEN "submitted"
                ELSE "new"]
  <1>1. (AbsState = [k \in Tasks |-> Place(k)])'
    BY StateIs, PTL
  <1> QED
    BY <1>1, StateIs DEF Place, Tasks, Calls

LEMMA StatesKept ==
  ASSUME Placed, Placed', over' = over, RunBy' = RunBy, Queued' = Queued, InPush' = InPush
  PROVE  AbsState' = AbsState
  BY StatesAre DEF Place

\* One task goes from one place to another.
LEMMA StateMoves ==
  ASSUME Placed, Placed', NEW k \in Tasks, NEW to,
         \A j \in Tasks \ {k} : /\ j \in over' <=> j \in over
                                /\ j \in RunBy' <=> j \in RunBy
                                /\ j \in Queued' <=> j \in Queued
                                /\ j \in InPush' <=> j \in InPush,
         to = IF k \in over' THEN "over" ELSE IF k \in RunBy' THEN "running"
              ELSE IF k \in Queued' THEN "queued" ELSE IF k \in InPush' THEN "submitted"
              ELSE "new"
  PROVE  AbsState' = [AbsState EXCEPT ![k] = to]
  BY StatesAre DEF Place

LEMMA WaitingKept ==
  ASSUME \A c \in Clients : pc'[c] \in {"test", "sleep", "asleep", "relock"}
                               <=> pc[c] \in {"test", "sleep", "asleep", "relock"}
  PROVE  Waiting' = Waiting
  BY DEF Waiting

LEMMA InitGroup == Init => Group!Init
  <1> SUFFICES ASSUME Init PROVE Group!Init
    OBVIOUS
  <1>1. Submitting = {} /\ Busy = {} /\ work_queue = <<>> /\ over = {}
    BY DEF Init, Submitting, Busy
  <1>2. \A k \in Tasks : StateOf(k) = "new"
    <2>1. \A k \in Tasks : Places(k) = {}
      BY <1>1 DEF Places
    <2> QED
      BY <2>1 DEF StateOf
  <1>3. Waiting = {}
    BY DEF Init, Waiting, Actors
  <1> QED
    BY <1>2, <1>3 DEF Group!Init

LEMMA GroupTypes ==
  ASSUME IndInv
  PROVE  /\ pc \in [Actors -> Points] /\ task \in [Workers -> Tasks \cup {NoTask}]
         /\ f \in [Actors -> Tasks \cup {NoTask}] /\ todo \in [Clients -> Seq(Calls)]
         /\ work_queue \in Seq(Tasks) /\ over \subseteq Tasks
         /\ Owner \in Clients /\ Clients \subseteq Actors /\ Workers \subseteq Actors
         /\ Workers \cap Clients = {} /\ Actors = Clients \cup Workers
  BY ClientsAssumption, BoundsAssumption DEF IndInv, TypeInv, Actors, Workers

LEMMA StepGroup ==
  ASSUME IndInv, IndInv', TaskAccounting, OnceInv, NewInv, [Next]_vars
  PROVE  [Group!Next]_(Group!vars)
  <1> USE ClientsAssumption DEF Goto, sharedVars, ownerVars, historyVars
  <1>t. /\ pc \in [Actors -> Points] /\ task \in [Workers -> Tasks \cup {NoTask}]
        /\ f \in [Actors -> Tasks \cup {NoTask}] /\ todo \in [Clients -> Seq(Calls)]
        /\ work_queue \in Seq(Tasks) /\ over \subseteq Tasks
        /\ Owner \in Clients /\ Clients \subseteq Actors /\ Workers \subseteq Actors
        /\ Workers \cap Clients = {} /\ Actors = Clients \cup Workers
    BY GroupTypes
  <1>o. OnceInv' /\ NewInv'
    BY StepOnce
  <1>p. Placed /\ Placed'
    BY <1>o DEF Placed
  <1> DEFINE W == {"test", "sleep", "asleep", "relock"}
  <1>s. AbsState' = AbsState /\ Waiting' = Waiting => [Group!Next]_(Group!vars)
    BY DEF Group!vars, AbsState
  <1>m. ASSUME NEW k \in Tasks, Waiting' = Waiting,
               \/ AbsState[k] = "submitted" /\ AbsState' = [AbsState EXCEPT ![k] = "queued"]
               \/ AbsState[k] = "submitted" /\ AbsState' = [AbsState EXCEPT ![k] = "over"]
               \/ AbsState[k] = "queued" /\ AbsState' = [AbsState EXCEPT ![k] = "running"]
               \/ AbsState[k] = "running" /\ AbsState' = [AbsState EXCEPT ![k] = "over"]
        PROVE  [Group!Next]_(Group!vars)
    BY <1>m DEF AbsState, Group!Next, Group!Queue, Group!Fail, Group!Begin, Group!End,
                Group!Becomes
  <1>n. ASSUME NEW k \in Tasks, Waiting' = Waiting, AbsState[k] = "new",
               AbsState' = [AbsState EXCEPT ![k] = "submitted"],
               IF ParentOf(k) = NoTask THEN k.by \notin Waiting
                                       ELSE ParentOf(k) \in Tasks /\ AbsState[ParentOf(k)] = "running"
        PROVE  [Group!Next]_(Group!vars)
    BY <1>n DEF AbsState, Group!Next, Group!Submit, Group!Becomes
  <1>1. CASE UNCHANGED vars
    <2>1. over' = over /\ RunBy' = RunBy /\ Queued' = Queued /\ InPush' = InPush /\ Waiting' = Waiting
      BY <1>1 DEF vars, RunBy, Busy, Queued, InPush, Submitting, Waiting
    <2> QED
      BY <1>s, <2>1, <1>p, StatesKept
  <1>2. CASE OwnerStep
    <2>1. /\ work_queue' = work_queue /\ task' = task /\ over' = over /\ f' = f
      BY <1>2 DEF OwnerStep, StartThread, ThreadThrows, PushBackThrows, Constructed, SetDone,
                  DestroyMembers, Join
    <2>2. \A x \in Actors : /\ pc'[x] = "push" <=> pc[x] = "push"
                            /\ x \in Clients => (pc'[x] \in W <=> pc[x] \in W)
      <3>1. CASE StartThread \/ PushBackThrows
        <4>1. threads + 1 \in Workers /\ pc[threads + 1] = "none"
          BY <3>1, BoundsAssumption DEF StartThread, PushBackThrows, IndInv, TypeInv, WorkerInv,
                                        Workers
        <4> QED
          BY <3>1, <4>1, <1>t DEF StartThread, PushBackThrows
      <3>2. CASE Constructed
        <4>1. \A c \in Clients : pc[c] \in {"ctor", "none"}
          BY <3>2 DEF Constructed, IndInv, OwnerInv
        <4> QED
          BY <3>2, <4>1, <1>t DEF Constructed
      <3>3. CASE ThreadThrows \/ SetDone \/ DestroyMembers \/ Join
        BY <3>3, <1>t DEF ThreadThrows, SetDone, DestroyMembers, Join
      <3> QED
        BY <1>2, <3>1, <3>2, <3>3 DEF OwnerStep
    <2>3. RunBy' = RunBy /\ Queued' = Queued /\ InPush' = InPush
      BY <2>1, <2>2 DEF RunBy, Busy, Queued, InPush, Submitting
    <2>4. Waiting' = Waiting
      BY <1>t, <2>2, WaitingKept
    <2> QED
      BY <1>s, <2>1, <2>3, <2>4, <1>p, StatesKept
  \* wait_all: a client that finds the count zero returns.
  <1>3. ASSUME NEW c \in Clients,
               \/ WaitLock(c) \/ WaitTest(c) \/ WaitSleep(c) \/ WaitReturn(c)
               \/ SpuriousWakeup(c)
        PROVE  [Group!Next]_(Group!vars)
    <2>1. /\ work_queue' = work_queue /\ task' = task /\ over' = over /\ f' = f
          /\ \A x \in Actors \ {c} : pc'[x] = pc[x]
          /\ pc[c] # "push" /\ pc'[c] # "push"
      BY <1>3, <1>t DEF WaitLock, WaitTest, WaitSleep, WaitReturn, SpuriousWakeup
    <2>2. RunBy' = RunBy /\ Queued' = Queued /\ InPush' = InPush
      <3>1. Submitting' = Submitting
        BY <1>t, <2>1 DEF Submitting
      <3>2. RunBy' = RunBy
        BY <2>1 DEF RunBy, Busy
      <3> QED
        BY <2>1, <3>1, <3>2 DEF Queued, InPush
    <2>3. AbsState' = AbsState
      BY <2>1, <2>2, <1>p, StatesKept
    <2>4. CASE pc[c] \in W <=> pc'[c] \in W
      <3>1. Waiting' = Waiting
        BY <1>t, <2>1, <2>4, WaitingKept
      <3> QED
        BY <1>s, <2>3, <3>1
    <2>5. CASE pc[c] \notin W /\ pc'[c] \in W
      <3>1. Waiting' = Waiting \cup {c}
        BY <1>t, <2>1, <2>5 DEF Waiting
      <3>2. Group!Wait(c)
        BY <2>3, <3>1 DEF AbsState, Group!Wait
      <3> QED
        BY <3>2 DEF Group!Next
    <2>6. CASE pc[c] \in W /\ pc'[c] \notin W
      <3>1. m_taskCount = 0
        BY <1>3, <1>t, <2>6 DEF WaitLock, WaitTest, WaitSleep, WaitReturn, SpuriousWakeup
      <3>2. Unfinished = {}
        BY <3>1, NothingUnfinished
      <3>3. Busy = {}
        <4>1. Len(work_queue) \in Nat /\ leaked \in Nat
          BY DEF IndInv, TypeInv
        <4>2. Cardinality(Busy) = 0
          BY <3>1, <4>1, SetsFinite DEF TaskAccounting
        <4> QED
          BY <4>2, SetsFinite, FS_EmptySet
      <3>4. \A k \in Tasks : AbsState[k] \in {"new", "over"}
        <4>1. Queued = {} /\ InPush = {} /\ RunBy = {}
          BY <3>2, <3>3 DEF Unfinished, Queued, InPush, RunBy
        <4> QED
          BY <4>1, <1>p, StateIs DEF Place
      <3>5. c \in Waiting /\ Waiting' = Waiting \ {c}
        BY <1>t, <2>1, <2>6 DEF Waiting
      <3>6. Group!Return(c)
        BY <2>3, <3>4, <3>5 DEF AbsState, Group!Return
      <3> QED
        BY <3>6 DEF Group!Next
    <2> QED
      BY <2>4, <2>5, <2>6
  <1>4. ASSUME NEW w \in Workers, While(w) \/ Yield(w) \/ Lock(w) \/ NotifyAll(w) \/ Unlock(w)
        PROVE  [Group!Next]_(Group!vars)
    <2>1. /\ work_queue' = work_queue /\ task' = task /\ over' = over /\ f' = f
          /\ \A x \in Actors : pc'[x] = "push" <=> pc[x] = "push"
          /\ \A c \in Clients : pc'[c] \in W <=> pc[c] \in W
      BY <1>4, <1>t DEF While, Yield, Lock, NotifyAll, Unlock
    <2>2. RunBy' = RunBy /\ Queued' = Queued /\ InPush' = InPush
      BY <2>1 DEF RunBy, Busy, Queued, InPush, Submitting
    <2>3. Waiting' = Waiting
      BY <2>1, WaitingKept
    <2> QED
      BY <1>s, <2>1, <2>2, <2>3, <1>p, StatesKept
  \* What is submitted is new.
  <1>5. ASSUME NEW x \in Actors, NEW k, k = f'[x], pc[x] # "push", pc'[x] = "push",
               work_queue' = work_queue, task' = task, over' = over,
               \A y \in Actors \ {x} : pc'[y] = pc[y] /\ f'[y] = f[y],
               OnceInv', NewInv'
        PROVE  /\ k \in Tasks /\ AbsState[k] = "new"
               /\ AbsState' = [AbsState EXCEPT ![k] = "submitted"]
    <2>1. RunBy' = RunBy /\ Queued' = Queued
      BY <1>5 DEF RunBy, Busy, Queued
    <2>2. Submitting' = Submitting \cup {x} /\ x \notin Submitting
      BY <1>5 DEF Submitting
    <2>o. IndInv' /\ OnceInv' /\ NewInv'
      BY <1>5
    <2>3. SubmittedAlone'
      BY <2>o, SubmittedIsAlone, PTL
    <2>4. k \in Tasks /\ k \notin Queued \cup RunBy \cup over
      BY <1>5, <2>1, <2>2, <2>3 DEF SubmittedAlone, Tasks, Calls
    <2>5. \A y \in Submitting : f'[y] = f[y] /\ f'[y] # k
      BY <1>5, <2>2, <2>3 DEF SubmittedAlone, Submitting
    <2>6. InPush' = InPush \cup {k} /\ k \notin InPush
      BY <1>5, <2>2, <2>5 DEF InPush
    <2>8. AbsState' = [AbsState EXCEPT ![k] = "submitted"]
      BY <1>5, <2>1, <2>4, <2>6, <1>p, StateMoves
    <2>9. AbsState[k] = "new"
      BY <2>4, <2>6, <1>p, StateIs DEF Place
    <2> QED
      BY <2>4, <2>8, <2>9
  <1>6. ASSUME NEW c \in Clients, Submit(c) PROVE [Group!Next]_(Group!vars)
    <2>1. /\ work_queue' = work_queue /\ task' = task /\ over' = over
          /\ pc[c] = "idle" /\ pc'[c] = "push"
          /\ \A x \in Actors \ {c} : pc'[x] = pc[x] /\ f'[x] = f[x]
      BY <1>6, <1>t DEF Submit, FetchAdd
    <2>2. Waiting' = Waiting /\ c \notin Waiting
      BY <1>t, <2>1 DEF Waiting
    <2>3. PICK k : k = f'[c]
      OBVIOUS
    <2>4. k \in Tasks /\ AbsState[k] = "new" /\ AbsState' = [AbsState EXCEPT ![k] = "submitted"]
      BY <1>t, <1>5, <1>o, <2>1, <2>2, <2>3
    <2>5. k.kind # "child" /\ k.by = c
      BY <1>o, <2>1, <2>3 DEF NewInv, IndInv, ClientInv
    <2>6. ParentOf(k) = NoTask
      BY <2>5 DEF ParentOf
    <2> QED
      BY <1>n, <2>2, <2>4, <2>5, <2>6
  <1>7. ASSUME NEW w \in Workers, Run(w) PROVE [Group!Next]_(Group!vars)
    <2>1. /\ work_queue' = work_queue /\ task' = task /\ over' = over
          /\ pc[w] = "run" /\ pc'[w] \in {"push", "fetch_sub"}
          /\ \A x \in Actors \ {w} : pc'[x] = pc[x] /\ f'[x] = f[x]
          /\ pc'[w] = "push" => task[w].kind = "spawner"
      BY <1>7, <1>t DEF Run, FetchAdd
    <2>2. Waiting' = Waiting
      BY <1>t, <2>1 DEF Waiting
    <2>3. CASE pc'[w] = "fetch_sub"
      <3>1. RunBy' = RunBy /\ Queued' = Queued /\ InPush' = InPush
        <4>1. Submitting' = Submitting /\ \A x \in Submitting : x # w /\ f'[x] = f[x]
          BY <1>t, <2>1, <2>3 DEF Submitting
        <4> QED
          BY <2>1, <4>1 DEF RunBy, Busy, Queued, InPush
      <3> QED
        BY <1>s, <2>1, <2>2, <3>1, <1>p, StatesKept
    <2>4. CASE pc'[w] = "push"
      <3>1. PICK k : k = f'[w]
        OBVIOUS
      <3>2. k \in Tasks /\ AbsState[k] = "new" /\ AbsState' = [AbsState EXCEPT ![k] = "submitted"]
        BY <1>t, <1>5, <1>o, <2>1, <2>2, <2>4, <3>1
      <3>3. task[w] \in Tasks /\ task[w].kind = "spawner" /\ w \in Busy
        BY <1>t, <2>1, <2>4, NoTaskIsNoTask DEF IndInv, WorkerInv, Busy
      <3>4. k = [task[w] EXCEPT !.kind = "child"]
        BY <1>o, <2>1, <2>4, <3>1 DEF NewInv
      <3>5. ParentOf(k) = task[w] /\ ParentOf(k) # NoTask
        BY <3>3, <3>4, ChildOf, NoTaskIsNoTask
      <3>6. AbsState[task[w]] = "running"
        BY <3>3, <1>p, StateIs DEF Place, RunBy, OnceInv
      <3> QED
        BY <1>n, <2>2, <3>2, <3>3, <3>5, <3>6
    <2> QED
      BY <2>1, <2>3, <2>4
  <1>8. ASSUME NEW x \in Actors, Push(x) \/ PushThrows(x) PROVE [Group!Next]_(Group!vars)
    <2>1. /\ x \in Submitting /\ Submitting' = Submitting \ {x} /\ task' = task
          /\ \A y \in Submitting' : f'[y] = f[y]
      BY <1>8, <1>t DEF Push, PushThrows, Submitted, Submitting
    <2>2. PICK k : k = f[x]
      OBVIOUS
    <2>3. /\ k \in Tasks /\ k \notin Queued \cup RunBy \cup over
          /\ \A y \in Submitting : f[y] = k => y = x
      BY <2>1, <2>2, SubmittedOnce
    <2>4. InPush' = InPush \ {k} /\ k \in InPush /\ RunBy' = RunBy
      BY <2>1, <2>2, <2>3 DEF InPush, RunBy, Busy
    <2>5. Waiting' = Waiting
      BY <1>8, <1>t DEF Push, PushThrows, Submitted, Waiting
    <2>6. CASE Push(x)
      <3>1. /\ work_queue' = Append(work_queue, k) /\ over' = over
        BY <2>2, <2>6 DEF Push
      <3>2. /\ Len(work_queue') = Len(work_queue) + 1 /\ Len(work_queue) \in Nat
            /\ \A i \in 1..Len(work_queue) : work_queue'[i] = work_queue[i]
            /\ work_queue'[Len(work_queue) + 1] = k
        BY <1>t, <2>3, <3>1
      <3>3. Queued' = Queued \cup {k}
        BY <3>2 DEF Queued
      <3>4. AbsState' = [AbsState EXCEPT ![k] = "queued"]
        BY <2>3, <2>4, <3>1, <3>3, <1>p, StateMoves
      <3>5. AbsState[k] = "submitted"
        BY <2>3, <2>4, <1>p, StateIs DEF Place
      <3> QED
        BY <1>m, <2>3, <2>5, <3>4, <3>5
    <2>7. CASE PushThrows(x)
      <3>1. work_queue' = work_queue /\ over' = over \cup {k}
        BY <2>2, <2>7 DEF PushThrows
      <3>2. Queued' = Queued
        BY <3>1 DEF Queued
      <3>4. AbsState' = [AbsState EXCEPT ![k] = "over"]
        BY <2>3, <2>4, <3>1, <3>2, <1>p, StateMoves
      <3>5. AbsState[k] = "submitted"
        BY <2>3, <2>4, <1>p, StateIs DEF Place
      <3> QED
        BY <1>m, <2>3, <2>5, <3>4, <3>5
    <2> QED
      BY <1>8, <2>6, <2>7
  <1>9. ASSUME NEW w \in Workers, TryPop(w) PROVE [Group!Next]_(Group!vars)
    <2>1. /\ work_queue # <<>> /\ work_queue' = Tail(work_queue) /\ over' = over
          /\ task' = [task EXCEPT ![w] = Head(work_queue)] /\ pc' = [pc EXCEPT ![w] = "run"]
          /\ f' = f /\ pc[w] = "try_pop"
      BY <1>9 DEF TryPop
    <2>2. PICK k : k = Head(work_queue)
      OBVIOUS
    <2>3. /\ k = work_queue[1] /\ k \in Tasks /\ 1 \in 1..Len(work_queue)
          /\ Len(work_queue') = Len(work_queue) - 1 /\ Len(work_queue) \in Nat
          /\ \A i \in 1..(Len(work_queue) - 1) : work_queue'[i] = work_queue[i + 1]
      BY <1>t, <2>1, <2>2
    <2>4. Queued' = Queued \ {k} /\ k \in Queued
      <3>1. \A i \in 1..Len(work_queue') : i + 1 \in 1..Len(work_queue)
                                        /\ work_queue'[i] = work_queue[i + 1] /\ i + 1 # 1
        BY <2>3
      <3>2. \A i \in 1..Len(work_queue) : i # 1 => i - 1 \in 1..Len(work_queue')
                                                /\ work_queue'[i - 1] = work_queue[i]
        BY <2>3
      <3>3. \A i \in 1..Len(work_queue) : work_queue[i] = k => i = 1
        BY <2>3 DEF OnceInv
      <3> QED
        BY <2>3, <3>1, <3>2, <3>3 DEF Queued
    <2>5. /\ w \notin Busy /\ Busy' = Busy \cup {w} /\ task'[w] = k
          /\ \A v \in Busy : task'[v] = task[v]
      <3>1. task[w] = NoTask /\ k # NoTask
        BY <2>1, <2>3, NoTaskIsNoTask DEF IndInv, WorkerInv
      <3>2. task'[w] = k /\ \A v \in Workers \ {w} : task'[v] = task[v]
        BY <1>t, <2>1, <2>2
      <3> QED
        BY <3>1, <3>2 DEF Busy
    <2>6. RunBy' = RunBy \cup {k} /\ k \notin RunBy /\ k \notin over
      BY <2>3, <2>5 DEF RunBy, OnceInv
    <2>7. Submitting' = Submitting
      BY <1>t, <2>1 DEF Submitting
    <2>8. InPush' = InPush
      BY <2>1, <2>7 DEF InPush
    <2>10. AbsState' = [AbsState EXCEPT ![k] = "running"]
      BY <2>1, <2>3, <2>4, <2>6, <2>8, <1>p, StateMoves
    <2>11. AbsState[k] = "queued"
      BY <2>3, <2>4, <2>6, <1>p, StateIs DEF Place
    <2>12. Waiting' = Waiting
      BY <1>t, <2>1 DEF Waiting
    <2> QED
      BY <1>m, <2>3, <2>10, <2>11, <2>12
  <1>10. ASSUME NEW w \in Workers, FetchSub(w) PROVE [Group!Next]_(Group!vars)
    <2>1. /\ work_queue' = work_queue /\ over' = over \cup {task[w]} /\ f' = f
          /\ task' = [task EXCEPT ![w] = NoTask] /\ w \in Busy /\ pc[w] = "fetch_sub"
          /\ \A x \in Actors \ {w} : pc'[x] = pc[x]
          /\ pc'[w] \in {"lock", "while"}
      BY <1>10, <1>t DEF FetchSub, IndInv, WorkerInv, Busy
    <2>2. PICK k : k = task[w]
      OBVIOUS
    <2>3. /\ Busy' = Busy \ {w} /\ \A v \in Busy' : task'[v] = task[v]
          /\ k \in Tasks
      BY <1>t, <2>1, <2>2 DEF Busy
    <2>4. RunBy' = RunBy \ {k} /\ k \in RunBy /\ k \notin over
      BY <2>1, <2>2, <2>3 DEF RunBy, OnceInv
    <2>5. Submitting' = Submitting
      BY <1>t, <2>1 DEF Submitting
    <2>6. Queued' = Queued /\ InPush' = InPush
      BY <2>1, <2>5 DEF Queued, InPush
    <2>7. AbsState' = [AbsState EXCEPT ![k] = "over"]
      BY <2>1, <2>2, <2>3, <2>4, <2>6, <1>p, StateMoves
    <2>8. AbsState[k] = "running"
      BY <2>3, <2>4, <1>p, StateIs DEF Place
    <2>9. Waiting' = Waiting
      BY <1>t, <2>1 DEF Waiting
    <2> QED
      BY <1>m, <2>3, <2>7, <2>8, <2>9
  <1> QED
    BY <1>t, <1>1, <1>2, <1>3, <1>4, <1>6, <1>7, <1>8, <1>9, <1>10
       DEF Next, ClientStep, WorkerStep

\* The pool implements its abstract specification: a task is in one place at a
\* time and passes through them in one direction, so that none is run twice, and
\* wait_all returns only when nothing of its caller's is left.
THEOREM Refinement == Spec => ImplementsTaskGroup
  <1>1. Init => Group!Init
    BY InitGroup
  <1>2. IndInv /\ OnceInv /\ NewInv /\ [Next]_vars => OnceInv' /\ NewInv'
    BY StepOnce
  <1>3. IndInv /\ IndInv' /\ TaskAccounting /\ OnceInv /\ NewInv /\ [Next]_vars
          => [Group!Next]_(Group!vars)
    BY StepGroup
  <1> QED
    BY <1>1, <1>2, <1>3, InitOnce, Invariance, CountIsExact, PTL
       DEF Spec, ImplementsTaskGroup, Group!Spec
=============================================================================

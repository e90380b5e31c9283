------------------------ MODULE JoinableThread_proofs ------------------------
(***************************************************************************)
(* A started thread belongs to exactly one handle until it is joined, no   *)
(* thread outlives the scope, no member of a JoinableThread ends the       *)
(* process, and no call waits for a thread that cannot be joined, for any  *)
(* handles and threads.                                                    *)
(***************************************************************************)
EXTENDS JoinableThread, FiniteSetTheorems, TLAPS

\* By the time the member of a JoinableThread is assigned to or destroyed it has
\* been joined.  What is on the right of an assignment keeps what it held, for it
\* is another handle while the left is joined.  A handle that is being joined
\* refers to a thread.
CallInv ==
  call # Idle =>
    /\ call.op \in {"assign", "destroy"} => call.h \in Joining
    /\ call.op \in {"move", "release"} /\ call.h \in Joining => ~Joinable(call.h)
    /\ call.op \in {"assign", "move"} => m_thread[call.from] = call.moved
    /\ call.op = "assign" => call.h # call.from
    /\ call.op = "join" => Joinable(call.h)

IndInv == TypeOK /\ HeldOnce /\ CallInv /\ OnlyPlainThreadsTerminate

LEMMA CallIsNotIdle == \A c \in Calls : c # Idle
  <1> SUFFICES ASSUME NEW c \in Calls PROVE c # Idle
    OBVIOUS
  <1>1. DOMAIN c = {"op", "h", "from", "moved"} /\ "op" \in DOMAIN c
    BY DEF Calls
  <1> QED
    BY <1>1 DEF Idle

LEMMA InitIndInv == Init => IndInv
  BY NamesAssumption
     DEF Init, IndInv, TypeOK, HeldOnce, CallInv, OnlyPlainThreadsTerminate, Unjoined, Joinable, Idle

LEMMA EnterInv ==
  ASSUME IndInv, NEW op \in {"assign", "destroy", "move", "release", "join"},
         NEW h \in alive, NEW k \in alive,
         op \in {"assign", "destroy"} <=> h \in Joining /\ op # "join",
         op = "assign" => h # k, op = "join" => Joinable(h), call = Idle, Enter(op, h, k)
  PROVE  IndInv'
  <1> DEFINE r == [op |-> op, h |-> h, from |-> k, moved |-> m_thread[k]]
  <1>1. r \in Calls /\ r # Idle
    BY DEF IndInv, TypeOK, Calls, Idle
  <1>2. call' = r /\ UNCHANGED <<alive, m_thread, thread, leaving, terminated>>
    BY DEF Enter
  <1>3. r.op = op /\ r.h = h /\ r.from = k /\ r.moved = m_thread[k]
    OBVIOUS
  <1> HIDE DEF r
  <1>4. TypeOK'
    BY <1>1, <1>2, <1>3 DEF IndInv, TypeOK, Joinable
  <1>5. HeldOnce'
    BY <1>2 DEF IndInv, HeldOnce, Unjoined, Joinable
  <1>6. CallInv'
    BY <1>2, <1>3 DEF CallInv, Joinable
  <1>7. OnlyPlainThreadsTerminate'
    BY <1>2 DEF IndInv, OnlyPlainThreadsTerminate, Idle
  <1> QED
    BY <1>4, <1>5, <1>6, <1>7 DEF IndInv

LEMMA StepIndInv == IndInv /\ [Next]_vars => IndInv'
  <1> SUFFICES ASSUME IndInv, [Next]_vars PROVE IndInv'
    OBVIOUS
  <1>0. call # Idle => /\ call \in Calls /\ call.h \in alive /\ call.from \in alive
                       /\ call.op \in {"assign", "destroy", "move", "release", "join"}
                       /\ call.moved \in Threads \cup {NoThread}
    BY DEF IndInv, TypeOK, Calls
  <1> USE NamesAssumption
      DEF IndInv, TypeOK, HeldOnce, CallInv, OnlyPlainThreadsTerminate, Unjoined, Joinable
  <1>1. CASE UNCHANGED vars
    BY <1>1 DEF vars
  <1>2. ASSUME NEW h \in Handles, Default(h) PROVE IndInv'
    BY <1>2 DEF Default, Statement, Idle
  <1>3. ASSUME NEW h \in Handles, NEW t \in Threads, Start(h, t) PROVE IndInv'
    BY <1>3 DEF Start, Statement, Idle
  <1>4. ASSUME NEW h \in Handles, NEW k \in Handles, MoveConstruct(h, k) PROVE IndInv'
    BY <1>4 DEF MoveConstruct, Statement, Idle
  <1>5. ASSUME NEW h \in Handles, NEW k \in Handles, Assign(h, k) PROVE IndInv'
    BY <1>5, EnterInv DEF Assign, Statement
  <1>6. ASSUME NEW h \in Handles, CallJoin(h) \/ CallDestroy(h) PROVE IndInv'
    BY <1>6, EnterInv DEF CallJoin, CallDestroy, Statement
  <1>7. CASE Leave
    BY <1>7 DEF Leave, Idle
  <1>8. ASSUME Joined(call.h), call # Idle
        PROVE  /\ m_thread' \in [Handles -> Threads \cup {NoThread}]
               /\ thread' \in [Threads -> {"unborn", "running", "finished", "threw", "joined"}]
               /\ \A h \in Handles : m_thread'[h] = IF h = call.h THEN NoThread ELSE m_thread[h]
               /\ \A t \in Threads :
                    thread'[t] = IF t = m_thread[call.h] THEN "joined" ELSE thread[t]
    BY <1>0, <1>8 DEF Joined
  <1>9. ASSUME Joined(call.h), Joinable(call.h), call # Idle, alive' \in {alive, alive \ {call.h}}
        PROVE  HeldOnce'
    BY <1>0, <1>8, <1>9
  <1>10. CASE Join
    <2>1. CASE Joinable(call.h)
      <3>1. HeldOnce'
        BY <1>9, <1>10, <2>1 DEF Join
      <3>2. TypeOK'
        BY <1>0, <1>8, <1>10 DEF Join
      <3> QED
        BY <1>10, <3>1, <3>2 DEF Join, Idle
    <2>2. CASE ~Joinable(call.h)
      <3>1. UNCHANGED m_thread
        BY <1>0, <1>8, <1>10, <2>2 DEF Join
      <3>2. \A t \in Threads : thread'[t] = thread[t]
        BY <1>0, <1>8, <1>10, <2>2 DEF Join
      <3>3. TypeOK'
        BY <1>0, <1>8, <1>10, <3>1 DEF Join
      <3> QED
        BY <1>10, <3>1, <3>2, <3>3 DEF Join, Idle
    <2> QED
      BY <2>1, <2>2
  <1>11. CASE AfterJoin
    <2>1. /\ m_thread' \in [Handles -> Threads \cup {NoThread}]
          /\ thread' \in [Threads -> {"unborn", "running", "finished", "threw", "joined"}]
          /\ \A h \in Handles : m_thread'[h] = IF h = call.h THEN NoThread ELSE m_thread[h]
          /\ HeldOnce'
      <3>1. CASE Joinable(call.h) /\ Joined(call.h)
        <4>1. HeldOnce'
          BY <1>9, <1>11, <3>1 DEF AfterJoin
        <4> QED
          BY <4>1, <1>8, <1>11, <3>1 DEF AfterJoin
      <3>2. CASE ~Joinable(call.h) /\ UNCHANGED <<m_thread, thread>>
        BY <1>0, <1>11, <3>2 DEF AfterJoin
      <3> QED
        BY <1>11, <3>1, <3>2 DEF AfterJoin, JoinIfJoinable
    <2>2. PICK step \in {<<"assign", "move">>, <<"destroy", "release">>} :
            call.op = step[1] /\ call' = [call EXCEPT !.op = step[2]]
      BY <1>11 DEF AfterJoin
    <2> DEFINE r == [call EXCEPT !.op = step[2]]
    <2>3. /\ r \in Calls /\ r.h = call.h /\ r.from = call.from /\ r.moved = call.moved
          /\ \/ r.op = "move" /\ call.op = "assign"
             \/ r.op = "release" /\ call.op = "destroy"
      BY <1>0, <1>11, <2>2 DEF Calls, AfterJoin
    <2>4. r # Idle
      BY <2>3, CallIsNotIdle
    <2>5. call' = r
      BY <2>2
    <2> HIDE DEF r
    <2>6. UNCHANGED <<alive, leaving, terminated>> /\ ~terminated /\ call # Idle
      BY <1>11 DEF AfterJoin
    <2>7. TypeOK'
      BY <1>0, <2>1, <2>3, <2>4, <2>5, <2>6
    <2>8. CallInv'
      BY <1>0, <2>1, <2>3, <2>5, <2>6
    <2> QED
      BY <2>1, <2>6, <2>7, <2>8
  <1>12. CASE Terminate
    BY <1>0, <1>12 DEF Terminate
  <1>13. CASE Move
    <2>1. /\ call # Idle /\ ~Joinable(call.h) /\ call' = Idle
          /\ ~terminated /\ UNCHANGED <<alive, thread, leaving, terminated>>
          /\ m_thread' = [m_thread EXCEPT ![call.h] = m_thread[call.from], ![call.from] = NoThread]
      BY <1>13 DEF Move
    <2> DEFINE h == call.h
               k == call.from
    <2>2. h \in alive /\ k \in alive
      BY <1>0, <2>1
    <2> HIDE DEF h, k
    <2>3. m_thread' = [m_thread EXCEPT ![h] = m_thread[k], ![k] = NoThread] /\ ~Joinable(h)
      BY <2>1 DEF h, k
    <2>4. TypeOK'
      BY <2>1, <2>2, <2>3
    <2>5. HeldOnce'
      BY <2>1, <2>2, <2>3
    <2> QED
      BY <2>1, <2>4, <2>5
  <1>14. CASE Release
    <2>1. /\ call # Idle /\ ~Joinable(call.h) /\ call' = Idle /\ alive' = alive \ {call.h}
          /\ ~terminated /\ UNCHANGED <<m_thread, thread, leaving, terminated>>
      BY <1>14 DEF Release
    <2>2. TypeOK'
      BY <1>0, <2>1
    <2>3. HeldOnce'
      BY <1>0, <2>1
    <2> QED
      BY <2>1, <2>2, <2>3
  <1>15. ASSUME NEW t \in Threads, ThreadReturns(t) PROVE IndInv'
    BY <1>0, <1>15 DEF ThreadReturns
  <1>16. ASSUME NEW t \in Threads, ThreadThrows(t) PROVE IndInv'
    BY <1>0, <1>16 DEF ThreadThrows
  <1> QED
    BY <1>1, <1>2, <1>3, <1>4, <1>5, <1>6, <1>7, <1>10, <1>11, <1>12, <1>13, <1>14, <1>15, <1>16
       DEF Next, Client

-----------------------------------------------------------------------------
(***************************************************************************)
(* Why a scope that is left comes to its end: in every state short of the  *)
(* end a step is possible, and every step brings the end closer.  ScopeEnds*)
(* follows from these two under the fairness of FairSpec.                  *)
(***************************************************************************)

Running == {t \in Threads : thread[t] = "running"}

\* The guards of Join, AfterJoin, Terminate, Release and Move: the call can go on.
CallCanGoOn ==
  \/ call.op \in {"move", "release"}
  \/ call.op \in {"assign", "destroy"} /\ ~Joinable(call.h)
  \/ Joinable(call.h) /\ thread[m_thread[call.h]] = "finished"

\* A call that cannot go on waits for a thread that is running.
NoCallHangs ==
  ~terminated /\ call # Idle =>
    CallCanGoOn \/ (Joinable(call.h) /\ m_thread[call.h] \in Running)

\* In a scope that is left, and not at its end, some handle can be destroyed, or
\* the destructor that is being executed can go on, or the thread it waits for can.
LeavingNeverStuck ==
  leaving /\ ~terminated /\ ~Left =>
    \/ call = Idle /\ \E h \in alive : alive \cap Temporaries # {} => h \in Temporaries
    \/ call # Idle /\ call.op \in {"destroy", "release"} /\ CallCanGoOn
    \/ call # Idle /\ Joinable(call.h) /\ m_thread[call.h] \in Running

\* How many steps it is at most to the end.
Distance == 3 * Cardinality(alive) + Cardinality(Running)
            + (IF call = Idle THEN 2 ELSE IF call.op = "destroy" THEN 1 ELSE 0)
            + (IF terminated THEN 0 ELSE 1)

EveryStepLeadsOut == [][leaving => Distance \in Nat /\ Distance' \in 0..(Distance - 1)]_vars

\* A function that throws ends the process, only destructors run while a scope
\* is left, and there are finitely many handles and threads at any time.
LeavingInv ==
  /\ ~terminated => \A t \in Threads : thread[t] # "threw"
  /\ leaving /\ call # Idle => call.op \in {"destroy", "release"}
  /\ IsFiniteSet(alive) /\ IsFiniteSet(Running)

LEMMA InitLeavingInv == Init => LeavingInv
  <1> SUFFICES ASSUME Init PROVE LeavingInv
    OBVIOUS
  <1>1. alive = {} /\ Running = {}
    BY DEF Init, Running
  <1> QED
    BY <1>1, FS_EmptySet DEF Init, LeavingInv

\* What each step does to the handles that are alive and the threads that run.
LEMMA StepCounts ==
  ASSUME IndInv, Next
  PROVE  /\ \/ alive' \subseteq alive
            \/ ~leaving /\ \E h \in Handles : alive' = alive \cup {h}
         /\ \/ Running' \subseteq Running
            \/ ~leaving /\ \E t \in Threads : Running' = Running \cup {t}
  <1> USE DEF Running, IndInv, TypeOK
  <1>0. call # Idle => call.h \in Handles /\ m_thread[call.h] \in Threads \cup {NoThread}
    OBVIOUS
  <1>1. ASSUME call # Idle, Joined(call.h) PROVE Running' \subseteq Running
    BY <1>0, <1>1 DEF Joined
  <1>2. ASSUME NEW h \in Handles, NEW t \in Threads, Start(h, t)
        PROVE  ~leaving /\ alive' = alive \cup {h} /\ Running' = Running \cup {t}
    BY <1>2 DEF Start, Statement
  <1>3. ASSUME NEW h \in Handles, NEW k \in Handles, Default(h) \/ MoveConstruct(h, k)
        PROVE  ~leaving /\ alive' = alive \cup {h} /\ Running' = Running
    BY <1>3 DEF Default, MoveConstruct, Statement
  <1>4. ASSUME NEW h \in Handles, NEW k \in Handles,
               Assign(h, k) \/ CallJoin(h) \/ CallDestroy(h)
        PROVE  alive' = alive /\ Running' = Running
    BY <1>4 DEF Assign, CallJoin, CallDestroy, Enter
  <1>5. CASE Leave \/ Terminate \/ Release \/ Move
    BY <1>5 DEF Leave, Terminate, Release, Move
  <1>6. CASE Join
    BY <1>1, <1>6 DEF Join
  <1>7. CASE AfterJoin
    BY <1>1, <1>7 DEF AfterJoin, JoinIfJoinable
  <1>8. ASSUME NEW t \in Threads, ThreadReturns(t) \/ ThreadThrows(t)
        PROVE  alive' = alive /\ Running' \subseteq Running
    BY <1>8 DEF ThreadReturns, ThreadThrows
  <1> QED
    BY <1>2, <1>3, <1>4, <1>5, <1>6, <1>7, <1>8 DEF Next, Client

LEMMA StepLeavingInv == IndInv /\ LeavingInv /\ [Next]_vars => LeavingInv'
  <1> SUFFICES ASSUME IndInv, LeavingInv, [Next]_vars PROVE LeavingInv'
    OBVIOUS
  <1>1. CASE UNCHANGED vars
    BY <1>1 DEF vars, LeavingInv, Running
  <1>2. CASE Next
    <2>1. \A h : IsFiniteSet(alive \cup {h}) /\ IsFiniteSet(Running \cup {h})
      BY FS_AddElement DEF LeavingInv
    <2>2. IsFiniteSet(alive') /\ IsFiniteSet(Running')
      BY <1>2, <2>1, StepCounts, FS_Subset DEF LeavingInv
    <2>3. ~terminated' => \A t \in Threads : thread'[t] # "threw"
      BY <1>2 DEF Next, Client, Default, Start, MoveConstruct, Assign, CallJoin, CallDestroy,
           Statement, Enter, Leave, Join, Joined, AfterJoin, JoinIfJoinable, Terminate, Release,
           Move, ThreadReturns, ThreadThrows, IndInv, TypeOK, LeavingInv
    <2>4. ASSUME leaving', call' # Idle PROVE call'.op \in {"destroy", "release"}
      <3>1. CASE \E h \in Handles : CallDestroy(h)
        BY <3>1 DEF CallDestroy, Enter
      <3>2. CASE ~\E h \in Handles : CallDestroy(h)
        <4>1. leaving /\ call # Idle
          BY <1>2, <2>4, <3>2
             DEF Next, Client, Default, Start, MoveConstruct, Assign, CallJoin, Statement, Enter,
                 Leave, Join, AfterJoin, Terminate, Release, Move, ThreadReturns, ThreadThrows
        <4>2. call' = call \/ AfterJoin
          BY <1>2, <2>4, <3>2, <4>1
             DEF Next, Client, Default, Start, MoveConstruct, Assign, CallJoin, Statement, Enter,
                 Leave, Join, Terminate, Release, Move, ThreadReturns, ThreadThrows, LeavingInv
        <4>3. CASE AfterJoin
          BY <4>1, <4>3 DEF AfterJoin, LeavingInv, IndInv, TypeOK, Calls
        <4> QED
          BY <4>1, <4>2, <4>3 DEF LeavingInv
      <3> QED
        BY <3>1, <3>2
    <2> QED
      BY <2>2, <2>3, <2>4 DEF LeavingInv
  <1> QED
    BY <1>1, <1>2

\* A step in a scope that is left begins a destructor, ends the join in it or ends
\* it with its handle, or it ends a thread or the process.
LEMMA StepLeadsOut ==
  ASSUME IndInv, LeavingInv, Next, leaving
  PROVE  Distance \in Nat /\ Distance' \in 0..(Distance - 1)
  <1> DEFINE a == Cardinality(alive)
             r == Cardinality(Running)
  <1>1. /\ a \in Nat /\ r \in Nat /\ IsFiniteSet(alive) /\ IsFiniteSet(Running)
        /\ alive' \subseteq alive /\ Running' \subseteq Running
    BY StepCounts, FS_CardinalityType DEF LeavingInv
  <1>2. a' \in 0..a /\ r' \in 0..r
    BY <1>1, FS_Subset, FS_CardinalityType
  <1>3. CASE \E h \in Handles : CallDestroy(h)
    <2>1. PICK h \in Handles : CallDestroy(h)
      BY <1>3
    <2>2. PICK op \in {"destroy", "release"} :
             /\ call = Idle /\ UNCHANGED <<alive, thread, terminated>>
             /\ call' = [op |-> op, h |-> h, from |-> h, moved |-> m_thread[h]]
      BY <2>1 DEF CallDestroy, Enter
    <2>3. call' # Idle
      <3>1. [op |-> op, h |-> h, from |-> h, moved |-> m_thread[h]] \in Calls
        BY DEF Calls, IndInv, TypeOK
      <3> QED
        BY <2>2, <3>1, CallIsNotIdle
    <2>4. a' = a /\ r' = r
      BY <2>2 DEF Running
    <2> QED
      BY <1>1, <2>2, <2>3, <2>4 DEF Distance
  <1>4. CASE AfterJoin
    <2>1. /\ call \in Calls /\ call # Idle /\ call.op = "destroy"
          /\ call' = [call EXCEPT !.op = "release"] /\ terminated' = terminated
      BY <1>4 DEF AfterJoin, LeavingInv, IndInv, TypeOK
    <2>2. call' \in Calls /\ call'.op = "release"
      BY <2>1 DEF Calls
    <2>3. call' # Idle
      BY <2>2, CallIsNotIdle
    <2> QED
      BY <1>1, <1>2, <2>1, <2>2, <2>3 DEF Distance
  <1>5. CASE Release
    <2>1. /\ call # Idle /\ call.op = "release" /\ call.h \in alive
          /\ call' = Idle /\ alive' = alive \ {call.h} /\ terminated' = terminated
      BY <1>5 DEF Release, IndInv, TypeOK
    <2>2. a' = a - 1
      BY <1>1, <2>1, FS_RemoveElement
    <2> QED
      BY <1>1, <1>2, <2>1, <2>2 DEF Distance
  <1>6. CASE Terminate
    <2>1. ~terminated /\ terminated' /\ UNCHANGED call
      BY <1>6 DEF Terminate
    <2> QED
      BY <1>1, <1>2, <2>1 DEF Distance
  <1>7. ASSUME NEW t \in Threads, ThreadReturns(t) \/ ThreadThrows(t)
        PROVE  Distance \in Nat /\ Distance' \in 0..(Distance - 1)
    <2>1. t \in Running /\ Running' \subseteq Running \ {t} /\ UNCHANGED call
          /\ (terminated => terminated')
      BY <1>1, <1>7 DEF ThreadReturns, ThreadThrows, Running, IndInv, TypeOK
    <2>2. /\ Cardinality(Running \ {t}) = r - 1
          /\ IsFiniteSet(Running \ {t})
      BY <1>1, <2>1, FS_RemoveElement
    <2>3. r' <= r - 1
      BY <2>1, <2>2, FS_Subset
    <2> QED
      BY <1>1, <1>2, <2>1, <2>3 DEF Distance
  <1> QED
    BY <1>3, <1>4, <1>5, <1>6, <1>7
       DEF Next, Client, Default, Start, MoveConstruct, Assign, CallJoin, Statement, Leave, Join,
           Move, LeavingInv

-----------------------------------------------------------------------------
\* Every reachable state satisfies the inductive invariant.
THEOREM Invariance == Spec => []IndInv
  BY InitIndInv, StepIndInv, PTL DEF Spec

\* The state is well typed.
THEOREM TypeCorrect == Spec => []TypeOK
  BY Invariance, PTL DEF IndInv

\* Each thread that is started and not joined belongs to exactly one handle.
THEOREM NoneLostNoneTwice == Spec => []HeldOnce
  BY Invariance, PTL DEF IndInv

\* Only plain std::thread handles and functions that throw end the process: the
\* member of a JoinableThread has been joined when it is assigned to or destroyed.
THEOREM JoiningIsSafe == Spec => []OnlyPlainThreadsTerminate
  BY Invariance, PTL DEF IndInv

\* No thread is left when main() has left its scope.
THEOREM ScopeJoins == Spec => []NoThreadLeft
  <1>1. IndInv => NoThreadLeft
    BY DEF IndInv, HeldOnce, NoThreadLeft, Left
  <1> QED
    BY <1>1, Invariance, PTL

\* A thread that ended by an exception ended the process, and only destructors
\* run in a scope that is left.
THEOREM LeavingIsOrderly == Spec => []LeavingInv
  BY InitLeavingInv, StepLeavingInv, Invariance, PTL DEF Spec

\* No call waits for a thread that is joined already, or was never started.
THEOREM CallsWaitForRunningThreads == Spec => []NoCallHangs
  <1>1. IndInv /\ LeavingInv => NoCallHangs
    BY DEF IndInv, TypeOK, HeldOnce, CallInv, Calls, LeavingInv, NoCallHangs, CallCanGoOn, Unjoined,
           Running, Joinable
  <1> QED
    BY <1>1, Invariance, LeavingIsOrderly, PTL

\* A scope that is left can always go on to its end.
THEOREM LeavingCanGoOn == Spec => []LeavingNeverStuck
  <1>1. NoCallHangs /\ LeavingInv => LeavingNeverStuck
    BY DEF NoCallHangs, LeavingInv, LeavingNeverStuck, Left
  <1> QED
    BY <1>1, CallsWaitForRunningThreads, LeavingIsOrderly, PTL

\* Every step of a scope that is left brings it closer to its end.
THEOREM LeavingComesCloser == Spec => EveryStepLeadsOut
  <1>1. IndInv /\ LeavingInv /\ [Next]_vars =>
          [leaving => Distance \in Nat /\ Distance' \in 0..(Distance - 1)]_vars
    BY StepLeadsOut
  <1>2. Spec => [][leaving => Distance \in Nat /\ Distance' \in 0..(Distance - 1)]_vars
    BY <1>1, Invariance, LeavingIsOrderly, PTL DEF Spec
  <1> QED
    BY <1>2 DEF EveryStepLeadsOut

\* An assignment hands over the thread its right-hand side held at the start.
THEOREM AssignmentTransfers == Spec => AssignTransfers
  <1>1. IndInv /\ [Next]_vars =>
          [call # Idle /\ call.op = "move" /\ call' # call => m_thread'[call.h] = call.moved]_vars
    <2> SUFFICES ASSUME IndInv, Next, call # Idle, call.op = "move", call' # call
                 PROVE  m_thread'[call.h] = call.moved
      OBVIOUS
    <2>1. Move
      BY DEF Next, Client, Default, Start, MoveConstruct, Assign, CallJoin, CallDestroy, Statement,
             Leave, Join, AfterJoin, Terminate, Release, ThreadReturns, ThreadThrows
    <2>2. /\ call.h \in Handles /\ m_thread[call.from] = call.moved
          /\ m_thread \in [Handles -> Threads \cup {NoThread}]
      BY DEF IndInv, TypeOK, CallInv
    <2>3. CASE call.h # call.from
      BY <2>1, <2>2, <2>3 DEF Move
    <2>4. CASE call.h = call.from
      BY <2>1, <2>2, <2>4 DEF Move, Joinable
    <2> QED
      BY <2>3, <2>4
  <1>2. Spec => [][call # Idle /\ call.op = "move" /\ call' # call
                   => m_thread'[call.h] = call.moved]_vars
    BY <1>1, Invariance, PTL DEF Spec
  <1> QED
    BY <1>2 DEF AssignTransfers
=============================================================================

---------------------------- MODULE JoinableThread ----------------------------
(***************************************************************************)
(* src/src/JoinableThread.h: handles of threads that are joined before     *)
(* they are destroyed or assigned to, beside plain std::thread handles,    *)
(* as one client thread uses them in any legal order: main() of            *)
(* 1_thread.cpp, 3_mutex.cpp and 7_condition_variable.cpp, the body of     *)
(* 8_thread_safe_queue.cpp, and the vector of ThreadPool.h, which moves    *)
(* its elements about.  A JoinableThread is a std::thread itself, its      *)
(* member, which ends the process when it is assigned to or destroyed      *)
(* while it is joinable; only JoinIfJoinable() keeps it from that.  The    *)
(* futures that 2_async.cpp discards are temporaries that join as well.    *)
(***************************************************************************)
EXTENDS Integers, FiniteSets

CONSTANTS Handles,
          Joining,      \* the JoinableThreads among them
          Temporaries,  \* objects destroyed at the end of the statement
          Threads, NoThread,
          Throwing      \* threads whose function may throw

ASSUME NamesAssumption == NoThread \notin Threads
ASSUME KindsAssumption == Joining \subseteq Handles /\ Temporaries \subseteq Handles

VARIABLES alive,       \* the handles that are constructed and not destroyed
          m_thread,    \* the thread each of them refers to
          thread,      \* the state of each thread
          call,        \* the operation the client is in
          leaving,     \* it leaves its scope, by a return or an exception
          terminated   \* std::terminate

vars == <<alive, m_thread, thread, call, leaving, terminated>>

\* "assign" and "destroy" are operator= and the destructor of JoinableThread,
\* "move" and "release" those of std::thread, which they come to in their turn.
\* moved: what the right-hand side of an assignment held when it began.
Calls == [op : {"assign", "destroy", "move", "release", "join"}, h : Handles, from : Handles,
          moved : Threads \cup {NoThread}]
Idle == <<>>

Joinable(h) == m_thread[h] # NoThread

-----------------------------------------------------------------------------
Init ==
  /\ alive = {}
  /\ m_thread = [h \in Handles |-> NoThread]
  /\ thread = [t \in Threads |-> "unborn"]
  /\ call = Idle
  /\ leaving = FALSE
  /\ terminated = FALSE

\* A statement that uses no temporary but k.
Statement(k) ==
  /\ ~terminated /\ call = Idle /\ ~leaving
  /\ \A h \in alive \cap Temporaries : h = k \/ ~Joinable(h)

\* The default constructor.
Default(h) ==
  /\ Statement(h) /\ h \notin alive
  /\ alive' = alive \cup {h}
  /\ UNCHANGED <<m_thread, thread, call, leaving, terminated>>

\* The constructor that starts a thread.
Start(h, t) ==
  /\ Statement(h) /\ h \notin alive /\ thread[t] = "unborn"
  /\ alive' = alive \cup {h}
  /\ m_thread' = [m_thread EXCEPT ![h] = t]
  /\ thread' = [thread EXCEPT ![t] = "running"]
  /\ UNCHANGED <<call, leaving, terminated>>

\* Faulty variant: the handle that is moved from keeps the thread.
MoveConstruct_Copies(h, k) ==
  /\ Statement(k) /\ h \notin alive /\ k \in alive
  /\ alive' = alive \cup {h}
  /\ m_thread' = [m_thread EXCEPT ![h] = m_thread[k]]
  /\ UNCHANGED <<thread, call, leaving, terminated>>

\* The move constructor, and those from a std::thread, which get() also returns.
MoveConstruct(h, k) ==
  /\ Statement(k) /\ h \notin alive /\ k \in alive
  /\ alive' = alive \cup {h}
  /\ m_thread' = [m_thread EXCEPT ![h] = m_thread[k], ![k] = NoThread]
  /\ UNCHANGED <<thread, call, leaving, terminated>>

Enter(op, h, k) ==
  /\ call' = [op |-> op, h |-> h, from |-> k, moved |-> m_thread[k]]
  /\ UNCHANGED <<alive, m_thread, thread, leaving, terminated>>

\* Faulty variant: without the test for self-assignment.
Assign_NoSelfTest(h, k) ==
  /\ Statement(k) /\ h \in alive /\ k \in alive
  /\ Enter(IF h \in Joining THEN "assign" ELSE "move", h, k)

\* Faulty variant: the operator= a compiler writes, which assigns the member.
Assign_Defaulted(h, k) ==
  /\ Statement(k) /\ h \in alive /\ k \in alive
  /\ Enter("move", h, k)

\* operator= of either kind; a JoinableThread assigned to itself stays as it is.
Assign(h, k) ==
  /\ Statement(k) /\ h \in alive /\ k \in alive
  /\ h \in Joining => h # k
  /\ Enter(IF h \in Joining THEN "assign" ELSE "move", h, k)

\* join(); on a handle without a thread it throws and changes nothing.
CallJoin(h) ==
  /\ Statement(h) /\ h \in alive /\ Joinable(h)
  /\ Enter("join", h, h)

\* The end of a scope, of a statement or of a container.
CallDestroy(h) ==
  /\ ~terminated /\ call = Idle /\ h \in alive
  /\ alive \cap Temporaries # {} => h \in Temporaries
  /\ Enter(IF h \in Joining THEN "destroy" ELSE "release", h, h)

\* A return or an exception, thrown in the client or by one of the calls.
Leave ==
  /\ ~terminated /\ call = Idle /\ ~leaving
  /\ leaving' = TRUE
  /\ UNCHANGED <<alive, m_thread, thread, call, terminated>>

\* Faulty variant: the handle stays joinable.
Joined_StaysJoinable(h) ==
  /\ thread[m_thread[h]] = "finished"
  /\ thread' = [thread EXCEPT ![m_thread[h]] = "joined"]
  /\ UNCHANGED m_thread

\* std::thread::join waits for the end of the thread.
Joined(h) ==
  /\ thread[m_thread[h]] = "finished"
  /\ thread' = [thread EXCEPT ![m_thread[h]] = "joined"]
  /\ m_thread' = [m_thread EXCEPT ![h] = NoThread]

Join ==
  /\ ~terminated /\ call # Idle /\ call.op = "join"
  /\ Joined(call.h)
  /\ call' = Idle
  /\ UNCHANGED <<alive, leaving, terminated>>

JoinIfJoinable(h) ==
  \/ Joinable(h) /\ Joined(h)
  \/ ~Joinable(h) /\ UNCHANGED <<m_thread, thread>>

\* After it operator= assigns to the member, and the destructor destroys it.
AfterJoin ==
  /\ ~terminated /\ call # Idle
  /\ \E step \in {<<"assign", "move">>, <<"destroy", "release">>} :
       call.op = step[1] /\ call' = [call EXCEPT !.op = step[2]]
  /\ JoinIfJoinable(call.h)
  /\ UNCHANGED <<alive, leaving, terminated>>

\* A std::thread, plain or a member, is assigned to or destroyed while joinable.
Terminate ==
  /\ ~terminated /\ call # Idle /\ call.op \in {"move", "release"}
  /\ Joinable(call.h)
  /\ terminated' = TRUE
  /\ UNCHANGED <<alive, m_thread, thread, call, leaving>>

\* The destructor of std::thread.
Release ==
  /\ ~terminated /\ call # Idle /\ call.op = "release"
  /\ ~Joinable(call.h)
  /\ alive' = alive \ {call.h}
  /\ call' = Idle
  /\ UNCHANGED <<m_thread, thread, leaving, terminated>>

\* m_thread = std::move(thread)
Move ==
  /\ ~terminated /\ call # Idle /\ call.op = "move"
  /\ ~Joinable(call.h)
  /\ m_thread' = [m_thread EXCEPT ![call.h] = m_thread[call.from], ![call.from] = NoThread]
  /\ call' = Idle
  /\ UNCHANGED <<alive, thread, leaving, terminated>>

ThreadReturns(t) ==
  /\ ~terminated /\ thread[t] = "running"
  /\ thread' = [thread EXCEPT ![t] = "finished"]
  /\ UNCHANGED <<alive, m_thread, call, leaving, terminated>>

ThreadThrows(t) ==
  /\ ~terminated /\ thread[t] = "running" /\ t \in Throwing
  /\ thread' = [thread EXCEPT ![t] = "threw"]
  /\ terminated' = TRUE
  /\ UNCHANGED <<alive, m_thread, call, leaving>>

Client ==
  \/ \E h \in Handles : Default(h) \/ CallJoin(h) \/ CallDestroy(h)
  \/ \E h \in Handles, t \in Threads : Start(h, t)
  \/ \E h, k \in Handles : MoveConstruct(h, k) \/ Assign(h, k)
  \/ Leave \/ Join \/ AfterJoin \/ Terminate \/ Release \/ Move

Next ==
  \/ Client
  \/ \E t \in Threads : ThreadReturns(t) \/ ThreadThrows(t)

Spec == Init /\ [][Next]_vars

\* The functions of the threads come to an end, and the client goes on.
FairSpec == Spec /\ WF_vars(Client) /\ \A t \in Threads : WF_vars(ThreadReturns(t))
-----------------------------------------------------------------------------
(***************************************************************************)
(* Properties                                                              *)
(***************************************************************************)

Unjoined == {t \in Threads : thread[t] \in {"running", "finished", "threw"}}
Left == leaving /\ alive = {} /\ call = Idle

\* The types of the state; a call is about handles that are alive, and a dead
\* handle refers to nothing.
TypeOK ==
  /\ alive \subseteq Handles
  /\ m_thread \in [Handles -> Threads \cup {NoThread}]
  /\ thread \in [Threads -> {"unborn", "running", "finished", "threw", "joined"}]
  /\ call \in {Idle} \cup Calls
  /\ leaving \in BOOLEAN /\ terminated \in BOOLEAN
  /\ call # Idle => call.h \in alive /\ call.from \in alive
  /\ \A h \in Handles \ alive : ~Joinable(h)

\* Whatever is moved where, each thread that is started and not joined belongs
\* to exactly one handle: none is lost, and none would be joined twice.
HeldOnce ==
  /\ \A t \in Unjoined : \E h \in alive : m_thread[h] = t
  /\ \A h \in Handles : Joinable(h) => m_thread[h] \in Unjoined
  /\ \A h, k \in Handles : Joinable(h) /\ m_thread[h] = m_thread[k] => h = k

\* When main() has left its scope, also by an exception, no thread is left.
NoThreadLeft == Left => Unjoined = {}

\* Although each JoinableThread has a std::thread for a member, no operation on
\* one ends the process: by the time its member is assigned to or destroyed it
\* has been joined.  Only a function that throws, or a plain handle, does.
OnlyPlainThreadsTerminate ==
  terminated =>
    \/ \E t \in Throwing : thread[t] = "threw"
    \/ call # Idle /\ call.h \notin Joining

\* An assignment gives the left-hand side the very thread its right-hand side
\* held when it began, although it may wait for another thread in between.
AssignTransfers == [][call # Idle /\ call.op = "move" /\ call' # call =>
                        m_thread'[call.h] = call.moved]_vars

\* The scope is left, unless the process is terminated: no destructor waits for
\* a thread that cannot be joined any more.
ScopeEnds == leaving ~> terminated \/ Left
=============================================================================

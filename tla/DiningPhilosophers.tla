-------------------------- MODULE DiningPhilosophers --------------------------
(***************************************************************************)
(* src/src/6_deadlock_detection.cpp: a table of forks (std::mutex), one    *)
(* thread per philosopher, and main, which starts them, sleeps, and then   *)
(* cancels and joins them one by one, the last started first.              *)
(*                                                                         *)
(* The program has as many seats as philosophers; Table and Philosopher    *)
(* work with any number of either, so both are constants.  Philosopher p   *)
(* is started with GetSeat(p).                                             *)
(***************************************************************************)
EXTENDS Integers

CONSTANTS SeatCount,   \* the seats of the table, and so its forks
          Diners,      \* how many philosophers main starts
          Nobody       \* the owner of a free fork

Philosophers == 0..(Diners - 1)
Forks == 0..(SeatCount - 1)

ASSUME CountAssumption == SeatCount \in Nat \ {0} /\ Diners \in Nat \ {0}
ASSUME NobodyAssumption == Nobody \notin Int

VARIABLES m_forks,       \* the philosopher that holds each fork, or Nobody
          m_cancelled,
          pc,            \* where each philosopher's thread is
          started,       \* the philosophers that main has and has not yet joined
          main           \* where main is

vars == <<m_forks, m_cancelled, pc, started, main>>

\* GetSeat: a philosopher's forks, in the order of locking.
Fork1(p) == p % SeatCount
Fork2(p) == (p + 1) % SeatCount

Points == {"none", "while", "lock1", "lock2", "eat", "unlock2", "unlock1", "exited"}
Goto(p, point) == pc' = [pc EXCEPT ![p] = point]

Init ==
  /\ m_forks = [i \in Forks |-> Nobody]
  /\ m_cancelled = [p \in Philosophers |-> FALSE]
  /\ pc = [p \in Philosophers |-> "none"]
  /\ started = 0
  /\ main = "start"

\* Faulty variant: the flag is not looked at again.
While_Forever(p) ==
  /\ pc[p] = "while"
  /\ Goto(p, "lock1")
  /\ UNCHANGED <<m_forks, m_cancelled, started, main>>

\* while (!m_cancelled): leave, or think and go to eat.
While(p) ==
  /\ pc[p] = "while"
  /\ Goto(p, IF m_cancelled[p] THEN "exited" ELSE "lock1")
  /\ UNCHANGED <<m_forks, m_cancelled, started, main>>

Lock1(p) ==
  /\ pc[p] = "lock1"
  /\ m_forks[Fork1(p)] = Nobody
  /\ m_forks' = [m_forks EXCEPT ![Fork1(p)] = p]
  /\ Goto(p, "lock2")
  /\ UNCHANGED <<m_cancelled, started, main>>

Lock2(p) ==
  /\ pc[p] = "lock2"
  /\ m_forks[Fork2(p)] = Nobody
  /\ m_forks' = [m_forks EXCEPT ![Fork2(p)] = p]
  /\ Goto(p, "eat")
  /\ UNCHANGED <<m_cancelled, started, main>>

Eat(p) ==
  /\ pc[p] = "eat"
  /\ Goto(p, "unlock2")
  /\ UNCHANGED <<m_forks, m_cancelled, started, main>>

\* The locks go in the reverse order of their declaration.
Unlock2(p) ==
  /\ pc[p] = "unlock2"
  /\ m_forks' = [m_forks EXCEPT ![Fork2(p)] = Nobody]
  /\ Goto(p, "unlock1")
  /\ UNCHANGED <<m_cancelled, started, main>>

\* Faulty variant: the first fork is kept.
Unlock1_Kept(p) ==
  /\ pc[p] = "unlock1"
  /\ Goto(p, "while")
  /\ UNCHANGED <<m_forks, m_cancelled, started, main>>

Unlock1(p) ==
  /\ pc[p] = "unlock1"
  /\ m_forks' = [m_forks EXCEPT ![Fork1(p)] = Nobody]
  /\ Goto(p, "while")
  /\ UNCHANGED <<m_cancelled, started, main>>

(* main *)

Start ==
  /\ main = "start"
  /\ started < Diners
  /\ Goto(started, "while")
  /\ started' = started + 1
  /\ UNCHANGED <<m_forks, m_cancelled, main>>

\* The end of main's sleep, or of the destructor before: ~Philosopher.
Cancel ==
  /\ \/ main = "start" /\ started = Diners
     \/ main = "joined" /\ started > 0
  /\ m_cancelled' = [m_cancelled EXCEPT ![started - 1] = TRUE]
  /\ main' = "join"
  /\ UNCHANGED <<m_forks, pc, started>>

\* Faulty variant: the thread is not waited for.
Join_Detached ==
  /\ main = "join"
  /\ started' = started - 1
  /\ main' = "joined"
  /\ UNCHANGED <<m_forks, m_cancelled, pc>>

Join ==
  /\ main = "join"
  /\ pc[started - 1] = "exited"
  /\ started' = started - 1
  /\ main' = "joined"
  /\ UNCHANGED <<m_forks, m_cancelled, pc>>

\* The last destructor: the mutexes no longer exist.
ClearTable ==
  /\ main = "joined" /\ started = 0
  /\ main' = "end"
  /\ UNCHANGED <<m_forks, m_cancelled, pc, started>>

Lock(p) == Lock1(p) \/ Lock2(p)
Step(p) == While(p) \/ Lock(p) \/ Eat(p) \/ Unlock2(p) \/ Unlock1(p)
Main == Start \/ Cancel \/ Join \/ ClearTable

Next == Main \/ \E p \in Philosophers : Step(p)

Spec == Init /\ [][Next]_vars

\* Every runnable thread is eventually scheduled.  Philosophers never stop
\* eating by themselves, and each thinks for 50 ms before it locks again: a
\* thread whose fork becomes free again and again is given it at some time.
FairSpec ==
  /\ Spec /\ WF_vars(Main)
  /\ \A p \in Philosophers : WF_vars(Step(p)) /\ SF_vars(Lock(p))
-----------------------------------------------------------------------------
(***************************************************************************)
(* Properties                                                              *)
(***************************************************************************)

\* What a philosopher holds at each point.
HasFork1(p) == pc[p] \in {"lock2", "eat", "unlock2", "unlock1"}
HasFork2(p) == pc[p] \in {"eat", "unlock2"}

\* The types of the state, and that a fork is held by exactly the philosopher
\* inside the scope of its lock.
TypeOK ==
  /\ m_forks \in [Forks -> Philosophers \cup {Nobody}]
  /\ m_cancelled \in [Philosophers -> BOOLEAN]
  /\ pc \in [Philosophers -> Points]
  /\ started \in 0..Diners
  /\ main \in {"start", "join", "joined", "end"}
  /\ main = "join" => started > 0
  /\ \A p \in Philosophers, i \in Forks :
       m_forks[i] = p <=> \/ HasFork1(p) /\ i = Fork1(p)
                          \/ HasFork2(p) /\ i = Fork2(p)

\* The philosopher that p waits for in a lock, or Nobody.
WaitsFor(p) ==
  IF pc[p] = "lock1" THEN m_forks[Fork1(p)]
  ELSE IF pc[p] = "lock2" THEN m_forks[Fork2(p)] ELSE Nobody

\* Each fork is the first fork of one that waits for its second.
Circle == \A i \in Forks : \E p \in Philosophers : pc[p] = "lock2" /\ Fork1(p) = i

\* Philosophers can only wait for each other in a circle right round the table,
\* of which they are themselves.  So an empty seat excludes every deadlock.
DeadlockNeedsFullTable ==
  \A S \in SUBSET Philosophers :
    S # {} /\ (\A p \in S : WaitsFor(p) \in S) =>
      \A i \in Forks : \E p \in S : pc[p] = "lock2" /\ Fork1(p) = i

\* The forks are destroyed when no thread uses them any more: main destroys the
\* philosophers first and each destructor waits for its thread, which leaves
\* its loop without a fork.
TableOutlivesDiners ==
  main = "end" => /\ \A p \in Philosophers : pc[p] = "exited"
                  /\ \A i \in Forks : m_forks[i] = Nobody

\* Each philosopher that goes to eat does eat, unless all are caught in a circle.
NobodyStarves == \A p \in Philosophers : pc[p] = "lock1" ~> (pc[p] = "eat" \/ Circle)

\* A circle is all that can keep main from cancelling and joining every
\* philosopher.
OnlyCirclesHangMain == <>(main = "end" \/ Circle)
=============================================================================

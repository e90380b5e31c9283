-------------------------- MODULE HierarchicalMutex --------------------------
(***************************************************************************)
(* src/src/hierarchical_mutex.h: mutexes with a rank; a thread may only    *)
(* lock downwards, and the process aborts when one tries otherwise.        *)
(*                                                                         *)
(* The rank a thread may go down from is thread_local; each mutex saves    *)
(* the rank it replaces in an `unsigned`, although ranks are `unsigned     *)
(* long`.  Word is the number of values of an unsigned: it exceeds         *)
(* MaxUlong where both types have 32 bits (the Visual C++ projects), and   *)
(* divides MaxUlong + 1 on LP64 systems (the CMake build under Linux).     *)
(***************************************************************************)
EXTENDS Integers

CONSTANTS Threads,
          Mutexes,    \* the hierarchical_mutex objects
          Nobody,     \* the owner of a free mutex
          NoMutex,
          MaxUlong,   \* the largest unsigned long
          Word        \* the number of values of an unsigned

ASSUME NamesAssumption == Nobody \notin Threads /\ NoMutex \notin Mutexes
ASSUME WidthAssumption == MaxUlong \in Nat /\ Word \in Nat \ {0}

VARIABLES hierarchy_value,            \* the rank of each mutex, a const member
          previous_hierarchy_value,
          internal_mutex,             \* the thread that holds it, or Nobody
          this_thread_hierarchy_value,
          pc, arg,     \* the call each thread is in, and on which mutex
          beneath,     \* the locks the owner of a mutex held when it took it
          violation,   \* the thread and mutex abort() was called for, or <<>>
          strayed      \* history: threads that have unlocked out of order

vars == <<hierarchy_value, previous_hierarchy_value, internal_mutex,
          this_thread_hierarchy_value, pc, arg, beneath, violation, strayed>>

Ulong == 0..MaxUlong
Points == {"idle", "lock", "try_lock", "update", "unlock"}

Held(t) == {m \in Mutexes : internal_mutex[m] = t}
Goto(t, point, m) == pc' = [pc EXCEPT ![t] = point] /\ arg' = [arg EXCEPT ![t] = m]

-----------------------------------------------------------------------------
Init ==
  /\ hierarchy_value \in [Mutexes -> Ulong]
  /\ previous_hierarchy_value = [m \in Mutexes |-> 0]
  /\ internal_mutex = [m \in Mutexes |-> Nobody]
  /\ this_thread_hierarchy_value = [t \in Threads |-> MaxUlong]
  /\ pc = [t \in Threads |-> "idle"]
  /\ arg = [t \in Threads |-> NoMutex]
  /\ beneath = [m \in Mutexes |-> {}]
  /\ violation = <<>>
  /\ strayed = {}

\* abort() ends the process.
Alive == violation = <<>>

\* lock() and try_lock() begin with check_for_hierarchy_violation().
CheckFails(t, m) ==
  /\ Alive /\ pc[t] = "idle"
  /\ this_thread_hierarchy_value[t] <= hierarchy_value[m]
  /\ violation' = <<t, m>>
  /\ UNCHANGED <<hierarchy_value, previous_hierarchy_value, internal_mutex,
                 this_thread_hierarchy_value, pc, arg, beneath, strayed>>

\* Faulty variant: < instead of <=.
CheckPasses_OrEqual(t, m) ==
  /\ Alive /\ pc[t] = "idle"
  /\ this_thread_hierarchy_value[t] >= hierarchy_value[m]
  /\ \E call \in {"lock", "try_lock"} : Goto(t, call, m)
  /\ UNCHANGED <<hierarchy_value, previous_hierarchy_value, internal_mutex,
                 this_thread_hierarchy_value, beneath, violation, strayed>>

CheckPasses(t, m) ==
  /\ Alive /\ pc[t] = "idle"
  /\ this_thread_hierarchy_value[t] > hierarchy_value[m]
  /\ \E call \in {"lock", "try_lock"} : Goto(t, call, m)
  /\ UNCHANGED <<hierarchy_value, previous_hierarchy_value, internal_mutex,
                 this_thread_hierarchy_value, beneath, violation, strayed>>

\* The standard mutex is taken, by lock() when it is free, by try_lock() if it is.
Take(t, m) ==
  /\ internal_mutex[m] = Nobody
  /\ internal_mutex' = [internal_mutex EXCEPT ![m] = t]
  /\ beneath' = [beneath EXCEPT ![m] = Held(t)]
  /\ Goto(t, "update", m)

TryLockFails(t) ==
  /\ Alive /\ pc[t] = "try_lock"
  /\ internal_mutex[arg[t]] # Nobody
  /\ Goto(t, "idle", NoMutex)
  /\ UNCHANGED <<hierarchy_value, previous_hierarchy_value, internal_mutex,
                 this_thread_hierarchy_value, beneath, violation, strayed>>

Lock(t) ==
  /\ Alive /\ pc[t] \in {"lock", "try_lock"}
  /\ Take(t, arg[t])
  /\ UNCHANGED <<hierarchy_value, previous_hierarchy_value,
                 this_thread_hierarchy_value, violation, strayed>>

\* update_hierarchy_value(): an unsigned keeps its value modulo Word.
Update(t) ==
  /\ Alive /\ pc[t] = "update"
  /\ previous_hierarchy_value' =
       [previous_hierarchy_value EXCEPT ![arg[t]] = this_thread_hierarchy_value[t] % Word]
  /\ this_thread_hierarchy_value' =
       [this_thread_hierarchy_value EXCEPT ![t] = hierarchy_value[arg[t]]]
  /\ Goto(t, "idle", NoMutex)
  /\ UNCHANGED <<hierarchy_value, internal_mutex, beneath, violation, strayed>>

\* A client may release any lock it holds.  Scoped locks release the one that
\* was taken last; a thread that releases another strays.
Last(t) == {m \in Held(t) : \A n \in Held(t) : m \notin beneath[n]}

Release(t, m) ==
  /\ Alive /\ pc[t] = "idle"
  /\ m \in Held(t)
  /\ strayed' = IF m \in Last(t) THEN strayed ELSE strayed \cup {t}
  /\ Goto(t, "unlock", m)
  /\ UNCHANGED <<hierarchy_value, previous_hierarchy_value, internal_mutex, beneath, violation>>

\* Faulty variant: the rank of the thread is reset instead of restored.
Restore_ToInitial(t, m) ==
  /\ Release(t, m)
  /\ this_thread_hierarchy_value' = [this_thread_hierarchy_value EXCEPT ![t] = MaxUlong]

\* unlock(): first the rank is restored, ...
Restore(t, m) ==
  /\ Release(t, m)
  /\ this_thread_hierarchy_value' =
       [this_thread_hierarchy_value EXCEPT ![t] = previous_hierarchy_value[m]]

\* ... then the standard mutex is released.
Unlock(t) ==
  /\ Alive /\ pc[t] = "unlock"
  /\ internal_mutex' = [internal_mutex EXCEPT ![arg[t]] = Nobody]
  /\ beneath' = [beneath EXCEPT ![arg[t]] = {}]
  /\ Goto(t, "idle", NoMutex)
  /\ UNCHANGED <<hierarchy_value, previous_hierarchy_value, this_thread_hierarchy_value,
                 violation, strayed>>

Next ==
  \E t \in Threads :
    \/ \E m \in Mutexes : CheckFails(t, m) \/ CheckPasses(t, m) \/ Restore(t, m)
    \/ TryLockFails(t) \/ Lock(t) \/ Update(t) \/ Unlock(t)

Spec == Init /\ [][Next]_vars
-----------------------------------------------------------------------------
(***************************************************************************)
(* Properties                                                              *)
(***************************************************************************)

\* The types of the state, and that a thread between lock and unlock owns the
\* standard mutex whose members it accesses.
TypeOK ==
  /\ hierarchy_value \in [Mutexes -> Ulong]
  /\ previous_hierarchy_value \in [Mutexes -> Ulong]
  /\ internal_mutex \in [Mutexes -> Threads \cup {Nobody}]
  /\ this_thread_hierarchy_value \in [Threads -> Ulong]
  /\ pc \in [Threads -> Points]
  /\ arg \in [Threads -> Mutexes \cup {NoMutex}]
  /\ beneath \in [Mutexes -> SUBSET Mutexes]
  /\ violation \in {<<>>} \cup (Threads \X Mutexes)
  /\ strayed \subseteq Threads
  /\ \A t \in Threads : /\ pc[t] = "idle" <=> arg[t] = NoMutex
                        /\ pc[t] \in {"update", "unlock"} => internal_mutex[arg[t]] = t

\* No threads wait for each other in a circle, and none waits for itself, unless
\* one of them has unlocked out of order: in every set of other threads one does
\* not wait in lock() for another of the set.
NoDeadlock ==
  \A S \in SUBSET (Threads \ strayed) :
    S # {} => \E t \in S : pc[t] = "lock" => internal_mutex[arg[t]] \notin S

\* A thread that unlocks in order takes its locks in strictly descending order,
\* whatever the widths and whatever other threads do: a rank cut to an unsigned
\* only gets smaller, so the check errs on one side.
HeldDescending ==
  \A m, n \in Mutexes :
    /\ internal_mutex[m] \in Threads \ strayed
    /\ internal_mutex[m] = internal_mutex[n]
    /\ m \in beneath[n]
    => hierarchy_value[n] < hierarchy_value[m]

\* Where no rank is cut, the rank of a thread that unlocks in order is between
\* two calls that of the lock it took last, and the initial one when it holds none.
IndexRestored ==
  \A t \in Threads \ strayed : pc[t] = "idle" =>
    this_thread_hierarchy_value[t] =
      IF Held(t) = {} THEN MaxUlong ELSE hierarchy_value[CHOOSE m \in Last(t) : TRUE]

\* What the comment of the class promises: a deadlock is reported when the rank of
\* a thread, that of a lock it holds, is less than the rank of the mutex it locks.
\* A mutex it holds already and one of the largest rank aside, the code reports one
\* for a mutex of equal rank too.
AbortJustified ==
  violation # <<>> =>
    LET m == violation[2] IN
      \/ hierarchy_value[m] = MaxUlong
      \/ violation[1] \in strayed
      \/ m \in Held(violation[1])
      \/ \E n \in Held(violation[1]) : hierarchy_value[n] < hierarchy_value[m]
=============================================================================

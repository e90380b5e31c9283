----------------------- MODULE HierarchicalMutex_proofs -----------------------
(***************************************************************************)
(* Threads that release their locks in reverse order never deadlock among  *)
(* themselves, whatever other threads do, for any threads, any mutexes, any *)
(* ranks and any widths of the two integer types.                          *)
(***************************************************************************)
EXTENDS HierarchicalMutex, WellFoundedInduction, TLAPS

\* Cutting a rank to an unsigned never raises it.
LEMMA CutIsLower == ASSUME NEW v \in Nat, NEW w \in Nat \ {0} PROVE v % w \in 0..v
  <1>1. v % w \in 0..(w - 1)
    OBVIOUS
  <1>2. CASE v < w
    BY <1>2
  <1>3. CASE v >= w
    BY <1>1, <1>3
  <1> QED
    BY <1>2, <1>3

-----------------------------------------------------------------------------
\* The threads that have always unlocked in order; the invariants below are
\* about the locks these hold.
Orderly == Threads \ strayed

\* What a lock was taken on top of is held by the same thread and ranks higher.
BeneathInv ==
  \A m \in Mutexes : internal_mutex[m] \in Orderly => \A n \in beneath[m] :
    /\ internal_mutex[n] = internal_mutex[m]
    /\ n # m /\ hierarchy_value[m] < hierarchy_value[n]

\* The locks of one thread are a chain.
ChainInv ==
  \A m, n \in Mutexes :
    m # n /\ internal_mutex[m] = internal_mutex[n] /\ internal_mutex[m] \in Orderly
    => m \in beneath[n] \/ n \in beneath[m]

\* The saved rank is no higher than the locks beneath.
SavedInv ==
  \A m \in Mutexes : internal_mutex[m] \in Orderly => \A n \in beneath[m] :
    \/ pc[internal_mutex[m]] = "update" /\ arg[internal_mutex[m]] = m
    \/ previous_hierarchy_value[m] <= hierarchy_value[n]

\* The rank of a thread is no higher than any lock it holds, the one it is
\* taking or releasing apart.
IndexInv ==
  \A t \in Orderly : \A n \in Held(t) :
    \/ pc[t] \in {"update", "unlock"} /\ arg[t] = n
    \/ this_thread_hierarchy_value[t] <= hierarchy_value[n]

\* A thread past the check is going down; the lock that a thread is taking or
\* releasing is its last.
CallInv ==
  \A t \in Orderly :
    /\ pc[t] \in {"lock", "try_lock", "update"} =>
         hierarchy_value[arg[t]] < this_thread_hierarchy_value[t]
    /\ pc[t] \in {"update", "unlock"} => \A n \in Held(t) : arg[t] \notin beneath[n]

IndInv == TypeOK /\ BeneathInv /\ ChainInv /\ SavedInv /\ IndexInv /\ CallInv

LEMMA InitIndInv == Init => IndInv
  BY NamesAssumption, WidthAssumption
     DEF Init, IndInv, TypeOK, Points, Ulong, BeneathInv, ChainInv, SavedInv, IndexInv, CallInv,
         Held, Orderly

LEMMA StepIndInv == IndInv /\ [Next]_vars => IndInv'
  <1> SUFFICES ASSUME IndInv, [Next]_vars PROVE IndInv'
    OBVIOUS
  <1> USE NamesAssumption, WidthAssumption
      DEF IndInv, TypeOK, Points, Ulong, BeneathInv, ChainInv, SavedInv, IndexInv, CallInv,
          Held, Goto, Orderly
  <1>1. CASE UNCHANGED vars
    BY <1>1 DEF vars
  <1>2. ASSUME NEW t \in Threads, NEW m \in Mutexes, CheckFails(t, m) PROVE IndInv'
    BY <1>2 DEF CheckFails
  <1>3. ASSUME NEW t \in Threads, NEW m \in Mutexes, CheckPasses(t, m) PROVE IndInv'
    BY <1>3 DEF CheckPasses
  <1>4. ASSUME NEW t \in Threads, NEW m \in Mutexes, Restore(t, m) PROVE IndInv'
    <2>1. TypeOK'
      BY <1>4 DEF Restore, Release, Last
    <2>2. BeneathInv' /\ ChainInv' /\ SavedInv'
      BY <1>4 DEF Restore, Release, Last
    <2>3. t \in Orderly' => m \in Last(t) /\ \A n \in Held(t) \ {m} : n \in beneath[m]
      BY <1>4 DEF Restore, Release, Last
    <2>4. IndexInv'
      BY <1>4, <2>3 DEF Restore, Release, Last
    <2>5. CallInv'
      BY <1>4 DEF Restore, Release, Last
    <2> QED
      BY <2>1, <2>2, <2>4, <2>5
  <1>5. ASSUME NEW t \in Threads, TryLockFails(t) PROVE IndInv'
    BY <1>5 DEF TryLockFails
  <1>6. ASSUME NEW t \in Threads, Lock(t) PROVE IndInv'
    <2>1. TypeOK'
      BY <1>6 DEF Lock, Take
    <2>2. BeneathInv' /\ ChainInv'
      BY <1>6 DEF Lock, Take
    <2>3. SavedInv'
      BY <1>6 DEF Lock, Take
    <2>4. IndexInv' /\ CallInv'
      BY <1>6 DEF Lock, Take
    <2> QED
      BY <2>1, <2>2, <2>3, <2>4
  <1>7. ASSUME NEW t \in Threads, Update(t) PROVE IndInv'
    <2> DEFINE m == arg[t]
               cut == this_thread_hierarchy_value[t] % Word
    <2>1. cut \in Ulong /\ cut <= this_thread_hierarchy_value[t]
      BY CutIsLower
    <2>2. TypeOK'
      BY <1>7, <2>1 DEF Update
    <2>3. BeneathInv' /\ ChainInv'
      BY <1>7 DEF Update
    <2>4. SavedInv'
      BY <1>7, <2>1 DEF Update
    <2>5. IndexInv' /\ CallInv'
      BY <1>7 DEF Update
    <2> QED
      BY <2>2, <2>3, <2>4, <2>5
  <1>8. ASSUME NEW t \in Threads, Unlock(t) PROVE IndInv'
    BY <1>8 DEF Unlock
  <1> QED
    BY <1>1, <1>2, <1>3, <1>4, <1>5, <1>6, <1>7, <1>8 DEF Next

\* Every reachable state satisfies the inductive invariant.
THEOREM Invariance == Spec => []IndInv
  BY InitIndInv, StepIndInv, PTL DEF Spec

\* The members of a mutex are accessed only by the thread that owns it.
THEOREM TypeCorrect == Spec => []TypeOK
  BY Invariance, PTL DEF IndInv

\* Threads take their locks in strictly descending order.
THEOREM Descending == Spec => []HeldDescending
  <1>1. IndInv => HeldDescending
    BY DEF IndInv, BeneathInv, HeldDescending, Orderly
  <1> QED
    BY <1>1, Invariance, PTL

\* No set of threads waits for itself: of the locks waited for, take the one of
\* lowest rank; its owner waits for a lower one.
THEOREM DeadlockFreedom == Spec => []NoDeadlock
  <1>1. IndInv => NoDeadlock
    <2> SUFFICES ASSUME IndInv, NEW S \in SUBSET Orderly, S # {},
                        \A t \in S : pc[t] = "lock" /\ internal_mutex[arg[t]] \in S
                 PROVE  FALSE
      BY DEF NoDeadlock, Orderly
    <2> DEFINE R == {hierarchy_value[arg[t]] : t \in S}
    <2>1. \A t \in S : arg[t] \in Mutexes /\ hierarchy_value[arg[t]] \in Nat
      <3> TAKE t \in S
      <3>1. pc[t] # "idle"
        OBVIOUS
      <3>2. arg[t] \in Mutexes
        BY <3>1 DEF IndInv, TypeOK, Orderly
      <3> QED
        BY <3>2, WidthAssumption DEF IndInv, TypeOK, Ulong
    <2>2. R \subseteq Nat /\ R # {}
      BY <2>1
    <2>3. PICK x \in R : \A y \in R : ~(<<y, x>> \in OpToRel(<, Nat))
      BY <2>2, NatLessThanWellFounded, WFMin
    <2>4. PICK t \in S : x = hierarchy_value[arg[t]]
      OBVIOUS
    <2> DEFINE s == internal_mutex[arg[t]]
    <2>5. s \in S /\ arg[t] \in Held(s) /\ pc[s] = "lock"
      BY <2>1 DEF Held
    <2>6. hierarchy_value[arg[s]] < this_thread_hierarchy_value[s]
      BY <2>5 DEF IndInv, CallInv
    <2>7. this_thread_hierarchy_value[s] <= hierarchy_value[arg[t]]
      BY <2>5 DEF IndInv, IndexInv
    <2>8. hierarchy_value[arg[s]] < x
      <3>1. hierarchy_value[arg[s]] \in Nat /\ hierarchy_value[arg[t]] \in Nat
        BY <2>1, <2>5
      <3>2. this_thread_hierarchy_value[s] \in Nat
        BY <2>5, WidthAssumption DEF IndInv, TypeOK, Ulong, Orderly
      <3> HIDE DEF s
      <3> QED
        BY <2>4, <2>6, <2>7, <3>1, <3>2
    <2> QED
      BY <2>1, <2>2, <2>3, <2>5, <2>8 DEF OpToRel
  <1> QED
    BY <1>1, Invariance, PTL
-----------------------------------------------------------------------------
(***************************************************************************)
(* Where unsigned is as wide as unsigned long the ranks are exact.         *)
(***************************************************************************)

\* The rank that a set of locks of one thread leaves it.
RankOn(locks, rank) ==
  \/ locks = {} /\ rank = MaxUlong
  \/ \E m \in locks : rank = hierarchy_value[m] /\ \A n \in locks : m \notin beneath[n]

\* A mutex saves the rank that the locks beneath it leave.
SavedExact ==
  \A m \in Mutexes :
    internal_mutex[m] \in Orderly =>
      \/ pc[internal_mutex[m]] = "update" /\ arg[internal_mutex[m]] = m
      \/ RankOn(beneath[m], previous_hierarchy_value[m])

\* The rank of a thread is that of the locks it holds, the one it is taking or
\* releasing apart.
IndexExact ==
  \A t \in Orderly :
    /\ pc[t] \in {"idle", "lock", "try_lock"} => RankOn(Held(t), this_thread_hierarchy_value[t])
    /\ pc[t] \in {"update", "unlock"} =>
         RankOn(beneath[arg[t]], this_thread_hierarchy_value[t])

ExactInv == SavedExact /\ IndexExact

LEMMA NotCut == ASSUME NEW v \in Nat, NEW w \in Nat \ {0}, v < w PROVE v % w = v
  OBVIOUS

LEMMA StepExact ==
  ASSUME Word > MaxUlong, IndInv, ExactInv, [Next]_vars
  PROVE  ExactInv'
  <1> USE NamesAssumption, WidthAssumption
      DEF IndInv, TypeOK, Points, Ulong, BeneathInv, ChainInv, CallInv, ExactInv, SavedExact,
          IndexExact, RankOn, Held, Goto, Orderly
  <1>1. CASE UNCHANGED vars
    BY <1>1 DEF vars
  <1>2. ASSUME NEW t \in Threads, NEW m \in Mutexes, CheckFails(t, m) PROVE ExactInv'
    <2>1. SavedExact'
      BY <1>2 DEF CheckFails
    <2>2. IndexExact'
      BY <1>2 DEF CheckFails
    <2> QED
      BY <2>1, <2>2
  <1>3. ASSUME NEW t \in Threads, NEW m \in Mutexes, CheckPasses(t, m) PROVE ExactInv'
    <2>1. SavedExact'
      BY <1>3 DEF CheckPasses
    <2>2. IndexExact'
      BY <1>3 DEF CheckPasses
    <2> QED
      BY <2>1, <2>2
  <1>4. ASSUME NEW t \in Threads, NEW m \in Mutexes, Restore(t, m) PROVE ExactInv'
    <2>1. SavedExact'
      BY <1>4 DEF Restore, Release, Last
    <2>2. ASSUME NEW s \in Orderly' PROVE
            /\ pc'[s] \in {"idle", "lock", "try_lock"} =>
                 RankOn(Held(s), this_thread_hierarchy_value[s])'
            /\ pc'[s] \in {"update", "unlock"} =>
                 RankOn(beneath[arg[s]], this_thread_hierarchy_value[s])'
      <3>1. /\ pc[t] = "idle" /\ m \in Held(t) /\ s \in Orderly
            /\ pc' = [pc EXCEPT ![t] = "unlock"] /\ arg' = [arg EXCEPT ![t] = m]
            /\ this_thread_hierarchy_value' =
                 [this_thread_hierarchy_value EXCEPT ![t] = previous_hierarchy_value[m]]
            /\ UNCHANGED <<hierarchy_value, internal_mutex, beneath>>
        BY <1>4, <2>2 DEF Restore, Release, Last
      <3>2. CASE s = t
        BY <3>1, <3>2
      <3>3. CASE s # t
        <4>1. /\ pc'[s] = pc[s] /\ arg'[s] = arg[s]
              /\ this_thread_hierarchy_value'[s] = this_thread_hierarchy_value[s]
          BY <3>1, <3>3
        <4>2. CASE pc[s] \in {"update", "unlock"}
          BY <3>1, <4>1, <4>2
        <4>3. CASE pc[s] \in {"idle", "lock", "try_lock"}
          <5>1. RankOn(Held(s), this_thread_hierarchy_value[s])
            BY <3>1, <4>3
          <5>2. Held(s)' = Held(s)
            BY <3>1
          <5> QED
            BY <3>1, <4>1, <4>3, <5>1, <5>2
        <4> QED
          BY <4>1, <4>2, <4>3
      <3> QED
        BY <3>2, <3>3
    <2> QED
      BY <2>1, <2>2
  <1>5. ASSUME NEW t \in Threads, TryLockFails(t) PROVE ExactInv'
    <2>1. SavedExact'
      BY <1>5 DEF TryLockFails
    <2>2. IndexExact'
      BY <1>5 DEF TryLockFails
    <2> QED
      BY <2>1, <2>2
  <1>6. ASSUME NEW t \in Threads, Lock(t) PROVE ExactInv'
    <2>1. SavedExact'
      BY <1>6 DEF Lock, Take
    <2>2. IndexExact'
      BY <1>6 DEF Lock, Take
    <2> QED
      BY <2>1, <2>2
  <1>7. ASSUME NEW t \in Threads, Update(t) PROVE ExactInv'
    <2> DEFINE m == arg[t]
    <2>1. this_thread_hierarchy_value[t] \in Nat /\ this_thread_hierarchy_value[t] < Word
      OBVIOUS
    <2>2. (this_thread_hierarchy_value[t] % Word) = this_thread_hierarchy_value[t]
      BY <2>1, NotCut
    <2>3. /\ m \in Mutexes /\ internal_mutex[m] = t /\ m \in Held(t)
          /\ pc[t] = "update" /\ pc' = [pc EXCEPT ![t] = "idle"] /\ arg' = [arg EXCEPT ![t] = NoMutex]
          /\ UNCHANGED <<hierarchy_value, internal_mutex, beneath, strayed>>
      BY <1>7 DEF Update
    <2>4. /\ previous_hierarchy_value' =
                [previous_hierarchy_value EXCEPT ![m] = this_thread_hierarchy_value[t]]
          /\ this_thread_hierarchy_value' =
                [this_thread_hierarchy_value EXCEPT ![t] = hierarchy_value[m]]
      BY <1>7, <2>2 DEF Update
    <2>5. t \in Orderly => RankOn(beneath[m], this_thread_hierarchy_value[t])
      BY <2>3
    <2> HIDE DEF m
    <2>6. ASSUME NEW n \in Mutexes, internal_mutex'[n] \in Orderly',
                 ~(pc'[internal_mutex'[n]] = "update" /\ arg'[internal_mutex'[n]] = n)
          PROVE  RankOn(beneath[n], previous_hierarchy_value[n])'
      <3>1. CASE n = m
        <4>1. previous_hierarchy_value'[n] = this_thread_hierarchy_value[t]
          BY <2>4, <3>1
        <4>2. t \in Orderly
          BY <2>3, <2>6, <3>1
        <4> QED
          BY <2>3, <2>5, <3>1, <4>1, <4>2
      <3>2. CASE n # m
        <4>1. ~(pc[internal_mutex[n]] = "update" /\ arg[internal_mutex[n]] = n)
          BY <2>3, <2>6, <3>2 DEF m
        <4>2. RankOn(beneath[n], previous_hierarchy_value[n])
          BY <2>3, <2>6, <4>1
        <4> QED
          BY <2>3, <2>4, <3>2, <4>2
      <3> QED
        BY <3>1, <3>2
    <2>7. ASSUME NEW s \in Orderly' PROVE
            /\ pc'[s] \in {"idle", "lock", "try_lock"} =>
                 RankOn(Held(s), this_thread_hierarchy_value[s])'
            /\ pc'[s] \in {"update", "unlock"} =>
                 RankOn(beneath[arg[s]], this_thread_hierarchy_value[s])'
      <3>1. CASE s = t
        <4>1. \A n \in Held(t) : m \notin beneath[n]
          BY <2>3, <2>7, <3>1 DEF m
        <4> QED
          BY <2>3, <2>4, <3>1, <4>1
      <3>2. CASE s # t
        <4>1. /\ pc'[s] = pc[s] /\ arg'[s] = arg[s] /\ s \in Orderly
              /\ this_thread_hierarchy_value'[s] = this_thread_hierarchy_value[s]
          BY <2>3, <2>4, <2>7, <3>2
        <4> QED
          BY <2>3, <4>1
      <3> QED
        BY <3>1, <3>2
    <2> QED
      BY <2>6, <2>7
  <1>8. ASSUME NEW t \in Threads, Unlock(t) PROVE ExactInv'
    <2>1. SavedExact'
      BY <1>8 DEF Unlock
    <2>2. ASSUME NEW s \in Orderly' PROVE
            /\ pc'[s] \in {"idle", "lock", "try_lock"} =>
                 RankOn(Held(s), this_thread_hierarchy_value[s])'
            /\ pc'[s] \in {"update", "unlock"} =>
                 RankOn(beneath[arg[s]], this_thread_hierarchy_value[s])'
      <3> DEFINE m == arg[t]
      <3>1. /\ m \in Mutexes /\ internal_mutex[m] = t /\ pc[t] = "unlock"
            /\ internal_mutex' = [internal_mutex EXCEPT ![m] = Nobody]
            /\ beneath' = [beneath EXCEPT ![m] = {}]
            /\ pc' = [pc EXCEPT ![t] = "idle"] /\ arg' = [arg EXCEPT ![t] = NoMutex]
            /\ UNCHANGED <<hierarchy_value, this_thread_hierarchy_value, strayed>>
        BY <1>8 DEF Unlock
      <3>2. \A n \in Mutexes : n # m => internal_mutex'[n] = internal_mutex[n] /\ beneath'[n] = beneath[n]
        BY <3>1
      <3>3. CASE s = t
        <4>1. RankOn(beneath[m], this_thread_hierarchy_value[t])
          BY <2>2, <3>1, <3>3
        <4>2. /\ Held(t)' = beneath[m] /\ m \notin beneath[m]
              /\ \A n \in beneath[m] : n \in Mutexes
          BY <2>2, <3>1, <3>2, <3>3
        <4> QED
          BY <3>1, <3>2, <3>3, <4>1, <4>2
      <3>4. CASE s # t
        <4>1. /\ pc'[s] = pc[s] /\ arg'[s] = arg[s] /\ s \in Orderly
              /\ this_thread_hierarchy_value'[s] = this_thread_hierarchy_value[s]
          BY <2>2, <3>1, <3>4
        <4>2. Held(s)' = Held(s) /\ m \notin Held(s) /\ Held(s) \subseteq Mutexes
          BY <3>1, <3>4, <4>1
        <4>3. \A n \in Held(s) : beneath'[n] = beneath[n] /\ beneath[n] \subseteq Held(s)
          BY <3>2, <4>1, <4>2
        <4>4. pc[s] = "update" \/ pc[s] = "unlock" => arg[s] \in Held(s)
          BY <4>1
        <4>5. CASE pc[s] \in {"update", "unlock"}
          <5>1. RankOn(beneath[arg[s]], this_thread_hierarchy_value[s])
            BY <4>1, <4>5
          <5> QED
            BY <3>1, <4>1, <4>2, <4>3, <4>4, <4>5, <5>1
        <4>6. CASE pc[s] \in {"idle", "lock", "try_lock"}
          <5>1. RankOn(Held(s), this_thread_hierarchy_value[s])
            BY <4>1, <4>6
          <5> QED
            BY <3>1, <4>1, <4>2, <4>3, <4>6, <5>1
        <4> QED
          BY <4>1, <4>5, <4>6
      <3> QED
        BY <3>3, <3>4
    <2> QED
      BY <2>1, <2>2
  <1> QED
    BY <1>1, <1>2, <1>3, <1>4, <1>5, <1>6, <1>7, <1>8 DEF Next

LEMMA Exactness == ASSUME Word > MaxUlong PROVE Spec => []ExactInv
  <1>1. Init => ExactInv
    BY NamesAssumption DEF Init, ExactInv, SavedExact, IndexExact, RankOn, Held, Orderly
  <1>2. IndInv /\ ExactInv /\ [Next]_vars => ExactInv'
    BY StepExact
  <1> QED
    BY <1>1, <1>2, Invariance, PTL DEF Spec

\* Where no rank is cut, a thread that unlocks in order has between two calls
\* the rank of the lock it took last.
THEOREM RankIsRestored == ASSUME Word > MaxUlong PROVE Spec => []IndexRestored
  <1>1. IndInv /\ ExactInv => IndexRestored
    <2> SUFFICES ASSUME IndInv, ExactInv, NEW t \in Threads \ strayed, pc[t] = "idle"
                 PROVE  this_thread_hierarchy_value[t] =
                          IF Held(t) = {} THEN MaxUlong
                          ELSE hierarchy_value[CHOOSE m \in Last(t) : TRUE]
      BY DEF IndexRestored
    <2>1. RankOn(Held(t), this_thread_hierarchy_value[t])
      BY DEF ExactInv, IndexExact, Orderly
    <2>2. CASE Held(t) = {}
      BY <2>1, <2>2 DEF RankOn
    <2>3. CASE Held(t) # {}
      <3>1. PICK m \in Last(t) : this_thread_hierarchy_value[t] = hierarchy_value[m]
        BY <2>1, <2>3 DEF RankOn, Last
      <3>2. \A n \in Last(t) : n = m
        BY DEF Last, Held, IndInv, ChainInv, Orderly
      <3>3. (CHOOSE n \in Last(t) : TRUE) \in Last(t)
        BY <3>1
      <3> QED
        BY <2>3, <3>1, <3>2, <3>3
    <2> QED
      BY <2>2, <2>3
  <1>2. Spec => []ExactInv
    BY Exactness
  <1> QED
    BY <1>1, <1>2, Invariance, PTL

\* What line 60 makes of the comment's "less": a lock that is not strictly lower.
AbortAccounted ==
  violation # <<>> =>
    LET m == violation[2] IN
      \/ hierarchy_value[m] = MaxUlong
      \/ violation[1] \in strayed
      \/ \E n \in Held(violation[1]) : hierarchy_value[n] <= hierarchy_value[m]

\* Where no rank is cut, the process aborts only for a lock that is not strictly
\* lower than one the thread holds (or has the largest rank), or for a thread that
\* has unlocked out of order.
THEOREM OnlyViolationsAbort == ASSUME Word > MaxUlong PROVE Spec => []AbortAccounted
  <1>1. Init => AbortAccounted
    BY DEF Init, AbortAccounted
  <1>2. IndInv /\ ExactInv /\ AbortAccounted /\ [Next]_vars => AbortAccounted'
    <2> SUFFICES ASSUME IndInv, ExactInv, AbortAccounted, [Next]_vars PROVE AbortAccounted'
      OBVIOUS
    <2>1. CASE UNCHANGED vars
      BY <2>1 DEF vars, AbortAccounted, Held
    <2>2. ASSUME NEW t \in Threads, NEW m \in Mutexes, CheckFails(t, m) PROVE AbortAccounted'
      <3>1. violation' = <<t, m>> /\ UNCHANGED <<hierarchy_value, internal_mutex, strayed>>
        BY <2>2 DEF CheckFails
      <3>2. /\ this_thread_hierarchy_value[t] <= hierarchy_value[m]
            /\ hierarchy_value[m] \in Ulong
        BY <2>2 DEF CheckFails, IndInv, TypeOK
      <3>3. CASE t \in strayed
        BY <3>1, <3>3 DEF AbortAccounted
      <3>4. CASE t \notin strayed
        <4>1. RankOn(Held(t), this_thread_hierarchy_value[t])
          BY <2>2, <3>4 DEF CheckFails, ExactInv, IndexExact, Orderly
        <4>2. hierarchy_value[m] = MaxUlong
              \/ \E n \in Held(t) : hierarchy_value[n] <= hierarchy_value[m]
          BY <3>2, <4>1, WidthAssumption DEF RankOn, Ulong
        <4> QED
          BY <3>1, <4>2 DEF AbortAccounted, Held
      <3> QED
        BY <3>3, <3>4
    <2>3. CASE Alive /\ violation' = violation
      BY <2>3 DEF Alive, AbortAccounted
    <2> QED
      BY <2>1, <2>2, <2>3
         DEF Next, CheckPasses, Restore, Release, TryLockFails, Lock, Take, Update, Unlock
  <1>3. Spec => []ExactInv
    BY Exactness
  <1> QED
    BY <1>1, <1>2, <1>3, Invariance, PTL DEF Spec
=============================================================================

---------------------------- MODULE Programs_proofs ----------------------------
(***************************************************************************)
(* Proofs about the two components that are programs of their own and not  *)
(* data structures: DiningPhilosophers, for any number of seats and of     *)
(* philosophers, and SuiteReporter, for any benchmarks, names and ranges.  *)
(* The two share nothing; each part speaks of the variables of one.        *)
(***************************************************************************)
EXTENDS DiningPhilosophers, SuiteReporter, FiniteSetTheorems, SequenceTheorems,
        WellFoundedInduction, TLAPS

-----------------------------------------------------------------------------
(***************************************************************************)
(* The dining philosophers.                                                *)
(***************************************************************************)

LEMMA ModRange == ASSUME NEW p \in Nat, NEW n \in Nat \ {0} PROVE p % n \in 0..(n - 1)
  OBVIOUS

LEMMA DivMod == ASSUME NEW p \in Nat, NEW n \in Nat \ {0}
                PROVE  p = n * (p \div n) + (p % n)
  OBVIOUS

\* A remainder is unique.
LEMMA ModUnique ==
  ASSUME NEW n \in Nat \ {0}, NEW a \in Int, NEW b \in Int,
         NEW c \in 0..(n - 1), NEW d \in 0..(n - 1), n * a + c = n * b + d
  PROVE  c = d
  <1>1. n * (a - b) = d - c
    OBVIOUS
  <1>2. CASE a - b >= 1
    <2>1. n * (a - b) >= n
      BY <1>2
    <2> QED
      BY <2>1, <1>1
  <1>3. CASE a - b <= -1
    <2>1. n * (a - b) <= -n
      BY <1>3
    <2> QED
      BY <2>1, <1>1
  <1>4. CASE a = b
    BY <1>4
  <1> QED
    BY <1>2, <1>3, <1>4

\* The fork after the last is the first.
LEMMA ModNext ==
  ASSUME NEW p \in Nat, NEW n \in Nat \ {0}
  PROVE  (p + 1) % n = IF p % n = n - 1 THEN 0 ELSE (p % n) + 1
  <1>1. p = n * (p \div n) + (p % n)
    BY DivMod
  <1>2. p + 1 = n * ((p + 1) \div n) + ((p + 1) % n)
    BY DivMod
  <1>3. p % n \in 0..(n - 1) /\ (p + 1) % n \in 0..(n - 1)
    BY ModRange
  <1>4. (p \div n) \in Int /\ ((p + 1) \div n) \in Int
    OBVIOUS
  <1>5. CASE p % n = n - 1
    <2>1. n * ((p \div n) + 1) + 0 = n * ((p + 1) \div n) + ((p + 1) % n)
      BY <1>1, <1>2, <1>3, <1>4, <1>5
    <2>2. 0 \in 0..(n - 1) /\ (p \div n) + 1 \in Int
      BY <1>4
    <2>3. 0 = (p + 1) % n
      BY <2>1, <2>2, <1>3, <1>4, ModUnique
    <2> QED
      BY <2>3, <1>5
  <1>6. CASE p % n # n - 1
    <2>1. (p % n) + 1 \in 0..(n - 1)
      BY <1>3, <1>6
    <2>2. n * (p \div n) + ((p % n) + 1) = n * ((p + 1) \div n) + ((p + 1) % n)
      BY <1>1, <1>2, <1>3, <1>4
    <2>3. (p % n) + 1 = (p + 1) % n
      BY <2>1, <2>2, <1>3, <1>4, ModUnique
    <2> QED
      BY <2>3, <1>6
  <1> QED
    BY <1>5, <1>6

LEMMA ForksOf == \A p \in Philosophers : Fork1(p) \in Forks /\ Fork2(p) \in Forks
  BY CountAssumption, ModRange DEF Philosophers, Forks, Fork1, Fork2

-----------------------------------------------------------------------------
\* A philosopher with two forks has two different ones; main starts the
\* philosophers in order, and joins them in the reverse order.
IndInv ==
  /\ TypeOK
  /\ \A p \in Philosophers : HasFork2(p) => Fork1(p) # Fork2(p)
  /\ \A p \in Philosophers :
       started <= p => pc[p] = IF main = "start" THEN "none" ELSE "exited"
  /\ main = "end" => started = 0

LEMMA InitIndInv == Init => IndInv
  BY CountAssumption, NobodyAssumption, ForksOf
     DEF Init, IndInv, TypeOK, Philosophers, Points, HasFork1, HasFork2

LEMMA StepIndInv == IndInv /\ [Next]_vars => IndInv'
  <1> SUFFICES ASSUME IndInv, [Next]_vars PROVE IndInv'
    OBVIOUS
  <1>p. \A p \in Philosophers : p \in Int /\ 0 <= p /\ p < Diners
    BY CountAssumption DEF Philosophers
  <1>n. Nobody \notin Philosophers
    BY <1>p, NobodyAssumption
  <1>s. \A i \in 0..Diners : i < Diners => i \in Philosophers
    BY CountAssumption DEF Philosophers
  <1> USE CountAssumption, ForksOf, <1>n
      DEF IndInv, TypeOK, Points, HasFork1, HasFork2, Goto
  <1>1. CASE UNCHANGED vars
    BY <1>1 DEF vars
  <1>2. CASE Start
    BY <1>2, <1>p, <1>s DEF Start
  <1>3. CASE Cancel
    BY <1>3, <1>p, <1>s DEF Cancel
  <1>4. CASE Join
    BY <1>4, <1>p, <1>s DEF Join
  <1>5. CASE ClearTable
    BY <1>5, <1>p DEF ClearTable
  <1>6. ASSUME NEW p \in Philosophers, While(p) PROVE IndInv'
    BY <1>6 DEF While
  <1>7. ASSUME NEW p \in Philosophers, Lock1(p) PROVE IndInv'
    BY <1>7 DEF Lock1
  <1>8. ASSUME NEW p \in Philosophers, Lock2(p) PROVE IndInv'
    BY <1>8 DEF Lock2
  <1>9. ASSUME NEW p \in Philosophers, Eat(p) PROVE IndInv'
    BY <1>9 DEF Eat
  <1>10. ASSUME NEW p \in Philosophers, Unlock2(p) PROVE IndInv'
    BY <1>10 DEF Unlock2
  <1>11. ASSUME NEW p \in Philosophers, Unlock1(p) PROVE IndInv'
    BY <1>11 DEF Unlock1
  <1> QED
    BY <1>1, <1>2, <1>3, <1>4, <1>5, <1>6, <1>7, <1>8, <1>9, <1>10, <1>11
       DEF Next, Main, Step, Lock

\* Every reachable state satisfies the inductive invariant.
THEOREM Invariance == Spec => []IndInv
  BY InitIndInv, StepIndInv, PTL DEF Spec

\* A fork is held by exactly the philosopher inside the scope of its lock.
THEOREM TypeCorrect == Spec => []TypeOK
  BY Invariance, PTL DEF IndInv

\* The forks outlive the threads that use them, and are free when they go.
THEOREM TableOutlives == Spec => []TableOutlivesDiners
  <1>1. IndInv => TableOutlivesDiners
    <2> SUFFICES ASSUME IndInv, main = "end"
                 PROVE  /\ \A p \in Philosophers : pc[p] = "exited"
                        /\ \A i \in Forks : m_forks[i] = Nobody
      BY DEF TableOutlivesDiners
    <2>1. \A p \in Philosophers : pc[p] = "exited"
      BY CountAssumption DEF IndInv, Philosophers
    <2>2. \A i \in Forks : m_forks[i] \in Philosophers \cup {Nobody}
      BY DEF IndInv, TypeOK
    <2>3. \A p \in Philosophers, i \in Forks : m_forks[i] # p
      BY <2>1 DEF IndInv, TypeOK, HasFork1, HasFork2
    <2> QED
      BY <2>1, <2>2, <2>3
  <1> QED
    BY <1>1, Invariance, PTL

-----------------------------------------------------------------------------
\* A set of forks that has the next fork of each of its own has all of them:
\* going up from the highest one leads to fork 0, and from there to the rest.
LEMMA RoundTheTable ==
  ASSUME NEW F \in SUBSET Forks, F # {},
         \A i \in F : IF i = SeatCount - 1 THEN 0 \in F ELSE i + 1 \in F
  PROVE  F = Forks
  <1> USE CountAssumption
  <1>1. 0 \in F
    <2> DEFINE R == {SeatCount - 1 - i : i \in F}
    <2>0. \A i \in F : SeatCount - 1 - i \in Nat
      BY DEF Forks
    <2>1. R \subseteq Nat /\ R # {}
      BY <2>0
    <2>2. PICK x \in R : \A y \in R : ~(<<y, x>> \in OpToRel(<, Nat))
      BY <2>1, NatLessThanWellFounded, WFMin
    <2>3. PICK i \in F : x = SeatCount - 1 - i
      OBVIOUS
    <2>4. CASE i + 1 \in F
      <3>1. SeatCount - 1 - (i + 1) \in R
        BY <2>4
      <3>2. SeatCount - 1 - (i + 1) < x /\ x \in Nat
        BY <2>1, <2>3 DEF Forks
      <3> QED
        BY <2>1, <2>2, <3>1, <3>2 DEF OpToRel
    <2> QED
      BY <2>4
  <1>2. ASSUME NEW j \in Forks, j \notin F PROVE FALSE
    <2> DEFINE R == Forks \ F
    <2>1. R \subseteq Nat /\ R # {}
      BY <1>2 DEF Forks
    <2>2. PICK x \in R : \A y \in R : ~(<<y, x>> \in OpToRel(<, Nat))
      BY <2>1, NatLessThanWellFounded, WFMin
    <2>3. x - 1 \in F
      <3>1. x \in Nat /\ x # 0 /\ x - 1 \in Forks /\ x - 1 < x
        BY <1>1, <2>1 DEF Forks
      <3>2. x - 1 \in Nat
        BY <3>1 DEF Forks
      <3>3. <<x - 1, x>> \in OpToRel(<, Nat)
        BY <3>1, <3>2 DEF OpToRel
      <3>4. x - 1 \notin R
        BY <2>2, <3>3
      <3> QED
        BY <3>1, <3>4
    <2>4. x \in F
      BY <2>3 DEF Forks
    <2> QED
      BY <2>4
  <1> QED
    BY <1>2

\* Each member of a circle waits for its second fork, and the next one has it
\* as its first: the first forks go round the table.
LEMMA CircleIsFull == IndInv => DeadlockNeedsFullTable
  <1> SUFFICES ASSUME IndInv, NEW S \in SUBSET Philosophers, S # {},
                      \A p \in S : WaitsFor(p) \in S
               PROVE  \A i \in Forks : \E p \in S : pc[p] = "lock2" /\ Fork1(p) = i
    BY DEF DeadlockNeedsFullTable
  <1>m. \A p \in S : p \in Nat /\ p \in Int
    BY CountAssumption DEF Philosophers
  <1>n. Nobody \notin S
    BY <1>m, NobodyAssumption
  <1>1. \A p \in S : pc[p] \in {"lock1", "lock2"}
    BY <1>n DEF WaitsFor
  <1>2. \A p \in S : pc[WaitsFor(p)] = "lock2"
    BY <1>1, ForksOf DEF WaitsFor, IndInv, TypeOK, HasFork1, HasFork2
  <1> DEFINE F == {Fork1(p) : p \in {q \in S : pc[q] = "lock2"}}
  <1>3. F \in SUBSET Forks
    BY ForksOf
  <1>4. F # {}
    BY <1>2
  <1>5. ASSUME NEW i \in F PROVE IF i = SeatCount - 1 THEN 0 \in F ELSE i + 1 \in F
    <2>1. PICK p \in S : pc[p] = "lock2" /\ Fork1(p) = i
      OBVIOUS
    <2> DEFINE q == WaitsFor(p)
    <2>2. q \in S /\ pc[q] = "lock2" /\ m_forks[Fork2(p)] = q
      BY <1>2, <2>1 DEF WaitsFor
    <2>3. Fork1(q) = Fork2(p)
      BY <2>2, ForksOf DEF IndInv, TypeOK, HasFork1, HasFork2
    <2>4. Fork2(p) \in F
      BY <2>2, <2>3
    <2>5. Fork2(p) = IF i = SeatCount - 1 THEN 0 ELSE i + 1
      <3>1. p \in Nat
        BY <1>m, <2>1
      <3> QED
        BY <2>1, <3>1, ModNext, CountAssumption DEF Fork1, Fork2
    <2> QED
      BY <2>4, <2>5
  <1>6. F = Forks
    BY <1>3, <1>4, <1>5, RoundTheTable
  <1> QED
    BY <1>6

\* A deadlock takes a philosopher at every seat.
THEOREM OnlyFullTablesDeadlock == Spec => []DeadlockNeedsFullTable
  BY Invariance, CircleIsFull, PTL

\* With a seat left empty no set of philosophers waits for itself.
THEOREM EmptySeatSuffices ==
  ASSUME Diners < SeatCount
  PROVE  Spec => [](\A S \in SUBSET Philosophers :
                      S # {} => \E p \in S : WaitsFor(p) \notin S)
  <1>1. DeadlockNeedsFullTable =>
          \A S \in SUBSET Philosophers : S # {} => \E p \in S : WaitsFor(p) \notin S
    <2> SUFFICES ASSUME DeadlockNeedsFullTable, NEW S \in SUBSET Philosophers, S # {},
                        \A p \in S : WaitsFor(p) \in S
                 PROVE  FALSE
      OBVIOUS
    <2>1. SeatCount - 1 \in Forks
      BY CountAssumption DEF Forks
    <2>2. PICK p \in S : Fork1(p) = SeatCount - 1
      BY <2>1 DEF DeadlockNeedsFullTable
    <2>3. p \in 0..(SeatCount - 2)
      BY CountAssumption DEF Philosophers
    <2>4. p % SeatCount = p
      BY <2>3, CountAssumption
    <2> QED
      BY <2>2, <2>3, <2>4, CountAssumption DEF Fork1
  <1> QED
    BY <1>1, OnlyFullTablesDeadlock, PTL
-----------------------------------------------------------------------------
(***************************************************************************)
(* Why only a circle keeps main from its end (OnlyCirclesHangMain): else   *)
(* some thread can step, and the thread that main waits for, which has     *)
(* been cancelled, comes closer to its end with each of its steps.         *)
(***************************************************************************)

\* The guards of Step(p) and of Main.
CanStep(p) ==
  \/ pc[p] \in {"while", "eat", "unlock2", "unlock1"}
  \/ pc[p] \in {"lock1", "lock2"} /\ WaitsFor(p) = Nobody
MainCanStep ==
  \/ main \in {"start", "joined"}
  \/ main = "join" /\ pc[started - 1] = "exited"

\* The philosophers one waits for, and those they wait for, do not all wait.
ChainsEnd ==
  Circle \/ \A S \in SUBSET Philosophers :
    S # {} /\ (\A p \in S : WaitsFor(p) \in S \cup {Nobody}) =>
      \E p \in S : CanStep(p) \/ pc[p] \in {"none", "exited"}

OnlyCirclesStop ==
  main = "end" \/ Circle \/ MainCanStep \/ \E p \in Philosophers : CanStep(p)

\* How far a philosopher is from the end of its loop.
Rank == [p \in Points |->
           CASE p = "none" -> 7
             [] p = "lock1" -> 6
             [] p = "lock2" -> 5
             [] p = "eat" -> 4
             [] p = "unlock2" -> 3
             [] p = "unlock1" -> 2
             [] p = "while" -> 1
             [] p = "exited" -> 0]

\* A philosopher that has been cancelled finishes its meal, if it is at one, and
\* leaves; nothing makes it go on.
LeavesOnceCancelled ==
  [][\A p \in Philosophers :
       m_cancelled[p] =>
         /\ m_cancelled'[p]
         /\ pc'[p] = pc[p] \/ Rank[pc'[p]] < Rank[pc[p]]]_vars

\* How many steps main still has to take, at most.
Remaining ==
  CASE main = "start"  -> 3 * Diners + 2 - started
    [] main = "join"   -> 2 * started
    [] main = "joined" -> 2 * started + 1
    [] main = "end"    -> 0

\* No step of a philosopher adds to what main has to do.
MainAdvances ==
  [][/\ Main => Remaining' \in Nat /\ Remaining' < Remaining
     /\ (\E p \in Philosophers : Step(p)) => Remaining' = Remaining]_vars

\* The threads main has still to join run; the one it waits for is cancelled.
JoinInv ==
  /\ \A p \in Philosophers : p < started => pc[p] # "none"
  /\ main = "join" => m_cancelled[started - 1]

LEMMA RankOf ==
  /\ Rank["none"] = 7 /\ Rank["lock1"] = 6 /\ Rank["lock2"] = 5 /\ Rank["eat"] = 4
  /\ Rank["unlock2"] = 3 /\ Rank["unlock1"] = 2 /\ Rank["while"] = 1 /\ Rank["exited"] = 0
  BY DEF Rank, Points

LEMMA StepJoinInv == ASSUME IndInv, JoinInv, [Next]_vars PROVE JoinInv'
  <1>1. /\ \A p \in Philosophers : p \in Int /\ 0 <= p /\ p < Diners
        /\ \A i \in 0..Diners : i > 0 => i - 1 \in Philosophers
        /\ started \in 0..Diners /\ (main = "join" => started > 0)
        /\ pc \in [Philosophers -> Points] /\ m_cancelled \in [Philosophers -> BOOLEAN]
    BY CountAssumption DEF Philosophers, IndInv, TypeOK
  <1>2. CASE UNCHANGED vars
    BY <1>2 DEF vars, JoinInv
  <1>3. CASE Start
    BY <1>1, <1>3, CountAssumption DEF Start, Goto, JoinInv, Philosophers
  <1>4. CASE Cancel
    BY <1>1, <1>4, CountAssumption DEF Cancel, JoinInv
  <1>5. CASE Join \/ ClearTable
    BY <1>1, <1>5 DEF Join, ClearTable, JoinInv
  <1>6. ASSUME NEW p \in Philosophers, Step(p) PROVE JoinInv'
    <2>1. /\ m_cancelled' = m_cancelled /\ started' = started /\ main' = main
          /\ \A q \in Philosophers : pc'[q] = "none" => pc[q] = "none"
      BY <1>1, <1>6 DEF Step, While, Lock, Lock1, Lock2, Eat, Unlock2, Unlock1, Goto
    <2> QED
      BY <2>1 DEF JoinInv
  <1> QED
    BY <1>2, <1>3, <1>4, <1>5, <1>6 DEF Next, Main

\* A group that cannot go on waits for its own members only.
LEMMA GroupsGoOn == IndInv => ChainsEnd
  <1> SUFFICES ASSUME IndInv, NEW S \in SUBSET Philosophers, S # {},
                      \A p \in S : WaitsFor(p) \in S \cup {Nobody},
                      \A p \in S : ~CanStep(p) /\ pc[p] \notin {"none", "exited"}
               PROVE  Circle
    BY DEF ChainsEnd
  <1>1. \A p \in S : pc[p] \in {"lock1", "lock2"} /\ WaitsFor(p) # Nobody
    BY DEF CanStep, IndInv, TypeOK, Points
  <1>2. \A i \in Forks : \E p \in S : pc[p] = "lock2" /\ Fork1(p) = i
    BY <1>1, CircleIsFull DEF DeadlockNeedsFullTable
  <1> QED
    BY <1>2 DEF Circle

LEMMA SomeoneGoesOn == IndInv /\ JoinInv => OnlyCirclesStop
  <1> SUFFICES ASSUME IndInv, JoinInv, main # "end", ~MainCanStep,
                      \A p \in Philosophers : ~CanStep(p)
               PROVE  Circle
    BY DEF OnlyCirclesStop
  <1> DEFINE S == {p \in Philosophers : pc[p] \in {"lock1", "lock2"}}
  <1>1. \A p \in Philosophers : pc[p] \in {"none", "exited"} \/ p \in S
    BY DEF CanStep, IndInv, TypeOK, Points
  <1>2. S # {}
    <2>1. /\ main = "join" /\ started \in 0..Diners /\ started > 0
          /\ pc[started - 1] # "exited"
      BY DEF MainCanStep, IndInv, TypeOK
    <2>2. started - 1 \in Philosophers /\ started - 1 < started
      BY <2>1, CountAssumption DEF Philosophers
    <2>3. started - 1 \in S
      BY <1>1, <2>1, <2>2 DEF JoinInv
    <2> QED
      BY <2>3
  <1>3. \A p \in S : WaitsFor(p) \in S \cup {Nobody}
    <2> SUFFICES ASSUME NEW p \in S, WaitsFor(p) # Nobody PROVE WaitsFor(p) \in S
      OBVIOUS
    <2>1. PICK i \in Forks : WaitsFor(p) = m_forks[i]
      BY ForksOf DEF WaitsFor
    <2>2. m_forks[i] \in Philosophers
      BY <2>1 DEF IndInv, TypeOK
    <2>3. HasFork1(m_forks[i]) \/ HasFork2(m_forks[i])
      BY <2>2 DEF IndInv, TypeOK
    <2> QED
      BY <1>1, <2>1, <2>2, <2>3 DEF HasFork1, HasFork2
  <1> QED
    BY <1>2, <1>3, GroupsGoOn DEF ChainsEnd

\* Whoever a philosopher waits for, and whoever that one waits for, one of them
\* can go on, unless all seats are caught in a circle.
THEOREM WaitingEndsSomewhere == Spec => []ChainsEnd
  BY Invariance, GroupsGoOn, PTL

\* Until main has ended it can step or a philosopher can, unless all seats are
\* caught in a circle.
THEOREM NobodyElseStops == Spec => []OnlyCirclesStop
  <1>1. Init => JoinInv
    BY CountAssumption DEF Init, JoinInv, Philosophers
  <1>2. IndInv /\ JoinInv /\ [Next]_vars => JoinInv'
    BY StepJoinInv
  <1>3. Spec => []JoinInv
    BY <1>1, <1>2, Invariance, PTL DEF Spec
  <1> QED
    BY <1>3, Invariance, SomeoneGoesOn, PTL

\* ~Philosopher sets the flag before it joins: the thread it waits for eats at
\* most once more, and the flag stays set.
THEOREM CancelledLeave == Spec => LeavesOnceCancelled
  <1> DEFINE Leaves(p) == m_cancelled[p] =>
                            /\ m_cancelled'[p]
                            /\ pc'[p] = pc[p] \/ Rank[pc'[p]] < Rank[pc[p]]
  <1>1. ASSUME IndInv, Next PROVE \A p \in Philosophers : Leaves(p)
    <2>1. /\ pc \in [Philosophers -> Points] /\ m_cancelled \in [Philosophers -> BOOLEAN]
          /\ \A p \in Philosophers : p \in Int
      BY <1>1, CountAssumption DEF IndInv, TypeOK, Philosophers
    <2>4. \A p \in Philosophers : started = p /\ main = "start" => pc[p] = "none"
      BY <1>1, <2>1 DEF IndInv
    <2>2. CASE Main
      <3>1. \A p \in Philosophers : m_cancelled[p] => m_cancelled'[p]
        BY <2>1, <2>2 DEF Main, Start, Cancel, Join, ClearTable
      <3>2. \A p \in Philosophers : pc'[p] = pc[p] \/ (pc[p] = "none" /\ pc'[p] = "while")
        BY <2>1, <2>2, <2>4 DEF Main, Start, Cancel, Join, ClearTable, Goto
      <3> QED
        BY <3>1, <3>2, RankOf
    <2>3. ASSUME NEW q \in Philosophers, Step(q) PROVE \A p \in Philosophers : Leaves(p)
      <3>1. m_cancelled' = m_cancelled /\ \A p \in Philosophers \ {q} : pc'[p] = pc[p]
        BY <2>1, <2>3 DEF Step, While, Lock, Lock1, Lock2, Eat, Unlock2, Unlock1, Goto
      <3>2. m_cancelled[q] => Rank[pc'[q]] < Rank[pc[q]]
        BY <2>1, <2>3, RankOf DEF Step, While, Lock, Lock1, Lock2, Eat, Unlock2, Unlock1, Goto
      <3> QED
        BY <3>1, <3>2
    <2> QED
      BY <1>1, <2>2, <2>3 DEF Next
  <1>2. IndInv /\ [Next]_vars => [\A p \in Philosophers : Leaves(p)]_vars
    BY <1>1
  <1> QED
    BY <1>2, Invariance, PTL DEF Spec, LeavesOnceCancelled

\* Main starts, cancels and joins each philosopher once.
THEOREM MainEndsSometime == Spec => MainAdvances
  <1>1. ASSUME IndInv, Main PROVE Remaining' \in Nat /\ Remaining' < Remaining
    <2>1. started \in 0..Diners /\ (main = "join" => started > 0) /\ Diners \in Nat
      BY <1>1, CountAssumption DEF IndInv, TypeOK
    <2> QED
      BY <1>1, <2>1 DEF Main, Start, Cancel, Join, ClearTable, Remaining
  <1>2. ASSUME NEW p \in Philosophers, Step(p) PROVE Remaining' = Remaining
    <2>1. main' = main /\ started' = started
      BY <1>2 DEF Step, While, Lock, Lock1, Lock2, Eat, Unlock2, Unlock1
    <2> QED
      BY <2>1 DEF Remaining
  <1> DEFINE Advances == /\ Main => Remaining' \in Nat /\ Remaining' < Remaining
                         /\ (\E p \in Philosophers : Step(p)) => Remaining' = Remaining
  <1>3. IndInv /\ [Next]_vars => [Advances]_vars
    BY <1>1, <1>2
  <1> QED
    BY <1>3, Invariance, PTL DEF Spec, MainAdvances

-----------------------------------------------------------------------------
(***************************************************************************)
(* The suite reporter.                                                     *)
(***************************************************************************)

\* The suite number k, whether it is printed or still collected.
SuiteAt(k) == IF k <= Len(printed) THEN printed[k] ELSE suite_

\* The last column is that of the last benchmark, and the suites have a column
\* for each benchmark at its place and no others.
GroupInv ==
  /\ Count = 0 => printed = <<>> /\ suite_ = <<>>
  /\ Count > 0 => /\ Len(printed) + 1 = SuiteNo(Count)
                  /\ Len(suite_) = Place(Count)
                  /\ Last(suite_).name = program[Count]
  /\ \A i \in 1..Count : /\ Place(i) \in 1..Len(SuiteAt(SuiteNo(i)))
                         /\ SuiteAt(SuiteNo(i))[Place(i)].name = program[i]
  /\ \A k \in 1..(Len(printed) + 1) : \A c \in 1..Len(SuiteAt(k)) :
       \E i \in 1..Count : SuiteNo(i) = k /\ Place(i) = c

\* The grouping lasts for as long as suites are collected.
GroupedInv == NamesDistinct /\ ~ended => GroupInv

\* A column has the times of the arguments in their order, and then perhaps the
\* complexity, which has no argument.
InOrder(col) ==
  /\ Len(col.measures) <= range[col.name] + 1
  /\ \A i \in 1..Len(col.measures) :
       col.measures[i].arg = IF i <= range[col.name] THEN i ELSE 0

ColumnInv ==
  /\ \A c \in 1..Len(suite_) : InOrder(suite_[c])
  /\ \A k \in 1..Len(printed) : \A c \in 1..Len(printed[k]) : InOrder(printed[k][c])
  /\ ~ended /\ next[2] > 1 => Len(Last(suite_).measures) = next[2] - 1

\* The order within the columns lasts, printed or not.
OrderedInv == NamesDistinct => ColumnInv

\* Induction: a set of naturals with 0 and each successor has all of them.
LEMMA SetInduction ==
  ASSUME NEW Q, 0 \in Q, \A n \in Nat : n \in Q => n + 1 \in Q
  PROVE  Nat \subseteq Q
  <1> DEFINE Bad == Nat \ Q
  <1> SUFFICES ASSUME Bad # {} PROVE FALSE
    OBVIOUS
  <1>1. PICK m \in Bad : \A x \in Bad : ~(<<x, m>> \in OpToRel(<, Nat))
    BY NatLessThanWellFounded, WFMin
  <1>2. m \in Nat /\ m # 0 /\ \A x \in Bad : ~(x < m)
    BY <1>1 DEF OpToRel
  <1>3. m - 1 \in Nat /\ m - 1 < m /\ (m - 1) + 1 = m
    BY <1>2
  <1>4. m - 1 \in Q
    BY <1>2, <1>3
  <1> QED
    BY <1>1, <1>3, <1>4

\* The recursive function of FlattenSeq.
Flat(ss) ==
  LET flatten[i \in 1..Len(ss)] == IF i = 1 THEN ss[i] ELSE flatten[i - 1] \o ss[i]
  IN  flatten

LEMMA FlattenIsFlat ==
  ASSUME NEW ss
  PROVE  FlattenSeq(ss) = IF Len(ss) = 0 THEN ss ELSE Flat(ss)[Len(ss)]
  BY DEF FlattenSeq, Flat

\* Its equation has a solution.
LEMMA FlatDef ==
  ASSUME NEW ss, Len(ss) \in Nat
  PROVE  \A i \in 1..Len(ss) : Flat(ss)[i] = IF i = 1 THEN ss[i] ELSE Flat(ss)[i - 1] \o ss[i]
  <1> DEFINE Good(g, n) == \A i \in 1..n : g[i] = IF i = 1 THEN ss[i] ELSE g[i - 1] \o ss[i]
             Q == {n \in Nat : \E g : Good(g, n)}
  <1>1. 0 \in Q
    BY Good(ss, 0)
  <1>2. ASSUME NEW n \in Nat, n \in Q PROVE n + 1 \in Q
    <2>1. PICK g : Good(g, n)
      BY <1>2
    <2> DEFINE h == [i \in 1..(n + 1) |->
                      IF i <= n THEN g[i] ELSE IF i = 1 THEN ss[i] ELSE g[n] \o ss[i]]
    <2>2. ASSUME NEW i \in 1..(n + 1)
          PROVE  h[i] = IF i = 1 THEN ss[i] ELSE h[i - 1] \o ss[i]
      <3>1. CASE i <= n
        <4>1. i \in 1..n /\ (i # 1 => i - 1 \in 1..(n + 1) /\ i - 1 <= n)
          BY <3>1
        <4>2. h[i] = g[i] /\ (i # 1 => h[i - 1] = g[i - 1])
          BY <4>1
        <4> HIDE DEF h
        <4> QED
          BY <2>1, <4>1, <4>2
      <3>2. CASE i = n + 1
        <4>1. ~(i <= n) /\ (i # 1 => i - 1 = n /\ n \in 1..(n + 1) /\ n <= n)
          BY <3>2
        <4>2. i # 1 => h[i - 1] = g[n]
          BY <4>1
        <4>3. h[i] = IF i = 1 THEN ss[i] ELSE g[n] \o ss[i]
          BY <4>1
        <4> HIDE DEF h
        <4> QED
          BY <4>2, <4>3
      <3> QED
        BY <3>1, <3>2
    <2>3. Good(h, n + 1)
      <3> HIDE DEF h
      <3> QED
        BY <2>2
    <2>4. n + 1 \in Nat /\ \E f : Good(f, n + 1)
      <3> HIDE DEF h, Good
      <3> QED
        BY <2>3
    <2> QED
      BY <2>4
  <1>3. PICK g : Good(g, Len(ss))
    <2> HIDE DEF Q
    <2>1. Len(ss) \in Q
      BY <1>1, <1>2, SetInduction
    <2> QED
      BY <2>1 DEF Q
  <1> DEFINE F(f) == [i \in 1..Len(ss) |-> IF i = 1 THEN ss[i] ELSE f[i - 1] \o ss[i]]
             h == [i \in 1..Len(ss) |-> g[i]]
  <1>4. h = F(h)
    <2>1. ASSUME NEW i \in 1..Len(ss) PROVE h[i] = F(h)[i]
      <3>1. g[i] = IF i = 1 THEN ss[i] ELSE g[i - 1] \o ss[i]
        BY <1>3
      <3>2. i # 1 => i - 1 \in 1..Len(ss)
        OBVIOUS
      <3> QED
        BY <3>1, <3>2
    <2> QED
      BY <2>1
  <1>5. Flat(ss) = F(Flat(ss))
    <2> DEFINE f0 == CHOOSE f : f = F(f)
    <2>1. \E f : f = F(f)
      BY <1>4
    <2>2. f0 = F(f0)
      BY <2>1
    <2>3. Flat(ss) = f0
      BY DEF Flat
    <2> HIDE DEF f0
    <2> QED
      BY <2>2, <2>3
  <1> HIDE DEF h
  <1> QED
    BY <1>5

\* The first parts of two sequences that agree are flattened alike.
LEMMA FlatPrefix ==
  ASSUME NEW ss, NEW tt, Len(ss) \in Nat, Len(tt) \in Nat, NEW n \in Nat,
         n <= Len(ss), n <= Len(tt), \A i \in 1..n : ss[i] = tt[i]
  PROVE  \A i \in 1..n : Flat(ss)[i] = Flat(tt)[i]
  <1> DEFINE Q == {i \in Nat : i \in 1..n => Flat(ss)[i] = Flat(tt)[i]}
  <1>1. 0 \in Q
    OBVIOUS
  <1>2. ASSUME NEW i \in Nat, i \in Q PROVE i + 1 \in Q
    <2> SUFFICES ASSUME i + 1 \in 1..n PROVE Flat(ss)[i + 1] = Flat(tt)[i + 1]
      OBVIOUS
    <2>1. /\ i + 1 \in 1..Len(ss) /\ i + 1 \in 1..Len(tt) /\ (i + 1) - 1 = i
          /\ i + 1 # 1 => i \in 1..n
      OBVIOUS
    <2>2. Flat(ss)[i + 1] = IF i + 1 = 1 THEN ss[i + 1] ELSE Flat(ss)[i] \o ss[i + 1]
      BY <2>1, FlatDef
    <2>3. Flat(tt)[i + 1] = IF i + 1 = 1 THEN tt[i + 1] ELSE Flat(tt)[i] \o tt[i + 1]
      BY <2>1, FlatDef
    <2>4. i + 1 # 1 => Flat(ss)[i] = Flat(tt)[i]
      BY <2>1, <1>2
    <2> QED
      BY <2>2, <2>3, <2>4
  <1> HIDE DEF Q
  <1>3. Nat \subseteq Q
    BY <1>1, <1>2, SetInduction
  <1> QED
    BY <1>3 DEF Q

\* Sequences flattened are a sequence.
LEMMA FlattenType ==
  ASSUME NEW S, NEW ss \in Seq(Seq(S))
  PROVE  FlattenSeq(ss) \in Seq(S)
  <1> DEFINE Q == {i \in Nat : i \in 1..Len(ss) => Flat(ss)[i] \in Seq(S)}
  <1>1. Len(ss) \in Nat /\ \A i \in 1..Len(ss) : ss[i] \in Seq(S)
    BY LenProperties, ElementOfSeq
  <1>2. 0 \in Q
    OBVIOUS
  <1>3. ASSUME NEW i \in Nat, i \in Q PROVE i + 1 \in Q
    <2> SUFFICES ASSUME i + 1 \in 1..Len(ss) PROVE Flat(ss)[i + 1] \in Seq(S)
      OBVIOUS
    <2>1. (i + 1) - 1 = i /\ (i + 1 # 1 => i \in 1..Len(ss))
      BY <1>1
    <2>2. Flat(ss)[i + 1] = IF i + 1 = 1 THEN ss[i + 1] ELSE Flat(ss)[i] \o ss[i + 1]
      BY <1>1, <2>1, FlatDef
    <2>3. i + 1 # 1 => Flat(ss)[i] \in Seq(S)
      BY <2>1, <1>3
    <2>4. ss[i + 1] \in Seq(S)
      BY <1>1
    <2> QED
      BY <2>2, <2>3, <2>4, ConcatProperties
  <1>4. Nat \subseteq Q
    <2> HIDE DEF Q
    <2> QED
      BY <1>2, <1>3, SetInduction
  <1>5. CASE Len(ss) = 0
    BY <1>5, FlattenIsFlat, EmptySeq
  <1>6. CASE Len(ss) # 0
    <2>1. Len(ss) \in 1..Len(ss)
      BY <1>1, <1>6
    <2>2. Flat(ss)[Len(ss)] \in Seq(S)
      BY <1>1, <1>4, <2>1
    <2> QED
      BY <1>6, <2>2, FlattenIsFlat
  <1> QED
    BY <1>5, <1>6

\* One sequence more.
LEMMA FlattenAppend ==
  ASSUME NEW S, NEW ss \in Seq(Seq(S)), NEW x \in Seq(S)
  PROVE  FlattenSeq(Append(ss, x)) = FlattenSeq(ss) \o x
  <1> DEFINE tt == Append(ss, x)
             n == Len(ss)
  <1>1. /\ n \in Nat /\ tt \in Seq(Seq(S)) /\ Len(tt) = n + 1 /\ tt[n + 1] = x
        /\ \A i \in 1..n : tt[i] = ss[i]
    BY LenProperties, AppendProperties
  <1> HIDE DEF tt
  <1>2. Flat(tt)[n + 1] = IF n + 1 = 1 THEN x ELSE Flat(tt)[(n + 1) - 1] \o x
    BY <1>1, FlatDef
  <1>3. FlattenSeq(tt) = Flat(tt)[n + 1]
    BY <1>1, FlattenIsFlat
  <1>4. CASE n = 0
    <2>1. ss = <<>> /\ FlattenSeq(ss) = ss
      BY <1>4, EmptySeq, FlattenIsFlat
    <2> QED
      BY <1>2, <1>3, <1>4, <2>1, ConcatEmptySeq DEF tt
  <1>5. CASE n # 0
    <2>1. n \in 1..n /\ n <= Len(tt) /\ n <= Len(ss) /\ Len(tt) \in Nat /\ (n + 1) - 1 = n
      BY <1>1, <1>5
    <2>2. Flat(tt)[n] = Flat(ss)[n]
      BY <1>1, <2>1, FlatPrefix
    <2>3. FlattenSeq(ss) = Flat(ss)[n]
      BY <1>5, FlattenIsFlat
    <2>4. FlattenSeq(tt) = Flat(tt)[n] \o x
      BY <1>1, <1>2, <1>3, <1>5, <2>1
    <2> QED
      BY <2>2, <2>3, <2>4 DEF tt
  <1> QED
    BY <1>1, <1>4, <1>5

LEMMA LastIs == ASSUME NEW s PROVE Last(s) = s[Len(s)]
  BY DEF Last

\* A new column goes behind the others, which stay.
LEMMA NewColumn ==
  ASSUME NEW s \in Suite, NEW b \in Benchmarks
  PROVE  LET t == AddNewBenchmarkToSuite(s, b)
         IN  /\ t \in Suite /\ t # <<>> /\ Len(t) = Len(s) + 1
             /\ \A c \in 1..Len(s) : t[c] = s[c]
             /\ t[Len(t)] = [name |-> b, measures |-> <<>>]
  <1>1. [name |-> b, measures |-> <<>>] \in Column
    BY EmptySeq DEF Column
  <1> QED
    BY <1>1, AppendProperties DEF AddNewBenchmarkToSuite, Suite

\* Measures go to the end of the last column, and nothing else changes.
LEMMA AddedMeasures ==
  ASSUME NEW s \in Suite, s # <<>>, NEW ms \in Seq(Measure)
  PROVE  LET t == AddMeasures(s, ms)
         IN  /\ t \in Suite /\ t # <<>> /\ Len(t) = Len(s)
             /\ \A c \in 1..Len(s) : t[c].name = s[c].name
             /\ \A c \in 1..Len(s) : c # Len(s) => t[c] = s[c]
             /\ t[Len(s)].measures = s[Len(s)].measures \o ms
  <1> DEFINE n == Len(s)
             col == [s[n] EXCEPT !.measures = @ \o ms]
             t == [s EXCEPT ![n] = col]
  <1>1. n \in 1..n /\ s[n] \in Column /\ \A c \in 1..n : s[c] \in Column
    <2>1. n \in Nat /\ n # 0
      BY EmptySeq, LenProperties DEF Suite
    <2> QED
      BY <2>1, ElementOfSeq DEF Suite
  <1>2. s[n].measures \o ms \in Seq(Measure)
    BY <1>1, ConcatProperties DEF Column
  <1>3. /\ col \in Column /\ col.name = s[n].name /\ col.measures = s[n].measures \o ms
        /\ col = [s[n] EXCEPT !.measures = s[n].measures \o ms]
    BY <1>1, <1>2 DEF Column
  <1> HIDE DEF col
  <1>4. /\ t \in Suite /\ Len(t) = n
        /\ \A c \in 1..n : t[c] = IF c = n THEN col ELSE s[c]
    BY <1>1, <1>3, ExceptSeq DEF Suite
  <1>5. AddMeasures(s, ms) = t
    BY <1>1, <1>3 DEF AddMeasures, Suite, col
  <1>6. t # <<>>
    BY <1>1, <1>4, EmptySeq
  <1> HIDE DEF t
  <1> QED
    BY <1>1, <1>3, <1>4, <1>5, <1>6

\* A program of benchmarks, each with a range of arguments.
LEMMA ProgramType ==
  ASSUME program \in Programs, range \in [Benchmarks -> 1..MaxArgs]
  PROVE  /\ program \in Seq(Benchmarks) /\ Len(program) \in Nat
         /\ \A i \in 1..Len(program) : /\ program[i] \in Benchmarks
                                       /\ range[program[i]] \in 1..MaxArgs
  <1>1. program \in Seq(Benchmarks)
    BY ProgramsAssumption
  <1> QED
    BY <1>1, LenProperties, ElementOfSeq

\* The measures of a run: the time of its argument, and behind the last one perhaps
\* a complexity.
LEMMA NewMeasures ==
  ASSUME range \in [Benchmarks -> 1..MaxArgs], NEW b \in Benchmarks, NEW a \in 1..range[b]
  PROVE  /\ Measures(b, a) \in Seq(Measure)
         /\ Len(Measures(b, a)) \in 1..(IF a = range[b] THEN 2 ELSE 1)
         /\ Measures(b, a)[1].arg = a
         /\ Len(Measures(b, a)) = 2 => Measures(b, a)[2].arg = 0
  <1>1. range[b] \in 1..MaxArgs /\ MaxArgs \in Nat
    BY MaxArgsAssumption
  <1>2. Time(b, a) \in Measure /\ BigO(b) \in Measure /\ Time(b, a).arg = a /\ BigO(b).arg = 0
    BY <1>1 DEF Time, BigO, Measure
  <1>3. CASE b \in Complex /\ a = range[b]
    <2>1. Measures(b, a) = <<Time(b, a), BigO(b)>>
      BY <1>3 DEF Measures
    <2> QED
      BY <1>2, <1>3, <2>1
  <1>4. CASE ~(b \in Complex /\ a = range[b])
    <2>1. Measures(b, a) = <<Time(b, a)>>
      BY <1>4 DEF Measures
    <2> QED
      BY <1>1, <1>2, <2>1
  <1> QED
    BY <1>3, <1>4

LEMMA PrintedType ==
  ASSUME NEW ss \in Seq(Suite), NEW s \in Suite
  PROVE  /\ PrintSuiteInfo(ss, s) \in Seq(Suite)
         /\ s # <<>> => /\ Len(PrintSuiteInfo(ss, s)) = Len(ss) + 1
                        /\ \A k \in 1..Len(ss) : PrintSuiteInfo(ss, s)[k] = ss[k]
                        /\ PrintSuiteInfo(ss, s)[Len(ss) + 1] = s
  BY AppendProperties DEF PrintSuiteInfo

\* CheckForBenchChanges() leaves a column for the measures.
LEMMA CheckedType ==
  ASSUME suite_ \in Suite, printed \in Seq(Suite), NEW b \in Benchmarks
  PROVE  /\ CheckForBenchChanges(b).suite \in Suite
         /\ CheckForBenchChanges(b).suite # <<>>
         /\ CheckForBenchChanges(b).printed \in Seq(Suite)
  <1>1. <<>> \in Suite
    BY EmptySeq DEF Suite
  <1>2. ~BenchChanged(suite_, b) => suite_ # <<>>
    BY DEF BenchChanged
  <1>3. \A s \in Suite : AddNewBenchmarkToSuite(s, b) \in Suite /\ AddNewBenchmarkToSuite(s, b) # <<>>
    BY NewColumn
  <1> QED
    BY <1>1, <1>2, <1>3, PrintedType DEF CheckForBenchChanges

\* What ReportRuns does, with names for its parts.
LEMMA RunStep ==
  ASSUME ReporterTypeOK, ReportRuns
  PROVE  LET b == program[next[1]]
             a == next[2]
             old == CheckForBenchChanges(b)
             ms == Measures(b, a)
         IN  /\ next[1] \in 1..Len(program) /\ b \in Benchmarks /\ a \in 1..range[b]
             /\ old.suite \in Suite /\ old.suite # <<>> /\ old.printed \in Seq(Suite)
             /\ ms \in Seq(Measure)
             /\ printed' = old.printed
             /\ suite_' = AddMeasures(old.suite, ms)
             /\ reported' = reported \o ms
             /\ ~ended /\ ended' = ended /\ program' = program /\ range' = range
             /\ next' = IF a = range[b] THEN <<next[1] + 1, 1>> ELSE <<next[1], a + 1>>
  <1>1. next[1] \in 1..Len(program) /\ next[2] \in 1..range[program[next[1]]]
    BY ProgramType DEF ReporterTypeOK, ReportRuns
  <1>2. program[next[1]] \in Benchmarks
    BY <1>1, ProgramType DEF ReporterTypeOK
  <1>3. /\ CheckForBenchChanges(program[next[1]]).suite \in Suite
        /\ CheckForBenchChanges(program[next[1]]).suite # <<>>
        /\ CheckForBenchChanges(program[next[1]]).printed \in Seq(Suite)
    BY <1>2, CheckedType DEF ReporterTypeOK
  <1>4. Measures(program[next[1]], next[2]) \in Seq(Measure)
    BY <1>1, <1>2, NewMeasures DEF ReporterTypeOK
  <1> QED
    BY <1>1, <1>2, <1>3, <1>4 DEF ReportRuns

\* The reporter is well typed: a measure always finds a column, since a suite that
\* is printed is followed by a new one.
THEOREM ReporterTypeCorrect == ReporterSpec => []ReporterTypeOK
  <1>1. ReporterInit => ReporterTypeOK
    <2> SUFFICES ASSUME ReporterInit PROVE ReporterTypeOK
      OBVIOUS
    <2>1. next[1] = 1 /\ next[2] = 1
      BY DEF ReporterInit
    <2>2. /\ Len(program) \in Nat
          /\ \A i \in 1..Len(program) : range[program[i]] \in 1..MaxArgs
      BY ProgramType DEF ReporterInit
    <2>3. <<>> \in Suite /\ <<>> \in Seq(Suite) /\ <<>> \in Seq(Measure)
      BY EmptySeq DEF Suite
    <2>4. next[2] \in 1..(IF next[1] <= Len(program) THEN range[program[next[1]]] ELSE 1)
      <3>1. CASE 1 <= Len(program)
        BY <2>1, <2>2, <3>1, MaxArgsAssumption
      <3>2. CASE ~(1 <= Len(program))
        BY <2>1, <3>2
      <3> QED
        BY <3>1, <3>2
    <2>5. next[1] \in 1..(Len(program) + 1)
      BY <2>1, <2>2
    <2>6. /\ program \in Programs /\ range \in [Benchmarks -> 1..MaxArgs]
          /\ suite_ = <<>> /\ printed = <<>> /\ reported = <<>> /\ ended \in BOOLEAN
      BY DEF ReporterInit
    <2> QED
      BY <2>3, <2>4, <2>5, <2>6 DEF ReporterTypeOK
  <1>2. ReporterTypeOK /\ [ReporterNext]_reporterVars => ReporterTypeOK'
    <2> SUFFICES ASSUME ReporterTypeOK, [ReporterNext]_reporterVars PROVE ReporterTypeOK'
      OBVIOUS
    <2>0. /\ Len(program) \in Nat
          /\ \A i \in 1..Len(program) : range[program[i]] \in 1..MaxArgs
      BY ProgramType DEF ReporterTypeOK
    <2>1. CASE ReportRuns
      <3> DEFINE b == program[next[1]]
                 old == CheckForBenchChanges(b)
      <3>1. /\ next[1] \in 1..Len(program) /\ next[2] \in 1..range[b]
            /\ old.suite \in Suite /\ old.suite # <<>> /\ old.printed \in Seq(Suite)
            /\ Measures(b, next[2]) \in Seq(Measure)
            /\ printed' = old.printed
            /\ suite_' = AddMeasures(old.suite, Measures(b, next[2]))
            /\ reported' = reported \o Measures(b, next[2])
            /\ ended' = ended /\ program' = program /\ range' = range
            /\ next' = IF next[2] = range[b] THEN <<next[1] + 1, 1>> ELSE <<next[1], next[2] + 1>>
        BY <2>1, RunStep
      <3> HIDE DEF old
      <3>2. suite_' \in Suite
        BY <3>1, AddedMeasures
      <3>3. reported' \in Seq(Measure)
        BY <3>1, ConcatProperties DEF ReporterTypeOK
      <3>4. /\ next'[1] \in 1..(Len(program') + 1)
            /\ next'[2] \in 1..(IF next'[1] <= Len(program') THEN range'[program'[next'[1]]] ELSE 1)
        <4>1. CASE next[2] = range[b]
          <5>1. next'[1] = next[1] + 1 /\ next'[2] = 1
            BY <3>1, <4>1
          <5>2. next'[1] \in 1..(Len(program) + 1)
            BY <2>0, <3>1, <5>1
          <5>3. next'[1] <= Len(program) => range[program[next'[1]]] \in 1..MaxArgs
            BY <2>0, <5>2
          <5> QED
            BY <3>1, <5>1, <5>2, <5>3, MaxArgsAssumption
        <4>2. CASE next[2] # range[b]
          <5>1. next'[1] = next[1] /\ next'[2] = next[2] + 1
            BY <3>1, <4>2
          <5>2. range[b] \in 1..MaxArgs /\ next[2] + 1 \in 1..range[b]
            BY <2>0, <3>1, <4>2, MaxArgsAssumption
          <5> QED
            BY <2>0, <3>1, <5>1, <5>2
        <4> QED
          BY <4>1, <4>2
      <3>5. /\ program' \in Programs /\ range' \in [Benchmarks -> 1..MaxArgs]
            /\ printed' \in Seq(Suite) /\ ended' \in BOOLEAN
        BY <3>1 DEF ReporterTypeOK
      <3> QED
        BY <3>2, <3>3, <3>4, <3>5 DEF ReporterTypeOK
    <2>2. CASE Destroy
      <3>1. printed' \in Seq(Suite)
        BY <2>2, PrintedType DEF Destroy, ReporterTypeOK
      <3> QED
        BY <2>2, <3>1 DEF Destroy, ReporterTypeOK
    <2>3. CASE UNCHANGED reporterVars
      BY <2>3 DEF reporterVars, ReporterTypeOK
    <2> QED
      BY <2>1, <2>2, <2>3 DEF ReporterNext
  <1> QED
    BY <1>1, <1>2, PTL DEF ReporterSpec

LEMMA ShownType ==
  ASSUME NEW s \in Suite
  PROVE  /\ [c \in DOMAIN s |-> s[c].measures] \in Seq(Seq(Measure))
         /\ Shown(s) \in Seq(Measure)
  <1>1. DOMAIN s = 1..Len(s) /\ Len(s) \in Nat
    BY LenProperties DEF Suite
  <1>2. \A c \in 1..Len(s) : s[c].measures \in Seq(Measure)
    <2>1. \A c \in 1..Len(s) : s[c] \in Column
      BY ElementOfSeq DEF Suite
    <2> QED
      BY <2>1 DEF Column
  <1>3. [c \in DOMAIN s |-> s[c].measures] \in Seq(Seq(Measure))
    BY <1>1, <1>2
  <1> QED
    BY <1>3, FlattenType DEF Shown

\* A column more shows its measures behind the others.
LEMMA ShownAppend ==
  ASSUME NEW s \in Suite, NEW col \in Column
  PROVE  Shown(Append(s, col)) = Shown(s) \o col.measures
  <1> DEFINE M == [c \in DOMAIN s |-> s[c].measures]
             t == Append(s, col)
             N == [c \in DOMAIN t |-> t[c].measures]
  <1>1. M \in Seq(Seq(Measure)) /\ col.measures \in Seq(Measure)
    BY ShownType DEF Column
  <1>2. /\ t \in Suite /\ Len(s) \in Nat /\ DOMAIN s = 1..Len(s)
        /\ Len(t) = Len(s) + 1 /\ DOMAIN t = 1..(Len(s) + 1) /\ t[Len(s) + 1] = col
        /\ \A c \in 1..Len(s) : t[c] = s[c]
    BY AppendProperties, LenProperties DEF Suite
  <1> HIDE DEF t
  <1>3. N \in Seq(Seq(Measure)) /\ Len(N) = Len(s) + 1 /\ Len(M) = Len(s)
    <2>1. N \in Seq(Seq(Measure))
      BY <1>2, ShownType
    <2>2. N = [c \in 1..(Len(s) + 1) |-> t[c].measures] /\ M = [c \in 1..Len(s) |-> s[c].measures]
      BY <1>2
    <2> QED
      BY <1>2, <2>1, <2>2
  <1>4. /\ Append(M, col.measures) \in Seq(Seq(Measure))
        /\ Len(Append(M, col.measures)) = Len(s) + 1
        /\ Append(M, col.measures)[Len(s) + 1] = col.measures
        /\ \A c \in 1..Len(s) : Append(M, col.measures)[c] = M[c]
    BY <1>1, <1>3, AppendProperties
  <1>5. \A c \in 1..(Len(s) + 1) : N[c] = Append(M, col.measures)[c]
    BY <1>2, <1>4
  <1>6. N = Append(M, col.measures)
    <2> HIDE DEF N, M
    <2> QED
      BY <1>3, <1>4, <1>5, SeqEqual
  <1>7. FlattenSeq(N) = FlattenSeq(M) \o col.measures
    <2> HIDE DEF N, M
    <2> QED
      BY <1>1, <1>6, FlattenAppend
  <1> QED
    BY <1>7 DEF Shown, t

LEMMA ShownEmpty == Shown(<<>>) = <<>>
  <1>1. [c \in DOMAIN <<>> |-> <<>>[c].measures] = <<>>
    OBVIOUS
  <1> QED
    BY <1>1, FlattenIsFlat, EmptySeq DEF Shown

\* New measures are shown behind all others.
LEMMA ShownAdded ==
  ASSUME NEW s \in Suite, s # <<>>, NEW ms \in Seq(Measure)
  PROVE  Shown(AddMeasures(s, ms)) = Shown(s) \o ms
  <1>1. PICK u \in Suite, col \in Column : s = Append(u, col)
    BY SequenceEmptyOrAppend DEF Suite
  <1> DEFINE t == AddMeasures(s, ms)
             n == Len(u)
  <1>2. /\ n \in Nat /\ Len(s) = n + 1 /\ s[n + 1] = col
        /\ \A c \in 1..n : s[c] = u[c]
    BY <1>1, AppendProperties, LenProperties DEF Suite
  <1>3. /\ t \in Suite /\ Len(t) = n + 1 /\ \A c \in 1..n : t[c] = u[c]
        /\ t[n + 1].measures = col.measures \o ms
    <2>1. /\ t \in Suite /\ Len(t) = Len(s)
          /\ \A c \in 1..Len(s) : c # Len(s) => t[c] = s[c]
          /\ t[Len(s)].measures = s[Len(s)].measures \o ms
      BY AddedMeasures
    <2> HIDE DEF t
    <2>2. \A c \in 1..n : c \in 1..(n + 1) /\ c # n + 1
      BY <1>2
    <2> QED
      BY <1>2, <2>1, <2>2
  <1>4. t[n + 1] \in Column
    BY <1>2, <1>3, ElementOfSeq DEF Suite
  <1> HIDE DEF t
  <1>5. t = Append(u, t[n + 1])
    <2>1. /\ Append(u, t[n + 1]) \in Suite /\ Len(Append(u, t[n + 1])) = n + 1
          /\ Append(u, t[n + 1])[n + 1] = t[n + 1]
          /\ \A c \in 1..n : Append(u, t[n + 1])[c] = u[c]
      BY <1>4, AppendProperties DEF Suite
    <2>2. \A c \in 1..(n + 1) : t[c] = Append(u, t[n + 1])[c]
      BY <1>2, <1>3, <2>1
    <2> QED
      BY <1>3, <2>1, <2>2, SeqEqual DEF Suite
  <1>6. Shown(t) = Shown(u) \o (col.measures \o ms)
    BY <1>3, <1>4, <1>5, ShownAppend
  <1>7. Shown(s) = Shown(u) \o col.measures
    BY <1>1, ShownAppend
  <1>8. Shown(u) \in Seq(Measure) /\ col.measures \in Seq(Measure)
    BY ShownType DEF Column
  <1>9. (Shown(u) \o col.measures) \o ms = Shown(u) \o (col.measures \o ms)
    <2> DEFINE x == Shown(u)
               y == col.measures
    <2>1. x \in Seq(Measure) /\ y \in Seq(Measure)
      BY <1>8
    <2> HIDE DEF x, y
    <2>2. (x \o y) \o ms = x \o (y \o ms)
      BY <2>1, ConcatAssociative
    <2> QED
      BY <2>2 DEF x, y
  <1> QED
    BY <1>6, <1>7, <1>9 DEF t

\* The measures of some suites, suite by suite.
Contents(ss) == FlattenSeq([k \in DOMAIN ss |-> Shown(ss[k])])

LEMMA ContentsType ==
  ASSUME NEW ss \in Seq(Suite)
  PROVE  /\ [k \in DOMAIN ss |-> Shown(ss[k])] \in Seq(Seq(Measure))
         /\ Contents(ss) \in Seq(Measure)
  <1>1. DOMAIN ss = 1..Len(ss) /\ Len(ss) \in Nat
    BY LenProperties
  <1>2. \A k \in 1..Len(ss) : Shown(ss[k]) \in Seq(Measure)
    BY ElementOfSeq, ShownType
  <1>3. [k \in DOMAIN ss |-> Shown(ss[k])] \in Seq(Seq(Measure))
    BY <1>1, <1>2
  <1> QED
    BY <1>3, FlattenType DEF Contents

LEMMA ContentsAppend ==
  ASSUME NEW ss \in Seq(Suite), NEW s \in Suite
  PROVE  Contents(Append(ss, s)) = Contents(ss) \o Shown(s)
  <1> DEFINE M == [k \in DOMAIN ss |-> Shown(ss[k])]
             tt == Append(ss, s)
             N == [k \in DOMAIN tt |-> Shown(tt[k])]
  <1>1. M \in Seq(Seq(Measure)) /\ Shown(s) \in Seq(Measure)
    BY ContentsType, ShownType
  <1>2. /\ tt \in Seq(Suite) /\ Len(ss) \in Nat /\ DOMAIN ss = 1..Len(ss)
        /\ Len(tt) = Len(ss) + 1 /\ DOMAIN tt = 1..(Len(ss) + 1) /\ tt[Len(ss) + 1] = s
        /\ \A k \in 1..Len(ss) : tt[k] = ss[k]
    BY AppendProperties, LenProperties
  <1> HIDE DEF tt
  <1>3. N \in Seq(Seq(Measure)) /\ Len(N) = Len(ss) + 1 /\ Len(M) = Len(ss)
    <2>1. N \in Seq(Seq(Measure))
      BY <1>2, ContentsType
    <2>2. N = [k \in 1..(Len(ss) + 1) |-> Shown(tt[k])] /\ M = [k \in 1..Len(ss) |-> Shown(ss[k])]
      BY <1>2
    <2> QED
      BY <1>2, <2>1, <2>2
  <1>4. /\ Append(M, Shown(s)) \in Seq(Seq(Measure))
        /\ Len(Append(M, Shown(s))) = Len(ss) + 1
        /\ Append(M, Shown(s))[Len(ss) + 1] = Shown(s)
        /\ \A k \in 1..Len(ss) : Append(M, Shown(s))[k] = M[k]
    BY <1>1, <1>3, AppendProperties
  <1>5. \A k \in 1..(Len(ss) + 1) : N[k] = Append(M, Shown(s))[k]
    BY <1>2, <1>4
  <1>6. N = Append(M, Shown(s))
    <2> HIDE DEF N, M
    <2> QED
      BY <1>3, <1>4, <1>5, SeqEqual
  <1>7. FlattenSeq(N) = FlattenSeq(M) \o Shown(s)
    <2> HIDE DEF N, M
    <2> QED
      BY <1>1, <1>6, FlattenAppend
  <1> QED
    BY <1>7 DEF Contents, tt

\* PrintSuiteInfo() prints a suite with all of its measures, if it has a column.
LEMMA ContentsPrinted ==
  ASSUME NEW ss \in Seq(Suite), NEW s \in Suite
  PROVE  Contents(PrintSuiteInfo(ss, s)) = Contents(ss) \o Shown(s)
  <1>1. CASE s = <<>>
    <2>1. Shown(s) = <<>> /\ Contents(ss) \in Seq(Measure)
      BY <1>1, ShownEmpty, ContentsType
    <2> QED
      BY <1>1, <2>1, ConcatEmptySeq DEF PrintSuiteInfo
  <1>2. CASE s # <<>>
    BY <1>2, ContentsAppend DEF PrintSuiteInfo
  <1> QED
    BY <1>1, <1>2

\* CheckForBenchChanges() prints what it clears.
LEMMA CheckedContents ==
  ASSUME suite_ \in Suite, printed \in Seq(Suite), NEW b \in Benchmarks
  PROVE  Contents(CheckForBenchChanges(b).printed) \o Shown(CheckForBenchChanges(b).suite)
           = Contents(printed) \o Shown(suite_)
  <1> DEFINE old == CheckForBenchChanges(b)
  <1>1. /\ Contents(printed) \in Seq(Measure) /\ Shown(suite_) \in Seq(Measure)
        /\ Contents(printed) \o Shown(suite_) \in Seq(Measure)
    BY ContentsType, ShownType, ConcatProperties
  <1>2. \A s \in Suite : Shown(AddNewBenchmarkToSuite(s, b)) = Shown(s)
    <2> SUFFICES ASSUME NEW s \in Suite PROVE Shown(AddNewBenchmarkToSuite(s, b)) = Shown(s)
      OBVIOUS
    <2> DEFINE col == [name |-> b, measures |-> <<>>]
    <2>1. col \in Column /\ col.measures = <<>>
      BY EmptySeq DEF Column
    <2> HIDE DEF col
    <2>2. Shown(Append(s, col)) = Shown(s) \o <<>>
      BY <2>1, ShownAppend
    <2> QED
      BY <2>2, ShownType, ConcatEmptySeq DEF AddNewBenchmarkToSuite, col
  <1>3. CASE BenchChanged(suite_, b) /\ b \in Naive
    <2>1. old.printed = PrintSuiteInfo(printed, suite_) /\ old.suite = AddNewBenchmarkToSuite(<<>>, b)
      BY <1>3 DEF CheckForBenchChanges
    <2>2. <<>> \in Suite
      BY EmptySeq DEF Suite
    <2>3. Shown(old.suite) = <<>>
      BY <1>2, <2>1, <2>2, ShownEmpty
    <2>4. Contents(old.printed) = Contents(printed) \o Shown(suite_)
      BY <2>1, ContentsPrinted
    <2> QED
      BY <1>1, <2>3, <2>4, ConcatEmptySeq
  <1>4. CASE BenchChanged(suite_, b) /\ b \notin Naive
    <2>1. old.printed = printed /\ old.suite = AddNewBenchmarkToSuite(suite_, b)
      BY <1>4 DEF CheckForBenchChanges
    <2> QED
      BY <1>2, <2>1
  <1>5. CASE ~BenchChanged(suite_, b)
    BY <1>5 DEF CheckForBenchChanges
  <1> QED
    BY <1>3, <1>4, <1>5

LEMMA KeptIsNothingLost ==
  ASSUME ReporterTypeOK, ~ended
  PROVE  Contents(Suites) = Contents(printed) \o Shown(suite_)
  BY ContentsPrinted DEF ReporterTypeOK, Suites

\* Whatever the names, the suites and columns hold every reported measure once and
\* in the order of the reports: PrintSuiteInfo() precedes every StartNewSuite().
THEOREM AllMeasuresAreShown == ReporterSpec => []NothingLost
  <1>1. NothingLost <=> Contents(Suites) = reported
    BY DEF NothingLost, Contents
  <1>2. ReporterInit => NothingLost
    <2> SUFFICES ASSUME ReporterInit PROVE Contents(Suites) = reported
      BY <1>1
    <2>1. Suites = <<>> /\ reported = <<>>
      BY DEF ReporterInit, Suites, PrintSuiteInfo
    <2>2. [k \in DOMAIN <<>> |-> Shown(<<>>[k])] = <<>>
      OBVIOUS
    <2> QED
      BY <2>1, <2>2, FlattenIsFlat, EmptySeq DEF Contents
  <1>3. ASSUME ReporterTypeOK, ReporterTypeOK', NothingLost, [ReporterNext]_reporterVars
        PROVE  NothingLost'
    <2>0. NothingLost' <=> Contents(Suites') = reported'
      BY DEF NothingLost, Contents
    <2>1. CASE ReportRuns
      <3> DEFINE b == program[next[1]]
                 old == CheckForBenchChanges(b)
                 ms == Measures(b, next[2])
      <3>1. /\ b \in Benchmarks /\ ms \in Seq(Measure)
            /\ old.suite \in Suite /\ old.suite # <<>> /\ old.printed \in Seq(Suite)
            /\ printed' = old.printed /\ suite_' = AddMeasures(old.suite, ms)
            /\ reported' = reported \o ms /\ ~ended /\ ended' = ended
        BY <1>3, <2>1, RunStep
      <3>2. Contents(printed) \o Shown(suite_) = reported
        BY <1>1, <1>3, <3>1, KeptIsNothingLost
      <3>3. Contents(old.printed) \o Shown(old.suite) = reported
        BY <1>3, <3>1, <3>2, CheckedContents DEF ReporterTypeOK
      <3> HIDE DEF b, old, ms
      <3>4. suite_' \in Suite /\ printed' \in Seq(Suite)
        BY <1>3 DEF ReporterTypeOK
      <3>5. Suites' = PrintSuiteInfo(printed', suite_')
        BY <3>1 DEF Suites
      <3>6. Contents(Suites') = Contents(old.printed) \o Shown(AddMeasures(old.suite, ms))
        BY <3>1, <3>4, <3>5, ContentsPrinted
      <3>7. Shown(AddMeasures(old.suite, ms)) = Shown(old.suite) \o ms
        BY <3>1, ShownAdded
      <3>8. Contents(old.printed) \in Seq(Measure) /\ Shown(old.suite) \in Seq(Measure)
        BY <3>1, ContentsType, ShownType
      <3>9. (Contents(old.printed) \o Shown(old.suite)) \o ms
              = Contents(old.printed) \o (Shown(old.suite) \o ms)
        BY <3>1, <3>8, ConcatAssociative
      <3> QED
        BY <2>0, <3>1, <3>3, <3>6, <3>7, <3>9
    <2>2. CASE Destroy
      <3>1. Suites' = Suites /\ reported' = reported
        BY <2>2 DEF Destroy, Suites
      <3> QED
        BY <1>1, <1>3, <2>0, <3>1
    <2>3. CASE UNCHANGED reporterVars
      <3>1. Suites' = Suites /\ reported' = reported
        BY <2>3 DEF reporterVars, Suites
      <3> QED
        BY <1>1, <1>3, <2>0, <3>1
    <2> QED
      BY <1>3, <2>1, <2>2, <2>3 DEF ReporterNext
  <1> QED
    BY <1>2, <1>3, ReporterTypeCorrect, PTL DEF ReporterSpec

\* The suites begin with the first benchmark and at each naive one behind it.
LEMMA SuiteNumbers ==
  /\ SuiteNo(1) = 1
  /\ \A i \in Nat : SuiteNo(i) \in Nat \ {0}
  /\ \A i \in Nat \ {0} : SuiteNo(i + 1) = SuiteNo(i) + (IF program[i + 1] \in Naive THEN 1 ELSE 0)
  /\ \A i, k \in Nat : i <= k => SuiteNo(i) <= SuiteNo(k)
  <1> DEFINE N(i) == {j \in 2..i : program[j] \in Naive}
  <1>1. ASSUME NEW i \in Nat PROVE IsFiniteSet(N(i)) /\ Cardinality(N(i)) \in Nat
    <2>1. IsFiniteSet(2..i)
      BY FS_Interval
    <2> QED
      BY <2>1, FS_Subset, FS_CardinalityType
  <1>2. \A i : SuiteNo(i) = 1 + Cardinality(N(i))
    BY DEF SuiteNo
  <1>3. SuiteNo(1) = 1
    <2>1. N(1) = {}
      OBVIOUS
    <2> QED
      BY <1>2, <2>1, FS_EmptySet
  <1>4. \A i \in Nat : SuiteNo(i) \in Nat \ {0}
    <2> HIDE DEF N
    <2> QED
      BY <1>1, <1>2
  <1>5. ASSUME NEW i \in Nat \ {0}
        PROVE  SuiteNo(i + 1) = SuiteNo(i) + (IF program[i + 1] \in Naive THEN 1 ELSE 0)
    <2>1. CASE program[i + 1] \in Naive
      <3>1. N(i + 1) = N(i) \cup {i + 1} /\ i + 1 \notin N(i)
        BY <2>1
      <3>2. Cardinality(N(i + 1)) = Cardinality(N(i)) + 1
        <4> HIDE DEF N
        <4> QED
          BY <1>1, <3>1, FS_AddElement
      <3> HIDE DEF N
      <3> QED
        BY <1>1, <1>2, <2>1, <3>2
    <2>2. CASE program[i + 1] \notin Naive
      <3>1. N(i + 1) = N(i)
        BY <2>2
      <3> HIDE DEF N
      <3> QED
        BY <1>1, <1>2, <2>2, <3>1
    <2> QED
      BY <2>1, <2>2
  <1>6. ASSUME NEW i \in Nat, NEW k \in Nat, i <= k PROVE SuiteNo(i) <= SuiteNo(k)
    <2>1. N(i) \subseteq N(k)
      BY <1>6
    <2> HIDE DEF N
    <2>2. Cardinality(N(i)) <= Cardinality(N(k))
      BY <1>1, <2>1, FS_Subset
    <2> QED
      BY <1>1, <1>2, <2>2
  <1> QED
    BY <1>3, <1>4, <1>5, <1>6

\* Within a suite the places are counted from one.
LEMMA Places ==
  /\ Place(1) = 1
  /\ \A i \in Nat \ {0} : Place(i + 1) = IF program[i + 1] \in Naive THEN 1 ELSE Place(i) + 1
  <1> DEFINE M(i) == {j \in 1..i : SuiteNo(j) = SuiteNo(i)}
  <1>1. \A i : Place(i) = Cardinality(M(i))
    BY DEF Place
  <1>2. Place(1) = 1
    <2>1. M(1) = {1}
      OBVIOUS
    <2> QED
      BY <1>1, <2>1, FS_Singleton
  <1>3. ASSUME NEW i \in Nat \ {0}
        PROVE  Place(i + 1) = IF program[i + 1] \in Naive THEN 1 ELSE Place(i) + 1
    <2>1. \A j \in 1..i : SuiteNo(j) \in Nat /\ SuiteNo(j) <= SuiteNo(i)
      BY SuiteNumbers
    <2>2. /\ SuiteNo(i) \in Nat
          /\ SuiteNo(i + 1) = SuiteNo(i) + (IF program[i + 1] \in Naive THEN 1 ELSE 0)
      BY SuiteNumbers
    <2>3. CASE program[i + 1] \in Naive
      <3>1. \A j \in 1..(i + 1) : SuiteNo(j) = SuiteNo(i + 1) <=> j = i + 1
        <4> SUFFICES ASSUME NEW j \in 1..i PROVE SuiteNo(j) # SuiteNo(i + 1)
          OBVIOUS
        <4> QED
          BY <2>1, <2>2, <2>3
      <3>2. M(i + 1) = {i + 1}
        BY <3>1
      <3> QED
        BY <1>1, <2>3, <3>2, FS_Singleton
    <2>4. CASE program[i + 1] \notin Naive
      <3>1. SuiteNo(i + 1) = SuiteNo(i)
        BY <2>2, <2>4
      <3>2. M(i + 1) = M(i) \cup {i + 1} /\ i + 1 \notin M(i)
        BY <3>1
      <3>3. IsFiniteSet(M(i))
        <4>1. IsFiniteSet(1..i) /\ M(i) \subseteq 1..i
          BY FS_Interval
        <4> QED
          BY <4>1, FS_Subset
      <3> HIDE DEF M
      <3>4. Cardinality(M(i + 1)) = Cardinality(M(i)) + 1
        BY <3>2, <3>3, FS_AddElement
      <3> QED
        BY <1>1, <2>4, <3>4
    <2> QED
      BY <2>3, <2>4
  <1> QED
    BY <1>2, <1>3

LEMMA SuitesPrimed ==
  ASSUME program' = program
  PROVE  \A i : SuiteNo(i)' = SuiteNo(i) /\ Place(i)' = Place(i)
  <1>1. \A i : SuiteNo(i)' = SuiteNo(i)
    BY DEF SuiteNo
  <1> QED
    BY <1>1 DEF Place

LEMMA GroupImpliesGrouped ==
  ASSUME ReporterTypeOK, ~ended, GroupInv
  PROVE  GroupedAsRegistered
  <1>1. Count \in Nat /\ Suites = PrintSuiteInfo(printed, suite_)
    BY ProgramType DEF ReporterTypeOK, Count, Suites
  <1>2. CASE Count = 0
    <2>1. Suites = <<>> /\ Reported = {}
      BY <1>1, <1>2 DEF GroupInv, PrintSuiteInfo, Reported
    <2> QED
      BY <2>1 DEF GroupedAsRegistered
  <1>3. CASE Count > 0
    <2>0. Len(printed) \in Nat
      BY LenProperties DEF ReporterTypeOK
    <2>1. Len(printed) + 1 = SuiteNo(Count) /\ Count \in 1..Count
      BY <1>1, <1>3 DEF GroupInv
    <2>2. Place(Count) \in 1..Len(suite_)
      <3>1. ~(SuiteNo(Count) <= Len(printed))
        BY <2>0, <2>1
      <3>2. Place(Count) \in 1..Len(SuiteAt(SuiteNo(Count)))
        BY <2>1 DEF GroupInv
      <3> QED
        BY <3>1, <3>2 DEF SuiteAt
    <2>3. suite_ # <<>>
      BY <2>2, EmptySeq
    <2>4. /\ Len(Suites) = Len(printed) + 1 /\ Suites \in Seq(Suite)
          /\ \A k \in 1..(Len(printed) + 1) : Suites[k] = SuiteAt(k)
      <3>1. /\ Suites \in Seq(Suite) /\ Len(Suites) = Len(printed) + 1
            /\ \A k \in 1..Len(printed) : Suites[k] = printed[k]
            /\ Suites[Len(printed) + 1] = suite_
        BY <1>1, <2>3, PrintedType DEF ReporterTypeOK
      <3>2. ASSUME NEW k \in 1..(Len(printed) + 1) PROVE Suites[k] = SuiteAt(k)
        <4>1. CASE k <= Len(printed)
          BY <2>0, <3>1, <4>1 DEF SuiteAt
        <4>2. CASE ~(k <= Len(printed))
          <5>1. k = Len(printed) + 1
            BY <2>0, <4>2
          <5> QED
            BY <3>1, <4>2, <5>1 DEF SuiteAt
        <4> QED
          BY <4>1, <4>2
      <3> QED
        BY <3>1, <3>2
    <2>5. \A i \in 1..Count : SuiteNo(i) \in 1..(Len(printed) + 1)
      <3> SUFFICES ASSUME NEW i \in 1..Count PROVE SuiteNo(i) \in 1..(Len(printed) + 1)
        OBVIOUS
      <3>1. i \in Nat /\ Count \in Nat /\ i <= Count
        BY <1>1
      <3>2. SuiteNo(i) \in Nat \ {0} /\ SuiteNo(i) <= SuiteNo(Count)
        BY <3>1, SuiteNumbers
      <3> QED
        BY <2>0, <2>1, <3>2
    <2>6. \A i \in 1..Count : Suites[SuiteNo(i)][Place(i)].name = program[i]
      BY <2>4, <2>5 DEF GroupInv
    <2>7. ASSUME NEW k \in DOMAIN Suites, NEW c \in DOMAIN Suites[k]
          PROVE  \E i \in 1..Count : SuiteNo(i) = k /\ Place(i) = c
      <3>1. k \in 1..(Len(printed) + 1)
        BY <2>4, LenProperties
      <3>2. Suites[k] = SuiteAt(k) /\ Suites[k] \in Suite
        BY <2>4, <3>1, ElementOfSeq
      <3>3. c \in 1..Len(SuiteAt(k))
        BY <3>2, LenProperties DEF Suite
      <3> QED
        BY <3>1, <3>3 DEF GroupInv
    <2> QED
      BY <2>6, <2>7 DEF GroupedAsRegistered, Reported
  <1> QED
    BY <1>1, <1>2, <1>3

\* A run of a benchmark that has reported before goes into the last column; any other
\* benchmark gets a column, since no name contains the one before it.
LEMMA WhoseColumn ==
  ASSUME ReporterTypeOK, next[1] \in 1..Len(program), NamesDistinct, GroupInv, ~ended
  PROVE  LET b == program[next[1]]
         IN  /\ next[2] > 1 => /\ ~BenchChanged(suite_, b) /\ suite_ # <<>>
                               /\ Count = next[1] /\ Last(suite_).name = b
             /\ next[2] = 1 => BenchChanged(suite_, b) /\ Count = next[1] - 1
  <1> DEFINE b == program[next[1]]
  <1>0. next[1] \in Nat \ {0} /\ next[2] \in Nat \ {0} /\ b \in Benchmarks
    <2>1. b \in Benchmarks /\ range[b] \in 1..MaxArgs /\ next[2] \in 1..range[b]
      BY ProgramType DEF ReporterTypeOK
    <2> QED
      BY <2>1, MaxArgsAssumption
  <1>1. ASSUME next[2] > 1
        PROVE  /\ ~BenchChanged(suite_, b) /\ suite_ # <<>>
               /\ Count = next[1] /\ Last(suite_).name = b
    <2>1. Count = next[1] /\ Count > 0
      BY <1>0, <1>1 DEF Count
    <2>2. Last(suite_).name = b /\ Count \in 1..Count /\ Len(printed) + 1 = SuiteNo(Count)
      BY <1>0, <2>1 DEF GroupInv
    <2>3. suite_ # <<>>
      <3>1. Place(Count) \in 1..Len(SuiteAt(SuiteNo(Count))) /\ Len(printed) \in Nat
        BY <2>2, LenProperties DEF GroupInv, ReporterTypeOK
      <3>2. SuiteAt(SuiteNo(Count)) = suite_
        BY <2>2, <3>1 DEF SuiteAt
      <3> QED
        BY <3>1, <3>2, EmptySeq
    <2>4. <<b, b>> \in Includes
      BY <1>0, IncludesAssumption
    <2> QED
      BY <2>1, <2>2, <2>3, <2>4 DEF BenchChanged
  <1>2. ASSUME next[2] = 1
        PROVE  BenchChanged(suite_, b) /\ Count = next[1] - 1
    <2>1. Count = next[1] - 1 /\ Count \in Nat
      BY <1>0, <1>2 DEF Count
    <2>2. CASE Count = 0
      BY <2>1, <2>2 DEF GroupInv, BenchChanged
    <2>3. CASE Count > 0
      <3>1. Last(suite_).name = program[next[1] - 1]
        BY <2>1, <2>3 DEF GroupInv
      <3>2. next[1] \in 2..Len(program)
        BY <1>0, <2>1, <2>3
      <3> QED
        BY <2>1, <3>1, <3>2 DEF NamesDistinct, BenchChanged
    <2> QED
      BY <2>1, <2>2, <2>3
  <1> QED
    BY <1>1, <1>2

\* How many benchmarks have been reported after a run.
LEMMA CountPrimed ==
  ASSUME ReporterTypeOK, ReportRuns
  PROVE  Count' = next[1]
  <1> DEFINE b == program[next[1]]
  <1>1. /\ next[1] \in 1..Len(program) /\ next[2] \in 1..range[b]
        /\ next' = IF next[2] = range[b] THEN <<next[1] + 1, 1>> ELSE <<next[1], next[2] + 1>>
    BY RunStep
  <1>2. next[1] \in Nat /\ next[2] \in Nat \ {0}
    <2>1. range[b] \in 1..MaxArgs
      BY <1>1, ProgramType DEF ReporterTypeOK
    <2> QED
      BY <1>1, <2>1, MaxArgsAssumption
  <1>3. CASE next[2] = range[b]
    <2>1. next'[1] = next[1] + 1 /\ next'[2] = 1
      BY <1>1, <1>3
    <2> QED
      BY <1>2, <2>1 DEF Count
  <1>4. CASE next[2] # range[b]
    <2>1. next'[1] = next[1] /\ next'[2] = next[2] + 1
      BY <1>1, <1>4
    <2> QED
      BY <1>2, <2>1 DEF Count
  <1> QED
    BY <1>3, <1>4

\* What the run of a benchmark does to lengths and names: a run of the last benchmark
\* nothing, any other appends a column, to a new suite if the benchmark is naive.
LEMMA RunGroups ==
  ASSUME ReporterTypeOK, ReportRuns, NamesDistinct, GroupInv
  PROVE  LET b == program[next[1]]
         IN  /\ next[2] > 1 =>
                  /\ printed' = printed /\ Len(suite_') = Len(suite_)
                  /\ \A c \in 1..Len(suite_) : suite_'[c].name = suite_[c].name
             /\ next[2] = 1 /\ b \in Naive =>
                  /\ printed' = PrintSuiteInfo(printed, suite_)
                  /\ Len(suite_') = 1 /\ suite_'[1].name = b
             /\ next[2] = 1 /\ b \notin Naive =>
                  /\ printed' = printed /\ Len(suite_') = Len(suite_) + 1
                  /\ \A c \in 1..Len(suite_) : suite_'[c].name = suite_[c].name
                  /\ suite_'[Len(suite_) + 1].name = b
  <1> DEFINE b == program[next[1]]
             old == CheckForBenchChanges(b)
             ms == Measures(b, next[2])
  <1>1. /\ next[1] \in 1..Len(program) /\ b \in Benchmarks /\ ~ended
        /\ old.suite \in Suite /\ old.suite # <<>> /\ ms \in Seq(Measure)
        /\ printed' = old.printed /\ suite_' = AddMeasures(old.suite, ms)
    BY RunStep
  <1>2. /\ Len(suite_') = Len(old.suite)
        /\ \A c \in 1..Len(old.suite) : suite_'[c].name = old.suite[c].name
    <2> HIDE DEF old, ms
    <2> QED
      BY <1>1, AddedMeasures
  <1>3. ASSUME next[2] > 1
        PROVE  /\ printed' = printed /\ Len(suite_') = Len(suite_)
               /\ \A c \in 1..Len(suite_) : suite_'[c].name = suite_[c].name
    <2>1. old.suite = suite_ /\ old.printed = printed
      BY <1>1, <1>3, WhoseColumn DEF CheckForBenchChanges
    <2> HIDE DEF old
    <2> QED
      BY <1>1, <1>2, <2>1
  <1>4. ASSUME next[2] = 1, b \in Naive
        PROVE  /\ printed' = PrintSuiteInfo(printed, suite_)
               /\ Len(suite_') = 1 /\ suite_'[1].name = b
    <2>1. /\ old.suite = AddNewBenchmarkToSuite(<<>>, b)
          /\ old.printed = PrintSuiteInfo(printed, suite_)
      BY <1>1, <1>4, WhoseColumn DEF CheckForBenchChanges
    <2>2. Len(old.suite) = 1 /\ old.suite[1].name = b
      BY <2>1 DEF AddNewBenchmarkToSuite
    <2> HIDE DEF old
    <2> QED
      BY <1>1, <1>2, <2>1, <2>2
  <1>5. ASSUME next[2] = 1, b \notin Naive
        PROVE  /\ printed' = printed /\ Len(suite_') = Len(suite_) + 1
               /\ \A c \in 1..Len(suite_) : suite_'[c].name = suite_[c].name
               /\ suite_'[Len(suite_) + 1].name = b
    <2>1. old.suite = AddNewBenchmarkToSuite(suite_, b) /\ old.printed = printed
      BY <1>1, <1>5, WhoseColumn DEF CheckForBenchChanges
    <2>2. /\ Len(old.suite) = Len(suite_) + 1
          /\ \A c \in 1..Len(suite_) : old.suite[c] = suite_[c]
          /\ old.suite[Len(suite_) + 1].name = b
      <3>1. /\ \A c \in 1..Len(suite_) : AddNewBenchmarkToSuite(suite_, b)[c] = suite_[c]
            /\ Len(AddNewBenchmarkToSuite(suite_, b)) = Len(suite_) + 1
            /\ AddNewBenchmarkToSuite(suite_, b)[Len(AddNewBenchmarkToSuite(suite_, b))]
                 = [name |-> b, measures |-> <<>>]
        BY <1>1, NewColumn DEF ReporterTypeOK
      <3> QED
        BY <2>1, <3>1
    <2>3. Len(suite_) \in Nat
      BY LenProperties DEF ReporterTypeOK, Suite
    <2> HIDE DEF old
    <2> QED
      BY <1>1, <1>2, <2>1, <2>2, <2>3
  <1> QED
    BY <1>3, <1>4, <1>5

LEMMA RunKeepsGroup ==
  ASSUME ReporterTypeOK, ReportRuns, NamesDistinct, GroupInv
  PROVE  GroupInv'
  <1> DEFINE b == program[next[1]]
             m == next[1]
             n == Count
             L == Len(printed)
             A(k) == IF k <= Len(printed') THEN printed'[k] ELSE suite_'  \* SuiteAt(k)'
  <1>1. /\ m \in 1..Len(program) /\ m \in Nat \ {0} /\ next[2] \in Nat \ {0} /\ ~ended
        /\ program' = program /\ b \in Benchmarks
    <2>1. /\ m \in 1..Len(program) /\ ~ended /\ program' = program /\ b \in Benchmarks
          /\ next[2] \in 1..range[b]
      BY RunStep
    <2>2. range[b] \in 1..MaxArgs
      BY <2>1, ProgramType DEF ReporterTypeOK
    <2> QED
      BY <2>1, <2>2, MaxArgsAssumption
  <1>2. Count' = m
    BY CountPrimed
  <1>3. \A i : SuiteNo(i)' = SuiteNo(i) /\ Place(i)' = Place(i)
    BY <1>1, SuitesPrimed
  <1>4. L \in Nat /\ Len(suite_) \in Nat
    BY LenProperties DEF ReporterTypeOK, Suite
  <1>5. Len(printed') \in Nat
    <2>1. printed' \in Seq(Suite)
      BY RunStep
    <2> QED
      BY <2>1, LenProperties
  \* What remains to be shown, with everything but printed and suite_ unprimed.
  <1> DEFINE Goal1 == /\ Len(printed') + 1 = SuiteNo(m)
                      /\ Len(suite_') = Place(m)
                      /\ suite_'[Len(suite_')].name = b
             Goal2 == \A i \in 1..m :
                        /\ Place(i) \in 1..Len(A(SuiteNo(i)))
                        /\ A(SuiteNo(i))[Place(i)].name = program[i]
             Goal3 == \A k \in 1..(Len(printed') + 1) : \A c \in 1..Len(A(k)) :
                        \E i \in 1..m : SuiteNo(i) = k /\ Place(i) = c
  <1>6. SUFFICES Goal1 /\ Goal2 /\ Goal3
    <2>1. (Last(suite_).name)' = suite_'[Len(suite_')].name
      BY LastIs
    <2>2. Goal2 => (\A i \in 1..Count : /\ Place(i) \in 1..Len(SuiteAt(SuiteNo(i)))
                                        /\ SuiteAt(SuiteNo(i))[Place(i)].name = program[i])'
      BY <1>1, <1>2, <1>3 DEF SuiteAt
    <2>3. Goal3 => (\A k \in 1..(Len(printed) + 1) : \A c \in 1..Len(SuiteAt(k)) :
                      \E i \in 1..Count : SuiteNo(i) = k /\ Place(i) = c)'
      BY <1>2, <1>3 DEF SuiteAt
    <2>4. Goal1 => (/\ Count = 0 => printed = <<>> /\ suite_ = <<>>
                    /\ Count > 0 => /\ Len(printed) + 1 = SuiteNo(Count)
                                    /\ Len(suite_) = Place(Count)
                                    /\ Last(suite_).name = program[Count])'
      BY <1>1, <1>2, <1>3, <2>1
    <2> QED
      BY <2>2, <2>3, <2>4 DEF GroupInv
  <1>7. n > 0 => /\ L + 1 = SuiteNo(n) /\ Len(suite_) = Place(n)
                 /\ suite_[Len(suite_)].name = program[n]
    BY LastIs DEF GroupInv
  <1>8. CASE next[2] > 1
    <2>1. n = m /\ printed' = printed /\ Len(suite_') = Len(suite_)
      BY <1>1, <1>8, WhoseColumn, RunGroups
    <2>2. \A c \in 1..Len(suite_) : suite_'[c].name = suite_[c].name
      BY <1>8, RunGroups
    <2>3. \A k : /\ Len(A(k)) = Len(SuiteAt(k))
                 /\ \A c \in 1..Len(SuiteAt(k)) : A(k)[c].name = SuiteAt(k)[c].name
      BY <1>5, <2>1, <2>2 DEF SuiteAt
    <2>4. m \in 1..m /\ Place(m) \in 1..Len(suite_)
      <3>1. m \in 1..m /\ ~(SuiteNo(m) <= L)
        BY <1>1, <1>4, <1>7, <2>1
      <3> QED
        BY <2>1, <3>1 DEF GroupInv, SuiteAt
    <2>5. Goal1
      BY <1>1, <1>7, <2>1, <2>2, <2>4
    <2>6. Goal2
      BY <2>1, <2>3 DEF GroupInv
    <2>7. Goal3
      BY <2>1, <2>3 DEF GroupInv
    <2> QED
      BY <2>5, <2>6, <2>7
  <1>9. CASE next[2] = 1
    <2>1. n = m - 1 /\ n \in Nat /\ n + 1 = m
      BY <1>1, <1>9, WhoseColumn
    <2>2. m = 1 => n = 0 /\ printed = <<>> /\ suite_ = <<>> /\ SuiteNo(m) = 1 /\ Place(m) = 1
      BY <2>1, SuiteNumbers, Places DEF GroupInv
    <2>3. m # 1 => /\ n > 0 /\ n \in Nat \ {0} /\ SuiteNo(n) = L + 1 /\ Place(n) = Len(suite_)
                   /\ SuiteNo(m) = (L + 1) + (IF b \in Naive THEN 1 ELSE 0)
                   /\ Place(m) = IF b \in Naive THEN 1 ELSE Len(suite_) + 1
      <3>1. m # 1 => n > 0 /\ n \in Nat \ {0}
        BY <1>1, <2>1
      <3>2. m # 1 => /\ SuiteNo(m) = SuiteNo(n) + (IF b \in Naive THEN 1 ELSE 0)
                     /\ Place(m) = IF b \in Naive THEN 1 ELSE Place(n) + 1
        BY <2>1, <3>1, SuiteNumbers, Places
      <3> QED
        BY <1>7, <3>1, <3>2
    \* The benchmarks before this one are where they were.
    <2>4. \A i \in 1..n : i \in 1..m /\ SuiteNo(i) \in 1..(L + 1)
      <3> SUFFICES ASSUME NEW i \in 1..n PROVE i \in 1..m /\ SuiteNo(i) \in 1..(L + 1)
        OBVIOUS
      <3>1. i \in Nat /\ i <= n /\ m # 1 /\ i \in 1..m
        BY <2>1
      <3>2. SuiteNo(i) \in Nat \ {0} /\ SuiteNo(i) <= SuiteNo(n)
        BY <2>1, <3>1, SuiteNumbers
      <3> QED
        BY <1>4, <2>3, <3>1, <3>2
    <2>5. \A i \in 1..m : i \in 1..n \/ i = m
      BY <2>1
    <2>6. m \in 1..m
      BY <1>1
    <2>7. CASE b \in Naive
      <3>1. printed' = PrintSuiteInfo(printed, suite_) /\ Len(suite_') = 1 /\ suite_'[1].name = b
        BY <1>9, <2>7, RunGroups
      <3>2. m # 1 => suite_ # <<>>
        <4>1. m # 1 => n \in 1..n /\ ~(SuiteNo(n) <= L)
          BY <1>4, <2>1, <2>3
        <4>2. m # 1 => Place(n) \in 1..Len(suite_)
          BY <4>1 DEF GroupInv, SuiteAt
        <4> QED
          BY <4>2, EmptySeq
      <3>3. m # 1 => /\ Len(printed') = L + 1
                     /\ \A k \in 1..(L + 1) : printed'[k] = SuiteAt(k)
        <4> SUFFICES ASSUME m # 1
                     PROVE  /\ Len(printed') = L + 1
                            /\ \A k \in 1..(L + 1) : printed'[k] = SuiteAt(k)
          OBVIOUS
        <4>1. /\ Len(printed') = L + 1 /\ printed'[L + 1] = suite_
              /\ \A k \in 1..L : printed'[k] = printed[k]
          BY <3>1, <3>2, PrintedType DEF ReporterTypeOK
        <4>2. \A k \in 1..(L + 1) : IF k <= L THEN k \in 1..L ELSE k = L + 1
          BY <1>4
        <4> QED
          BY <4>1, <4>2 DEF SuiteAt
      <3>4. m = 1 => printed' = <<>> /\ Len(printed') = 0
        BY <2>2, <3>1 DEF PrintSuiteInfo
      <3>5. SuiteNo(m) = Len(printed') + 1 /\ Place(m) = 1
        BY <1>4, <2>2, <2>3, <2>7, <3>3, <3>4
      <3>6. A(SuiteNo(m)) = suite_'
        <4>1. ~(SuiteNo(m) <= Len(printed'))
          BY <1>5, <3>5
        <4> QED
          BY <1>5, <4>1
      <3>7. \A k \in 1..(L + 1) : m # 1 => A(k) = SuiteAt(k)
        BY <1>4, <1>5, <3>3
      <3>8. Goal1
        BY <3>1, <3>5
      <3>9. Goal2
        <4> SUFFICES ASSUME NEW i \in 1..m
                     PROVE  /\ Place(i) \in 1..Len(A(SuiteNo(i)))
                            /\ A(SuiteNo(i))[Place(i)].name = program[i]
          OBVIOUS
        <4>1. CASE i = m
          <5>1. A(SuiteNo(i)) = suite_' /\ Place(i) = 1
            BY <3>5, <3>6, <4>1
          <5>2. 1 \in 1..Len(suite_') /\ suite_'[1].name = program[i]
            BY <3>1, <4>1
          <5> HIDE DEF A
          <5> QED
            BY <5>1, <5>2
        <4>2. CASE i \in 1..n
          <5>1. A(SuiteNo(i)) = SuiteAt(SuiteNo(i))
            BY <2>1, <2>4, <3>7, <4>2
          <5> QED
            BY <4>2, <5>1 DEF GroupInv
        <4> QED
          BY <2>5, <4>1, <4>2
      <3>10. Goal3
        <4> SUFFICES ASSUME NEW k \in 1..(Len(printed') + 1), NEW c \in 1..Len(A(k))
                     PROVE  \E i \in 1..m : SuiteNo(i) = k /\ Place(i) = c
          OBVIOUS
        <4>1. CASE k = Len(printed') + 1
          <5>1. c \in 1..1
            BY <3>1, <3>5, <3>6, <4>1
          <5> QED
            BY <2>6, <3>5, <4>1, <5>1
        <4>2. CASE k # Len(printed') + 1
          <5>1. m # 1 /\ k \in 1..(L + 1)
            BY <1>4, <1>5, <3>3, <3>4, <4>2
          <5>2. c \in 1..Len(SuiteAt(k))
            BY <3>7, <5>1
          <5>3. PICK i \in 1..n : SuiteNo(i) = k /\ Place(i) = c
            BY <5>1, <5>2 DEF GroupInv
          <5> QED
            BY <2>4, <5>3
        <4> QED
          BY <4>1, <4>2
      <3> QED
        BY <3>8, <3>9, <3>10
    <2>8. CASE b \notin Naive
      <3>1. /\ printed' = printed /\ Len(suite_') = Len(suite_) + 1
            /\ \A c \in 1..Len(suite_) : suite_'[c].name = suite_[c].name
            /\ suite_'[Len(suite_) + 1].name = b
        BY <1>9, <2>8, RunGroups
      <3>2. m = 1 => L = 0 /\ Len(suite_) = 0
        BY <2>2
      <3>3. SuiteNo(m) = L + 1 /\ Place(m) = Len(suite_) + 1
        BY <1>4, <2>2, <2>3, <2>8, <3>2
      <3>4. A(L + 1) = suite_' /\ SuiteAt(L + 1) = suite_
        <4>1. ~(L + 1 <= L)
          BY <1>4
        <4> QED
          BY <1>5, <3>1, <4>1 DEF SuiteAt
      <3>5. \A k \in 1..L : A(k) = SuiteAt(k)
        BY <1>4, <1>5, <3>1 DEF SuiteAt
      <3>6. Goal1
        BY <3>1, <3>3
      <3>7. Goal2
        <4> SUFFICES ASSUME NEW i \in 1..m
                     PROVE  /\ Place(i) \in 1..Len(A(SuiteNo(i)))
                            /\ A(SuiteNo(i))[Place(i)].name = program[i]
          OBVIOUS
        <4>1. CASE i = m
          BY <1>4, <3>1, <3>3, <3>4, <4>1
        <4>2. CASE i \in 1..n
          <5>1. /\ Place(i) \in 1..Len(SuiteAt(SuiteNo(i)))
                /\ SuiteAt(SuiteNo(i))[Place(i)].name = program[i]
            BY <4>2 DEF GroupInv
          <5>2. CASE SuiteNo(i) = L + 1
            BY <1>4, <3>1, <3>4, <5>1, <5>2
          <5>3. CASE SuiteNo(i) # L + 1
            <6>1. SuiteNo(i) \in 1..L
              BY <1>4, <2>4, <4>2, <5>3
            <6> QED
              BY <3>5, <5>1, <6>1
          <5> QED
            BY <5>2, <5>3
        <4> QED
          BY <2>5, <4>1, <4>2
      <3>8. Goal3
        <4> SUFFICES ASSUME NEW k \in 1..(L + 1), NEW c \in 1..Len(A(k))
                     PROVE  \E i \in 1..m : SuiteNo(i) = k /\ Place(i) = c
          BY <3>1
        <4>1. CASE k = L + 1 /\ c = Len(suite_) + 1
          BY <2>6, <3>3, <4>1
        <4>2. CASE ~(k = L + 1 /\ c = Len(suite_) + 1)
          <5>1. c \in 1..Len(SuiteAt(k))
            <6>1. CASE k = L + 1
              BY <1>4, <3>1, <3>4, <4>2, <6>1
            <6>2. CASE k # L + 1
              <7>1. k \in 1..L
                BY <1>4, <6>2
              <7> QED
                BY <3>5, <7>1
            <6> QED
              BY <6>1, <6>2
          <5>2. PICK i \in 1..n : SuiteNo(i) = k /\ Place(i) = c
            BY <5>1 DEF GroupInv
          <5> QED
            BY <2>4, <5>2
        <4> QED
          BY <4>1, <4>2
      <3> QED
        BY <3>6, <3>7, <3>8
    <2> QED
      BY <2>7, <2>8
  <1> QED
    BY <1>1, <1>8, <1>9

LEMMA GroupsAreKept == ReporterSpec => [](GroupedInv /\ GroupedAsRegistered)
  <1>1. ReporterInit => GroupedInv /\ GroupedAsRegistered
    <2> SUFFICES ASSUME ReporterInit PROVE GroupedInv /\ GroupedAsRegistered
      OBVIOUS
    <2>1. Count = 0 /\ printed = <<>> /\ suite_ = <<>> /\ ~ended
      BY DEF ReporterInit, Count
    <2>2. Suites = <<>> /\ Reported = {}
      BY <2>1 DEF Suites, PrintSuiteInfo, Reported
    <2>3. GroupedAsRegistered
      BY <2>2 DEF GroupedAsRegistered
    <2>4. \A k \in 1..(Len(printed) + 1) : Len(SuiteAt(k)) = 0
      BY <2>1 DEF SuiteAt
    <2>5. GroupInv
      BY <2>1, <2>4 DEF GroupInv
    <2> QED
      BY <2>3, <2>5 DEF GroupedInv
  <1>2. ASSUME ReporterTypeOK, ReporterTypeOK', GroupedInv, GroupedAsRegistered,
               [ReporterNext]_reporterVars
        PROVE  GroupedInv' /\ GroupedAsRegistered'
    <2>0. program' = program => (NamesDistinct' <=> NamesDistinct)
      BY DEF NamesDistinct
    <2>1. CASE ReportRuns
      <3>1. program' = program /\ ~ended /\ ended' = ended
        BY <2>1 DEF ReportRuns
      <3>2. GroupedInv'
        BY <1>2, <2>0, <2>1, <3>1, RunKeepsGroup DEF GroupedInv
      <3>3. NamesDistinct => GroupedAsRegistered'
        <4> SUFFICES ASSUME NamesDistinct PROVE GroupedAsRegistered'
          OBVIOUS
        <4>1. GroupInv' /\ ~ended'
          BY <2>0, <3>1, <3>2 DEF GroupedInv
        <4>2. (ReporterTypeOK /\ ~ended /\ GroupInv => GroupedAsRegistered)'
          BY GroupImpliesGrouped, PTL
        <4> QED
          BY <1>2, <4>1, <4>2
      <3>4. ~NamesDistinct => GroupedAsRegistered'
        BY <2>0, <3>1 DEF GroupedAsRegistered
      <3> QED
        BY <3>2, <3>3, <3>4
    <2>2. CASE Destroy
      <3>1. /\ program' = program /\ next' = next /\ ended'
            /\ Suites' = Suites /\ Reported' = Reported
        BY <2>2 DEF Destroy, Suites, Reported, Count
      <3>2. \A i : SuiteNo(i)' = SuiteNo(i) /\ Place(i)' = Place(i)
        BY <3>1, SuitesPrimed
      <3>3. GroupedAsRegistered'
        BY <1>2, <2>0, <3>1, <3>2 DEF GroupedAsRegistered
      <3> QED
        BY <3>1, <3>3 DEF GroupedInv
    <2>3. CASE UNCHANGED reporterVars
      <3>1. /\ program' = program /\ next' = next /\ ended' = ended
            /\ printed' = printed /\ suite_' = suite_
            /\ Suites' = Suites /\ Reported' = Reported /\ Count' = Count
        BY <2>3 DEF reporterVars, Suites, Reported, Count
      <3>2. \A i : SuiteNo(i)' = SuiteNo(i) /\ Place(i)' = Place(i)
        BY <3>1, SuitesPrimed
      <3>3. GroupedAsRegistered'
        BY <1>2, <2>0, <3>1, <3>2 DEF GroupedAsRegistered
      <3>4. GroupInv' <=> GroupInv
        BY <3>1, <3>2 DEF GroupInv, SuiteAt
      <3> QED
        BY <1>2, <2>0, <3>1, <3>3, <3>4 DEF GroupedInv
    <2> QED
      BY <1>2, <2>1, <2>2, <2>3 DEF ReporterNext
  <1> QED
    BY <1>1, <1>2, ReporterTypeCorrect, PTL DEF ReporterSpec

\* Benchmarks whose names do not contain the one before are put where the
\* registration puts them: the suites grow by runs, but none is split or mixed.
THEOREM SuitesAsRegistered == ReporterSpec => []GroupedAsRegistered
  BY GroupsAreKept, PTL

\* Where the measures of a run go: to the end of the column of its benchmark, which
\* has one for each earlier argument.
LEMMA RunColumns ==
  ASSUME ReporterTypeOK, ReportRuns, NamesDistinct, GroupInv, ColumnInv
  PROVE  LET old == CheckForBenchChanges(program[next[1]])
         IN  /\ \A c \in 1..Len(old.suite) : InOrder(old.suite[c])
             /\ \A k \in 1..Len(old.printed) : \A c \in 1..Len(old.printed[k]) :
                  InOrder(old.printed[k][c])
             /\ old.suite[Len(old.suite)].name = program[next[1]]
             /\ Len(old.suite[Len(old.suite)].measures) = next[2] - 1
  <1> DEFINE b == program[next[1]]
             old == CheckForBenchChanges(b)
             col == [name |-> b, measures |-> <<>>]
  <1>1. next[1] \in 1..Len(program) /\ b \in Benchmarks /\ ~ended /\ next[2] \in 1..range[b]
    BY RunStep
  <1>2. range[b] \in Nat /\ next[2] \in Nat \ {0} /\ Len(suite_) \in Nat
    <2>1. range[b] \in 1..MaxArgs
      BY <1>1, ProgramType DEF ReporterTypeOK
    <2> QED
      BY <1>1, <2>1, MaxArgsAssumption, LenProperties DEF ReporterTypeOK, Suite
  <1>3. InOrder(col) /\ Len(col.measures) = 0 /\ col.name = b
    BY <1>2 DEF InOrder
  <1>4. ASSUME NEW s \in Suite, \A c \in 1..Len(s) : InOrder(s[c])
        PROVE  LET t == AddNewBenchmarkToSuite(s, b)
               IN  t[Len(t)] = col /\ \A c \in 1..Len(t) : InOrder(t[c])
    <2> DEFINE t == AddNewBenchmarkToSuite(s, b)
    <2>1. /\ Len(t) = Len(s) + 1 /\ t[Len(t)] = col /\ \A c \in 1..Len(s) : t[c] = s[c]
          /\ Len(s) \in Nat
      BY <1>1, NewColumn, LenProperties DEF Suite
    <2>2. \A c \in 1..Len(t) : c \in 1..Len(s) \/ c = Len(t)
      BY <2>1
    <2> HIDE DEF t, col
    <2> QED
      BY <1>3, <1>4, <2>1, <2>2 DEF t
  <1>5. CASE next[2] > 1
    <2>1. old.suite = suite_ /\ old.printed = printed /\ Last(suite_).name = b
      BY <1>1, <1>5, WhoseColumn DEF CheckForBenchChanges
    <2>2. Len(Last(suite_).measures) = next[2] - 1
      BY <1>1, <1>5 DEF ColumnInv
    <2> HIDE DEF old
    <2> QED
      BY <2>1, <2>2, LastIs DEF ColumnInv, old
  <1>6. CASE next[2] = 1
    <2>1. BenchChanged(suite_, b)
      BY <1>1, <1>6, WhoseColumn
    <2>2. CASE b \notin Naive
      <3>1. old.suite = AddNewBenchmarkToSuite(suite_, b) /\ old.printed = printed
        BY <2>1, <2>2 DEF CheckForBenchChanges
      <3>2. old.suite[Len(old.suite)] = col /\ \A c \in 1..Len(old.suite) : InOrder(old.suite[c])
        BY <1>4, <3>1 DEF ColumnInv, ReporterTypeOK
      <3> HIDE DEF col
      <3> QED
        BY <1>3, <1>6, <3>1, <3>2 DEF ColumnInv
    <2>3. CASE b \in Naive
      <3>1. /\ old.suite = AddNewBenchmarkToSuite(<<>>, b)
            /\ old.printed = PrintSuiteInfo(printed, suite_)
        BY <2>1, <2>3 DEF CheckForBenchChanges
      <3>2. <<>> \in Suite /\ Len(<<>>) = 0
        BY EmptySeq DEF Suite
      <3>3. old.suite[Len(old.suite)] = col /\ \A c \in 1..Len(old.suite) : InOrder(old.suite[c])
        BY <1>4, <3>1, <3>2
      <3>4. \A k \in 1..Len(old.printed) : \A c \in 1..Len(old.printed[k]) :
              InOrder(old.printed[k][c])
        <4>1. CASE suite_ = <<>>
          <5>1. old.printed = printed
            BY <3>1, <4>1 DEF PrintSuiteInfo
          <5> HIDE DEF old
          <5> QED
            BY <5>1 DEF ColumnInv
        <4>2. CASE suite_ # <<>>
          <5>1. /\ Len(old.printed) = Len(printed) + 1 /\ old.printed[Len(printed) + 1] = suite_
                /\ \A k \in 1..Len(printed) : old.printed[k] = printed[k]
                /\ Len(printed) \in Nat
            BY <3>1, <4>2, PrintedType, LenProperties DEF ReporterTypeOK
          <5> HIDE DEF old
          <5>2. \A k \in 1..Len(old.printed) : k \in 1..Len(printed) \/ k = Len(printed) + 1
            BY <5>1
          <5> QED
            BY <5>1, <5>2 DEF ColumnInv
        <4> QED
          BY <4>1, <4>2
      <3> HIDE DEF col
      <3> QED
        BY <1>3, <1>6, <3>3, <3>4
    <2> QED
      BY <2>2, <2>3
  <1> QED
    BY <1>2, <1>5, <1>6

LEMMA RunKeepsOrder ==
  ASSUME ReporterTypeOK, ReportRuns, NamesDistinct, GroupInv, ColumnInv
  PROVE  ColumnInv'
  <1> DEFINE b == program[next[1]]
             a == next[2]
             old == CheckForBenchChanges(b)
             ms == Measures(b, a)
             n == Len(old.suite)
             M == old.suite[n].measures
  <1>1. /\ b \in Benchmarks /\ a \in 1..range[b]
        /\ old.suite \in Suite /\ old.suite # <<>> /\ ms \in Seq(Measure)
        /\ printed' = old.printed /\ suite_' = AddMeasures(old.suite, ms)
        /\ range' = range
        /\ next' = IF a = range[b] THEN <<next[1] + 1, 1>> ELSE <<next[1], a + 1>>
    BY RunStep
  <1>2. range[b] \in Nat /\ a \in Nat \ {0} /\ a <= range[b]
    <2>1. range[b] \in 1..MaxArgs
      BY <1>1 DEF ReporterTypeOK
    <2> QED
      BY <1>1, <2>1, MaxArgsAssumption
  <1>3. /\ Len(ms) \in {1, 2} /\ ms[1].arg = a
        /\ Len(ms) = 2 => a = range[b] /\ ms[2].arg = 0
    <2>1. /\ Len(ms) \in 1..(IF a = range[b] THEN 2 ELSE 1) /\ ms[1].arg = a
          /\ Len(ms) = 2 => ms[2].arg = 0
      BY <1>1, NewMeasures DEF ReporterTypeOK
    <2>2. CASE a = range[b]
      <3>1. Len(ms) \in 1..2
        BY <2>1, <2>2
      <3> HIDE DEF ms
      <3> QED
        BY <2>1, <2>2, <3>1
    <2>3. CASE a # range[b]
      <3>1. Len(ms) \in 1..1
        BY <2>1, <2>3
      <3> HIDE DEF ms
      <3> QED
        BY <2>1, <3>1
    <2> QED
      BY <2>2, <2>3
  <1>4. /\ \A c \in 1..n : InOrder(old.suite[c])
        /\ \A k \in 1..Len(old.printed) : \A c \in 1..Len(old.printed[k]) : InOrder(old.printed[k][c])
        /\ old.suite[n].name = b /\ Len(M) = a - 1
    BY RunColumns
  <1> HIDE DEF old, ms
  <1>5. n \in 1..n /\ M \in Seq(Measure)
    <2>1. n \in Nat \ {0}
      BY <1>1, EmptySeq DEF Suite
    <2>2. old.suite[n] \in Column
      BY <1>1, <2>1, ElementOfSeq DEF Suite
    <2> QED
      BY <2>1, <2>2 DEF Column
  <1>6. /\ Len(suite_') = n /\ \A c \in 1..n : suite_'[c].name = old.suite[c].name
        /\ \A c \in 1..n : c # n => suite_'[c] = old.suite[c]
        /\ suite_'[n].measures = M \o ms
    BY <1>1, AddedMeasures
  <1>7. /\ Len(M \o ms) = (a - 1) + Len(ms)
        /\ \A i \in 1..((a - 1) + Len(ms)) :
             (M \o ms)[i] = IF i <= a - 1 THEN M[i] ELSE ms[i - (a - 1)]
    <2> HIDE DEF M
    <2>1. /\ Len(M \o ms) = Len(M) + Len(ms)
          /\ \A i \in 1..(Len(M) + Len(ms)) :
               (M \o ms)[i] = IF i <= Len(M) THEN M[i] ELSE ms[i - Len(M)]
      BY <1>1, <1>5, ConcatProperties
    <2> QED
      BY <1>4, <2>1
  <1>8. \A i \in 1..(a - 1) : M[i].arg = i
    <2>1. InOrder(old.suite[n])
      BY <1>4, <1>5
    <2>2. \A i \in 1..(a - 1) : i \in 1..Len(M) /\ i <= range[b]
      BY <1>2, <1>4
    <2> QED
      BY <1>4, <2>1, <2>2 DEF InOrder
  <1>9. /\ Len(M \o ms) <= range[b] + 1
        /\ \A i \in 1..Len(M \o ms) : (M \o ms)[i].arg = IF i <= range[b] THEN i ELSE 0
    <2>1. Len(M \o ms) <= range[b] + 1
      <3>1. (a - 1) + Len(ms) <= range[b] + 1
        <4>1. CASE Len(ms) = 1
          BY <1>2, <4>1
        <4>2. CASE Len(ms) = 2
          BY <1>2, <1>3, <4>2
        <4> QED
          BY <1>3, <4>1, <4>2
      <3> QED
        BY <1>7, <3>1
    <2>2. ASSUME NEW i \in 1..Len(M \o ms)
          PROVE  (M \o ms)[i].arg = IF i <= range[b] THEN i ELSE 0
      <3>0. i \in 1..((a - 1) + Len(ms))
        BY <1>7
      <3>1. CASE i <= a - 1
        <4>1. i \in 1..(a - 1) /\ i <= range[b]
          BY <1>2, <1>3, <3>0, <3>1
        <4>2. (M \o ms)[i] = M[i]
          BY <1>7, <3>0, <3>1
        <4> QED
          BY <1>8, <4>1, <4>2
      <3>2. CASE i = a
        <4>1. i - (a - 1) = 1 /\ ~(i <= a - 1)
          BY <1>2, <3>2
        <4>2. (M \o ms)[i] = ms[1]
          BY <1>7, <3>0, <4>1
        <4> QED
          BY <1>2, <1>3, <3>2, <4>2
      <3>3. CASE i > a
        <4>1. Len(ms) = 2 /\ a = range[b] /\ i = a + 1
          <5>1. i <= (a - 1) + Len(ms) /\ i \in Nat
            BY <1>2, <1>3, <3>0
          <5>2. CASE Len(ms) = 1
            BY <1>2, <3>3, <5>1, <5>2
          <5>3. CASE Len(ms) = 2
            <6>1. i = a + 1
              BY <1>2, <3>3, <5>1, <5>3
            <6> QED
              BY <1>3, <5>3, <6>1
          <5> QED
            BY <1>3, <5>2, <5>3
        <4>2. i - (a - 1) = 2 /\ ~(i <= a - 1) /\ ~(i <= range[b])
          BY <1>2, <4>1
        <4>3. (M \o ms)[i] = ms[2]
          BY <1>7, <3>0, <4>2
        <4> QED
          BY <1>3, <4>1, <4>2, <4>3
      <3> QED
        BY <1>2, <3>0, <3>1, <3>2, <3>3
    <2> QED
      BY <2>1, <2>2
  <1>10. \A c \in 1..Len(suite_') : InOrder(suite_'[c])
    <2> SUFFICES ASSUME NEW c \in 1..n PROVE InOrder(suite_'[c])
      BY <1>6
    <2>1. CASE c = n
      <3>1. suite_'[c].name = b /\ suite_'[c].measures = M \o ms
        BY <1>4, <1>5, <1>6, <2>1
      <3> HIDE DEF M
      <3> QED
        BY <1>9, <3>1 DEF InOrder
    <2>2. CASE c # n
      BY <1>4, <1>6, <2>2
    <2> QED
      BY <2>1, <2>2
  <1>11. \A k \in 1..Len(printed') : \A c \in 1..Len(printed'[k]) : InOrder(printed'[k][c])
    BY <1>1, <1>4
  <1>12. (Last(suite_).measures)' = M \o ms
    BY <1>6, LastIs
  <1>13. next'[2] > 1 => Len(M \o ms) = next'[2] - 1
    <2>1. CASE a = range[b]
      BY <1>1, <2>1
    <2>2. CASE a # range[b]
      <3>1. next'[2] = a + 1 /\ Len(ms) = 1
        BY <1>1, <1>3, <2>2
      <3> QED
        BY <1>2, <1>7, <3>1
    <2> QED
      BY <2>1, <2>2
  <1>14. (\A c \in 1..Len(suite_) : InOrder(suite_[c]))'
    BY <1>1, <1>10 DEF InOrder
  <1>15. (\A k \in 1..Len(printed) : \A c \in 1..Len(printed[k]) : InOrder(printed[k][c]))'
    <2> SUFFICES ASSUME NEW k \in 1..Len(printed'), NEW c \in 1..Len(printed'[k])
                 PROVE  InOrder(printed[k][c])'
      OBVIOUS
    <2>1. InOrder(printed'[k][c])
      BY <1>11
    <2> QED
      BY <1>1, <2>1 DEF InOrder
  <1>16. (~ended /\ next[2] > 1 => Len(Last(suite_).measures) = next[2] - 1)'
    BY <1>12, <1>13
  <1> QED
    BY <1>14, <1>15, <1>16 DEF ColumnInv

LEMMA OrderImpliesLike ==
  ASSUME ReporterTypeOK, ColumnInv
  PROVE  LikeWithLike
  <1> SUFFICES ASSUME NEW k \in DOMAIN printed,
                      \A c \in DOMAIN printed[k] : range[printed[k][c].name] = range[printed[k][1].name],
                      NEW i \in DOMAIN Rows(printed[k]), NEW c \in DOMAIN printed[k]
               PROVE  Rows(printed[k])[i][c][1].arg = Rows(printed[k])[i][c][2].arg
    BY DEF LikeWithLike
  <1> DEFINE s == printed[k]
  <1>1. /\ k \in 1..Len(printed) /\ s \in Suite
        /\ DOMAIN s = 1..Len(s) /\ Len(s) \in Nat
    BY LenProperties, ElementOfSeq DEF ReporterTypeOK, Suite
  <1>2. c \in 1..Len(s) /\ 1 \in 1..Len(s)
    BY <1>1
  <1>3. /\ i \in Nat /\ i > 0 /\ \A d \in DOMAIN s : i <= Len(s[d].measures)
        /\ Rows(s)[i][c] = <<s[c].measures[i], s[1].measures[i]>>
    BY LenProperties DEF Rows, ReporterTypeOK
  <1>4. /\ Len(s[c].measures) \in Nat /\ Len(s[1].measures) \in Nat
    <2>1. s[c] \in Column /\ s[1] \in Column
      BY <1>1, <1>2, ElementOfSeq DEF Suite
    <2> QED
      BY <2>1, LenProperties DEF Column
  <1>5. i \in 1..Len(s[c].measures) /\ i \in 1..Len(s[1].measures)
    BY <1>1, <1>2, <1>3, <1>4
  <1>6. InOrder(s[c]) /\ InOrder(s[1])
    BY <1>1, <1>2 DEF ColumnInv
  <1>7. /\ s[c].measures[i].arg = IF i <= range[s[c].name] THEN i ELSE 0
        /\ s[1].measures[i].arg = IF i <= range[s[1].name] THEN i ELSE 0
    BY <1>5, <1>6 DEF InOrder
  <1> QED
    BY <1>3, <1>7

\* In every row that is printed for benchmarks of equal ranges the measures are of the
\* same argument, or complexities, although a column ends with its complexity.
THEOREM RowsCompareLikeWithLike == ReporterSpec => []LikeWithLike
  <1>1. ReporterInit => OrderedInv
    BY DEF ReporterInit, OrderedInv, ColumnInv
  <1>2. ASSUME ReporterTypeOK, GroupedInv, OrderedInv, [ReporterNext]_reporterVars
        PROVE  OrderedInv'
    <2> SUFFICES ASSUME NamesDistinct' PROVE ColumnInv'
      BY DEF OrderedInv
    <2>0. program' = program => NamesDistinct
      BY DEF NamesDistinct
    <2>1. CASE ReportRuns
      <3>1. program' = program /\ ~ended
        BY <2>1 DEF ReportRuns
      <3> QED
        BY <1>2, <2>0, <2>1, <3>1, RunKeepsOrder DEF GroupedInv, OrderedInv
    <2>2. CASE Destroy
      <3>1. /\ program' = program /\ next' = next /\ ended' /\ range' = range
            /\ suite_' = suite_ /\ printed' = PrintSuiteInfo(printed, suite_)
        BY <2>2 DEF Destroy
      <3>2. ColumnInv
        BY <1>2, <2>0, <3>1 DEF OrderedInv
      <3>3. \A c \in 1..Len(suite_) : InOrder(suite_[c])
        BY <3>2 DEF ColumnInv
      <3>4. \A k \in 1..Len(printed') : \A c \in 1..Len(printed'[k]) : InOrder(printed'[k][c])
        <4>1. CASE suite_ = <<>>
          <5>1. printed' = printed
            BY <3>1, <4>1 DEF PrintSuiteInfo
          <5> QED
            BY <3>2, <5>1 DEF ColumnInv
        <4>2. CASE suite_ # <<>>
          <5>1. /\ Len(printed') = Len(printed) + 1 /\ printed'[Len(printed) + 1] = suite_
                /\ \A k \in 1..Len(printed) : printed'[k] = printed[k]
                /\ Len(printed) \in Nat
            BY <1>2, <3>1, <4>2, PrintedType, LenProperties DEF ReporterTypeOK
          <5>2. \A k \in 1..Len(printed') : k \in 1..Len(printed) \/ k = Len(printed) + 1
            BY <5>1
          <5> QED
            BY <3>2, <5>1, <5>2 DEF ColumnInv
        <4> QED
          BY <4>1, <4>2
      <3> QED
        BY <3>1, <3>3, <3>4 DEF ColumnInv, InOrder
    <2>3. CASE UNCHANGED reporterVars
      <3>1. /\ program' = program /\ next' = next /\ ended' = ended /\ range' = range
            /\ suite_' = suite_ /\ printed' = printed
        BY <2>3 DEF reporterVars
      <3>2. ColumnInv
        BY <1>2, <2>0, <3>1 DEF OrderedInv
      <3> QED
        BY <3>1, <3>2, LastIs DEF ColumnInv, InOrder
    <2> QED
      BY <1>2, <2>1, <2>2, <2>3 DEF ReporterNext
  <1>3. ReporterTypeOK /\ OrderedInv => LikeWithLike
    <2>1. ~NamesDistinct => LikeWithLike
      BY DEF LikeWithLike
    <2> QED
      BY <2>1, OrderImpliesLike DEF OrderedInv
  <1> QED
    BY <1>1, <1>2, <1>3, ReporterTypeCorrect, GroupsAreKept, PTL DEF ReporterSpec
=============================================================================

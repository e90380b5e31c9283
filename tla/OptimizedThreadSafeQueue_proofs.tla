----------------------- MODULE OptimizedThreadSafeQueue_proofs -----------------------
(***************************************************************************)
(* Theorems of OptimizedThreadSafeQueue: the state is well typed, the list *)
(* leads from head to the dummy at tail, every node has one owner, no two  *)
(* threads access a node at the same time, destructors do not recurse, and *)
(* the queue is a linearizable FIFO queue.                                 *)
(***************************************************************************)
EXTENDS OptimizedThreadSafeQueue, FiniteSetTheorems, FunctionTheorems, WellFoundedInduction, TLAPS

(***************************************************************************)
(* Paths.  The k-th node after n is given by recursion; along a path of    *)
(* next pointers it is the k-th element of the path, and then null.        *)
(***************************************************************************)
Bound == Cardinality(Nodes)
NextOf(m) == IF m = Null THEN Null ELSE next[m]

\* c is a path of n different nodes to one without a successor.
Path(c, n) ==
  /\ n \in Nat \ {0} /\ c \in [1..n -> Nodes]
  /\ \A i, j \in 1..n : c[i] = c[j] => i = j
  /\ \A i \in 1..n : next[c[i]] = IF i = n THEN Null ELSE c[i + 1]

\* The number of addresses is a natural number.
LEMMA BoundType == Bound \in Nat
  BY NodesAssumption, FS_CardinalityType DEF Bound

\* The recursive definition of After has a solution, and so is one.
LEMMA AfterDef ==
  ASSUME NEW n
  PROVE  \A k \in 0..Bound : After(n)[k] = IF k = 0 THEN n ELSE NextOf(After(n)[k - 1])
  <1> DEFINE Good(g, m) == \A k \in 0..m : g[k] = IF k = 0 THEN n ELSE NextOf(g[k - 1])
             Bad == {m \in Nat : ~\E g : Good(g, m)}
  <1>1. Bad = {}
    <2> SUFFICES ASSUME Bad # {} PROVE FALSE
      OBVIOUS
    <2>1. PICK m \in Bad : \A x \in Bad : ~(<<x, m>> \in OpToRel(<, Nat))
      BY NatLessThanWellFounded, WFMin
    <2>2. m \in Nat /\ \A x \in Bad : ~(x < m)
      BY <2>1 DEF OpToRel
    <2>3. CASE m = 0
      <3>1. Good([k \in 0..0 |-> n], 0)
        OBVIOUS
      <3> QED
        BY <2>1, <2>3, <3>1
    <2>4. CASE m # 0
      <3>1. m - 1 \in Nat /\ m - 1 \notin Bad
        <4> HIDE DEF Bad
        <4>1. m - 1 \in Nat /\ m - 1 < m
          BY <2>2, <2>4
        <4> QED
          BY <4>1, <2>2
      <3>2. PICK g : Good(g, m - 1)
        BY <3>1
      <3> DEFINE h == [k \in 0..m |-> IF k = m THEN NextOf(g[m - 1]) ELSE g[k]]
      <3>3. \A k \in 0..m : h[k] = IF k = 0 THEN n ELSE NextOf(h[k - 1])
        <4> SUFFICES ASSUME NEW k \in 0..m PROVE h[k] = IF k = 0 THEN n ELSE NextOf(h[k - 1])
          OBVIOUS
        <4>1. CASE k = m
          BY <2>2, <2>4, <4>1
        <4>2. CASE k # m
          BY <2>2, <3>2, <4>2
        <4> QED
          BY <4>1, <4>2
      <3>4. Good(h, m)
        BY <3>3
      <3> QED
        BY <2>1, <3>4
    <2> QED
      BY <2>3, <2>4
  <1>2. PICK g : Good(g, Bound)
    BY <1>1, BoundType
  <1> DEFINE F(f) == [k \in 0..Bound |->
                       IF k = 0 THEN n ELSE IF f[k - 1] = Null THEN Null ELSE next[f[k - 1]]]
             h == [k \in 0..Bound |-> g[k]]
  <1>3. h = F(h)
    <2>1. ASSUME NEW k \in 0..Bound PROVE h[k] = F(h)[k]
      <3>1. g[k] = IF k = 0 THEN n ELSE NextOf(g[k - 1])
        BY <1>2
      <3>2. k # 0 => h[k - 1] = g[k - 1]
        BY BoundType
      <3> QED
        BY <3>1, <3>2 DEF NextOf
    <2> QED
      BY <2>1
  <1>4. After(n) = CHOOSE f : f = F(f)
    BY DEF After, Bound
  <1> HIDE DEF h
  <1>5. After(n) = F(After(n))
    <2> HIDE DEF F
    <2> QED
      BY <1>3, <1>4
  <1> QED
    BY <1>5 DEF NextOf

\* What a path says of After and Reach.
PathFacts ==
  \A n \in Nat \ {0} : \A c \in [1..n -> Nodes] : Path(c, n) =>
    /\ n <= Bound
    /\ \A i \in 1..n, k \in 0..Bound : After(c[i])[k] = IF i + k <= n THEN c[i + k] ELSE Null
    /\ \A i \in 1..n : Reach(c[i]) = {c[j] : j \in i..n}
    /\ Cardinality(Reach(c[1])) = n

\* Along a path, After counts its nodes and Reach collects them.
LEMMA PathLemma == PathFacts
  <1> SUFFICES ASSUME NEW n \in Nat \ {0}, NEW c \in [1..n -> Nodes], Path(c, n)
               PROVE  /\ n <= Bound
                      /\ \A i \in 1..n, k \in 0..Bound :
                           After(c[i])[k] = IF i + k <= n THEN c[i + k] ELSE Null
                      /\ \A i \in 1..n : Reach(c[i]) = {c[j] : j \in i..n}
                      /\ Cardinality(Reach(c[1])) = n
    BY DEF PathFacts
  <1>1. n <= Bound
    <2>1. c \in Injection(1..n, Nodes)
      BY Fun_IsInj DEF Path
    <2>2. Cardinality(1..n) = n
      BY FS_Interval
    <2> QED
      BY <2>1, <2>2, NodesAssumption, FS_Injection DEF Bound
  <1>2. ASSUME NEW i \in 1..n, NEW k \in 0..Bound
        PROVE  After(c[i])[k] = IF i + k <= n THEN c[i + k] ELSE Null
    <2> DEFINE Bad == {m \in Nat : m <= Bound /\ After(c[i])[m] # IF i + m <= n THEN c[i + m] ELSE Null}
    <2>1. SUFFICES Bad = {}
      BY BoundType
    <2>2. SUFFICES ASSUME Bad # {} PROVE FALSE
      OBVIOUS
    <2>a. Bad \subseteq Nat
      OBVIOUS
    <2>3. PICK m \in Bad : \A x \in Bad : ~(<<x, m>> \in OpToRel(<, Nat))
      <3> HIDE DEF Bad
      <3> QED
        BY <2>a, <2>2, NatLessThanWellFounded, WFMin
    <2>b. m \in 0..Bound
      BY BoundType
    <2>4. m \in 0..Bound /\ \A x \in Bad : ~(x < m)
      <3> HIDE DEF Bad
      <3> QED
        BY <2>3, <2>a, <2>b DEF OpToRel
    <2>c. After(c[i])[m] # IF i + m <= n THEN c[i + m] ELSE Null
      OBVIOUS
    <2>5. After(c[i])[m] = IF m = 0 THEN c[i] ELSE NextOf(After(c[i])[m - 1])
      BY <2>4, AfterDef
    <2>6. CASE m = 0
      <3>1. i + m = i /\ i + m <= n
        BY <2>6
      <3> QED
        BY <2>c, <2>5, <2>6, <3>1
    <2>7. CASE m # 0
      <3>1. m - 1 \in Nat /\ m - 1 <= Bound /\ m - 1 \notin Bad
        BY <2>4, <2>7, BoundType
      <3>2. After(c[i])[m - 1] = IF i + (m - 1) <= n THEN c[i + (m - 1)] ELSE Null
        BY <3>1
      <3>3. NextOf(After(c[i])[m - 1]) = IF i + m <= n THEN c[i + m] ELSE Null
        <4>1. CASE i + (m - 1) <= n
          <5>1. i + (m - 1) \in 1..n
            BY <4>1, <3>1
          <5>2. c[i + (m - 1)] \in Nodes /\ c[i + (m - 1)] # Null
            BY <5>1, NodesAssumption
          <5>3. next[c[i + (m - 1)]] = IF i + (m - 1) = n THEN Null ELSE c[(i + (m - 1)) + 1]
            BY <5>1 DEF Path
          <5>4. (i + (m - 1)) + 1 = i + m
            BY <2>4, BoundType
          <5>5. i + (m - 1) # n <=> i + m <= n
            BY <2>4, <4>1, BoundType
          <5> QED
            BY <4>1, <3>2, <5>2, <5>3, <5>4, <5>5 DEF NextOf
        <4>2. CASE ~(i + (m - 1) <= n)
          <5>1. ~(i + m <= n)
            BY <4>2, <2>4, BoundType
          <5> QED
            BY <4>2, <5>1, <3>2 DEF NextOf
        <4> QED
          BY <4>1, <4>2
      <3> QED
        BY <2>c, <2>5, <2>7, <3>3
    <2> QED
      BY <2>6, <2>7
  <1>3. ASSUME NEW i \in 1..n PROVE Reach(c[i]) = {c[j] : j \in i..n}
    <2>1. ASSUME NEW m \in Reach(c[i]) PROVE m \in {c[j] : j \in i..n}
      <3>1. PICK k \in 0..Bound : m = After(c[i])[k] /\ m # Null
        BY <2>1 DEF Reach, Bound
      <3>2. i + k <= n /\ m = c[i + k]
        BY <3>1, <1>2
      <3>3. i + k \in i..n
        BY <3>2, BoundType
      <3> QED
        BY <3>2, <3>3
    <2>2. ASSUME NEW j \in i..n PROVE c[j] \in Reach(c[i])
      <3>1. j - i \in 0..Bound /\ i + (j - i) = j
        BY <1>1, BoundType
      <3>2. After(c[i])[j - i] = c[j]
        BY <3>1, <1>2
      <3>3. c[j] \in Nodes /\ c[j] # Null
        BY NodesAssumption
      <3> QED
        BY <3>1, <3>2, <3>3 DEF Reach, Bound
    <2> QED
      BY <2>1, <2>2
  <1>4. Cardinality(Reach(c[1])) = n
    <2> DEFINE R == {c[j] : j \in 1..n}
    <2>1. Reach(c[1]) = R
      BY <1>3
    <2>2. c \in Bijection(1..n, R)
      <3>1. c \in [1..n -> R] /\ \A i, j \in 1..n : c[i] = c[j] => i = j
        BY DEF Path
      <3>2. \A m \in R : \E j \in 1..n : c[j] = m
        OBVIOUS
      <3> QED
        BY <3>1, <3>2, Fun_IsBij
    <2>3. IsFiniteSet(1..n) /\ Cardinality(1..n) = n
      BY FS_Interval
    <2>4. ExistsBijection(1..n, R)
      BY <2>2 DEF ExistsBijection
    <2> QED
      BY <2>1, <2>3, <2>4, FS_Bijection
  <1> QED
    BY <1>1, <1>2, <1>3, <1>4

-----------------------------------------------------------------------------
(***************************************************************************)
(* The inductive invariant.                                                *)
(***************************************************************************)
\* Where a thread is fits the call it is making, the value it carries, and the
\* node it has.
CallInv(t) ==
  /\ Len(todo[t]) <= MaxCalls
  /\ pc[t] # "idle" => todo[t] # <<>>
  /\ pc[t] \in {"new_node", "lock_tail", "notify_one", "unwind"} \cup AtTail
       => Head(todo[t]) = "push"
  /\ pc[t] \in {"lock_head", "asleep", "relock", "take_data", "free"} \cup AtHead
       => Head(todo[t]) \in {"wait_and_pop", "try_pop"}
  /\ pc[t] \in {"lock_tail", "store_data", "link_next", "move_tail", "take_data", "free"}
       => node[t] \in Nodes
  /\ pc[t] \in {"idle", "new_node", "unlock_tail", "notify_one", "lock_head", "get_tail", "test",
                "sleep", "asleep", "relock", "pop_head", "return", "unwind"} => node[t] = Null
  /\ pc[t] \in {"new_node", "lock_tail", "store_data", "link_next", "move_tail"}
       => val[t] \in Values
  /\ pc[t] \in {"idle", "lock_head", "asleep", "relock", "take_data"} \cup AtHead
       => val[t] = NoValue

\* Thread t owns the node it has; when it has linked it, the list does.
Has(t) ==
  /\ pc[t] \in {"lock_tail", "store_data", "link_next", "unlock_head", "take_data", "free"}
  /\ node[t] # Null

\* The list: a path from head, on which tail is the last node, or the last but
\* one while some push has linked a node and not yet moved tail.
EndsInv(c, n, p) ==
  /\ p \in 1..n /\ head = c[1] /\ tail = c[p]
  /\ \/ p = n /\ \A t \in Threads : pc[t] # "move_tail"
     \/ p = n - 1 /\ \E t \in Threads : pc[t] = "move_tail" /\ node[t] = c[n]

\* Its nodes and those that threads own are different and all there is; outside
\* the list no node has a successor.
LiveInv(c, n) ==
  /\ \A m \in Nodes : m \in live <=> \/ \E i \in 1..n : m = c[i]
                                     \/ \E t \in Threads : Has(t) /\ m = node[t]
  /\ \A t \in Threads, i \in 1..n : Has(t) => node[t] # c[i]
  /\ \A s, t \in Threads : Has(s) /\ Has(t) /\ node[s] = node[t] => s = t
  /\ \A m \in Nodes : (\A i \in 1..n : m # c[i]) => next[m] = Null

\* There are values up to the dummy, and in it when a push has stored one.
DataInv(c, p) ==
  /\ \A i \in 1..(p - 1) : data[c[i]] \in Values
  /\ \A t \in Threads : pc[t] \in {"link_next", "move_tail"} => data[tail] = val[t]

\* The tail a consumer has seen is still in the list and no further than tail;
\* so a consumer that has seen another node than head may pop.
SeenInv(c, p) ==
  \A t \in Threads :
    /\ pc[t] = "test" => \E j \in 1..p : seen[t] = c[j]
    /\ pc[t] = "pop_head" => p > 1

Shape(c, n, p) ==
  Path(c, n) /\ EndsInv(c, n, p) /\ LiveInv(c, n) /\ DataInv(c, p) /\ SeenInv(c, p)

List == \E n \in Nat \ {0} : \E c \in [1..n -> Nodes], p \in 1..n : Shape(c, n, p)
ListInv == Running => List

\* While the destructor runs: the vector holds the first nodes of what is left of
\* the list, and at most one node is left that it does not hold.
Dying(c, n) ==
  /\ Path(c, n) /\ head = c[1]
  /\ live = {c[i] : i \in 1..n}
  /\ nodes \in Seq(Nodes) /\ Len(nodes) \in {n - 1, n}
  /\ \A i \in 1..Len(nodes) : nodes[i] = c[i]

DeathInv ==
  ~Running => /\ AllDone
              /\ \/ head = Null /\ live = {} /\ nodes = <<>>
                 \/ \E n \in Nat \ {0} : \E c \in [1..n -> Nodes] : Dying(c, n)

BaseInv == TypeOK /\ \A t \in Threads : CallInv(t)
IndInv == BaseInv /\ ListInv /\ DeathInv

-----------------------------------------------------------------------------
\* The constructor makes a list of one dummy.
LEMMA InitIndInv == Init => IndInv
  <1> SUFFICES ASSUME Init PROVE IndInv
    OBVIOUS
  <1>1. \A t \in Threads : todo[t] \in Seq(Operations) /\ Len(todo[t]) <= MaxCalls
    BY ScriptsAssumption DEF Init
  <1>2. TypeOK
    BY <1>1, ThreadsAssumption, BoundsAssumption DEF Init, TypeOK, Points, AtHead, AtTail
  <1>3. \A t \in Threads : CallInv(t)
    BY <1>1 DEF Init, CallInv, AtHead, AtTail
  <1>4. Running
    BY DEF Init, Running
  <1>5. ListInv
    <2>1. PICK m \in Nodes : live = {m} /\ head = m /\ tail = m
      BY DEF Init
    <2> DEFINE c == [i \in 1..1 |-> m]
    <2>2. c \in [1..1 -> Nodes] /\ 1 \in 1..1 /\ 1 \in Nat \ {0} /\ c[1] = m
      OBVIOUS
    <2>3. Path(c, 1)
      BY DEF Init, Path
    <2>4. EndsInv(c, 1, 1)
      BY <2>1 DEF Init, EndsInv
    <2>5. LiveInv(c, 1)
      BY <2>1 DEF Init, LiveInv, Has
    <2>6. DataInv(c, 1) /\ SeenInv(c, 1)
      BY DEF Init, DataInv, SeenInv
    <2>7. Shape(c, 1, 1)
      BY <2>3, <2>4, <2>5, <2>6 DEF Shape
    <2> QED
      BY <2>2, <2>7 DEF ListInv, List
  <1> QED
    BY <1>2, <1>3, <1>4, <1>5 DEF IndInv, BaseInv, DeathInv

\* While the queue exists there is a first node.
LEMMA ListHead == IndInv /\ Running => head \in Nodes
  BY DEF IndInv, ListInv, List, Shape, EndsInv, Path

\* What Collect puts into the vector: the nodes of the list, one after another.
LEMMA Collected ==
  ASSUME NEW n \in Nat \ {0}, NEW c \in [1..n -> Nodes], Path(c, n), head = c[1]
  PROVE  [k \in 1..Cardinality(Reach(head)) |-> After(head)[k - 1]] = c
  <1>1. /\ n <= Bound
        /\ \A k \in 0..Bound : After(c[1])[k] = IF 1 + k <= n THEN c[1 + k] ELSE Null
        /\ Cardinality(Reach(c[1])) = n
    BY PathLemma DEF PathFacts
  <1>2. ASSUME NEW k \in 1..n PROVE After(head)[k - 1] = c[k]
    <2>1. k - 1 \in 0..Bound /\ 1 + (k - 1) = k
      BY <1>1, BoundType
    <2> QED
      BY <1>1, <2>1
  <1> QED
    BY <1>1, <1>2

\* They are nodes.
LEMMA CollectedNodes ==
  ASSUME IndInv, Running
  PROVE  [k \in 1..Cardinality(Reach(head)) |-> After(head)[k - 1]] \in Seq(Nodes)
  <1>1. PICK n \in Nat \ {0} : \E c \in [1..n -> Nodes], p \in 1..n : Shape(c, n, p)
    BY DEF IndInv, ListInv, List
  <1>2. PICK c \in [1..n -> Nodes], p \in 1..n : Shape(c, n, p)
    BY <1>1
  <1>3. [k \in 1..Cardinality(Reach(head)) |-> After(head)[k - 1]] = c
    BY <1>2, Collected DEF Shape, EndsInv
  <1>4. c \in Seq(Nodes)
    OBVIOUS
  <1> QED
    BY <1>3, <1>4

\* A step keeps the types, the ownership of the mutexes, and the places of calls.
LEMMA StepBaseInv == IndInv /\ [Next]_vars => BaseInv'
  <1> SUFFICES ASSUME IndInv, [Next]_vars PROVE BaseInv'
    OBVIOUS
  <1> USE ThreadsAssumption, BoundsAssumption, NodesAssumption
      DEF IndInv, BaseInv, TypeOK, CallInv, Goto, Points, AtHead, AtTail, Operations
  <1>1. CASE UNCHANGED vars
    BY <1>1 DEF vars, heapVars, queueVars, callVars
  <1> USE DEF heapVars, queueVars, callVars
  <1>2. ASSUME NEW t \in Threads, Call(t) PROVE BaseInv'
    <2>1. Len(todo[t]) \in 1..MaxCalls /\ <<t, Len(todo[t])>> \in Values
      BY <1>2 DEF Call, Values
    <2>2. Head(todo[t]) \in Operations
      BY <1>2 DEF Call
    <2>3. TypeOK'
      <3>1. /\ pc[t] = "idle" /\ val' \in [Threads -> Values \cup {NoValue}]
            /\ \/ pc' = [pc EXCEPT ![t] = "new_node"]
               \/ pc' = [pc EXCEPT ![t] = "lock_head"]
        BY <1>2, <2>1 DEF Call
      <3>2. /\ pc' \in [Threads -> Points]
            /\ \A s \in Threads : /\ pc'[s] \in AtHead <=> pc[s] \in AtHead
                                  /\ pc'[s] \in AtTail <=> pc[s] \in AtTail
        BY <3>1
      <3>3. UNCHANGED <<live, data, next, head, tail, head_mutex, tail_mutex, todo, node, seen,
                        spurious, nodes>>
        BY <1>2 DEF Call
      <3> HIDE DEF AtHead, AtTail, CallInv
      <3> QED
        BY <3>1, <3>2, <3>3
    <2>4. \A s \in Threads : CallInv(s)'
      <3>1. CallInv(t)'
        <4>1. CASE Head(todo[t]) = "push"
          BY <1>2, <2>1, <4>1 DEF Call
        <4>2. CASE Head(todo[t]) # "push"
          BY <1>2, <2>2, <4>2 DEF Call
        <4> QED
          BY <4>1, <4>2
      <3>2. ASSUME NEW s \in Threads \ {t} PROVE CallInv(s)'
        BY <1>2 DEF Call
      <3> QED
        BY <3>1, <3>2
    <2> QED
      BY <2>3, <2>4
  <1>3. ASSUME NEW t \in Threads, NewNode(t) PROVE BaseInv'
    BY <1>3 DEF NewNode
  <1>4. ASSUME NEW t \in Threads, NewThrows(t) PROVE BaseInv'
    BY <1>4 DEF NewThrows
  <1>5. ASSUME NEW t \in Threads, LockTail(t) PROVE BaseInv'
    BY <1>5 DEF LockTail
  <1>6. ASSUME NEW t \in Threads, StoreData(t) PROVE BaseInv'
    BY <1>6 DEF StoreData
  <1>7. ASSUME NEW t \in Threads, LinkNext(t) PROVE BaseInv'
    BY <1>7 DEF LinkNext
  <1>8. ASSUME NEW t \in Threads, MoveTail(t) PROVE BaseInv'
    BY <1>8 DEF MoveTail
  <1>9. ASSUME NEW t \in Threads, UnlockTail(t) PROVE BaseInv'
    BY <1>9 DEF UnlockTail
  <1>10. ASSUME NEW t \in Threads, NotifyOne(t) PROVE BaseInv'
    <2>1. CASE Asleep = {}
      <3>1. pc[t] = "notify_one" /\ pc' = [pc EXCEPT ![t] = "return"]
        BY <1>10, <2>1 DEF NotifyOne
      <3>2. TypeOK'
        BY <1>10, <3>1 DEF NotifyOne
      <3>3. \A u \in Threads : CallInv(u)'
        BY <1>10, <3>1 DEF NotifyOne
      <3> QED
        BY <3>2, <3>3
    <2>2. CASE Asleep # {}
      <3>1. PICK s \in Asleep : pc' = [pc EXCEPT ![t] = "return", ![s] = "relock"]
        BY <1>10, <2>2 DEF NotifyOne
      <3>2. s \in Threads /\ pc[s] = "asleep" /\ pc[t] = "notify_one"
        BY <1>10, <3>1 DEF NotifyOne, Asleep
      <3>3. TypeOK'
        BY <1>10, <3>1, <3>2 DEF NotifyOne
      <3>4. \A u \in Threads : CallInv(u)'
        BY <1>10, <3>1, <3>2 DEF NotifyOne
      <3> QED
        BY <3>3, <3>4
    <2> QED
      BY <2>1, <2>2
  <1>11. ASSUME NEW t \in Threads, LockHead(t) PROVE BaseInv'
    BY <1>11 DEF LockHead
  <1>12. ASSUME NEW t \in Threads, GetTail(t) PROVE BaseInv'
    BY <1>12 DEF GetTail
  <1>13. ASSUME NEW t \in Threads, Test(t) PROVE BaseInv'
    BY <1>13 DEF Test
  <1>14. ASSUME NEW t \in Threads, Sleep(t) PROVE BaseInv'
    BY <1>14 DEF Sleep
  <1>15. ASSUME NEW t \in Threads, SpuriousWakeup(t) PROVE BaseInv'
    <2>1. spurious' \in 0..MaxSpurious
      BY <1>15 DEF SpuriousWakeup
    <2>2. TypeOK'
      BY <1>15, <2>1 DEF SpuriousWakeup
    <2>3. \A s \in Threads : CallInv(s)'
      BY <1>15 DEF SpuriousWakeup
    <2> QED
      BY <2>2, <2>3
  <1>16. ASSUME NEW t \in Threads, Relock(t) PROVE BaseInv'
    BY <1>16 DEF Relock
  <1>17. ASSUME NEW t \in Threads, PopHead(t) PROVE BaseInv'
    <2>1. pc[t] # "idle"
      BY <1>17 DEF PopHead
    <2>2. Running
      BY <2>1 DEF DeathInv, AllDone
    <2>3. head \in Nodes
      BY <2>2, ListHead
    <2>4. TypeOK'
      BY <1>17, <2>3 DEF PopHead
    <2>5. \A s \in Threads : CallInv(s)'
      BY <1>17, <2>3 DEF PopHead
    <2> QED
      BY <2>4, <2>5
  <1>18. ASSUME NEW t \in Threads, UnlockHead(t) PROVE BaseInv'
    BY <1>18 DEF UnlockHead
  <1>19. ASSUME NEW t \in Threads, TakeData(t) PROVE BaseInv'
    BY <1>19 DEF TakeData
  <1>20. ASSUME NEW t \in Threads, Free(t) PROVE BaseInv'
    BY <1>20 DEF Free, FreeFrom
  <1>21. ASSUME NEW t \in Threads, Return(t) PROVE BaseInv'
    BY <1>21 DEF Return
  <1>22. ASSUME Collect PROVE BaseInv'
    <2>1. nodes' \in Seq(Nodes)
      BY <1>22, CollectedNodes DEF Collect
    <2> QED
      BY <1>22, <2>1 DEF Collect
  <1>23. ASSUME ResetNext PROVE BaseInv'
    BY <1>23 DEF ResetNext, FreeFrom
  <1>24. ASSUME FreeHead PROVE BaseInv'
    BY <1>24 DEF FreeHead, FreeFrom
  <1> QED
    BY <1>1, <1>2, <1>3, <1>4, <1>5, <1>6, <1>7, <1>8, <1>9, <1>10, <1>11, <1>12, <1>13,
       <1>14, <1>15, <1>16, <1>17, <1>18, <1>19, <1>20, <1>21, <1>22, <1>23, <1>24
       DEF Next, Step, Push, Pop, Destroy

-----------------------------------------------------------------------------
(***************************************************************************)
(* The list while the queue is in use.  A step that only moves a thread,   *)
(* locks or unlocks leaves it as it is.                                    *)
(***************************************************************************)
\* A step that leaves the list and the nodes that threads own as they are keeps the
\* list, wherever it moves threads.
LEMMA ShapeKept ==
  ASSUME NEW n \in Nat \ {0}, NEW c \in [1..n -> Nodes], NEW p \in 1..n, Shape(c, n, p),
         UNCHANGED <<live, data, next, head, tail, node>>,
         \A t \in Threads :
           /\ Has(t)' = Has(t)
           /\ pc'[t] = "move_tail" <=> pc[t] = "move_tail"
           /\ pc'[t] \in {"link_next", "move_tail"} =>
                pc[t] \in {"link_next", "move_tail"} /\ val'[t] = val[t]
           /\ pc'[t] = "test" => \/ pc[t] = "test" /\ seen'[t] = seen[t]
                                 \/ seen'[t] = tail
           /\ pc'[t] = "pop_head" => pc[t] = "pop_head" \/ p > 1
  PROVE  Shape(c, n, p)'
  <1>1. Path(c, n)'
    BY DEF Shape, Path
  <1>2. EndsInv(c, n, p)'
    BY DEF Shape, EndsInv
  <1>3. LiveInv(c, n)'
    BY DEF Shape, LiveInv
  <1>4. DataInv(c, p)'
    BY DEF Shape, DataInv
  <1>5. SeenInv(c, p)'
    BY DEF Shape, SeenInv, EndsInv
  <1> QED
    BY <1>1, <1>2, <1>3, <1>4, <1>5 DEF Shape

\* A node without a successor owns nothing but itself.
LEMMA ReachAlone ==
  ASSUME NEW m \in Nodes, next[m] = Null
  PROVE  Reach(m) = {m}
  <1> DEFINE c == [i \in 1..1 |-> m]
  <1>1. c \in [1..1 -> Nodes] /\ c[1] = m /\ 1 \in Nat \ {0}
    OBVIOUS
  <1>2. Path(c, 1)
    BY DEF Path
  <1>3. \A i \in 1..1 : Reach(c[i]) = {c[j] : j \in i..1}
    BY <1>1, <1>2, PathLemma DEF PathFacts
  <1>4. Reach(m) = {c[j] : j \in 1..1}
    BY <1>1, <1>3
  <1> QED
    BY <1>4

\* A node that a thread owns is not followed by another.
LEMMA OwnedAlone ==
  ASSUME NEW n \in Nat \ {0}, NEW c \in [1..n -> Nodes], NEW p \in 1..n, Shape(c, n, p),
         NEW t \in Threads, Has(t), node[t] \in Nodes
  PROVE  next[node[t]] = Null /\ Reach(node[t]) = {node[t]}
  <1>1. next[node[t]] = Null
    BY DEF Shape, LiveInv
  <1> QED
    BY <1>1, ReachAlone

\* The values in the list up to the dummy are what the callers see.
Contents(c, p) == [k \in 1..(p - 1) |-> data[c[k]]]

ItemsFact ==
  \A n \in Nat \ {0} : \A c \in [1..n -> Nodes], p \in 1..n :
    Shape(c, n, p) /\ Running => Items = Contents(c, p)

\* What the callers see is the contents of the path.
LEMMA ItemsAre == ItemsFact
  <1> SUFFICES ASSUME NEW n \in Nat \ {0}, NEW c \in [1..n -> Nodes], NEW p \in 1..n,
                      Shape(c, n, p), Running
               PROVE  Items = Contents(c, p)
    BY DEF ItemsFact
  <1>1. /\ Path(c, n) /\ head = c[1] /\ tail = c[p] /\ 1 \in 1..n /\ n <= Bound
        /\ \A k \in 0..Bound : After(c[1])[k] = IF 1 + k <= n THEN c[1 + k] ELSE Null
    BY PathLemma DEF PathFacts, Shape, EndsInv
  <1>2. ASSUME NEW k \in 0..Bound PROVE After(head)[k] = tail <=> k = p - 1
    <2>1. CASE 1 + k <= n
      <3>1. 1 + k \in 1..n /\ After(head)[k] = c[1 + k]
        BY <2>1, <1>1, BoundType
      <3>2. c[1 + k] = c[p] <=> 1 + k = p
        BY <3>1, <1>1 DEF Path
      <3> QED
        BY <3>1, <3>2, <1>1, BoundType
    <2>2. CASE ~(1 + k <= n)
      <3>1. After(head)[k] = Null /\ tail # Null /\ k # p - 1
        BY <2>2, <1>1, BoundType, NodesAssumption
      <3> QED
        BY <3>1
    <2> QED
      BY <2>1, <2>2
  <1>3. p - 1 \in 0..Bound
    BY <1>1, BoundType
  <1>4. Length = p - 1
    BY <1>2, <1>3 DEF Length, Bound
  <1>5. ASSUME NEW k \in 1..(p - 1) PROVE data[After(head)[k - 1]] = data[c[k]]
    <2>1. k - 1 \in 0..Bound /\ 1 + (k - 1) = k /\ k <= n
      BY <1>1, BoundType
    <2> QED
      BY <2>1, <1>1
  <1> QED
    BY <1>4, <1>5 DEF Items, Contents

\* What the step of a thread does to the values in the queue.
ItemsStep(t) ==
  Items' = IF pc[t] = "move_tail" THEN Append(Items, val[t])
           ELSE IF pc[t] = "pop_head" THEN Tail(Items) ELSE Items

\* A step of a thread keeps the list, and does to its values what ItemsStep says.
LEMMA StepList ==
  ASSUME IndInv, BaseInv', Running, Running', NEW t \in Threads, Step(t) \/ SpuriousWakeup(t)
  PROVE  List' /\ ItemsStep(t)
  <1>p. PICK n \in Nat \ {0} : \E c \in [1..n -> Nodes], p \in 1..n : Shape(c, n, p)
    BY DEF IndInv, ListInv, List
  <1>q. PICK c \in [1..n -> Nodes], p \in 1..n : Shape(c, n, p)
    BY <1>p
  <1>i. Items = Contents(c, p)
    BY <1>q, ItemsAre DEF ItemsFact
  <1>j. ASSUME NEW m \in Nat \ {0}, NEW d \in [1..m -> Nodes], NEW q \in 1..m, Shape(d, m, q)'
        PROVE  List' /\ Items' = Contents(d, q)'
    <2>1. ItemsFact'
      BY ItemsAre, PTL
    <2> QED
      BY <1>j, <2>1 DEF List, ItemsFact
  <1>s. ASSUME NEW m \in Nat \ {0}, NEW d \in [1..m -> Nodes], p \in 1..m, Shape(d, m, p)',
               \A i \in 1..(p - 1) : data'[d[i]] = data[c[i]],
               pc[t] \notin {"move_tail", "pop_head"}
        PROVE  List' /\ ItemsStep(t)
    <2>1. Contents(d, p)' = Contents(c, p)
      BY <1>s DEF Contents
    <2> QED
      BY <1>s, <1>i, <1>j, <2>1 DEF ItemsStep
  <1>t. /\ pc \in [Threads -> Points] /\ pc' \in [Threads -> Points]
        /\ node \in [Threads -> Nodes \cup {Null}] /\ node' \in [Threads -> Nodes \cup {Null}]
        /\ val \in [Threads -> Values \cup {NoValue}]
        /\ seen \in [Threads -> Nodes \cup {Null}] /\ tail \in Nodes
        /\ next \in [Nodes -> Nodes \cup {Null}] /\ data \in [Nodes -> Values \cup {NoValue}]
        /\ live \subseteq Nodes
        /\ \A s \in Threads : CallInv(s)
    BY DEF IndInv, BaseInv, TypeOK
  <1>u. /\ pc[t] \in AtTail => \A s \in Threads : pc[s] \in AtTail => s = t
        /\ pc[t] \in AtHead => \A s \in Threads : pc[s] \in AtHead => s = t
    BY DEF IndInv, BaseInv, TypeOK
  <1> USE DEF Goto, heapVars, queueVars, callVars
  <1>1. ASSUME Call(t) \/ NewThrows(t) \/ LockTail(t) \/ UnlockTail(t) \/ LockHead(t)
                 \/ Sleep(t) \/ SpuriousWakeup(t) \/ Relock(t) \/ TakeData(t) \/ Return(t)
        PROVE  List' /\ ItemsStep(t)
    <2>1. UNCHANGED <<live, data, next, head, tail, node, seen>>
      BY <1>1 DEF Call, NewThrows, LockTail, UnlockTail, LockHead, Sleep, SpuriousWakeup,
                  Relock, TakeData, Return
    <2>2. ASSUME NEW s \in Threads
          PROVE  /\ Has(s)' = Has(s)
                 /\ pc'[s] = "move_tail" <=> pc[s] = "move_tail"
                 /\ pc'[s] \in {"link_next", "move_tail"} =>
                      pc[s] \in {"link_next", "move_tail"} /\ val'[s] = val[s]
                 /\ pc'[s] = "test" => pc[s] = "test"
                 /\ pc'[s] = "pop_head" => pc[s] = "pop_head"
      BY <1>1, <1>t DEF Call, NewThrows, LockTail, UnlockTail, LockHead, Sleep, SpuriousWakeup,
                  Relock, TakeData, Return, Has
    <2>3. Shape(c, n, p)'
      BY <1>q, <2>1, <2>2, ShapeKept
    <2>4. pc[t] \notin {"move_tail", "pop_head"}
      BY <1>1 DEF Call, NewThrows, LockTail, UnlockTail, LockHead, Sleep, SpuriousWakeup,
                  Relock, TakeData, Return
    <2> QED
      BY <2>1, <2>3, <2>4, <1>s
  <1>2. ASSUME NotifyOne(t) PROVE List' /\ ItemsStep(t)
    <2>1. UNCHANGED <<live, data, next, head, tail, node, seen, val>>
      BY <1>2 DEF NotifyOne
    <2>2. ASSUME NEW s \in Threads
          PROVE  \/ pc'[s] = pc[s]
                 \/ pc[s] = "notify_one" /\ pc'[s] = "return"
                 \/ pc[s] = "asleep" /\ pc'[s] = "relock"
      BY <1>2, <1>t DEF NotifyOne, Asleep
    <2>3. Shape(c, n, p)'
      BY <1>q, <2>1, <2>2, ShapeKept DEF Has
    <2> QED
      BY <1>2, <2>1, <2>3, <1>s DEF NotifyOne
  <1>3. ASSUME GetTail(t) \/ UnlockHead(t) PROVE List' /\ ItemsStep(t)
    <2>1. UNCHANGED <<live, data, next, head, tail, node, val>>
      BY <1>3 DEF GetTail, UnlockHead
    <2>2. ASSUME NEW s \in Threads
          PROVE  /\ Has(s)' = Has(s)
                 /\ pc'[s] = "move_tail" <=> pc[s] = "move_tail"
                 /\ pc'[s] \in {"link_next", "move_tail"} => pc[s] \in {"link_next", "move_tail"}
                 /\ pc'[s] = "test" => \/ pc[s] = "test" /\ seen'[s] = seen[s]
                                       \/ seen'[s] = tail
                 /\ pc'[s] = "pop_head" => pc[s] = "pop_head"
      BY <1>3, <1>t DEF GetTail, UnlockHead, Has
    <2>3. Shape(c, n, p)'
      BY <1>q, <2>1, <2>2, ShapeKept
    <2> QED
      BY <1>3, <2>1, <2>3, <1>s DEF GetTail, UnlockHead
  <1>4. ASSUME Test(t) PROVE List' /\ ItemsStep(t)
    <2>1. UNCHANGED <<live, data, next, head, tail, node, val, seen>>
      BY <1>4 DEF Test
    <2>2. pc'[t] = "pop_head" => p > 1
      <3>1. SUFFICES ASSUME head # seen[t] PROVE p > 1
        BY <1>4, <1>t DEF Test
      <3>2. PICK j \in 1..p : seen[t] = c[j]
        BY <1>4, <1>q DEF Test, Shape, SeenInv
      <3> QED
        BY <3>1, <3>2, <1>q DEF Shape, EndsInv
    <2>3. node[t] = Null
      BY <1>4, <1>t DEF Test, CallInv
    <2>4. ASSUME NEW s \in Threads
          PROVE  /\ Has(s)' = Has(s)
                 /\ pc'[s] = "move_tail" <=> pc[s] = "move_tail"
                 /\ pc'[s] \in {"link_next", "move_tail"} => pc[s] \in {"link_next", "move_tail"}
                 /\ pc'[s] = "test" => pc[s] = "test"
                 /\ pc'[s] = "pop_head" => pc[s] = "pop_head" \/ p > 1
      BY <1>4, <1>t, <2>2, <2>3 DEF Test, Has
    <2>5. Shape(c, n, p)'
      BY <1>q, <2>1, <2>4, ShapeKept
    <2> QED
      BY <1>4, <2>1, <2>5, <1>s DEF Test
  \* A node that is nobody's becomes that of t.
  <1>5. ASSUME NewNode(t) PROVE List' /\ ItemsStep(t)
    <2>1. PICK m \in Nodes \ live : live' = live \cup {m} /\ node' = [node EXCEPT ![t] = m]
      BY <1>5 DEF NewNode
    <2>2. /\ \A i \in 1..n : m # c[i]
          /\ \A s \in Threads : Has(s) => node[s] # m
      BY <1>q, <2>1, <1>t DEF Shape, LiveInv, Has
    <2>3. \A s \in Threads : /\ Has(s)' <=> Has(s) \/ s = t
                             /\ s # t => node'[s] = node[s]
      BY <1>5, <2>1, <1>t, NodesAssumption DEF NewNode, Has
    <2>4. node'[t] = m /\ ~Has(t)
      BY <1>5, <2>1, <1>t DEF NewNode, Has
    <2>5. LiveInv(c, n)'
      <3>1. LiveInv(c, n) /\ next' = next
        BY <1>q, <1>5 DEF Shape, NewNode
      <3>2. \A k \in Nodes : k \in live' <=> \/ \E i \in 1..n : k = c[i]
                                             \/ \E s \in Threads : Has(s)' /\ k = node'[s]
        BY <3>1, <2>1, <2>3, <2>4 DEF LiveInv
      <3>3. \A s \in Threads, i \in 1..n : Has(s)' => node'[s] # c[i]
        BY <3>1, <2>2, <2>3, <2>4 DEF LiveInv
      <3>4. \A s, u \in Threads : Has(s)' /\ Has(u)' /\ node'[s] = node'[u] => s = u
        BY <3>1, <2>2, <2>3, <2>4 DEF LiveInv
      <3> QED
        BY <3>1, <3>2, <3>3, <3>4 DEF LiveInv
    <2>6. UNCHANGED <<data, next, head, tail, val, seen>>
      BY <1>5 DEF NewNode
    <2>7. pc[t] = "new_node" /\ pc'[t] = "lock_tail" /\ \A s \in Threads \ {t} : pc'[s] = pc[s]
      BY <1>5, <1>t DEF NewNode
    <2>8. Path(c, n)'
      BY <1>q, <2>6 DEF Shape, Path
    <2>9. EndsInv(c, n, p)'
      BY <1>q, <2>6, <2>3, <2>7 DEF Shape, EndsInv
    <2>10. DataInv(c, p)' /\ SeenInv(c, p)'
      BY <1>q, <2>6, <2>7 DEF Shape, DataInv, SeenInv
    <2>11. Shape(c, n, p)'
      BY <2>5, <2>8, <2>9, <2>10 DEF Shape
    <2> QED
      BY <2>6, <2>7, <2>11, <1>s
  <1>6. ASSUME StoreData(t) PROVE List' /\ ItemsStep(t)
    <2>1. /\ pc[t] = "store_data" /\ pc'[t] = "link_next"
          /\ \A s \in Threads \ {t} : pc'[s] = pc[s]
      BY <1>6, <1>t DEF StoreData
    <2>2. /\ UNCHANGED <<live, next, head, tail, node, val, seen>>
          /\ data' = [data EXCEPT ![tail] = val[t]]
      BY <1>6 DEF StoreData
    <2>3. Path(c, n)' /\ EndsInv(c, n, p)'
      <3>1. Path(c, n)'
        BY <1>q, <2>2 DEF Shape, Path
      <3>2. EndsInv(c, n, p)'
        BY <1>q, <2>1, <2>2 DEF Shape, EndsInv
      <3> QED
        BY <3>1, <3>2
    <2>4. LiveInv(c, n)'
      <3>1. \A s \in Threads : Has(s)' = Has(s)
        BY <2>1, <2>2 DEF Has
      <3> QED
        BY <1>q, <2>2, <3>1 DEF Shape, LiveInv
    <2>8. ASSUME NEW i \in 1..(p - 1) PROVE data'[c[i]] = data[c[i]]
      <3>1. i \in 1..n /\ i # p /\ c[i] \in Nodes
        OBVIOUS
      <3>2. c[i] # tail
        BY <3>1, <1>q DEF Shape, Path, EndsInv
      <3> QED
        BY <2>2, <3>1, <3>2, <1>t
    <2>5. DataInv(c, p)'
      <3>1. \A i \in 1..(p - 1) : data'[c[i]] \in Values
        BY <2>8, <1>q DEF Shape, DataInv
      <3>2. ASSUME NEW s \in Threads, pc'[s] \in {"link_next", "move_tail"}
            PROVE  data'[tail'] = val'[s]
        <4>1. s = t
          BY <3>2, <2>1, <1>u DEF AtTail
        <4> QED
          BY <4>1, <2>2, <1>t
      <3> QED
        BY <3>1, <3>2 DEF DataInv
    <2>6. SeenInv(c, p)'
      BY <1>q, <2>1, <2>2 DEF Shape, SeenInv
    <2>7. Shape(c, n, p)'
      BY <2>3, <2>4, <2>5, <2>6 DEF Shape
    <2> QED
      BY <2>1, <2>7, <2>8, <1>s
  \* The node of t becomes the last of the list.
  <1>7. ASSUME LinkNext(t) PROVE List' /\ ItemsStep(t)
    <2>1. /\ pc[t] = "link_next" /\ pc'[t] = "move_tail"
          /\ \A s \in Threads \ {t} : pc'[s] = pc[s]
      BY <1>7, <1>t DEF LinkNext
    <2>2. /\ UNCHANGED <<live, data, head, tail, node, val, seen>>
          /\ next' = [next EXCEPT ![tail] = node[t]]
      BY <1>7 DEF LinkNext
    <2>3. node[t] \in Nodes /\ Has(t)
      BY <2>1, <1>t, NodesAssumption DEF CallInv, Has
    <2>4. p = n
      <3>1. \A s \in Threads : pc[s] # "move_tail"
        BY <2>1, <1>u DEF AtTail
      <3> QED
        BY <3>1, <1>q DEF Shape, EndsInv
    <2>5. PICK d : d = [i \in 1..(n + 1) |-> IF i <= n THEN c[i] ELSE node[t]]
      OBVIOUS
    <2>6. /\ n + 1 \in Nat \ {0} /\ d \in [1..(n + 1) -> Nodes] /\ p \in 1..(n + 1)
          /\ d[n + 1] = node[t] /\ \A i \in 1..n : d[i] = c[i]
      BY <2>3, <2>5
    <2>7. \A i \in 1..n : c[i] # node[t]
      BY <2>3, <1>q DEF Shape, LiveInv
    <2>8. Path(d, n + 1)'
      <3>1. Path(c, n) /\ tail = c[n]
        BY <1>q, <2>4 DEF Shape, EndsInv
      <3>2. \A i, j \in 1..(n + 1) : d[i] = d[j] => i = j
        <4> SUFFICES ASSUME NEW i \in 1..(n + 1), NEW j \in 1..(n + 1), d[i] = d[j] PROVE i = j
          OBVIOUS
        <4>1. CASE i = n + 1 \/ j = n + 1
          BY <4>1, <2>6, <2>7
        <4>2. CASE i # n + 1 /\ j # n + 1
          <5>1. i \in 1..n /\ j \in 1..n
            BY <4>2
          <5> QED
            BY <5>1, <2>6, <3>1 DEF Path
        <4> QED
          BY <4>1, <4>2
      <3>3. ASSUME NEW i \in 1..(n + 1)
            PROVE  next'[d[i]] = IF i = n + 1 THEN Null ELSE d[i + 1]
        <4>1. CASE i = n + 1
          <5>1. next[node[t]] = Null /\ node[t] # tail
            BY <2>3, <2>7, <3>1, <1>q DEF Shape, LiveInv
          <5> QED
            BY <4>1, <5>1, <2>2, <2>6, <1>t
        <4>2. CASE i = n
          BY <4>2, <2>2, <2>6, <3>1, <1>t
        <4>3. CASE i < n
          <5>1. i \in 1..n /\ i + 1 \in 1..n /\ i # n
            BY <4>3
          <5>2. c[i] # tail /\ next[c[i]] = c[i + 1]
            BY <5>1, <3>1 DEF Path
          <5>3. next'[c[i]] = next[c[i]]
            BY <5>1, <5>2, <2>2, <1>t
          <5> QED
            BY <5>1, <5>2, <5>3, <2>6
        <4> QED
          BY <4>1, <4>2, <4>3
      <3> QED
        BY <2>6, <3>2, <3>3 DEF Path
    <2>9. EndsInv(d, n + 1, p)'
      BY <1>q, <2>1, <2>2, <2>4, <2>6 DEF Shape, EndsInv
    <2>10. LiveInv(d, n + 1)'
      <3>1. \A s \in Threads : Has(s)' <=> Has(s) /\ s # t
        BY <2>1, <2>2 DEF Has
      <3>2. LiveInv(c, n)
        BY <1>q DEF Shape
      <3>3. \A m : (\E i \in 1..(n + 1) : m = d[i]) <=> m = node[t] \/ \E i \in 1..n : m = c[i]
        BY <2>6
      <3>4. \A m \in Nodes : m \in live <=> \/ \E i \in 1..(n + 1) : m = d[i]
                                             \/ \E s \in Threads : Has(s)' /\ m = node[s]
        BY <3>1, <3>2, <3>3, <2>3 DEF LiveInv
      <3>5. \A s \in Threads, i \in 1..(n + 1) : Has(s)' => node[s] # d[i]
        <4> SUFFICES ASSUME NEW s \in Threads, NEW i \in 1..(n + 1), Has(s)', node[s] = d[i]
                     PROVE  FALSE
          OBVIOUS
        <4>1. s # t /\ Has(s)
          BY <3>1
        <4>2. node[s] # node[t]
          BY <4>1, <3>2, <2>3 DEF LiveInv
        <4>3. \A k \in 1..n : node[s] # c[k]
          BY <4>1, <3>2 DEF LiveInv
        <4> QED
          BY <4>2, <4>3, <3>3
      <3>6. \A s, u \in Threads : Has(s)' /\ Has(u)' /\ node[s] = node[u] => s = u
        BY <3>1, <3>2 DEF LiveInv
      <3>7. ASSUME NEW m \in Nodes, \A i \in 1..(n + 1) : m # d[i] PROVE next'[m] = Null
        <4>1. \A i \in 1..n : m # c[i]
          BY <3>7, <3>3
        <4>2. m # tail
          BY <4>1, <1>q DEF Shape, EndsInv
        <4> QED
          BY <4>1, <4>2, <3>2, <2>2, <1>t DEF LiveInv
      <3> QED
        BY <3>4, <3>5, <3>6, <3>7, <2>2 DEF LiveInv
    <2>11. DataInv(d, p)'
      <3>1. \A i \in 1..(p - 1) : d[i] = c[i]
        BY <2>4, <2>6
      <3> QED
        BY <1>q, <2>1, <2>2, <3>1 DEF Shape, DataInv
    <2>12. SeenInv(d, p)'
      BY <1>q, <2>1, <2>2, <2>4, <2>6 DEF Shape, SeenInv
    <2>13. Shape(d, n + 1, p)'
      BY <2>8, <2>9, <2>10, <2>11, <2>12 DEF Shape
    <2> QED
      <3>1. \A i \in 1..(p - 1) : data'[d[i]] = data[c[i]]
        BY <2>2, <2>4, <2>6
      <3>2. pc[t] \notin {"move_tail", "pop_head"}
        BY <2>1
      <3> QED
        BY <2>6, <2>13, <3>1, <3>2, <1>s
  <1>8. ASSUME MoveTail(t) PROVE List' /\ ItemsStep(t)
    <2>1. /\ pc[t] = "move_tail" /\ pc'[t] = "unlock_tail"
          /\ \A s \in Threads \ {t} : pc'[s] = pc[s] /\ node'[s] = node[s]
      BY <1>8, <1>t DEF MoveTail
    <2>2. UNCHANGED <<live, data, next, head, val, seen>> /\ tail' = node[t]
      BY <1>8 DEF MoveTail
    <2>3. \A s \in Threads : pc[s] \in {"link_next", "move_tail"} => s = t
      BY <2>1, <1>u DEF AtTail
    <2>4. p = n - 1 /\ node[t] = c[n] /\ n \in 1..n /\ tail = c[p] /\ head = c[1]
      BY <2>1, <2>3, <1>q DEF Shape, EndsInv
    <2>5. Path(c, n)'
      BY <1>q, <2>2 DEF Shape, Path
    <2>6. EndsInv(c, n, n)'
      BY <2>1, <2>2, <2>3, <2>4 DEF EndsInv
    <2>7. LiveInv(c, n)'
      <3>1. \A s \in Threads : Has(s)' = Has(s) /\ (Has(s) => node'[s] = node[s])
        BY <2>1 DEF Has
      <3> QED
        BY <1>q, <2>2, <3>1 DEF Shape, LiveInv
    <2>8. DataInv(c, n)'
      <3>1. data[c[p]] \in Values
        BY <2>1, <2>4, <1>q, <1>t DEF Shape, DataInv, CallInv
      <3>2. \A i \in 1..(n - 1) : data[c[i]] \in Values
        BY <3>1, <2>4, <1>q DEF Shape, DataInv
      <3> QED
        BY <3>2, <2>1, <2>2, <2>3 DEF DataInv
    <2>9. SeenInv(c, n)'
      BY <1>q, <2>1, <2>2, <2>4 DEF Shape, SeenInv
    <2>10. Shape(c, n, n)'
      BY <2>5, <2>6, <2>7, <2>8, <2>9 DEF Shape
    <2>11. Contents(c, n)' = Append(Contents(c, p), val[t])
      <3>1. data[c[p]] = val[t]
        BY <2>1, <2>4, <1>q DEF Shape, DataInv
      <3>2. DOMAIN Append(Contents(c, p), val[t]) = 1..(n - 1)
        BY <2>4 DEF Contents
      <3>3. \A k \in 1..(n - 1) : Append(Contents(c, p), val[t])[k] = data[c[k]]
        BY <3>1, <2>4 DEF Contents
      <3> QED
        BY <3>2, <3>3, <2>2 DEF Contents
    <2> QED
      BY <2>1, <2>4, <2>10, <2>11, <1>i, <1>j DEF ItemsStep
  \* The first node of the list becomes that of t.
  <1>9. ASSUME PopHead(t) PROVE List' /\ ItemsStep(t)
    <2>1. /\ pc[t] = "pop_head" /\ pc'[t] = "unlock_head"
          /\ \A s \in Threads \ {t} : pc'[s] = pc[s] /\ node'[s] = node[s]
      BY <1>9, <1>t DEF PopHead
    <2>2. /\ UNCHANGED <<live, data, tail, val, seen>>
          /\ node'[t] = head /\ head' = next[head] /\ next' = [next EXCEPT ![head] = Null]
      BY <1>9, <1>t DEF PopHead
    <2>3. p > 1 /\ n > 1 /\ head = c[1] /\ tail = c[p] /\ Path(c, n)
      BY <2>1, <1>q DEF Shape, SeenInv, EndsInv
    <2>4. 1 \in 1..n /\ 1 # n /\ next[head] = c[2]
      BY <2>3 DEF Path
    <2>k. PICK k \in Nat \ {0} : k = n - 1 /\ n = k + 1
      <3>1. n - 1 \in Nat \ {0} /\ n = (n - 1) + 1
        BY <2>3
      <3> QED
        BY <3>1
    <2>5. PICK d : d = [i \in 1..k |-> c[i + 1]]
      OBVIOUS
    <2>6. /\ k \in Nat \ {0} /\ d \in [1..k -> Nodes] /\ p - 1 \in 1..k
          /\ \A i \in 1..k : i + 1 \in 1..n /\ d[i] = c[i + 1]
      BY <2>3, <2>k, <2>5
    <2>7. \A m : (\E i \in 1..n : m = c[i]) <=> m = head \/ \E i \in 1..k : m = d[i]
      <3> SUFFICES ASSUME NEW m, NEW i \in 1..n, m = c[i], m # head
                   PROVE  \E j \in 1..k : m = d[j]
        BY <2>3, <2>4, <2>6
      <3>1. i # 1
        BY <2>3
      <3>2. i - 1 \in 1..k /\ (i - 1) + 1 = i
        BY <3>1, <2>k
      <3> QED
        BY <3>2, <2>6
    <2>8. \A i \in 1..k : d[i] # head
      <3> SUFFICES ASSUME NEW i \in 1..k, c[i + 1] = c[1] PROVE FALSE
        BY <2>3, <2>6
      <3>1. i + 1 \in 1..n /\ i + 1 # 1
        BY <2>k
      <3> QED
        BY <3>1, <2>3, <2>4 DEF Path
    <2>9. Path(d, k)'
      <3>1. \A i, j \in 1..k : d[i] = d[j] => i = j
        <4> SUFFICES ASSUME NEW i \in 1..k, NEW j \in 1..k, d[i] = d[j] PROVE i = j
          OBVIOUS
        <4>1. i + 1 \in 1..n /\ j + 1 \in 1..n /\ c[i + 1] = c[j + 1]
          BY <2>6
        <4>2. i + 1 = j + 1
          BY <4>1, <2>3 DEF Path
        <4> QED
          BY <4>2
      <3>2. ASSUME NEW i \in 1..k
            PROVE  next'[d[i]] = IF i = k THEN Null ELSE d[i + 1]
        <4>1. i + 1 \in 1..n /\ d[i] = c[i + 1] /\ d[i] \in Nodes
          BY <2>6
        <4>2. next'[d[i]] = next[c[i + 1]]
          BY <4>1, <2>2, <2>8, <1>t
        <4>3. next[c[i + 1]] = IF i + 1 = n THEN Null ELSE c[(i + 1) + 1]
          BY <4>1, <2>3 DEF Path
        <4>4. CASE i = k
          BY <4>2, <4>3, <4>4, <2>k
        <4>5. CASE i # k
          <5>1. i + 1 \in 1..k /\ i + 1 # n
            BY <4>5, <2>k
          <5> QED
            BY <4>2, <4>3, <4>5, <5>1, <2>6
        <4> QED
          BY <4>4, <4>5
      <3> QED
        BY <2>6, <3>1, <3>2 DEF Path
    <2>10. EndsInv(d, k, p - 1)'
      <3>1. head' = d[1] /\ tail' = d[p - 1]
        BY <2>2, <2>3, <2>4, <2>6
      <3>2. d[k] = c[n]
        BY <2>6, <2>k
      <3>3. \A s \in Threads : pc'[s] = "move_tail" <=> pc[s] = "move_tail"
        BY <2>1
      <3>4. \A s \in Threads : pc[s] = "move_tail" => node'[s] = node[s]
        BY <2>1
      <3>5. EndsInv(c, n, p)
        BY <1>q DEF Shape
      <3>6. \/ p - 1 = k /\ \A s \in Threads : pc'[s] # "move_tail"
            \/ p - 1 = k - 1 /\ \E s \in Threads : pc'[s] = "move_tail" /\ node'[s] = d[k]
        BY <3>2, <3>3, <3>4, <3>5, <2>k DEF EndsInv
      <3> QED
        BY <2>6, <3>1, <3>6 DEF EndsInv
    <2>11. LiveInv(d, k)'
      <3>1. \A s \in Threads : Has(s)' <=> Has(s) \/ s = t
        BY <2>1, <2>2, <2>3, NodesAssumption DEF Has
      <3>2. LiveInv(c, n) /\ ~Has(t) /\ head \in Nodes
        BY <1>q, <2>1, <2>3 DEF Shape, Has
      <3>3. \A s \in Threads : Has(s) => node'[s] = node[s] /\ node[s] # head
        BY <2>1, <2>3, <2>4, <3>2 DEF LiveInv
      <3>8. live' = live
        BY <2>2
      <3>9. \A m : (\E s \in Threads : Has(s)' /\ m = node'[s])
                     <=> m = head \/ \E s \in Threads : Has(s) /\ m = node[s]
        BY <3>1, <3>2, <3>3, <2>2
      <3>4. \A m \in Nodes : m \in live <=> \/ \E i \in 1..k : m = d[i]
                                             \/ \E s \in Threads : Has(s)' /\ m = node'[s]
        <4>1. \A m \in Nodes : m \in live <=> \/ \E i \in 1..n : m = c[i]
                                               \/ \E s \in Threads : Has(s) /\ m = node[s]
          BY <3>2 DEF LiveInv
        <4>2. ASSUME NEW m \in Nodes
              PROVE  m \in live <=> \/ \E i \in 1..k : m = d[i]
                                   \/ \E s \in Threads : Has(s)' /\ m = node'[s]
          <5> DEFINE InC == \E i \in 1..n : m = c[i]
                     InD == \E i \in 1..k : m = d[i]
                     Had == \E s \in Threads : Has(s) /\ m = node[s]
                     HasNow == \E s \in Threads : Has(s)' /\ m = node'[s]
          <5>1. m \in live <=> InC \/ Had
            BY <4>1
          <5>2. InC <=> m = head \/ InD
            BY <2>7
          <5>3. HasNow <=> m = head \/ Had
            BY <3>9
          <5> HIDE DEF InC, InD, Had, HasNow
          <5>4. m \in live <=> InD \/ HasNow
            BY <5>1, <5>2, <5>3
          <5> QED
            BY <5>4 DEF InD, HasNow
        <4> QED
          BY <4>2
      <3>5. \A s \in Threads, i \in 1..k : Has(s)' => node'[s] # d[i]
        <4> SUFFICES ASSUME NEW s \in Threads, NEW i \in 1..k, Has(s)' PROVE node'[s] # d[i]
          OBVIOUS
        <4>1. CASE s = t
          BY <4>1, <2>2, <2>8
        <4>2. CASE s # t
          <5>1. Has(s) /\ node'[s] = node[s]
            BY <4>2, <3>1, <3>3
          <5>2. \A j \in 1..n : node[s] # c[j]
            BY <5>1, <3>2 DEF LiveInv
          <5> QED
            BY <5>1, <5>2, <2>6
        <4> QED
          BY <4>1, <4>2
      <3>6. \A s, u \in Threads : Has(s)' /\ Has(u)' /\ node'[s] = node'[u] => s = u
        BY <3>1, <3>2, <3>3, <2>2 DEF LiveInv
      <3>7. ASSUME NEW m \in Nodes, \A i \in 1..k : m # d[i] PROVE next'[m] = Null
        <4>1. CASE m = head
          BY <4>1, <3>2, <2>2, <1>t
        <4>2. CASE m # head
          <5>1. \A i \in 1..n : m # c[i]
            BY <4>2, <3>7, <2>7
          <5>2. next[m] = Null
            BY <5>1, <3>2 DEF LiveInv
          <5> QED
            BY <4>2, <5>2, <2>2, <1>t
        <4> QED
          BY <4>1, <4>2
      <3> QED
        BY <3>4, <3>5, <3>6, <3>7, <3>8 DEF LiveInv
    <2>12. DataInv(d, p - 1)'
      <3>1. ASSUME NEW i \in 1..((p - 1) - 1) PROVE data[d[i]] \in Values
        <4>1. i \in 1..k /\ i + 1 \in 1..(p - 1)
          BY <2>3, <2>k
        <4> QED
          BY <4>1, <2>6, <1>q DEF Shape, DataInv
      <3> QED
        BY <3>1, <2>1, <2>2, <1>q DEF Shape, DataInv
    <2>13. SeenInv(d, p - 1)'
      <3>1. \A s \in Threads : pc'[s] \notin {"test", "pop_head"}
        BY <2>1, <1>u DEF AtHead
      <3> QED
        BY <3>1 DEF SeenInv
    <2>14. Shape(d, k, p - 1)'
      BY <2>9, <2>10, <2>11, <2>12, <2>13 DEF Shape
    <2>15. Contents(d, p - 1)' = Tail(Contents(c, p))
      <3>1. ASSUME NEW i \in 1..((p - 1) - 1) PROVE d[i] = c[i + 1] /\ i + 1 \in 1..(p - 1)
        <4>1. i \in 1..k /\ i + 1 \in 1..(p - 1)
          BY <2>3, <2>k
        <4> QED
          BY <4>1, <2>6
      <3> QED
        BY <3>1, <2>2, <2>3 DEF Contents
    <2> QED
      BY <2>1, <2>6, <2>14, <2>15, <1>i, <1>j DEF ItemsStep
  \* The node of t is freed, and it alone.
  <1>10. ASSUME Free(t) PROVE List' /\ ItemsStep(t)
    <2>1. /\ pc[t] = "free" /\ pc'[t] = "return"
          /\ \A s \in Threads \ {t} : pc'[s] = pc[s] /\ node'[s] = node[s]
      BY <1>10, <1>t DEF Free
    <2>2. PICK m : m = node[t]
      OBVIOUS
    <2>3. m \in Nodes /\ Has(t)
      BY <2>1, <2>2, <1>t, NodesAssumption DEF CallInv, Has
    <2>4. \A i \in 1..n : m # c[i]
      BY <2>2, <2>3, <1>q DEF Shape, LiveInv
    <2>6. next[m] = Null /\ Reach(m) = {m}
      BY <1>q, <2>2, <2>3, OwnedAlone
    <2>7. /\ live' = live \ {m} /\ \A k \in Nodes : k # m => data'[k] = data[k] /\ next'[k] = next[k]
          /\ next'[m] = Null
      BY <1>10, <2>2, <2>3, <2>6 DEF Free, FreeFrom
    <2>8. UNCHANGED <<head, tail, val, seen>>
      BY <1>10 DEF Free
    <2>9. Path(c, n)'
      <3>1. \A i \in 1..n : next'[c[i]] = next[c[i]]
        BY <2>4, <2>7
      <3> QED
        BY <3>1, <1>q DEF Shape, Path
    <2>10. EndsInv(c, n, p)'
      BY <1>q, <2>1, <2>8 DEF Shape, EndsInv
    <2>11. LiveInv(c, n)'
      <3>1. \A s \in Threads : Has(s)' <=> Has(s) /\ s # t
        BY <2>1 DEF Has
      <3>2. LiveInv(c, n)
        BY <1>q DEF Shape
      <3>3. \A s \in Threads : Has(s)' => node'[s] = node[s] /\ node[s] # m
        BY <3>1, <3>2, <2>1, <2>2, <2>3 DEF LiveInv
      <3>4. \A k \in Nodes : k \in live' <=> \/ \E i \in 1..n : k = c[i]
                                              \/ \E s \in Threads : Has(s)' /\ k = node'[s]
        BY <3>1, <3>2, <3>3, <2>2, <2>4, <2>7 DEF LiveInv
      <3>5. \A s \in Threads, i \in 1..n : Has(s)' => node'[s] # c[i]
        BY <3>1, <3>2, <3>3 DEF LiveInv
      <3>6. \A s, u \in Threads : Has(s)' /\ Has(u)' /\ node'[s] = node'[u] => s = u
        BY <3>1, <3>2, <3>3 DEF LiveInv
      <3>7. \A k \in Nodes : (\A i \in 1..n : k # c[i]) => next'[k] = Null
        BY <3>2, <2>7 DEF LiveInv
      <3> QED
        BY <3>4, <3>5, <3>6, <3>7 DEF LiveInv
    <2>12. DataInv(c, p)'
      <3>1. \A i \in 1..n : data'[c[i]] = data[c[i]]
        BY <2>4, <2>7
      <3>2. data'[tail] = data[tail]
        BY <3>1, <1>q DEF Shape, EndsInv
      <3> QED
        BY <3>1, <3>2, <2>1, <2>8, <1>q DEF Shape, DataInv
    <2>13. SeenInv(c, p)'
      BY <1>q, <2>1, <2>8 DEF Shape, SeenInv
    <2>14. Shape(c, n, p)'
      BY <2>9, <2>10, <2>11, <2>12, <2>13 DEF Shape
    <2> QED
      BY <2>1, <2>4, <2>7, <2>14, <1>s
  <1> QED
    BY <1>1, <1>2, <1>3, <1>4, <1>5, <1>6, <1>7, <1>8, <1>9, <1>10 DEF Step, Push, Pop

-----------------------------------------------------------------------------
(***************************************************************************)
(* The list while the destructor runs.                                     *)
(***************************************************************************)
\* <<Null>>, as the vector is before the destructor runs, is no vector of nodes.
LEMMA NullIsNoNode == <<Null>> \notin Seq(Nodes)
  <1> SUFFICES ASSUME NEW s \in Seq(Nodes), s = <<Null>> PROVE FALSE
    OBVIOUS
  <1>1. Len(s) = 1 /\ s[1] = Null
    OBVIOUS
  <1>2. s[1] \in Nodes
    BY <1>1
  <1> QED
    BY <1>1, <1>2, NodesAssumption

\* No step of a thread is left when all scripts are over.
LEMMA DoneForGood ==
  ASSUME AllDone, NEW t \in Threads, Step(t) \/ SpuriousWakeup(t)
  PROVE  FALSE
  <1>1. pc[t] = "idle" /\ todo[t] = <<>>
    BY DEF AllDone
  <1> QED
    BY <1>1 DEF Step, Push, Pop, Call, NewNode, NewThrows, LockTail, StoreData, LinkNext, MoveTail,
                UnlockTail, NotifyOne, LockHead, GetTail, Test, Sleep, Relock, PopHead,
                UnlockHead, TakeData, Free, Return, SpuriousWakeup

\* Before the destructor the list is all there is.
LEMMA CollectStep ==
  ASSUME IndInv, Collect
  PROVE  \E n \in Nat \ {0} : \E c \in [1..n -> Nodes] : Dying(c, n)'
  <1>1. List /\ AllDone
    BY DEF Collect, IndInv, ListInv
  <1>p. PICK n \in Nat \ {0} : \E c \in [1..n -> Nodes], p \in 1..n : Shape(c, n, p)
    BY <1>1 DEF List
  <1>q. PICK c \in [1..n -> Nodes], p \in 1..n : Shape(c, n, p)
    BY <1>p
  <1>2. nodes' = c
    BY <1>q, Collected DEF Collect, Shape, EndsInv
  <1>3. UNCHANGED <<live, next, head>>
    BY DEF Collect, heapVars, queueVars
  <1>4. Path(c, n)' /\ head' = c[1]
    BY <1>q, <1>3 DEF Shape, Path, EndsInv
  <1>5. live = {c[i] : i \in 1..n}
    <2>1. \A t \in Threads : ~Has(t)
      BY <1>1 DEF AllDone, Has
    <2>2. live \subseteq Nodes
      BY DEF IndInv, BaseInv, TypeOK
    <2>3. \A m \in Nodes : m \in live <=> \E i \in 1..n : m = c[i]
      BY <1>q, <2>1 DEF Shape, LiveInv
    <2> QED
      BY <2>2, <2>3
  <1>6. nodes' \in Seq(Nodes) /\ Len(nodes') = n
    BY <1>2
  <1>7. Dying(c, n)'
    BY <1>2, <1>3, <1>4, <1>5, <1>6 DEF Dying
  <1> QED
    BY <1>7

\* One iteration of the loop from the back.
LEMMA ResetStep ==
  ASSUME IndInv, ResetNext
  PROVE  /\ \E n \in Nat \ {0} : \E c \in [1..n -> Nodes] : Dying(c, n)'
         /\ \E m \in Nodes : live \ live' \subseteq {m}
  <1>p. PICK n \in Nat \ {0} : \E c \in [1..n -> Nodes] : Dying(c, n)
    BY DEF ResetNext, IndInv, DeathInv
  <1>q. PICK c \in [1..n -> Nodes] : Dying(c, n)
    BY <1>p
  <1>1. PICK l : l = Len(nodes)
    OBVIOUS
  <1>2. /\ nodes \in Seq(Nodes) /\ l \in 1..n /\ l \in {n - 1, n}
        /\ nodes[l] = c[l] /\ Path(c, n) /\ head = c[1]
        /\ live = {c[i] : i \in 1..n} /\ \A i \in 1..l : nodes[i] = c[i]
    BY <1>q, <1>1 DEF ResetNext, Dying
  <1>3. /\ nodes' \in Seq(Nodes) /\ Len(nodes') = l - 1
        /\ \A i \in 1..(l - 1) : nodes'[i] = c[i]
    <2>1. nodes' = SubSeq(nodes, 1, l - 1)
      BY <1>1 DEF ResetNext
    <2> QED
      BY <2>1, <1>1, <1>2
  <1>4. head' = head
    BY DEF ResetNext, queueVars
  <1>n. next \in [Nodes -> Nodes \cup {Null}]
    BY DEF IndInv, BaseInv, TypeOK
  <1>5. /\ IF next[c[l]] = Null THEN live' = live ELSE live' = live \ Reach(next[c[l]])
        /\ \A m \in Nodes : next'[m] = IF m \in Reach(c[l]) THEN Null ELSE next[m]
    BY <1>1, <1>2 DEF ResetNext, FreeFrom
  <1>6. \A i \in 1..n : Reach(c[i]) = {c[j] : j \in i..n}
    BY <1>2, PathLemma DEF PathFacts
  <1>7. CASE l = n
    <2>1. next[c[n]] = Null /\ Reach(c[n]) = {c[n]}
      BY <1>2, <1>6, <1>7 DEF Path
    <2>2. live' = live /\ \A m \in Nodes : next'[m] = next[m]
      BY <1>5, <1>7, <2>1
    <2>3. Path(c, n)'
      BY <1>2, <2>2 DEF Path
    <2>4. Dying(c, n)'
      BY <1>2, <1>3, <1>4, <1>7, <2>2, <2>3 DEF Dying
    <2> QED
      BY <2>2, <2>4, NodesAssumption
  <1>8. CASE l # n
    <2>k. l \in Nat \ {0} /\ n = l + 1 /\ l \in 1..n /\ n \in 1..n
      BY <1>2, <1>8
    <2>1. next[c[l]] = c[n] /\ c[n] \in Nodes /\ c[n] # Null
      BY <1>2, <1>8, <2>k, NodesAssumption DEF Path
    <2>2. Reach(c[n]) = {c[n]} /\ Reach(c[l]) = {c[l], c[n]}
      BY <1>6, <2>k
    <2>3. /\ live' = live \ {c[n]}
          /\ \A m \in Nodes : next'[m] = IF m \in {c[l], c[n]} THEN Null ELSE next[m]
      BY <1>5, <2>1, <2>2
    <2>4. PICK d : d = [i \in 1..l |-> c[i]]
      OBVIOUS
    <2>5. d \in [1..l -> Nodes] /\ \A i \in 1..l : d[i] = c[i] /\ i \in 1..n
      BY <2>k, <2>4
    <2>6. \A i \in 1..l : c[i] # c[n]
      BY <1>2, <2>k DEF Path
    <2>7. Path(d, l)'
      <3>1. \A i, j \in 1..l : d[i] = d[j] => i = j
        BY <1>2, <2>5 DEF Path
      <3>2. ASSUME NEW i \in 1..l PROVE next'[d[i]] = IF i = l THEN Null ELSE d[i + 1]
        <4>1. i \in 1..n /\ d[i] = c[i] /\ c[i] # c[n] /\ c[i] \in Nodes /\ i # n
          BY <2>5, <2>6, <2>k
        <4>2. CASE i = l
          BY <4>1, <4>2, <2>3
        <4>3. CASE i # l
          <5>1. c[i] # c[l]
            BY <4>1, <4>3, <2>k, <1>2 DEF Path
          <5>2. next'[c[i]] = c[i + 1]
            BY <4>1, <5>1, <2>3, <1>2 DEF Path
          <5>3. i + 1 \in 1..l
            BY <4>3, <2>k
          <5> QED
            BY <4>1, <4>3, <5>2, <5>3, <2>5
        <4> QED
          BY <4>2, <4>3
      <3> QED
        BY <2>k, <2>5, <3>1, <3>2 DEF Path
    <2>8. live' = {d[i] : i \in 1..l}
      <3>1. ASSUME NEW m \in live' PROVE m \in {d[i] : i \in 1..l}
        <4>1. PICK i \in 1..n : m = c[i]
          BY <3>1, <2>3, <1>2
        <4>2. i \in 1..l
          BY <4>1, <3>1, <2>3, <2>k
        <4> QED
          BY <4>1, <4>2, <2>5
      <3>2. ASSUME NEW i \in 1..l PROVE d[i] \in live'
        BY <1>2, <2>3, <2>5, <2>6
      <3> QED
        BY <3>1, <3>2
    <2>9. head' = d[1]
      BY <1>2, <1>4, <2>5, <2>k
    <2>12. Len(nodes') \in {l - 1, l} /\ \A i \in 1..Len(nodes') : nodes'[i] = d[i]
      <3>1. \A i \in 1..(l - 1) : i \in 1..l
        BY <2>k
      <3> QED
        BY <3>1, <1>3, <2>5
    <2>10. Dying(d, l)'
      BY <1>3, <2>7, <2>8, <2>9, <2>12 DEF Dying
    <2>11. live \ live' \subseteq {c[n]}
      BY <2>3
    <2> QED
      BY <2>1, <2>k, <2>5, <2>10, <2>11
  <1> QED
    BY <1>7, <1>8

\* The last node goes with the member head.
LEMMA FreeHeadStep ==
  ASSUME IndInv, FreeHead
  PROVE  head' = Null /\ live' = {} /\ nodes' = <<>> /\ live \ live' \subseteq {head}
  <1>1. ~Running /\ head # Null /\ nodes = <<>>
    <2>1. nodes = <<>>
      BY DEF FreeHead
    <2>2. Len(<<Null>>) = 1 /\ Len(<<>>) = 0
      OBVIOUS
    <2> QED
      BY <2>1, <2>2 DEF FreeHead, Running
  <1>p. PICK n \in Nat \ {0} : \E c \in [1..n -> Nodes] : Dying(c, n)
    BY <1>1 DEF IndInv, DeathInv
  <1>q. PICK c \in [1..n -> Nodes] : Dying(c, n)
    BY <1>p
  <1>2. n = 1 /\ head = c[1] /\ live = {c[i] : i \in 1..n} /\ Path(c, n)
    BY <1>q, <1>1 DEF Dying
  <1>3. Reach(head) = {c[1]}
    BY <1>2, ReachAlone DEF Path
  <1> QED
    BY <1>1, <1>2, <1>3 DEF FreeHead, FreeFrom

\* The invariant is inductive.
LEMMA StepIndInv == IndInv /\ [Next]_vars => IndInv'
  <1> SUFFICES ASSUME IndInv, [Next]_vars PROVE IndInv'
    OBVIOUS
  <1>1. BaseInv'
    BY StepBaseInv
  <1>2. CASE UNCHANGED vars
    <2>1. UNCHANGED <<live, data, next, head, tail, pc, val, node, seen, nodes, todo>>
      BY <1>2 DEF vars, heapVars, queueVars, callVars
    <2>2. ASSUME NEW n \in Nat \ {0}, NEW c \in [1..n -> Nodes], NEW p \in 1..n, Shape(c, n, p)
          PROVE  Shape(c, n, p)'
      BY <2>1, <2>2, ShapeKept DEF Has
    <2>3. ASSUME NEW n \in Nat \ {0}, NEW c \in [1..n -> Nodes], Dying(c, n)
          PROVE  Dying(c, n)'
      BY <2>1, <2>3 DEF Dying, Path
    <2>4. ListInv'
      BY <2>1, <2>2 DEF IndInv, ListInv, List, Running
    <2>5. DeathInv'
      BY <2>1, <2>3 DEF IndInv, DeathInv, AllDone, Running
    <2> QED
      BY <1>1, <2>4, <2>5 DEF IndInv
  <1>3. ASSUME NEW t \in Threads, Step(t) \/ SpuriousWakeup(t) PROVE IndInv'
    <2>1. nodes' = nodes
      BY <1>3 DEF Step, Push, Pop, Call, NewNode, NewThrows, LockTail, StoreData, LinkNext,
                  MoveTail, UnlockTail, NotifyOne, LockHead, GetTail, Test, Sleep, Relock,
                  PopHead, UnlockHead, TakeData, Free, Return, SpuriousWakeup
    <2>2. Running /\ Running'
      BY <1>3, <2>1, DoneForGood DEF IndInv, DeathInv, Running
    <2>3. List'
      BY <1>1, <1>3, <2>2, StepList
    <2> QED
      BY <1>1, <2>2, <2>3 DEF IndInv, ListInv, DeathInv
  <1>4. ASSUME Collect \/ ResetNext PROVE IndInv'
    <2>1. \E n \in Nat \ {0} : \E c \in [1..n -> Nodes] : Dying(c, n)'
      BY <1>4, CollectStep, ResetStep
    <2>2. nodes' \in Seq(Nodes)
      BY <2>1 DEF Dying
    <2>3. ~Running'
      BY <2>2, NullIsNoNode DEF Running
    <2>4. AllDone /\ UNCHANGED <<pc, todo>>
      BY <1>4 DEF Collect, ResetNext, IndInv, DeathInv, callVars
    <2> QED
      BY <1>1, <2>1, <2>2, <2>3, <2>4 DEF IndInv, ListInv, DeathInv, AllDone
  <1>5. ASSUME FreeHead PROVE IndInv'
    <2>1. head' = Null /\ live' = {} /\ nodes' = <<>> /\ nodes = <<>>
      BY <1>5, FreeHeadStep DEF FreeHead
    <2>2. Len(<<Null>>) = 1 /\ Len(<<>>) = 0
      OBVIOUS
    <2>3. ~Running /\ ~Running'
      BY <2>1, <2>2 DEF Running
    <2>4. AllDone /\ UNCHANGED <<pc, todo>>
      BY <1>5, <2>3 DEF FreeHead, IndInv, DeathInv, callVars
    <2> QED
      BY <1>1, <2>1, <2>3, <2>4 DEF IndInv, ListInv, DeathInv, AllDone
  <1> QED
    BY <1>2, <1>3, <1>4, <1>5 DEF Next, Destroy

\* The state is well typed, each call is where it may be, and the nodes form a
\* list from head to the dummy at tail.
THEOREM Invariance == Spec => []IndInv
  BY InitIndInv, StepIndInv, PTL DEF Spec

\* The state is well typed, and each mutex is owned by exactly the thread inside
\* its critical section.
THEOREM TypeCorrect == Spec => []TypeOK
  <1>1. IndInv => TypeOK
    BY DEF IndInv, BaseInv
  <1> QED
    BY <1>1, Invariance, PTL

\* The list leads from head to the dummy, with a value in each node before it.
THEOREM ListIsWhole == Spec => []ListShape
  <1>1. IndInv => ListShape
    <2> SUFFICES ASSUME IndInv, Running
                 PROVE  \E k \in 0..Bound :
                          /\ After(head)[k] = tail
                          /\ \A i \in 0..(k - 1) : data[After(head)[i]] # NoValue
                          /\ next[tail] # Null =>
                               \E t \in Threads : pc[t] = "move_tail" /\ next[tail] = node[t]
      BY DEF ListShape, Bound
    <2>p. PICK n \in Nat \ {0} : \E c \in [1..n -> Nodes], p \in 1..n : Shape(c, n, p)
      BY DEF IndInv, ListInv, List
    <2>q. PICK c \in [1..n -> Nodes], p \in 1..n : Shape(c, n, p)
      BY <2>p
    <2>1. Path(c, n) /\ EndsInv(c, n, p) /\ head = c[1] /\ tail = c[p]
      BY <2>q DEF Shape, EndsInv
    <2>2. n <= Bound /\ \A k \in 0..Bound : After(c[1])[k] = IF 1 + k <= n THEN c[1 + k] ELSE Null
      BY <2>1, PathLemma DEF PathFacts
    <2>3. ASSUME NEW i \in 0..(p - 1) PROVE After(head)[i] = c[i + 1] /\ i + 1 \in 1..p
      <3>1. i \in 0..Bound /\ 1 + i <= n /\ 1 + i = i + 1 /\ i + 1 \in 1..p
        BY <2>2, BoundType
      <3> QED
        BY <3>1, <2>1, <2>2
    <2>4. p - 1 \in 0..(p - 1) /\ p - 1 \in 0..Bound /\ (p - 1) + 1 = p
      BY <2>2, BoundType
    <2>5. After(head)[p - 1] = tail
      BY <2>1, <2>3, <2>4
    <2>6. ASSUME NEW i \in 0..((p - 1) - 1) PROVE data[After(head)[i]] # NoValue
      <3>1. i \in 0..(p - 1) /\ i + 1 \in 1..(p - 1)
        OBVIOUS
      <3>2. data[c[i + 1]] \in Values
        BY <3>1, <2>q DEF Shape, DataInv
      <3> QED
        BY <3>1, <3>2, <2>3, NoValueAssumption
    <2>7. ASSUME next[tail] # Null
          PROVE  \E t \in Threads : pc[t] = "move_tail" /\ next[tail] = node[t]
      <3>1. p # n
        BY <2>7, <2>1 DEF Path
      <3>2. next[tail] = c[p + 1] /\ p + 1 = n
        BY <3>1, <2>1 DEF Path, EndsInv
      <3> QED
        BY <3>1, <3>2, <2>1 DEF EndsInv
    <2> QED
      BY <2>4, <2>5, <2>6, <2>7
  <1> QED
    BY <1>1, Invariance, PTL

\* No node is leaked, freed twice or used after it was freed.
THEOREM NodesHaveOneOwner == Spec => []SingleOwner
  <1>1. IndInv => SingleOwner
    <2> SUFFICES ASSUME IndInv PROVE SingleOwner
      OBVIOUS
    <2>1. \A t \in Threads : Holds(t) = IF Has(t) THEN {node[t]} ELSE {}
      BY DEF Holds, Has
    <2>2. live \subseteq Nodes /\ \A t \in Threads : node[t] \in Nodes \cup {Null}
      BY DEF IndInv, BaseInv, TypeOK
    <2>3. CASE Running
      <3>p. PICK n \in Nat \ {0} : \E c \in [1..n -> Nodes], p \in 1..n : Shape(c, n, p)
        BY <2>3 DEF IndInv, ListInv, List
      <3>q. PICK c \in [1..n -> Nodes], p \in 1..n : Shape(c, n, p)
        BY <3>p
      <3>1. /\ Path(c, n) /\ LiveInv(c, n) /\ head = c[1] /\ 1 \in 1..n /\ c[1] # Null
        BY <3>q, NodesAssumption DEF Shape, EndsInv
      <3>2. Reach(head) = {c[i] : i \in 1..n}
        BY <3>1, PathLemma DEF PathFacts
      <3>3. live = {c[i] : i \in 1..n} \cup UNION {Holds(t) : t \in Threads}
        <4>1. ASSUME NEW m \in Nodes
              PROVE  m \in live <=> m \in {c[i] : i \in 1..n} \cup UNION {Holds(t) : t \in Threads}
          <5>1. m \in UNION {Holds(t) : t \in Threads} <=> \E t \in Threads : Has(t) /\ m = node[t]
            BY <2>1
          <5>2. m \in {c[i] : i \in 1..n} <=> \E i \in 1..n : m = c[i]
            OBVIOUS
          <5> QED
            BY <5>1, <5>2, <3>1 DEF LiveInv
        <4>2. UNION {Holds(t) : t \in Threads} \subseteq Nodes
          BY <2>1, <2>2 DEF Has
        <4> QED
          BY <4>1, <4>2, <2>2
      <3>4. \A t \in Threads : Holds(t) # {} => node[t] \notin Reach(head)
        BY <2>1, <3>1, <3>2 DEF LiveInv
      <3>5. \A t \in Threads : \A s \in Threads \ {t} : Holds(t) \cap Holds(s) = {}
        BY <2>1, <3>1 DEF LiveInv
      <3> QED
        BY <3>1, <3>2, <3>3, <3>4, <3>5 DEF SingleOwner
    <2>4. CASE ~Running
      <3>1. \A t \in Threads : Holds(t) = {}
        BY <2>1, <2>4 DEF IndInv, DeathInv, AllDone, Has
      <3>2. UNION {Holds(t) : t \in Threads} = {}
        BY <3>1
      <3>3. CASE head = Null /\ live = {}
        BY <3>1, <3>2, <3>3 DEF SingleOwner
      <3>4. CASE ~(head = Null /\ live = {})
        <4>p. PICK n \in Nat \ {0} : \E c \in [1..n -> Nodes] : Dying(c, n)
          BY <2>4, <3>4 DEF IndInv, DeathInv
        <4>q. PICK c \in [1..n -> Nodes] : Dying(c, n)
          BY <4>p
        <4>1. Path(c, n) /\ head = c[1] /\ live = {c[i] : i \in 1..n} /\ 1 \in 1..n /\ c[1] # Null
          BY <4>q, NodesAssumption DEF Dying
        <4>2. Reach(head) = live
          BY <4>1, PathLemma DEF PathFacts
        <4> QED
          BY <3>1, <3>2, <4>1, <4>2 DEF SingleOwner
      <3> QED
        BY <3>3, <3>4
    <2> QED
      BY <2>3, <2>4
  <1> QED
    BY <1>1, Invariance, PTL

\* A consumer that pops does not pop the dummy.
LEMMA HeadBeforeTail == IndInv => NeverPopsDummy
  <1> SUFFICES ASSUME IndInv, NEW t \in Threads, pc[t] = "pop_head" PROVE head # tail
    BY DEF NeverPopsDummy
  <1>1. Running
    BY DEF IndInv, DeathInv, AllDone
  <1>p. PICK n \in Nat \ {0} : \E c \in [1..n -> Nodes], p \in 1..n : Shape(c, n, p)
    BY <1>1 DEF IndInv, ListInv, List
  <1>q. PICK c \in [1..n -> Nodes], p \in 1..n : Shape(c, n, p)
    BY <1>p
  <1>2. p > 1 /\ head = c[1] /\ tail = c[p] /\ 1 \in 1..n
    BY <1>q DEF Shape, SeenInv, EndsInv
  <1> QED
    BY <1>2, <1>q DEF Shape, Path

\* No consumer ever pops the dummy.
THEOREM PopsAreSafe == Spec => []NeverPopsDummy
  BY Invariance, HeadBeforeTail, PTL

\* Producers, consumers and the moves of values out of detached nodes never meet
\* at a node.
THEOREM NodesAreNotShared == Spec => []NoDataRace
  <1>1. IndInv => NoDataRace
    <2> SUFFICES ASSUME IndInv, NEW s \in Threads, NEW t \in Threads, s # t,
                        NEW m \in Writes(s), m \in Writes(t) \cup Reads(t)
                 PROVE  FALSE
      BY DEF NoDataRace
    <2>1. Running
      BY DEF IndInv, DeathInv, AllDone, Writes
    <2>p. PICK n \in Nat \ {0} : \E c \in [1..n -> Nodes], p \in 1..n : Shape(c, n, p)
      BY <2>1 DEF IndInv, ListInv, List
    <2>q. PICK c \in [1..n -> Nodes], p \in 1..n : Shape(c, n, p)
      BY <2>p
    <2>2. /\ pc[s] \in AtTail => pc[t] \notin AtTail
          /\ pc[s] \in AtHead => pc[t] \notin AtHead
      BY DEF IndInv, BaseInv, TypeOK
    <2>3. m \in {head, tail}
      BY DEF Writes
    <2>4. \E i \in 1..n : m = c[i]
      BY <2>3, <2>q DEF Shape, EndsInv
    <2>5. CASE m \in Reads(t)
      <3>1. pc[t] = "take_data" /\ m = node[t] /\ node[t] # Null
        BY <2>5, NodesAssumption DEF Reads, IndInv, BaseInv, CallInv
      <3> QED
        BY <3>1, <2>4, <2>q DEF Shape, LiveInv, Has
    <2>6. CASE m \in Writes(t)
      <3>1. \/ pc[s] = "pop_head" /\ m = head /\ m = tail
            \/ pc[t] = "pop_head" /\ m = head /\ m = tail
        BY <2>2, <2>6 DEF Writes, AtHead, AtTail
      <3> QED
        BY <3>1, HeadBeforeTail DEF NeverPopsDummy
    <2> QED
      BY <2>5, <2>6
  <1> QED
    BY <1>1, Invariance, PTL

\* The destruction of a node frees nothing else: the destructors do not recurse.
THEOREM DestructorsAreFlat == Spec => DestructionIsFlat
  <1>1. ASSUME NEW m, live \ live' \subseteq {m} PROVE Cardinality(live \ live') <= 1
    <2>1. IsFiniteSet({m}) /\ Cardinality({m}) = 1
      BY FS_Singleton
    <2> QED
      BY <1>1, <2>1, FS_Subset
  <1>2. IndInv /\ [Next]_vars => [Cardinality(live \ live') <= 1]_vars
    <2> SUFFICES ASSUME IndInv, Next PROVE \E m : live \ live' \subseteq {m}
      BY <1>1
    <2>1. ASSUME NEW t \in Threads, Free(t) PROVE live \ live' \subseteq {node[t]}
      <3>1. Running
        BY <2>1 DEF IndInv, DeathInv, AllDone, Free
      <3>p. PICK n \in Nat \ {0} : \E c \in [1..n -> Nodes], p \in 1..n : Shape(c, n, p)
        BY <3>1 DEF IndInv, ListInv, List
      <3>q. PICK c \in [1..n -> Nodes], p \in 1..n : Shape(c, n, p)
        BY <3>p
      <3>2. pc[t] = "free" /\ node[t] \in Nodes
        BY <2>1 DEF Free, IndInv, BaseInv, CallInv
      <3>3. Reach(node[t]) = {node[t]}
        BY <3>q, <3>2, NodesAssumption, OwnedAlone DEF Has
      <3> QED
        BY <2>1, <3>3 DEF Free, FreeFrom
    <2>2. ASSUME NEW t \in Threads, Step(t) \/ SpuriousWakeup(t), ~Free(t)
          PROVE  live \ live' = {}
      BY <2>2 DEF Step, Push, Pop, Call, NewNode, NewThrows, LockTail, StoreData, LinkNext,
                  MoveTail, UnlockTail, NotifyOne, LockHead, GetTail, Test, Sleep, Relock,
                  PopHead, UnlockHead, TakeData, Return, SpuriousWakeup, heapVars
    <2>3. CASE Collect
      BY <2>3 DEF Collect, heapVars
    <2>4. CASE ResetNext
      BY <2>4, ResetStep
    <2>5. CASE FreeHead
      BY <2>5, FreeHeadStep
    <2>6. Destroy \/ \E t \in Threads : Step(t) \/ SpuriousWakeup(t)
      BY DEF Next
    <2> QED
      BY <2>1, <2>2, <2>3, <2>4, <2>5, <2>6 DEF Destroy
  <1> QED
    BY <1>2, Invariance, PTL DEF DestructionIsFlat, Spec

-----------------------------------------------------------------------------
(***************************************************************************)
(* Why push and try_pop return: the two mutexes never hold each other up   *)
(* (StuckOnlyAtRest), some thread can step as long as one is anywhere but  *)
(* asleep, and each step brings a thread closer to the end of its call,    *)
(* except that it may be woken to look again.                              *)
(***************************************************************************)

\* How far a thread is from the end of its call.
Rank == [p \in Points |->
           CASE p = "idle" -> 10
             [] p \in {"new_node", "lock_head", "relock"} -> 9
             [] p \in {"lock_tail", "get_tail"} -> 8
             [] p \in {"store_data", "test"} -> 7
             [] p \in {"link_next", "pop_head", "sleep"} -> 6
             [] p \in {"move_tail", "unlock_head"} -> 5
             [] p \in {"unlock_tail", "take_data"} -> 4
             [] p \in {"notify_one", "free"} -> 3
             [] p \in {"return", "unwind"} -> 2
             [] p = "asleep" -> 1]

WokenUp(t) == pc[t] = "asleep" /\ pc'[t] = "relock" /\ todo'[t] = todo[t]

Descends(t) ==
  \/ todo'[t] = todo[t] /\ Rank[pc'[t]] < Rank[pc[t]]
  \/ Len(todo'[t]) = Len(todo[t]) - 1 /\ pc'[t] = "idle"

\* What is left of the queue to destroy.
Remaining == IF Running THEN Bound + 2 ELSE Len(nodes) + (IF head = Null THEN 0 ELSE 1)

\* Each step moves one thread closer to the end of its script, and leaves the
\* others where they are, except that it may wake one of them; a wakeup that no
\* push paid for is counted in spurious.  Each step of the destructor leaves less.
StepsDown ==
  /\ \A t \in Threads : \/ pc'[t] = pc[t] /\ todo'[t] = todo[t]
                        \/ WokenUp(t) \/ Descends(t)
  /\ \A t, s \in Threads : WokenUp(t) /\ WokenUp(s) => t = s
  /\ \/ spurious' = spurious + 1 /\ Remaining' = Remaining
     \/ /\ spurious' = spurious /\ Remaining' = Remaining
        /\ \E s \in Threads :
             Descends(s) /\ \A t \in Threads : WokenUp(t) => pc[s] = "notify_one"
     \/ /\ Remaining \in Nat /\ Remaining' \in 0..(Remaining - 1)
        /\ UNCHANGED <<pc, todo, spurious>>

CallsDescend == [][StepsDown]_vars

LEMMA RankOf ==
  /\ Rank["idle"] = 10 /\ Rank["new_node"] = 9 /\ Rank["lock_head"] = 9 /\ Rank["relock"] = 9
  /\ Rank["lock_tail"] = 8 /\ Rank["get_tail"] = 8 /\ Rank["store_data"] = 7 /\ Rank["test"] = 7
  /\ Rank["link_next"] = 6 /\ Rank["pop_head"] = 6 /\ Rank["sleep"] = 6
  /\ Rank["move_tail"] = 5 /\ Rank["unlock_head"] = 5 /\ Rank["unlock_tail"] = 4
  /\ Rank["take_data"] = 4 /\ Rank["notify_one"] = 3 /\ Rank["free"] = 3
  /\ Rank["return"] = 2 /\ Rank["unwind"] = 2 /\ Rank["asleep"] = 1
  BY DEF Rank, Points, AtHead, AtTail

\* The producer inside can step, so tail_mutex is free; then so can the consumer
\* inside, and head_mutex is free as well.
LEMMA NotStuck == IndInv => StuckOnlyAtRest
  <1> SUFFICES ASSUME IndInv PROVE StuckOnlyAtRest
    OBVIOUS
  <1>0. TypeOK /\ \A t \in Threads : pc[t] \in Points
    BY DEF IndInv, BaseInv, TypeOK
  <1>1. ASSUME \A t \in Threads : ~CanStep(t), NEW t \in Threads PROVE AtRest(t)
    <2>1. tail_mutex = Nobody
      BY <1>0, <1>1 DEF TypeOK, CanStep
    <2>2. head_mutex = Nobody
      BY <1>0, <1>1, <2>1 DEF TypeOK, CanStep
    <2>3. pc[t] \notin AtHead /\ pc[t] \notin AtTail
      BY <1>0, <2>1, <2>2, ThreadsAssumption DEF TypeOK
    <2>4. ~CanStep(t)
      BY <1>1
    <2>5. pc[t] \in {"idle", "asleep", "new_node"}
      BY <1>0, <2>1, <2>2, <2>3, <2>4 DEF CanStep, Points
    <2>6. pc[t] = "new_node" => t \notin Unlucky /\ live = Nodes
      BY <1>0, <2>4 DEF CanStep, TypeOK
    <2> QED
      BY <2>4, <2>5, <2>6 DEF CanStep, AtRest
  <1>2. ASSUME \A t \in Threads : AtRest(t), NEW t \in Threads PROVE ~CanStep(t)
    BY <1>2 DEF AtRest, CanStep, AtHead, AtTail
  <1>3. AllDone => CanDestroy \/ (head = Null /\ nodes = <<>>)
    BY DEF CanDestroy
  <1> QED
    BY <1>1, <1>2, <1>3 DEF StuckOnlyAtRest

\* A step of thread t that wakes nobody.
LEMMA OneDescends ==
  ASSUME IndInv, NEW t \in Threads, Descends(t), spurious' = spurious, Remaining' = Remaining,
         \A s \in Threads \ {t} : pc'[s] = pc[s] /\ todo'[s] = todo[s]
  PROVE  StepsDown
  <1>1. ~WokenUp(t)
    BY RankOf DEF WokenUp, Descends, IndInv, BaseInv, TypeOK
  <1>2. \A s \in Threads : ~WokenUp(s)
    BY <1>1 DEF WokenUp
  <1> QED
    BY <1>2 DEF StepsDown

LEMMA ThreadDescends ==
  ASSUME IndInv, IndInv', NEW t \in Threads, Step(t) \/ SpuriousWakeup(t) PROVE StepsDown
  <1> USE DEF Goto
  <1>0. /\ pc \in [Threads -> Points] /\ pc' \in [Threads -> Points]
        /\ todo \in [Threads -> Seq(Operations)] /\ spurious \in Nat
    BY BoundsAssumption DEF IndInv, BaseInv, TypeOK
  <1>r. Remaining' = Remaining
    <2>1. Running
      BY DoneForGood DEF IndInv, DeathInv
    <2>2. nodes' = nodes
      BY DEF Step, Push, Pop, Call, NewNode, NewThrows, LockTail, StoreData, LinkNext,
             MoveTail, UnlockTail, NotifyOne, LockHead, GetTail, Test, Sleep, Relock,
             PopHead, UnlockHead, TakeData, Free, Return, SpuriousWakeup
    <2> QED
      BY <2>1, <2>2 DEF Remaining, Running
  <1>1. CASE \/ Call(t) \/ NewNode(t) \/ NewThrows(t) \/ LockTail(t) \/ StoreData(t) \/ LinkNext(t)
             \/ MoveTail(t) \/ UnlockTail(t) \/ LockHead(t) \/ GetTail(t) \/ Test(t) \/ Sleep(t)
             \/ Relock(t) \/ PopHead(t) \/ UnlockHead(t) \/ TakeData(t) \/ Free(t)
    <2>1. /\ spurious' = spurious /\ todo' = todo
          /\ \A s \in Threads \ {t} : pc'[s] = pc[s]
      BY <1>0, <1>1
         DEF Call, NewNode, NewThrows, LockTail, StoreData, LinkNext, MoveTail, UnlockTail,
             LockHead, GetTail, Test, Sleep, Relock, PopHead, UnlockHead, TakeData, Free, callVars
    <2>2. Rank[pc'[t]] < Rank[pc[t]]
      BY <1>0, <1>1, RankOf
         DEF Call, NewNode, NewThrows, LockTail, StoreData, LinkNext, MoveTail, UnlockTail,
             LockHead, GetTail, Test, Sleep, Relock, PopHead, UnlockHead, TakeData, Free
    <2> QED
      BY <1>r, <2>1, <2>2, OneDescends DEF Descends
  <1>2. CASE Return(t)
    <2>1. /\ pc'[t] = "idle" /\ todo'[t] = Tail(todo[t]) /\ todo[t] # <<>> /\ spurious' = spurious
          /\ \A s \in Threads \ {t} : pc'[s] = pc[s] /\ todo'[s] = todo[s]
      BY <1>0, <1>2 DEF Return, IndInv, BaseInv, CallInv
    <2>2. Len(Tail(todo[t])) = Len(todo[t]) - 1
      BY <1>0, <2>1
    <2> QED
      BY <1>r, <2>1, <2>2, OneDescends DEF Descends
  <1>3. CASE NotifyOne(t)
    <2>1. pc[t] = "notify_one" /\ todo' = todo /\ spurious' = spurious
      BY <1>3 DEF NotifyOne, callVars
    <2>2. CASE Asleep = {}
      <3>1. pc' = [pc EXCEPT ![t] = "return"]
        BY <1>3, <2>2 DEF NotifyOne
      <3>2. Rank[pc'[t]] < Rank[pc[t]]
        BY <1>0, <2>1, <3>1, RankOf
      <3> QED
        BY <1>0, <1>r, <2>1, <3>1, <3>2, OneDescends DEF Descends
    <2>3. CASE Asleep # {}
      <3>1. PICK s \in Asleep : pc' = [pc EXCEPT ![t] = "return", ![s] = "relock"]
        BY <1>3, <2>3 DEF NotifyOne
      <3>2. /\ s \in Threads /\ pc[s] = "asleep" /\ s # t /\ pc'[t] = "return" /\ pc'[s] = "relock"
            /\ \A r \in Threads \ {s, t} : pc'[r] = pc[r]
        BY <1>0, <2>1, <3>1 DEF Asleep
      <3>3. Descends(t)
        BY <2>1, <3>2, RankOf DEF Descends
      <3>4. \A r \in Threads : WokenUp(r) => r = s
        BY <2>1, <3>2 DEF WokenUp
      <3>5. WokenUp(s)
        BY <2>1, <3>2 DEF WokenUp
      <3> QED
        BY <1>r, <2>1, <3>2, <3>3, <3>4, <3>5 DEF StepsDown
    <2> QED
      BY <2>2, <2>3
  <1>4. CASE SpuriousWakeup(t)
    <2>1. /\ pc[t] = "asleep" /\ pc'[t] = "relock" /\ todo' = todo /\ spurious' = spurious + 1
          /\ \A s \in Threads \ {t} : pc'[s] = pc[s]
      BY <1>0, <1>4 DEF SpuriousWakeup, callVars
    <2> QED
      BY <1>r, <2>1 DEF StepsDown, WokenUp
  <1> QED
    BY <1>1, <1>2, <1>3, <1>4 DEF Step, Push, Pop

\* Collect puts no more nodes into the vector than there are addresses, ResetNext
\* takes one out, FreeHead comes last.
LEMMA DestroyDescends == ASSUME IndInv, IndInv', Destroy PROVE StepsDown
  <1>1. UNCHANGED <<pc, todo, spurious>>
    BY DEF Destroy, Collect, ResetNext, FreeHead, callVars
  <1>w. ASSUME Remaining \in Nat /\ Remaining' \in 0..(Remaining - 1) PROVE StepsDown
    <2>1. \A t \in Threads : ~WokenUp(t)
      BY <1>1 DEF WokenUp
    <2> QED
      BY <1>1, <1>w, <2>1 DEF StepsDown
  <1>2. Bound \in Nat
    BY BoundType
  <1>3. ASSUME nodes' \in Seq(Nodes), Len(nodes') <= Bound, Running
        PROVE  Remaining \in Nat /\ Remaining' \in 0..(Remaining - 1)
    <2>1. ~Running'
      BY <1>3, NullIsNoNode DEF Running
    <2> QED
      BY <1>2, <1>3, <2>1 DEF Remaining
  <1>4. CASE Collect
    <2>1. Running
      BY <1>4 DEF Collect
    <2>p. PICK n \in Nat \ {0} : \E c \in [1..n -> Nodes], p \in 1..n : Shape(c, n, p)
      BY <2>1 DEF IndInv, ListInv, List
    <2>q. PICK c \in [1..n -> Nodes], p \in 1..n : Shape(c, n, p)
      BY <2>p
    <2>2. nodes' = c /\ n <= Bound
      BY <1>4, <2>q, Collected, PathLemma DEF Collect, Shape, EndsInv, PathFacts
    <2>3. nodes' \in Seq(Nodes) /\ Len(nodes') = n
      BY <2>2
    <2> QED
      BY <1>w, <1>3, <2>1, <2>2, <2>3
  <1>5. CASE ResetNext
    <2>1. /\ ~Running /\ nodes # <<>> /\ nodes' = SubSeq(nodes, 1, Len(nodes) - 1) /\ head' = head
      BY <1>5 DEF ResetNext, queueVars
    <2>2. nodes \in Seq(Nodes)
      BY <2>1 DEF IndInv, DeathInv, Dying
    <2>3. PICK l \in Nat : Len(nodes) = l + 1
      BY <2>1, <2>2
    <2>4. nodes' \in Seq(Nodes) /\ Len(nodes') = l
      BY <2>1, <2>2, <2>3
    <2>5. ~Running'
      BY <2>4, NullIsNoNode DEF Running
    <2>6. Remaining \in Nat /\ Remaining' \in 0..(Remaining - 1)
      BY <2>1, <2>3, <2>4, <2>5 DEF Remaining
    <2> QED
      BY <1>w, <2>6
  <1>6. CASE FreeHead
    <2>1. nodes = <<>> /\ nodes' = <<>> /\ head # Null /\ head' = Null
      BY <1>6 DEF FreeHead
    <2>2. Len(<<Null>>) = 1 /\ Len(<<>>) = 0
      OBVIOUS
    <2>3. ~Running /\ ~Running'
      BY <2>1, <2>2 DEF Running
    <2>4. Remaining = 1 /\ Remaining' = 0
      BY <2>1, <2>2, <2>3 DEF Remaining
    <2> QED
      BY <1>w, <2>4
  <1> QED
    BY <1>4, <1>5, <1>6 DEF Destroy

\* The two mutexes never hold each other up: a producer or a poller can always go on,
\* or another thread can, and the destructor goes to its end.
THEOREM NeverStuck == Spec => []StuckOnlyAtRest
  BY NotStuck, Invariance, PTL

\* Each step brings a thread, or the destructor, closer to its end; a consumer that is
\* woken and finds nothing was woken by a push or spuriously.
THEOREM EveryStepDescends == Spec => CallsDescend
  <1>1. IndInv /\ IndInv' /\ [Next]_vars => [StepsDown]_vars
    BY ThreadDescends, DestroyDescends DEF Next
  <1>2. Spec => [][StepsDown]_vars
    BY <1>1, Invariance, PTL DEF Spec
  <1> QED
    BY <1>2 DEF CallsDescend

-----------------------------------------------------------------------------
(***************************************************************************)
(* Refinement.  Each step of a thread answers one call of the FIFO queue,  *)
(* or none.                                                                *)
(***************************************************************************)
FifoCalls == [t \in Threads |-> CallOf(t)]

\* A step that moves only thread t changes only the call t is in.
LEMMA CallsOf ==
  ASSUME NEW t \in Threads, NEW e, CallOf(t)' = e,
         \A s \in Threads \ {t} : CallOf(s)' = CallOf(s)
  PROVE  FifoCalls' = [FifoCalls EXCEPT ![t] = e]
  BY DEF FifoCalls

\* The stages of a call.
IsAnswered(s) ==
  \/ pc[s] \in {"unlock_tail", "notify_one", "unlock_head", "take_data", "free", "return"}
  \/ pc[s] = "test" /\ Head(todo[s]) = "try_pop" /\ head = seen[s]

CallFact(s) ==
  CallOf(s) = IF pc[s] = "idle" THEN Fifo!NoCall
              ELSE IF pc[s] = "unwind"
              THEN [stage |-> "threw", op |-> Head(todo[s]), val |-> Answer(s)]
              ELSE IF IsAnswered(s) THEN Fifo!Answered(Head(todo[s]), Answer(s))
              ELSE Fifo!Pending(Head(todo[s]), val[s])

CallFacts == \A s \in Threads : CallFact(s)

\* A call is pending, answered or over by an exception, and has a value accordingly.
LEMMA CallStages == CallFacts
  BY DEF CallFacts, CallFact, CallOf, IsAnswered, Fifo!NoCall, Fifo!Answered, Fifo!Pending

\* In a step in which a thread does not enter or leave a call, and its call
\* neither throws, nor becomes answered, nor has another answer, it is in the
\* same call.
LEMMA CallSame ==
  ASSUME NEW s \in Threads, todo'[s] = todo[s],
         pc'[s] = "idle" <=> pc[s] = "idle",
         pc'[s] = "unwind" <=> pc[s] = "unwind",
         IsAnswered(s)' <=> IsAnswered(s),
         IsAnswered(s) \/ pc[s] = "unwind" => Answer(s)' = Answer(s),
         ~IsAnswered(s) => val'[s] = val[s]
  PROVE  CallOf(s)' = CallOf(s)
  <1>1. CallFacts /\ CallFacts'
    BY CallStages, PTL
  <1> QED
    BY <1>1 DEF CallFacts, CallFact

\* The call of a thread depends on where it is, on the calls it has to make, on
\* what it carries, and on a consumer's node and view of the list.
LEMMA CallKept ==
  ASSUME NEW s \in Threads, todo'[s] = todo[s], val'[s] = val[s], node'[s] = node[s],
         pc'[s] = pc[s] \/ (pc[s] = "asleep" /\ pc'[s] = "relock"),
         Has(s) => data'[node[s]] = data[node[s]],
         pc[s] = "test" => head' = head /\ seen'[s] = seen[s],
         CallInv(s)
  PROVE  CallOf(s)' = CallOf(s)
  <1>1. IsAnswered(s)' <=> IsAnswered(s)
    <2>1. CASE pc[s] = "test"
      BY <2>1 DEF IsAnswered
    <2>2. CASE pc[s] # "test"
      <3>1. pc'[s] # "test"
        BY <2>2
      <3> QED
        BY <2>2, <3>1 DEF IsAnswered
    <2> QED
      BY <2>1, <2>2
  <1>2. ASSUME IsAnswered(s) \/ pc[s] = "unwind" PROVE Answer(s)' = Answer(s)
    <2>1. CASE Head(todo[s]) = "push"
      BY <2>1 DEF Answer
    <2>2. CASE Head(todo[s]) # "push" /\ node[s] = Null
      BY <2>2 DEF Answer
    <2>3. CASE Head(todo[s]) # "push" /\ node[s] # Null
      <3>1. pc[s] \in {"unlock_head", "take_data", "free"} /\ pc'[s] = pc[s]
        BY <1>2, <2>3 DEF IsAnswered, CallInv, AtTail
      <3>2. data'[node[s]] = data[node[s]]
        BY <2>3, <3>1 DEF Has
      <3> QED
        BY <2>3, <3>1, <3>2 DEF Answer
    <2> QED
      BY <2>1, <2>2, <2>3
  <1> QED
    BY <1>1, <1>2, CallSame

\* A step of one thread leaves the calls of the others as they are.
LEMMA OthersKept ==
  ASSUME IndInv, Running, NEW t \in Threads, Step(t) \/ SpuriousWakeup(t)
  PROVE  \A s \in Threads \ {t} : CallOf(s)' = CallOf(s)
  <1> SUFFICES ASSUME NEW s \in Threads \ {t} PROVE CallOf(s)' = CallOf(s)
    OBVIOUS
  <1>p. PICK n \in Nat \ {0} : \E c \in [1..n -> Nodes], p \in 1..n : Shape(c, n, p)
    BY DEF IndInv, ListInv, List
  <1>q. PICK c \in [1..n -> Nodes], p \in 1..n : Shape(c, n, p)
    BY <1>p
  <1>t. /\ pc \in [Threads -> Points] /\ node \in [Threads -> Nodes \cup {Null}]
        /\ val \in [Threads -> Values \cup {NoValue}] /\ todo \in [Threads -> Seq(Operations)]
        /\ seen \in [Threads -> Nodes \cup {Null}] /\ tail \in Nodes
        /\ data \in [Nodes -> Values \cup {NoValue}]
        /\ CallInv(s) /\ CallInv(t)
    BY DEF IndInv, BaseInv, TypeOK
  <1>u. pc[t] \in AtHead => pc[s] \notin AtHead
    BY DEF IndInv, BaseInv, TypeOK
  <1> USE DEF Goto, heapVars, queueVars, callVars
  <1>1. todo'[s] = todo[s] /\ val'[s] = val[s] /\ node'[s] = node[s] /\ seen'[s] = seen[s]
    BY <1>t DEF Step, Push, Pop, Call, NewNode, NewThrows, LockTail, StoreData, LinkNext,
                MoveTail, UnlockTail, NotifyOne, LockHead, GetTail, Test, Sleep, Relock,
                PopHead, UnlockHead, TakeData, Free, Return, SpuriousWakeup
  <1>2. pc'[s] = pc[s] \/ (pc[s] = "asleep" /\ pc'[s] = "relock")
    <2>1. CASE NotifyOne(t)
      BY <2>1, <1>t DEF NotifyOne, Asleep
    <2>2. CASE ~NotifyOne(t)
      BY <2>2, <1>t DEF Step, Push, Pop, Call, NewNode, NewThrows, LockTail, StoreData, LinkNext,
                  MoveTail, UnlockTail, LockHead, GetTail, Test, Sleep, Relock,
                  PopHead, UnlockHead, TakeData, Free, Return, SpuriousWakeup
    <2> QED
      BY <2>1, <2>2
  <1>3. pc[s] = "test" => head' = head
    <2>1. CASE PopHead(t)
      BY <2>1, <1>u DEF PopHead, AtHead
    <2>2. CASE ~PopHead(t)
      BY <2>2 DEF Step, Push, Pop, Call, NewNode, NewThrows, LockTail, StoreData, LinkNext,
                  MoveTail, UnlockTail, NotifyOne, LockHead, GetTail, Test, Sleep, Relock,
                  UnlockHead, TakeData, Free, Return, SpuriousWakeup
    <2> QED
      BY <2>1, <2>2
  <1>4. ASSUME Has(s) PROVE data'[node[s]] = data[node[s]]
    <2>1. node[s] \in Nodes
      BY <1>4, <1>t DEF Has
    <2>2. CASE StoreData(t)
      <3>1. node[s] # tail
        BY <1>4, <1>q DEF Shape, LiveInv, EndsInv
      <3> QED
        BY <2>1, <2>2, <3>1, <1>t DEF StoreData
    <2>3. CASE Free(t)
      <3>1. Has(t) /\ node[t] \in Nodes
        BY <2>3, <1>t, NodesAssumption DEF Free, CallInv, Has
      <3>2. node[s] # node[t]
        BY <1>4, <3>1, <1>q DEF Shape, LiveInv
      <3>3. Reach(node[t]) = {node[t]}
        BY <3>1, <1>q, OwnedAlone
      <3> QED
        BY <2>1, <2>3, <3>2, <3>3 DEF Free, FreeFrom
    <2>4. CASE ~StoreData(t) /\ ~Free(t)
      BY <2>4 DEF Step, Push, Pop, Call, NewNode, NewThrows, LockTail, LinkNext,
                  MoveTail, UnlockTail, NotifyOne, LockHead, GetTail, Test, Sleep, Relock,
                  PopHead, UnlockHead, TakeData, Return, SpuriousWakeup
    <2> QED
      BY <2>2, <2>3, <2>4
  <1> QED
    BY <1>1, <1>2, <1>3, <1>4, <1>t, CallKept

\* What a thread sees of the list between get_tail and its test: a try_pop that
\* finds tail at head finds no value, a consumer that goes on finds one.
LEMMA ItemsSeen ==
  ASSUME IndInv, Running
  PROVE  /\ head = tail => Items = <<>>
         /\ \A t \in Threads : pc[t] = "pop_head" => Items # <<>> /\ Head(Items) = data[head]
  <1>p. PICK n \in Nat \ {0} : \E c \in [1..n -> Nodes], p \in 1..n : Shape(c, n, p)
    BY DEF IndInv, ListInv, List
  <1>q. PICK c \in [1..n -> Nodes], p \in 1..n : Shape(c, n, p)
    BY <1>p
  <1>1. Items = Contents(c, p) /\ head = c[1] /\ tail = c[p] /\ 1 \in 1..n
    BY <1>q, ItemsAre DEF ItemsFact, Shape, EndsInv
  <1>2. ASSUME head = tail PROVE Items = <<>>
    <2>1. p = 1
      BY <1>1, <1>2, <1>q DEF Shape, Path
    <2> QED
      BY <1>1, <2>1 DEF Contents
  <1>3. ASSUME NEW t \in Threads, pc[t] = "pop_head"
        PROVE  Items # <<>> /\ Head(Items) = data[head]
    <2>1. p > 1
      BY <1>3, <1>q DEF Shape, SeenInv
    <2>2. DOMAIN Items = 1..(p - 1) /\ 1 \in 1..(p - 1)
      BY <1>1, <2>1 DEF Contents
    <2>3. Items[1] = data[head]
      BY <1>1, <2>2 DEF Contents
    <2>4. Items # <<>>
      <3>1. DOMAIN <<>> = {}
        OBVIOUS
      <3> QED
        BY <2>2, <3>1
    <2>5. Items \in Seq(Values)
      <3>1. \A k \in 1..(p - 1) : data[c[k]] \in Values
        BY <1>q DEF Shape, DataInv
      <3>2. p - 1 \in Nat
        OBVIOUS
      <3> QED
        BY <1>1, <3>1, <3>2 DEF Contents
    <2> QED
      BY <2>3, <2>4, <2>5
  <1> QED
    BY <1>2, <1>3

\* The steps that answer no call.
Silent(t) ==
  \/ NewNode(t) \/ LockTail(t) \/ StoreData(t) \/ LinkNext(t) \/ UnlockTail(t) \/ NotifyOne(t)
  \/ LockHead(t) \/ Test(t) \/ Sleep(t) \/ Relock(t) \/ UnlockHead(t) \/ TakeData(t) \/ Free(t)
  \/ SpuriousWakeup(t)

\* They have no effect that a caller could see.
LEMMA SilentKept ==
  ASSUME BaseInv, NEW t \in Threads, Silent(t)
  PROVE  CallOf(t)' = CallOf(t)
  <1>t. /\ pc \in [Threads -> Points] /\ node \in [Threads -> Nodes \cup {Null}]
        /\ val \in [Threads -> Values \cup {NoValue}] /\ todo \in [Threads -> Seq(Operations)]
        /\ CallInv(t)
    BY DEF BaseInv, TypeOK
  <1> USE DEF Goto, heapVars, queueVars, callVars
  <1>1. ASSUME NewNode(t) \/ LockTail(t) \/ StoreData(t) \/ LinkNext(t) \/ LockHead(t)
                 \/ Sleep(t) \/ Relock(t) \/ SpuriousWakeup(t)
        PROVE  CallOf(t)' = CallOf(t)
    <2>1. /\ pc[t] \in {"new_node", "lock_tail", "store_data", "link_next", "lock_head", "sleep",
                        "asleep", "relock"}
          /\ pc'[t] \in {"lock_tail", "store_data", "link_next", "move_tail", "get_tail",
                         "asleep", "relock"}
          /\ todo' = todo /\ val' = val
      BY <1>1, <1>t DEF NewNode, LockTail, StoreData, LinkNext, LockHead, Sleep, Relock,
                        SpuriousWakeup
    <2>2. ~IsAnswered(t) /\ ~IsAnswered(t)'
      BY <2>1 DEF IsAnswered
    <2> QED
      BY <2>1, <2>2, CallSame
  <1>2. ASSUME UnlockTail(t) \/ NotifyOne(t) PROVE CallOf(t)' = CallOf(t)
    <2>1. pc[t] \in {"unlock_tail", "notify_one"} /\ pc'[t] \in {"notify_one", "return"}
      <3>1. CASE UnlockTail(t)
        BY <3>1, <1>t DEF UnlockTail
      <3>2. CASE NotifyOne(t)
        BY <3>2, <1>t DEF NotifyOne, Asleep
      <3> QED
        BY <1>2, <3>1, <3>2
    <2>2. todo' = todo
      BY <1>2 DEF UnlockTail, NotifyOne
    <2>3. IsAnswered(t) /\ IsAnswered(t)'
      BY <2>1 DEF IsAnswered
    <2>4. Head(todo[t]) = "push"
      BY <2>1, <1>t DEF CallInv, AtTail
    <2>5. Answer(t)' = Answer(t)
      BY <2>2, <2>4 DEF Answer
    <2> QED
      BY <2>1, <2>2, <2>3, <2>5, CallSame
  <1>3. ASSUME Test(t) PROVE CallOf(t)' = CallOf(t)
    <2>1. /\ pc[t] = "test" /\ node[t] = Null /\ Head(todo[t]) \in {"wait_and_pop", "try_pop"}
          /\ UNCHANGED <<todo, val, node, head, seen, data>>
      BY <1>3, <1>t DEF Test, CallInv, AtHead
    <2>2. pc'[t] = IF head # seen[t] THEN "pop_head"
                   ELSE IF Head(todo[t]) = "try_pop" THEN "unlock_head" ELSE "sleep"
      BY <1>3, <1>t DEF Test
    <2>3. IsAnswered(t)' <=> IsAnswered(t)
      BY <2>1, <2>2 DEF IsAnswered
    <2>4. Answer(t)' = Answer(t)
      BY <2>1 DEF Answer
    <2> QED
      BY <2>1, <2>2, <2>3, <2>4, CallSame
  <1>4. ASSUME UnlockHead(t) \/ TakeData(t) \/ Free(t) PROVE CallOf(t)' = CallOf(t)
    <2>1. /\ pc[t] \in {"unlock_head", "take_data", "free"}
          /\ pc'[t] \in {"return", "take_data", "free"}
          /\ todo' = todo
      BY <1>4, <1>t DEF UnlockHead, TakeData, Free
    <2>2. IsAnswered(t) /\ IsAnswered(t)'
      BY <2>1 DEF IsAnswered
    <2>3. Head(todo[t]) # "push"
      BY <2>1, <1>t DEF CallInv, AtHead
    <2>4. Answer(t)' = Answer(t)
      <3>1. CASE UnlockHead(t)
        BY <2>3, <3>1, <1>t DEF UnlockHead, Answer
      <3>2. CASE TakeData(t)
        BY <2>3, <3>2, <1>t, NodesAssumption DEF TakeData, Answer, CallInv
      <3>3. CASE Free(t)
        BY <2>3, <3>3, <1>t DEF Free, Answer
      <3> QED
        BY <1>4, <3>1, <3>2, <3>3
    <2> QED
      BY <2>1, <2>2, <2>4, CallSame
  <1> QED
    BY <1>1, <1>2, <1>3, <1>4 DEF Silent

FifoStep == [Fifo!Next \/ nodes' # nodes]_(Fifo!vars)

\* Each step of a thread that takes part in a call is a step of the FIFO queue.
LEMMA ThreadRefines ==
  ASSUME IndInv, BaseInv', Running, Running', NEW t \in Threads, Step(t) \/ SpuriousWakeup(t)
  PROVE  FifoStep
  <1>t. /\ pc \in [Threads -> Points] /\ node \in [Threads -> Nodes \cup {Null}]
        /\ val \in [Threads -> Values \cup {NoValue}] /\ todo \in [Threads -> Seq(Operations)]
        /\ seen \in [Threads -> Nodes \cup {Null}] /\ head \in Nodes
        /\ CallInv(t) /\ CallInv(t)'
    BY ListHead DEF IndInv, BaseInv, TypeOK
  <1>i. ItemsStep(t)
    BY StepList
  <1>c. ASSUME NEW e, CallOf(t)' = e PROVE FifoCalls' = [FifoCalls EXCEPT ![t] = e]
    BY <1>c, OthersKept, CallsOf
  <1>f. CallFacts /\ CallFacts' /\ FifoCalls[t] = CallOf(t)
    <2>1. CallFacts /\ CallFacts'
      BY CallStages, PTL
    <2> QED
      BY <2>1 DEF FifoCalls
  <1>g. ASSUME Fifo!Next PROVE FifoStep
    BY <1>g DEF FifoStep
  <1> USE DEF Goto, heapVars, queueVars, callVars, FifoCalls
  <1>1. ASSUME Silent(t) PROVE FifoStep
    <2>1. CallOf(t)' = CallOf(t)
      BY <1>1, SilentKept DEF IndInv
    <2>2. FifoCalls' = FifoCalls
      BY <2>1, OthersKept
    <2>3. pc[t] \notin {"move_tail", "pop_head"}
      BY <1>1 DEF Silent, NewNode, LockTail, StoreData, LinkNext, UnlockTail, NotifyOne, LockHead,
                  Test, Sleep, Relock, UnlockHead, TakeData, Free, SpuriousWakeup
    <2>4. Items' = Items
      BY <2>3, <1>i DEF ItemsStep
    <2> QED
      BY <2>2, <2>4 DEF FifoStep, Fifo!vars
  <1>2. ASSUME Call(t) PROVE FifoStep
    <2> DEFINE o == Head(todo[t])
               v == val'[t]
    <2>1. /\ pc[t] = "idle" /\ pc'[t] \in {"new_node", "lock_head"} /\ todo' = todo
          /\ o \in Operations /\ (o = "push" <=> pc'[t] = "new_node")
      BY <1>2, <1>t DEF Call
    <2>2. CallOf(t) = Fifo!NoCall /\ CallOf(t)' = Fifo!Pending(o, v)
      <3>1. ~IsAnswered(t)'
        BY <2>1 DEF IsAnswered
      <3> QED
        BY <2>1, <3>1, <1>f DEF CallFacts, CallFact
    <2>3. (o = "push" => v \in Values) /\ (o # "push" => v = NoValue)
      BY <2>1, <1>t DEF CallInv
    <2>4. Items' = Items
      BY <2>1, <1>i DEF ItemsStep
    <2>5. FifoCalls' = [FifoCalls EXCEPT ![t] = Fifo!Pending(o, v)]
      BY <2>2, <1>c
    <2>6. Fifo!Invoke(t, o, v)
      BY <2>2, <2>4, <2>5, <1>f DEF Fifo!Invoke
    <2>7. Fifo!Next
      BY <2>1, <2>3, <2>6 DEF Fifo!Next, Operations
    <2> QED
      BY <2>7, <1>g
  <1>3. ASSUME NewThrows(t) PROVE FifoStep
    <2>1. /\ pc[t] = "new_node" /\ pc'[t] = "unwind" /\ todo' = todo /\ Head(todo[t]) = "push"
      BY <1>3, <1>t DEF NewThrows, CallInv
    <2>2. /\ CallOf(t) = Fifo!Pending("push", val[t])
          /\ CallOf(t)' = Fifo!Threw("push")
      <3>1. ~IsAnswered(t) /\ Answer(t)' = NoValue
        BY <2>1 DEF IsAnswered, Answer
      <3> QED
        BY <2>1, <3>1, <1>f DEF CallFacts, CallFact, Fifo!Threw
    <2>3. Items' = Items
      BY <2>1, <1>i DEF ItemsStep
    <2>4. FifoCalls' = [FifoCalls EXCEPT ![t] = Fifo!Threw("push")]
      BY <2>2, <1>c
    <2>5. Fifo!Reject(t)
      BY <2>2, <2>3, <2>4, <1>f DEF Fifo!Reject, Fifo!Pending
    <2>6. Fifo!Next
      BY <2>5 DEF Fifo!Next, Fifo!Answer
    <2> QED
      BY <2>6, <1>g
  <1>4. ASSUME MoveTail(t) PROVE FifoStep
    <2>1. /\ pc[t] = "move_tail" /\ pc'[t] = "unlock_tail" /\ todo' = todo
          /\ Head(todo[t]) = "push"
      BY <1>4, <1>t DEF MoveTail, CallInv, AtTail
    <2>2. /\ CallOf(t) = Fifo!Pending("push", val[t])
          /\ CallOf(t)' = Fifo!Answered("push", NoValue)
      <3>1. ~IsAnswered(t) /\ IsAnswered(t)' /\ Answer(t)' = NoValue
        BY <2>1 DEF IsAnswered, Answer
      <3> QED
        BY <2>1, <3>1, <1>f DEF CallFacts, CallFact
    <2>3. Items' = Append(Items, val[t])
      BY <2>1, <1>i DEF ItemsStep
    <2>4. FifoCalls' = [FifoCalls EXCEPT ![t] = Fifo!Answered("push", NoValue)]
      BY <2>2, <1>c
    <2>5. Fifo!Enqueue(t)
      BY <2>2, <2>3, <2>4, <1>f DEF Fifo!Enqueue, Fifo!Pending
    <2>6. Fifo!Next
      BY <2>5 DEF Fifo!Next, Fifo!Answer
    <2> QED
      BY <2>6, <1>g
  <1>5. ASSUME GetTail(t) PROVE FifoStep
    <2> DEFINE o == Head(todo[t])
    <2>1. /\ pc[t] = "get_tail" /\ pc'[t] = "test" /\ UNCHANGED <<todo, val, head, node>>
          /\ seen'[t] = tail /\ o \in {"wait_and_pop", "try_pop"}
          /\ val[t] = NoValue /\ node[t] = Null
      BY <1>5, <1>t DEF GetTail, CallInv, AtHead
    <2>2. Items' = Items
      BY <2>1, <1>i DEF ItemsStep
    <2>3. ~IsAnswered(t)
      BY <2>1 DEF IsAnswered
    <2>4. CASE o = "try_pop" /\ head = tail
      <3>1. IsAnswered(t)' /\ Answer(t)' = NoValue
        BY <2>1, <2>4 DEF IsAnswered, Answer
      <3>2. /\ CallOf(t) = Fifo!Pending("try_pop", NoValue)
            /\ CallOf(t)' = Fifo!Answered("try_pop", NoValue)
        BY <2>1, <2>3, <2>4, <3>1, <1>f DEF CallFacts, CallFact
      <3>3. FifoCalls' = [FifoCalls EXCEPT ![t] = Fifo!Answered("try_pop", NoValue)]
        BY <3>2, <1>c
      <3>4. Items = <<>>
        BY <2>4, ItemsSeen
      <3>5. Fifo!AnswerEmpty(t)
        BY <2>2, <3>2, <3>3, <3>4, <1>f DEF Fifo!AnswerEmpty
      <3>6. Fifo!Next
        BY <3>5 DEF Fifo!Next, Fifo!Answer
      <3> QED
        BY <3>6, <1>g
    <2>5. CASE ~(o = "try_pop" /\ head = tail)
      <3>1. ~IsAnswered(t)'
        BY <2>1, <2>5 DEF IsAnswered
      <3>2. CallOf(t)' = CallOf(t)
        BY <2>1, <2>3, <3>1, CallSame
      <3>3. FifoCalls' = FifoCalls
        BY <3>2, OthersKept
      <3> QED
        BY <2>2, <3>3 DEF FifoStep, Fifo!vars
    <2> QED
      BY <2>4, <2>5
  <1>6. ASSUME PopHead(t) PROVE FifoStep
    <2> DEFINE o == Head(todo[t])
    <2>1. /\ pc[t] = "pop_head" /\ pc'[t] = "unlock_head" /\ UNCHANGED <<todo, data>>
          /\ node'[t] = head /\ o \in {"wait_and_pop", "try_pop"} /\ val[t] = NoValue
      BY <1>6, <1>t DEF PopHead, CallInv, AtHead
    <2>2. Items # <<>> /\ Head(Items) = data[head]
      BY <2>1, ItemsSeen
    <2>3. /\ CallOf(t) = Fifo!Pending(o, NoValue)
          /\ CallOf(t)' = Fifo!Answered(o, Head(Items))
      <3>1. ~IsAnswered(t) /\ IsAnswered(t)'
        BY <2>1 DEF IsAnswered
      <3>2. Answer(t)' = data[head]
        BY <2>1, <1>t, NodesAssumption DEF Answer
      <3> QED
        BY <2>1, <2>2, <3>1, <3>2, <1>f DEF CallFacts, CallFact
    <2>4. Items' = Tail(Items)
      BY <2>1, <1>i DEF ItemsStep
    <2>5. FifoCalls' = [FifoCalls EXCEPT ![t] = Fifo!Answered(o, Head(Items))]
      BY <2>3, <1>c
    <2>6. Fifo!Dequeue(t)
      BY <2>1, <2>2, <2>3, <2>4, <2>5, <1>f DEF Fifo!Dequeue
    <2>7. Fifo!Next
      BY <2>6 DEF Fifo!Next, Fifo!Answer
    <2> QED
      BY <2>7, <1>g
  <1>7. ASSUME Return(t) PROVE FifoStep
    <2>1. pc[t] \in {"return", "unwind"} /\ pc'[t] = "idle"
      BY <1>7, <1>t DEF Return
    <2>2. CallOf(t).stage \in {"answered", "threw"} /\ CallOf(t)' = Fifo!NoCall
      <3>1. IsAnswered(t) \/ pc[t] = "unwind"
        BY <2>1 DEF IsAnswered
      <3> QED
        BY <2>1, <3>1, <1>f DEF CallFacts, CallFact, Fifo!Answered
    <2>3. Items' = Items
      BY <2>1, <1>i DEF ItemsStep
    <2>4. FifoCalls' = [FifoCalls EXCEPT ![t] = Fifo!NoCall]
      BY <2>2, <1>c
    <2>5. Fifo!Return(t)
      BY <2>2, <2>3, <2>4, <1>f DEF Fifo!Return
    <2>6. Fifo!Next
      BY <2>5 DEF Fifo!Next
    <2> QED
      BY <2>6, <1>g
  <1> QED
    BY <1>1, <1>2, <1>3, <1>4, <1>5, <1>6, <1>7 DEF Step, Push, Pop, Silent

\* Each step maps to a step of the FIFO queue, to a stutter, or to the destructor.
LEMMA StepRefines == IndInv /\ IndInv' /\ [Next]_vars => FifoStep
  <1> SUFFICES ASSUME IndInv, IndInv', [Next]_vars PROVE FifoStep
    OBVIOUS
  <1>1. CASE UNCHANGED vars
    <2>1. UNCHANGED <<data, next, head, tail, pc, todo, val, node, seen, nodes>>
      BY <1>1 DEF vars, heapVars, queueVars, callVars
    <2>2. ASSUME NEW s \in Threads PROVE CallOf(s)' = CallOf(s)
      BY <2>1, CallKept DEF IndInv, BaseInv
    <2>3. FifoCalls' = FifoCalls
      BY <2>2 DEF FifoCalls
    <2>4. Items' = Items
      BY <2>1 DEF Items, Length, After, Running
    <2> QED
      BY <2>3, <2>4 DEF FifoStep, Fifo!vars, FifoCalls
  <1>2. ASSUME NEW t \in Threads, Step(t) \/ SpuriousWakeup(t) PROVE FifoStep
    <2>1. nodes' = nodes
      BY <1>2 DEF Step, Push, Pop, Call, NewNode, NewThrows, LockTail, StoreData, LinkNext,
                  MoveTail, UnlockTail, NotifyOne, LockHead, GetTail, Test, Sleep, Relock,
                  PopHead, UnlockHead, TakeData, Free, Return, SpuriousWakeup
    <2>2. Running /\ Running'
      BY <1>2, <2>1, DoneForGood DEF IndInv, DeathInv, Running
    <2> QED
      BY <1>2, <2>2, ThreadRefines DEF IndInv
  \* The destructor is none of the FIFO queue's business.
  <1>3. CASE Collect \/ ResetNext
    <2>1. nodes' # nodes
      <3>1. CASE Collect
        <4>1. Running /\ \E n \in Nat \ {0} : \E c \in [1..n -> Nodes] : Dying(c, n)'
          BY <3>1, CollectStep DEF Collect
        <4> QED
          BY <4>1, NullIsNoNode DEF Dying, Running
      <3>2. CASE ResetNext
        <4>1. nodes # <<>> /\ nodes' = SubSeq(nodes, 1, Len(nodes) - 1)
          BY <3>2 DEF ResetNext
        <4>2. nodes \in Seq(Nodes \cup {Null})
          BY DEF IndInv, BaseInv, TypeOK
        <4>3. Len(nodes) \in Nat \ {0}
          BY <4>1, <4>2
        <4>4. PICK k : k = Len(nodes) - 1
          OBVIOUS
        <4>5. k \in Nat /\ k <= Len(nodes) /\ nodes' = SubSeq(nodes, 1, k)
          BY <4>1, <4>3, <4>4
        <4>6. Len(nodes') = k
          BY <4>2, <4>5
        <4> QED
          BY <4>3, <4>4, <4>6
      <3> QED
        BY <1>3, <3>1, <3>2
    <2> QED
      BY <2>1 DEF FifoStep
  <1>4. CASE FreeHead
    <2>1. nodes = <<>> /\ nodes' = nodes /\ pc' = pc
      BY <1>4 DEF FreeHead
    <2>2. Len(<<Null>>) = 1 /\ Len(<<>>) = 0
      OBVIOUS
    <2>3. ~Running /\ ~Running'
      BY <2>1, <2>2 DEF Running
    <2>4. \A s \in Threads : pc[s] = "idle"
      BY <2>3 DEF IndInv, DeathInv, AllDone
    <2>5. \A s \in Threads : CallOf(s)' = CallOf(s)
      BY <2>1, <2>4 DEF CallOf
    <2>6. Items' = Items
      BY <2>3 DEF Items
    <2> QED
      BY <2>5, <2>6 DEF FifoStep, Fifo!vars
  <1> QED
    BY <1>1, <1>2, <1>3, <1>4 DEF Next, Destroy

\* The two-lock queue is a linearizable FIFO queue for as long as it exists: a
\* push takes effect when tail moves, a pop at pop_head, and an empty answer
\* when get_tail reads tail.
THEOREM Refinement == Spec => Linearizable
  <1>1. Init => Fifo!Init
    <2> SUFFICES ASSUME Init PROVE Fifo!Init
      OBVIOUS
    <2>1. IndInv /\ Running /\ head = tail
      BY InitIndInv DEF Init, Running
    <2>2. Items = <<>>
      BY <2>1, ItemsSeen
    <2>3. \A s \in Threads : CallOf(s) = Fifo!NoCall
      BY DEF Init, CallOf, Fifo!NoCall
    <2> QED
      BY <2>2, <2>3 DEF Fifo!Init
  <1>2. Spec => [][Fifo!Next \/ nodes' # nodes]_(Fifo!vars)
    BY Invariance, StepRefines, PTL DEF Spec, FifoStep
  <1> QED
    BY <1>1, <1>2, PTL DEF Linearizable, Spec
=============================================================================

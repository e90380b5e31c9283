----------------------- MODULE OptimizedThreadSafeQueue -----------------------
(***************************************************************************)
(* src/src/OptimizedThreadSafeQueue.h: a singly linked list whose last     *)
(* node is a dummy; consumers lock its head, producers its tail.           *)
(*                                                                         *)
(* The heap is modelled: a node is an address, `new` may hand out one that *)
(* was freed, unique_ptr ownership is what Owned says.  push notifies      *)
(* without holding head_mutex, so the test of the predicate and falling    *)
(* asleep are two steps.  The destructor runs when every script is over.   *)
(***************************************************************************)
EXTENDS Integers, Sequences, FiniteSets

CONSTANTS Threads,      \* the threads that share the queue
          Nobody,       \* the owner of a free mutex
          NoValue,      \* no value
          Nodes,        \* bound: the addresses of the heap
          Null,         \* the null pointer
          Scripts,      \* the call sequences a thread may run
          Unlucky,      \* the threads whose allocations may fail
          MaxCalls,     \* bound: the length of the longest script
          MaxSpurious   \* bound: spurious wakeups in one behaviour

Operations == {"push", "wait_and_pop", "try_pop"}

ASSUME ThreadsAssumption == IsFiniteSet(Threads) /\ Nobody \notin Threads
ASSUME NodesAssumption == IsFiniteSet(Nodes) /\ Nodes # {} /\ Null \notin Nodes
ASSUME ScriptsAssumption ==
  \A s \in Scripts : s \in Seq(Operations) /\ Len(s) <= MaxCalls
ASSUME BoundsAssumption == MaxCalls \in Nat /\ MaxSpurious \in Nat

VARIABLES live,         \* the addresses in use
          data, next,   \* the members of each node
          head, tail,   \* the members of the queue
          head_mutex, tail_mutex,
          pc, todo, val,   \* as in SimpleThreadSafeQueue
          node,         \* p of a push until it is moved, old_head of a pop
          seen,         \* what get_tail returned to a consumer
          spurious,     \* spurious wakeups so far
          nodes         \* the destructor's vector, <<Null>> before it runs

heapVars  == <<live, data, next>>
queueVars == <<head, tail, head_mutex, tail_mutex>>
callVars  == <<todo, val, node, seen>>
vars == <<heapVars, queueVars, callVars, pc, spurious, nodes>>

Values == Threads \X (1..MaxCalls)

ASSUME NoValueAssumption == NoValue \notin Values

AtHead == {"get_tail", "test", "sleep", "pop_head", "unlock_head"}  \* head_mutex held
AtTail == {"store_data", "link_next", "move_tail", "unlock_tail"}   \* tail_mutex held
Points == AtHead \cup AtTail \cup
          {"idle", "new_node", "lock_tail", "notify_one", "lock_head", "asleep",
           "relock", "take_data", "free", "return", "unwind"}

Asleep == {t \in Threads : pc[t] = "asleep"}
Goto(t, point) == pc' = [pc EXCEPT ![t] = point]
Running == nodes = <<Null>>

\* The k-th node after n, and all nodes that n owns: itself and those after it.
After(n) ==
  LET f[k \in 0..Cardinality(Nodes)] ==
        IF k = 0 THEN n ELSE IF f[k - 1] = Null THEN Null ELSE next[f[k - 1]]
  IN f
Reach(n) == {After(n)[k] : k \in 0..Cardinality(Nodes)} \ {Null}

-----------------------------------------------------------------------------
\* The constructor: one dummy node.
Init ==
  /\ \E n \in Nodes : live = {n} /\ head = n /\ tail = n
  /\ data = [n \in Nodes |-> NoValue]
  /\ next = [n \in Nodes |-> Null]
  /\ head_mutex = Nobody /\ tail_mutex = Nobody
  /\ pc = [t \in Threads |-> "idle"]
  /\ todo \in [Threads -> Scripts]
  /\ val = [t \in Threads |-> NoValue]
  /\ node = [t \in Threads |-> Null]
  /\ seen = [t \in Threads |-> Null]
  /\ spurious = 0
  /\ nodes = <<Null>>

\* The client makes its next call.
Call(t) ==
  /\ pc[t] = "idle"
  /\ todo[t] # <<>>
  /\ IF Head(todo[t]) = "push"
       THEN val' = [val EXCEPT ![t] = <<t, Len(todo[t])>>] /\ Goto(t, "new_node")
       ELSE Goto(t, "lock_head") /\ UNCHANGED val
  /\ UNCHANGED <<heapVars, queueVars, todo, node, seen, spurious, nodes>>

(* push *)

NewNode(t) ==
  /\ pc[t] = "new_node"
  /\ \E n \in Nodes \ live :
       /\ live' = live \cup {n}
       /\ node' = [node EXCEPT ![t] = n]
  /\ Goto(t, "lock_tail")
  /\ UNCHANGED <<data, next, queueVars, todo, val, seen, spurious, nodes>>

\* Faulty variant: push catches the exception and returns.
NewThrows_Swallowed(t) ==
  /\ pc[t] = "new_node"
  /\ t \in Unlucky
  /\ Goto(t, "return")
  /\ UNCHANGED <<heapVars, queueVars, callVars, spurious, nodes>>

\* new throws bad_alloc: the queue is untouched, the exception leaves push.
NewThrows(t) ==
  /\ pc[t] = "new_node"
  /\ t \in Unlucky
  /\ Goto(t, "unwind")
  /\ UNCHANGED <<heapVars, queueVars, callVars, spurious, nodes>>

\* Faulty variant: producers do not exclude each other.
LockTail_Unguarded(t) ==
  /\ pc[t] = "lock_tail"
  /\ tail_mutex' = t
  /\ Goto(t, "store_data")
  /\ UNCHANGED <<heapVars, head, tail, head_mutex, callVars, spurious, nodes>>

LockTail(t) ==
  /\ pc[t] = "lock_tail"
  /\ tail_mutex = Nobody
  /\ tail_mutex' = t
  /\ Goto(t, "store_data")
  /\ UNCHANGED <<heapVars, head, tail, head_mutex, callVars, spurious, nodes>>

\* The value goes into the dummy.
StoreData(t) ==
  /\ pc[t] = "store_data"
  /\ data' = [data EXCEPT ![tail] = val[t]]
  /\ Goto(t, "link_next")
  /\ UNCHANGED <<live, next, queueVars, callVars, spurious, nodes>>

\* The list takes over the new node; the raw pointer to it stays.
LinkNext(t) ==
  /\ pc[t] = "link_next"
  /\ next' = [next EXCEPT ![tail] = node[t]]
  /\ Goto(t, "move_tail")
  /\ UNCHANGED <<live, data, queueVars, callVars, spurious, nodes>>

MoveTail(t) ==
  /\ pc[t] = "move_tail"
  /\ tail' = node[t]
  /\ node' = [node EXCEPT ![t] = Null]
  /\ Goto(t, "unlock_tail")
  /\ UNCHANGED <<heapVars, head, head_mutex, tail_mutex, todo, val, seen, spurious, nodes>>

UnlockTail(t) ==
  /\ pc[t] = "unlock_tail"
  /\ tail_mutex' = Nobody
  /\ Goto(t, "notify_one")
  /\ UNCHANGED <<heapVars, head, tail, head_mutex, callVars, spurious, nodes>>

\* No mutex is held: a consumer may be between its test and its sleep.
NotifyOne(t) ==
  /\ pc[t] = "notify_one"
  /\ IF Asleep = {} THEN Goto(t, "return")
     ELSE \E s \in Asleep : pc' = [pc EXCEPT ![t] = "return", ![s] = "relock"]
  /\ UNCHANGED <<heapVars, queueVars, callVars, spurious, nodes>>

(* try_pop and wait_and_pop *)

LockHead(t) ==
  /\ pc[t] = "lock_head"
  /\ head_mutex = Nobody
  /\ head_mutex' = t
  /\ Goto(t, "get_tail")
  /\ UNCHANGED <<heapVars, head, tail, tail_mutex, callVars, spurious, nodes>>

\* get_tail locks tail_mutex only to read tail.
GetTail(t) ==
  /\ pc[t] = "get_tail"
  /\ tail_mutex = Nobody
  /\ seen' = [seen EXCEPT ![t] = tail]
  /\ Goto(t, "test")
  /\ UNCHANGED <<heapVars, queueVars, todo, val, node, spurious, nodes>>

\* head.get() is compared with what get_tail returned.
Test(t) ==
  /\ pc[t] = "test"
  /\ Goto(t, IF head # seen[t] THEN "pop_head"
             ELSE IF Head(todo[t]) = "try_pop" THEN "unlock_head" ELSE "sleep")
  /\ UNCHANGED <<heapVars, queueVars, callVars, spurious, nodes>>

\* Faulty variant: the consumer sleeps with head_mutex locked.
Sleep_KeepsMutex(t) ==
  /\ pc[t] = "sleep"
  /\ Goto(t, "asleep")
  /\ UNCHANGED <<heapVars, queueVars, callVars, spurious, nodes>>

\* The wait: release head_mutex and sleep, atomically.
Sleep(t) ==
  /\ pc[t] = "sleep"
  /\ head_mutex' = Nobody
  /\ Goto(t, "asleep")
  /\ UNCHANGED <<heapVars, head, tail, tail_mutex, callVars, spurious, nodes>>

SpuriousWakeup(t) ==
  /\ pc[t] = "asleep"
  /\ spurious < MaxSpurious
  /\ spurious' = spurious + 1
  /\ Goto(t, "relock")
  /\ UNCHANGED <<heapVars, queueVars, callVars, nodes>>

\* Faulty variant: the predicate is evaluated with the tail read before the sleep.
Relock_StaleTail(t) ==
  /\ pc[t] = "relock"
  /\ head_mutex = Nobody
  /\ head_mutex' = t
  /\ Goto(t, "test")
  /\ UNCHANGED <<heapVars, head, tail, tail_mutex, callVars, spurious, nodes>>

Relock(t) ==
  /\ pc[t] = "relock"
  /\ head_mutex = Nobody
  /\ head_mutex' = t
  /\ Goto(t, "get_tail")
  /\ UNCHANGED <<heapVars, head, tail, tail_mutex, callVars, spurious, nodes>>

\* The first node leaves the list and belongs to the caller.
PopHead(t) ==
  /\ pc[t] = "pop_head"
  /\ node' = [node EXCEPT ![t] = head]
  /\ head' = next[head]
  /\ next' = [next EXCEPT ![head] = Null]
  /\ Goto(t, "unlock_head")
  /\ UNCHANGED <<live, data, tail, head_mutex, tail_mutex, todo, val, seen, spurious, nodes>>

UnlockHead(t) ==
  /\ pc[t] = "unlock_head"
  /\ head_mutex' = Nobody
  /\ seen' = [seen EXCEPT ![t] = Null]
  /\ Goto(t, IF node[t] = Null THEN "return" ELSE "take_data")
  /\ UNCHANGED <<heapVars, head, tail, tail_mutex, todo, val, node, spurious, nodes>>

\* The value is moved out of the detached node, without any mutex.
TakeData(t) ==
  /\ pc[t] = "take_data"
  /\ val' = [val EXCEPT ![t] = data[node[t]]]
  /\ Goto(t, "free")
  /\ UNCHANGED <<heapVars, queueVars, todo, node, seen, spurious, nodes>>

\* What ~unique_ptr of n does to the heap: n and all it owns are freed.
FreeFrom(n) ==
  /\ live' = live \ Reach(n)
  /\ data' = [m \in Nodes |-> IF m \in Reach(n) THEN NoValue ELSE data[m]]

\* Faulty variant: release() instead of the destructor of old_head.
Free_Released(t) ==
  /\ pc[t] = "free"
  /\ node' = [node EXCEPT ![t] = Null]
  /\ Goto(t, "return")
  /\ UNCHANGED <<heapVars, queueVars, todo, val, seen, spurious, nodes>>

Free(t) ==
  /\ pc[t] = "free"
  /\ FreeFrom(node[t])
  /\ next' = [m \in Nodes |-> IF m \in Reach(node[t]) THEN Null ELSE next[m]]
  /\ node' = [node EXCEPT ![t] = Null]
  /\ Goto(t, "return")
  /\ UNCHANGED <<queueVars, todo, val, seen, spurious, nodes>>

\* The call is over: it returns, or its exception reaches the client.
Return(t) ==
  /\ pc[t] \in {"return", "unwind"}
  /\ todo' = [todo EXCEPT ![t] = Tail(@)]
  /\ val' = [val EXCEPT ![t] = NoValue]
  /\ Goto(t, "idle")
  /\ UNCHANGED <<heapVars, queueVars, node, seen, spurious, nodes>>

(* ~optimized_thread_safe_queue, when nobody uses the queue any more *)

AllDone == \A t \in Threads : pc[t] = "idle" /\ todo[t] = <<>>

\* The loop over the list collects its nodes.
Collect ==
  /\ AllDone
  /\ Running
  /\ nodes' = [k \in 1..Cardinality(Reach(head)) |-> After(head)[k - 1]]
  /\ UNCHANGED <<heapVars, queueVars, callVars, pc, spurious>>

\* Faulty variant: the vector is traversed from its front.
ResetNext_FromFront ==
  /\ ~Running
  /\ nodes # <<>>
  /\ LET n == Head(nodes) IN
       /\ IF next[n] = Null THEN UNCHANGED <<live, data>> ELSE FreeFrom(next[n])
       /\ next' = [m \in Nodes |-> IF m \in Reach(n) THEN Null ELSE next[m]]
  /\ nodes' = Tail(nodes)
  /\ UNCHANGED <<queueVars, callVars, pc, spurious>>

\* One iteration from the back: the node after n goes, and nothing but it.
ResetNext ==
  /\ ~Running
  /\ nodes # <<>>
  /\ LET n == nodes[Len(nodes)] IN
       /\ IF next[n] = Null THEN UNCHANGED <<live, data>> ELSE FreeFrom(next[n])
       /\ next' = [m \in Nodes |-> IF m \in Reach(n) THEN Null ELSE next[m]]
  /\ nodes' = SubSeq(nodes, 1, Len(nodes) - 1)
  /\ UNCHANGED <<queueVars, callVars, pc, spurious>>

\* The destructor of the member head.
FreeHead ==
  /\ nodes = <<>>
  /\ head # Null
  /\ FreeFrom(head)
  /\ next' = [m \in Nodes |-> IF m \in Reach(head) THEN Null ELSE next[m]]
  /\ head' = Null
  /\ UNCHANGED <<tail, head_mutex, tail_mutex, callVars, pc, spurious, nodes>>

Push(t) ==
  \/ NewNode(t) \/ NewThrows(t) \/ LockTail(t) \/ StoreData(t) \/ LinkNext(t)
  \/ MoveTail(t) \/ UnlockTail(t) \/ NotifyOne(t)

Pop(t) ==
  \/ LockHead(t) \/ GetTail(t) \/ Test(t) \/ Sleep(t) \/ Relock(t)
  \/ PopHead(t) \/ UnlockHead(t) \/ TakeData(t) \/ Free(t)

Step(t) == Call(t) \/ Push(t) \/ Pop(t) \/ Return(t)

Destroy == Collect \/ ResetNext \/ FreeHead

Next == Destroy \/ \E t \in Threads : Step(t) \/ SpuriousWakeup(t)

Spec == Init /\ [][Next]_vars

\* Every runnable thread is eventually scheduled; spurious wakeups are not owed.
FairSpec == Spec /\ WF_vars(Destroy) /\ \A t \in Threads : WF_vars(Step(t))
-----------------------------------------------------------------------------
(***************************************************************************)
(* Properties                                                              *)
(***************************************************************************)

\* The types of the state, and that each mutex is owned by exactly the thread
\* inside its critical section.
TypeOK ==
  /\ live \subseteq Nodes
  /\ data \in [Nodes -> Values \cup {NoValue}]
  /\ next \in [Nodes -> Nodes \cup {Null}]
  /\ head \in Nodes \cup {Null} /\ tail \in Nodes
  /\ head_mutex \in Threads \cup {Nobody} /\ tail_mutex \in Threads \cup {Nobody}
  /\ pc \in [Threads -> Points]
  /\ todo \in [Threads -> Seq(Operations)]
  /\ val \in [Threads -> Values \cup {NoValue}]
  /\ node \in [Threads -> Nodes \cup {Null}]
  /\ seen \in [Threads -> Nodes \cup {Null}]
  /\ spurious \in 0..MaxSpurious
  /\ nodes \in Seq(Nodes \cup {Null})
  /\ \A t \in Threads : /\ pc[t] \in AtHead <=> head_mutex = t
                        /\ pc[t] \in AtTail <=> tail_mutex = t

\* The nodes from head up to tail, tail excluded.
Length == CHOOSE k \in 0..Cardinality(Nodes) : After(head)[k] = tail

\* While the queue exists, the list leads from head to the dummy at tail, each
\* node before it has a value, and only a push in progress has linked a node
\* behind it.
ListShape ==
  Running =>
    \E k \in 0..Cardinality(Nodes) :
      /\ After(head)[k] = tail
      /\ \A i \in 0..(k - 1) : data[After(head)[i]] # NoValue
      /\ next[tail] # Null => \E t \in Threads : pc[t] = "move_tail" /\ next[tail] = node[t]

\* The node thread t owns through a unique_ptr of its own.
Holds(t) == IF pc[t] \in {"lock_tail", "store_data", "link_next",
                          "unlock_head", "take_data", "free"}
            THEN {node[t]} \ {Null} ELSE {}

\* Every allocated node has exactly one owner, the list or one call, and no
\* owner has a node that was freed: no leak, no use after free, no double free,
\* and nothing remains after the destructor.
SingleOwner ==
  /\ live = (IF head = Null THEN {} ELSE Reach(head)) \cup UNION {Holds(t) : t \in Threads}
  /\ \A t \in Threads : /\ Holds(t) # {} => node[t] \notin Reach(head)
                        /\ \A s \in Threads \ {t} : Holds(t) \cap Holds(s) = {}

\* A consumer that goes on to pop_head finds a node with a value there, never
\* the dummy, however many pops passed between its wakeup and its lock.
NeverPopsDummy == \A t \in Threads : pc[t] = "pop_head" => head # tail

\* The nodes a thread is about to access, and whether it writes them.
Writes(t) == IF pc[t] \in {"store_data", "link_next"} THEN {tail}
             ELSE IF pc[t] = "pop_head" THEN {head} ELSE {}
Reads(t) == IF pc[t] = "take_data" THEN {node[t]} ELSE {}

\* Producers and consumers hold different mutexes and take_data holds none,
\* and still no two of them access the same node at the same time.
NoDataRace ==
  \A s, t \in Threads : s # t => Writes(s) \cap (Writes(t) \cup Reads(t)) = {}

\* One ~unique_ptr at a time: destroying a long queue does not recurse, a step
\* frees at most one node.
DestructionIsFlat == [][Cardinality(live \ live') <= 1]_vars

(* The queue as its callers see it.  A push takes effect when tail moves, a
   pop at pop_head, an empty answer when get_tail reads tail. *)

Items == IF Running THEN [k \in 1..Length |-> data[After(head)[k - 1]]] ELSE <<>>

Answer(t) ==
  IF Head(todo[t]) = "push" THEN NoValue
  ELSE IF node[t] # Null /\ pc[t] # "free" THEN data[node[t]]
  ELSE val[t]

CallOf(t) ==
  IF pc[t] = "idle" THEN [stage |-> "none", op |-> "none", val |-> NoValue]
  ELSE LET op == Head(todo[t])
           answered == \/ pc[t] \in {"unlock_tail", "notify_one", "unlock_head",
                                     "take_data", "free", "return"}
                       \/ pc[t] = "test" /\ op = "try_pop" /\ head = seen[t]
           threw == pc[t] = "unwind"
       IN [stage |-> IF threw THEN "threw" ELSE IF answered THEN "answered" ELSE "pending",
           op    |-> op,
           val   |-> IF answered \/ threw THEN Answer(t) ELSE val[t]]

Fifo == INSTANCE FifoQueue WITH items <- Items, calls <- [t \in Threads |-> CallOf(t)]

\* For as long as it exists, the two-lock queue is a linearizable FIFO queue: a
\* push that returns has queued its value, in order and for one consumer only,
\* and a push that throws has left nothing behind.
Linearizable == Fifo!Init /\ [][Fifo!Next \/ nodes' # nodes]_(Fifo!vars)

\* The guards of Step(t) and of Destroy.
CanStep(t) ==
  \/ pc[t] = "idle" /\ todo[t] # <<>>
  \/ pc[t] = "new_node" /\ (t \in Unlucky \/ Nodes \ live # {})
  \/ pc[t] \in {"lock_tail", "get_tail"} /\ tail_mutex = Nobody
  \/ pc[t] \in {"lock_head", "relock"} /\ head_mutex = Nobody
  \/ pc[t] \in AtTail \cup (AtHead \ {"get_tail"})
  \/ pc[t] \in {"notify_one", "take_data", "free", "return", "unwind"}

CanDestroy ==
  \/ AllDone /\ Running
  \/ ~Running /\ nodes # <<>>
  \/ nodes = <<>> /\ head # Null

\* What ends a thread: its script, an empty queue or a missed notification, or the
\* bound on the heap.
AtRest(t) ==
  \/ pc[t] = "idle" /\ todo[t] = <<>>
  \/ pc[t] = "asleep"
  \/ pc[t] = "new_node" /\ live = Nodes /\ t \notin Unlucky

\* The two mutexes, of which get_tail takes the second under the first, and the
\* sleep between them never hold a call up: when nobody can step, each thread
\* has finished, sleeps in wait_and_pop, or has used up the heap, and none waits
\* for a mutex.  The destructor then goes on until nothing is left.
StuckOnlyAtRest ==
  /\ (\A t \in Threads : ~CanStep(t)) <=> (\A t \in Threads : AtRest(t))
  /\ AllDone => CanDestroy \/ (head = Null /\ nodes = <<>>)

\* The client of 8_thread_safe_queue.cpp: a producer and a consumer with
\* scripts of the same length.
Balanced ==
  \E p, c \in Threads :
    /\ Threads = {p, c} /\ p # c
    /\ Len(todo[p]) = Len(todo[c])
    /\ \A k \in 1..Len(todo[p]) : todo[p][k] = "push" /\ todo[c][k] = "wait_and_pop"

\* As many values are pushed as are popped: both clients finish, and the queue
\* is destroyed.
Termination == Balanced => <>(head = Null)
=============================================================================

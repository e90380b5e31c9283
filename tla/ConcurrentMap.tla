----------------------------- MODULE ConcurrentMap -----------------------------
(***************************************************************************)
(* src/src/concurrent_map.h: a std::map guarded by one std::mutex that is  *)
(* not recursive; Fetch calls a handler with the mutex locked.             *)
(* 5_concurrent_map_2.cpp has a copy of the class.                         *)
(*                                                                         *)
(* Threads run scripts of calls.  Main's script may contain "async", which *)
(* starts the other threads, and "join", which waits for them.  A Fetch's  *)
(* handler either looks at its pair ("Fetch") or calls Update on the same  *)
(* map, as the one of 4_concurrent_map.cpp does ("FetchUpdates").          *)
(***************************************************************************)
EXTENDS Integers, Sequences, FiniteSets

CONSTANTS Threads,
          Main,          \* the thread that starts the others
          Nobody,        \* the owner of a free mutex
          MaxKey,        \* bound: keys are 0..MaxKey
          Values,        \* the values rand() can lead to
          Default,       \* the default-constructed value
          Absent,        \* no value
          MainScripts,   \* the call sequences of Main
          Scripts,       \* the call sequences of the other threads
          Unlucky        \* the threads whose allocations may fail

Keys  == 0..MaxKey
Calls == [op : {"Update", "Get", "Remove", "Fetch", "FetchUpdates", "Dump"}, key : Keys]
           \cup [op : {"async", "join"}, key : {0}]

ASSUME ThreadsAssumption == Main \in Threads /\ Nobody \notin Threads
ASSUME KeyAssumption == MaxKey \in Nat
ASSUME ValuesAssumption == Default \notin Values /\ Absent \notin Values \cup {Default}
ASSUME ScriptsAssumption == MainScripts \cup Scripts \subseteq Seq(Calls)

VARIABLES m_data, m_mutex,
          pc,        \* where each thread is
          todo,      \* the calls each thread still has to make, current first
          arg,       \* the value argument of an Update
          ans,       \* what a call has found so far, a partial map
          copied,    \* how many keys a Dump has copied
          crashed    \* the process was ended by an uncaught exception

vars == <<m_data, m_mutex, pc, todo, arg, ans, copied, crashed>>

Empty == [k \in Keys |-> Absent]
Op(t)  == Head(todo[t]).op
Key(t) == Head(todo[t]).key

\* The points at which a thread holds m_mutex, "relock" being the handler's
\* attempt to lock it again.
Holding == {"body", "assign", "fill", "handler", "relock", "unlock", "unwind"}
Points  == Holding \cup {"none", "idle", "lock"}

Goto(t, point) == pc' = [pc EXCEPT ![t] = point]

\* Faulty variant: the readers are started before the map is filled.
Init_Launched ==
  /\ m_data = Empty /\ m_mutex = Nobody
  /\ pc = [t \in Threads |-> "idle"]
  /\ todo \in {s \in [Threads -> MainScripts \cup Scripts] :
                 \A t \in Threads : s[t] \in IF t = Main THEN MainScripts ELSE Scripts}
  /\ arg = [t \in Threads |-> Absent] /\ ans = [t \in Threads |-> Empty]
  /\ copied = [t \in Threads |-> 0] /\ crashed = FALSE

Init ==
  /\ m_data = Empty /\ m_mutex = Nobody
  /\ pc = [t \in Threads |-> IF t = Main THEN "idle" ELSE "none"]
  /\ todo \in {s \in [Threads -> MainScripts \cup Scripts] :
                 \A t \in Threads : s[t] \in IF t = Main THEN MainScripts ELSE Scripts}
  /\ arg = [t \in Threads |-> Absent] /\ ans = [t \in Threads |-> Empty]
  /\ copied = [t \in Threads |-> 0] /\ crashed = FALSE

(* the clients *)

Call(t) ==
  /\ pc[t] = "idle"
  /\ todo[t] # <<>> /\ Op(t) \notin {"async", "join"}
  /\ \E v \in Values : arg' = [arg EXCEPT ![t] = IF Op(t) = "Update" THEN v ELSE Absent]
  /\ Goto(t, "lock")
  /\ UNCHANGED <<m_data, m_mutex, todo, ans, copied, crashed>>

\* std::async for every reader.
Async ==
  /\ pc[Main] = "idle"
  /\ todo[Main] # <<>> /\ Op(Main) = "async"
  /\ pc' = [t \in Threads |-> IF pc[t] = "none" THEN "idle" ELSE pc[t]]
  /\ todo' = [todo EXCEPT ![Main] = Tail(@)]
  /\ UNCHANGED <<m_data, m_mutex, arg, ans, copied, crashed>>

\* The destructors of the futures.
Join ==
  /\ pc[Main] = "idle"
  /\ todo[Main] # <<>> /\ Op(Main) = "join"
  /\ \A t \in Threads \ {Main} : pc[t] = "idle" /\ todo[t] = <<>>
  /\ todo' = [todo EXCEPT ![Main] = Tail(@)]
  /\ UNCHANGED <<m_data, m_mutex, pc, arg, ans, copied, crashed>>

(* the map *)

Lock(t) ==
  /\ pc[t] = "lock"
  /\ m_mutex = Nobody
  /\ m_mutex' = t
  /\ Goto(t, "body")
  /\ UNCHANGED <<m_data, todo, arg, ans, copied, crashed>>

\* operator[]: a key that is absent is inserted with a default value.
UpdateFind(t) ==
  /\ pc[t] = "body" /\ Op(t) = "Update"
  /\ IF m_data[Key(t)] = Absent
       THEN m_data' = [m_data EXCEPT ![Key(t)] = Default] /\ Goto(t, "fill")
       ELSE Goto(t, "assign") /\ UNCHANGED m_data
  /\ UNCHANGED <<m_mutex, todo, arg, ans, copied, crashed>>

\* The assignment to what operator[] returned.
UpdateAssign(t) ==
  /\ pc[t] \in {"assign", "fill"}
  /\ m_data' = [m_data EXCEPT ![Key(t)] = arg[t]]
  /\ Goto(t, "unlock")
  /\ UNCHANGED <<m_mutex, todo, arg, ans, copied, crashed>>

\* Faulty variant: lock() and unlock() by hand, which an exception skips.
UpdateThrows_KeepsMutex(t) ==
  /\ t \in Unlucky
  /\ \/ pc[t] = "body" /\ Op(t) = "Update" /\ m_data[Key(t)] = Absent
     \/ pc[t] \in {"assign", "fill"}
  /\ todo' = [todo EXCEPT ![t] = Tail(@)]
  /\ Goto(t, "idle")
  /\ UNCHANGED <<m_data, m_mutex, arg, ans, copied, crashed>>

\* Either of them throws bad_alloc, and the lock_guard is destroyed by the unwinding.
UpdateThrows(t) ==
  /\ t \in Unlucky
  /\ \/ pc[t] = "body" /\ Op(t) = "Update" /\ m_data[Key(t)] = Absent
     \/ pc[t] \in {"assign", "fill"}
  /\ Goto(t, "unwind")
  /\ UNCHANGED <<m_data, m_mutex, todo, arg, ans, copied, crashed>>

Get(t) ==
  /\ pc[t] = "body" /\ Op(t) = "Get"
  /\ ans' = [ans EXCEPT ![t][Key(t)] = m_data[Key(t)]]
  /\ Goto(t, "unlock")
  /\ UNCHANGED <<m_data, m_mutex, todo, arg, copied, crashed>>

Remove(t) ==
  /\ pc[t] = "body" /\ Op(t) = "Remove"
  /\ m_data' = [m_data EXCEPT ![Key(t)] = Absent]
  /\ Goto(t, "unlock")
  /\ UNCHANGED <<m_mutex, todo, arg, ans, copied, crashed>>

\* Faulty variant: the mutex is released before the handler is called.
Find_Unlocks(t) ==
  /\ pc[t] = "body" /\ Op(t) \in {"Fetch", "FetchUpdates"}
  /\ ans' = [ans EXCEPT ![t][Key(t)] = m_data[Key(t)]]
  /\ m_mutex' = Nobody
  /\ Goto(t, IF m_data[Key(t)] = Absent THEN "unlock" ELSE "handler")
  /\ UNCHANGED <<m_data, todo, arg, copied, crashed>>

\* Fetch looks for the key, and calls the handler with a copy of the pair.
Find(t) ==
  /\ pc[t] = "body" /\ Op(t) \in {"Fetch", "FetchUpdates"}
  /\ ans' = [ans EXCEPT ![t][Key(t)] = m_data[Key(t)]]
  /\ Goto(t, IF m_data[Key(t)] = Absent THEN "unlock" ELSE "handler")
  /\ UNCHANGED <<m_data, m_mutex, todo, arg, copied, crashed>>

\* A handler that only looks at its pair returns.
HandlerReturns(t) ==
  /\ pc[t] = "handler" /\ Op(t) = "Fetch"
  /\ Goto(t, "unlock")
  /\ UNCHANGED <<m_data, m_mutex, todo, arg, ans, copied, crashed>>

\* The other kind calls Update, whose lock_guard locks a mutex this thread has:
\* undefined behaviour.  The thread stays there for ever, ...
HandlerUpdates(t) ==
  /\ pc[t] = "handler" /\ Op(t) = "FetchUpdates"
  /\ Goto(t, "relock")
  /\ UNCHANGED <<m_data, m_mutex, todo, arg, ans, copied, crashed>>

\* ... or lock() throws (resource_deadlock_would_occur), through Fetch and out
\* of main.
RelockThrows(t) ==
  /\ pc[t] = "relock"
  /\ crashed' = TRUE
  /\ UNCHANGED <<m_data, m_mutex, pc, todo, arg, ans, copied>>

\* The copy constructor of std::map, pair by pair.
DumpPair(t) ==
  /\ pc[t] = "body" /\ Op(t) = "Dump"
  /\ copied[t] \in Keys
  /\ ans' = [ans EXCEPT ![t][copied[t]] = m_data[copied[t]]]
  /\ copied' = [copied EXCEPT ![t] = @ + 1]
  /\ Goto(t, IF copied[t] = MaxKey THEN "unlock" ELSE "body")
  /\ UNCHANGED <<m_data, m_mutex, todo, arg, crashed>>

\* The end of the lock_guard's scope, and the return or the exception's way on.
Unlock(t) ==
  /\ pc[t] \in {"unlock", "unwind"}
  /\ m_mutex' = Nobody
  /\ todo' = [todo EXCEPT ![t] = Tail(@)]
  /\ arg' = [arg EXCEPT ![t] = Absent]
  /\ ans' = [ans EXCEPT ![t] = Empty]
  /\ copied' = [copied EXCEPT ![t] = 0]
  /\ Goto(t, "idle")
  /\ UNCHANGED <<m_data, crashed>>

Step(t) ==
  /\ ~crashed
  /\ \/ Call(t) \/ Lock(t) \/ Unlock(t)
     \/ UpdateFind(t) \/ UpdateAssign(t) \/ UpdateThrows(t)
     \/ Get(t) \/ Remove(t) \/ DumpPair(t)
     \/ Find(t) \/ HandlerReturns(t) \/ HandlerUpdates(t)

Client == ~crashed /\ (Async \/ Join)

Crash(t) == ~crashed /\ RelockThrows(t)

Next == Client \/ \E t \in Threads : Step(t) \/ Crash(t)

Spec == Init /\ [][Next]_vars

\* Every runnable thread is eventually scheduled; a second lock need not throw.
FairSpec == Spec /\ WF_vars(Client) /\ \A t \in Threads : WF_vars(Step(t))
-----------------------------------------------------------------------------
(***************************************************************************)
(* Properties                                                              *)
(***************************************************************************)

\* The types of the state, and that exactly the thread inside a lock_guard's
\* scope owns m_mutex.
TypeOK ==
  /\ m_data \in [Keys -> Values \cup {Default, Absent}]
  /\ m_mutex \in Threads \cup {Nobody}
  /\ pc \in [Threads -> Points] /\ todo \in [Threads -> Seq(Calls)]
  /\ arg \in [Threads -> Values \cup {Absent}]
  /\ ans \in [Threads -> [Keys -> Values \cup {Default, Absent}]]
  /\ copied \in [Threads -> 0..(MaxKey + 1)]
  /\ crashed \in BOOLEAN
  /\ \A t \in Threads : pc[t] \in Holding <=> m_mutex = t

\* A handler gets a copy of a pair.  While it runs the copy is up to date: the map
\* still has the key, with the value the handler was called with.
PairIsStable ==
  \A t \in Threads :
    pc[t] \in {"handler", "relock"} =>
      /\ ans[t][Key(t)] # Absent
      /\ m_data[Key(t)] = ans[t][Key(t)]

\* The keys that Main updates before it starts the readers and that no script
\* removes.
Kept == {k \in Keys :
  /\ \A s \in MainScripts : \E i \in 1..Len(s) :
       s[i] = [op |-> "Update", key |-> k] /\ \A j \in 1..i : s[j].op # "async"
  /\ \A s \in MainScripts \cup Scripts : [op |-> "Remove", key |-> k] \notin {s[i] : i \in 1..Len(s)}}

\* The readers of 5_concurrent_map_2.cpp use .value() of what Get returns: the
\* keys they ask for are there, whatever the other threads do.
ReadersFind ==
  \A t \in Threads \ {Main} :
    pc[t] = "unlock" /\ Op(t) = "Get" /\ Key(t) \in Kept => ans[t][Key(t)] # Absent

(* The map as its callers see it. *)

\* A value that operator[] has put in the map to be overwritten is no effect yet.
Data == [k \in Keys |-> IF \E t \in Threads : pc[t] = "fill" /\ Key(t) = k THEN Absent
                                                                            ELSE m_data[k]]

CallOf(t) ==
  IF pc[t] \in {"none", "idle"}
  THEN [stage |-> "none", op |-> "none", key |-> Absent, val |-> Absent, ans |-> Empty]
  ELSE [stage |-> IF pc[t] \in {"handler", "relock"} THEN "visiting"
                  ELSE IF pc[t] = "unlock" THEN "answered"
                  ELSE IF pc[t] = "unwind" THEN "threw" ELSE "pending",
        op    |-> IF Op(t) = "FetchUpdates" THEN "Fetch" ELSE Op(t),
        key   |-> Key(t),
        val   |-> arg[t],
        ans   |-> IF pc[t] = "body" THEN Empty ELSE ans[t]]

Atomic == INSTANCE AtomicMap WITH data <- Data, calls <- [t \in Threads |-> CallOf(t)]

\* Each operation is atomic: no Get and no Dump sees half an Update, an Update that
\* returns has stored its value and one that has not stored it throws, and no
\* operation takes effect while a handler runs.
Linearizable == Atomic!Spec

\* Every call returns, unless some handler has called the map it is shown.
CallsReturn ==
  \A t \in Threads :
    pc[t] = "lock" ~> (pc[t] = "idle" \/ crashed \/ \E s \in Threads : pc[s] = "relock")
=============================================================================

-------------------------- MODULE ConcurrentMap_proofs --------------------------
(***************************************************************************)
(* Proofs about ConcurrentMap, for any threads, keys, values and scripts.  *)
(***************************************************************************)
EXTENDS ConcurrentMap, TLAPS

Vals == Values \cup {Default, Absent}

\* The points of a call, and what it has found there.
CallInv(t) ==
  /\ pc[t] \notin {"none", "idle"} => todo[t] # <<>> /\ Op(t) \notin {"async", "join"}
  /\ pc[t] \in {"assign", "fill", "unwind"} => Op(t) = "Update"
  /\ pc[t] = "handler" => Op(t) \in {"Fetch", "FetchUpdates"}
  /\ pc[t] = "relock" => Op(t) = "FetchUpdates"
  /\ pc[t] \notin {"none", "idle"} /\ Op(t) = "Update" => arg[t] \in Values

\* What a call has found before it has taken effect: a Dump has copied the map
\* up to a key, the others nothing.
FoundInv(t) ==
  /\ pc[t] \in {"none", "idle", "lock", "assign", "fill", "unwind"} =>
       ans[t] = Empty /\ copied[t] = 0
  /\ pc[t] = "body" =>
       /\ Op(t) # "Dump" => ans[t] = Empty /\ copied[t] = 0
       /\ copied[t] \in Keys
       /\ \A k \in Keys : ans[t][k] = IF k < copied[t] THEN m_data[k] ELSE Absent

\* A handler is shown a pair, and nothing else, that is in the map.
ShownInv(t) ==
  pc[t] \in {"handler", "relock"} =>
    /\ m_data[Key(t)] # Absent
    /\ ans[t] = [Empty EXCEPT ![Key(t)] = m_data[Key(t)]]

IndInv ==
  /\ TypeOK
  /\ \A t \in Threads : CallInv(t) /\ FoundInv(t) /\ ShownInv(t)
  /\ \A t \in Threads : pc[t] = "fill" => m_data[Key(t)] = Default

-----------------------------------------------------------------------------
LEMMA HeadOfTodo ==
  ASSUME TypeOK, NEW t \in Threads, todo[t] # <<>>
  PROVE  /\ Op(t) \in {"Update", "Get", "Remove", "Fetch", "FetchUpdates", "Dump", "async", "join"}
         /\ Key(t) \in Keys /\ Tail(todo[t]) \in Seq(Calls)
  <1>1. todo[t] \in Seq(Calls)
    BY DEF TypeOK
  <1>2. Head(todo[t]) \in Calls /\ Tail(todo[t]) \in Seq(Calls)
    BY <1>1
  <1>3. 0 \in Keys
    BY KeyAssumption DEF Keys
  <1> QED
    BY <1>2, <1>3 DEF Calls, Op, Key

LEMMA InitIndInv == Init => IndInv
  <1> SUFFICES ASSUME Init PROVE IndInv
    OBVIOUS
  <1>1. todo \in [Threads -> Seq(Calls)]
    <2>1. todo \in [Threads -> MainScripts \cup Scripts]
      BY DEF Init
    <2> QED
      BY <2>1, ScriptsAssumption
  <1>2. /\ m_data = Empty /\ m_mutex = Nobody
        /\ pc \in [Threads -> {"none", "idle"}]
        /\ arg = [t \in Threads |-> Absent] /\ ans = [t \in Threads |-> Empty]
        /\ copied = [t \in Threads |-> 0] /\ crashed = FALSE
    BY DEF Init
  <1>3. TypeOK
    <2>1. pc \in [Threads -> Points] /\ \A t \in Threads : pc[t] \notin Holding /\ m_mutex # t
      BY <1>2, ThreadsAssumption DEF Points, Holding
    <2>2. copied \in [Threads -> 0..(MaxKey + 1)]
      BY <1>2, KeyAssumption
    <2>3. Empty \in [Keys -> Values \cup {Default, Absent}]
      BY DEF Empty
    <2> QED
      BY <1>1, <1>2, <2>1, <2>2, <2>3 DEF TypeOK
  <1> QED
    BY <1>2, <1>3 DEF IndInv, CallInv, FoundInv, ShownInv

LEMMA StepIndInv == IndInv /\ [Next]_vars => IndInv'
  <1> SUFFICES ASSUME IndInv, [Next]_vars PROVE IndInv'
    OBVIOUS
  <1>c. \A t \in Threads : todo[t] # <<>> => Key(t) \in Keys /\ Tail(todo[t]) \in Seq(Calls)
    BY HeadOfTodo DEF IndInv
  <1>k. \A k \in Keys : k \in Nat /\ k <= MaxKey
    BY KeyAssumption DEF Keys
  <1>e. Empty \in [Keys -> Vals] /\ \A k \in Keys : Empty[k] = Absent
    BY DEF Empty, Vals
  <1> USE ThreadsAssumption, KeyAssumption, ValuesAssumption, <1>c, <1>k, <1>e
      DEF IndInv, TypeOK, CallInv, FoundInv, ShownInv, Goto, Points, Holding, Vals
  <1>o. \A s, t \in Threads : pc[s] \in Holding /\ pc[t] \in Holding => s = t
    OBVIOUS
  <1>1. CASE UNCHANGED vars
    BY <1>1 DEF vars, Op, Key
  <1>2. CASE Async
    <2> USE <1>2 DEF Async, Op, Key
    <2>1. TypeOK'
      OBVIOUS
    <2>2. \A s \in Threads : CallInv(s)'
      OBVIOUS
    <2>3. \A s \in Threads : FoundInv(s)'
      BY <1>o
    <2>4. \A s \in Threads : ShownInv(s)'
      BY <1>o
    <2>5. \A s \in Threads : (pc[s] = "fill" => m_data[Key(s)] = Default)'
      BY <1>o
    <2> QED
      BY <2>1, <2>2, <2>3, <2>4, <2>5
  <1>3. CASE Join
    BY <1>3 DEF Join, Op, Key
  <1>4. ASSUME NEW t \in Threads, Call(t) PROVE IndInv'
    BY <1>4 DEF Call, Op, Key
  <1>5. ASSUME NEW t \in Threads, Lock(t) PROVE IndInv'
    BY <1>5 DEF Lock, Op, Key, Keys
  <1>6. ASSUME NEW t \in Threads, UpdateFind(t) PROVE IndInv'
    <2> USE <1>6 DEF UpdateFind, Op, Key
    <2>0. pc'[t] \in {"assign", "fill"} /\ \A s \in Threads \ {t} : pc'[s] = pc[s] /\ pc'[s] \notin Holding
      BY <1>o
    <2>1. TypeOK'
      OBVIOUS
    <2>2. \A s \in Threads : CallInv(s)'
      OBVIOUS
    <2>3. \A s \in Threads : FoundInv(s)'
      BY <1>o
    <2>4. \A s \in Threads : pc'[s] \notin {"handler", "relock"} /\ (pc'[s] = "fill" => s = t)
      BY <2>0
    <2>5. pc'[t] = "fill" => m_data'[Key(t)'] = Default
      OBVIOUS
    <2> HIDE <1>6 DEF UpdateFind, Op, Key
    <2>6. \A s \in Threads : ShownInv(s)'
      BY <2>4
    <2>7. \A s \in Threads : (pc[s] = "fill" => m_data[Key(s)] = Default)'
      BY <2>4, <2>5
    <2> QED
      BY <2>1, <2>2, <2>3, <2>6, <2>7
  <1>7. ASSUME NEW t \in Threads, UpdateAssign(t) PROVE IndInv'
    <2> USE <1>7 DEF UpdateAssign, Op, Key
    <2>0. pc'[t] = "unlock" /\ \A s \in Threads \ {t} : pc'[s] = pc[s] /\ pc'[s] \notin Holding
      BY <1>o
    <2>1. TypeOK'
      OBVIOUS
    <2>2. \A s \in Threads : CallInv(s)'
      OBVIOUS
    <2>3. \A s \in Threads : pc'[s] \notin {"body", "handler", "relock", "fill"}
      BY <2>0
    <2>4. ans' = ans /\ copied' = copied
      OBVIOUS
    <2>5. \A s \in Threads : FoundInv(s)' /\ ShownInv(s)'
      <3> HIDE DEF UpdateAssign
      <3> QED
        BY <2>0, <2>3, <2>4
    <2> QED
      BY <2>1, <2>2, <2>3, <2>5
  <1>8. ASSUME NEW t \in Threads, UpdateThrows(t) PROVE IndInv'
    BY <1>8 DEF UpdateThrows, Op, Key
  <1>9. ASSUME NEW t \in Threads, Get(t) PROVE IndInv'
    <2> USE <1>9 DEF Get, Op, Key
    <2>0. pc'[t] = "unlock" /\ \A s \in Threads \ {t} : pc'[s] = pc[s] /\ pc'[s] \notin Holding
      BY <1>o
    <2>1. TypeOK'
      OBVIOUS
    <2>2. \A s \in Threads : CallInv(s)'
      OBVIOUS
    <2>3. \A s \in Threads : pc'[s] \notin {"body", "handler", "relock", "fill"}
      BY <2>0
    <2>4. \A s \in Threads \ {t} : ans'[s] = ans[s] /\ copied'[s] = copied[s]
      OBVIOUS
    <2>5. \A s \in Threads : FoundInv(s)' /\ ShownInv(s)'
      <3> HIDE DEF Get
      <3> QED
        BY <2>0, <2>3, <2>4
    <2> QED
      BY <2>1, <2>2, <2>3, <2>5
  <1>10. ASSUME NEW t \in Threads, Remove(t) PROVE IndInv'
    <2> USE <1>10 DEF Remove, Op, Key
    <2>0. pc'[t] = "unlock" /\ \A s \in Threads \ {t} : pc'[s] = pc[s] /\ pc'[s] \notin Holding
      BY <1>o
    <2>1. TypeOK'
      OBVIOUS
    <2>2. \A s \in Threads : CallInv(s)'
      OBVIOUS
    <2>3. \A s \in Threads : pc'[s] \notin {"body", "handler", "relock", "fill"}
      BY <2>0
    <2>4. ans' = ans /\ copied' = copied
      OBVIOUS
    <2>5. \A s \in Threads : FoundInv(s)' /\ ShownInv(s)'
      <3> HIDE DEF Remove
      <3> QED
        BY <2>0, <2>3, <2>4
    <2> QED
      BY <2>1, <2>2, <2>3, <2>5
  <1>11. ASSUME NEW t \in Threads, Find(t) PROVE IndInv'
    BY <1>11 DEF Find, Op, Key
  <1>12. ASSUME NEW t \in Threads, HandlerReturns(t) PROVE IndInv'
    BY <1>12 DEF HandlerReturns, Op, Key
  <1>13. ASSUME NEW t \in Threads, HandlerUpdates(t) PROVE IndInv'
    BY <1>13 DEF HandlerUpdates, Op, Key
  <1>14. ASSUME NEW t \in Threads, RelockThrows(t) PROVE IndInv'
    BY <1>14 DEF RelockThrows, Op, Key
  <1>15. ASSUME NEW t \in Threads, DumpPair(t) PROVE IndInv'
    <2> USE <1>15 DEF DumpPair, Op, Key
    <2>0. pc'[t] \in {"unlock", "body"} /\ \A s \in Threads \ {t} : pc'[s] = pc[s] /\ pc'[s] \notin Holding
      BY <1>o
    <2>1. TypeOK'
      OBVIOUS
    <2>2. \A s \in Threads : CallInv(s)'
      OBVIOUS
    <2>3. \A s \in Threads : pc'[s] \notin {"handler", "relock", "assign", "fill"}
      BY <2>0
    <2>4. \A s \in Threads \ {t} : FoundInv(s)'
      <3>1. \A s \in Threads \ {t} : ans'[s] = ans[s] /\ copied'[s] = copied[s]
        OBVIOUS
      <3> HIDE DEF DumpPair
      <3> QED
        BY <2>0, <3>1
    <2>5. FoundInv(t)'
      <3>1. CASE copied[t] = MaxKey
        BY <3>1
      <3>2. CASE copied[t] # MaxKey
        <4>1. copied'[t] = copied[t] + 1 /\ copied'[t] \in Keys
          BY <3>2 DEF Keys
        <4>2. ans'[t] = [ans[t] EXCEPT ![copied[t]] = m_data[copied[t]]]
          OBVIOUS
        <4>3. \A k \in Keys : ans'[t][k] = IF k < copied'[t] THEN m_data'[k] ELSE Absent
          <5>1. \A k \in Keys : ans[t][k] = IF k < copied[t] THEN m_data[k] ELSE Absent
            OBVIOUS
          <5>2. ans[t] \in [Keys -> Vals] /\ m_data' = m_data /\ copied[t] \in Keys
            OBVIOUS
          <5> HIDE DEF DumpPair, IndInv, TypeOK, CallInv, FoundInv, ShownInv
          <5> QED
            BY <4>1, <4>2, <5>1, <5>2
        <4> QED
          BY <4>1, <4>3
      <3> QED
        BY <3>1, <3>2
    <2> QED
      BY <2>1, <2>2, <2>3, <2>4, <2>5
  <1>16. ASSUME NEW t \in Threads, Unlock(t) PROVE IndInv'
    BY <1>16 DEF Unlock, Op, Key
  <1> QED
    BY <1>1, <1>2, <1>3, <1>4, <1>5, <1>6, <1>7, <1>8, <1>9, <1>10, <1>11, <1>12, <1>13,
       <1>14, <1>15, <1>16 DEF Next, Client, Step, Crash

\* Every reachable state satisfies the inductive invariant.
THEOREM Invariance == Spec => []IndInv
  BY InitIndInv, StepIndInv, PTL DEF Spec

\* While a handler runs, the map has the pair of which it was shown a copy: no
\* other thread is past the lock_guard of any operation.
THEOREM StablePair == Spec => []PairIsStable
  <1>1. IndInv => PairIsStable
    <2> SUFFICES ASSUME IndInv, NEW t \in Threads, pc[t] \in {"handler", "relock"}
                 PROVE  ans[t][Key(t)] # Absent /\ m_data[Key(t)] = ans[t][Key(t)]
      BY DEF PairIsStable
    <2>1. todo[t] # <<>> /\ ShownInv(t) /\ TypeOK
      BY DEF IndInv, CallInv
    <2>2. Key(t) \in Keys
      BY <2>1, HeadOfTodo
    <2> QED
      BY <2>1, <2>2 DEF ShownInv, Empty
  <1> QED
    BY <1>1, Invariance, PTL

\* Exactly the thread inside a lock_guard's scope owns m_mutex.
THEOREM TypeCorrect == Spec => []TypeOK
  BY Invariance, PTL DEF IndInv

-----------------------------------------------------------------------------
(* What Main stores before it starts the readers stays. *)

\* Every call still to be made is one of a script.
FromScripts ==
  \A t \in Threads : \A i \in 1..Len(todo[t]) :
    \E s \in MainScripts \cup Scripts : \E m \in 1..Len(s) : todo[t][i] = s[m]

\* A kept key is in the map, or Main has still to store it and then to start
\* the readers.
ToBeStored(k) ==
  /\ \A t \in Threads \ {Main} : pc[t] = "none"
  /\ \E i \in 1..Len(todo[Main]) :
       /\ todo[Main][i] = [op |-> "Update", key |-> k]
       /\ \A j \in 1..i : todo[Main][j].op # "async"

KeptInv == \A k \in Kept : m_data[k] # Absent \/ ToBeStored(k)

\* An Update of Main's that is over has stored its value, and a Get of a reader
\* has found what is kept.
AnswerInv ==
  /\ pc[Main] # "unwind"
  /\ pc[Main] = "unlock" /\ Op(Main) = "Update" => m_data[Key(Main)] # Absent
  /\ \A t \in Threads \ {Main} :
       pc[t] = "unlock" /\ Op(t) = "Get" /\ Key(t) \in Kept => ans[t][Key(t)] # Absent

KeepingInv == FromScripts /\ KeptInv /\ AnswerInv

LEMMA InitKeeping == Init => KeepingInv
  <1> SUFFICES ASSUME Init PROVE KeepingInv
    OBVIOUS
  <1>1. /\ todo \in [Threads -> MainScripts \cup Scripts] /\ todo[Main] \in MainScripts
        /\ \A t \in Threads : pc[t] \notin {"unlock", "unwind"} /\ (t # Main => pc[t] = "none")
    BY ThreadsAssumption DEF Init
  <1>2. FromScripts
    BY <1>1 DEF FromScripts
  <1>3. KeptInv
    BY <1>1 DEF KeptInv, Kept, ToBeStored
  <1> QED
    BY <1>1, <1>2, <1>3, ThreadsAssumption DEF KeepingInv, AnswerInv

\* A call of a script is never the removal of a kept key.
LEMMA NotRemoved ==
  ASSUME IndInv, FromScripts, NEW t \in Threads, pc[t] = "body", Op(t) = "Remove"
  PROVE  Key(t) \notin Kept
  <1>0. todo[t] # <<>> /\ todo[t] \in Seq(Calls)
    BY DEF IndInv, TypeOK, CallInv
  <1>1. Head(todo[t]) \in Calls
    BY <1>0
  <1>2. Head(todo[t]) = todo[t][1] /\ 1 \in 1..Len(todo[t])
    BY <1>0
  <1>3. Head(todo[t]) = [op |-> "Remove", key |-> Key(t)]
    BY <1>1 DEF Calls, Op, Key
  <1>4. PICK s \in MainScripts \cup Scripts : \E m \in 1..Len(s) : todo[t][1] = s[m]
    BY <1>2 DEF FromScripts
  <1>5. [op |-> "Remove", key |-> Key(t)] \in {s[i] : i \in 1..Len(s)}
    BY <1>2, <1>3, <1>4
  <1> QED
    BY <1>5 DEF Kept

\* Main has made one more call.
LEMMA NextCall ==
  ASSUME IndInv, FromScripts, KeptInv, todo[Main] # <<>>,
         todo' = [todo EXCEPT ![Main] = Tail(@)], m_data' = m_data,
         \A k \in Kept : todo[Main][1] = [op |-> "Update", key |-> k] => m_data[k] # Absent,
         \/ todo[Main][1].op = "async"
         \/ \A t \in Threads \ {Main} : pc'[t] = pc[t]
  PROVE  KeptInv'
  <1> SUFFICES ASSUME NEW k \in Kept, m_data[k] = Absent PROVE ToBeStored(k)'
    BY DEF KeptInv, Kept
  <1>1. ToBeStored(k)
    BY DEF KeptInv
  <1>2. todo[Main] \in Seq(Calls) /\ Main \in Threads /\ todo \in [Threads -> Seq(Calls)]
    BY ThreadsAssumption DEF IndInv, TypeOK
  <1>3. PICK i \in 1..Len(todo[Main]) :
          /\ todo[Main][i] = [op |-> "Update", key |-> k]
          /\ \A j \in 1..i : todo[Main][j].op # "async"
    BY <1>1 DEF ToBeStored
  <1>4. i # 1 /\ todo[Main][1].op # "async"
    BY <1>2, <1>3
  <1>5. todo'[Main] = Tail(todo[Main])
    BY <1>2
  <1>6. /\ Len(todo'[Main]) = Len(todo[Main]) - 1
        /\ \A j \in 1..(Len(todo[Main]) - 1) : todo'[Main][j] = todo[Main][j + 1]
    BY <1>2, <1>5
  <1>7. i - 1 \in 1..Len(todo'[Main]) /\ todo'[Main][i - 1] = [op |-> "Update", key |-> k]
    BY <1>2, <1>3, <1>4, <1>6
  <1>8. \A j \in 1..(i - 1) : todo'[Main][j].op # "async"
    BY <1>2, <1>3, <1>4, <1>6
  <1> QED
    BY <1>1, <1>4, <1>7, <1>8 DEF ToBeStored

LEMMA StepKeeping ==
  ASSUME Main \notin Unlucky, IndInv, KeepingInv, [Next]_vars
  PROVE  KeepingInv'
  <1> USE ThreadsAssumption
  <1>t. /\ m_data \in [Keys -> Vals] /\ pc \in [Threads -> Points]
        /\ todo \in [Threads -> Seq(Calls)] /\ ans \in [Threads -> [Keys -> Vals]]
        /\ \A s, t \in Threads : pc[s] \in Holding /\ pc[t] \in Holding => s = t
        /\ \A t \in Threads : todo[t] # <<>> => Key(t) \in Keys
        /\ Default # Absent /\ Absent \notin Values
    BY HeadOfTodo, ValuesAssumption DEF IndInv, TypeOK, Vals
  <1>k. Kept \subseteq Keys /\ Kept' = Kept
    BY DEF Kept
  <1>1. FromScripts'
    <2>1. CASE todo' = todo
      BY <2>1 DEF KeepingInv, FromScripts
    <2>2. ASSUME NEW t \in Threads, todo[t] # <<>>, todo' = [todo EXCEPT ![t] = Tail(@)]
          PROVE  FromScripts'
      <3>1. todo[t] \in Seq(Calls)
        BY <1>t
      <3>2. /\ Len(todo'[t]) = Len(todo[t]) - 1
            /\ \A i \in 1..(Len(todo[t]) - 1) : todo'[t][i] = todo[t][i + 1]
        BY <2>2, <1>t, <3>1
      <3>3. \A i \in 1..Len(todo'[t]) : i + 1 \in 1..Len(todo[t]) /\ todo'[t][i] = todo[t][i + 1]
        BY <3>1, <3>2
      <3> QED
        BY <2>2, <1>t, <3>3 DEF KeepingInv, FromScripts
    <2>3. \A t \in Threads : pc[t] \in {"unlock", "unwind"} => todo[t] # <<>>
      BY DEF IndInv, CallInv
    <2> QED
      BY <2>1, <2>2, <2>3
         DEF Next, Client, Async, Join, Step, Crash, vars, Call, Lock, Unlock, UpdateFind,
             UpdateAssign, UpdateThrows, Get, Remove, DumpPair, Find, HandlerReturns,
             HandlerUpdates, RelockThrows
  \* The steps that leave the scripts alone, and in the map all that is kept.
  <1>2. ASSUME todo' = todo, \A t \in Threads : pc[t] = "none" => pc'[t] = "none",
               \A k \in Kept : m_data'[k] # Absent \/ m_data[k] = Absent
        PROVE  KeptInv'
    BY <1>2, <1>k DEF KeepingInv, KeptInv, ToBeStored
  <1>3. CASE UNCHANGED vars
    BY <1>1, <1>2, <1>3 DEF vars, KeepingInv, AnswerInv, Op, Key
  <1>4. CASE Async \/ Join
    <2>1. /\ todo[Main] # <<>> /\ Op(Main) \in {"async", "join"} /\ pc[Main] = "idle"
          /\ todo' = [todo EXCEPT ![Main] = Tail(@)] /\ m_data' = m_data /\ ans' = ans
          /\ \A t \in Threads : pc'[t] # pc[t] => pc'[t] = "idle"
          /\ Op(Main) = "async" \/ pc' = pc
      BY <1>4, <1>t DEF Async, Join
    <2>2. todo[Main][1] = Head(todo[Main])
      BY <1>t, <2>1
    <2>3. KeptInv'
      BY <2>1, <2>2, NextCall DEF KeepingInv, Op
    <2>4. AnswerInv'
      BY <1>t, <1>k, <2>1 DEF KeepingInv, AnswerInv, Op, Key
    <2> QED
      BY <1>1, <2>3, <2>4 DEF KeepingInv
  <1>5. ASSUME NEW t \in Threads, Unlock(t) PROVE KeepingInv'
    <2>1. /\ pc[t] \in {"unlock", "unwind"}
          /\ t = Main => pc[t] = "unlock"
          /\ pc' = [pc EXCEPT ![t] = "idle"] /\ m_data' = m_data
          /\ todo' = [todo EXCEPT ![t] = Tail(@)] /\ ans' = [ans EXCEPT ![t] = Empty]
          /\ todo[t] # <<>>
      BY <1>5 DEF Unlock, Goto, IndInv, CallInv, KeepingInv, AnswerInv
    <2>2. AnswerInv'
      BY <1>t, <1>k, <2>1 DEF KeepingInv, AnswerInv, Op, Key, Holding
    <2>3. CASE t = Main
      <3>1. todo[Main][1] = Head(todo[Main])
        BY <1>t, <2>1, <2>3
      <3>2. \A k \in Kept : todo[Main][1] = [op |-> "Update", key |-> k] => m_data[k] # Absent
        BY <2>1, <2>3, <3>1 DEF KeepingInv, AnswerInv, Op, Key
      <3>3. KeptInv'
        BY <1>t, <2>1, <2>3, <3>2, NextCall DEF KeepingInv
      <3> QED
        BY <1>1, <2>2, <3>3 DEF KeepingInv
    <2>4. CASE t # Main
      <3>1. pc[t] # "none" /\ t \in Threads \ {Main}
        BY <2>1, <2>4
      <3>2. \A k \in Kept : m_data[k] # Absent
        BY <3>1 DEF KeepingInv, KeptInv, ToBeStored
      <3>3. KeptInv'
        BY <1>k, <2>1, <3>2 DEF KeptInv
      <3> QED
        BY <1>1, <2>2, <3>3 DEF KeepingInv
    <2> QED
      BY <2>3, <2>4
  <1>6. ASSUME NEW t \in Threads,
               \/ Call(t) \/ Lock(t) \/ DumpPair(t) \/ Find(t) \/ HandlerReturns(t)
               \/ HandlerUpdates(t) \/ RelockThrows(t) \/ UpdateThrows(t) \/ Get(t)
        PROVE  KeptInv'
    <2>1. /\ todo' = todo /\ m_data' = m_data
          /\ \A s \in Threads : pc[s] = "none" => pc'[s] = "none"
      BY <1>6, <1>t DEF Call, Lock, DumpPair, Find, HandlerReturns, HandlerUpdates, RelockThrows,
                        UpdateThrows, Get, Goto
    <2> QED
      BY <1>2, <2>1
  <1>7. ASSUME NEW t \in Threads, UpdateFind(t) \/ UpdateAssign(t) \/ Remove(t)
        PROVE  KeptInv'
    <2>1. /\ todo' = todo /\ \A s \in Threads : pc[s] = "none" => pc'[s] = "none"
      BY <1>7, <1>t DEF UpdateFind, UpdateAssign, Remove, Goto
    <2>2. \A k \in Kept : m_data'[k] # Absent \/ m_data[k] = Absent
      <3>1. CASE Remove(t)
        <4>1. Key(t) \notin Kept /\ \A k \in Keys : k # Key(t) => m_data'[k] = m_data[k]
          BY <1>t, <3>1, NotRemoved DEF Remove, KeepingInv
        <4> QED
          BY <1>k, <4>1
      <3>2. CASE UpdateFind(t)
        BY <1>t, <1>k, <3>2 DEF UpdateFind
      <3>3. CASE UpdateAssign(t)
        <4>1. arg[t] \in Values
          BY <3>3 DEF UpdateAssign, IndInv, CallInv
        <4> QED
          BY <1>t, <1>k, <3>3, <4>1 DEF UpdateAssign
      <3> QED
        BY <1>7, <3>1, <3>2, <3>3
    <2> QED
      BY <1>2, <2>1, <2>2
  <1>8. ASSUME NEW t \in Threads,
               \/ Call(t) \/ Lock(t) \/ DumpPair(t) \/ Find(t) \/ HandlerReturns(t)
               \/ HandlerUpdates(t) \/ RelockThrows(t) \/ UpdateFind(t)
        PROVE  AnswerInv'
    <2>1. /\ todo' = todo /\ \A s \in Threads \ {t} : pc'[s] = pc[s] /\ ans'[s] = ans[s]
          /\ pc'[t] # "unwind"
          /\ pc'[t] = "unlock" => Op(t) \notin {"Update", "Get"}
          /\ m_data' = m_data \/ pc[t] \in Holding
      BY <1>8, <1>t DEF Call, Lock, DumpPair, Find, HandlerReturns, HandlerUpdates, RelockThrows,
                        UpdateFind, Goto, Holding, IndInv, CallInv
    <2> QED
      BY <1>t, <1>k, <2>1 DEF KeepingInv, AnswerInv, Op, Key, Holding
  <1>9. ASSUME NEW t \in Threads, UpdateAssign(t) PROVE AnswerInv'
    <2>1. arg[t] \in Values /\ Op(t) = "Update" /\ Key(t) \in Keys /\ pc[t] \in Holding
      BY <1>9, <1>t DEF UpdateAssign, IndInv, CallInv, Holding
    <2>2. /\ todo' = todo /\ ans' = ans /\ pc' = [pc EXCEPT ![t] = "unlock"]
          /\ m_data' = [m_data EXCEPT ![Key(t)] = arg[t]]
      BY <1>9 DEF UpdateAssign, Goto
    <2> QED
      BY <1>t, <1>k, <2>1, <2>2 DEF KeepingInv, AnswerInv, Op, Key, Holding
  <1>10. ASSUME NEW t \in Threads, Remove(t) PROVE AnswerInv'
    <2>1. /\ Op(t) = "Remove" /\ pc[t] \in Holding
          /\ todo' = todo /\ ans' = ans /\ pc' = [pc EXCEPT ![t] = "unlock"]
      BY <1>10 DEF Remove, Goto, Holding
    <2> QED
      BY <1>t, <1>k, <2>1 DEF KeepingInv, AnswerInv, Op, Key, Holding
  <1>11. ASSUME NEW t \in Threads, UpdateThrows(t) PROVE AnswerInv'
    <2>1. /\ t # Main /\ todo' = todo /\ ans' = ans /\ m_data' = m_data
          /\ pc' = [pc EXCEPT ![t] = "unwind"] /\ Op(t) = "Update"
      BY <1>11 DEF UpdateThrows, Goto, IndInv, CallInv
    <2> QED
      BY <1>t, <1>k, <2>1 DEF KeepingInv, AnswerInv, Op, Key
  \* A reader runs, so what is kept is in the map.
  <1>12. ASSUME NEW t \in Threads, Get(t) PROVE AnswerInv'
    <2>1. /\ todo' = todo /\ m_data' = m_data /\ pc' = [pc EXCEPT ![t] = "unlock"]
          /\ Op(t) = "Get" /\ ans' = [ans EXCEPT ![t][Key(t)] = m_data[Key(t)]]
          /\ pc[t] = "body" /\ Key(t) \in Keys
      BY <1>12, <1>t DEF Get, Goto, IndInv, CallInv
    <2>2. ans'[t][Key(t)] = m_data[Key(t)] /\ \A s \in Threads \ {t} : ans'[s] = ans[s]
      BY <1>t, <2>1
    <2>3. t # Main => \A k \in Kept : m_data[k] # Absent
      BY <2>1 DEF KeepingInv, KeptInv, ToBeStored
    <2> QED
      BY <1>t, <1>k, <2>1, <2>2, <2>3 DEF KeepingInv, AnswerInv, Op, Key
  <1> QED
    BY <1>1, <1>3, <1>4, <1>5, <1>6, <1>7, <1>8, <1>9, <1>10, <1>11, <1>12
       DEF Next, Client, Step, Crash, KeepingInv

\* A reader finds every key that Main stored before it started the readers and
\* that nobody removes, provided no allocation of Main's own fails.
THEOREM ReadersAlwaysFind == ASSUME Main \notin Unlucky PROVE Spec => []ReadersFind
  <1>1. IndInv /\ KeepingInv /\ [Next]_vars => KeepingInv'
    BY StepKeeping
  <1>2. KeepingInv => ReadersFind
    BY DEF KeepingInv, AnswerInv, ReadersFind
  <1> QED
    BY <1>1, <1>2, InitKeeping, Invariance, PTL DEF Spec

-----------------------------------------------------------------------------
(***************************************************************************)
(* Why calls return (CallsReturn): while one is under way some thread can  *)
(* step, unless a handler has called the map it is shown, and each step    *)
(* brings a thread closer to the end of its script.                        *)
(***************************************************************************)

\* The guards of Step(t).
CanStep(t) ==
  /\ ~crashed
  /\ \/ pc[t] = "idle" /\ todo[t] # <<>> /\ Op(t) \notin {"async", "join"}
     \/ pc[t] = "lock" /\ m_mutex = Nobody
     \/ pc[t] \in Holding \ {"relock"}

\* A call that is under way is not stuck, nor are the others that wait for it.
CallsNotStuck ==
  (\E t \in Threads : pc[t] \notin {"none", "idle"}) =>
    \/ crashed
    \/ \E t \in Threads : pc[t] = "relock"
    \/ \E t \in Threads : CanStep(t)

\* How far a thread is from the end of its call.
Rank == [p \in Points |->
           CASE p = "none" -> 7
             [] p = "idle" -> 6
             [] p = "lock" -> 5
             [] p = "body" -> 4
             [] p \in {"assign", "fill", "handler"} -> 3
             [] p = "relock" -> 2
             [] p \in {"unlock", "unwind"} -> 1]

Descends(t) ==
  \/ todo'[t] = todo[t] /\ Rank[pc'[t]] < Rank[pc[t]]
  \/ todo'[t] = todo[t] /\ pc'[t] = pc[t] /\ copied'[t] = copied[t] + 1 /\ copied'[t] \in Keys
  \/ Len(todo'[t]) = Len(todo[t]) - 1 /\ pc'[t] = "idle"

\* Each step moves one thread closer to the end of its script, or the process to its
\* end; the others stay where they are, or are started.
StepsDown ==
  /\ \A t \in Threads : \/ pc'[t] = pc[t] /\ todo'[t] = todo[t] /\ copied'[t] = copied[t]
                        \/ Descends(t)
  /\ crashed' \/ \E t \in Threads : Descends(t)

CallsDescend == [][StepsDown]_vars

LEMMA RankOf ==
  /\ Rank["none"] = 7 /\ Rank["idle"] = 6 /\ Rank["lock"] = 5 /\ Rank["body"] = 4
  /\ Rank["assign"] = 3 /\ Rank["fill"] = 3 /\ Rank["handler"] = 3
  /\ Rank["relock"] = 2 /\ Rank["unlock"] = 1 /\ Rank["unwind"] = 1
  BY DEF Rank, Points, Holding

\* Whoever holds m_mutex can step, and where it is free whoever wants it can.
LEMMA NotStuck == IndInv => CallsNotStuck
  <1> SUFFICES ASSUME IndInv, NEW t \in Threads, pc[t] \notin {"none", "idle"}, ~crashed,
                      \A s \in Threads : pc[s] # "relock"
               PROVE  \E s \in Threads : CanStep(s)
    BY DEF CallsNotStuck
  <1> USE DEF IndInv, TypeOK, CanStep
  <1>1. CASE m_mutex = Nobody
    <2>1. pc[t] = "lock"
      BY <1>1, ThreadsAssumption DEF Points
    <2> QED
      BY <1>1, <2>1
  <1>2. CASE m_mutex # Nobody
    <2>1. m_mutex \in Threads /\ pc[m_mutex] \in Holding
      BY <1>2
    <2> QED
      BY <2>1
  <1> QED
    BY <1>1, <1>2

LEMMA OneDescends ==
  ASSUME NEW t \in Threads, Descends(t),
         \A s \in Threads \ {t} : pc'[s] = pc[s] /\ todo'[s] = todo[s] /\ copied'[s] = copied[s]
  PROVE  StepsDown
  BY DEF StepsDown

\* Main makes a call that is none of the map's.
LEMMA MainDescends ==
  ASSUME IndInv, todo[Main] # <<>>, pc[Main] = "idle", pc'[Main] = "idle",
         todo' = [todo EXCEPT ![Main] = Tail(@)]
  PROVE  Descends(Main) /\ \A t \in Threads \ {Main} : todo'[t] = todo[t]
  <1>1. /\ Main \in Threads /\ todo \in [Threads -> Seq(Calls)]
    BY ThreadsAssumption DEF IndInv, TypeOK
  <1>2. todo'[Main] = Tail(todo[Main]) /\ todo[Main] \in Seq(Calls)
    BY <1>1
  <1>3. Len(Tail(todo[Main])) = Len(todo[Main]) - 1
    BY <1>2
  <1> QED
    BY <1>1, <1>2, <1>3 DEF Descends

LEMMA StepDescends == IndInv /\ Next => StepsDown
  <1> SUFFICES ASSUME IndInv, Next PROVE StepsDown
    OBVIOUS
  <1>0. /\ pc \in [Threads -> Points] /\ todo \in [Threads -> Seq(Calls)]
        /\ copied \in [Threads -> 0..(MaxKey + 1)] /\ Main \in Threads
        /\ \A t \in Threads : pc[t] \in {"unlock", "unwind"} => todo[t] # <<>>
        /\ \A t \in Threads : pc[t] = "body" => copied[t] \in Keys
    BY ThreadsAssumption DEF IndInv, TypeOK, CallInv, FoundInv
  <1>1. ASSUME NEW t \in Threads,
               \/ Call(t) \/ Lock(t) \/ UpdateFind(t) \/ UpdateAssign(t) \/ UpdateThrows(t)
               \/ Get(t) \/ Remove(t) \/ Find(t) \/ HandlerReturns(t) \/ HandlerUpdates(t)
        PROVE  StepsDown
    <2> USE DEF Goto, Call, Lock, UpdateFind, UpdateAssign, UpdateThrows, Get, Remove, Find,
                HandlerReturns, HandlerUpdates
    <2>1. /\ todo' = todo /\ copied' = copied
          /\ \A s \in Threads \ {t} : pc'[s] = pc[s]
      BY <1>0, <1>1
    <2>2. Rank[pc'[t]] < Rank[pc[t]]
      BY <1>0, <1>1, RankOf
    <2> QED
      BY <2>1, <2>2, OneDescends DEF Descends
  <1>2. ASSUME NEW t \in Threads, DumpPair(t) PROVE StepsDown
    <2>1. /\ todo' = todo /\ copied' = [copied EXCEPT ![t] = @ + 1] /\ pc[t] = "body"
          /\ pc' = [pc EXCEPT ![t] = IF copied[t] = MaxKey THEN "unlock" ELSE "body"]
      BY <1>2 DEF DumpPair, Goto
    <2>2. CASE copied[t] = MaxKey
      <3>1. Rank[pc'[t]] < Rank[pc[t]]
        BY <1>0, <2>1, <2>2, RankOf
      <3> QED
        BY <1>0, <2>1, <3>1, OneDescends DEF Descends
    <2>3. CASE copied[t] # MaxKey
      <3>1. copied'[t] = copied[t] + 1 /\ copied'[t] \in Keys /\ pc'[t] = pc[t]
        BY <1>0, <2>1, <2>3, KeyAssumption DEF Keys
      <3> QED
        BY <1>0, <2>1, <3>1, OneDescends DEF Descends
    <2> QED
      BY <2>2, <2>3
  <1>3. ASSUME NEW t \in Threads, Unlock(t) PROVE StepsDown
    <2>1. /\ pc'[t] = "idle" /\ todo'[t] = Tail(todo[t]) /\ todo[t] \in Seq(Calls) /\ todo[t] # <<>>
          /\ \A s \in Threads \ {t} : pc'[s] = pc[s] /\ todo'[s] = todo[s] /\ copied'[s] = copied[s]
      BY <1>0, <1>3 DEF Unlock, Goto
    <2>2. Len(Tail(todo[t])) = Len(todo[t]) - 1
      BY <2>1
    <2> QED
      BY <2>1, <2>2, OneDescends DEF Descends
  <1>4. CASE Async
    <2>1. /\ pc[Main] = "idle" /\ todo[Main] # <<>> /\ copied' = copied
          /\ todo' = [todo EXCEPT ![Main] = Tail(@)]
          /\ pc' = [t \in Threads |-> IF pc[t] = "none" THEN "idle" ELSE pc[t]]
      BY <1>4 DEF Async
    <2>2. Descends(Main) /\ \A t \in Threads \ {Main} : todo'[t] = todo[t]
      BY <1>0, <2>1, MainDescends
    <2>3. \A t \in Threads \ {Main} : pc'[t] = pc[t] \/ Rank[pc'[t]] < Rank[pc[t]]
      BY <2>1, RankOf
    <2> QED
      BY <1>0, <2>1, <2>2, <2>3 DEF StepsDown, Descends
  <1>5. CASE Join
    <2>1. /\ pc[Main] = "idle" /\ todo[Main] # <<>> /\ copied' = copied /\ pc' = pc
          /\ todo' = [todo EXCEPT ![Main] = Tail(@)]
      BY <1>5 DEF Join
    <2>2. Descends(Main) /\ \A t \in Threads \ {Main} : todo'[t] = todo[t]
      BY <1>0, <2>1, MainDescends
    <2> QED
      BY <1>0, <2>1, <2>2, OneDescends
  <1>6. ASSUME NEW t \in Threads, RelockThrows(t) PROVE StepsDown
    BY <1>6 DEF RelockThrows, StepsDown
  <1> QED
    BY <1>1, <1>2, <1>3, <1>4, <1>5, <1>6 DEF Next, Client, Step, Crash

\* While a call is under way some thread can step, unless a handler has called
\* the map it is shown: no thread goes to sleep with m_mutex.
THEOREM CallsNeverStuck == Spec => []CallsNotStuck
  BY Invariance, NotStuck, PTL

\* Each step brings a thread closer to the end of its script.
THEOREM EveryStepDescends == Spec => CallsDescend
  <1>1. IndInv /\ [Next]_vars => [StepsDown]_vars
    BY StepDescends
  <1> QED
    BY <1>1, Invariance, PTL DEF Spec, CallsDescend

-----------------------------------------------------------------------------
(* The map is atomic. *)

\* A call as its caller sees it, at each of its stages.
Seen(t, stage, found) ==
  [stage |-> stage, op |-> IF Op(t) = "FetchUpdates" THEN "Fetch" ELSE Op(t),
   key |-> Key(t), val |-> arg[t], ans |-> found]

AbsCalls == [t \in Threads |-> CallOf(t)]

StagesInv(t) ==
  /\ pc[t] \in {"none", "idle"} => CallOf(t) = Atomic!NoCall
  /\ pc[t] \in {"lock", "body", "assign", "fill"} => CallOf(t) = Seen(t, "pending", Empty)
  /\ pc[t] \in {"handler", "relock"} => CallOf(t) = Seen(t, "visiting", ans[t])
  /\ pc[t] = "unlock" => CallOf(t) = Seen(t, "answered", ans[t])
  /\ pc[t] = "unwind" => CallOf(t) = Seen(t, "threw", ans[t])

LEMMA Stages == IndInv => \A t \in Threads : StagesInv(t)
  <1> SUFFICES ASSUME IndInv, NEW t \in Threads PROVE StagesInv(t)
    OBVIOUS
  <1>1. FoundInv(t)
    BY DEF IndInv
  <1> QED
    BY <1>1 DEF FoundInv, StagesInv, CallOf, Seen, Atomic!NoCall, Atomic!Empty, Empty

\* A step of one thread changes the call of that thread only.
LEMMA OthersKeepTheirCalls ==
  ASSUME NEW t \in Threads,
         \A s \in Threads \ {t} :
           pc'[s] = pc[s] /\ todo'[s] = todo[s] /\ arg'[s] = arg[s] /\ ans'[s] = ans[s]
  PROVE  AbsCalls' = [AbsCalls EXCEPT ![t] = CallOf(t)']
  <1>1. \A s \in Threads \ {t} : CallOf(s)' = CallOf(s)
    BY DEF CallOf, Op, Key
  <1> QED
    BY <1>1 DEF AbsCalls

\* With no value waiting to be overwritten, callers see the map as it is.
LEMMA DataIsMap == TypeOK /\ (\A t \in Threads : pc[t] # "fill") => Data = m_data
  BY DEF Data, TypeOK

\* A call is answered when its stage and what it has found change, only.
LEMMA AnswerOf ==
  ASSUME NEW t \in Threads, NEW stage, NEW found, NEW before, NEW sofar,
         CallOf(t) = Seen(t, before, sofar),
         AbsCalls' = [AbsCalls EXCEPT ![t] = Seen(t, stage, found)]
  PROVE  Atomic!Answer(t, stage, found)
  <1>1. [Seen(t, before, sofar) EXCEPT !.stage = stage, !.ans = found] = Seen(t, stage, found)
    <2>1. ASSUME NEW o, NEW k, NEW v
          PROVE  [[stage |-> before, op |-> o, key |-> k, val |-> v, ans |-> sofar]
                    EXCEPT !.stage = stage, !.ans = found]
                 = [stage |-> stage, op |-> o, key |-> k, val |-> v, ans |-> found]
      <3> DEFINE A == {before, stage, o, k, v, sofar, found}
                 R == [stage : A, op : A, key : A, val : A, ans : A]
                 r == [stage |-> before, op |-> o, key |-> k, val |-> v, ans |-> sofar]
      <3>1. r \in R /\ [stage |-> stage, op |-> o, key |-> k, val |-> v, ans |-> found] \in R
        OBVIOUS
      <3>2. stage \in A /\ found \in A
        OBVIOUS
      <3> DEFINE x == [r EXCEPT !.stage = stage, !.ans = found]
      <3>3. /\ x \in R
            /\ x.stage = stage /\ x.op = r.op /\ x.key = r.key /\ x.val = r.val /\ x.ans = found
        <4> HIDE DEF A, r
        <4> QED
          BY <3>1, <3>2
      <3>4. r.op = o /\ r.key = k /\ r.val = v
        OBVIOUS
      <3> HIDE DEF A, r, x
      <3>5. x = [stage |-> x.stage, op |-> x.op, key |-> x.key, val |-> x.val, ans |-> x.ans]
        BY <3>3
      <3> QED
        BY <3>3, <3>4, <3>5 DEF x, r
    <2> QED
      BY <2>1 DEF Seen
  <1>2. AbsCalls[t] = Seen(t, before, sofar)
    BY DEF AbsCalls
  <1>3. AbsCalls' = [AbsCalls EXCEPT ![t].stage = stage, ![t].ans = found]
    BY <1>1, <1>2
  <1> QED
    BY <1>3 DEF Atomic!Answer, AbsCalls

\* The thread inside an operation is the only one, so that no handler runs and
\* no value waits to be overwritten but its own.
LEMMA OneInside ==
  ASSUME IndInv, NEW t \in Threads, pc[t] \in Holding
  PROVE  /\ \A s \in Threads \ {t} : pc[s] \notin Holding
         /\ \A s \in Threads \ {t} : CallOf(s).stage # "visiting"
  <1>1. TypeOK /\ \A s \in Threads : StagesInv(s)
    BY Stages DEF IndInv
  <1>2. \A s \in Threads \ {t} : pc[s] \notin Holding
    BY <1>1 DEF TypeOK
  <1>3. ASSUME NEW s \in Threads \ {t} PROVE CallOf(s).stage # "visiting"
    <2>1. pc[s] \in {"none", "idle", "lock"}
      BY <1>1, <1>2, <1>3 DEF TypeOK, Points
    <2>2. CallOf(s) = Atomic!NoCall \/ CallOf(s) = Seen(s, "pending", Empty)
      BY <1>1, <2>1 DEF StagesInv
    <2> QED
      BY <2>2 DEF Seen, Atomic!NoCall
  <1> QED
    BY <1>2, <1>3

LEMMA InitRefines == Init => Atomic!Init
  <1> SUFFICES ASSUME Init PROVE Atomic!Init
    OBVIOUS
  <1>1. IndInv
    BY InitIndInv
  <1>2. \A t \in Threads : pc[t] \in {"none", "idle"}
    BY DEF Init
  <1>3. Data = m_data
    BY <1>1, <1>2, DataIsMap DEF IndInv
  <1>4. \A t \in Threads : CallOf(t) = Atomic!NoCall
    BY <1>1, <1>2, Stages DEF StagesInv
  <1> QED
    BY <1>3, <1>4 DEF Init, Atomic!Init, Atomic!Empty, Empty

\* Each step of the map is a step of the atomic map, or changes nothing that a
\* caller sees.
LEMMA StepRefines == IndInv /\ IndInv' /\ [Next]_vars => [Atomic!Next]_(Atomic!vars)
  <1> SUFFICES ASSUME IndInv, IndInv', [Next]_vars PROVE [Atomic!Next]_(Atomic!vars)
    OBVIOUS
  <1>t. TypeOK /\ TypeOK' /\ \A t \in Threads : CallInv(t) /\ FoundInv(t) /\ ShownInv(t)
    BY DEF IndInv
  <1>s. \A t \in Threads : StagesInv(t) /\ StagesInv(t)'
    <2>1. \A t \in Threads : StagesInv(t)
      BY Stages
    <2>2. (\A t \in Threads : StagesInv(t))'
      BY Stages, PTL
    <2> QED
      BY <2>1, <2>2
  <1>d. /\ (\A t \in Threads : pc[t] # "fill") => Data = m_data
        /\ (\A t \in Threads : pc'[t] # "fill") => Data' = m_data'
    <2>1. (TypeOK /\ (\A t \in Threads : pc[t] # "fill") => Data = m_data)'
      BY DataIsMap, PTL
    <2> QED
      BY <2>1, <1>t, DataIsMap
  <1>h. \A t \in Threads : todo[t] # <<>> => Key(t) \in Keys
    BY <1>t, HeadOfTodo
  <1>stay. ASSUME Data' = Data, AbsCalls' = AbsCalls PROVE UNCHANGED Atomic!vars
    BY <1>stay DEF AbsCalls, Atomic!vars
  <1>1. CASE UNCHANGED vars
    <2>1. Data' = Data
      BY <1>1 DEF vars, Data, Key
    <2>2. AbsCalls' = AbsCalls
      BY <1>1 DEF vars, AbsCalls, CallOf, Op, Key
    <2> QED
      BY <2>1, <2>2, <1>stay
  <1>2. CASE Client
    <2>1. \A t \in Threads : CallOf(t)' = CallOf(t)
      BY <1>2, <1>s, <1>t DEF Client, Async, Join, StagesInv, CallOf, Op, Key, TypeOK
    <2>2. \A t \in Threads : /\ pc'[t] = "fill" <=> pc[t] = "fill"
                             /\ pc[t] = "fill" => todo'[t] = todo[t]
      BY <1>2, <1>t, ThreadsAssumption DEF Client, Async, Join, TypeOK
    <2>3. m_data' = m_data
      BY <1>2 DEF Client, Async, Join
    <2>4. Data' = Data
      BY <2>2, <2>3 DEF Data, Key
    <2> QED
      BY <2>1, <2>4, <1>stay DEF AbsCalls
  <1>3. ASSUME NEW t \in Threads, Call(t) PROVE Atomic!Next
    <2>1. PICK v \in Values : arg' = [arg EXCEPT ![t] = IF Op(t) = "Update" THEN v ELSE Absent]
      BY <1>3 DEF Call
    <2> DEFINE w == IF Op(t) = "Update" THEN v ELSE Absent
               o == IF Op(t) = "FetchUpdates" THEN "Fetch" ELSE Op(t)
    <2>2. pc[t] = "idle" /\ pc'[t] = "lock" /\ todo[t] # <<>> /\ arg'[t] = w /\ todo' = todo
      BY <1>3, <2>1, <1>t DEF Call, Goto, TypeOK
    <2>3. AbsCalls' = [AbsCalls EXCEPT ![t] = CallOf(t)']
      BY <1>3, <1>t, OthersKeepTheirCalls DEF Call, Goto, TypeOK
    <2>4. CallOf(t) = Atomic!NoCall /\ CallOf(t)' = Seen(t, "pending", Empty)'
      BY <2>2, <1>s DEF StagesInv
    <2>5. Seen(t, "pending", Empty)' = [stage |-> "pending", op |-> o, key |-> Key(t), val |-> w,
                                        ans |-> Atomic!Empty]
      BY <2>2 DEF Seen, Op, Key, Empty, Atomic!Empty
    <2>6. Data' = Data
      BY <1>3, <1>t DEF Call, Goto, Data, Key, TypeOK
    <2>7. o \in Atomic!Operations /\ Key(t) \in Keys /\ w \in Values \cup {Absent}
      BY <1>3, <2>2, <1>h, <1>t, HeadOfTodo DEF Call, Atomic!Operations
    <2>8. Atomic!Invoke(t, o, Key(t), w)
      BY <2>3, <2>4, <2>5, <2>6 DEF Atomic!Invoke, AbsCalls
    <2> HIDE DEF w, o
    <2> QED
      BY <2>7, <2>8 DEF Atomic!Next
  <1>4. ASSUME NEW t \in Threads, Lock(t) PROVE UNCHANGED Atomic!vars
    <2>1. pc[t] = "lock" /\ pc'[t] = "body" /\ UNCHANGED <<todo, arg, ans, m_data>>
      BY <1>4, <1>t DEF Lock, Goto, TypeOK
    <2>2. AbsCalls' = [AbsCalls EXCEPT ![t] = CallOf(t)']
      BY <1>4, <1>t, OthersKeepTheirCalls DEF Lock, Goto, TypeOK
    <2>3. CallOf(t)' = CallOf(t)
      BY <2>1, <1>s DEF StagesInv, Seen, Op, Key
    <2>4. Data' = Data
      BY <1>4, <1>t DEF Lock, Goto, Data, Key, TypeOK
    <2> QED
      BY <2>2, <2>3, <2>4, <1>stay DEF AbsCalls
  <1>5. ASSUME NEW t \in Threads, Unlock(t) PROVE Atomic!Next
    <2>1. pc[t] \in {"unlock", "unwind"} /\ pc'[t] = "idle"
      BY <1>5, <1>t DEF Unlock, Goto, TypeOK
    <2>2. AbsCalls' = [AbsCalls EXCEPT ![t] = CallOf(t)']
      BY <1>5, <1>t, OthersKeepTheirCalls DEF Unlock, Goto, TypeOK
    <2>3. CallOf(t)' = Atomic!NoCall' /\ CallOf(t).stage \in {"answered", "threw"}
      BY <2>1, <1>s DEF StagesInv, Seen
    <2>4. \A s \in Threads : pc[s] # "fill" /\ pc'[s] # "fill"
      BY <1>5, <1>t, <2>1 DEF Unlock, Goto, TypeOK, Holding
    <2>5. Data' = Data
      BY <2>4, <1>d, <1>5 DEF Unlock
    <2>6. Atomic!Return(t)
      BY <2>2, <2>3, <2>5 DEF Atomic!Return, AbsCalls, Atomic!NoCall, Atomic!Empty
    <2> QED
      BY <2>6 DEF Atomic!Next
  <1>6. ASSUME NEW t \in Threads, pc[t] \in Holding, pc'[t] \in Holding,
               pc' = [pc EXCEPT ![t] = pc'[t]],
               UNCHANGED <<todo, arg, crashed>>,
               \A s \in Threads \ {t} : ans'[s] = ans[s],
               \A s \in Threads \ {t} : pc[s] \notin Holding
        PROVE  /\ AbsCalls' = [AbsCalls EXCEPT ![t] = CallOf(t)']
               /\ Op(t)' = Op(t) /\ Key(t)' = Key(t) /\ arg'[t] = arg[t]
               /\ pc[t] # "fill" => Data = m_data
               /\ pc'[t] # "fill" => Data' = m_data'
               /\ pc[t] = "fill" => Data = [m_data EXCEPT ![Key(t)] = Absent]
               /\ pc'[t] = "fill" => Data' = [m_data' EXCEPT ![Key(t)] = Absent]
    <2>1. \A s \in Threads \ {t} : pc'[s] = pc[s]
      BY <1>6, <1>t DEF TypeOK
    <2>2. AbsCalls' = [AbsCalls EXCEPT ![t] = CallOf(t)']
      BY <1>6, <2>1, OthersKeepTheirCalls
    <2>3. \A s \in Threads \ {t} : pc[s] # "fill" /\ pc'[s] # "fill"
      BY <1>6, <2>1 DEF Holding
    <2>4. Key(t)' = Key(t)
      BY <1>6 DEF Key
    <2>5. pc[t] = "fill" => Data = [m_data EXCEPT ![Key(t)] = Absent]
      BY <2>3, <1>t DEF Data, TypeOK
    <2>6. pc'[t] = "fill" => Data' = [m_data' EXCEPT ![Key(t)] = Absent]
      <3>1. ASSUME pc'[t] = "fill", NEW k \in Keys
            PROVE  (\E s \in Threads : pc'[s] = "fill" /\ Key(s)' = k) <=> k = Key(t)
        BY <3>1, <2>3, <2>4
      <3> QED
        BY <3>1, <1>t DEF Data, TypeOK
    <2> QED
      BY <1>6, <1>d, <2>2, <2>3, <2>4, <2>5, <2>6 DEF Op, Key
  <1>7. ASSUME NEW t \in Threads, UpdateFind(t) PROVE UNCHANGED Atomic!vars
    <2>1. pc[t] = "body" /\ pc'[t] \in {"assign", "fill"} /\ UNCHANGED <<todo, arg, crashed>>
      BY <1>7, <1>t DEF UpdateFind, Goto, TypeOK
    <2>2. pc' = [pc EXCEPT ![t] = pc'[t]] /\ \A s \in Threads \ {t} : ans'[s] = ans[s]
      BY <1>7, <1>t DEF UpdateFind, Goto, TypeOK
    <2>3. /\ \A s \in Threads \ {t} : pc[s] \notin Holding
          /\ \A s \in Threads \ {t} : CallOf(s).stage # "visiting"
      BY <2>1, OneInside DEF Holding
    <2>4. /\ AbsCalls' = [AbsCalls EXCEPT ![t] = CallOf(t)']
          /\ Op(t)' = Op(t) /\ Key(t)' = Key(t) /\ arg'[t] = arg[t]
          /\ pc[t] # "fill" => Data = m_data
          /\ pc'[t] # "fill" => Data' = m_data'
          /\ pc[t] = "fill" => Data = [m_data EXCEPT ![Key(t)] = Absent]
          /\ pc'[t] = "fill" => Data' = [m_data' EXCEPT ![Key(t)] = Absent]
      BY <2>1, <2>2, <2>3, <1>6 DEF Holding
    <2>5. CallOf(t)' = CallOf(t)
      BY <2>1, <2>4, <1>s DEF StagesInv, Seen
    <2>6. Data' = Data
      BY <2>1, <2>4, <1>7, <1>t, <1>h DEF UpdateFind, Goto, TypeOK, CallInv
    <2> QED
      BY <2>4, <2>5, <2>6, <1>stay DEF AbsCalls
  <1>8. ASSUME NEW t \in Threads, UpdateAssign(t) PROVE Atomic!Next
    <2>1. pc[t] \in {"assign", "fill"} /\ pc'[t] = "unlock" /\ UNCHANGED <<todo, arg, crashed>>
      BY <1>8, <1>t DEF UpdateAssign, Goto, TypeOK
    <2>2. pc' = [pc EXCEPT ![t] = pc'[t]] /\ \A s \in Threads \ {t} : ans'[s] = ans[s]
      BY <1>8, <1>t DEF UpdateAssign, Goto, TypeOK
    <2>3. /\ \A s \in Threads \ {t} : pc[s] \notin Holding
          /\ \A s \in Threads \ {t} : CallOf(s).stage # "visiting"
      BY <2>1, OneInside DEF Holding
    <2>4. /\ AbsCalls' = [AbsCalls EXCEPT ![t] = CallOf(t)']
          /\ Op(t)' = Op(t) /\ Key(t)' = Key(t) /\ arg'[t] = arg[t]
          /\ pc[t] # "fill" => Data = m_data
          /\ pc'[t] # "fill" => Data' = m_data'
          /\ pc[t] = "fill" => Data = [m_data EXCEPT ![Key(t)] = Absent]
          /\ pc'[t] = "fill" => Data' = [m_data' EXCEPT ![Key(t)] = Absent]
      BY <2>1, <2>2, <2>3, <1>6 DEF Holding
    <2>5. CallOf(t) = Seen(t, "pending", Empty) /\ CallOf(t)' = Seen(t, "answered", ans[t])'
      BY <2>1, <1>s DEF StagesInv
    <2>6. ans'[t] = Empty /\ Op(t) = "Update" /\ todo[t] # <<>>
      BY <2>1, <1>8, <1>t DEF UpdateAssign, FoundInv, CallInv
    <2>7. Seen(t, "answered", ans[t])' = Seen(t, "answered", Empty)
      BY <2>4, <2>6 DEF Seen, Empty
    <2>8. Data' = [Data EXCEPT ![Key(t)] = arg[t]]
      <3>1. Key(t) \in Keys /\ m_data' = [m_data EXCEPT ![Key(t)] = arg[t]]
        BY <1>8, <2>6, <1>h DEF UpdateAssign
      <3> QED
        BY <3>1, <2>1, <2>4, <1>t DEF TypeOK
    <2>9. Atomic!Answer(t, "answered", Atomic!Empty)
      BY <2>4, <2>5, <2>7, AnswerOf DEF Empty, Atomic!Empty
    <2>10. CallOf(t).key = Key(t) /\ CallOf(t).val = arg[t] /\ CallOf(t).op = "Update"
           /\ CallOf(t).stage = "pending"
      BY <2>5, <2>6 DEF Seen
    <2>11. Atomic!Takes(t, "Update")
      BY <2>3, <2>10 DEF Atomic!Takes
    <2>12. Atomic!Update(t)
      BY <2>8, <2>9, <2>10, <2>11 DEF Atomic!Update
    <2> QED
      BY <2>12 DEF Atomic!Next
  <1>9. ASSUME NEW t \in Threads, UpdateThrows(t) PROVE Atomic!Next
    <2>1. pc[t] \in {"body", "assign", "fill"} /\ pc'[t] = "unwind" /\ UNCHANGED <<todo, arg, crashed>>
      BY <1>9, <1>t DEF UpdateThrows, Goto, TypeOK
    <2>2. pc' = [pc EXCEPT ![t] = pc'[t]] /\ \A s \in Threads \ {t} : ans'[s] = ans[s]
      BY <1>9, <1>t DEF UpdateThrows, Goto, TypeOK
    <2>3. /\ \A s \in Threads \ {t} : pc[s] \notin Holding
          /\ \A s \in Threads \ {t} : CallOf(s).stage # "visiting"
      BY <2>1, OneInside DEF Holding
    <2>4. /\ AbsCalls' = [AbsCalls EXCEPT ![t] = CallOf(t)']
          /\ Op(t)' = Op(t) /\ Key(t)' = Key(t) /\ arg'[t] = arg[t]
          /\ pc[t] # "fill" => Data = m_data
          /\ pc'[t] # "fill" => Data' = m_data'
          /\ pc[t] = "fill" => Data = [m_data EXCEPT ![Key(t)] = Absent]
          /\ pc'[t] = "fill" => Data' = [m_data' EXCEPT ![Key(t)] = Absent]
      BY <2>1, <2>2, <2>3, <1>6 DEF Holding
    <2>5. CallOf(t) = Seen(t, "pending", Empty) /\ CallOf(t)' = Seen(t, "threw", ans[t])'
      BY <2>1, <1>s DEF StagesInv
    <2>6. ans'[t] = Empty /\ Op(t) = "Update" /\ todo[t] # <<>> /\ m_data' = m_data
      BY <2>1, <1>9, <1>t DEF UpdateThrows, FoundInv, CallInv
    <2>7. Seen(t, "threw", ans[t])' = Seen(t, "threw", Empty)
      BY <2>4, <2>6 DEF Seen, Empty
    <2>8. \/ Data' = Data
          \/ Data[Key(t)] = Absent /\ Data' = [Data EXCEPT ![Key(t)] = Default]
      <3>1. CASE pc[t] # "fill"
        BY <3>1, <2>1, <2>4, <2>6
      <3>2. CASE pc[t] = "fill"
        <4>1. m_data[Key(t)] = Default /\ Key(t) \in Keys
          BY <3>2, <2>6, <1>h DEF IndInv
        <4> QED
          BY <3>2, <4>1, <2>1, <2>4, <2>6, <1>t DEF TypeOK
      <3> QED
        BY <3>1, <3>2
    <2>9. Atomic!Answer(t, "threw", Atomic!Empty)
      BY <2>4, <2>5, <2>7, AnswerOf DEF Empty, Atomic!Empty
    <2>10. CallOf(t).key = Key(t) /\ CallOf(t).val = arg[t] /\ CallOf(t).op = "Update"
           /\ CallOf(t).stage = "pending"
      BY <2>5, <2>6 DEF Seen
    <2>11. Atomic!Takes(t, "Update")
      BY <2>3, <2>10 DEF Atomic!Takes
    <2>12. Atomic!UpdateFails(t)
      BY <2>8, <2>9, <2>10, <2>11 DEF Atomic!UpdateFails
    <2> QED
      BY <2>12 DEF Atomic!Next
  <1>10. ASSUME NEW t \in Threads, Get(t) PROVE Atomic!Next
    <2>1. pc[t] = "body" /\ pc'[t] = "unlock" /\ UNCHANGED <<todo, arg, crashed>>
      BY <1>10, <1>t DEF Get, Goto, TypeOK
    <2>2. pc' = [pc EXCEPT ![t] = pc'[t]] /\ \A s \in Threads \ {t} : ans'[s] = ans[s]
      BY <1>10, <1>t DEF Get, Goto, TypeOK
    <2>3. /\ \A s \in Threads \ {t} : pc[s] \notin Holding
          /\ \A s \in Threads \ {t} : CallOf(s).stage # "visiting"
      BY <2>1, OneInside DEF Holding
    <2>4. /\ AbsCalls' = [AbsCalls EXCEPT ![t] = CallOf(t)']
          /\ Op(t)' = Op(t) /\ Key(t)' = Key(t) /\ arg'[t] = arg[t]
          /\ pc[t] # "fill" => Data = m_data
          /\ pc'[t] # "fill" => Data' = m_data'
          /\ pc[t] = "fill" => Data = [m_data EXCEPT ![Key(t)] = Absent]
          /\ pc'[t] = "fill" => Data' = [m_data' EXCEPT ![Key(t)] = Absent]
      BY <2>1, <2>2, <2>3, <1>6 DEF Holding
    <2>5. CallOf(t) = Seen(t, "pending", Empty) /\ CallOf(t)' = Seen(t, "answered", ans[t])'
      BY <2>1, <1>s DEF StagesInv
    <2>6. Op(t) = "Get" /\ ans[t] = Empty /\ m_data' = m_data /\ todo[t] # <<>>
      BY <2>1, <1>10, <1>t DEF Get, FoundInv, CallInv
    <2>7. ans'[t] = [Empty EXCEPT ![Key(t)] = m_data[Key(t)]]
      BY <1>10, <2>6, <1>t DEF Get, TypeOK
    <2>8. ans'[t] = Atomic!Pair(Key(t)) /\ Data' = Data
      BY <2>1, <2>4, <2>6, <2>7 DEF Atomic!Pair, Atomic!Empty, Empty
    <2>9. Atomic!Answer(t, "answered", Atomic!Pair(Key(t)))
      <3>1. Seen(t, "answered", ans[t])' = Seen(t, "answered", Atomic!Pair(Key(t)))
        BY <2>4, <2>8 DEF Seen
      <3> QED
        BY <3>1, <2>4, <2>5, AnswerOf
    <2>10. CallOf(t).key = Key(t) /\ CallOf(t).val = arg[t] /\ CallOf(t).op = "Get"
           /\ CallOf(t).stage = "pending"
      BY <2>5, <2>6 DEF Seen
    <2>11. Atomic!Takes(t, "Get")
      BY <2>3, <2>10 DEF Atomic!Takes
    <2>12. Atomic!Get(t)
      BY <2>8, <2>9, <2>10, <2>11 DEF Atomic!Get
    <2> QED
      BY <2>12 DEF Atomic!Next
  <1>11. ASSUME NEW t \in Threads, Remove(t) PROVE Atomic!Next
    <2>1. pc[t] = "body" /\ pc'[t] = "unlock" /\ UNCHANGED <<todo, arg, crashed>>
      BY <1>11, <1>t DEF Remove, Goto, TypeOK
    <2>2. pc' = [pc EXCEPT ![t] = pc'[t]] /\ \A s \in Threads \ {t} : ans'[s] = ans[s]
      BY <1>11, <1>t DEF Remove, Goto, TypeOK
    <2>3. /\ \A s \in Threads \ {t} : pc[s] \notin Holding
          /\ \A s \in Threads \ {t} : CallOf(s).stage # "visiting"
      BY <2>1, OneInside DEF Holding
    <2>4. /\ AbsCalls' = [AbsCalls EXCEPT ![t] = CallOf(t)']
          /\ Op(t)' = Op(t) /\ Key(t)' = Key(t) /\ arg'[t] = arg[t]
          /\ pc[t] # "fill" => Data = m_data
          /\ pc'[t] # "fill" => Data' = m_data'
          /\ pc[t] = "fill" => Data = [m_data EXCEPT ![Key(t)] = Absent]
          /\ pc'[t] = "fill" => Data' = [m_data' EXCEPT ![Key(t)] = Absent]
      BY <2>1, <2>2, <2>3, <1>6 DEF Holding
    <2>5. CallOf(t) = Seen(t, "pending", Empty) /\ CallOf(t)' = Seen(t, "answered", ans[t])'
      BY <2>1, <1>s DEF StagesInv
    <2>6. ans'[t] = Empty /\ Op(t) = "Remove" /\ todo[t] # <<>>
      BY <2>1, <1>11, <1>t DEF Remove, FoundInv, CallInv
    <2>7. Seen(t, "answered", ans[t])' = Seen(t, "answered", Empty)
      BY <2>4, <2>6 DEF Seen, Empty
    <2>8. Data' = [Data EXCEPT ![Key(t)] = Absent]
      BY <1>11, <2>1, <2>4 DEF Remove
    <2>9. Atomic!Answer(t, "answered", Atomic!Empty)
      BY <2>4, <2>5, <2>7, AnswerOf DEF Empty, Atomic!Empty
    <2>10. CallOf(t).key = Key(t) /\ CallOf(t).val = arg[t] /\ CallOf(t).op = "Remove"
           /\ CallOf(t).stage = "pending"
      BY <2>5, <2>6 DEF Seen
    <2>11. Atomic!Takes(t, "Remove")
      BY <2>3, <2>10 DEF Atomic!Takes
    <2>12. Atomic!Remove(t)
      BY <2>8, <2>9, <2>10, <2>11 DEF Atomic!Remove
    <2> QED
      BY <2>12 DEF Atomic!Next
  <1>12. ASSUME NEW t \in Threads, Find(t) PROVE Atomic!Next
    <2>1. pc[t] = "body" /\ pc'[t] \in {"handler", "unlock"} /\ UNCHANGED <<todo, arg, crashed>>
      BY <1>12, <1>t DEF Find, Goto, TypeOK
    <2>2. pc' = [pc EXCEPT ![t] = pc'[t]] /\ \A s \in Threads \ {t} : ans'[s] = ans[s]
      BY <1>12, <1>t DEF Find, Goto, TypeOK
    <2>3. /\ \A s \in Threads \ {t} : pc[s] \notin Holding
          /\ \A s \in Threads \ {t} : CallOf(s).stage # "visiting"
      BY <2>1, OneInside DEF Holding
    <2>4. /\ AbsCalls' = [AbsCalls EXCEPT ![t] = CallOf(t)']
          /\ Op(t)' = Op(t) /\ Key(t)' = Key(t) /\ arg'[t] = arg[t]
          /\ pc[t] # "fill" => Data = m_data
          /\ pc'[t] # "fill" => Data' = m_data'
          /\ pc[t] = "fill" => Data = [m_data EXCEPT ![Key(t)] = Absent]
          /\ pc'[t] = "fill" => Data' = [m_data' EXCEPT ![Key(t)] = Absent]
      BY <2>1, <2>2, <2>3, <1>6 DEF Holding
    <2>5. CallOf(t) = Seen(t, "pending", Empty)
      BY <2>1, <1>s DEF StagesInv
    <2>6. Op(t) \in {"Fetch", "FetchUpdates"} /\ ans[t] = Empty /\ m_data' = m_data /\ todo[t] # <<>>
      BY <2>1, <1>12, <1>t DEF Find, FoundInv, CallInv
    <2>7. ans'[t] = [Empty EXCEPT ![Key(t)] = m_data[Key(t)]]
      BY <1>12, <2>6, <1>t DEF Find, TypeOK
    <2>8. ans'[t] = Atomic!Pair(Key(t)) /\ Data' = Data /\ Data = m_data
      BY <2>1, <2>4, <2>6, <2>7 DEF Atomic!Pair, Atomic!Empty, Empty
    <2> DEFINE stage == IF Data[Key(t)] = Absent THEN "answered" ELSE "visiting"
    <2>9. Atomic!Answer(t, stage, Atomic!Pair(Key(t)))
      <3>1. Seen(t, stage, ans'[t]) = CallOf(t)'
        <4>1. CASE m_data[Key(t)] = Absent
          <5>1. pc'[t] = "unlock"
            BY <4>1, <1>12, <1>t DEF Find, Goto, TypeOK
          <5>2. CallOf(t)' = Seen(t, "answered", ans[t])'
            BY <5>1, <1>s DEF StagesInv
          <5> QED
            BY <4>1, <5>2, <2>4, <2>8 DEF Seen
        <4>2. CASE m_data[Key(t)] # Absent
          <5>1. pc'[t] = "handler"
            BY <4>2, <1>12, <1>t DEF Find, Goto, TypeOK
          <5>2. CallOf(t)' = Seen(t, "visiting", ans[t])'
            BY <5>1, <1>s DEF StagesInv
          <5> QED
            BY <4>2, <5>2, <2>4, <2>8 DEF Seen
        <4> QED
          BY <4>1, <4>2
      <3> HIDE DEF stage
      <3> QED
        BY <3>1, <2>4, <2>5, <2>8, AnswerOf
    <2>10. CallOf(t).key = Key(t) /\ CallOf(t).val = arg[t] /\ CallOf(t).op = "Fetch"
           /\ CallOf(t).stage = "pending"
      BY <2>5, <2>6 DEF Seen
    <2>11. Atomic!Takes(t, "Fetch")
      BY <2>3, <2>10 DEF Atomic!Takes
    <2>12. Atomic!Fetch(t)
      BY <2>8, <2>9, <2>10, <2>11 DEF Atomic!Fetch
    <2> QED
      BY <2>12 DEF Atomic!Next
  <1>13. ASSUME NEW t \in Threads, HandlerReturns(t) PROVE Atomic!Next
    <2>1. pc[t] = "handler" /\ pc'[t] = "unlock" /\ UNCHANGED <<todo, arg, crashed>>
      BY <1>13, <1>t DEF HandlerReturns, Goto, TypeOK
    <2>2. pc' = [pc EXCEPT ![t] = pc'[t]] /\ \A s \in Threads \ {t} : ans'[s] = ans[s]
      BY <1>13, <1>t DEF HandlerReturns, Goto, TypeOK
    <2>3. /\ \A s \in Threads \ {t} : pc[s] \notin Holding
          /\ \A s \in Threads \ {t} : CallOf(s).stage # "visiting"
      BY <2>1, OneInside DEF Holding
    <2>4. /\ AbsCalls' = [AbsCalls EXCEPT ![t] = CallOf(t)']
          /\ Op(t)' = Op(t) /\ Key(t)' = Key(t) /\ arg'[t] = arg[t]
          /\ pc[t] # "fill" => Data = m_data
          /\ pc'[t] # "fill" => Data' = m_data'
          /\ pc[t] = "fill" => Data = [m_data EXCEPT ![Key(t)] = Absent]
          /\ pc'[t] = "fill" => Data' = [m_data' EXCEPT ![Key(t)] = Absent]
      BY <2>1, <2>2, <2>3, <1>6 DEF Holding
    <2>5. /\ CallOf(t) = Seen(t, "visiting", ans[t])
          /\ CallOf(t)' = Seen(t, "answered", ans[t])'
      BY <2>1, <1>s DEF StagesInv
    <2>6. ans' = ans /\ Data' = Data
      BY <1>13, <2>1, <2>4 DEF HandlerReturns
    <2>7. Seen(t, "answered", ans[t])' = Seen(t, "answered", ans[t])
      BY <2>4, <2>6 DEF Seen
    <2>8. CallOf(t).stage = "visiting" /\ CallOf(t).ans = ans[t]
      BY <2>5 DEF Seen
    <2>9. Atomic!Answer(t, "answered", ans[t])
      BY <2>4, <2>5, <2>7, AnswerOf
    <2>10. Atomic!HandlerReturns(t)
      BY <2>6, <2>8, <2>9 DEF Atomic!HandlerReturns
    <2> QED
      BY <2>10 DEF Atomic!Next
  <1>14. ASSUME NEW t \in Threads, HandlerUpdates(t) PROVE UNCHANGED Atomic!vars
    <2>1. pc[t] = "handler" /\ pc'[t] = "relock" /\ UNCHANGED <<todo, arg, crashed>>
      BY <1>14, <1>t DEF HandlerUpdates, Goto, TypeOK
    <2>2. pc' = [pc EXCEPT ![t] = pc'[t]] /\ \A s \in Threads \ {t} : ans'[s] = ans[s]
      BY <1>14, <1>t DEF HandlerUpdates, Goto, TypeOK
    <2>3. /\ \A s \in Threads \ {t} : pc[s] \notin Holding
          /\ \A s \in Threads \ {t} : CallOf(s).stage # "visiting"
      BY <2>1, OneInside DEF Holding
    <2>4. /\ AbsCalls' = [AbsCalls EXCEPT ![t] = CallOf(t)']
          /\ Op(t)' = Op(t) /\ Key(t)' = Key(t) /\ arg'[t] = arg[t]
          /\ pc[t] # "fill" => Data = m_data
          /\ pc'[t] # "fill" => Data' = m_data'
          /\ pc[t] = "fill" => Data = [m_data EXCEPT ![Key(t)] = Absent]
          /\ pc'[t] = "fill" => Data' = [m_data' EXCEPT ![Key(t)] = Absent]
      BY <2>1, <2>2, <2>3, <1>6 DEF Holding
    <2>5. ans' = ans /\ Data' = Data
      BY <1>14, <2>1, <2>4 DEF HandlerUpdates
    <2>6. CallOf(t)' = CallOf(t)
      BY <2>1, <2>4, <2>5, <1>s DEF StagesInv, Seen
    <2> QED
      BY <2>4, <2>5, <2>6, <1>stay DEF AbsCalls
  <1>15. ASSUME NEW t \in Threads, RelockThrows(t) PROVE UNCHANGED Atomic!vars
    <2>1. UNCHANGED <<m_data, pc, todo, arg, ans>>
      BY <1>15 DEF RelockThrows
    <2>2. Data' = Data
      BY <2>1 DEF Data, Key
    <2>3. AbsCalls' = AbsCalls
      BY <2>1 DEF AbsCalls, CallOf, Op, Key
    <2> QED
      BY <2>2, <2>3, <1>stay
  <1>16. ASSUME NEW t \in Threads, DumpPair(t) PROVE [Atomic!Next]_(Atomic!vars)
    <2>1. pc[t] = "body" /\ pc'[t] \in {"body", "unlock"} /\ UNCHANGED <<todo, arg, crashed>>
      BY <1>16, <1>t DEF DumpPair, Goto, TypeOK
    <2>2. pc' = [pc EXCEPT ![t] = pc'[t]] /\ \A s \in Threads \ {t} : ans'[s] = ans[s]
      BY <1>16, <1>t DEF DumpPair, Goto, TypeOK
    <2>3. /\ \A s \in Threads \ {t} : pc[s] \notin Holding
          /\ \A s \in Threads \ {t} : CallOf(s).stage # "visiting"
      BY <2>1, OneInside DEF Holding
    <2>4. /\ AbsCalls' = [AbsCalls EXCEPT ![t] = CallOf(t)']
          /\ Op(t)' = Op(t) /\ Key(t)' = Key(t) /\ arg'[t] = arg[t]
          /\ pc[t] # "fill" => Data = m_data
          /\ pc'[t] # "fill" => Data' = m_data'
          /\ pc[t] = "fill" => Data = [m_data EXCEPT ![Key(t)] = Absent]
          /\ pc'[t] = "fill" => Data' = [m_data' EXCEPT ![Key(t)] = Absent]
      BY <2>1, <2>2, <2>3, <1>6 DEF Holding
    <2>5. CallOf(t) = Seen(t, "pending", Empty)
      BY <2>1, <1>s DEF StagesInv
    <2>6. /\ Op(t) = "Dump" /\ todo[t] # <<>> /\ m_data' = m_data
          /\ pc'[t] = IF copied[t] = MaxKey THEN "unlock" ELSE "body"
          /\ copied[t] \in Keys /\ copied'[t] = copied[t] + 1
      BY <2>1, <1>16, <1>t DEF DumpPair, CallInv, Goto, TypeOK
    <2>7. Data' = Data /\ Data = m_data
      BY <2>1, <2>4, <2>6
    <2>8. CASE copied[t] # MaxKey
      <3>1. CallOf(t)' = CallOf(t)
        BY <2>8, <2>4, <2>5, <2>6, <1>s DEF StagesInv, Seen, Empty
      <3> QED
        BY <3>1, <2>4, <2>7, <1>stay DEF AbsCalls
    <2>9. CASE copied[t] = MaxKey
      <3>1. \A k \in Keys : ans'[t][k] = m_data[k]
        <4>1. ans'[t] = [ans[t] EXCEPT ![MaxKey] = m_data[MaxKey]] /\ ans[t] \in [Keys -> Vals]
          BY <2>9, <1>16, <1>t DEF DumpPair, TypeOK, Vals
        <4>2. \A k \in Keys : k # MaxKey => ans[t][k] = m_data[k]
          BY <2>9, <2>1, <1>t, KeyAssumption DEF FoundInv, Keys
        <4> QED
          BY <4>1, <4>2
      <3>2. ans'[t] = Data
        BY <3>1, <2>7, <1>t DEF TypeOK
      <3>3. CallOf(t)' = Seen(t, "answered", ans[t])' /\ Seen(t, "answered", ans[t])' = Seen(t, "answered", Data)
        BY <2>9, <2>4, <2>6, <3>2, <1>s DEF StagesInv, Seen
      <3>4. Atomic!Answer(t, "answered", Data)
        BY <3>3, <2>4, <2>5, AnswerOf
      <3>5. CallOf(t).key = Key(t) /\ CallOf(t).val = arg[t] /\ CallOf(t).op = "Dump"
             /\ CallOf(t).stage = "pending"
        BY <2>5, <2>6 DEF Seen
      <3>6. Atomic!Takes(t, "Dump")
        BY <2>3, <3>5 DEF Atomic!Takes
      <3>7. Atomic!Dump(t)
        BY <2>7, <3>4, <3>6 DEF Atomic!Dump
      <3> QED
        BY <3>7 DEF Atomic!Next
    <2> QED
      BY <2>8, <2>9
  <1> QED
    BY <1>1, <1>2, <1>3, <1>4, <1>5, <1>7, <1>8, <1>9, <1>10, <1>11, <1>12, <1>13, <1>14, <1>15,
       <1>16 DEF Next, Step, Crash

\* The map implements the atomic map: every operation takes effect at one instant
\* between its invocation and its return, and none while a handler runs.
THEOREM Refinement == Spec => Linearizable
  <1>1. Spec => []IndInv
    BY Invariance
  <1> QED
    BY <1>1, InitRefines, StepRefines, PTL DEF Spec, Linearizable, Atomic!Spec
=============================================================================

------------------------------- MODULE AtomicMap -------------------------------
(***************************************************************************)
(* What both concurrent maps of the repository promise: each operation     *)
(* takes effect at one instant between its invocation and its return, and  *)
(* while a Fetch shows its handler a pair nothing takes effect at all.     *)
(*                                                                         *)
(* An Update may end in an exception, which its caller sees.  It then has  *)
(* no effect, except that a key that was absent may be left with a         *)
(* default-constructed value.                                              *)
(***************************************************************************)
CONSTANTS Threads,   \* the callers
          Keys,
          Values,    \* what Update stores
          Default,   \* the default-constructed value
          Absent     \* no value

VARIABLES data,      \* the map
          calls      \* calls[t]: the call thread t is in

vars == <<data, calls>>

Operations == {"Update", "Get", "Remove", "Fetch", "Dump"}

\* What a caller learns is a partial map: all of it, one pair, or nothing.
Empty == [k \in Keys |-> Absent]
Pair(k) == [Empty EXCEPT ![k] = data[k]]

NoCall == [stage |-> "none", op |-> "none", key |-> Absent, val |-> Absent, ans |-> Empty]

Init ==
  /\ data = Empty
  /\ calls = [t \in Threads |-> NoCall]

Invoke(t, o, k, v) ==
  /\ calls[t] = NoCall
  /\ calls' = [calls EXCEPT ![t] = [stage |-> "pending", op |-> o, key |-> k, val |-> v,
                                    ans |-> Empty]]
  /\ UNCHANGED data

\* A call of operation o by t can take effect: no handler is running.
Takes(t, o) ==
  /\ calls[t].stage = "pending" /\ calls[t].op = o
  /\ \A s \in Threads : calls[s].stage # "visiting"

Answer(t, stage, ans) == calls' = [calls EXCEPT ![t].stage = stage, ![t].ans = ans]

Update(t) ==
  /\ Takes(t, "Update")
  /\ data' = [data EXCEPT ![calls[t].key] = calls[t].val]
  /\ Answer(t, "answered", Empty)

UpdateFails(t) ==
  /\ Takes(t, "Update")
  /\ \/ UNCHANGED data
     \/ data[calls[t].key] = Absent /\ data' = [data EXCEPT ![calls[t].key] = Default]
  /\ Answer(t, "threw", Empty)

Get(t) ==
  /\ Takes(t, "Get")
  /\ Answer(t, "answered", Pair(calls[t].key))
  /\ UNCHANGED data

Remove(t) ==
  /\ Takes(t, "Remove")
  /\ data' = [data EXCEPT ![calls[t].key] = Absent]
  /\ Answer(t, "answered", Empty)

\* The handler is called with the pair, if there is one.
Fetch(t) ==
  /\ Takes(t, "Fetch")
  /\ Answer(t, IF data[calls[t].key] = Absent THEN "answered" ELSE "visiting",
            Pair(calls[t].key))
  /\ UNCHANGED data

HandlerReturns(t) ==
  /\ calls[t].stage = "visiting"
  /\ Answer(t, "answered", calls[t].ans)
  /\ UNCHANGED data

Dump(t) ==
  /\ Takes(t, "Dump")
  /\ Answer(t, "answered", data)
  /\ UNCHANGED data

Return(t) ==
  /\ calls[t].stage \in {"answered", "threw"}
  /\ calls' = [calls EXCEPT ![t] = NoCall]
  /\ UNCHANGED data

Next ==
  \E t \in Threads :
    \/ \E o \in Operations, k \in Keys, v \in Values \cup {Absent} : Invoke(t, o, k, v)
    \/ Update(t) \/ UpdateFails(t) \/ Get(t) \/ Remove(t)
    \/ Fetch(t) \/ HandlerReturns(t) \/ Dump(t) \/ Return(t)

Spec == Init /\ [][Next]_vars
=============================================================================

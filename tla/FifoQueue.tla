------------------------------ MODULE FifoQueue ------------------------------
(***************************************************************************)
(* What both thread-safe queues of the repository promise their callers:   *)
(* every call takes effect at one instant between its invocation and its   *)
(* return (linearizability), values leave in the order they entered, and a *)
(* wait_and_pop answers only with a value.                                 *)
(*                                                                         *)
(* A push may also end in an exception (allocation failure), in which case *)
(* it has no effect.  The caller can tell: a push that returns has queued  *)
(* its value, a push that throws has not.                                  *)
(***************************************************************************)
EXTENDS Sequences

CONSTANTS Threads,   \* the callers
          Values,    \* what is pushed
          NoValue    \* "no value": an empty answer, or a call without one

VARIABLES items,     \* the queued values, oldest first
          calls      \* calls[t]: the call thread t is in

vars == <<items, calls>>

Operations == {"push", "wait_and_pop", "try_pop"}

NoCall         == [stage |-> "none", op |-> "none", val |-> NoValue]
Pending(o, v)  == [stage |-> "pending", op |-> o, val |-> v]
Answered(o, v) == [stage |-> "answered", op |-> o, val |-> v]
Threw(o)       == [stage |-> "threw", op |-> o, val |-> NoValue]

Init ==
  /\ items = <<>>
  /\ calls = [t \in Threads |-> NoCall]

Invoke(t, o, v) ==
  /\ calls[t] = NoCall
  /\ calls' = [calls EXCEPT ![t] = Pending(o, v)]
  /\ UNCHANGED items

Enqueue(t) ==
  /\ calls[t] = Pending("push", calls[t].val)
  /\ items' = Append(items, calls[t].val)
  /\ calls' = [calls EXCEPT ![t] = Answered("push", NoValue)]

\* Nothing is queued, and the caller gets an exception.
Reject(t) ==
  /\ calls[t] = Pending("push", calls[t].val)
  /\ calls' = [calls EXCEPT ![t] = Threw("push")]
  /\ UNCHANGED items

Dequeue(t) ==
  /\ items # <<>>
  /\ \E o \in {"wait_and_pop", "try_pop"} :
       /\ calls[t] = Pending(o, NoValue)
       /\ calls' = [calls EXCEPT ![t] = Answered(o, Head(items))]
  /\ items' = Tail(items)

\* Only try_pop may answer "empty", and only when it is.
AnswerEmpty(t) ==
  /\ items = <<>>
  /\ calls[t] = Pending("try_pop", NoValue)
  /\ calls' = [calls EXCEPT ![t] = Answered("try_pop", NoValue)]
  /\ UNCHANGED items

\* The call is over for its caller, by return or by exception.
Return(t) ==
  /\ calls[t].stage \in {"answered", "threw"}
  /\ calls' = [calls EXCEPT ![t] = NoCall]
  /\ UNCHANGED items

Answer(t) == Enqueue(t) \/ Reject(t) \/ Dequeue(t) \/ AnswerEmpty(t)

Next ==
  \E t \in Threads :
    \/ \E v \in Values : Invoke(t, "push", v)
    \/ \E o \in {"wait_and_pop", "try_pop"} : Invoke(t, o, NoValue)
    \/ Answer(t)
    \/ Return(t)

Spec == Init /\ [][Next]_vars
=============================================================================

------------------------------ MODULE TaskGroup ------------------------------
(***************************************************************************)
(* What the thread pool promises, without threads: each task is run at     *)
(* most once, after it was submitted, and a client that waits goes on only *)
(* when none of its tasks, nor of those that they have submitted, is still *)
(* to be run.                                                              *)
(*                                                                         *)
(* A submission may fail, and the pool may close before it runs a task;    *)
(* but a task that was queued is lost in no other way, and one that is     *)
(* over stays so.                                                          *)
(***************************************************************************)
CONSTANTS Clients,
          Tasks,
          NoTask,
          By,        \* the client each task is submitted for
          Parent     \* the task that submits a task, or NoTask

VARIABLES state,     \* what has become of each task
          waiting    \* the clients in wait_all

vars == <<state, waiting>>

Init ==
  /\ state = [k \in Tasks |-> "new"]
  /\ waiting = {}

Becomes(k, from, to) ==
  /\ state[k] = from
  /\ state' = [state EXCEPT ![k] = to]
  /\ UNCHANGED waiting

\* By a client that does not wait, or by a task that is being run.
Submit(k) ==
  /\ IF Parent[k] = NoTask THEN By[k] \notin waiting ELSE state[Parent[k]] = "running"
  /\ Becomes(k, "new", "submitted")

\* The submission is accepted, or fails with an exception.
Queue(k) == Becomes(k, "submitted", "queued")
Fail(k)  == Becomes(k, "submitted", "over")

Begin(k) == Becomes(k, "queued", "running")
End(k)   == Becomes(k, "running", "over")

Wait(c) ==
  /\ waiting' = waiting \cup {c}
  /\ UNCHANGED state

Return(c) ==
  /\ c \in waiting
  /\ \A k \in Tasks : By[k] = c => state[k] \in {"new", "over"}
  /\ waiting' = waiting \ {c}
  /\ UNCHANGED state

Next ==
  \/ \E k \in Tasks : Submit(k) \/ Queue(k) \/ Fail(k) \/ Begin(k) \/ End(k)
  \/ \E c \in Clients : Wait(c) \/ Return(c)

Spec == Init /\ [][Next]_vars
=============================================================================

--------------------------- MODULE TaskLifecycle ---------------------------
(***************************************************************************)
(* What the task API of the gateway promises about one task, without the   *)
(* event loop, the threads and the instances behind it: a task is          *)
(* submitted, starts, and ends once; its stored record follows the task's  *)
(* own status and never runs ahead of it or falls back behind an ending.   *)
(* TaskStore (gateway/tasks.py) is shown to implement this specification.  *)
(***************************************************************************)
CONSTANT Tasks

Ended == {"done", "failed", "cancelled"}
State == {"absent", "pending", "running"} \cup Ended

VARIABLES
  state,    \* state[t]: the status the task has reached
  stored    \* stored[t]: the status its durable record shows

vars == <<state, stored>>

TypeOK ==
  /\ state \in [Tasks -> State]
  /\ stored \in [Tasks -> State]

Init ==
  /\ state = [t \in Tasks |-> "absent"]
  /\ stored = [t \in Tasks |-> "absent"]

Submit(t) ==
  /\ state[t] = "absent"
  /\ state' = [state EXCEPT ![t] = "pending"]
  /\ UNCHANGED stored

Start(t) ==
  /\ state[t] = "pending"
  /\ state' = [state EXCEPT ![t] = "running"]
  /\ UNCHANGED stored

(* A task ends exactly once; the outcome is never revised. *)
End(t) ==
  /\ state[t] = "running"
  /\ \E outcome \in Ended : state' = [state EXCEPT ![t] = outcome]
  /\ UNCHANGED stored

(* Only the status the task has now is ever written to the durable record. *)
Store(t) ==
  /\ state[t] \in {"running"} \cup Ended
  /\ stored' = [stored EXCEPT ![t] = state[t]]
  /\ UNCHANGED state

Next == \E t \in Tasks : Submit(t) \/ Start(t) \/ End(t) \/ Store(t)

Spec == Init /\ [][Next]_vars

=============================================================================

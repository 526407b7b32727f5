------------------------------ MODULE Inbound ------------------------------
(***************************************************************************)
(* What reaches the agent from outside the web chat: messages of the chat  *)
(* platforms (Webhooks) and Cloud Scheduler jobs (SchedulerJobs).  Their   *)
(* handlers share nothing, so a behaviour is one of a single message, or   *)
(* one of the jobs, as door says.                                          *)
(***************************************************************************)
EXTENDS Webhooks, SchedulerJobs

VARIABLE door

inboundVars == <<door, hookVars, jobVars>>

Init == HookInit /\ JobInit /\ door \in Messages \cup {"scheduler"}

Next ==
  \/ door \in Messages /\ (Handle(door) \/ Crash) /\ UNCHANGED <<door, jobVars>>
  \/ door = "scheduler" /\ JobNext /\ UNCHANGED <<door, hookVars>>

Spec == Init /\ [][Next]_inboundVars /\ HookFairness
=============================================================================

--------------------------- MODULE SchedulerJobs ---------------------------
(***************************************************************************)
(* tools/scheduler_tool.py: Cloud Scheduler jobs the agent makes for       *)
(* itself, with POST /scheduler/trigger of gateway/main.py that the jobs   *)
(* call and delete_scheduler_jobs of the teardown wizard.                  *)
(*                                                                         *)
(* Tool calls overlap.  Each makes one or two requests that can fail, or   *)
(* take effect and lose their answer.  A job name the agent invents is cut *)
(* down to a resource name -- not the same way by every call.              *)
(***************************************************************************)
EXTENDS Naturals, FiniteSets

CONSTANTS
  Stems,      \* what names have in their first 50 characters, once sanitised
  Tails,      \* what long names have beyond them
  HermesJobs, \* the stems that contain "hermes"
  MaxCalls,   \* bound: tool calls
  MaxTasks,   \* bound: tasks the jobs submit
  MaxLosses   \* bound: requests that fail or lose their answer

None == "none"
Blank == "blank"        \* a name with nothing left after sanitising
DefaultStem == "hermes-task"

ASSUME SchedulerAssumption ==
  /\ Blank \notin Stems /\ None \notin Tails
  /\ HermesJobs \subseteq Stems
  /\ MaxCalls \in Nat /\ MaxTasks \in Nat /\ MaxLosses \in Nat

Calls == 1 .. MaxCalls

(* A name as the agent writes it, sanitised; a blank one has no tail.      *)
Names == [stem : Stems, tail : Tails \cup {None}] \cup {[stem |-> Blank, tail |-> None]}

(* A resource name: the stem, and a tail unless it was cut off.            *)
Jobs == [stem : Stems \cup {Blank, DefaultStem}, tail : Tails \cup {None}]

VARIABLES
  jobs,     \* the jobs in Cloud Scheduler: jobs[j] is the call whose task j runs, 0 if none
  op,       \* op[c]: "schedule" or "delete"
  name,     \* name[c]: the job_name argument
  phase,    \* phase[c]: the request the call is at
  answer,   \* answer[c]: the status it returned
  cleared,  \* history: jobs that were deleted after call c was made
  before,   \* history: calls that had returned when c was made
  tasks,    \* the tasks submitted: [number, by, job, fired]
  losses

jobVars == <<jobs, op, name, phase, answer, cleared, before, tasks, losses>>

AnyName == CHOOSE n \in Names : TRUE

JobInit ==
  /\ jobs = [j \in Jobs |-> 0]
  /\ op = [c \in Calls |-> "none"]
  /\ name = [c \in Calls |-> AnyName]
  /\ phase = [c \in Calls |-> "free"]
  /\ answer = [c \in Calls |-> "none"]
  /\ cleared = [c \in Calls |-> {}]
  /\ before = [c \in Calls |-> {}]
  /\ tasks = {}
  /\ losses = 0

Loss == losses < MaxLosses /\ losses' = losses + 1

(* safe_name of schedule_agent_task: sanitised, at most 50 characters, a   *)
(* default when nothing is left.                                           *)
ScheduledJob(n) ==
  IF n.stem = Blank THEN [stem |-> DefaultStem, tail |-> None]
  ELSE [stem |-> n.stem, tail |-> None]

(* safe_name of delete_scheduled_task: sanitised only.                     *)
DeletedJob(n) == [stem |-> n.stem, tail |-> n.tail]

(* Mutant: the body has the name as the agent wrote it.                    *)
BodyNameUncut(n) == [stem |-> n.stem, tail |-> n.tail]

(* The job_name in the body the job will post.                             *)
BodyName(n) == ScheduledJob(n)

Made(n, c) == jobs' = [jobs EXCEPT ![ScheduledJob(n)] = c]

Gone(gone) ==
  /\ jobs' = [j \in Jobs |-> IF j \in gone THEN 0 ELSE jobs[j]]
  /\ cleared' = [c \in Calls |-> IF phase[c] = "free" THEN {} ELSE cleared[c] \cup gone]

Return(c, status) ==
  /\ phase' = [phase EXCEPT ![c] = "returned"]
  /\ answer' = [answer EXCEPT ![c] = status]

(* The agent calls a tool.                                                 *)
CallTool(c, operation, n) ==
  /\ phase[c] = "free" /\ \A d \in Calls : d < c => phase[d] # "free"
  /\ op' = [op EXCEPT ![c] = operation]
  /\ name' = [name EXCEPT ![c] = n]
  /\ phase' = [phase EXCEPT ![c] = IF operation = "delete" THEN "delete" ELSE "update"]
  /\ before' = [before EXCEPT ![c] = {d \in Calls : phase[d] = "returned"}]
  /\ UNCHANGED <<jobs, answer, cleared, tasks, losses>>

(* update_job of a job that exists.                                        *)
UpdateJob(c) ==
  /\ phase[c] = "update" /\ jobs[ScheduledJob(name[c])] # 0
  /\ Made(name[c], c)
  /\ Return(c, "updated")
  /\ UNCHANGED <<op, name, cleared, before, tasks, losses>>

(* Mutant: an update that raised is taken for done.                        *)
UpdateSwallowed(c) ==
  /\ phase[c] = "update"
  /\ Return(c, "updated")
  /\ UNCHANGED <<jobs, op, name, cleared, before, tasks, losses>>

(* Not found; or any other exception, after which the update may still     *)
(* have taken effect: create it.                                           *)
UpdateRaises(c) ==
  /\ phase[c] = "update"
  /\ \/ jobs[ScheduledJob(name[c])] = 0 /\ UNCHANGED <<jobs, losses>>
     \/ Loss /\ UNCHANGED jobs
     \/ Loss /\ jobs[ScheduledJob(name[c])] # 0 /\ Made(name[c], c)
  /\ phase' = [phase EXCEPT ![c] = "create"]
  /\ UNCHANGED <<op, name, answer, cleared, before, tasks>>

CreateJob(c) ==
  /\ phase[c] = "create" /\ jobs[ScheduledJob(name[c])] = 0
  /\ Made(name[c], c)
  /\ \/ Return(c, "created") /\ UNCHANGED losses
     \/ Return(c, "error") /\ Loss
  /\ UNCHANGED <<op, name, cleared, before, tasks>>

(* It exists already, or the request fails.                                *)
CreateRaises(c) ==
  /\ phase[c] = "create"
  /\ \/ jobs[ScheduledJob(name[c])] # 0 /\ UNCHANGED losses
     \/ Loss
  /\ Return(c, "error")
  /\ UNCHANGED <<jobs, op, name, cleared, before, tasks>>

(* What an exception of delete_job is taken for: a job that does not exist *)
(* if its text has "not found" or "404", as that of missing credentials or *)
(* of a job named so may.                                                  *)
Failed(c) == Return(c, "error") \/ Return(c, "not_found")

DeleteJob(c) ==
  /\ phase[c] = "delete"
  /\ \/ /\ jobs[DeletedJob(name[c])] # 0
        /\ Gone({DeletedJob(name[c])})
        /\ \/ Return(c, "deleted") /\ UNCHANGED losses
           \/ Failed(c) /\ Loss
     \/ /\ jobs[DeletedJob(name[c])] = 0
        /\ IF name[c].stem = Blank THEN Failed(c) ELSE Return(c, "not_found")
        /\ UNCHANGED <<jobs, cleared, losses>>
  /\ UNCHANGED <<op, name, before, tasks>>

(* Mutant: a deletion that raised is taken for done.                       *)
DeleteRaisesQuietly(c) ==
  /\ phase[c] = "delete"
  /\ Loss
  /\ Return(c, "deleted")
  /\ UNCHANGED <<jobs, op, name, cleared, before, tasks>>

DeleteRaises(c) ==
  /\ phase[c] = "delete"
  /\ Loss
  /\ Failed(c)
  /\ UNCHANGED <<jobs, op, name, cleared, before, tasks>>

(* A job fires and /scheduler/trigger submits its task under the job's     *)
(* name; a delivery whose 202 is lost may come a second time.              *)
Trigger(j) ==
  /\ jobs[j] # 0 /\ Cardinality(tasks) < MaxTasks
  /\ tasks' = tasks \cup
       {[number |-> Cardinality(tasks) + 1, by |-> jobs[j],
         job |-> BodyName(name[jobs[j]]), fired |-> j]}
  /\ UNCHANGED <<jobs, op, name, phase, answer, cleared, before, losses>>

(* The teardown wizard lists the jobs and deletes those named after        *)
(* hermes; a deletion that fails is passed over.                           *)
TearDownJobs ==
  /\ \E left \in SUBSET {j \in Jobs : j.stem \in HermesJobs \cup {DefaultStem}} :
       /\ left # {} => Loss
       /\ left = {} => UNCHANGED losses
       /\ Gone({j \in Jobs : j.stem \in HermesJobs \cup {DefaultStem}} \ left)
  /\ jobs' # jobs
  /\ UNCHANGED <<op, name, phase, answer, before, tasks>>

JobNext ==
  \/ \E c \in Calls, operation \in {"schedule", "delete"}, n \in Names :
       CallTool(c, operation, n)
  \/ \E c \in Calls :
       \/ UpdateJob(c) \/ UpdateRaises(c) \/ CreateJob(c) \/ CreateRaises(c)
       \/ DeleteJob(c) \/ DeleteRaises(c)
  \/ \E j \in Jobs : Trigger(j)
  \/ TearDownJobs

JobSpec == JobInit /\ [][JobNext]_jobVars

JobTypeOK ==
  /\ jobs \in [Jobs -> 0 .. MaxCalls]
  /\ op \in [Calls -> {"none", "schedule", "delete"}]
  /\ name \in [Calls -> Names]
  /\ phase \in [Calls -> {"free", "update", "create", "delete", "returned"}]
  /\ answer \in [Calls -> {"none", "updated", "created", "deleted", "not_found", "error"}]
  /\ cleared \in [Calls -> SUBSET Jobs]
  /\ before \in [Calls -> SUBSET Calls]
  /\ tasks \subseteq [number : 1 .. MaxTasks, by : Calls, job : Jobs, fired : Jobs]
  /\ losses \in 0 .. MaxLosses

-----------------------------------------------------------------------------
(* "created" and "updated" are true: whatever other calls do at the same   *)
(* time, the job is there from then on unless it was deleted meanwhile.    *)
ScheduledIsStored ==
  \A c \in Calls : answer[c] \in {"created", "updated"} =>
    \/ jobs[ScheduledJob(name[c])] # 0
    \/ ScheduledJob(name[c]) \in cleared[c]

(* "deleted" is true for a name of ordinary length, and "not_found" as     *)
(* long as no request failed: no task scheduled under the name before the  *)
(* deletion was asked for is left in Cloud Scheduler.  After a failure     *)
(* "not_found" may be said of a job that is there (scheduler_tool.py).     *)
Ordinary(n) == n.stem # Blank /\ n.tail = None
SaidGone(d) == answer[d] = "deleted" \/ (answer[d] = "not_found" /\ losses = 0)
DeletedIsGone ==
  \A d \in Calls : SaidGone(d) /\ Ordinary(name[d]) =>
    \A c \in before[d] : op[c] = "schedule" => jobs[ScheduledJob(name[d])] # c

(* A task is submitted for the user named after the job that fired, with   *)
(* the task of a call for that job: also after names that collide have     *)
(* replaced each other's jobs, or an update that reported an error.        *)
TasksNameTheirJob ==
  \A t \in tasks : op[t.by] = "schedule" /\ t.job = t.fired

(* A scheduled task is there, and runs as itself.                          *)
ScheduledRuns == ScheduledIsStored /\ TasksNameTheirJob
=============================================================================

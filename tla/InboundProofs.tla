---------------------------- MODULE InboundProofs ----------------------------
(***************************************************************************)
(* The connectors and the scheduled jobs of Inbound, for any number of     *)
(* messages, deliveries, parts, names and calls.  That an answer comes is  *)
(* checked by TLC only.                                                    *)
(***************************************************************************)
EXTENDS Inbound, FiniteSetTheorems, TLAPS

-----------------------------------------------------------------------------
(* Cloud Scheduler jobs: a job runs the task of a call that scheduled it,  *)
(* under the name that call was given.                                     *)
FreshCalls ==
  \A c \in Calls : phase[c] = "free" => answer[c] = "none" /\ cleared[c] = {}

SchedulesOnly == \A c \in Calls : phase[c] \in {"update", "create"} => op[c] = "schedule"

JobsAreCalls ==
  \A j \in Jobs : jobs[j] # 0 =>
    /\ phase[jobs[j]] # "free" /\ op[jobs[j]] = "schedule"
    /\ ScheduledJob(name[jobs[j]]) = j

TasksAreCalls ==
  \A t \in tasks : phase[t.by] # "free" /\ op[t.by] = "schedule" /\ t.job = t.fired

ReturnedBefore == \A d \in Calls : \A c \in before[d] : phase[c] = "returned"

AnsweredIsReturned == \A c \in Calls : answer[c] # "none" => phase[c] = "returned"

JobInv ==
  /\ JobTypeOK /\ IsFiniteSet(tasks)
  /\ FreshCalls /\ SchedulesOnly /\ JobsAreCalls /\ TasksAreCalls
  /\ ReturnedBefore /\ AnsweredIsReturned
  /\ ScheduledIsStored /\ DeletedIsGone

(* What the names of jobs come to.                                         *)
LEMMA NamesOfJobs ==
  /\ AnyName \in Names
  /\ \A n \in Names : ScheduledJob(n) \in Jobs /\ DeletedJob(n) \in Jobs
  /\ \A n \in Names : Ordinary(n) => ScheduledJob(n) = DeletedJob(n)
<1>1. [stem |-> Blank, tail |-> None] \in Names
  BY DEF Names
<1>2. AnyName \in Names
  BY <1>1 DEF AnyName
<1>3. \A n \in Names : n.stem \in Stems \cup {Blank} /\ n.tail \in Tails \cup {None}
  BY DEF Names
<1>4. \A n \in Names : ScheduledJob(n) \in Jobs /\ DeletedJob(n) \in Jobs
  BY <1>3 DEF ScheduledJob, DeletedJob, Jobs
<1>5. \A n \in Names : Ordinary(n) => ScheduledJob(n) = DeletedJob(n)
  BY DEF Ordinary, ScheduledJob, DeletedJob
<1> QED
  BY <1>2, <1>4, <1>5

LEMMA CallNumbers == /\ Calls \subseteq 0 .. MaxCalls /\ 0 \notin Calls
                     /\ MaxCalls \in Nat /\ MaxTasks \in Nat /\ MaxLosses \in Nat
                     /\ 0 .. MaxCalls = Calls \cup {0}
  BY SchedulerAssumption DEF Calls

(* More requests fail, or none.                                            *)
LossesGrow == losses' \in 0 .. MaxLosses /\ (losses' = 0 => losses = 0)

LEMMA JobInitInv == JobInit => JobInv
<1> SUFFICES ASSUME JobInit PROVE JobInv
  OBVIOUS
<1>1. JobTypeOK
  BY CallNumbers, NamesOfJobs DEF JobInit, JobTypeOK
<1>2. IsFiniteSet(tasks)
  BY FS_EmptySet DEF JobInit
<1>3. FreshCalls /\ SchedulesOnly /\ JobsAreCalls /\ TasksAreCalls
  BY DEF JobInit, FreshCalls, SchedulesOnly, JobsAreCalls, TasksAreCalls
<1>4. ReturnedBefore /\ AnsweredIsReturned /\ ScheduledIsStored /\ DeletedIsGone
  BY DEF JobInit, ReturnedBefore, AnsweredIsReturned, ScheduledIsStored, DeletedIsGone,
         SaidGone
<1> QED
  BY <1>1, <1>2, <1>3, <1>4 DEF JobInv

LEMMA CallToolStep ==
  ASSUME JobInv, NEW c \in Calls, NEW operation \in {"schedule", "delete"},
         NEW n \in Names, CallTool(c, operation, n)
  PROVE  JobInv'
<1> USE DEF JobInv, JobTypeOK
<1>1. /\ phase[c] = "free"
      /\ op' = [op EXCEPT ![c] = operation]
      /\ name' = [name EXCEPT ![c] = n]
      /\ phase' = [phase EXCEPT ![c] = IF operation = "delete" THEN "delete" ELSE "update"]
      /\ before' = [before EXCEPT ![c] = {d \in Calls : phase[d] = "returned"}]
      /\ UNCHANGED <<jobs, answer, cleared, tasks, losses>>
  BY DEF CallTool
<1>2. JobTypeOK'
  BY <1>1
<1>3. FreshCalls' /\ SchedulesOnly' /\ AnsweredIsReturned'
  BY <1>1 DEF FreshCalls, SchedulesOnly, AnsweredIsReturned
<1>4. JobsAreCalls'
  <2> SUFFICES ASSUME NEW j \in Jobs, jobs[j] # 0
               PROVE  /\ phase'[jobs[j]] # "free" /\ op'[jobs[j]] = "schedule"
                      /\ ScheduledJob(name'[jobs[j]]) = j
    BY <1>1 DEF JobsAreCalls, ScheduledJob
  <2>1. jobs[j] \in Calls /\ jobs[j] # c
    BY <1>1, CallNumbers DEF JobsAreCalls
  <2> QED
    BY <1>1, <2>1 DEF JobsAreCalls
<1>5. TasksAreCalls'
  <2>1. \A t \in tasks : t.by \in Calls /\ t.by # c
    BY <1>1 DEF TasksAreCalls
  <2> QED
    BY <1>1, <2>1 DEF TasksAreCalls
<1>6. ReturnedBefore'
  BY <1>1 DEF ReturnedBefore
<1>7. ScheduledIsStored'
  <2> SUFFICES ASSUME NEW e \in Calls, answer'[e] \in {"created", "updated"}
               PROVE  (jobs[ScheduledJob(name[e])] # 0
                       \/ ScheduledJob(name[e]) \in cleared[e]) /\ name'[e] = name[e]
    BY <1>1 DEF ScheduledIsStored
  <2> QED
    BY <1>1 DEF ScheduledIsStored, FreshCalls
<1>8. DeletedIsGone'
  <2> SUFFICES ASSUME NEW d \in Calls, SaidGone(d)', Ordinary(name'[d]), NEW e \in before'[d], op'[e] = "schedule"
               PROVE  jobs'[ScheduledJob(name'[d])] # e
    BY DEF DeletedIsGone
  <2>1. d # c
    BY <1>1 DEF FreshCalls, SaidGone
  <2>2. e # c
    BY <1>1, <2>1 DEF ReturnedBefore
  <2>3. SaidGone(d)
    BY <1>1 DEF SaidGone
  <2> QED
    BY <1>1, <2>1, <2>2, <2>3 DEF DeletedIsGone
<1> QED
  BY <1>1, <1>2, <1>3, <1>4, <1>5, <1>6, <1>7, <1>8

(* A call that has not returned makes the job it was asked for.            *)
LEMMA MadeStep ==
  ASSUME JobInv, NEW c \in Calls, phase[c] \in {"update", "create"}, Made(name[c], c),
         NEW s \in {"none", "created", "updated", "error"},
         NEW p \in {"create", "returned"}, (s # "none") <=> (p = "returned"),
         phase' = [phase EXCEPT ![c] = p], answer' = [answer EXCEPT ![c] = s],
         LossesGrow, UNCHANGED <<op, name, cleared, before, tasks>>
  PROVE  JobInv'
<1> USE DEF JobInv, JobTypeOK
<1> DEFINE j == ScheduledJob(name[c])
<1>1. /\ jobs' = [jobs EXCEPT ![j] = c] /\ j \in Jobs
  BY NamesOfJobs DEF Made
<1> HIDE DEF j
<1>2. JobTypeOK'
  BY <1>1, CallNumbers DEF LossesGrow
<1>3. op[c] = "schedule" /\ answer[c] = "none"
  BY DEF SchedulesOnly, AnsweredIsReturned
<1>4. FreshCalls' /\ SchedulesOnly' /\ AnsweredIsReturned' /\ ReturnedBefore'
  BY <1>3 DEF FreshCalls, SchedulesOnly, AnsweredIsReturned, ReturnedBefore
<1>5. JobsAreCalls'
  <2> SUFFICES ASSUME NEW i \in Jobs, jobs'[i] # 0
               PROVE  /\ phase'[jobs'[i]] # "free" /\ op[jobs'[i]] = "schedule"
                      /\ ScheduledJob(name[jobs'[i]]) = i
    BY DEF JobsAreCalls
  <2>1. CASE i = j
    BY <1>1, <1>3, <2>1 DEF j
  <2>2. CASE i # j
    <3>1. jobs'[i] = jobs[i] /\ jobs[i] \in Calls
      BY <1>1, <2>2, CallNumbers
    <3> QED
      BY <3>1 DEF JobsAreCalls
  <2> QED
    BY <2>1, <2>2
<1>6. TasksAreCalls'
  BY DEF TasksAreCalls
<1>7. ScheduledIsStored'
  <2> SUFFICES ASSUME NEW e \in Calls, answer'[e] \in {"created", "updated"}
               PROVE  \/ jobs'[ScheduledJob(name[e])] # 0
                      \/ ScheduledJob(name[e]) \in cleared[e]
    BY DEF ScheduledIsStored
  <2>1. CASE e = c
    BY <1>1, <2>1, CallNumbers DEF j
  <2>2. CASE e # c
    BY <1>1, <2>2, CallNumbers, NamesOfJobs DEF ScheduledIsStored
  <2> QED
    BY <2>1, <2>2
<1>8. DeletedIsGone'
  <2> SUFFICES ASSUME NEW d \in Calls, SaidGone(d)', Ordinary(name[d]), NEW e \in before[d], op[e] = "schedule"
               PROVE  jobs'[ScheduledJob(name[d])] # e
    BY DEF DeletedIsGone
  <2>1. d # c /\ e # c /\ SaidGone(d)
    BY DEF ReturnedBefore, SaidGone, LossesGrow
  <2>2. jobs[ScheduledJob(name[d])] # e /\ ScheduledJob(name[d]) \in Jobs
    BY <2>1, NamesOfJobs DEF DeletedIsGone
  <2> QED
    BY <1>1, <2>1, <2>2
<1> QED
  BY <1>2, <1>4, <1>5, <1>6, <1>7, <1>8

(* Every other answer of a call: the jobs in `gone` are gone, and a call   *)
(* that says so is right.                                                  *)
LEMMA SettleStep ==
  ASSUME JobInv, NEW gone, gone \subseteq Jobs,
         jobs' = [j \in Jobs |-> IF j \in gone THEN 0 ELSE jobs[j]],
         cleared' \in [Calls -> SUBSET Jobs],
         \A c \in Calls : IF phase[c] = "free" THEN cleared'[c] = {}
                         ELSE cleared[c] \cup gone \subseteq cleared'[c],
         phase' \in [Calls -> {"free", "update", "create", "delete", "returned"}],
         answer' \in [Calls -> {"none", "updated", "created", "deleted", "not_found", "error"}],
         \A d \in Calls :
           \/ phase'[d] = phase[d] /\ answer'[d] = answer[d]
           \/ /\ phase[d] \in {"update", "create", "delete"} /\ phase'[d] = "returned"
              /\ answer'[d] \in {"deleted", "not_found", "error"}
              /\ \/ answer'[d] = "error" \/ (answer'[d] = "not_found" /\ losses' # 0)
                 \/ jobs'[DeletedJob(name[d])] = 0
           \/ phase[d] = "update" /\ phase'[d] = "create" /\ answer'[d] = answer[d],
         LossesGrow, UNCHANGED <<op, name, before, tasks>>
  PROVE  JobInv'
<1> USE DEF JobInv, JobTypeOK
<1>1. JobTypeOK'
  BY CallNumbers DEF LossesGrow
<1>2. FreshCalls' /\ SchedulesOnly' /\ AnsweredIsReturned' /\ ReturnedBefore'
  <2>1. FreshCalls'
    BY DEF FreshCalls
  <2>2. SchedulesOnly'
    BY DEF SchedulesOnly
  <2>3. AnsweredIsReturned'
    BY DEF AnsweredIsReturned
  <2>4. ReturnedBefore'
    BY DEF ReturnedBefore
  <2> QED
    BY <2>1, <2>2, <2>3, <2>4
<1>3. \A j \in Jobs : jobs'[j] # 0 => jobs'[j] = jobs[j] /\ jobs[j] \in Calls
  BY CallNumbers
<1>4. \A c \in Calls : phase[c] # "free" => phase'[c] # "free"
  OBVIOUS
<1>5. JobsAreCalls'
  BY <1>3, <1>4 DEF JobsAreCalls
<1>6. TasksAreCalls'
  BY <1>4 DEF TasksAreCalls
<1>7. ScheduledIsStored'
  <2> SUFFICES ASSUME NEW e \in Calls, answer'[e] \in {"created", "updated"}
               PROVE  \/ jobs'[ScheduledJob(name[e])] # 0
                      \/ ScheduledJob(name[e]) \in cleared'[e]
    BY DEF ScheduledIsStored
  <2>1. answer[e] = answer'[e] /\ phase[e] # "free" /\ ScheduledJob(name[e]) \in Jobs
    BY NamesOfJobs DEF FreshCalls
  <2>2. \/ jobs[ScheduledJob(name[e])] # 0
        \/ ScheduledJob(name[e]) \in cleared[e]
    BY <2>1 DEF ScheduledIsStored
  <2> QED
    BY <2>1, <2>2
<1>8. DeletedIsGone'
  <2> SUFFICES ASSUME NEW d \in Calls, SaidGone(d)', Ordinary(name[d]), NEW e \in before[d], op[e] = "schedule"
               PROVE  jobs'[ScheduledJob(name[d])] # e
    BY DEF DeletedIsGone
  <2>1. e \in Calls /\ e # 0 /\ ScheduledJob(name[d]) \in Jobs
        /\ ScheduledJob(name[d]) = DeletedJob(name[d])
    BY CallNumbers, NamesOfJobs
  <2>2. CASE answer'[d] = answer[d]
    <3>1. jobs[ScheduledJob(name[d])] # e
      BY <2>2 DEF DeletedIsGone, SaidGone, LossesGrow
    <3> QED
      BY <2>1, <3>1
  <2>3. CASE answer'[d] # answer[d]
    <3>1. jobs'[DeletedJob(name[d])] = 0
      BY <2>3 DEF SaidGone
    <3> QED
      BY <2>1, <3>1
  <2> QED
    BY <2>2, <2>3
<1> QED
  BY <1>1, <1>2, <1>5, <1>6, <1>7, <1>8

(* A call settles without touching the jobs.                               *)
LEMMA IdleStep ==
  ASSUME JobInv, NEW c \in Calls,
         NEW s \in {"none", "not_found", "error"}, NEW p \in {"create", "returned"},
         p = "create" => phase[c] = "update" /\ s = "none",
         p = "returned" => /\ phase[c] \in {"update", "create", "delete"} /\ s # "none"
                           /\ \/ s = "error" \/ (s = "not_found" /\ losses' # 0)
                              \/ jobs[DeletedJob(name[c])] = 0,
         phase' = [phase EXCEPT ![c] = p], answer' = [answer EXCEPT ![c] = s],
         LossesGrow, UNCHANGED <<jobs, cleared, op, name, before, tasks>>
  PROVE  JobInv'
<1>0. PICK gone : gone = {}
  OBVIOUS
<1>1. gone \subseteq Jobs /\ jobs' = [j \in Jobs |-> IF j \in gone THEN 0 ELSE jobs[j]]
  BY <1>0 DEF JobInv, JobTypeOK
<1>2. /\ cleared' \in [Calls -> SUBSET Jobs]
      /\ phase' \in [Calls -> {"free", "update", "create", "delete", "returned"}]
      /\ answer' \in [Calls -> {"none", "updated", "created", "deleted", "not_found", "error"}]
  BY DEF JobInv, JobTypeOK
<1>3. \A d \in Calls : IF phase[d] = "free" THEN cleared'[d] = {}
                      ELSE cleared[d] \cup gone \subseteq cleared'[d]
  BY <1>0 DEF JobInv, FreshCalls
<1>4. p = "create" => answer'[c] = answer[c]
  BY DEF JobInv, JobTypeOK, AnsweredIsReturned
<1>5. \A d \in Calls :
        \/ phase'[d] = phase[d] /\ answer'[d] = answer[d]
        \/ /\ phase[d] \in {"update", "create", "delete"} /\ phase'[d] = "returned"
           /\ answer'[d] \in {"deleted", "not_found", "error"}
           /\ \/ answer'[d] = "error" \/ (answer'[d] = "not_found" /\ losses' # 0)
              \/ jobs'[DeletedJob(name[d])] = 0
        \/ phase[d] = "update" /\ phase'[d] = "create" /\ answer'[d] = answer[d]
  BY <1>4 DEF JobInv, JobTypeOK
<1> QED
  BY <1>1, <1>2, <1>3, <1>5, SettleStep

LEMMA GoneStep ==
  ASSUME JobInv, NEW gone, gone \subseteq Jobs, Gone(gone),
         \/ UNCHANGED <<phase, answer>>
         \/ \E c \in Calls, s \in {"deleted", "not_found", "error"} :
              phase[c] = "delete" /\ Return(c, s) /\ DeletedJob(name[c]) \in gone,
         LossesGrow, UNCHANGED <<op, name, before, tasks>>
  PROVE  JobInv'
<1>1. /\ jobs' = [j \in Jobs |-> IF j \in gone THEN 0 ELSE jobs[j]]
      /\ cleared' = [c \in Calls |-> IF phase[c] = "free" THEN {} ELSE cleared[c] \cup gone]
  BY DEF Gone
<1>2. cleared' \in [Calls -> SUBSET Jobs]
  BY <1>1 DEF JobInv, JobTypeOK
<1>3. \A c \in Calls : IF phase[c] = "free" THEN cleared'[c] = {}
                      ELSE cleared[c] \cup gone \subseteq cleared'[c]
  BY <1>1
<1>4. CASE UNCHANGED <<phase, answer>>
  BY <1>1, <1>2, <1>3, <1>4, SettleStep DEF JobInv, JobTypeOK
<1>5. ASSUME NEW c \in Calls, NEW s \in {"deleted", "not_found", "error"},
             phase[c] = "delete", Return(c, s), DeletedJob(name[c]) \in gone
      PROVE  JobInv'
  <2>1. /\ phase' = [phase EXCEPT ![c] = "returned"]
        /\ answer' = [answer EXCEPT ![c] = s]
    BY <1>5 DEF Return
  <2>2. /\ phase' \in [Calls -> {"free", "update", "create", "delete", "returned"}]
        /\ answer' \in [Calls -> {"none", "updated", "created", "deleted", "not_found", "error"}]
    BY <2>1 DEF JobInv, JobTypeOK
  <2>3. jobs'[DeletedJob(name[c])] = 0
    BY <1>1, <1>5, NamesOfJobs DEF JobInv, JobTypeOK
  <2>4. \A d \in Calls :
          \/ phase'[d] = phase[d] /\ answer'[d] = answer[d]
          \/ /\ phase[d] \in {"update", "create", "delete"} /\ phase'[d] = "returned"
             /\ answer'[d] \in {"deleted", "not_found", "error"}
             /\ \/ answer'[d] = "error" \/ (answer'[d] = "not_found" /\ losses' # 0)
                \/ jobs'[DeletedJob(name[d])] = 0
    BY <1>5, <2>1, <2>3 DEF JobInv, JobTypeOK
  <2> QED
    BY <1>1, <1>2, <1>3, <2>2, <2>4, SettleStep
<1> QED
  BY <1>4, <1>5

LEMMA LossStep ==
  JobInv => /\ Loss \/ UNCHANGED losses => LossesGrow
            /\ Loss => losses' # 0
  BY CallNumbers DEF JobInv, JobTypeOK, Loss, LossesGrow

LEMMA CallSteps ==
  ASSUME JobInv, NEW c \in Calls,
         \/ UpdateJob(c) \/ UpdateRaises(c) \/ CreateJob(c) \/ CreateRaises(c)
         \/ DeleteJob(c) \/ DeleteRaises(c)
  PROVE  JobInv'
<1>1. answer[c] = "none" \/ phase[c] = "returned"
  BY DEF JobInv, AnsweredIsReturned
<1>2. answer = [answer EXCEPT ![c] = answer[c]] /\ answer[c] \in {"none", "updated",
        "created", "deleted", "not_found", "error"}
  BY DEF JobInv, JobTypeOK
<1>3. CASE UpdateJob(c)
  BY <1>3, MadeStep, LossStep DEF UpdateJob, Return
<1>4. CASE UpdateRaises(c)
  <2>1. /\ phase[c] = "update" /\ phase' = [phase EXCEPT ![c] = "create"]
        /\ answer' = [answer EXCEPT ![c] = "none"]
        /\ UNCHANGED <<op, name, cleared, before, tasks>>
        /\ LossesGrow
    BY <1>1, <1>2, <1>4, LossStep DEF UpdateRaises
  <2>2. CASE UNCHANGED jobs
    BY <2>1, <2>2, IdleStep
  <2>3. CASE Made(name[c], c)
    BY <2>1, <2>3, MadeStep
  <2> QED
    BY <1>4, <2>2, <2>3 DEF UpdateRaises
<1>5. CASE CreateJob(c)
  <2>1. /\ phase[c] = "create" /\ Made(name[c], c)
        /\ UNCHANGED <<op, name, cleared, before, tasks>>
        /\ LossesGrow
    BY <1>5, LossStep DEF CreateJob
  <2>2. Return(c, "created") \/ Return(c, "error")
    BY <1>5 DEF CreateJob
  <2> QED
    BY <2>1, <2>2, MadeStep DEF Return
<1>6. CASE CreateRaises(c)
  BY <1>6, IdleStep, LossStep DEF CreateRaises, Return
<1>7. CASE DeleteJob(c)
  <2>1. phase[c] = "delete" /\ UNCHANGED <<op, name, before, tasks>>
    BY <1>7 DEF DeleteJob
  <2>2. CASE jobs[DeletedJob(name[c])] # 0
    <3>1. /\ Gone({DeletedJob(name[c])}) /\ LossesGrow
          /\ Return(c, "deleted") \/ Return(c, "not_found") \/ Return(c, "error")
      BY <1>7, <2>2, LossStep DEF DeleteJob, Failed
    <3>2. {DeletedJob(name[c])} \subseteq Jobs
      BY NamesOfJobs DEF JobInv, JobTypeOK
    <3>3. \E s \in {"deleted", "not_found", "error"} :
            phase[c] = "delete" /\ Return(c, s) /\ DeletedJob(name[c]) \in {DeletedJob(name[c])}
      BY <2>1, <3>1
    <3> QED
      BY <2>1, <3>1, <3>2, <3>3, GoneStep
  <2>3. CASE jobs[DeletedJob(name[c])] = 0
    <3>1. /\ UNCHANGED <<jobs, cleared, losses>>
          /\ Return(c, "error") \/ Return(c, "not_found")
      BY <1>7, <2>3 DEF DeleteJob, Failed
    <3>2. LossesGrow
      BY <3>1, LossStep
    <3> QED
      BY <2>1, <2>3, <3>1, <3>2, IdleStep DEF Return
  <2> QED
    BY <2>2, <2>3
<1>8. CASE DeleteRaises(c)
  <2>1. /\ phase[c] = "delete" /\ UNCHANGED <<jobs, op, name, cleared, before, tasks>>
        /\ LossesGrow /\ losses' # 0
        /\ Return(c, "error") \/ Return(c, "not_found")
    BY <1>8, LossStep DEF DeleteRaises, Failed
  <2> QED
    BY <2>1, IdleStep DEF Return
<1> QED
  BY <1>3, <1>4, <1>5, <1>6, <1>7, <1>8

LEMMA TriggerStep ==
  ASSUME JobInv, NEW j \in Jobs, Trigger(j)
  PROVE  JobInv'
<1> USE DEF JobInv, JobTypeOK
<1> DEFINE t == [number |-> Cardinality(tasks) + 1, by |-> jobs[j],
                 job |-> BodyName(name[jobs[j]]), fired |-> j]
<1>1. /\ jobs[j] # 0 /\ Cardinality(tasks) < MaxTasks
      /\ tasks' = tasks \cup {t}
      /\ UNCHANGED <<jobs, op, name, phase, answer, cleared, before, losses>>
  BY DEF Trigger
<1>2. /\ jobs[j] \in Calls /\ phase[jobs[j]] # "free" /\ op[jobs[j]] = "schedule"
      /\ ScheduledJob(name[jobs[j]]) = j
  BY <1>1, CallNumbers DEF JobsAreCalls
<1>3. t.by = jobs[j] /\ t.job = j /\ t.fired = j
  BY <1>2 DEF BodyName
<1>4. t \in [number : 1 .. MaxTasks, by : Calls, job : Jobs, fired : Jobs]
  <2>1. Cardinality(tasks) + 1 \in 1 .. MaxTasks
    BY <1>1, FS_CardinalityType, CallNumbers
  <2> QED
    BY <1>2, <2>1 DEF BodyName
<1>5. IsFiniteSet(tasks')
  BY <1>1, FS_AddElement
<1> HIDE DEF t
<1>6. JobTypeOK'
  BY <1>1, <1>4
<1>7. TasksAreCalls'
  BY <1>1, <1>2, <1>3 DEF TasksAreCalls
<1> QED
  BY <1>1, <1>5, <1>6, <1>7
     DEF FreshCalls, SchedulesOnly, JobsAreCalls, ReturnedBefore, AnsweredIsReturned,
         ScheduledIsStored, DeletedIsGone, SaidGone

LEMMA TearDownStep == JobInv /\ TearDownJobs => JobInv'
<1> SUFFICES ASSUME JobInv, TearDownJobs PROVE JobInv'
  OBVIOUS
<1> DEFINE hermes == {j \in Jobs : j.stem \in HermesJobs \cup {DefaultStem}}
<1>1. PICK left \in SUBSET hermes :
        /\ left # {} => Loss
        /\ left = {} => UNCHANGED losses
        /\ Gone(hermes \ left)
  BY DEF TearDownJobs
<1>2. LossesGrow
  <2>1. CASE left = {}
    BY <1>1, <2>1, LossStep
  <2>2. CASE left # {}
    BY <1>1, <2>2, LossStep
  <2> QED
    BY <2>1, <2>2
<1>3. PICK gone : gone = hermes \ left
  OBVIOUS
<1>4. gone \subseteq Jobs /\ Gone(gone)
  BY <1>1, <1>3 DEF Gone
<1>5. UNCHANGED <<phase, answer>> /\ UNCHANGED <<op, name, before, tasks>>
  BY DEF TearDownJobs
<1> HIDE DEF hermes
<1> QED
  BY <1>2, <1>4, <1>5, GoneStep

LEMMA JobStep == JobInv /\ [JobNext]_jobVars => JobInv'
<1> SUFFICES ASSUME JobInv, [JobNext]_jobVars PROVE JobInv'
  OBVIOUS
<1>1. CASE UNCHANGED jobVars
  BY <1>1
     DEF jobVars, JobInv, JobTypeOK, FreshCalls, SchedulesOnly, JobsAreCalls, TasksAreCalls,
         ReturnedBefore, AnsweredIsReturned, ScheduledIsStored, DeletedIsGone, SaidGone
<1>2. CASE JobNext
  BY <1>2, CallToolStep, CallSteps, TriggerStep, TearDownStep DEF JobNext
<1> QED
  BY <1>1, <1>2

-----------------------------------------------------------------------------
(* The connectors.  What holds of each delivery: nothing is posted before  *)
(* the agent has replied, the parts in the chat are those that were put    *)
(* there, up to one whose post broke, and every part that is missing was   *)
(* refused.                                                                *)
NotYet(m, k) ==
  /\ k > delivered[m] => handler[m][k] = "none"
  /\ handler[m][k] \in {"none", "received", "agent"} =>
       put[m][k] = 0 /\ \A i \in 1 .. Len(seen[m]) : seen[m][i][1] # k

Counted(m, k) ==
  /\ put[m][k] <= parts[m][k] \/ handler[m][k] \in {"none", "received", "agent"}
  /\ handler[m][k] = "done" => put[m][k] = parts[m][k]
  /\ handler[m][k] \in {"posting", "done"} => (parts[m][k] = 0 <=> m \in Unaddressed)

Shown(m, k) ==
  \A i \in 1 .. Len(seen[m]) : seen[m][i][1] = k =>
    \/ seen[m][i][2] <= put[m][k]
    \/ handler[m][k] = "died" /\ seen[m][i][2] <= put[m][k] + 1

Missing(m, k) ==
  /\ InBackground(m) => 1 .. put[m][k] \subseteq PartsSeen(m, k)
  /\ Cardinality((1 .. put[m][k]) \ PartsSeen(m, k)) <= trouble

DeliveryInv(m, k) == NotYet(m, k) /\ Counted(m, k) /\ Shown(m, k) /\ Missing(m, k)

AnsweredIsDone ==
  \A m \in Messages : ~InBackground(m) /\ view[m] = "ok" =>
    delivered[m] \in Deliveries /\ handler[m][delivered[m]] = "done"

HookInv ==
  /\ HookTypeOK
  /\ \A m \in Messages, k \in Deliveries : DeliveryInv(m, k)
  /\ PartsInOrder /\ AnsweredIsDone

LEMMA HookNumbers ==
  /\ MaxDeliveries \in Nat /\ MaxTrouble \in Nat /\ MaxParts \in Nat /\ MaxParts > 0
  /\ \A k \in Deliveries : k \in Nat /\ k > 0
  BY WebhookAssumption DEF Deliveries

LEMMA HookInitInv == HookInit => HookInv
<1> SUFFICES ASSUME HookInit PROVE HookInv
  OBVIOUS
<1>1. HookTypeOK
  BY HookNumbers DEF HookInit, HookTypeOK
<1>2. ASSUME NEW m \in Messages, NEW k \in Deliveries PROVE DeliveryInv(m, k)
  <2>1. seen[m] = <<>> /\ put[m][k] = 0 /\ handler[m][k] = "none"
    BY DEF HookInit
  <2>2. (1 .. put[m][k]) \ PartsSeen(m, k) = {}
    BY <2>1
  <2>3. trouble = 0
    BY DEF HookInit
  <2> QED
    BY <2>1, <2>2, <2>3, FS_EmptySet DEF DeliveryInv, NotYet, Counted, Shown, Missing
<1>3. PartsInOrder
  BY DEF HookInit, PartsInOrder
<1>4. AnsweredIsDone
  BY DEF HookInit, AnsweredIsDone
<1> QED
  BY <1>1, <1>2, <1>3, <1>4 DEF HookInv

(* The chat does not change: neither does what was seen of any delivery.   *)
LEMMA SameChat ==
  ASSUME HookInv, UNCHANGED seen
  PROVE  /\ PartsInOrder'
         /\ \A m \in Messages, k \in Deliveries : PartsSeen(m, k)' = PartsSeen(m, k)
<1>1. \A m \in Messages, k \in Deliveries : PartsSeen(m, k)' = PartsSeen(m, k)
  BY DEF PartsSeen
<1> QED
  BY <1>1 DEF HookInv, PartsInOrder, InBackground

(* A part appears in the chat.                                             *)
LEMMA ShowEffect ==
  ASSUME HookInv, NEW m \in Messages, NEW k \in Deliveries, Posting(m, k), Show(m, k)
  PROVE  /\ seen' \in [Messages -> Seq(Deliveries \X (1 .. MaxParts))]
         /\ \A n \in Messages \ {m} : seen'[n] = seen[n]
         /\ Len(seen'[m]) = Len(seen[m]) + 1
         /\ seen'[m][Len(seen[m]) + 1] = <<k, put[m][k] + 1>>
         /\ \A i \in 1 .. Len(seen[m]) : seen'[m][i] = seen[m][i]
         /\ PartsSeen(m, k)' = PartsSeen(m, k) \cup {put[m][k] + 1}
         /\ \A n \in Messages, l \in Deliveries :
              n # m \/ l # k => PartsSeen(n, l)' = PartsSeen(n, l)
         /\ PartsInOrder'
<1> USE DEF HookInv, HookTypeOK
<1>1. PICK part : part = put[m][k] + 1
  OBVIOUS
<1>2. PICK n : n = Len(seen[m])
  OBVIOUS
<1>3. /\ part \in 1 .. MaxParts /\ part \in Nat
      /\ put[m][k] \in Nat /\ put[m][k] < part /\ handler[m][k] = "posting"
      /\ 1 .. part = (1 .. put[m][k]) \cup {part}
  <2>1. put[m][k] \in 0 .. MaxParts /\ parts[m][k] \in 0 .. MaxParts
    OBVIOUS
  <2>2. put[m][k] < parts[m][k] /\ handler[m][k] = "posting"
    BY DEF Posting
  <2>3. put[m][k] \in Nat /\ parts[m][k] \in Nat /\ parts[m][k] <= MaxParts
    BY <2>1, HookNumbers
  <2>4. part \in 1 .. MaxParts /\ part \in Nat /\ put[m][k] < part
    BY <1>1, <2>2, <2>3, HookNumbers
  <2>5. 1 .. part = (1 .. put[m][k]) \cup {part}
    BY <1>1, <2>3
  <2> QED
    BY <2>2, <2>3, <2>4, <2>5
<1>4. seen' = [seen EXCEPT ![m] = Append(seen[m], <<k, part>>)]
  BY <1>1 DEF Show
<1>5. /\ seen[m] \in Seq(Deliveries \X (1 .. MaxParts))
      /\ <<k, part>> \in Deliveries \X (1 .. MaxParts)
  BY <1>3
<1>6. seen'[m] = Append(seen[m], <<k, part>>)
  BY <1>4
<1>7. /\ seen'[m] \in Seq(Deliveries \X (1 .. MaxParts))
      /\ n \in Nat /\ Len(seen'[m]) = n + 1 /\ seen'[m][n + 1] = <<k, part>>
      /\ \A i \in 1 .. n : seen'[m][i] = seen[m][i]
      /\ 1 .. n + 1 = (1 .. n) \cup {n + 1}
  BY <1>2, <1>5, <1>6
<1>8. \A q \in Messages \ {m} : seen'[q] = seen[q]
  BY <1>4
<1>9. seen' \in [Messages -> Seq(Deliveries \X (1 .. MaxParts))]
  BY <1>4, <1>6, <1>7
<1>10. \A l \in Deliveries, i \in 1 .. MaxParts :
         (\E j \in 1 .. n + 1 : seen'[m][j] = <<l, i>>) <=>
           (\E j \in 1 .. n : seen[m][j] = <<l, i>>) \/ (l = k /\ i = part)
  <2> TAKE l \in Deliveries, i \in 1 .. MaxParts
  <2>1. ASSUME NEW j \in 1 .. n + 1, seen'[m][j] = <<l, i>>
        PROVE  (\E h \in 1 .. n : seen[m][h] = <<l, i>>) \/ (l = k /\ i = part)
    <3>1. CASE j = n + 1
      <4>1. <<l, i>> = <<k, part>>
        BY <1>7, <2>1, <3>1
      <4> QED
        BY <4>1
    <3>2. CASE j \in 1 .. n
      BY <1>7, <2>1, <3>2
    <3> QED
      BY <1>7, <3>1, <3>2
  <2>2. ASSUME NEW h \in 1 .. n, seen[m][h] = <<l, i>>
        PROVE  \E j \in 1 .. n + 1 : seen'[m][j] = <<l, i>>
    <3>1. h \in 1 .. n + 1 /\ seen'[m][h] = <<l, i>>
      BY <1>7, <2>2
    <3> QED
      BY <3>1
  <2>3. ASSUME l = k, i = part
        PROVE  \E j \in 1 .. n + 1 : seen'[m][j] = <<l, i>>
    <3>1. n + 1 \in 1 .. n + 1
      BY <1>7
    <3> QED
      BY <1>7, <2>3, <3>1
  <2> QED
    BY <2>1, <2>2, <2>3
<1>11. /\ \A l \in Deliveries : PartsSeen(m, l) =
            {i \in 1 .. MaxParts : \E j \in 1 .. n : seen[m][j] = <<l, i>>}
       /\ \A l \in Deliveries : PartsSeen(m, l)' =
            {i \in 1 .. MaxParts : \E j \in 1 .. n + 1 : seen'[m][j] = <<l, i>>}
  BY <1>2, <1>7 DEF PartsSeen
<1>12. PartsSeen(m, k)' = PartsSeen(m, k) \cup {part}
  <2>1. PartsSeen(m, k) = {i \in 1 .. MaxParts : \E j \in 1 .. n : seen[m][j] = <<k, i>>}
    BY <1>11
  <2>2. PartsSeen(m, k)' = {i \in 1 .. MaxParts : \E j \in 1 .. n + 1 : seen'[m][j] = <<k, i>>}
    BY <1>11
  <2>3. \A i \in 1 .. MaxParts :
          (\E j \in 1 .. n + 1 : seen'[m][j] = <<k, i>>) <=>
            (\E j \in 1 .. n : seen[m][j] = <<k, i>>) \/ i = part
    BY <1>10
  <2> QED
    BY ONLY <1>3, <2>1, <2>2, <2>3
<1>13. \A l \in Deliveries : l # k => PartsSeen(m, l)' = PartsSeen(m, l)
  <2> SUFFICES ASSUME NEW l \in Deliveries, l # k PROVE PartsSeen(m, l)' = PartsSeen(m, l)
    OBVIOUS
  <2>1. PartsSeen(m, l) = {i \in 1 .. MaxParts : \E j \in 1 .. n : seen[m][j] = <<l, i>>}
    BY <1>11
  <2>2. PartsSeen(m, l)' = {i \in 1 .. MaxParts : \E j \in 1 .. n + 1 : seen'[m][j] = <<l, i>>}
    BY <1>11
  <2>3. \A i \in 1 .. MaxParts :
          (\E j \in 1 .. n + 1 : seen'[m][j] = <<l, i>>) <=>
            (\E j \in 1 .. n : seen[m][j] = <<l, i>>)
    BY <1>10
  <2> QED
    BY ONLY <2>1, <2>2, <2>3
<1>14. \A q \in Messages \ {m} : \A l \in Deliveries : PartsSeen(q, l)' = PartsSeen(q, l)
  BY <1>8 DEF PartsSeen
<1>15. PartsInOrder'
  <2> SUFFICES ASSUME NEW q \in Messages, NEW l \in Deliveries,
                      NEW i \in 1 .. Len(seen'[q]), NEW j \in 1 .. Len(seen'[q]),
                      i < j, seen'[q][i][1] = l, seen'[q][j][1] = l
               PROVE  /\ seen'[q][i][2] < seen'[q][j][2]
                      /\ InBackground(q) =>
                           1 .. seen'[q][j][2] \subseteq PartsSeen(q, l)'
    BY DEF PartsInOrder, InBackground
  <2>1. CASE q # m
    <3>1. seen'[q] = seen[q] /\ PartsSeen(q, l)' = PartsSeen(q, l)
      BY <1>8, <1>14, <2>1
    <3>2. i \in 1 .. Len(seen[q]) /\ j \in 1 .. Len(seen[q])
          /\ seen[q][i][1] = l /\ seen[q][j][1] = l
      BY <3>1
    <3>3. /\ seen[q][i][2] < seen[q][j][2]
          /\ InBackground(q) => 1 .. seen[q][j][2] \subseteq PartsSeen(q, l)
      BY <3>2 DEF PartsInOrder
    <3> QED
      BY <3>1, <3>3
  <2>2. CASE q = m /\ j # n + 1
    <3>1. i \in 1 .. n /\ j \in 1 .. n
      BY <1>7, <2>2
    <3>2. /\ seen[m][i][2] < seen[m][j][2]
          /\ InBackground(m) => 1 .. seen[m][j][2] \subseteq PartsSeen(m, l)
      BY <1>2, <1>7, <2>2, <3>1 DEF PartsInOrder
    <3>3. PartsSeen(m, l) \subseteq PartsSeen(m, l)'
      BY <1>12, <1>13
    <3> QED
      BY <1>7, <2>2, <3>1, <3>2, <3>3
  <2>3. CASE q = m /\ j = n + 1
    <3>1. i \in 1 .. n /\ seen'[m][i] = seen[m][i] /\ l = k /\ seen'[m][j][2] = part
      <4>1. i \in 1 .. n + 1 /\ i # n + 1
        BY <1>7, <2>3
      <4>2. seen'[m][j] = <<k, part>>
        BY <1>7, <2>3
      <4>3. i \in 1 .. n
        BY ONLY <1>7, <4>1
      <4>4. l = k /\ seen'[m][j][2] = part
        BY <2>3, <4>2
      <4> QED
        BY <1>7, <4>3, <4>4
    <3>2. seen[m][i] \in Deliveries \X (1 .. MaxParts)
      BY <1>2, <1>5, <3>1
    <3>3. seen[m][i][2] <= put[m][k]
      BY <1>2, <1>3, <2>3, <3>1 DEF DeliveryInv, Shown
    <3>4. seen[m][i][2] < part
      <4>1. PICK a \in Deliveries, b \in 1 .. MaxParts : seen[m][i] = <<a, b>>
        BY ONLY <3>2
      <4>2. b \in Nat /\ b <= put[m][k] /\ seen[m][i][2] = b
        BY <3>3, <4>1, HookNumbers
      <4>3. b < part
        BY ONLY <1>3, <4>2
      <4> QED
        BY <4>2, <4>3
    <3>5. InBackground(m) => 1 .. part \subseteq PartsSeen(m, k)'
      BY <1>3, <1>12 DEF DeliveryInv, Missing
    <3> QED
      BY <2>3, <3>1, <3>4, <3>5
  <2> QED
    BY <2>1, <2>2, <2>3
<1> QED
  BY <1>1, <1>2, <1>7, <1>8, <1>9, <1>12, <1>13, <1>14, <1>15

(* The parts of a delivery that are missing are finitely many, and stay as *)
(* few as they were while nothing is put or seen.                          *)
LEMMA GapIsFinite ==
  ASSUME HookInv, NEW m \in Messages, NEW k \in Deliveries
  PROVE  /\ put[m][k] \in Nat /\ parts[m][k] \in Nat
         /\ IsFiniteSet((1 .. put[m][k]) \ PartsSeen(m, k))
         /\ Cardinality((1 .. put[m][k]) \ PartsSeen(m, k)) \in Nat
<1>1. put[m][k] \in 0 .. MaxParts /\ parts[m][k] \in 0 .. MaxParts
  BY DEF HookInv, HookTypeOK
<1>2. put[m][k] \in Nat /\ parts[m][k] \in Nat
  BY ONLY <1>1, HookNumbers
<1>3. IsFiniteSet(1 .. put[m][k])
  BY ONLY <1>2, FS_Interval
<1>4. IsFiniteSet((1 .. put[m][k]) \ PartsSeen(m, k))
  BY ONLY <1>3, FS_Subset, (1 .. put[m][k]) \ PartsSeen(m, k) \subseteq 1 .. put[m][k]
<1>5. Cardinality((1 .. put[m][k]) \ PartsSeen(m, k)) \in Nat
  BY ONLY <1>4, FS_CardinalityType
<1> QED
  BY <1>2, <1>4, <1>5

LEMMA MissingFrame ==
  ASSUME HookInv, NEW m \in Messages, NEW k \in Deliveries,
         put'[m][k] = put[m][k], PartsSeen(m, k)' = PartsSeen(m, k),
         trouble' \in 0 .. MaxTrouble, trouble <= trouble'
  PROVE  Missing(m, k)'
<1>1. PICK gap : gap = (1 .. put[m][k]) \ PartsSeen(m, k)
  OBVIOUS
<1>2. Cardinality(gap) \in Nat /\ Cardinality(gap) <= trouble
  BY <1>1, GapIsFinite DEF HookInv, DeliveryInv, Missing
<1>3. trouble \in 0 .. MaxTrouble
  BY DEF HookInv, HookTypeOK
<1>4. Cardinality(gap) <= trouble'
  BY <1>2, <1>3, HookNumbers
<1>5. InBackground(m) => 1 .. put[m][k] \subseteq PartsSeen(m, k)
  BY DEF HookInv, DeliveryInv, Missing
<1> QED
  BY <1>1, <1>4, <1>5 DEF Missing, InBackground

-----------------------------------------------------------------------------
(* The platform's side: nothing changes for the deliveries but that there  *)
(* may be one more.                                                        *)
LEMMA PlatformStep ==
  ASSUME HookInv, NEW m \in Messages, Deliver(m) \/ HangUp(m) \/ LoseAck(m)
  PROVE  HookInv'
<1> USE DEF HookInv, HookTypeOK
<1>1. UNCHANGED <<parts, put, seen>>
  BY DEF Deliver, HangUp, LoseAck
<1>2. PartsInOrder' /\ \A n \in Messages, k \in Deliveries : PartsSeen(n, k)' = PartsSeen(n, k)
  BY <1>1, SameChat
<1>3. CASE Deliver(m)
  <2>1. PICK d : d = delivered[m] + 1
    OBVIOUS
  <2>2. d \in Deliveries /\ d > delivered[m] /\ d \in 0 .. MaxDeliveries
    BY <1>3, <2>1, HookNumbers DEF Deliver, Deliveries
  <2>3. /\ view[m] \in {"none", "failed"}
        /\ delivered' = [delivered EXCEPT ![m] = d]
        /\ handler' = [handler EXCEPT ![m][d] = "received"]
        /\ view' = [view EXCEPT ![m] = "waiting"]
        /\ UNCHANGED <<parts, put, seen, trouble>>
    BY <1>3, <2>1 DEF Deliver
  <2>4. HookTypeOK'
    BY <2>2, <2>3
  <2>5. handler[m][d] = "none"
    BY <2>2 DEF DeliveryInv, NotYet
  <2>6. ASSUME NEW n \in Messages, NEW k \in Deliveries PROVE DeliveryInv(n, k)'
    <3>1. DeliveryInv(n, k)
      OBVIOUS
    <3>2. NotYet(n, k)'
      <4>1. CASE n = m /\ k = d
        BY <2>2, <2>3, <2>5, <3>1, <4>1 DEF DeliveryInv, NotYet
      <4>2. CASE n # m \/ k # d
        <5>1. handler'[n][k] = handler[n][k] /\ (k > delivered'[n] => k > delivered[n])
          BY <2>1, <2>2, <2>3, <4>2, HookNumbers
        <5> QED
          BY <2>3, <3>1, <5>1 DEF DeliveryInv, NotYet
      <4> QED
        BY <4>1, <4>2
    <3>3. Counted(n, k)' /\ Shown(n, k)'
      <4>1. CASE n = m /\ k = d
        <5>1. handler'[n][k] = "received" /\ \A i \in 1 .. Len(seen[n]) : seen[n][i][1] # k
          BY <2>2, <2>3, <2>5, <3>1, <4>1 DEF DeliveryInv, NotYet
        <5> QED
          BY ONLY <2>3, <5>1 DEF Counted, Shown
      <4>2. CASE n # m \/ k # d
        <5>1. handler'[n][k] = handler[n][k]
          BY <2>2, <2>3, <4>2
        <5>2. Counted(n, k) /\ Shown(n, k)
          BY <3>1 DEF DeliveryInv
        <5> QED
          BY ONLY <2>3, <5>1, <5>2 DEF Counted, Shown
      <4> QED
        BY <4>1, <4>2
    <3>4. Missing(n, k)'
      BY <1>2, <2>3, <3>1 DEF DeliveryInv, Missing, InBackground
    <3> QED
      BY <3>2, <3>3, <3>4 DEF DeliveryInv
  <2>7. AnsweredIsDone'
    BY <2>3 DEF AnsweredIsDone, InBackground
  <2> QED
    BY <1>2, <2>4, <2>6, <2>7
<1>4. CASE HangUp(m) \/ LoseAck(m)
  <2>1. /\ view[m] \in {"waiting", "ok"} /\ view' = [view EXCEPT ![m] = "failed"]
        /\ trouble' \in 0 .. MaxTrouble /\ trouble <= trouble'
        /\ UNCHANGED <<delivered, handler, parts, put, seen>>
    BY <1>4, HookNumbers DEF HangUp, LoseAck, Trouble
  <2>2. HookTypeOK'
    BY <2>1
  <2>3. ASSUME NEW n \in Messages, NEW k \in Deliveries PROVE DeliveryInv(n, k)'
    <3>1. NotYet(n, k)' /\ Counted(n, k)' /\ Shown(n, k)'
      BY <2>1 DEF DeliveryInv, NotYet, Counted, Shown
    <3>2. Missing(n, k)'
      BY <1>2, <2>1, MissingFrame
    <3> QED
      BY <3>1, <3>2 DEF DeliveryInv
  <2>4. AnsweredIsDone'
    BY <2>1 DEF AnsweredIsDone, InBackground
  <2> QED
    BY <1>2, <2>2, <2>3, <2>4
<1> QED
  BY <1>3, <1>4

-----------------------------------------------------------------------------
(* The handler of delivery k of m takes a step: only its own state and the *)
(* platform's view of m change.                                            *)
LEMMA HandlerFrame ==
  ASSUME HookInv, NEW m \in Messages, NEW k \in Deliveries,
         NEW h \in {"agent", "posting", "done", "died"}, NEW code \in {"ok", "failed"},
         NEW p \in 0 .. MaxParts, NEW q \in 0 .. MaxParts,
         handler[m][k] \in {"received", "agent", "posting"},
         handler' = [handler EXCEPT ![m][k] = h],
         parts' = [parts EXCEPT ![m][k] = p], put' = [put EXCEPT ![m][k] = q],
         seen' \in [Messages -> Seq(Deliveries \X (1 .. MaxParts))],
         \A n \in Messages \ {m} : seen'[n] = seen[n],
         \A l \in Deliveries \ {k} :
           /\ PartsSeen(m, l)' = PartsSeen(m, l)
           /\ \A i \in 1 .. Len(seen'[m]) : seen'[m][i][1] = l =>
                i \in 1 .. Len(seen[m]) /\ seen'[m][i] = seen[m][i],
         PartsInOrder', DeliveryInv(m, k)',
         trouble' \in 0 .. MaxTrouble, trouble <= trouble',
         \/ UNCHANGED view
         \/ /\ Awaited(m, k) /\ view' = [view EXCEPT ![m] = code]
            /\ code = "ok" => h = "done" \/ InBackground(m),
         UNCHANGED delivered
  PROVE  HookInv'
<1> USE DEF HookInv, HookTypeOK
<1>1. HookTypeOK'
  BY HookNumbers
<1>2. ASSUME NEW n \in Messages, NEW l \in Deliveries PROVE DeliveryInv(n, l)'
  <2>1. CASE n = m /\ l = k
    BY <2>1
  <2>2. CASE n # m \/ l # k
    <3>1. /\ handler'[n][l] = handler[n][l] /\ parts'[n][l] = parts[n][l]
          /\ put'[n][l] = put[n][l]
      BY <2>2
    <3>2. /\ PartsSeen(n, l)' = PartsSeen(n, l)
          /\ \A i \in 1 .. Len(seen'[n]) : seen'[n][i][1] = l =>
               i \in 1 .. Len(seen[n]) /\ seen'[n][i] = seen[n][i]
      <4>1. CASE n = m
        BY <2>2, <4>1
      <4>2. CASE n # m
        <5>1. seen'[n] = seen[n]
          BY <4>2
        <5>2. PartsSeen(n, l)' = PartsSeen(n, l)
          BY ONLY <5>1 DEF PartsSeen
        <5> QED
          BY <5>1, <5>2
      <4> QED
        BY <4>1, <4>2
    <3>3. DeliveryInv(n, l)
      OBVIOUS
    <3>4. NotYet(n, l)'
      <4>1. NotYet(n, l) /\ delivered'[n] = delivered[n]
        BY <3>3 DEF DeliveryInv
      <4> QED
        BY ONLY <3>1, <3>2, <4>1 DEF NotYet
    <3>5. Counted(n, l)'
      BY <3>1, <3>3 DEF DeliveryInv, Counted
    <3>6. Shown(n, l)'
      BY <3>1, <3>2, <3>3 DEF DeliveryInv, Shown
    <3>7. Missing(n, l)'
      BY <3>1, <3>2, MissingFrame
    <3> QED
      BY <3>4, <3>5, <3>6, <3>7 DEF DeliveryInv
  <2> QED
    BY <2>1, <2>2
<1>3. AnsweredIsDone'
  <2> SUFFICES ASSUME NEW n \in Messages, ~InBackground(n), view'[n] = "ok"
               PROVE  delivered[n] \in Deliveries /\ handler'[n][delivered[n]] = "done"
    BY DEF AnsweredIsDone, InBackground
  <2>1. CASE UNCHANGED view
    BY <2>1 DEF AnsweredIsDone
  <2>2. CASE ~ UNCHANGED view
    BY <2>2 DEF AnsweredIsDone, Awaited
  <2> QED
    BY <2>1, <2>2
<1> QED
  BY <1>1, <1>2, <1>3

(* The request is taken on, or not: nothing is posted yet.                 *)
LEMMA RequestStep ==
  ASSUME HookInv, NEW m \in Messages, NEW k \in Deliveries,
         Accept(m, k) \/ Reject(m, k)
  PROVE  HookInv'
<1> USE DEF HookInv, HookTypeOK
<1>1. PICK h \in {"agent", "died"} :
        /\ handler[m][k] = "received" /\ handler' = [handler EXCEPT ![m][k] = h]
        /\ UNCHANGED <<delivered, parts, put, seen>>
  BY DEF Accept, Reject
<1>2. trouble' \in 0 .. MaxTrouble /\ trouble <= trouble'
  BY HookNumbers DEF Accept, Reject, Trouble
<1>3. PICK code \in {"ok", "failed"} :
        \/ UNCHANGED view
        \/ /\ Awaited(m, k) /\ view' = [view EXCEPT ![m] = code]
           /\ code = "ok" => InBackground(m)
  BY DEF Accept, Reject, Answer
<1>4. PartsInOrder' /\ \A n \in Messages, l \in Deliveries : PartsSeen(n, l)' = PartsSeen(n, l)
  BY <1>1, SameChat
<1>5. /\ ~(k > delivered[m]) /\ put[m][k] = 0 /\ handler'[m][k] = h
      /\ \A i \in 1 .. Len(seen[m]) : seen[m][i][1] # k
  BY <1>1 DEF DeliveryInv, NotYet
<1>6. /\ parts[m][k] \in 0 .. MaxParts /\ put[m][k] \in 0 .. MaxParts
      /\ parts[m][k] \in Nat /\ put[m][k] \in Nat
  BY GapIsFinite
<1>7. NotYet(m, k)' /\ Counted(m, k)' /\ Shown(m, k)'
  BY ONLY <1>1, <1>5, <1>6 DEF NotYet, Counted, Shown
<1>8. Missing(m, k)'
  BY <1>1, <1>2, <1>4, MissingFrame
<1>9. DeliveryInv(m, k)'
  BY <1>7, <1>8 DEF DeliveryInv
<1>10. /\ parts' = [parts EXCEPT ![m][k] = parts[m][k]]
       /\ put' = [put EXCEPT ![m][k] = put[m][k]]
  BY <1>1
<1>11. /\ seen' \in [Messages -> Seq(Deliveries \X (1 .. MaxParts))]
       /\ \A n \in Messages \ {m} : seen'[n] = seen[n]
       /\ \A l \in Deliveries \ {k} :
            /\ PartsSeen(m, l)' = PartsSeen(m, l)
            /\ \A i \in 1 .. Len(seen'[m]) : seen'[m][i][1] = l =>
                 i \in 1 .. Len(seen[m]) /\ seen'[m][i] = seen[m][i]
  BY <1>1, <1>4
<1> QED
  BY <1>1, <1>2, <1>3, <1>4, <1>6, <1>9, <1>10, <1>11, HandlerFrame

LEMMA AgentStep ==
  ASSUME HookInv, NEW m \in Messages, NEW k \in Deliveries, AgentReplies(m, k)
  PROVE  HookInv'
<1> USE DEF HookInv, HookTypeOK
<1>1. PICK p \in 0 .. MaxParts :
        /\ handler[m][k] = "agent" /\ parts' = [parts EXCEPT ![m][k] = p]
        /\ p = 0 <=> m \in Unaddressed
  <2>1. \A n \in ReplyParts(m) : n \in 0 .. MaxParts /\ (n = 0 <=> m \in Unaddressed)
    <3>1. CASE m \in Unaddressed
      BY <3>1, HookNumbers DEF ReplyParts
    <3>2. CASE m \notin Unaddressed /\ Platform[m] = "teams"
      BY <3>2, HookNumbers DEF ReplyParts
    <3>3. CASE m \notin Unaddressed /\ Platform[m] # "teams"
      BY <3>3, HookNumbers DEF ReplyParts
    <3> QED
      BY <3>1, <3>2, <3>3
  <2> QED
    BY <2>1 DEF AgentReplies
<1>2. /\ handler' = [handler EXCEPT ![m][k] = "posting"]
      /\ UNCHANGED <<delivered, view, put, seen, trouble>>
  BY DEF AgentReplies
<1>3. PICK q : q = put[m][k]
  OBVIOUS
<1>4. q \in 0 .. MaxParts /\ put' = [put EXCEPT ![m][k] = q]
  BY <1>2, <1>3
<1>5. PartsInOrder' /\ \A n \in Messages, l \in Deliveries : PartsSeen(n, l)' = PartsSeen(n, l)
  BY <1>2, SameChat
<1>6. handler'[m][k] = "posting" /\ put'[m][k] = 0 /\ put[m][k] = 0 /\ parts'[m][k] = p
      /\ \A i \in 1 .. Len(seen[m]) : seen[m][i][1] # k
  BY <1>1, <1>2 DEF DeliveryInv, NotYet
<1>7. NotYet(m, k)'
  BY <1>1, <1>2, <1>6 DEF DeliveryInv, NotYet
<1>8. Counted(m, k)' /\ Shown(m, k)'
  <2>1. p \in Nat /\ seen' = seen
    BY <1>2, HookNumbers
  <2> QED
    BY ONLY <1>1, <1>6, <2>1 DEF Counted, Shown
<1>9. Missing(m, k)'
  BY <1>2, <1>5, <1>6, MissingFrame, HookNumbers
<1>10. DeliveryInv(m, k)'
  BY <1>7, <1>8, <1>9 DEF DeliveryInv
<1>11. trouble' \in 0 .. MaxTrouble /\ trouble <= trouble'
  BY <1>2, HookNumbers
<1> QED
  BY <1>1, <1>2, <1>4, <1>5, <1>10, <1>11, HandlerFrame

(* What the handler does while it posts.                                   *)
LEMMA Underway ==
  ASSUME HookInv, NEW m \in Messages, NEW k \in Deliveries, handler[m][k] = "posting"
  PROVE  /\ ~(k > delivered[m]) /\ put[m][k] <= parts[m][k]
         /\ put[m][k] \in 0 .. MaxParts /\ parts[m][k] \in 0 .. MaxParts
         /\ \A i \in 1 .. Len(seen[m]) : seen[m][i][1] = k => seen[m][i][2] <= put[m][k]
  BY DEF HookInv, HookTypeOK, DeliveryInv, NotYet, Counted, Shown

(* The chat after a part was shown, for the other deliveries of m.         *)
LEMMA ShowOthers ==
  ASSUME HookInv, NEW m \in Messages, NEW k \in Deliveries, Posting(m, k), Show(m, k),
         NEW l \in Deliveries, l # k
  PROVE  /\ PartsSeen(m, l)' = PartsSeen(m, l)
         /\ \A i \in 1 .. Len(seen'[m]) : seen'[m][i][1] = l =>
              i \in 1 .. Len(seen[m]) /\ seen'[m][i] = seen[m][i]
<1>1. PartsSeen(m, l)' = PartsSeen(m, l)
  BY ShowEffect
<1>2. PICK n : n = Len(seen[m])
  OBVIOUS
<1>3. n \in Nat
  BY <1>2 DEF HookInv, HookTypeOK
<1>4. /\ Len(seen'[m]) = n + 1 /\ seen'[m][n + 1] = <<k, put[m][k] + 1>>
      /\ \A i \in 1 .. n : seen'[m][i] = seen[m][i]
  BY <1>2, ShowEffect
<1>5. ASSUME NEW i \in 1 .. n + 1, seen'[m][i][1] = l PROVE i \in 1 .. n
  BY ONLY <1>3, <1>4, <1>5, l # k
<1> QED
  BY <1>1, <1>2, <1>4, <1>5

(* A part that was shown and counted leaves the gap as it was, one counted *)
(* that was not shown widens it by one.                                    *)
LEMMA GapAfter ==
  ASSUME HookInv, NEW m \in Messages, NEW k \in Deliveries, Posting(m, k),
         put'[m][k] = put[m][k] + 1, trouble' \in 0 .. MaxTrouble,
         \/ /\ PartsSeen(m, k)' = PartsSeen(m, k) \cup {put[m][k] + 1}
            /\ trouble' = trouble
         \/ /\ PartsSeen(m, k)' = PartsSeen(m, k)
            /\ trouble' = trouble + 1 /\ ~InBackground(m)
  PROVE  Missing(m, k)'
<1>1. PICK n : n = put[m][k]
  OBVIOUS
<1>2. PICK seenOf : seenOf = PartsSeen(m, k)
  OBVIOUS
<1>3. PICK gap : gap = (1 .. n) \ seenOf
  OBVIOUS
<1>4. n \in Nat /\ IsFiniteSet(gap) /\ Cardinality(gap) \in Nat
  BY <1>1, <1>2, <1>3, GapIsFinite
<1>5. Cardinality(gap) <= trouble /\ (InBackground(m) => 1 .. n \subseteq seenOf)
  BY <1>1, <1>2, <1>3 DEF HookInv, DeliveryInv, Missing
<1>6. 1 .. n + 1 = (1 .. n) \cup {n + 1}
  BY <1>4
<1>7. trouble \in Nat
  BY HookNumbers DEF HookInv, HookTypeOK
<1>8. CASE PartsSeen(m, k)' = PartsSeen(m, k) \cup {put[m][k] + 1} /\ trouble' = trouble
  <2>1. (1 .. n + 1) \ (seenOf \cup {n + 1}) \subseteq gap
    BY <1>3, <1>6
  <2>2. Cardinality((1 .. n + 1) \ (seenOf \cup {n + 1})) <= Cardinality(gap)
    BY ONLY <2>1, <1>4, FS_Subset
  <2>3. /\ IsFiniteSet((1 .. n + 1) \ (seenOf \cup {n + 1}))
        /\ Cardinality((1 .. n + 1) \ (seenOf \cup {n + 1})) \in Nat
    BY ONLY <2>1, <1>4, FS_Subset, FS_CardinalityType
  <2>4. Cardinality((1 .. n + 1) \ (seenOf \cup {n + 1})) <= trouble
    BY ONLY <1>4, <1>5, <1>7, <2>2, <2>3
  <2>5. InBackground(m) => 1 .. n + 1 \subseteq seenOf \cup {n + 1}
    BY <1>5, <1>6
  <2> QED
    BY <1>1, <1>2, <1>8, <2>4, <2>5 DEF Missing, InBackground
<1>9. CASE PartsSeen(m, k)' = PartsSeen(m, k) /\ trouble' = trouble + 1 /\ ~InBackground(m)
  <2>1. (1 .. n + 1) \ seenOf \subseteq gap \cup {n + 1}
    BY <1>3, <1>6
  <2>2. IsFiniteSet(gap \cup {n + 1}) /\ Cardinality(gap \cup {n + 1}) <= Cardinality(gap) + 1
    <3>1. /\ IsFiniteSet(gap \cup {n + 1})
          /\ Cardinality(gap \cup {n + 1}) =
               IF n + 1 \in gap THEN Cardinality(gap) ELSE Cardinality(gap) + 1
      BY ONLY <1>4, FS_AddElement
    <3> QED
      BY ONLY <1>4, <3>1
  <2>3. /\ Cardinality((1 .. n + 1) \ seenOf) <= Cardinality(gap \cup {n + 1})
        /\ Cardinality((1 .. n + 1) \ seenOf) \in Nat /\ Cardinality(gap \cup {n + 1}) \in Nat
    BY ONLY <2>1, <2>2, FS_Subset, FS_CardinalityType
  <2>4. Cardinality((1 .. n + 1) \ seenOf) <= trouble + 1
    BY ONLY <1>4, <1>5, <1>7, <2>2, <2>3
  <2> QED
    BY <1>1, <1>2, <1>9, <2>4 DEF Missing, InBackground
<1> QED
  BY <1>8, <1>9

LEMMA PostStep ==
  ASSUME HookInv, NEW m \in Messages, NEW k \in Deliveries,
         Post(m, k) \/ PostRefused(m, k)
  PROVE  HookInv'
<1> USE DEF HookInv, HookTypeOK
<1>1. /\ handler[m][k] = "posting" /\ put[m][k] < parts[m][k] /\ Posting(m, k)
      /\ put' = [put EXCEPT ![m][k] = @ + 1]
      /\ UNCHANGED <<delivered, view, handler, parts>>
  BY DEF Post, PostRefused, Posting
<1>2. PICK q : q = put[m][k] + 1
  OBVIOUS
<1>3. /\ ~(k > delivered[m]) /\ put[m][k] \in Nat /\ parts[m][k] \in Nat
      /\ q \in 0 .. MaxParts /\ q <= parts[m][k] /\ q > put[m][k]
      /\ put' = [put EXCEPT ![m][k] = q] /\ put'[m][k] = q
  <2>1. put[m][k] \in Nat /\ parts[m][k] \in Nat
    BY GapIsFinite
  <2>2. ~(k > delivered[m]) /\ parts[m][k] \in 0 .. MaxParts
    BY <1>1, Underway
  <2>3. q \in 0 .. MaxParts /\ q <= parts[m][k] /\ q > put[m][k]
    BY ONLY <1>1, <1>2, <2>1, <2>2, HookNumbers
  <2>4. put' = [put EXCEPT ![m][k] = q] /\ put'[m][k] = q
    BY <1>1, <1>2
  <2> QED
    BY <2>1, <2>2, <2>3, <2>4
<1>4. \A i \in 1 .. Len(seen[m]) : seen[m][i][1] = k => seen[m][i][2] <= put[m][k]
  BY <1>1, Underway
<1>5. trouble' \in 0 .. MaxTrouble /\ trouble <= trouble'
  BY HookNumbers DEF Post, PostRefused, Trouble
<1>6. /\ seen' \in [Messages -> Seq(Deliveries \X (1 .. MaxParts))]
      /\ \A n \in Messages \ {m} : seen'[n] = seen[n]
      /\ PartsInOrder'
  BY <1>1, ShowEffect, SameChat DEF Post, PostRefused
<1>7. \A l \in Deliveries \ {k} :
        /\ PartsSeen(m, l)' = PartsSeen(m, l)
        /\ \A i \in 1 .. Len(seen'[m]) : seen'[m][i][1] = l =>
             i \in 1 .. Len(seen[m]) /\ seen'[m][i] = seen[m][i]
  BY <1>1, ShowOthers, SameChat DEF Post, PostRefused
<1>8. Shown(m, k)'
  <2>1. CASE Show(m, k)
    <3>1. PICK n : n = Len(seen[m])
      OBVIOUS
    <3>2. n \in Nat
      BY <3>1
    <3>3. /\ Len(seen'[m]) = n + 1 /\ seen'[m][n + 1] = <<k, q>>
          /\ \A i \in 1 .. n : seen'[m][i] = seen[m][i]
      BY <1>1, <1>2, <2>1, <3>1, ShowEffect
    <3>4. ASSUME NEW i \in 1 .. n + 1, seen'[m][i][1] = k PROVE seen'[m][i][2] <= q
      <4>1. CASE i = n + 1
        BY <1>3, <3>3, <4>1, HookNumbers
      <4>2. CASE i # n + 1
        <5>1. i \in 1 .. n
          BY ONLY <3>2, <4>2
        <5>2. seen[m][i] \in Deliveries \X (1 .. MaxParts)
          BY <3>1, <5>1
        <5>3. PICK a \in Deliveries, b \in 1 .. MaxParts : seen[m][i] = <<a, b>>
          BY ONLY <5>2
        <5>4. seen'[m][i] = <<a, b>>
          BY ONLY <3>3, <5>1, <5>3
        <5>5. a = k
          BY ONLY <3>4, <5>4
        <5>6. seen[m][i][2] <= put[m][k]
          BY ONLY <1>4, <3>1, <5>1, <5>3, <5>5
        <5>7. b <= q
          BY ONLY <1>3, <5>3, <5>6, HookNumbers
        <5> QED
          BY ONLY <5>4, <5>7
      <4> QED
        BY <4>1, <4>2
    <3> QED
      BY <1>3, <3>3, <3>4 DEF Shown
  <2>2. CASE UNCHANGED seen
    <3>1. ASSUME NEW i \in 1 .. Len(seen[m]), seen[m][i][1] = k PROVE seen[m][i][2] <= q
      <4>1. seen[m][i] \in Deliveries \X (1 .. MaxParts)
        OBVIOUS
      <4>2. PICK a \in Deliveries, b \in 1 .. MaxParts : seen[m][i] = <<a, b>>
        BY ONLY <4>1
      <4>3. seen[m][i][2] <= put[m][k]
        BY ONLY <1>4, <3>1
      <4> QED
        BY ONLY <1>3, <4>2, <4>3, HookNumbers
    <3> QED
      BY <1>3, <2>2, <3>1 DEF Shown
  <2> QED
    BY <2>1, <2>2 DEF Post, PostRefused
<1>9. NotYet(m, k)' /\ Counted(m, k)'
  <2>1. parts[m][k] = 0 <=> m \in Unaddressed
    BY <1>1 DEF DeliveryInv, Counted
  <2> QED
    BY ONLY <1>1, <1>3, <2>1 DEF NotYet, Counted
<1>10. Missing(m, k)'
  BY <1>1, <1>2, <1>3, <1>5, ShowEffect, SameChat, GapAfter DEF Post, PostRefused, Trouble
<1>11. DeliveryInv(m, k)'
  BY <1>8, <1>9, <1>10 DEF DeliveryInv
<1>12. /\ handler' = [handler EXCEPT ![m][k] = "posting"]
       /\ parts' = [parts EXCEPT ![m][k] = parts[m][k]] /\ parts[m][k] \in 0 .. MaxParts
  BY <1>1
<1> QED
  BY <1>1, <1>3, <1>5, <1>6, <1>7, <1>11, <1>12, HandlerFrame

LEMMA RaisesStep ==
  ASSUME HookInv, NEW m \in Messages, NEW k \in Deliveries, PostRaises(m, k)
  PROVE  HookInv'
<1> USE DEF HookInv, HookTypeOK
<1>1. /\ handler[m][k] = "posting" /\ put[m][k] < parts[m][k] /\ Posting(m, k)
      /\ handler' = [handler EXCEPT ![m][k] = "died"] /\ handler'[m][k] = "died"
      /\ trouble' = trouble + 1
      /\ UNCHANGED <<delivered, parts, put>>
  BY DEF PostRaises, Posting, Trouble
<1>2. trouble' \in 0 .. MaxTrouble /\ trouble <= trouble'
  BY HookNumbers DEF PostRaises, Trouble
<1>3. \/ UNCHANGED view
      \/ Awaited(m, k) /\ view' = [view EXCEPT ![m] = "failed"]
  BY DEF PostRaises, Answer
<1>4. /\ ~(k > delivered[m]) /\ put[m][k] \in 0 .. MaxParts /\ parts[m][k] \in 0 .. MaxParts
      /\ put[m][k] \in Nat /\ parts[m][k] \in Nat /\ put[m][k] <= parts[m][k]
      /\ \A i \in 1 .. Len(seen[m]) : seen[m][i][1] = k => seen[m][i][2] <= put[m][k]
  BY <1>1, Underway, GapIsFinite
<1>5. /\ seen' \in [Messages -> Seq(Deliveries \X (1 .. MaxParts))]
      /\ \A n \in Messages \ {m} : seen'[n] = seen[n]
      /\ PartsInOrder'
  BY <1>1, ShowEffect, SameChat DEF PostRaises
<1>6. \A l \in Deliveries \ {k} :
        /\ PartsSeen(m, l)' = PartsSeen(m, l)
        /\ \A i \in 1 .. Len(seen'[m]) : seen'[m][i][1] = l =>
             i \in 1 .. Len(seen[m]) /\ seen'[m][i] = seen[m][i]
  <2>1. CASE UNCHANGED seen
    BY <2>1, SameChat
  <2>2. CASE Show(m, k)
    BY <1>1, <2>2, ShowOthers
  <2> QED
    BY <2>1, <2>2 DEF PostRaises
<1>7. Shown(m, k)'
  <2>1. CASE Show(m, k)
    <3>1. PICK n : n = Len(seen[m])
      OBVIOUS
    <3>2. n \in Nat
      BY <3>1
    <3>3. PICK q : q = put[m][k] + 1
      OBVIOUS
    <3>4. /\ Len(seen'[m]) = n + 1 /\ seen'[m][n + 1] = <<k, q>>
          /\ \A i \in 1 .. n : seen'[m][i] = seen[m][i]
      BY <1>1, <2>1, <3>1, <3>3, ShowEffect
    <3>5. ASSUME NEW i \in 1 .. n + 1, seen'[m][i][1] = k
          PROVE  seen'[m][i][2] <= put[m][k] \/ seen'[m][i][2] <= q
      <4>1. CASE i = n + 1
        BY <1>4, <3>3, <3>4, <4>1
      <4>2. CASE i # n + 1
        <5>1. i \in 1 .. n
          BY ONLY <3>2, <4>2
        <5> QED
          BY <1>4, <3>1, <3>4, <3>5, <5>1
      <4> QED
        BY <4>1, <4>2
    <3> QED
      BY <1>1, <3>3, <3>4, <3>5 DEF Shown
  <2>2. CASE UNCHANGED seen
    BY <1>1, <1>4, <2>2 DEF Shown
  <2> QED
    BY <2>1, <2>2 DEF PostRaises
<1>8. NotYet(m, k)' /\ Counted(m, k)'
  BY ONLY <1>1, <1>4 DEF NotYet, Counted
<1>9. Missing(m, k)'
  <2>1. CASE UNCHANGED seen
    BY <1>1, <1>2, <2>1, SameChat, MissingFrame
  <2>2. CASE Show(m, k)
    <3>1. PICK q : q = put[m][k] + 1
      OBVIOUS
    <3>2. PICK seenOf : seenOf = PartsSeen(m, k)
      OBVIOUS
    <3>3. PICK gap : gap = (1 .. put[m][k]) \ seenOf
      OBVIOUS
    <3>4. PartsSeen(m, k)' = seenOf \cup {q}
      BY <1>1, <2>2, <3>1, <3>2, ShowEffect
    <3>5. /\ IsFiniteSet(gap) /\ Cardinality(gap) \in Nat /\ Cardinality(gap) <= trouble
          /\ InBackground(m) => 1 .. put[m][k] \subseteq seenOf
      BY <3>2, <3>3, GapIsFinite DEF DeliveryInv, Missing
    <3>6. PICK left : left = (1 .. put[m][k]) \ (seenOf \cup {q})
      OBVIOUS
    <3>7. left \subseteq gap
      BY <3>3, <3>6
    <3>8. Cardinality(left) \in Nat /\ Cardinality(left) <= Cardinality(gap)
      BY ONLY <3>5, <3>7, FS_Subset, FS_CardinalityType
    <3>9. Cardinality(left) <= trouble + 1
      <4>1. trouble \in Nat
        BY HookNumbers
      <4> QED
        BY ONLY <3>5, <3>8, <4>1
    <3> QED
      BY <1>1, <3>4, <3>5, <3>6, <3>9 DEF Missing, InBackground
  <2> QED
    BY <2>1, <2>2 DEF PostRaises
<1>10. DeliveryInv(m, k)'
  BY <1>7, <1>8, <1>9 DEF DeliveryInv
<1>11. /\ parts' = [parts EXCEPT ![m][k] = parts[m][k]]
       /\ put' = [put EXCEPT ![m][k] = put[m][k]]
  BY <1>1
<1> QED
  BY <1>1, <1>2, <1>3, <1>4, <1>5, <1>6, <1>10, <1>11, HandlerFrame

LEMMA FinishStep ==
  ASSUME HookInv, NEW m \in Messages, NEW k \in Deliveries, Finish(m, k)
  PROVE  HookInv'
<1> USE DEF HookInv, HookTypeOK
<1>1. /\ handler[m][k] = "posting" /\ put[m][k] = parts[m][k]
      /\ handler' = [handler EXCEPT ![m][k] = "done"] /\ handler'[m][k] = "done"
      /\ UNCHANGED <<delivered, parts, put, seen, trouble>>
  BY DEF Finish
<1>2. trouble' \in 0 .. MaxTrouble /\ trouble <= trouble'
  BY <1>1, HookNumbers
<1>3. \/ UNCHANGED view
      \/ Awaited(m, k) /\ view' = [view EXCEPT ![m] = "ok"]
  BY DEF Finish, Answer
<1>4. /\ ~(k > delivered[m]) /\ put[m][k] \in 0 .. MaxParts /\ parts[m][k] \in 0 .. MaxParts
      /\ put[m][k] <= parts[m][k]
      /\ \A i \in 1 .. Len(seen[m]) : seen[m][i][1] = k => seen[m][i][2] <= put[m][k]
  BY <1>1, Underway
<1>5. PartsInOrder' /\ \A n \in Messages, l \in Deliveries : PartsSeen(n, l)' = PartsSeen(n, l)
  BY <1>1, SameChat
<1>6. NotYet(m, k)' /\ Counted(m, k)' /\ Shown(m, k)'
  <2>1. parts[m][k] = 0 <=> m \in Unaddressed
    BY <1>1 DEF DeliveryInv, Counted
  <2> QED
    BY ONLY <1>1, <1>4, <2>1 DEF NotYet, Counted, Shown
<1>7. Missing(m, k)'
  BY <1>1, <1>2, <1>5, MissingFrame
<1>8. DeliveryInv(m, k)'
  BY <1>6, <1>7 DEF DeliveryInv
<1>9. /\ parts' = [parts EXCEPT ![m][k] = parts[m][k]]
      /\ put' = [put EXCEPT ![m][k] = put[m][k]]
  BY <1>1
<1>10. /\ seen' \in [Messages -> Seq(Deliveries \X (1 .. MaxParts))]
       /\ \A n \in Messages \ {m} : seen'[n] = seen[n]
       /\ \A l \in Deliveries \ {k} :
            /\ PartsSeen(m, l)' = PartsSeen(m, l)
            /\ \A i \in 1 .. Len(seen'[m]) : seen'[m][i][1] = l =>
                 i \in 1 .. Len(seen[m]) /\ seen'[m][i] = seen[m][i]
  BY <1>1, <1>5
<1> QED
  BY <1>1, <1>2, <1>3, <1>4, <1>5, <1>8, <1>9, <1>10, HandlerFrame

LEMMA CrashStep == HookInv /\ Crash => HookInv'
<1> SUFFICES ASSUME HookInv, Crash PROVE HookInv'
  OBVIOUS
<1> USE DEF HookInv, HookTypeOK
<1>1. /\ handler' = [m \in Messages |-> [k \in Deliveries |->
           IF handler[m][k] \in {"received", "agent", "posting"}
             THEN "died" ELSE handler[m][k]]]
      /\ view' = [m \in Messages |-> IF view[m] = "waiting" THEN "failed" ELSE view[m]]
      /\ UNCHANGED <<delivered, parts, put, seen>>
  BY DEF Crash
<1>2. trouble' \in 0 .. MaxTrouble /\ trouble <= trouble'
  BY HookNumbers DEF Crash, Trouble
<1>3. HookTypeOK'
  BY <1>1, <1>2
<1>4. PartsInOrder' /\ \A n \in Messages, l \in Deliveries : PartsSeen(n, l)' = PartsSeen(n, l)
  BY <1>1, SameChat
<1>5. ASSUME NEW m \in Messages, NEW k \in Deliveries PROVE DeliveryInv(m, k)'
  <2>1. /\ NotYet(m, k) /\ Counted(m, k) /\ Shown(m, k)
        /\ put[m][k] \in Nat /\ parts[m][k] \in Nat
    BY GapIsFinite DEF DeliveryInv
  <2>2. /\ handler'[m][k] = IF handler[m][k] \in {"received", "agent", "posting"}
                              THEN "died" ELSE handler[m][k]
        /\ handler[m][k] \in {"none", "received", "agent", "posting", "done", "died"}
    BY <1>1
  <2>3. NotYet(m, k)'
    BY ONLY <1>1, <2>1, <2>2 DEF NotYet
  <2>4. Counted(m, k)'
    BY ONLY <1>1, <2>1, <2>2 DEF Counted, NotYet
  <2>5. Shown(m, k)'
    BY ONLY <1>1, <2>1, <2>2 DEF Shown, NotYet
  <2>6. Missing(m, k)'
    BY <1>1, <1>2, <1>4, MissingFrame
  <2> QED
    BY <2>3, <2>4, <2>5, <2>6 DEF DeliveryInv
<1>6. AnsweredIsDone'
  BY <1>1 DEF AnsweredIsDone, InBackground
<1> QED
  BY <1>3, <1>4, <1>5, <1>6

LEMMA HookStep == HookInv /\ [HookNext]_hookVars => HookInv'
<1> SUFFICES ASSUME HookInv, [HookNext]_hookVars PROVE HookInv'
  OBVIOUS
<1>1. CASE UNCHANGED hookVars
  <2>1. /\ UNCHANGED <<delivered, view, handler, parts, put, seen, trouble>>
        /\ PartsInOrder'
        /\ \A m \in Messages, k \in Deliveries : PartsSeen(m, k)' = PartsSeen(m, k)
    BY <1>1, SameChat DEF hookVars
  <2>2. HookTypeOK'
    BY <2>1 DEF HookInv, HookTypeOK
  <2>3. ASSUME NEW m \in Messages, NEW k \in Deliveries PROVE DeliveryInv(m, k)'
    <3>1. DeliveryInv(m, k)
      BY DEF HookInv
    <3>2. NotYet(m, k)' /\ Counted(m, k)' /\ Shown(m, k)'
      BY ONLY <2>1, <3>1 DEF DeliveryInv, NotYet, Counted, Shown
    <3>3. Missing(m, k)'
      BY ONLY <2>1, <3>1 DEF DeliveryInv, Missing, InBackground
    <3> QED
      BY <3>2, <3>3 DEF DeliveryInv
  <2>4. AnsweredIsDone'
    BY <2>1 DEF HookInv, AnsweredIsDone, InBackground
  <2> QED
    BY <2>1, <2>2, <2>3, <2>4 DEF HookInv
<1>2. CASE HookNext
  BY <1>2, CrashStep, PlatformStep, RequestStep, AgentStep, PostStep, RaisesStep, FinishStep
     DEF HookNext, Handle, PostingStep
<1> QED
  BY <1>1, <1>2

-----------------------------------------------------------------------------
(* Both.                                                                   *)
InboundInv == HookInv /\ JobInv

(* The inductive invariant of all that comes from outside the web chat.    *)
THEOREM InboundInvariant == Spec => []InboundInv
<1>1. Init => InboundInv
  BY HookInitInv, JobInitInv DEF Init, InboundInv
<1>2. InboundInv /\ [Next]_inboundVars => InboundInv'
  <2>1. [Next]_inboundVars => [HookNext]_hookVars /\ [JobNext]_jobVars
    BY DEF Next, inboundVars, HookNext, hookVars, jobVars
  <2> QED
    BY <2>1, HookStep, JobStep DEF InboundInv
<1> QED
  BY <1>1, <1>2, PTL DEF Spec

(* Messages, handlers, jobs and tasks stay what they are.                  *)
THEOREM InboundTypes == Spec => [](HookTypeOK /\ JobTypeOK)
<1>1. InboundInv => HookTypeOK /\ JobTypeOK
  BY DEF InboundInv, HookInv, JobInv
<1> QED
  BY <1>1, InboundInvariant, PTL

(* A reply arrives whole and in order (connectors: every part is posted    *)
(* before the handler or the task is over; Telegram and Teams get their    *)
(* 200 after that; nothing is posted for an activity without an address).  *)
THEOREM WholeReplies == Spec => []RepliesAreWhole
<1>1. InboundInv => RepliesAreWhole
  <2> SUFFICES ASSUME HookInv PROVE AnsweredIsPosted
    BY DEF InboundInv, HookInv, RepliesAreWhole
  <2>1. ASSUME NEW m \in Messages, NEW k \in Deliveries, handler[m][k] = "done"
        PROVE  /\ parts[m][k] = 0 <=> m \in Unaddressed
               /\ Cardinality((1 .. parts[m][k]) \ PartsSeen(m, k)) <=
                    IF InBackground(m) THEN 0 ELSE trouble
    <3>1. /\ put[m][k] = parts[m][k] /\ (parts[m][k] = 0 <=> m \in Unaddressed)
          /\ Missing(m, k)
      BY <2>1 DEF HookInv, DeliveryInv, Counted
    <3>2. CASE InBackground(m)
      <4>1. (1 .. parts[m][k]) \ PartsSeen(m, k) = {}
        BY <3>1, <3>2 DEF Missing
      <4> QED
        BY <3>1, <3>2, <4>1, FS_EmptySet
    <3> QED
      BY <3>1, <3>2 DEF Missing
  <2> QED
    BY <2>1 DEF AnsweredIsPosted, HookInv, AnsweredIsDone
<1> QED
  BY <1>1, InboundInvariant, PTL

(* What create_scheduled_task returned is stored, and each triggered task  *)
(* carries the name of its job.                                            *)
THEOREM SchedulesRun == Spec => []ScheduledRuns
<1>1. InboundInv => ScheduledRuns
  BY DEF InboundInv, JobInv, ScheduledRuns, TasksNameTheirJob, TasksAreCalls
<1> QED
  BY <1>1, InboundInvariant, PTL

(* A job the tool said it deleted is gone until it is scheduled again; so  *)
(* is one it said it did not find, as long as no request failed.           *)
THEOREM DeletedJobsStayGone == Spec => []DeletedIsGone
<1>1. InboundInv => DeletedIsGone
  BY DEF InboundInv, JobInv
<1> QED
  BY <1>1, InboundInvariant, PTL

=============================================================================

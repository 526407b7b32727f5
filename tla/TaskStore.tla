----------------------------- MODULE TaskStore -----------------------------
(***************************************************************************)
(* gateway/tasks.py and the /tasks endpoints of gateway/main.py.           *)
(*                                                                         *)
(* Every gateway instance keeps an in-process dict of task records and a   *)
(* dict of asyncio.Task handles.  A background coroutine drives each task  *)
(* and pauses at its awaits: the thread that writes the record to          *)
(* Firestore, the session creation, the agent run under wait_for.  pc[t]   *)
(* names the await at which the coroutine of task t is suspended; what     *)
(* runs between two awaits is one action.  A cancellation (cancel_task) or *)
(* the run's deadline is only requested by its caller: the coroutine meets *)
(* it as an exception when it next runs (throw[t]).                        *)
(*                                                                         *)
(* Firestore writes are made by a bounded pool of threads: a write is      *)
(* queued, sent (the record is serialised then) and lands or fails, and a  *)
(* thread outlives the await that was cancelled on it.                     *)
(*                                                                         *)
(* A request refused with 403, and one that changes nothing, is a          *)
(* stuttering step and has no action.                                      *)
(***************************************************************************)
EXTENDS Naturals, FiniteSets

CONSTANTS
  Tasks,       \* task ids (uuid4: never reused)
  Instances,   \* Cloud Run instances of the gateway
  NoRunner,    \* instances whose _runner is None (lifespan has not run)
  MaxNotes,    \* bound: progress notes one run appends
  PoolSize     \* threads in an instance's default executor

ASSUME BoundsAssumption ==
  /\ MaxNotes \in Nat
  /\ PoolSize \in Nat \ {0}
  /\ NoRunner \subseteq Instances

None == "none"
Terminal == {"done", "failed", "cancelled"}
Status == {"absent", "pending", "running"} \cup Terminal

(* A task record: its status, how many progress notes it has, and whether  *)
(* its result field holds text.                                            *)
Doc == [status : Status, notes : 0 .. MaxNotes, result : BOOLEAN]
NoDoc == [status |-> "absent", notes |-> 0, result |-> FALSE]

(* Where a background coroutine can be suspended.                          *)
Live == {"created", "starting", "session", "run", "failing", "finishing"}
PC == {"idle", "ended", "gone"} \cup Live

VARIABLES
  pc,        \* pc[t]: the await at which the task's coroutine is suspended
  owner,     \* owner[t]: the instance that accepted the task
  rec,       \* rec[t]: the task's entry in the owner's _tasks (the last one, once gone)
  parts,     \* parts[t]: result_parts of the current run is not empty
  handle,    \* handle[t]: _asyncio_handles has an entry for the task
  throw,     \* throw[t]: exceptions waiting for the coroutine's next step
  job,       \* job[t]: state of the to_thread call the coroutine awaits
  sent,      \* sent[t]: records in flight to Firestore
  fs,        \* fs[t]: the document hermes_tasks/t
  accepted,  \* history: a cancel_task(t) has returned True
  dropped,   \* history: a write of t's record failed and was swallowed
  seen       \* seen[t]: the client's last answer from GET /tasks/{t}

coVars == <<pc, parts, handle, throw>>
ioVars == <<job, sent, fs, dropped>>
vars == <<pc, owner, rec, parts, handle, throw, job, sent, fs, accepted, dropped, seen>>

TypeOK ==
  /\ pc \in [Tasks -> PC]
  /\ owner \in [Tasks -> Instances \cup {None}]
  /\ rec \in [Tasks -> Doc]
  /\ parts \in [Tasks -> BOOLEAN]
  /\ handle \in [Tasks -> BOOLEAN]
  /\ throw \in [Tasks -> SUBSET {"cancel", "timeout"}]
  /\ job \in [Tasks -> {"none", "queued", "sent", "returned"}]
  /\ sent \in [Tasks -> SUBSET Doc]
  /\ fs \in [Tasks -> Doc]
  /\ accepted \in [Tasks -> BOOLEAN]
  /\ dropped \in [Tasks -> BOOLEAN]
  /\ seen \in [Tasks -> Status \cup {None, "404"}]

Init ==
  /\ pc = [t \in Tasks |-> "idle"]
  /\ owner = [t \in Tasks |-> None]
  /\ rec = [t \in Tasks |-> NoDoc]
  /\ parts = [t \in Tasks |-> FALSE]
  /\ handle = [t \in Tasks |-> FALSE]
  /\ throw = [t \in Tasks |-> {}]
  /\ job = [t \in Tasks |-> "none"]
  /\ sent = [t \in Tasks |-> {}]
  /\ fs = [t \in Tasks |-> NoDoc]
  /\ accepted = [t \in Tasks |-> FALSE]
  /\ dropped = [t \in Tasks |-> FALSE]
  /\ seen = [t \in Tasks |-> None]

(* Set one task's entry of a per-task table.                               *)
Put(table, t, value) == [table EXCEPT ![t] = value]

(* _tasks.get(t) on instance i finds a record.                             *)
InMemory(i, t) == owner[t] = i /\ pc[t] \notin {"idle", "gone"}

(* The coroutine moves on: from one await to the next.                     *)
Resume(t, from, to) ==
  /\ pc[t] = from
  /\ pc' = Put(pc, t, to)

(***************************************************************************)
(* _persist: hand the record's write to a thread and await it.             *)
(***************************************************************************)
Persist(t) == job' = Put(job, t, "queued")
PersistReturned(t) == job[t] = "returned"

(* A thread of the instance's executor takes the write and serialises the  *)
(* record; the threads still busy with other writes limit it.              *)
BusyThreads(i) == {t \in Tasks : owner[t] = i /\ pc[t] # "gone" /\ sent[t] # {}}

ThreadStarts(t) ==
  /\ job[t] = "queued"
  /\ Cardinality(BusyThreads(owner[t])) < PoolSize
  /\ job' = Put(job, t, "sent")
  /\ sent' = Put(sent, t, sent[t] \cup {rec[t]})
  /\ UNCHANGED <<coVars, owner, rec, fs, accepted, dropped, seen>>

AwaitedWriteReturns(t) ==
  job' = [job EXCEPT ![t] = IF job[t] = "sent" THEN "returned" ELSE @]

(* The write reaches Firestore and replaces the whole document.            *)
WriteLands(t) ==
  /\ \E d \in sent[t] :
       /\ fs' = Put(fs, t, d)
       /\ sent' = Put(sent, t, sent[t] \ {d})
  /\ AwaitedWriteReturns(t)
  /\ UNCHANGED <<coVars, owner, rec, accepted, dropped, seen>>

(* The write fails and _persist swallows the exception.                    *)
WriteFails(t) ==
  /\ \E d \in sent[t] : sent' = Put(sent, t, sent[t] \ {d})
  /\ AwaitedWriteReturns(t)
  /\ dropped' = Put(dropped, t, TRUE)
  /\ UNCHANGED <<coVars, owner, rec, fs, accepted, seen>>

(* The Firestore client cannot be built: _persist swallows that exception  *)
(* too, and no thread is used.                                             *)
ClientFails(t) ==
  /\ job[t] = "queued"
  /\ job' = Put(job, t, "returned")
  /\ dropped' = Put(dropped, t, TRUE)
  /\ UNCHANGED <<coVars, owner, rec, sent, fs, accepted, seen>>

(***************************************************************************)
(* POST /tasks: a record, a coroutine, a handle; nothing is written yet.   *)
(***************************************************************************)
MakeRecord == [status |-> "pending", notes |-> 0, result |-> FALSE]

SubmitTask(i, t) ==
  /\ Resume(t, "idle", "created")
  /\ owner' = Put(owner, t, i)
  /\ rec' = Put(rec, t, MakeRecord)
  /\ handle' = Put(handle, t, TRUE)
  /\ UNCHANGED <<parts, throw, ioVars, accepted, seen>>

(***************************************************************************)
(* _run_task_background, from await to await.                              *)
(***************************************************************************)
SetStatus(t, status) == rec' = [rec EXCEPT ![t].status = status]

(* Fault: the running status is not set.                                   *)
BeginUnmarked(t) ==
  /\ Resume(t, "created", "starting")
  /\ Persist(t)
  /\ UNCHANGED <<owner, rec, parts, handle, throw, sent, fs, accepted, dropped, seen>>

Begin(t) ==
  /\ Resume(t, "created", "starting")
  /\ SetStatus(t, "running")
  /\ Persist(t)
  /\ UNCHANGED <<owner, parts, handle, throw, sent, fs, accepted, dropped, seen>>

StartRecorded(t) ==
  /\ PersistReturned(t)
  /\ throw[t] = {}
  /\ \/ /\ owner[t] \notin NoRunner
        /\ Resume(t, "starting", "session")
        /\ job' = Put(job, t, "none")
        /\ UNCHANGED rec
     \/ /\ owner[t] \in NoRunner
        /\ Resume(t, "starting", "failing")
        /\ SetStatus(t, "failed")
        /\ Persist(t)
  /\ UNCHANGED <<owner, parts, handle, throw, sent, fs, accepted, dropped, seen>>

(* The early return without a runner: the handle is not popped.            *)
FailureRecorded(t) ==
  /\ Resume(t, "failing", "ended")
  /\ PersistReturned(t)
  /\ throw[t] = {}
  /\ job' = Put(job, t, "none")
  /\ UNCHANGED <<owner, rec, parts, handle, throw, sent, fs, accepted, dropped, seen>>

(* create_session returns, or raises an Exception that is ignored.         *)
SessionOpened(t) ==
  /\ Resume(t, "session", "run")
  /\ throw[t] = {}
  /\ UNCHANGED <<owner, rec, parts, handle, throw, ioVars, accepted, seen>>

(* An event of the agent: a progress note, or a part of the final answer.  *)
AgentEvent(t) ==
  /\ pc[t] = "run"
  /\ throw[t] = {}
  /\ \/ /\ rec[t].notes < MaxNotes
        /\ rec' = [rec EXCEPT ![t].notes = @ + 1]
        /\ UNCHANGED parts
     \/ /\ parts' = Put(parts, t, TRUE)
        /\ UNCHANGED rec
  /\ UNCHANGED <<pc, owner, handle, throw, ioVars, accepted, seen>>

(* Fault: the handle outlives the outcome.                                 *)
FinishKeepsHandle(t, status, result) ==
  /\ Resume(t, "run", "finishing")
  /\ rec' = [rec EXCEPT ![t].status = status, ![t].result = result]
  /\ throw' = Put(throw, t, {})
  /\ Persist(t)
  /\ UNCHANGED <<owner, parts, handle, sent, fs, accepted, dropped, seen>>

(* The end of the run: the record's outcome, and the finally block up to   *)
(* its await (the handle is popped and the record handed to a thread).     *)
Finish(t, status, result) ==
  /\ Resume(t, "run", "finishing")
  /\ rec' = [rec EXCEPT ![t].status = status, ![t].result = result]
  /\ handle' = Put(handle, t, FALSE)
  /\ throw' = Put(throw, t, {})
  /\ Persist(t)
  /\ UNCHANGED <<owner, parts, sent, fs, accepted, dropped, seen>>

(* The agent's events are exhausted: the joined answer or a default text.  *)
RunReturns(t) ==
  /\ throw[t] = {}
  /\ Finish(t, "done", TRUE)

(* Fault: an exception of the agent is no outcome.                         *)
RunRaisesOpen(t) == throw[t] = {} /\ Finish(t, "running", FALSE)

(* The agent raises: the partial answer is not kept.                       *)
RunRaises(t) ==
  /\ throw[t] = {}
  /\ Finish(t, "failed", FALSE)

(* A cancellation wins over a deadline that expired in the same pause.     *)
RunInterrupted(t) ==
  /\ throw[t] # {}
  /\ Finish(t, IF "cancel" \in throw[t] THEN "cancelled" ELSE "failed", parts[t])

(* Fault: the last write is not awaited.                                   *)
ResultNotAwaited(t) ==
  /\ Resume(t, "finishing", "ended")
  /\ UNCHANGED <<owner, rec, parts, handle, throw, ioVars, accepted, seen>>

ResultRecorded(t) ==
  /\ Resume(t, "finishing", "ended")
  /\ PersistReturned(t)
  /\ job' = Put(job, t, "none")
  /\ UNCHANGED <<owner, rec, parts, handle, throw, sent, fs, accepted, dropped, seen>>

(* Fault: the start-up awaits record a cancellation like the run does,     *)
(* while the thread of the first write may still be at work.               *)
EscapeRecorded(t) ==
  /\ pc[t] \in {"starting", "session", "failing"}
  /\ throw[t] # {}
  /\ pc' = Put(pc, t, "finishing")
  /\ SetStatus(t, "cancelled")
  /\ handle' = Put(handle, t, FALSE)
  /\ throw' = Put(throw, t, {})
  /\ Persist(t)
  /\ UNCHANGED <<owner, parts, sent, fs, accepted, dropped, seen>>

(* A cancellation met outside the run's try block ends the coroutine       *)
(* there: a queued write is withdrawn, a write already sent goes on.       *)
Escape(t) ==
  /\ pc[t] \in {"starting", "session", "failing"}
  /\ throw[t] # {}
  /\ pc' = Put(pc, t, "ended")
  /\ throw' = Put(throw, t, {})
  /\ job' = Put(job, t, "none")
  /\ UNCHANGED <<owner, rec, parts, handle, sent, fs, accepted, dropped, seen>>

(* Fault: the run is awaited without a timeout.                            *)
DeadlineNever(t) == FALSE

(* wait_for's timer.                                                       *)
DeadlineExpires(t) ==
  /\ pc[t] = "run"
  /\ "timeout" \notin throw[t]
  /\ throw' = Put(throw, t, throw[t] \cup {"timeout"})
  /\ UNCHANGED <<pc, owner, rec, parts, handle, ioVars, accepted, seen>>

(* The loop has run the coroutine's first step before the answer to POST   *)
(* leaves the process, so no client names a task that has not begun.       *)
Known(t) == rec[t].status \notin {"absent", "pending"}

(***************************************************************************)
(* DELETE /tasks/{id} on instance i.  Without a record the answer is 404;  *)
(* without a live handle cancel_task returns False and nothing changes.    *)
(***************************************************************************)
Cancellable(t) == handle[t] /\ pc[t] # "ended"

(* Fault: cancel_task marks the record itself, whatever the coroutine did. *)
CancelTaskEagerly(i, t) ==
  /\ InMemory(i, t)
  /\ Known(t)
  /\ SetStatus(t, "cancelled")
  /\ throw' = Put(throw, t, throw[t] \cup {"cancel"})
  /\ accepted' = Put(accepted, t, TRUE)
  /\ UNCHANGED <<pc, owner, parts, handle, ioVars, seen>>

CancelTask(i, t) ==
  /\ InMemory(i, t)
  /\ Known(t)
  /\ Cancellable(t)
  /\ throw' = Put(throw, t, throw[t] \cup {"cancel"})
  /\ accepted' = Put(accepted, t, TRUE)
  /\ UNCHANGED <<pc, owner, rec, parts, handle, ioVars, seen>>

(***************************************************************************)
(* GET /tasks/{id} on instance i: the mirror if it has the record, else    *)
(* Firestore; a read that fails is answered like a missing document.       *)
(***************************************************************************)
PollTask(i, t) ==
  /\ Known(t)
  /\ \/ InMemory(i, t) /\ seen' = Put(seen, t, rec[t].status)
     \/ ~InMemory(i, t) /\ fs[t] # NoDoc /\ seen' = Put(seen, t, fs[t].status)
     \/ ~InMemory(i, t) /\ seen' = Put(seen, t, "404")
  /\ UNCHANGED <<coVars, owner, rec, ioVars, accepted>>

(* Instance i dies and is replaced: its dicts, coroutines and queued       *)
(* writes are gone, a write already sent may still land.                   *)
Crash(i) ==
  LET lost == {t \in Tasks : InMemory(i, t)} IN
  /\ lost # {}
  /\ pc' = [t \in Tasks |-> IF t \in lost THEN "gone" ELSE pc[t]]
  /\ handle' = [t \in Tasks |-> handle[t] /\ t \notin lost]
  /\ throw' = [t \in Tasks |-> IF t \in lost THEN {} ELSE throw[t]]
  /\ job' = [t \in Tasks |-> IF t \in lost THEN "none" ELSE job[t]]
  /\ UNCHANGED <<owner, rec, parts, sent, fs, accepted, dropped, seen>>

-----------------------------------------------------------------------------

(* Steps the event loop takes as soon as it can.                           *)
LoopStep(t) ==
  \/ Begin(t) \/ StartRecorded(t) \/ FailureRecorded(t)
  \/ RunInterrupted(t) \/ ResultRecorded(t) \/ Escape(t)

(* Steps that wait for the session service or for the agent.               *)
ServiceStep(t) == SessionOpened(t) \/ AgentEvent(t) \/ RunReturns(t) \/ RunRaises(t)

WriteStep(t) == WriteLands(t) \/ WriteFails(t)

TaskStep(t) ==
  \/ LoopStep(t) \/ ServiceStep(t) \/ DeadlineExpires(t)
  \/ ThreadStarts(t) \/ WriteStep(t) \/ ClientFails(t)

RequestStep(i, t) == SubmitTask(i, t) \/ CancelTask(i, t) \/ PollTask(i, t)

Next ==
  \/ \E t \in Tasks : TaskStep(t)
  \/ \E i \in Instances, t \in Tasks : RequestStep(i, t)
  \/ \E i \in Instances : Crash(i)

Spec == Init /\ [][Next]_vars

(* The loop is never starved, a thread that can start does, a Firestore    *)
(* call returns or raises, and the timer fires (the run yields to it).     *)
(* Nothing is assumed of the session service, whose create_session is      *)
(* awaited outside wait_for, of the agent, of clients or of crashes.       *)
Fairness ==
  \A t \in Tasks :
    /\ WF_vars(LoopStep(t))
    /\ WF_vars(DeadlineExpires(t))
    /\ WF_vars(ThreadStarts(t))
    /\ WF_vars(WriteStep(t))

FairSpec == Spec /\ Fairness

-----------------------------------------------------------------------------
(* Properties.                                                             *)

(* An outcome shown in memory is never revised by a later cancellation,    *)
(* deadline or write: tasks.py assigns a terminal status once per task.    *)
OutcomeIsFinal ==
  [][\A t \in Tasks : rec[t].status \in Terminal => rec'[t] = rec[t]]_rec

(* Firestore never goes back: once a document shows an outcome, no thread  *)
(* that was left behind by a cancelled await overwrites it.                *)
StoreNeverRegresses ==
  [][\A t \in Tasks : fs[t].status \in Terminal => fs'[t] = fs[t]]_fs

(* A cancellation cancel_task said it requested is never followed by a     *)
(* "done": no request slips in between the outcome and the popped handle.  *)
CancelledIsNeverDone ==
  \A t \in Tasks : accepted[t] => rec[t].status # "done"

(* When the coroutine has returned undisturbed and no write was swallowed, *)
(* the document other instances read is exactly the task's last record.    *)
EndedMeansStored ==
  \A t \in Tasks :
    pc[t] = "ended" /\ ~accepted[t] /\ ~dropped[t] => fs[t] = rec[t]

(* A coroutine only ever stops without an outcome because a cancellation   *)
(* met it before its try block; every other path records one.              *)
OnlyCancelEndsOpen ==
  \A t \in Tasks :
    pc[t] = "ended" /\ rec[t].status \notin Terminal => accepted[t]

(* An outcome a client was ever told, by any instance and before or after  *)
(* a crash, is the outcome the task had.                                   *)
SeenOutcomeIsTrue ==
  \A t \in Tasks : seen[t] \in Terminal => rec[t].status = seen[t]

(* The store implements the abstract task life cycle.                      *)
Abs == INSTANCE TaskLifecycle WITH
         state <- [t \in Tasks |-> rec[t].status],
         stored <- [t \in Tasks |-> fs[t].status]
ImplementsLifecycle == Abs!Spec

(* create_session does not answer and nobody cancels the task.             *)
SessionHangs(t) == pc[t] = "session" /\ throw[t] = {}

(* A submitted task's coroutine comes to an end, however the agent, the    *)
(* client and the failing writes behave, unless its instance dies or it    *)
(* hangs in create_session: the one await no deadline covers (tasks.py).   *)
EveryTaskEnds ==
  \A t \in Tasks :
    \/ <>[]SessionHangs(t)
    \/ (pc[t] \in Live) ~> (pc[t] \in {"ended", "gone"})

-----------------------------------------------------------------------------
(* The inductive invariant behind the safety properties, part by part.     *)

(* The record's status follows the await the coroutine has reached.        *)
StatusFollowsAwait(t) ==
  /\ pc[t] = "idle" => rec[t] = NoDoc
  /\ pc[t] = "created" => rec[t].status = "pending"
  /\ pc[t] \in {"starting", "session", "run"} => rec[t].status = "running"
  /\ pc[t] = "failing" => rec[t].status = "failed"
  /\ pc[t] = "finishing" => rec[t].status \in Terminal
  /\ pc[t] = "ended" => rec[t].status \in {"running"} \cup Terminal

(* At most one write is in flight, it carries the current record, and none *)
(* is left when the record can change again.                               *)
OneCurrentWrite(t) ==
  /\ sent[t] \in {{}, {rec[t]}}
  /\ sent[t] # {} => Known(t)
  /\ job[t] \in {"queued", "returned"} => sent[t] = {}
  /\ pc[t] \in {"idle", "created", "session", "run"} => job[t] = "none" /\ sent[t] = {}
  /\ pc[t] \in {"ended", "gone"} => job[t] = "none"

(* A requested cancellation stays pending until it is met, and cannot be   *)
(* requested once the outcome is set.                                      *)
CancelIsPending(t) ==
  /\ accepted[t] => Known(t)
  /\ accepted[t] /\ pc[t] \in Live \ {"finishing"} => "cancel" \in throw[t]
  /\ "cancel" \in throw[t] => accepted[t]
  /\ "timeout" \in throw[t] => pc[t] = "run"
  /\ pc[t] = "finishing" => ~handle[t]
  /\ throw[t] # {} => pc[t] \in {"starting", "session", "run", "failing"}
  /\ accepted[t] => rec[t].status # "done"

(* What Firestore and the client hold is what the record was, and is       *)
(* complete once the coroutine has ended undisturbed.                      *)
StoreFollowsRecord(t) ==
  /\ fs[t].status \in {"absent", "running"} \cup Terminal
  /\ fs[t].status \in Terminal => fs[t] = rec[t]
  /\ seen[t] \in Terminal => seen[t] = rec[t].status
  /\ job[t] = "returned" /\ ~dropped[t] => fs[t] = rec[t]
  /\ pc[t] = "ended" /\ ~accepted[t] =>
       rec[t].status \in Terminal /\ (dropped[t] \/ fs[t] = rec[t])

TaskInv(t) ==
  /\ StatusFollowsAwait(t)
  /\ OneCurrentWrite(t)
  /\ CancelIsPending(t)
  /\ StoreFollowsRecord(t)

(* Every task's record, its writes in flight, its pending cancellation and *)
(* its stored copy agree at every await.                                   *)
IInv == TypeOK /\ \A t \in Tasks : TaskInv(t)
=============================================================================

-------------------------- MODULE TaskStoreProofs --------------------------
(***************************************************************************)
(* TLAPS proofs about TaskStore, for every set of tasks and instances and  *)
(* every bound: type correctness, the inductive invariant IInv, the safety *)
(* properties that follow from it, and that the store implements the       *)
(* abstract task life cycle.                                               *)
(***************************************************************************)
EXTENDS TaskStore, TLAPS

USE DEF None, Terminal, Status, Live, PC, Put

-----------------------------------------------------------------------------
(* Type correctness. *)

LEMMA InitType == Init => TypeOK
  BY BoundsAssumption DEF Init, TypeOK, Doc, NoDoc

LEMMA StatusUpdateType ==
  ASSUME TypeOK, NEW t \in Tasks, NEW status \in Status, SetStatus(t, status)
  PROVE  rec' \in [Tasks -> Doc]
<1>1. rec[t] \in Doc
  BY DEF TypeOK
<1>2. [rec[t] EXCEPT !.status = status] \in Doc
  BY <1>1 DEF Doc
<1> QED
  BY <1>2 DEF TypeOK, SetStatus

LEMMA FinishType ==
  ASSUME TypeOK, NEW t \in Tasks, NEW status \in Status, NEW result \in BOOLEAN,
         Finish(t, status, result)
  PROVE  TypeOK'
<1>1. rec[t] \in Doc
  BY DEF TypeOK
<1>2. [rec[t] EXCEPT !.status = status, !.result = result] \in Doc
  BY <1>1 DEF Doc
<1>3. rec' \in [Tasks -> Doc]
  BY <1>2 DEF TypeOK, Finish
<1> QED
  BY <1>3 DEF TypeOK, Finish, Resume, Persist

LEMMA LoopType ==
  ASSUME TypeOK, NEW t \in Tasks, LoopStep(t)
  PROVE  TypeOK'
<1> USE DEF TypeOK, Resume, Persist, ioVars
<1>1. CASE Begin(t)
  BY <1>1, StatusUpdateType DEF Begin
<1>2. CASE StartRecorded(t)
  <2>1. rec' \in [Tasks -> Doc]
    BY <1>2, StatusUpdateType DEF StartRecorded
  <2> QED
    BY <1>2, <2>1 DEF StartRecorded
<1>3. CASE FailureRecorded(t)
  BY <1>3 DEF FailureRecorded
<1>4. CASE RunInterrupted(t)
  <2>1. parts[t] \in BOOLEAN
    OBVIOUS
  <2> QED
    BY <1>4, <2>1, FinishType DEF RunInterrupted
<1>5. CASE ResultRecorded(t)
  BY <1>5 DEF ResultRecorded
<1>6. CASE Escape(t)
  BY <1>6 DEF Escape
<1> QED
  BY <1>1, <1>2, <1>3, <1>4, <1>5, <1>6 DEF LoopStep

LEMMA ServiceType ==
  ASSUME TypeOK, NEW t \in Tasks, ServiceStep(t) \/ DeadlineExpires(t)
  PROVE  TypeOK'
<1> USE DEF TypeOK, ioVars
<1>1. CASE AgentEvent(t)
  <2>1. rec[t] \in Doc
    OBVIOUS
  <2>2. rec[t].notes < MaxNotes => rec[t].notes + 1 \in 0 .. MaxNotes
    BY <2>1, BoundsAssumption DEF Doc
  <2>3. rec' \in [Tasks -> Doc]
    <3>1. CASE UNCHANGED rec
      BY <3>1
    <3>2. CASE rec[t].notes < MaxNotes /\ rec' = [rec EXCEPT ![t].notes = @ + 1]
      <4>1. [rec[t] EXCEPT !.notes = rec[t].notes + 1] \in Doc
        BY <2>1, <2>2, <3>2 DEF Doc
      <4> QED
        BY <3>2, <4>1
    <3> QED
      BY <1>1, <3>1, <3>2 DEF AgentEvent
  <2> QED
    BY <1>1, <2>3 DEF AgentEvent
<1>2. CASE RunReturns(t)
  BY <1>2, FinishType DEF RunReturns
<1>3. CASE RunRaises(t)
  BY <1>3, FinishType DEF RunRaises
<1>4. CASE DeadlineExpires(t)
  BY <1>4 DEF DeadlineExpires
<1>5. CASE SessionOpened(t)
  BY <1>5 DEF SessionOpened, Resume
<1> QED
  BY <1>1, <1>2, <1>3, <1>4, <1>5 DEF ServiceStep

LEMMA WriteType ==
  ASSUME TypeOK, NEW t \in Tasks, ThreadStarts(t) \/ WriteStep(t) \/ ClientFails(t)
  PROVE  TypeOK'
<1> USE DEF TypeOK, coVars, AwaitedWriteReturns
<1>1. CASE ThreadStarts(t)
  BY <1>1 DEF ThreadStarts
<1>2. CASE WriteLands(t)
  BY <1>2 DEF WriteLands
<1>3. CASE WriteFails(t)
  BY <1>3 DEF WriteFails
<1>4. CASE ClientFails(t)
  BY <1>4 DEF ClientFails
<1> QED
  BY <1>1, <1>2, <1>3, <1>4 DEF WriteStep

LEMMA RequestType ==
  ASSUME TypeOK, NEW i \in Instances, NEW t \in Tasks, RequestStep(i, t)
  PROVE  TypeOK'
<1> USE BoundsAssumption DEF TypeOK, Doc, ioVars, coVars
<1>1. CASE SubmitTask(i, t)
  BY <1>1 DEF SubmitTask, Resume, MakeRecord
<1>2. CASE CancelTask(i, t)
  BY <1>2 DEF CancelTask
<1>3. CASE PollTask(i, t)
  BY <1>3 DEF PollTask
<1> QED
  BY <1>1, <1>2, <1>3 DEF RequestStep

LEMMA CrashType ==
  ASSUME TypeOK, NEW i \in Instances, Crash(i)
  PROVE  TypeOK'
  BY DEF TypeOK, Crash

LEMMA NextType == TypeOK /\ [Next]_vars => TypeOK'
<1> SUFFICES ASSUME TypeOK, [Next]_vars PROVE TypeOK'
  OBVIOUS
<1>1. CASE \E t \in Tasks : TaskStep(t)
  BY <1>1, LoopType, ServiceType, WriteType DEF TaskStep
<1>2. CASE \E i \in Instances, t \in Tasks : RequestStep(i, t)
  BY <1>2, RequestType
<1>3. CASE \E i \in Instances : Crash(i)
  BY <1>3, CrashType
<1>4. CASE UNCHANGED vars
  BY <1>4 DEF vars, TypeOK
<1> QED
  BY <1>1, <1>2, <1>3, <1>4 DEF Next

(* Every variable keeps its type: tasks.py only ever holds the statuses,   *)
(* records and write states that the other properties speak of.            *)
THEOREM TypeCorrect == Spec => []TypeOK
<1>1. Init => TypeOK
  BY InitType
<1>2. TypeOK /\ [Next]_vars => TypeOK'
  BY NextType
<1> QED
  BY <1>1, <1>2, PTL DEF Spec

-----------------------------------------------------------------------------
(* The inductive invariant. *)

(* A step of one task leaves every other task's row alone.                 *)
SameRow(u) ==
  /\ pc'[u] = pc[u] /\ rec'[u] = rec[u] /\ handle'[u] = handle[u]
  /\ throw'[u] = throw[u] /\ job'[u] = job[u] /\ sent'[u] = sent[u]
  /\ fs'[u] = fs[u] /\ accepted'[u] = accepted[u]
  /\ dropped'[u] = dropped[u] /\ seen'[u] = seen[u]

LEMMA Frame ==
  ASSUME NEW u \in Tasks, TaskInv(u), SameRow(u)
  PROVE  TaskInv(u)'
  BY DEF TaskInv, StatusFollowsAwait, OneCurrentWrite, CancelIsPending,
         StoreFollowsRecord, SameRow, Known

LEMMA OtherRows ==
  ASSUME TypeOK, NEW t \in Tasks, NEW u \in Tasks, u # t,
         TaskStep(t) \/ \E i \in Instances : RequestStep(i, t)
  PROVE  SameRow(u)
<1> USE DEF TypeOK, SameRow, coVars, ioVars, Resume, Persist, SetStatus
<1>1. CASE LoopStep(t)
  BY <1>1 DEF LoopStep, Begin, StartRecorded, FailureRecorded,
              RunInterrupted, Finish, ResultRecorded, Escape
<1>2. CASE ServiceStep(t)
  BY <1>2 DEF ServiceStep, SessionOpened, AgentEvent, RunReturns, RunRaises, Finish
<1>3. CASE DeadlineExpires(t)
  BY <1>3 DEF DeadlineExpires
<1>4. CASE ThreadStarts(t) \/ WriteStep(t) \/ ClientFails(t)
  BY <1>4 DEF ThreadStarts, WriteStep, WriteLands, WriteFails, ClientFails,
              AwaitedWriteReturns
<1>5. CASE \E i \in Instances : RequestStep(i, t)
  BY <1>5 DEF RequestStep, SubmitTask, CancelTask, PollTask
<1> QED
  BY <1>1, <1>2, <1>3, <1>4, <1>5 DEF TaskStep

LEMMA LoopRow ==
  ASSUME TypeOK, NEW t \in Tasks, TaskInv(t), LoopStep(t)
  PROVE  TaskInv(t)'
<1> USE DEF TypeOK, TaskInv, StatusFollowsAwait, OneCurrentWrite, CancelIsPending,
            StoreFollowsRecord, Known, Resume, Persist, PersistReturned, Doc, NoDoc
<1>1. CASE Begin(t)
  BY <1>1 DEF Begin, SetStatus
<1>2. CASE StartRecorded(t)
  BY <1>2 DEF StartRecorded, SetStatus
<1>3. CASE FailureRecorded(t)
  BY <1>3 DEF FailureRecorded
<1>4. CASE RunInterrupted(t)
  BY <1>4 DEF RunInterrupted, Finish
<1>5. CASE ResultRecorded(t)
  BY <1>5 DEF ResultRecorded
<1>6. CASE Escape(t)
  <2>1. "cancel" \in throw[t]
    <3>1. throw[t] \subseteq {"cancel", "timeout"} /\ throw[t] # {}
      BY <1>6 DEF Escape
    <3>2. "timeout" \notin throw[t]
      BY <1>6 DEF Escape
    <3> QED
      BY <3>1, <3>2
  <2> QED
    BY <1>6, <2>1 DEF Escape
<1> QED
  BY <1>1, <1>2, <1>3, <1>4, <1>5, <1>6 DEF LoopStep

LEMMA ServiceRow ==
  ASSUME TypeOK, NEW t \in Tasks, TaskInv(t), ServiceStep(t) \/ DeadlineExpires(t)
  PROVE  TaskInv(t)'
<1> USE DEF TypeOK, TaskInv, StatusFollowsAwait, OneCurrentWrite, CancelIsPending,
            StoreFollowsRecord, Known, Resume, Persist, Doc, NoDoc
<1>1. CASE AgentEvent(t)
  BY <1>1 DEF AgentEvent, ioVars
<1>2. CASE RunReturns(t)
  BY <1>2 DEF RunReturns, Finish
<1>3. CASE RunRaises(t)
  BY <1>3 DEF RunRaises, Finish
<1>4. CASE DeadlineExpires(t)
  BY <1>4 DEF DeadlineExpires, ioVars
<1>5. CASE SessionOpened(t)
  BY <1>5 DEF SessionOpened, ioVars
<1> QED
  BY <1>1, <1>2, <1>3, <1>4, <1>5 DEF ServiceStep

LEMMA WriteRow ==
  ASSUME TypeOK, NEW t \in Tasks, TaskInv(t),
         ThreadStarts(t) \/ WriteStep(t) \/ ClientFails(t)
  PROVE  TaskInv(t)'
<1> USE DEF TypeOK, TaskInv, StatusFollowsAwait, OneCurrentWrite, CancelIsPending,
            StoreFollowsRecord, Known, coVars, AwaitedWriteReturns, Doc, NoDoc
<1>1. CASE ThreadStarts(t)
  BY <1>1 DEF ThreadStarts
<1>2. CASE WriteLands(t)
  <2>1. sent[t] = {rec[t]} /\ sent'[t] = {} /\ fs'[t] = rec[t]
    BY <1>2 DEF WriteLands
  <2> QED
    BY <1>2, <2>1 DEF WriteLands
<1>3. CASE WriteFails(t)
  <2>1. sent[t] = {rec[t]} /\ sent'[t] = {}
    BY <1>3 DEF WriteFails
  <2> QED
    BY <1>3, <2>1 DEF WriteFails
<1>4. CASE ClientFails(t)
  BY <1>4 DEF ClientFails
<1> QED
  BY <1>1, <1>2, <1>3, <1>4 DEF WriteStep

LEMMA RequestRow ==
  ASSUME TypeOK, NEW i \in Instances, NEW t \in Tasks, TaskInv(t), RequestStep(i, t)
  PROVE  TaskInv(t)'
<1> USE DEF TypeOK, TaskInv, StatusFollowsAwait, OneCurrentWrite, CancelIsPending,
            StoreFollowsRecord, Known, Doc, NoDoc
<1>1. CASE SubmitTask(i, t)
  BY <1>1 DEF SubmitTask, Resume, MakeRecord, ioVars
<1>2. CASE CancelTask(i, t)
  BY <1>2 DEF CancelTask, InMemory, Cancellable, ioVars
<1>3. CASE PollTask(i, t)
  BY <1>3 DEF PollTask, InMemory, coVars, ioVars
<1> QED
  BY <1>1, <1>2, <1>3 DEF RequestStep

LEMMA CrashRow ==
  ASSUME TypeOK, NEW i \in Instances, NEW t \in Tasks, TaskInv(t), Crash(i)
  PROVE  TaskInv(t)'
  BY DEF Crash, InMemory, TypeOK, TaskInv, StatusFollowsAwait, OneCurrentWrite,
         CancelIsPending, StoreFollowsRecord, Known, Doc, NoDoc

LEMMA NextInv == IInv /\ [Next]_vars => IInv'
<1> SUFFICES ASSUME IInv, [Next]_vars PROVE IInv'
  OBVIOUS
<1>1. TypeOK'
  BY NextType DEF IInv
<1>2. ASSUME NEW u \in Tasks PROVE TaskInv(u)'
  <2>1. ASSUME NEW t \in Tasks, TaskStep(t) PROVE TaskInv(u)'
    <3>1. CASE u # t
      BY <2>1, <3>1, OtherRows, Frame DEF IInv
    <3>2. CASE u = t
      BY <2>1, <3>2, LoopRow, ServiceRow, WriteRow DEF IInv, TaskStep
    <3> QED
      BY <3>1, <3>2
  <2>2. ASSUME NEW i \in Instances, NEW t \in Tasks, RequestStep(i, t)
        PROVE  TaskInv(u)'
    <3>1. CASE u # t
      BY <2>2, <3>1, OtherRows, Frame DEF IInv
    <3>2. CASE u = t
      BY <2>2, <3>2, RequestRow DEF IInv
    <3> QED
      BY <3>1, <3>2
  <2>3. ASSUME NEW i \in Instances, Crash(i) PROVE TaskInv(u)'
    BY <2>3, CrashRow DEF IInv
  <2>4. CASE UNCHANGED vars
    BY <2>4, Frame DEF vars, SameRow, IInv
  <2> QED
    BY <2>1, <2>2, <2>3, <2>4 DEF Next
<1> QED
  BY <1>1, <1>2 DEF IInv

LEMMA InitInv == Init => IInv
  BY InitType DEF Init, IInv, TaskInv, StatusFollowsAwait, OneCurrentWrite,
                  CancelIsPending, StoreFollowsRecord, Known, NoDoc

(* Record, writes in flight, pending cancellation and stored copy agree at *)
(* every await of _run_task_background, for any number of tasks and        *)
(* instances.                                                              *)
THEOREM Invariance == Spec => []IInv
  BY InitInv, NextInv, PTL DEF Spec

-----------------------------------------------------------------------------
(* What follows from the invariant. *)

(* A cancellation that cancel_task accepted is never followed by "done".   *)
THEOREM CancelledNeverDone == Spec => []CancelledIsNeverDone
<1>1. IInv => CancelledIsNeverDone
  BY DEF IInv, TaskInv, CancelIsPending, CancelledIsNeverDone
<1> QED
  BY <1>1, Invariance, PTL

(* After an undisturbed run Firestore holds exactly the final record.      *)
THEOREM EndedStored == Spec => []EndedMeansStored
<1>1. IInv => EndedMeansStored
  BY DEF IInv, TaskInv, StoreFollowsRecord, EndedMeansStored
<1> QED
  BY <1>1, Invariance, PTL

(* Only a cancellation can end a task's coroutine without an outcome.      *)
THEOREM OpenOnlyByCancel == Spec => []OnlyCancelEndsOpen
<1>1. IInv => OnlyCancelEndsOpen
  BY DEF IInv, TaskInv, StoreFollowsRecord, OnlyCancelEndsOpen
<1> QED
  BY <1>1, Invariance, PTL

(* No instance ever tells a client an outcome the task did not have.       *)
THEOREM SeenIsTrue == Spec => []SeenOutcomeIsTrue
<1>1. IInv => SeenOutcomeIsTrue
  BY DEF IInv, TaskInv, StoreFollowsRecord, SeenOutcomeIsTrue
<1> QED
  BY <1>1, Invariance, PTL

-----------------------------------------------------------------------------
(* What a step does to one task's record and document. *)

(* The steps of the abstract life cycle, seen on one row. *)
RecordStep(t) ==
  \/ rec'[t] = rec[t]
  \/ rec[t].status = "absent" /\ rec'[t].status = "pending"
  \/ rec[t].status = "pending" /\ rec'[t].status = "running"
  \/ rec[t].status = "running" /\ rec'[t].status \in {"running"} \cup Terminal

DocumentStep(t) == fs'[t] \in {fs[t], rec[t]}

LEMMA RowSteps ==
  ASSUME IInv, NEW t \in Tasks,
         TaskStep(t) \/ (\E i \in Instances : RequestStep(i, t))
  PROVE  /\ RecordStep(t)
         /\ DocumentStep(t)
         /\ fs'[t] # fs[t] => rec'[t] = rec[t] /\ Known(t)
<1> USE DEF IInv, TypeOK, TaskInv, StatusFollowsAwait, OneCurrentWrite, Known,
            RecordStep, DocumentStep, Resume, SetStatus, NoDoc, Doc, coVars, ioVars
<1>1. CASE LoopStep(t)
  BY <1>1 DEF LoopStep, Begin, StartRecorded, FailureRecorded,
              RunInterrupted, Finish, ResultRecorded, Escape
<1>2. CASE ServiceStep(t) \/ DeadlineExpires(t)
  BY <1>2 DEF ServiceStep, SessionOpened, AgentEvent, RunReturns, RunRaises, Finish, DeadlineExpires
<1>3. CASE ThreadStarts(t) \/ WriteStep(t) \/ ClientFails(t)
  <2>1. CASE WriteLands(t)
    <3>1. PICK d \in sent[t] : fs' = [fs EXCEPT ![t] = d]
      BY <2>1 DEF WriteLands
    <3>2. sent[t] = {rec[t]} /\ Known(t)
      BY <3>1
    <3>3. d = rec[t] /\ rec' = rec
      BY <2>1, <3>1, <3>2 DEF WriteLands
    <3> QED
      BY <3>1, <3>2, <3>3
  <2>2. CASE ThreadStarts(t) \/ WriteFails(t) \/ ClientFails(t)
    BY <2>2 DEF ThreadStarts, WriteFails, ClientFails
  <2> QED
    BY <1>3, <2>1, <2>2 DEF WriteStep
<1>4. CASE \E i \in Instances : RequestStep(i, t)
  BY <1>4 DEF RequestStep, SubmitTask, MakeRecord, CancelTask, PollTask
<1> QED
  BY <1>1, <1>2, <1>3, <1>4 DEF TaskStep

LEMMA StepOutcomes ==
  ASSUME IInv, [Next]_vars, NEW u \in Tasks
  PROVE  /\ rec[u].status \in Terminal => rec'[u] = rec[u]
         /\ fs[u].status \in Terminal => fs'[u] = fs[u]
<1>1. fs[u].status \in Terminal => fs[u] = rec[u]
  BY DEF IInv, TaskInv, StoreFollowsRecord
<1>2. ASSUME NEW t \in Tasks, TaskStep(t) \/ \E i \in Instances : RequestStep(i, t)
      PROVE  /\ rec[u].status \in Terminal => rec'[u] = rec[u]
             /\ fs[u].status \in Terminal => fs'[u] = fs[u]
  <2>1. CASE u # t
    BY <1>2, <2>1, OtherRows DEF IInv, SameRow
  <2>2. CASE u = t
    BY <1>1, <1>2, <2>2, RowSteps DEF RecordStep, DocumentStep
  <2> QED
    BY <2>1, <2>2
<1>3. CASE \E i \in Instances : Crash(i)
  BY <1>3 DEF Crash
<1>4. CASE UNCHANGED vars
  BY <1>4 DEF vars
<1> QED
  BY <1>2, <1>3, <1>4 DEF Next

(* An outcome in memory is final. *)
THEOREM OutcomeFinal == Spec => OutcomeIsFinal
<1>1. IInv /\ [Next]_vars =>
        [\A t \in Tasks : rec[t].status \in Terminal => rec'[t] = rec[t]]_rec
  BY StepOutcomes
<1> QED
  BY <1>1, Invariance, PTL DEF Spec, OutcomeIsFinal

(* An outcome in Firestore is never overwritten. *)
THEOREM StoreMonotone == Spec => StoreNeverRegresses
<1>1. IInv /\ [Next]_vars =>
        [\A t \in Tasks : fs[t].status \in Terminal => fs'[t] = fs[t]]_fs
  BY StepOutcomes
<1> QED
  BY <1>1, Invariance, PTL DEF Spec, StoreNeverRegresses

-----------------------------------------------------------------------------
(* Refinement. *)

LEMMA AbstractStep ==
  ASSUME IInv, NEW t \in Tasks, IInv',
         TaskStep(t) \/ (\E i \in Instances : RequestStep(i, t))
  PROVE  [Abs!Next]_(Abs!vars)
<1> DEFINE st == [u \in Tasks |-> rec[u].status]
           sd == [u \in Tasks |-> fs[u].status]
           st2 == [u \in Tasks |-> rec'[u].status]
           sd2 == [u \in Tasks |-> fs'[u].status]
<1>1. \A u \in Tasks : u # t => rec'[u] = rec[u] /\ fs'[u] = fs[u]
  BY OtherRows DEF IInv, SameRow
<1>2. /\ RecordStep(t)
      /\ DocumentStep(t)
      /\ fs'[t] # fs[t] => rec'[t] = rec[t] /\ Known(t)
  BY RowSteps
<1>3. rec[t].status \in Status /\ rec'[t].status \in Status
  BY DEF IInv, TypeOK, Doc
<1>4. CASE fs'[t] = fs[t] /\ rec'[t].status = rec[t].status
  <2>1. st2 = st /\ sd2 = sd
    BY <1>1, <1>4
  <2> QED
    BY <2>1 DEF Abs!vars
<1>5. CASE fs'[t] # fs[t]
  <2>1. st2 = st
    BY <1>1, <1>2, <1>5
  <2>2. sd2 = [sd EXCEPT ![t] = st[t]]
    BY <1>1, <1>2, <1>5 DEF DocumentStep
  <2>3. st[t] \in {"running", "done", "failed", "cancelled"}
    BY <1>2, <1>3, <1>5 DEF Known
  <2>4. Abs!Store(t)
    BY <2>1, <2>2, <2>3 DEF Abs!Store, Abs!Ended
  <2> QED
    BY <2>4 DEF Abs!Next
<1>6. CASE fs'[t] = fs[t] /\ rec'[t].status # rec[t].status
  <2>1. sd2 = sd
    BY <1>1, <1>6
  <2>2. st2 = [st EXCEPT ![t] = rec'[t].status]
    BY <1>1
  <2>3. CASE rec[t].status = "absent" /\ rec'[t].status = "pending"
    BY <2>1, <2>2, <2>3 DEF Abs!Next, Abs!Submit
  <2>4. CASE rec[t].status = "pending" /\ rec'[t].status = "running"
    BY <2>1, <2>2, <2>4 DEF Abs!Next, Abs!Start
  <2>5. CASE rec[t].status = "running" /\ rec'[t].status \in Terminal
    <3>1. Abs!End(t)
      BY <2>1, <2>2, <2>5 DEF Abs!End, Abs!Ended
    <3> QED
      BY <3>1 DEF Abs!Next
  <2> QED
    BY <1>2, <1>6, <2>3, <2>4, <2>5 DEF RecordStep
<1> QED
  BY <1>4, <1>5, <1>6

LEMMA InitAbstract == Init => Abs!Init
  BY DEF Init, NoDoc, Abs!Init

LEMMA NextAbstract == IInv /\ IInv' /\ [Next]_vars => [Abs!Next]_(Abs!vars)
<1> SUFFICES ASSUME IInv, IInv', [Next]_vars PROVE [Abs!Next]_(Abs!vars)
  OBVIOUS
<1>1. CASE \E t \in Tasks : TaskStep(t) \/ \E i \in Instances : RequestStep(i, t)
  BY <1>1, AbstractStep
<1>2. CASE (\E i \in Instances : Crash(i)) \/ UNCHANGED vars
  <2>1. rec' = rec /\ fs' = fs
    BY <1>2 DEF Crash, vars
  <2> QED
    BY <2>1 DEF Abs!vars
<1> QED
  BY <1>1, <1>2 DEF Next

(* The task store implements the abstract life cycle: tasks end once, and  *)
(* the stored status only ever takes the status the task has.              *)
THEOREM Refinement == Spec => ImplementsLifecycle
  BY InitAbstract, NextAbstract, Invariance, PTL
     DEF Spec, ImplementsLifecycle, Abs!Spec
=============================================================================

---------------------------- MODULE TaskMetadata ----------------------------
(***************************************************************************)
(* agents/task_metadata.py: the assignment records of one task.            *)
(*                                                                         *)
(* A driver records an assignment for its agent, marks it running and then *)
(* done or failed.  Each of these calls changes the dict of its process    *)
(* first and Firestore second, with a request that can fail unnoticed.  A  *)
(* process can die; another one may then record the assignment anew.  Any  *)
(* process reads: its own dict first, Firestore when that has nothing.     *)
(***************************************************************************)
EXTENDS Naturals, FiniteSets

CONSTANTS
  Agents, Processes,
  MaxAttempts,  \* bound: assignments of one agent
  MaxFaults     \* bound: requests that fail, or outlive their process

None == "none"
Ended == "ended"

ASSUME MetadataAssumption ==
  /\ MaxAttempts \in Nat /\ MaxFaults \in Nat
  /\ None \notin Processes /\ Ended \notin Processes

Status == {"absent", "pending", "running", "done", "failed"}
Outcomes == {"done", "failed"}
Attempts == 0 .. MaxAttempts

(* A record: the attempt that recorded it (its task body), the attempt and *)
(* the status of the last mark.                                            *)
Record == [body : Attempts, by : Attempts, status : Status]
NoRecord == [body |-> 0, by |-> 0, status |-> "absent"]
Write == [kind : {"set", "update"}, by : Attempts, status : Status]

VARIABLES
  driver,   \* driver[a]: the process that drives a's latest attempt; Ended when
            \* it came to its outcome, None when its process died or before it
  attempt,  \* attempt[a]: how often a has been assigned
  status,   \* status[a]: what the latest attempt has come to
  mirror,   \* mirror[p][a]: _in_process of process p
  doc,      \* doc[a]: the Firestore document
  sent,     \* sent[a]: the request the driver waits for, at most one
  late,     \* late[a]: requests whose process has died
  faults,
  reached   \* history: reached[a]: the records a's attempts have really had

Driven(a) == driver[a] \in Processes
vars == <<driver, attempt, status, mirror, doc, sent, late, faults, reached>>

Init ==
  /\ driver = [a \in Agents |-> None]
  /\ attempt = [a \in Agents |-> 0]
  /\ status = [a \in Agents |-> "absent"]
  /\ mirror = [p \in Processes |-> [a \in Agents |-> NoRecord]]
  /\ doc = [a \in Agents |-> NoRecord]
  /\ sent = [a \in Agents |-> {}]
  /\ late = [a \in Agents |-> {}]
  /\ faults = 0
  /\ reached = [a \in Agents |-> {NoRecord}]

(* get_assignment and list_assignments on process p.                       *)
Get(p, a) == IF mirror[p][a] # NoRecord THEN mirror[p][a] ELSE doc[a]

Listed(p) ==
  LET local == {a \in Agents : mirror[p][a] # NoRecord}
  IN  IF local # {} THEN local ELSE {a \in Agents : doc[a] # NoRecord}

Reach(a, n, s) ==
  reached' = [reached EXCEPT ![a] = @ \cup {[body |-> n, by |-> n, status |-> s]}]

(* record_assignment: the first attempt, or one after the last has ended   *)
(* or died.                                                                *)
Assign(a, p) ==
  /\ ~Driven(a) /\ attempt[a] < MaxAttempts
  /\ LET n == attempt[a] + 1
     IN  /\ attempt' = [attempt EXCEPT ![a] = n]
         /\ mirror' = [mirror EXCEPT ![p][a] = [body |-> n, by |-> n, status |-> "pending"]]
         /\ sent' = [sent EXCEPT ![a] = {[kind |-> "set", by |-> n, status |-> "pending"]}]
         /\ Reach(a, n, "pending")
  /\ driver' = [driver EXCEPT ![a] = p]
  /\ status' = [status EXCEPT ![a] = "pending"]
  /\ UNCHANGED <<doc, late, faults>>

(* Mutant: a mark goes to Firestore only.                                  *)
MarkRemote(a, s) ==
  /\ Driven(a) /\ sent[a] = {}
  /\ \/ status[a] = "pending" /\ s = "running"
     \/ status[a] = "running" /\ s \in Outcomes
  /\ status' = [status EXCEPT ![a] = s]
  /\ sent' = [sent EXCEPT ![a] = {[kind |-> "update", by |-> attempt[a], status |-> s]}]
  /\ Reach(a, attempt[a], s)
  /\ UNCHANGED <<driver, attempt, mirror, doc, late, faults>>

(* Mutant: the driver does not wait for its requests.                      *)
MarkOvertaking(a, s) ==
  /\ Driven(a)
  /\ \/ status[a] = "pending" /\ s = "running"
     \/ status[a] = "running" /\ s \in Outcomes
  /\ status' = [status EXCEPT ![a] = s]
  /\ mirror' = [mirror EXCEPT ![driver[a]][a] =
       IF @ = NoRecord THEN @ ELSE [@ EXCEPT !.by = attempt[a], !.status = s]]
  /\ sent' = [sent EXCEPT ![a] =
       @ \cup {[kind |-> "update", by |-> attempt[a], status |-> s]}]
  /\ Reach(a, attempt[a], s)
  /\ UNCHANGED <<driver, attempt, doc, late, faults>>

(* _update: the local record if there is one, then Firestore.              *)
Mark(a, s) ==
  /\ Driven(a) /\ sent[a] = {}
  /\ \/ status[a] = "pending" /\ s = "running"
     \/ status[a] = "running" /\ s \in Outcomes
  /\ status' = [status EXCEPT ![a] = s]
  /\ mirror' = [mirror EXCEPT ![driver[a]][a] =
       IF @ = NoRecord THEN @ ELSE [@ EXCEPT !.by = attempt[a], !.status = s]]
  /\ sent' = [sent EXCEPT ![a] = {[kind |-> "update", by |-> attempt[a], status |-> s]}]
  /\ Reach(a, attempt[a], s)
  /\ UNCHANGED <<driver, attempt, doc, late, faults>>

(* Mutant: set merges into a document that is there.                       *)
ApplyMerging(a, w) ==
  doc' = [doc EXCEPT ![a] =
    IF w.kind = "set" /\ @ = NoRecord THEN [body |-> w.by, by |-> w.by, status |-> w.status]
    ELSE IF @ = NoRecord THEN @
    ELSE [@ EXCEPT !.by = w.by, !.status = w.status]]

(* set replaces the document; update merges into one that exists.          *)
Apply(a, w) ==
  doc' = [doc EXCEPT ![a] =
    IF w.kind = "set" THEN [body |-> w.by, by |-> w.by, status |-> w.status]
    ELSE IF @ = NoRecord THEN @
    ELSE [@ EXCEPT !.by = w.by, !.status = w.status]]

(* A driver whose outcome has been written is done with its agent.         *)
Release(a) ==
  driver' = [driver EXCEPT ![a] = IF status[a] \in Outcomes THEN Ended ELSE @]

RequestLands(a) ==
  /\ \E w \in sent[a] : Apply(a, w)
  /\ sent' = [sent EXCEPT ![a] = {}]
  /\ Release(a)
  /\ UNCHANGED <<attempt, status, mirror, late, faults, reached>>

(* The exception is logged at debug level; the driver goes on.             *)
RequestFails(a) ==
  /\ sent[a] # {}
  /\ faults < MaxFaults /\ faults' = faults + 1
  /\ sent' = [sent EXCEPT ![a] = {}]
  /\ Release(a)
  /\ UNCHANGED <<attempt, status, mirror, doc, late, reached>>

(* A process dies with its dict and its drivers; a request on its way is   *)
(* lost, or lands at any later time.                                       *)
Crash(p) ==
  LET dead == {a \in Agents : driver[a] = p}
  IN  /\ mirror' = [mirror EXCEPT ![p] = [a \in Agents |-> NoRecord]]
      /\ driver' = [a \in Agents |-> IF a \in dead THEN None ELSE driver[a]]
      /\ sent' = [a \in Agents |-> IF a \in dead THEN {} ELSE sent[a]]
      /\ \/ UNCHANGED <<late, faults>>
         \/ /\ faults < MaxFaults /\ faults' = faults + 1
            /\ late' = [a \in Agents |-> IF a \in dead THEN late[a] \cup sent[a] ELSE late[a]]
      /\ UNCHANGED <<attempt, status, doc, reached>>

LateLands(a) ==
  /\ \E w \in late[a] : Apply(a, w) /\ late' = [late EXCEPT ![a] = @ \ {w}]
  /\ UNCHANGED <<driver, attempt, status, mirror, sent, faults, reached>>

Next ==
  \/ \E a \in Agents, p \in Processes : Assign(a, p)
  \/ \E a \in Agents, s \in Status : Mark(a, s)
  \/ \E a \in Agents : RequestLands(a) \/ RequestFails(a) \/ LateLands(a)
  \/ \E p \in Processes : Crash(p)

Spec == Init /\ [][Next]_vars

TypeOK ==
  /\ driver \in [Agents -> Processes \cup {None, Ended}]
  /\ attempt \in [Agents -> Attempts]
  /\ status \in [Agents -> Status]
  /\ mirror \in [Processes -> [Agents -> Record]]
  /\ doc \in [Agents -> Record]
  /\ sent \in [Agents -> SUBSET Write]
  /\ late \in [Agents -> SUBSET Write]
  /\ faults \in 0 .. MaxFaults
  /\ reached \in [Agents -> SUBSET Record]

-----------------------------------------------------------------------------
(* As long as no request failed or outlived its process, every answer of   *)
(* every process is a record the assignment really had: no mirror and no   *)
(* document mixes the body of one attempt with the status of another.      *)
AnswersWereTrue ==
  faults = 0 => \A p \in Processes, a \in Agents : Get(p, a) \in reached[a]

(* The process that drives an agent lists it and answers with what it has  *)
(* just done, whatever became of its requests.                             *)
DriverKnows ==
  \A a \in Agents : Driven(a) =>
    /\ a \in Listed(driver[a])
    /\ Get(driver[a], a) = [body |-> attempt[a], by |-> attempt[a], status |-> status[a]]

(* However many processes died on the way, and whatever they left in       *)
(* Firestore: when an attempt came to its outcome and no request failed or *)
(* came late, any process without a record of its own reads that outcome.  *)
OutcomeIsReadable ==
  \A p \in Processes, a \in Agents :
    (faults = 0 /\ driver[a] = Ended /\ mirror[p][a] = NoRecord) =>
      Get(p, a) = [body |-> attempt[a], by |-> attempt[a], status |-> status[a]]

(* What the store answers is true: to everybody without faults, to the     *)
(* process at work always.                                                 *)
AnswersAreTrue == AnswersWereTrue /\ DriverKnows
=============================================================================

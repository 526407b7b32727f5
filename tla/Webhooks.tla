------------------------------ MODULE Webhooks ------------------------------
(***************************************************************************)
(* The chat connectors: connectors/telegram.py, teams.py and slack.py with *)
(* run_agent of connectors/runner.py.                                      *)
(*                                                                         *)
(* A platform delivers a message until it gets a 200, and waits only so    *)
(* long.  Telegram and Teams are answered after the agent has run and the  *)
(* whole reply was posted; Slack once its request was read and checked,    *)
(* the rest is a background task.  No handler recognises a delivery it has *)
(* seen.  A handler whose platform has hung up runs on; what it answers    *)
(* then reaches nobody.                                                    *)
(***************************************************************************)
EXTENDS Naturals, Sequences, FiniteSets

CONSTANTS
  Messages,
  Platform,       \* Platform[m]: "telegram", "teams" or "slack"
  Unaddressed,    \* Teams activities without serviceUrl or conversation id
  MaxDeliveries,  \* bound: deliveries of one message
  MaxParts,       \* bound: parts a reply is split into
  MaxTrouble      \* bound: crashes, lost answers, rejected requests, failed posts

ASSUME WebhookAssumption ==
  /\ Platform \in [Messages -> {"telegram", "teams", "slack"}]
  /\ Unaddressed \subseteq {m \in Messages : Platform[m] = "teams"}
  /\ MaxDeliveries \in Nat /\ MaxTrouble \in Nat
  /\ MaxParts \in Nat \ {0}

Deliveries == 1 .. MaxDeliveries
InBackground(m) == Platform[m] = "slack"

VARIABLES
  delivered,  \* delivered[m]: how often m has been delivered
  view,       \* view[m]: what the platform knows of the last delivery
  handler,    \* handler[m][k]: where the handler of the k-th delivery is
  parts,      \* parts[m][k]: the parts of the reply it posts
  put,        \* put[m][k]: how many of them it has posted
  seen,       \* seen[m]: the parts in the chat, <<delivery, part>>
  trouble

hookVars == <<delivered, view, handler, parts, put, seen, trouble>>

HookInit ==
  /\ delivered = [m \in Messages |-> 0]
  /\ view = [m \in Messages |-> "none"]
  /\ handler = [m \in Messages |-> [k \in Deliveries |-> "none"]]
  /\ parts = [m \in Messages |-> [k \in Deliveries |-> 0]]
  /\ put = [m \in Messages |-> [k \in Deliveries |-> 0]]
  /\ seen = [m \in Messages |-> <<>>]
  /\ trouble = 0

Trouble == trouble < MaxTrouble /\ trouble' = trouble + 1

(* The platform still waits for the answer to delivery k.                  *)
Awaited(m, k) == view[m] = "waiting" /\ k = delivered[m]

Answer(m, k, code) ==
  view' = IF Awaited(m, k) THEN [view EXCEPT ![m] = code] ELSE view

(* A first delivery, or one more after an error or too long a wait.        *)
Deliver(m) ==
  /\ view[m] \in {"none", "failed"} /\ delivered[m] < MaxDeliveries
  /\ delivered' = [delivered EXCEPT ![m] = @ + 1]
  /\ handler' = [handler EXCEPT ![m][delivered[m] + 1] = "received"]
  /\ view' = [view EXCEPT ![m] = "waiting"]
  /\ UNCHANGED <<parts, put, seen, trouble>>

(* "expects a 200 response within": three or five seconds, which a loop    *)
(* that is held up by other work may miss before it has read the request.  *)
HangUp(m) ==
  /\ view[m] = "waiting"
  /\ view' = [view EXCEPT ![m] = "failed"]
  /\ UNCHANGED <<delivered, handler, parts, put, seen, trouble>>

(* Slack's 200 does not arrive.                                            *)
LoseAck(m) ==
  /\ InBackground(m) /\ view[m] = "ok"
  /\ Trouble
  /\ view' = [view EXCEPT ![m] = "failed"]
  /\ UNCHANGED <<delivered, handler, parts, put, seen>>

(* The request was read, is authentic and has a text: run_agent starts, in *)
(* the handler or in a task of its own.  (One without a text is answered   *)
(* without more.)                                                          *)
Accept(m, k) ==
  /\ handler[m][k] = "received"
  /\ handler' = [handler EXCEPT ![m][k] = "agent"]
  /\ IF InBackground(m) THEN Answer(m, k, "ok") ELSE UNCHANGED view
  /\ UNCHANGED <<delivered, parts, put, seen, trouble>>

(* It cannot be read or checked: the platform hung up before the body was  *)
(* there, no signing keys, an expired timestamp, a field that is missing.  *)
Reject(m, k) ==
  /\ handler[m][k] = "received"
  /\ Trouble
  /\ handler' = [handler EXCEPT ![m][k] = "died"]
  /\ Answer(m, k, "failed")
  /\ UNCHANGED <<delivered, parts, put, seen>>

(* run_agent returns: the joined final texts, split to the platform's      *)
(* limit; an apology when the agent raised, is not ready or said nothing.  *)
(* For an activity that does not say where to, no reply is posted.         *)
ReplyParts(m) ==
  CASE m \in Unaddressed -> {0}
    [] m \notin Unaddressed /\ Platform[m] = "teams" -> {1}
    [] OTHER -> 1 .. MaxParts

AgentReplies(m, k) ==
  /\ handler[m][k] = "agent"
  /\ handler' = [handler EXCEPT ![m][k] = "posting"]
  /\ \E n \in ReplyParts(m) : parts' = [parts EXCEPT ![m][k] = n]
  /\ UNCHANGED <<delivered, view, put, seen, trouble>>

(* The parts of a delivery's reply that are in the chat.                   *)
PartsSeen(m, k) == {i \in 1 .. MaxParts : \E j \in 1 .. Len(seen[m]) : seen[m][j] = <<k, i>>}

Posting(m, k) == handler[m][k] = "posting" /\ put[m][k] < parts[m][k]
Show(m, k) == seen' = [seen EXCEPT ![m] = Append(@, <<k, put[m][k] + 1>>)]

Post(m, k) ==
  /\ Posting(m, k)
  /\ Show(m, k)
  /\ put' = [put EXCEPT ![m][k] = @ + 1]
  /\ UNCHANGED <<delivered, view, handler, parts, trouble>>

(* Telegram and Teams answer with an error status nobody looks at.         *)
PostRefused(m, k) ==
  /\ Posting(m, k) /\ ~InBackground(m)
  /\ Trouble
  /\ put' = [put EXCEPT ![m][k] = @ + 1]
  /\ UNCHANGED <<delivered, view, handler, parts, seen>>

(* Mutant: a post that raised is tried again.                              *)
PostRetried(m, k) ==
  /\ Posting(m, k)
  /\ Trouble
  /\ Show(m, k) \/ UNCHANGED seen
  /\ UNCHANGED <<delivered, view, handler, parts, put>>

(* The post raises, before or after the platform took the part: a timeout, *)
(* no access token for Teams, an error code of Slack.  The handler ends    *)
(* with a 500, the background task without a trace.                        *)
PostRaises(m, k) ==
  /\ Posting(m, k)
  /\ Trouble
  /\ Show(m, k) \/ UNCHANGED seen
  /\ handler' = [handler EXCEPT ![m][k] = "died"]
  /\ Answer(m, k, "failed")
  /\ UNCHANGED <<delivered, parts, put>>

(* Mutant: the posts are not awaited.                                      *)
FinishEarly(m, k) ==
  /\ handler[m][k] = "posting"
  /\ handler' = [handler EXCEPT ![m][k] = "done"]
  /\ Answer(m, k, "ok")
  /\ UNCHANGED <<delivered, parts, put, seen, trouble>>

(* Mutant: a part that was refused is waited for.                          *)
FinishWhenShown(m, k) ==
  /\ handler[m][k] = "posting" /\ put[m][k] = parts[m][k]
  /\ 1 .. parts[m][k] = PartsSeen(m, k)
  /\ handler' = [handler EXCEPT ![m][k] = "done"]
  /\ Answer(m, k, "ok")
  /\ UNCHANGED <<delivered, parts, put, seen, trouble>>

(* The handler answers 200, the background task is over.                   *)
Finish(m, k) ==
  /\ handler[m][k] = "posting" /\ put[m][k] = parts[m][k]
  /\ handler' = [handler EXCEPT ![m][k] = "done"]
  /\ Answer(m, k, "ok")
  /\ UNCHANGED <<delivered, parts, put, seen, trouble>>

(* The instance goes, with its handlers and its background tasks.          *)
Crash ==
  /\ Trouble
  /\ handler' = [m \in Messages |-> [k \in Deliveries |->
       IF handler[m][k] \in {"received", "agent", "posting"} THEN "died" ELSE handler[m][k]]]
  /\ view' = [m \in Messages |-> IF view[m] = "waiting" THEN "failed" ELSE view[m]]
  /\ UNCHANGED <<delivered, parts, put, seen>>

PostingStep(m, k) ==
  Post(m, k) \/ PostRefused(m, k) \/ PostRaises(m, k) \/ Finish(m, k)

(* What can happen to one message, and to all.                             *)
Handle(m) ==
  \/ Deliver(m) \/ HangUp(m) \/ LoseAck(m)
  \/ \E k \in Deliveries :
       Accept(m, k) \/ Reject(m, k) \/ AgentReplies(m, k) \/ PostingStep(m, k)

HookNext == Crash \/ \E m \in Messages : Handle(m)

(* While the platform waits the instance has a processor, and a post that  *)
(* is not answered raises (the clients have timeouts of ten seconds).      *)
(* Nothing is assumed of the agent, whose run nothing limits, nor of what  *)
(* goes on after the response: Slack's task, a handler that was hung up on.*)
HookFairness ==
  \A m \in Messages :
    WF_hookVars(\E k \in Deliveries : Awaited(m, k) /\ PostingStep(m, k))

HookSpec == HookInit /\ [][HookNext]_hookVars /\ HookFairness

HookTypeOK ==
  /\ delivered \in [Messages -> 0 .. MaxDeliveries]
  /\ view \in [Messages -> {"none", "waiting", "ok", "failed"}]
  /\ handler \in [Messages -> [Deliveries -> {"none", "received", "agent", "posting", "done", "died"}]]
  /\ parts \in [Messages -> [Deliveries -> 0 .. MaxParts]]
  /\ put \in [Messages -> [Deliveries -> 0 .. MaxParts]]
  /\ seen \in [Messages -> Seq(Deliveries \X (1 .. MaxParts))]
  /\ trouble \in 0 .. MaxTrouble

-----------------------------------------------------------------------------
(* A run that ended well has posted its whole reply: the parts that are    *)
(* not in the chat are ones the platform refused, and on Slack there are   *)
(* none.  Telegram and Teams get their 200 after such a run only, and      *)
(* deliver the message again until then.  A Teams activity that names no   *)
(* place to reply to gets its 200 as well, and no reply (teams.py).        *)
AnsweredIsPosted ==
  /\ \A m \in Messages, k \in Deliveries : handler[m][k] = "done" =>
       /\ parts[m][k] = 0 <=> m \in Unaddressed
       /\ Cardinality((1 .. parts[m][k]) \ PartsSeen(m, k)) <=
            IF InBackground(m) THEN 0 ELSE trouble
  /\ \A m \in Messages : ~InBackground(m) /\ view[m] = "ok" =>
       handler[m][delivered[m]] = "done"

(* The chat shows the parts of one run in their order and none twice,      *)
(* whatever other runs for the same message post in between; on Slack also *)
(* without a gap.                                                          *)
PartsInOrder ==
  \A m \in Messages, k \in Deliveries :
    \A i, j \in 1 .. Len(seen[m]) :
      (i < j /\ seen[m][i][1] = k /\ seen[m][j][1] = k) =>
        /\ seen[m][i][2] < seen[m][j][2]
        /\ InBackground(m) => 1 .. seen[m][j][2] \subseteq PartsSeen(m, k)

(* Telegram and Teams get an answer to a request whose agent run is over,  *)
(* unless they hang up before: refused and broken posts end the posting.   *)
AnswerComes ==
  \A m \in Messages, k \in Deliveries :
    (handler[m][k] = "posting" /\ Awaited(m, k)) ~> ~Awaited(m, k)

(* A reply arrives whole and in order.                                     *)
RepliesAreWhole == AnsweredIsPosted /\ PartsInOrder
=============================================================================

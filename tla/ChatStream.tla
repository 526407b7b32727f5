----------------------------- MODULE ChatStream -----------------------------
(***************************************************************************)
(* One browser tab of the chat page (ui/src/app/chat/page.tsx and          *)
(* ui/src/lib/api.ts) and the stream of each of its turns from the gateway *)
(* (POST /chat and _stream_agent of gateway/main.py).                      *)
(*                                                                         *)
(* A turn is one message: posted, accepted or refused, streamed and closed.*)
(* Its events travel in order on a connection of their own, and the page's *)
(* callbacks run one by one as they arrive.  In between the user may press *)
(* "New Chat", the agent may raise, and the connection may break.          *)
(*                                                                         *)
(* framed: the events are text that already starts with "data: ", and the  *)
(* SSE library (not in src/) frames what it is given once more, so the     *)
(* client's JSON.parse fails.  Both wires are modelled: the one the API    *)
(* documents, which the client is written for, and the one it gets.        *)
(*                                                                         *)
(* The session list of the page stays empty (it asks by e-mail, the        *)
(* gateway compares with the token's sub), so sessions change by turns and *)
(* "New Chat" only.                                                        *)
(***************************************************************************)
EXTENDS Naturals, Sequences

CONSTANTS
  MaxTurns,       \* bound: messages sent
  MaxTexts,       \* bound: final responses the agents of one turn give
  Framings,       \* which wires: subset of BOOLEAN
  Analytics       \* whether BQ analytics is configured: subset of BOOLEAN

ASSUME ChatAssumption ==
  /\ MaxTurns \in Nat \ {0} /\ MaxTexts \in Nat \ {0}
  /\ Framings \subseteq BOOLEAN /\ Analytics \subseteq BOOLEAN

Turns == 1 .. MaxTurns
NoSession == 0
Session == 0 .. MaxTurns     \* the session created for turn k is session k

VARIABLES
  streaming,  \* the page's isStreaming
  session,    \* the page's sessionId
  shown,      \* turns whose assistant bubble is on the page
  bubble,     \* bubble[k]: texts in it
  pc,         \* pc[k]: how far the turn is
  asked,      \* asked[k]: the session_id the page sent
  sid,        \* sid[k]: the session the gateway runs it in
  wire,       \* wire[k]: events sent and not yet read
  texts,      \* history: text events the gateway produced for the turn
  final,      \* history: the gateway's last event of the turn
  raised,     \* history: the agent of the turn raised
  cut,        \* history: the turn's connection failed
  told,       \* history: onDone or onError was called for the turn
  renewed,    \* history: "New Chat" since the last message
  framed,     \* the wire frames every event twice
  analytics   \* _bq_analytics is set

pageVars == <<streaming, session, shown, bubble, told>>
streamVars == <<sid, wire, texts, final, raised, cut>>
config == <<framed, analytics>>
vars == <<pageVars, pc, asked, streamVars, renewed, config>>

PC == {"unsent", "posted", "open", "drained", "closed"}

TypeOK ==
  /\ streaming \in BOOLEAN
  /\ session \in Session
  /\ shown \subseteq Turns
  /\ bubble \in [Turns -> 0 .. MaxTexts]
  /\ pc \in [Turns -> PC]
  /\ asked \in [Turns -> Session]
  /\ sid \in [Turns -> Session]
  /\ wire \in [Turns -> Seq({"text", "done", "error"})]
  /\ texts \in [Turns -> 0 .. MaxTexts]
  /\ final \in [Turns -> {"none", "done", "error"}]
  /\ raised \in [Turns -> BOOLEAN]
  /\ cut \in [Turns -> BOOLEAN]
  /\ told \in [Turns -> {"none", "done", "error"}]
  /\ renewed \in BOOLEAN
  /\ framed \in BOOLEAN /\ analytics \in BOOLEAN

Init ==
  /\ streaming = FALSE /\ session = NoSession /\ shown = {}
  /\ bubble = [k \in Turns |-> 0]
  /\ pc = [k \in Turns |-> "unsent"]
  /\ asked = [k \in Turns |-> NoSession]
  /\ sid = [k \in Turns |-> NoSession]
  /\ wire = [k \in Turns |-> <<>>]
  /\ texts = [k \in Turns |-> 0]
  /\ final = [k \in Turns |-> "none"]
  /\ raised = [k \in Turns |-> FALSE]
  /\ cut = [k \in Turns |-> FALSE]
  /\ told = [k \in Turns |-> "none"]
  /\ renewed = TRUE
  /\ framed \in Framings /\ analytics \in Analytics

Move(k, from, to) ==
  /\ pc[k] \in from
  /\ pc' = [pc EXCEPT ![k] = to]

(***************************************************************************)
(* The page's callbacks, closures over their own turn's bubble.            *)
(***************************************************************************)
SetBubble(k, n) ==
  bubble' = IF k \in shown THEN [bubble EXCEPT ![k] = n] ELSE bubble

OnChunk(k) ==
  /\ session' = sid[k]
  /\ SetBubble(k, bubble[k] + 1)
  /\ UNCHANGED <<streaming, shown, told>>

OnDone(k) ==
  /\ session' = sid[k]
  /\ streaming' = FALSE
  /\ told' = [told EXCEPT ![k] = "done"]
  /\ UNCHANGED <<shown, bubble>>

(* The error message replaces the text the bubble had.                     *)
OnError(k) ==
  /\ SetBubble(k, 0)
  /\ streaming' = FALSE
  /\ told' = [told EXCEPT ![k] = "error"]
  /\ UNCHANGED <<session, shown>>

(***************************************************************************)
(* handleSend and streamChat up to the fetch; "New Chat".                  *)
(***************************************************************************)
PostTurn(k) ==
  /\ Move(k, {"unsent"}, "posted")
  /\ \A j \in Turns : j < k => pc[j] # "unsent"
  /\ asked' = [asked EXCEPT ![k] = session]
  /\ shown' = shown \cup {k}
  /\ streaming' = TRUE
  /\ renewed' = FALSE
  /\ UNCHANGED <<session, bubble, told, streamVars, config>>

(* Fault: a message can be sent while another is answered.                 *)
SendAlways(k) == PostTurn(k)

Send(k) == ~streaming /\ PostTurn(k)

NewChat ==
  /\ session' = NoSession
  /\ shown' = {}
  /\ renewed' = TRUE
  /\ UNCHANGED <<streaming, bubble, told, pc, asked, streamVars, config>>

(* No answer, or a status other than 2xx: no runner, a prompt that Model   *)
(* Armor or the policies block, the rate limit, an exception.              *)
Refuse(k) ==
  /\ Move(k, {"posted"}, "closed")
  /\ OnError(k)
  /\ UNCHANGED <<asked, streamVars, renewed, config>>

(* The fetch rejects: streamChat throws and calls nothing.                 *)
FetchFails(k) ==
  /\ Move(k, {"posted"}, "closed")
  /\ cut' = [cut EXCEPT ![k] = TRUE]
  /\ UNCHANGED <<pageVars, asked, sid, wire, texts, final, raised, renewed, config>>

(***************************************************************************)
(* The gateway: chat picks the session, _stream_agent yields the events.   *)
(***************************************************************************)
Accept(k) ==
  /\ Move(k, {"posted"}, "open")
  /\ sid' = [sid EXCEPT ![k] = IF asked[k] = NoSession THEN k ELSE asked[k]]
  /\ UNCHANGED <<pageVars, asked, wire, texts, final, raised, cut, renewed, config>>

(* Fault: the terminal event overtakes the texts that were not read yet.   *)
EndStreamFirst(k, event) ==
  /\ pc' = [pc EXCEPT ![k] = "drained"]
  /\ wire' = [wire EXCEPT ![k] = <<event>> \o wire[k]]
  /\ final' = [final EXCEPT ![k] = event]

EndStream(k, event) ==
  /\ pc' = [pc EXCEPT ![k] = "drained"]
  /\ wire' = [wire EXCEPT ![k] = Append(wire[k], event)]
  /\ final' = [final EXCEPT ![k] = event]

(* A final response, whole or replaced by the policies.                    *)
AgentText(k) ==
  /\ pc[k] = "open" /\ texts[k] < MaxTexts
  /\ ~(analytics /\ texts[k] > 0)
  /\ wire' = [wire EXCEPT ![k] = Append(@, "text")]
  /\ texts' = [texts EXCEPT ![k] = @ + 1]
  /\ UNCHANGED <<pageVars, pc, asked, sid, final, raised, cut, renewed, config>>

(* With analytics the generator resumes after its first text at            *)
(* asyncio.create_task, a name main.py does not import: NameError.         *)
LogTurn(k) ==
  /\ pc[k] = "open" /\ analytics /\ texts[k] > 0
  /\ EndStream(k, "error")
  /\ UNCHANGED <<pageVars, asked, sid, texts, raised, cut, renewed, config>>

AgentReturns(k) ==
  /\ pc[k] = "open" /\ ~(analytics /\ texts[k] > 0)
  /\ EndStream(k, "done")
  /\ UNCHANGED <<pageVars, asked, sid, texts, raised, cut, renewed, config>>

AgentRaises(k) ==
  /\ pc[k] = "open" /\ ~(analytics /\ texts[k] > 0)
  /\ EndStream(k, "error")
  /\ raised' = [raised EXCEPT ![k] = TRUE]
  /\ UNCHANGED <<pageVars, asked, sid, texts, cut, renewed, config>>

(* The connection breaks, or the instance goes away: events not yet        *)
(* received are lost, and the generator is cancelled.                      *)
ConnectionFails(k) ==
  /\ Move(k, {"open", "drained"}, "drained")
  /\ ~cut[k]
  /\ \E n \in 0 .. Len(wire[k]) : wire' = [wire EXCEPT ![k] = SubSeq(@, 1, n)]
  /\ cut' = [cut EXCEPT ![k] = TRUE]
  /\ UNCHANGED <<pageVars, asked, sid, texts, final, raised, renewed, config>>

(***************************************************************************)
(* The read loop of streamChat.                                            *)
(***************************************************************************)
(* Fault: setSessionId is not called when the stream is done.              *)
CallbackForgetful(k, event) ==
  \/ event = "text" /\ OnChunk(k)
  \/ /\ event = "done"
     /\ streaming' = FALSE
     /\ told' = [told EXCEPT ![k] = "done"]
     /\ UNCHANGED <<session, shown, bubble>>
  \/ event = "error" /\ OnError(k)

Callback(k, event) ==
  \/ event = "text" /\ OnChunk(k)
  \/ event = "done" /\ OnDone(k)
  \/ event = "error" /\ OnError(k)

ReadEvent(k) ==
  /\ wire[k] # <<>>
  /\ IF framed THEN UNCHANGED pageVars ELSE Callback(k, Head(wire[k]))
  /\ wire' = [wire EXCEPT ![k] = Tail(@)]
  /\ UNCHANGED <<pc, asked, sid, texts, final, raised, cut, renewed, config>>

(* The end of the body, or a read that rejects: nothing is called.         *)
ReadEnds(k) ==
  /\ Move(k, {"drained"}, "closed")
  /\ wire[k] = <<>>
  /\ UNCHANGED <<pageVars, asked, streamVars, renewed, config>>

-----------------------------------------------------------------------------

GatewayStep(k) ==
  Accept(k) \/ AgentText(k) \/ LogTurn(k) \/ AgentReturns(k) \/ AgentRaises(k)

PageStep(k) ==
  Send(k) \/ Refuse(k) \/ FetchFails(k) \/ ReadEvent(k) \/ ReadEnds(k)

Next ==
  \/ NewChat
  \/ \E k \in Turns : GatewayStep(k) \/ PageStep(k) \/ ConnectionFails(k)

Spec == Init /\ [][Next]_vars

-----------------------------------------------------------------------------
(* Properties.                                                             *)

(* A turn that can still call back into the page.                          *)
MayCallBack(k) ==
  /\ pc[k] \notin {"unsent", "closed"}
  /\ told[k] = "none"

(* At most one turn can still change the page, though "New Chat" neither   *)
(* ends a stream nor is held back by one: handleSend's isStreaming guard   *)
(* (page.tsx:43) covers every way a turn goes on.                          *)
OneOpenTurn ==
  \A j, k \in Turns : MayCallBack(j) /\ MayCallBack(k) => j = k

(* A bubble whose turn ended in onDone holds every text the gateway        *)
(* produced for it, whatever was lost or cleared around it.                *)
AnsweredInFull ==
  \A k \in shown : told[k] = "done" => bubble[k] = texts[k]

(* A message sent after an answered one, with no "New Chat" in between,    *)
(* goes on in the session of that answer (main.py:213, page.tsx:67, 73).   *)
ConversationStays ==
  [][\A k \in Turns :
       /\ pc[k] = "unsent" /\ pc'[k] = "posted"
       /\ k > 1 /\ told[k - 1] = "done" /\ ~renewed
       => asked'[k] = sid[k - 1]]_vars

-----------------------------------------------------------------------------
(* The inductive invariant behind them, part by part.                      *)

(* Turns are sent in order, and only the last one sent may call back.      *)
SentInOrder ==
  \A j, k \in Turns : j < k =>
    /\ pc[j] = "unsent" => pc[k] = "unsent"
    /\ MayCallBack(j) => pc[k] = "unsent"

(* The texts on a wire: all its events but a terminal one at its end.      *)
EndsWith(events, kinds) == events # <<>> /\ events[Len(events)] \in kinds

TextsOn(events) ==
  IF EndsWith(events, {"done", "error"}) THEN Len(events) - 1 ELSE Len(events)

(* A terminal event is the last one.                                       *)
TerminalLast(events) ==
  \A i \in 1 .. Len(events) : events[i] # "text" => i = Len(events)

(* A wire is used between the answer and the close; a terminal event is    *)
(* its last, and after it was read there is nothing left to read.          *)
WireInv(k) ==
  /\ pc[k] \in {"unsent", "posted", "closed"} => wire[k] = <<>>
  /\ TerminalLast(wire[k])
  /\ EndsWith(wire[k], {"done", "error"}) => pc[k] = "drained"
  /\ told[k] # "none" => wire[k] = <<>>

(* The page waits for every turn that may still call back.                 *)
PageWaits(k) ==
  /\ pc[k] \in {"unsent", "posted", "open"} => told[k] = "none"
  /\ MayCallBack(k) => streaming

(* Texts produced are in the bubble or on the wire, until a connection     *)
(* fails; a "done" on the wire has all the texts in front of it.           *)
TextsInv(k) ==
  /\ pc[k] \in {"unsent", "posted"} => texts[k] = 0
  /\ framed => told[k] # "done"
  /\ bubble[k] + TextsOn(wire[k]) <= texts[k]
  /\ k \in shown /\ ~framed
     /\ (pc[k] = "open" \/ EndsWith(wire[k], {"done"})) =>
       bubble[k] + TextsOn(wire[k]) = texts[k]
  /\ told[k] = "done" /\ k \in shown => bubble[k] = texts[k]

(* After an answer the page stays in its session until "New Chat".         *)
SessionInv(k) ==
  told[k] = "done" /\ ~renewed /\ (\A j \in Turns : j > k => pc[j] = "unsent") =>
    session = sid[k]

TurnInv(k) == WireInv(k) /\ PageWaits(k) /\ TextsInv(k) /\ SessionInv(k)

(* One turn at a time calls back into the page, its wire and its bubble    *)
(* add up to what the gateway produced, and the session follows the answer.*)
IInv == TypeOK /\ SentInOrder /\ \A k \in Turns : TurnInv(k)

-----------------------------------------------------------------------------
(* What the documentation says, for the run that refutes it.               *)

(* api.ts:5: "onDone when the stream closes": here for a stream that the   *)
(* gateway completed with "done" and the client read to its end.           *)
CompletedIsReported ==
  \A k \in Turns :
    pc[k] = "closed" /\ final[k] = "done" /\ ~cut[k] => told[k] = "done"
=============================================================================

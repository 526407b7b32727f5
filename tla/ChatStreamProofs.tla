-------------------------- MODULE ChatStreamProofs --------------------------
(***************************************************************************)
(* TLAPS proofs about ChatStream, for any number of turns and texts: one   *)
(* turn at a time calls back, an answer is shown in full, and the page     *)
(* stays in the session of the answer.                                     *)
(***************************************************************************)
EXTENDS ChatStream, SequenceTheorems, TLAPS

Event == {"text", "done", "error"}

-----------------------------------------------------------------------------
(* A sequence whose elements are known ends with its last one.             *)
LEMMA LastElement ==
  ASSUME NEW s \in Seq(Event), s # <<>>
  PROVE  /\ Len(s) \in Nat \ {0}
         /\ \A i \in 1 .. Len(s) : s[i] \in Event
         /\ EndsWith(s, {"done", "error"}) <=> s[Len(s)] # "text"
         /\ EndsWith(s, {"done"}) <=> s[Len(s)] = "done"
         /\ TextsOn(s) = IF s[Len(s)] # "text" THEN Len(s) - 1 ELSE Len(s)
<1>1. Len(s) \in Nat \ {0}
  OBVIOUS
<1>2. \A i \in 1 .. Len(s) : s[i] \in Event
  OBVIOUS
<1>3. s[Len(s)] \in Event
  BY <1>1, <1>2
<1> QED
  BY <1>1, <1>2, <1>3 DEF EndsWith, TextsOn, Event

LEMMA EmptyWire ==
  /\ TerminalLast(<<>>) /\ TextsOn(<<>>) = 0
  /\ ~EndsWith(<<>>, {"done", "error"}) /\ ~EndsWith(<<>>, {"done"})
  BY DEF TerminalLast, EndsWith, TextsOn

(* A wire without a terminal event takes one more text, or its terminal.   *)
LEMMA AppendEvent ==
  ASSUME NEW s \in Seq(Event), TerminalLast(s), ~EndsWith(s, {"done", "error"}),
         NEW e \in Event
  PROVE  /\ Append(s, e) \in Seq(Event)
         /\ TerminalLast(Append(s, e))
         /\ EndsWith(Append(s, e), {"done", "error"}) <=> e # "text"
         /\ EndsWith(Append(s, e), {"done"}) <=> e = "done"
         /\ TextsOn(Append(s, e)) = TextsOn(s) + (IF e = "text" THEN 1 ELSE 0)
<1> DEFINE t == Append(s, e)
<1>1. /\ t \in Seq(Event) /\ t # <<>> /\ Len(t) = Len(s) + 1 /\ t[Len(t)] = e
      /\ \A i \in 1 .. Len(s) : t[i] = s[i]
      /\ Len(s) \in Nat
  OBVIOUS
<1>2. /\ EndsWith(t, {"done", "error"}) <=> t[Len(t)] # "text"
      /\ EndsWith(t, {"done"}) <=> t[Len(t)] = "done"
      /\ TextsOn(t) = IF t[Len(t)] # "text" THEN Len(t) - 1 ELSE Len(t)
  BY <1>1, LastElement
<1>3. TextsOn(s) = Len(s)
  BY DEF TextsOn
<1>4. \A i \in 1 .. Len(s) : s[i] = "text"
  <2>1. CASE s = <<>>
    BY <2>1
  <2>2. CASE s # <<>>
    BY <2>2, LastElement DEF TerminalLast
  <2> QED
    BY <2>1, <2>2
<1>5. TerminalLast(t)
  <2>1. \A i \in 1 .. Len(t) : i \in 1 .. Len(s) \/ i = Len(t)
    BY <1>1
  <2> QED
    BY <2>1, <1>1, <1>4 DEF TerminalLast
<1> HIDE DEF t
<1>6. TextsOn(t) = TextsOn(s) + (IF e = "text" THEN 1 ELSE 0)
  BY <1>1, <1>2, <1>3
<1>7. QED
  BY <1>1, <1>2, <1>5, <1>6 DEF t

(* Reading the first event.                                                *)
LEMMA ReadFirst ==
  ASSUME NEW s \in Seq(Event), TerminalLast(s), s # <<>>
  PROVE  /\ Tail(s) \in Seq(Event) /\ Head(s) \in Event
         /\ TerminalLast(Tail(s))
         /\ Head(s) = "text" => TextsOn(s) = TextsOn(Tail(s)) + 1
         /\ Head(s) # "text" => Tail(s) = <<>> /\ TextsOn(s) = 0
         /\ Head(s) # "text" => EndsWith(s, {Head(s)})
         /\ EndsWith(Tail(s), {"done", "error"}) => EndsWith(s, {"done", "error"})
         /\ EndsWith(Tail(s), {"done"}) => EndsWith(s, {"done"})
<1> DEFINE t == Tail(s)
<1>1. /\ t \in Seq(Event) /\ Len(s) \in Nat \ {0} /\ Len(t) = Len(s) - 1
      /\ \A i \in 1 .. Len(t) : t[i] = s[i + 1]
      /\ Head(s) = s[1] /\ s[1] \in Event
      /\ Len(s) = 1 => t = <<>>
      /\ Len(s) # 1 => t # <<>>
  <2>1. Len(s) \in Nat \ {0} /\ Head(s) \in Event /\ t \in Seq(Event)
        /\ Len(t) = Len(s) - 1 /\ \A i \in 1 .. Len(t) : t[i] = s[i + 1]
    BY HeadTailProperties, EmptySeq
  <2>2. Head(s) = s[1]
    OBVIOUS
  <2>3. Len(t) = 0 <=> t = <<>>
    BY <2>1, EmptySeq
  <2> HIDE DEF t
  <2> QED
    BY <2>1, <2>2, <2>3
<1>2. /\ EndsWith(s, {"done", "error"}) <=> s[Len(s)] # "text"
      /\ EndsWith(s, {"done"}) <=> s[Len(s)] = "done"
      /\ TextsOn(s) = IF s[Len(s)] # "text" THEN Len(s) - 1 ELSE Len(s)
  BY LastElement
<1>3. t # <<>> => /\ EndsWith(t, {"done", "error"}) <=> t[Len(t)] # "text"
                  /\ EndsWith(t, {"done"}) <=> t[Len(t)] = "done"
                  /\ TextsOn(t) = IF t[Len(t)] # "text" THEN Len(t) - 1 ELSE Len(t)
  BY <1>1, LastElement
<1>4. t = <<>> => /\ ~EndsWith(t, {"done", "error"}) /\ ~EndsWith(t, {"done"})
                  /\ TextsOn(t) = 0
  BY EmptyWire
<1>5. t # <<>> => t[Len(t)] = s[Len(s)]
  <2> SUFFICES ASSUME t # <<>>
               PROVE  t[Len(t)] = s[Len(s)]
    OBVIOUS
  <2> HIDE DEF t
  <2>1. Len(t) \in 1 .. Len(t) /\ Len(t) + 1 = Len(s)
    BY <1>1
  <2> QED
    BY <1>1, <2>1
<1>6. TerminalLast(t)
  <2>1. ASSUME NEW i \in 1 .. Len(t), t[i] # "text"
        PROVE  i = Len(t)
    <3> HIDE DEF t
    <3>1. i + 1 \in 1 .. Len(s) /\ s[i + 1] # "text"
      BY <1>1, <2>1
    <3>2. i + 1 = Len(s)
      BY <3>1 DEF TerminalLast
    <3> QED
      BY <1>1, <3>2
  <2> QED
    BY <2>1 DEF TerminalLast
<1>7. Head(s) # "text" => Len(s) = 1 /\ EndsWith(s, {Head(s)})
  <2>1. 1 \in 1 .. Len(s)
    BY <1>1
  <2>2. Head(s) # "text" => Len(s) = 1
    BY <1>1, <2>1 DEF TerminalLast
  <2> QED
    BY <1>1, <2>2 DEF EndsWith
<1> HIDE DEF t
<1>8. Head(s) = "text" => TextsOn(s) = TextsOn(t) + 1
  BY <1>1, <1>2, <1>3, <1>4, <1>5
<1>9. Head(s) # "text" => t = <<>> /\ TextsOn(s) = 0
  BY <1>1, <1>2, <1>7
<1> QED
  BY <1>1, <1>2, <1>3, <1>4, <1>5, <1>6, <1>7, <1>8, <1>9 DEF t

(* What is left of a wire when its end is lost.                            *)
LEMMA LoseEnd ==
  ASSUME NEW s \in Seq(Event), TerminalLast(s), NEW n \in 0 .. Len(s)
  PROVE  /\ SubSeq(s, 1, n) \in Seq(Event)
         /\ TerminalLast(SubSeq(s, 1, n))
         /\ TextsOn(SubSeq(s, 1, n)) <= TextsOn(s)
         /\ EndsWith(SubSeq(s, 1, n), {"done", "error"}) => SubSeq(s, 1, n) = s
         /\ s = <<>> => SubSeq(s, 1, n) = <<>>
<1> DEFINE t == SubSeq(s, 1, n)
<1>1. /\ t \in Seq(Event) /\ Len(t) = n /\ Len(s) \in Nat /\ n \in Nat
      /\ \A i \in 1 .. n : t[i] = s[i]
  OBVIOUS
<1>2. n = Len(s) => t = s
  BY <1>1
<1>3. TerminalLast(t)
  BY <1>1 DEF TerminalLast
<1>4. EndsWith(t, {"done", "error"}) => n = Len(s)
  <2> SUFFICES ASSUME EndsWith(t, {"done", "error"})
               PROVE  n = Len(s)
    OBVIOUS
  <2>1. t # <<>> /\ t[n] # "text"
    BY <1>1 DEF EndsWith
  <2>2. n # 0
    BY <1>1, <2>1
  <2>3. n \in 1 .. Len(s) /\ s[n] # "text"
    BY <1>1, <2>1, <2>2
  <2> QED
    BY <2>3 DEF TerminalLast
<1>5. TextsOn(t) <= TextsOn(s)
  <2> HIDE DEF t
  <2>0. TextsOn(s) \in {Len(s), Len(s) - 1}
    BY DEF TextsOn
  <2>1. CASE n = Len(s)
    BY <1>1, <1>2, <2>0, <2>1
  <2>2. CASE n # Len(s)
    <3>1. TextsOn(t) = n
      BY <1>1, <1>4, <2>2 DEF TextsOn
    <3> QED
      BY <1>1, <2>0, <2>2, <3>1
  <2> QED
    BY <2>1, <2>2
<1>6. s = <<>> => t = <<>>
  BY <1>1, <1>2, EmptySeq
<1> QED
  BY <1>1, <1>2, <1>3, <1>4, <1>5, <1>6

(* "done" is a terminal event.                                             *)
LEMMA DoneIsTerminal ==
  ASSUME NEW s, EndsWith(s, {"done"})
  PROVE  EndsWith(s, {"done", "error"})
  BY DEF EndsWith

(* The number of texts on a wire.                                          *)
LEMMA TextsCount ==
  ASSUME NEW s \in Seq(Event)
  PROVE  TextsOn(s) \in Nat
<1>1. CASE s = <<>>
  BY <1>1, EmptyWire
<1>2. CASE s # <<>>
  BY <1>2, LastElement
<1> QED
  BY <1>1, <1>2

-----------------------------------------------------------------------------
(* Facts about one state.                                                  *)

LEMMA Typed ==
  ASSUME IInv, NEW k \in Turns
  PROVE  /\ k \in Nat /\ Turns \subseteq Nat
         /\ wire[k] \in Seq(Event) /\ TextsOn(wire[k]) \in Nat
         /\ bubble[k] \in Nat /\ texts[k] \in Nat
<1>1. wire[k] \in Seq(Event)
  BY DEF IInv, TypeOK, Event
<1>2. TextsOn(wire[k]) \in Nat
  BY <1>1, TextsCount
<1> QED
  BY <1>1, <1>2, ChatAssumption DEF IInv, TypeOK, Turns

LEMMA OneOpen ==
  ASSUME IInv
  PROVE  OneOpenTurn
<1> SUFFICES ASSUME NEW j \in Turns, NEW k \in Turns, j # k,
                    MayCallBack(j), MayCallBack(k)
             PROVE  FALSE
  BY DEF OneOpenTurn
<1>1. j < k \/ k < j
  BY ChatAssumption DEF Turns
<1>2. \/ j < k /\ pc[k] = "unsent"
      \/ k < j /\ pc[j] = "unsent"
  BY <1>1 DEF IInv, SentInOrder
<1> QED
  BY <1>2 DEF MayCallBack

-----------------------------------------------------------------------------
(* A step of turn k leaves the gateway's part of every other turn alone.   *)
Elsewhere(k) ==
  \A j \in Turns \ {k} :
    /\ pc'[j] = pc[j] /\ sid'[j] = sid[j]
    /\ wire'[j] = wire[j] /\ texts'[j] = texts[j]

(* A step that calls nothing in the page.                                  *)
LEMMA QuietStep ==
  ASSUME IInv, TypeOK', NEW k \in Turns,
         UNCHANGED <<pageVars, renewed, config>>, Elsewhere(k),
         pc[k] \notin {"unsent", "closed"}, pc'[k] # "unsent",
         sid'[k] = sid[k] \/ told[k] = "none",
         pc'[k] \in {"posted", "open"} => told[k] = "none",
         WireInv(k)', TextsInv(k)'
  PROVE  IInv'
<1>1. SentInOrder'
  BY Typed DEF IInv, SentInOrder, MayCallBack, Elsewhere, pageVars
<1>2. ASSUME NEW j \in Turns PROVE TurnInv(j)'
  <2>1. WireInv(j)' /\ TextsInv(j)'
    <3>1. CASE j = k
      BY <3>1
    <3>2. CASE j # k
      BY <3>2 DEF IInv, TurnInv, WireInv, TextsInv, Elsewhere, pageVars, config
    <3> QED
      BY <3>1, <3>2
  <2>2. PageWaits(j)'
    BY DEF IInv, TurnInv, PageWaits, MayCallBack, Elsewhere, pageVars
  <2>3. SessionInv(j)'
    <3> SUFFICES ASSUME told[j] = "done", ~renewed,
                        \A i \in Turns : i > j => pc'[i] = "unsent"
                 PROVE  session = sid'[j]
      BY DEF SessionInv, pageVars
    <3>1. ~(k > j)
      OBVIOUS
    <3>2. \A i \in Turns : i > j => pc[i] = "unsent"
      BY <3>1 DEF Elsewhere
    <3>3. session = sid[j]
      BY <3>2 DEF IInv, TurnInv, SessionInv
    <3> QED
      BY <3>3 DEF Elsewhere
  <2> QED
    BY <2>1, <2>2, <2>3 DEF TurnInv
<1> QED
  BY <1>1, <1>2 DEF IInv

(* A step in which turn k calls back.                                      *)
LEMMA CallStep ==
  ASSUME IInv, TypeOK', NEW k \in Turns, MayCallBack(k),
         UNCHANGED <<shown, renewed, config>>, Elsewhere(k),
         \A j \in Turns \ {k} : told'[j] = told[j] /\ bubble'[j] = bubble[j],
         pc'[k] # "unsent",
         TurnInv(k)'
  PROVE  IInv'
<1>0. \A j \in Turns \ {k} : ~MayCallBack(j) /\ ~MayCallBack(j)'
  BY OneOpen DEF OneOpenTurn, MayCallBack, Elsewhere
<1>1. SentInOrder'
  BY <1>0 DEF IInv, SentInOrder, MayCallBack, Elsewhere
<1>2. ASSUME NEW j \in Turns, j # k PROVE TurnInv(j)'
  <2>1. WireInv(j)' /\ TextsInv(j)'
    BY <1>2 DEF IInv, TurnInv, WireInv, TextsInv, Elsewhere, config
  <2>2. PageWaits(j)'
    BY <1>0, <1>2 DEF IInv, TurnInv, PageWaits, Elsewhere
  <2>3. SessionInv(j)'
    <3>1. j < k \/ k < j
      BY <1>2, Typed
    <3>2. CASE j < k
      BY <3>2, Typed DEF SessionInv
    <3>3. CASE k < j
      <4>1. pc[j] = "unsent"
        BY <3>3 DEF IInv, SentInOrder
      <4>2. told'[j] = "none"
        BY <4>1, <1>2 DEF IInv, TurnInv, PageWaits
      <4> QED
        BY <4>2 DEF SessionInv
    <3> QED
      BY <3>1, <3>2, <3>3
  <2> QED
    BY <2>1, <2>2, <2>3 DEF TurnInv
<1> QED
  BY <1>1, <1>2 DEF IInv

-----------------------------------------------------------------------------
(* The initial state.                                                      *)

LEMMA InitInv == Init => IInv
<1> SUFFICES ASSUME Init PROVE IInv
  OBVIOUS
<1>1. TypeOK
  <2>1. <<>> \in Seq({"text", "done", "error"})
    BY EmptySeq
  <2>2. 0 \in 0 .. MaxTexts /\ NoSession \in Session
    BY ChatAssumption DEF Session, NoSession
  <2>3. framed \in BOOLEAN /\ analytics \in BOOLEAN
    BY ChatAssumption DEF Init
  <2> QED
    BY <2>1, <2>2, <2>3 DEF Init, TypeOK, PC
<1>2. SentInOrder
  BY DEF Init, SentInOrder, MayCallBack
<1>3. ASSUME NEW k \in Turns PROVE TurnInv(k)
  BY EmptyWire DEF Init, TurnInv, WireInv, PageWaits, TextsInv, SessionInv, MayCallBack
<1> QED
  BY <1>1, <1>2, <1>3 DEF IInv

-----------------------------------------------------------------------------
(* The user.                                                               *)

LEMMA NewChatStep == IInv /\ NewChat => IInv'
<1> SUFFICES ASSUME IInv, NewChat PROVE IInv'
  OBVIOUS
<1> USE DEF NewChat, streamVars, config
<1>1. TypeOK'
  BY ChatAssumption DEF IInv, TypeOK, Session, NoSession
<1>2. SentInOrder'
  BY DEF IInv, SentInOrder, MayCallBack
<1>3. ASSUME NEW k \in Turns PROVE TurnInv(k)'
  <2>1. WireInv(k)'
    BY DEF IInv, TurnInv, WireInv
  <2>2. PageWaits(k)'
    BY DEF IInv, TurnInv, PageWaits, MayCallBack
  <2>3. TextsInv(k)'
    BY DEF IInv, TurnInv, TextsInv
  <2>4. SessionInv(k)'
    BY DEF SessionInv
  <2> QED
    BY <2>1, <2>2, <2>3, <2>4 DEF TurnInv
<1> QED
  BY <1>1, <1>2, <1>3 DEF IInv

LEMMA SendStep ==
  ASSUME IInv, NEW k \in Turns, Send(k)
  PROVE  IInv'
<1> USE DEF Send, PostTurn, Move, streamVars, config
<1>1. TypeOK'
  BY DEF IInv, TypeOK, PC
<1>2. /\ \A j \in Turns : ~MayCallBack(j)
      /\ \A j \in Turns \ {k} : ~MayCallBack(j)'
  BY DEF IInv, TurnInv, PageWaits, MayCallBack
<1>3. \A j \in Turns : j < k => pc[j] # "unsent"
  OBVIOUS
<1>4. \A j \in Turns : k < j => pc[j] = "unsent" /\ told[j] = "none"
  BY DEF IInv, SentInOrder, TurnInv, PageWaits
<1>5. pc'[k] = "posted" /\ \A j \in Turns \ {k} : pc'[j] = pc[j]
  BY DEF IInv, TypeOK
<1>6. SentInOrder'
  BY <1>2, <1>3, <1>4, <1>5, Typed DEF IInv, SentInOrder
<1>7. wire[k] = <<>> /\ told[k] = "none"
  BY DEF IInv, TurnInv, WireInv, PageWaits
<1>8. ASSUME NEW j \in Turns PROVE TurnInv(j)'
  <2>1. WireInv(j)'
    BY <1>5, <1>7, EmptyWire DEF IInv, TurnInv, WireInv
  <2>2. PageWaits(j)'
    BY <1>5, <1>7 DEF IInv, TurnInv, PageWaits
  <2>3. TextsInv(j)'
    <3>1. CASE j = k
      BY <3>1, <1>5, <1>7, EmptyWire DEF IInv, TurnInv, TextsInv
    <3>2. CASE j # k
      BY <3>2, <1>5 DEF IInv, TurnInv, TextsInv
    <3> QED
      BY <3>1, <3>2
  <2>4. SessionInv(j)'
    <3> SUFFICES ASSUME told[j] = "done", \A i \in Turns : i > j => pc'[i] = "unsent"
                 PROVE  FALSE
      BY DEF SessionInv
    <3>1. j < k \/ k < j
      BY <1>7, Typed
    <3>2. CASE j < k
      BY <3>2, <1>5, Typed
    <3>3. CASE k < j
      BY <3>3, <1>4
    <3> QED
      BY <3>1, <3>2, <3>3
  <2> QED
    BY <2>1, <2>2, <2>3, <2>4 DEF TurnInv
<1> QED
  BY <1>1, <1>6, <1>8 DEF IInv

-----------------------------------------------------------------------------
(* The gateway and the network.                                            *)

LEMMA AcceptStep ==
  ASSUME IInv, NEW k \in Turns, Accept(k)
  PROVE  IInv'
<1> USE DEF Accept, Move, pageVars, config
<1>1. TypeOK'
  BY Typed DEF IInv, TypeOK, PC, Session, Turns
<1>2. /\ pc[k] = "posted" /\ pc'[k] = "open" /\ wire[k] = <<>>
      /\ told[k] = "none" /\ texts[k] = 0
  BY DEF IInv, TypeOK, TurnInv, WireInv, PageWaits, TextsInv
<1>3. Elsewhere(k)
  BY DEF Elsewhere
<1>4. WireInv(k)'
  BY <1>2, EmptyWire DEF WireInv
<1>5. TextsInv(k)'
  BY <1>2, EmptyWire, Typed DEF IInv, TurnInv, TextsInv
<1> QED
  BY <1>1, <1>2, <1>3, <1>4, <1>5, QuietStep

LEMMA AgentTextStep ==
  ASSUME IInv, NEW k \in Turns, AgentText(k)
  PROVE  IInv'
<1> USE DEF AgentText, pageVars, config
<1>1. /\ pc[k] = "open" /\ told[k] = "none" /\ wire[k] \in Seq(Event)
      /\ TerminalLast(wire[k]) /\ ~EndsWith(wire[k], {"done", "error"})
  BY Typed DEF IInv, TurnInv, WireInv, PageWaits
<1>2. wire'[k] = Append(wire[k], "text") /\ texts'[k] = texts[k] + 1
  BY DEF IInv, TypeOK
<1>3. /\ wire'[k] \in Seq(Event) /\ TerminalLast(wire'[k])
      /\ ~EndsWith(wire'[k], {"done", "error"})
      /\ TextsOn(wire'[k]) = TextsOn(wire[k]) + 1
  BY <1>1, <1>2, AppendEvent DEF Event
<1>4. TypeOK'
  <2>1. wire' \in [Turns -> Seq({"text", "done", "error"})]
    BY <1>2, <1>3 DEF IInv, TypeOK, Event
  <2>2. texts' \in [Turns -> 0 .. MaxTexts]
    <3>1. texts[k] + 1 \in 0 .. MaxTexts
      BY Typed, ChatAssumption
    <3> QED
      BY <3>1 DEF IInv, TypeOK
  <2> QED
    BY <2>1, <2>2 DEF IInv, TypeOK
<1>5. Elsewhere(k)
  BY DEF Elsewhere
<1>6. WireInv(k)'
  BY <1>1, <1>3 DEF WireInv
<1>7. TextsInv(k)'
  <2>1. TextsInv(k)
    BY DEF IInv, TurnInv
  <2>2. /\ bubble[k] + TextsOn(wire[k]) <= texts[k]
        /\ k \in shown /\ ~framed => bubble[k] + TextsOn(wire[k]) = texts[k]
    BY <2>1, <1>1 DEF TextsInv
  <2>3. /\ bubble'[k] + TextsOn(wire'[k]) <= texts'[k]
        /\ k \in shown /\ ~framed => bubble'[k] + TextsOn(wire'[k]) = texts'[k]
    BY <2>2, <1>2, <1>3, Typed
  <2> QED
    BY <2>3, <1>1 DEF TextsInv
<1> QED
  BY <1>1, <1>4, <1>5, <1>6, <1>7, QuietStep

(* LogTurn, AgentReturns and AgentRaises end the stream.                   *)
LEMMA EndStreamStep ==
  ASSUME IInv, NEW k \in Turns, NEW e \in {"done", "error"},
         pc[k] = "open", EndStream(k, e), raised' \in [Turns -> BOOLEAN],
         UNCHANGED <<pageVars, asked, sid, texts, cut, renewed, config>>
  PROVE  IInv'
<1> USE DEF EndStream, pageVars, config
<1>1. /\ told[k] = "none" /\ wire[k] \in Seq(Event)
      /\ TerminalLast(wire[k]) /\ ~EndsWith(wire[k], {"done", "error"})
  BY Typed DEF IInv, TurnInv, WireInv, PageWaits
<1>2. wire'[k] = Append(wire[k], e) /\ pc'[k] = "drained"
  BY DEF IInv, TypeOK
<1>3. /\ wire'[k] \in Seq(Event) /\ TerminalLast(wire'[k])
      /\ TextsOn(wire'[k]) = TextsOn(wire[k])
  <2>1. e \in Event /\ e # "text"
    BY DEF Event
  <2> QED
    BY <1>1, <1>2, <2>1, AppendEvent, Typed
<1>4. TypeOK'
  BY <1>2, <1>3 DEF IInv, TypeOK, Event, PC
<1>5. Elsewhere(k)
  BY DEF Elsewhere
<1>6. WireInv(k)'
  BY <1>1, <1>2, <1>3 DEF WireInv
<1>7. TextsInv(k)'
  BY <1>1, <1>2, <1>3, Typed DEF IInv, TurnInv, TextsInv
<1> QED
  BY <1>1, <1>2, <1>4, <1>5, <1>6, <1>7, QuietStep

LEMMA ConnectionFailsStep ==
  ASSUME IInv, NEW k \in Turns, ConnectionFails(k)
  PROVE  IInv'
<1> USE DEF ConnectionFails, Move, pageVars, config
<1>1. PICK n \in 0 .. Len(wire[k]) : wire' = [wire EXCEPT ![k] = SubSeq(@, 1, n)]
  OBVIOUS
<1> DEFINE s == wire[k]
           t == SubSeq(s, 1, n)
<1>2. wire'[k] = t /\ pc'[k] = "drained" /\ pc[k] \in {"open", "drained"}
  BY <1>1 DEF IInv, TypeOK
<1>3. s \in Seq(Event) /\ TerminalLast(s)
  BY Typed DEF IInv, TurnInv, WireInv
<1>4. /\ t \in Seq(Event) /\ TerminalLast(t) /\ TextsOn(t) <= TextsOn(s)
      /\ EndsWith(t, {"done", "error"}) => t = s
      /\ s = <<>> => t = <<>>
  BY <1>3, LoseEnd
<1>5. EndsWith(t, {"done"}) => t = s
  BY <1>4, DoneIsTerminal
<1>6. TextsOn(t) \in Nat
  BY <1>4, TextsCount
<1> HIDE DEF t
<1>7. TypeOK'
  BY <1>1, <1>2, <1>4 DEF IInv, TypeOK, Event, PC, t
<1>8. Elsewhere(k)
  BY <1>1 DEF Elsewhere
<1>9. WireInv(k)'
  BY <1>2, <1>4 DEF IInv, TurnInv, WireInv
<1>10. TextsInv(k)'
  <2>1. TextsInv(k)
    BY DEF IInv, TurnInv
  <2>2. /\ TextsOn(s) \in Nat /\ bubble[k] \in Nat /\ texts[k] \in Nat
        /\ bubble[k] + TextsOn(s) <= texts[k]
    BY <2>1, Typed DEF TextsInv
  <2>3. bubble[k] + TextsOn(t) <= texts[k]
    BY <2>2, <1>4, <1>6
  <2>4. EndsWith(t, {"done"}) /\ k \in shown /\ ~framed => bubble[k] + TextsOn(t) = texts[k]
    BY <2>1, <1>5 DEF TextsInv
  <2> QED
    BY <2>1, <2>3, <2>4, <1>2 DEF TextsInv
<1> QED
  BY <1>2, <1>7, <1>8, <1>9, <1>10, QuietStep

-----------------------------------------------------------------------------
(* The page.                                                               *)

LEMMA FetchFailsStep ==
  ASSUME IInv, NEW k \in Turns, FetchFails(k)
  PROVE  IInv'
<1> USE DEF FetchFails, Move, pageVars, config
<1>1. TypeOK'
  BY DEF IInv, TypeOK, PC
<1>2. pc[k] = "posted" /\ pc'[k] = "closed" /\ wire[k] = <<>> /\ told[k] = "none"
  BY DEF IInv, TypeOK, TurnInv, WireInv, PageWaits
<1>3. Elsewhere(k)
  BY DEF Elsewhere
<1>4. WireInv(k)'
  BY <1>2, EmptyWire DEF WireInv
<1>5. TextsInv(k)'
  BY <1>2, EmptyWire DEF IInv, TurnInv, TextsInv
<1> QED
  BY <1>1, <1>2, <1>3, <1>4, <1>5, QuietStep

LEMMA ReadEndsStep ==
  ASSUME IInv, NEW k \in Turns, ReadEnds(k)
  PROVE  IInv'
<1> USE DEF ReadEnds, Move, pageVars, streamVars, config
<1>1. TypeOK'
  BY DEF IInv, TypeOK, PC
<1>2. pc[k] = "drained" /\ pc'[k] = "closed" /\ wire[k] = <<>>
  BY DEF IInv, TypeOK
<1>3. Elsewhere(k)
  BY DEF Elsewhere
<1>4. WireInv(k)'
  BY <1>2, EmptyWire DEF WireInv
<1>5. TextsInv(k)'
  BY <1>2, EmptyWire DEF IInv, TurnInv, TextsInv
<1> QED
  BY <1>1, <1>2, <1>3, <1>4, <1>5, QuietStep

LEMMA RefuseStep ==
  ASSUME IInv, NEW k \in Turns, Refuse(k)
  PROVE  IInv'
<1> USE DEF Refuse, OnError, SetBubble, Move, streamVars, config
<1>1. TypeOK'
  <2>1. bubble' \in [Turns -> 0 .. MaxTexts]
    BY ChatAssumption DEF IInv, TypeOK
  <2> QED
    BY <2>1 DEF IInv, TypeOK, PC
<1>2. /\ pc[k] = "posted" /\ pc'[k] = "closed" /\ wire[k] = <<>>
      /\ told[k] = "none" /\ told'[k] = "error" /\ texts[k] = 0
  BY DEF IInv, TypeOK, TurnInv, WireInv, PageWaits, TextsInv
<1>3. MayCallBack(k)
  BY <1>2 DEF MayCallBack
<1>4. /\ Elsewhere(k)
      /\ \A j \in Turns \ {k} : told'[j] = told[j] /\ bubble'[j] = bubble[j]
  BY DEF Elsewhere
<1>5. bubble'[k] = 0
  BY <1>2, Typed, EmptyWire DEF IInv, TypeOK, TurnInv, TextsInv
<1>6. WireInv(k)' /\ PageWaits(k)'
  BY <1>2, EmptyWire DEF WireInv, PageWaits, MayCallBack
<1>7. TextsInv(k)' /\ SessionInv(k)'
  BY <1>2, <1>5, EmptyWire DEF TextsInv, SessionInv
<1> QED
  BY <1>1, <1>2, <1>3, <1>4, <1>6, <1>7, CallStep DEF TurnInv

(* What a read finds.                                                      *)
LEMMA ReadFacts ==
  ASSUME IInv, NEW k \in Turns, ReadEvent(k)
  PROVE  /\ wire[k] # <<>> /\ TerminalLast(wire[k])
         /\ wire'[k] = Tail(wire[k]) /\ wire'[k] \in Seq(Event)
         /\ wire' \in [Turns -> Seq({"text", "done", "error"})]
         /\ pc[k] \in {"open", "drained"} /\ pc'[k] = pc[k]
         /\ told[k] = "none" /\ MayCallBack(k) /\ Elsewhere(k)
         /\ WireInv(k)' <=> (told'[k] # "none" => wire'[k] = <<>>)
<1> USE DEF ReadEvent
<1>1. wire[k] # <<>> /\ TerminalLast(wire[k]) /\ wire[k] \in Seq(Event)
  BY Typed DEF IInv, TurnInv, WireInv
<1>2. wire'[k] = Tail(wire[k])
  BY DEF IInv, TypeOK
<1>3. /\ wire'[k] \in Seq(Event) /\ TerminalLast(wire'[k])
      /\ EndsWith(wire'[k], {"done", "error"}) => EndsWith(wire[k], {"done", "error"})
  BY <1>1, <1>2, ReadFirst
<1>4. wire' \in [Turns -> Seq({"text", "done", "error"})]
  BY <1>2, <1>3 DEF IInv, TypeOK, Event
<1>5. /\ pc[k] \in {"open", "drained"} /\ pc'[k] = pc[k]
      /\ told[k] = "none" /\ MayCallBack(k)
  BY <1>1 DEF IInv, TypeOK, PC, TurnInv, WireInv, MayCallBack
<1>6. Elsewhere(k)
  BY DEF Elsewhere
<1>7. WireInv(k)' <=> (told'[k] # "none" => wire'[k] = <<>>)
  BY <1>3, <1>5 DEF IInv, TurnInv, WireInv
<1> QED
  BY <1>1, <1>2, <1>3, <1>4, <1>5, <1>6, <1>7

(* The client cannot parse the event and skips it.                         *)
LEMMA SkipStep ==
  ASSUME IInv, NEW k \in Turns, ReadEvent(k), framed
  PROVE  IInv'
<1> USE DEF pageVars, config
<1>1. TypeOK'
  BY ReadFacts DEF IInv, TypeOK, ReadEvent
<1>2. WireInv(k)'
  BY ReadFacts DEF ReadEvent
<1>3. TextsInv(k)'
  <2>1. TextsOn(wire'[k]) <= TextsOn(wire[k]) /\ TextsOn(wire'[k]) \in Nat
    <3>1. /\ wire[k] # <<>> /\ TerminalLast(wire[k]) /\ wire'[k] = Tail(wire[k])
          /\ wire[k] \in Seq(Event) /\ TextsOn(wire'[k]) \in Nat /\ TextsOn(wire[k]) \in Nat
      BY ReadFacts, Typed, TextsCount
    <3>2. \/ TextsOn(wire[k]) = TextsOn(wire'[k]) + 1
          \/ wire'[k] = <<>>
      BY <3>1, ReadFirst
    <3>3. wire'[k] = <<>> => TextsOn(wire'[k]) = 0
      BY EmptyWire
    <3> QED
      BY <3>1, <3>2, <3>3
  <2>2. bubble[k] + TextsOn(wire'[k]) <= texts[k]
    BY <2>1, Typed DEF IInv, TurnInv, TextsInv
  <2> QED
    BY <2>2, ReadFacts DEF IInv, TurnInv, TextsInv, ReadEvent
<1> QED
  BY <1>1, <1>2, <1>3, ReadFacts, QuietStep DEF ReadEvent

LEMMA ChunkStep ==
  ASSUME IInv, NEW k \in Turns, ReadEvent(k), ~framed,
         Head(wire[k]) = "text", OnChunk(k)
  PROVE  IInv'
<1> USE DEF config
<1>1. /\ TextsOn(wire[k]) = TextsOn(wire'[k]) + 1 /\ TextsOn(wire'[k]) \in Nat
      /\ EndsWith(wire'[k], {"done"}) => EndsWith(wire[k], {"done"})
  BY ReadFacts, ReadFirst, Typed, TextsCount
<1>2. bubble[k] + 1 \in 0 .. MaxTexts
  <2>1. bubble[k] + TextsOn(wire[k]) <= texts[k] /\ texts[k] \in 0 .. MaxTexts
    BY DEF IInv, TypeOK, TurnInv, TextsInv
  <2> QED
    BY <1>1, <2>1, Typed, ChatAssumption
<1>3. TypeOK'
  <2>1. bubble' \in [Turns -> 0 .. MaxTexts]
    BY <1>2 DEF IInv, TypeOK, OnChunk, SetBubble
  <2>2. session' \in Session
    BY DEF IInv, TypeOK, OnChunk
  <2> QED
    BY <2>1, <2>2, ReadFacts DEF IInv, TypeOK, ReadEvent, OnChunk
<1>4. \A j \in Turns \ {k} : told'[j] = told[j] /\ bubble'[j] = bubble[j]
  BY DEF OnChunk, SetBubble
<1>5. told'[k] = "none" /\ streaming' = streaming
  BY ReadFacts DEF OnChunk
<1>6. WireInv(k)' /\ PageWaits(k)' /\ SessionInv(k)'
  BY <1>5, ReadFacts DEF IInv, TurnInv, PageWaits, MayCallBack, SessionInv
<1>7. TextsInv(k)'
  <2>1. bubble'[k] = IF k \in shown THEN bubble[k] + 1 ELSE bubble[k]
    BY DEF OnChunk, SetBubble, IInv, TypeOK
  <2>2. bubble[k] + TextsOn(wire[k]) <= texts[k]
    BY DEF IInv, TurnInv, TextsInv
  <2>3. bubble'[k] + TextsOn(wire'[k]) <= texts[k]
    BY <1>1, <2>1, <2>2, Typed
  <2>4. k \in shown /\ (pc[k] = "open" \/ EndsWith(wire'[k], {"done"})) =>
          bubble'[k] + TextsOn(wire'[k]) = texts[k]
    <3> SUFFICES ASSUME k \in shown, pc[k] = "open" \/ EndsWith(wire'[k], {"done"})
                 PROVE  bubble'[k] + TextsOn(wire'[k]) = texts[k]
      OBVIOUS
    <3>1. bubble[k] + TextsOn(wire[k]) = texts[k]
      BY <1>1 DEF IInv, TurnInv, TextsInv
    <3>2. bubble'[k] = bubble[k] + 1
      BY <2>1
    <3> QED
      BY <3>1, <3>2, <1>1, Typed
  <2> QED
    BY <2>3, <2>4, <1>5, ReadFacts DEF TextsInv, ReadEvent, OnChunk
<1> QED
  BY <1>3, <1>4, <1>6, <1>7, ReadFacts, CallStep DEF TurnInv, ReadEvent, OnChunk

(* A terminal event is the last one of its wire.                           *)
LEMMA TerminalRead ==
  ASSUME IInv, NEW k \in Turns, ReadEvent(k), Head(wire[k]) # "text"
  PROVE  /\ wire'[k] = <<>> /\ TextsOn(wire[k]) = 0 /\ pc[k] = "drained"
         /\ EndsWith(wire[k], {Head(wire[k])})
<1>1. /\ wire'[k] = <<>> /\ TextsOn(wire[k]) = 0
      /\ EndsWith(wire[k], {Head(wire[k])}) /\ Head(wire[k]) \in Event
  BY ReadFacts, ReadFirst, Typed
<1>2. EndsWith(wire[k], {"done", "error"})
  BY <1>1 DEF EndsWith, Event
<1> QED
  BY <1>1, <1>2, ReadFacts DEF IInv, TurnInv, WireInv

LEMMA DoneStep ==
  ASSUME IInv, NEW k \in Turns, ReadEvent(k), ~framed,
         Head(wire[k]) = "done", OnDone(k)
  PROVE  IInv'
<1> USE DEF config
<1>1. /\ wire'[k] = <<>> /\ TextsOn(wire[k]) = 0 /\ pc[k] = "drained"
      /\ EndsWith(wire[k], {"done"})
  BY TerminalRead
<1>2. TypeOK'
  <2>1. session' \in Session /\ told' \in [Turns -> {"none", "done", "error"}]
    BY DEF IInv, TypeOK, OnDone
  <2> QED
    BY <2>1, ReadFacts DEF IInv, TypeOK, ReadEvent, OnDone
<1>3. \A j \in Turns \ {k} : told'[j] = told[j] /\ bubble'[j] = bubble[j]
  BY DEF OnDone
<1>4. told'[k] = "done" /\ session' = sid[k]
  BY DEF OnDone, IInv, TypeOK
<1>5. WireInv(k)' /\ PageWaits(k)' /\ SessionInv(k)'
  BY <1>1, <1>4, ReadFacts DEF PageWaits, MayCallBack, SessionInv, ReadEvent
<1>6. TextsInv(k)'
  <2>1. /\ bubble[k] <= texts[k]
        /\ k \in shown => bubble[k] = texts[k]
    BY <1>1, Typed DEF IInv, TurnInv, TextsInv
  <2>2. TextsOn(wire'[k]) = 0 /\ ~EndsWith(wire'[k], {"done"}) /\ pc'[k] = "drained"
    BY <1>1, EmptyWire, ReadFacts
  <2>3. bubble[k] + 0 <= texts[k]
    BY <2>1, Typed
  <2> QED
    BY <2>1, <2>2, <2>3 DEF TextsInv, ReadEvent, OnDone
<1> QED
  BY <1>2, <1>3, <1>5, <1>6, <1>1, ReadFacts, CallStep DEF TurnInv, ReadEvent, OnDone

LEMMA ErrorStep ==
  ASSUME IInv, NEW k \in Turns, ReadEvent(k), ~framed,
         Head(wire[k]) = "error", OnError(k)
  PROVE  IInv'
<1> USE DEF config
<1>1. wire'[k] = <<>> /\ TextsOn(wire[k]) = 0 /\ pc[k] = "drained"
  BY TerminalRead
<1>2. TypeOK'
  <2>1. bubble' \in [Turns -> 0 .. MaxTexts]
    BY ChatAssumption DEF IInv, TypeOK, OnError, SetBubble
  <2>2. told' \in [Turns -> {"none", "done", "error"}]
    BY DEF IInv, TypeOK, OnError
  <2> QED
    BY <2>1, <2>2, ReadFacts DEF IInv, TypeOK, ReadEvent, OnError
<1>3. \A j \in Turns \ {k} : told'[j] = told[j] /\ bubble'[j] = bubble[j]
  BY DEF OnError, SetBubble
<1>4. told'[k] = "error"
  BY DEF OnError, IInv, TypeOK
<1>5. WireInv(k)' /\ PageWaits(k)' /\ SessionInv(k)'
  BY <1>1, <1>4, ReadFacts DEF PageWaits, MayCallBack, SessionInv
<1>6. TextsInv(k)'
  <2>1. bubble'[k] \in {0, bubble[k]}
    BY DEF OnError, SetBubble, IInv, TypeOK
  <2>2. bubble[k] <= texts[k]
    BY <1>1, Typed DEF IInv, TurnInv, TextsInv
  <2>3. bubble'[k] + 0 <= texts[k]
    BY <2>1, <2>2, Typed
  <2> QED
    BY <1>1, <1>4, <2>3, EmptyWire, ReadFacts DEF TextsInv, ReadEvent
<1> QED
  BY <1>2, <1>3, <1>5, <1>6, <1>1, ReadFacts, CallStep DEF TurnInv, ReadEvent, OnError

LEMMA ReadEventStep ==
  ASSUME IInv, NEW k \in Turns, ReadEvent(k)
  PROVE  IInv'
<1>1. CASE framed
  BY <1>1, SkipStep
<1>2. CASE ~framed
  BY <1>2, ChunkStep, DoneStep, ErrorStep DEF ReadEvent, Callback
<1> QED
  BY <1>1, <1>2

-----------------------------------------------------------------------------
LEMMA NextInv == IInv /\ [Next]_vars => IInv'
<1> SUFFICES ASSUME IInv, [Next]_vars PROVE IInv'
  OBVIOUS
<1>1. CASE NewChat
  BY <1>1, NewChatStep
<1>2. ASSUME NEW k \in Turns, GatewayStep(k) PROVE IInv'
  <2>1. CASE Accept(k)
    BY <2>1, AcceptStep
  <2>2. CASE AgentText(k)
    BY <2>2, AgentTextStep
  <2>3. CASE LogTurn(k)
    BY <2>3, EndStreamStep DEF LogTurn, IInv, TypeOK
  <2>4. CASE AgentReturns(k)
    BY <2>4, EndStreamStep DEF AgentReturns, IInv, TypeOK
  <2>5. CASE AgentRaises(k)
    <3>1. raised' \in [Turns -> BOOLEAN]
      BY <2>5 DEF AgentRaises, IInv, TypeOK
    <3> QED
      BY <3>1, <2>5, EndStreamStep DEF AgentRaises
  <2> QED
    BY <1>2, <2>1, <2>2, <2>3, <2>4, <2>5 DEF GatewayStep
<1>3. ASSUME NEW k \in Turns, PageStep(k) PROVE IInv'
  BY <1>3, SendStep, RefuseStep, FetchFailsStep, ReadEventStep, ReadEndsStep DEF PageStep
<1>4. ASSUME NEW k \in Turns, ConnectionFails(k) PROVE IInv'
  BY <1>4, ConnectionFailsStep
<1>5. CASE UNCHANGED vars
  <2> USE <1>5 DEF vars, pageVars, streamVars, config
  <2>1. TypeOK'
    BY DEF IInv, TypeOK
  <2>2. SentInOrder'
    BY DEF IInv, SentInOrder, MayCallBack
  <2>3. ASSUME NEW k \in Turns PROVE TurnInv(k)'
    BY DEF IInv, TurnInv, WireInv, PageWaits, TextsInv, SessionInv, MayCallBack
  <2> QED
    BY <2>1, <2>2, <2>3 DEF IInv
<1> QED
  BY <1>1, <1>2, <1>3, <1>4, <1>5 DEF Next

(* The inductive invariant of the page and its streams.                    *)
THEOREM Invariance == Spec => []IInv
  BY InitInv, NextInv, PTL DEF Spec

(* At most one turn can still change the page (guard of handleSend).       *)
THEOREM OneTurnOpen == Spec => []OneOpenTurn
  BY Invariance, OneOpen, PTL

(* After onDone the bubble holds every text the gateway produced.          *)
THEOREM Answered == Spec => []AnsweredInFull
<1>1. IInv => AnsweredInFull
  BY DEF IInv, TypeOK, TurnInv, TextsInv, AnsweredInFull
<1> QED
  BY <1>1, Invariance, PTL

(* The next message goes on in the session of the answer before it.        *)
THEOREM Conversation == Spec => ConversationStays
<1>1. ASSUME IInv, [Next]_vars, NEW k \in Turns,
             pc[k] = "unsent", pc'[k] = "posted",
             k > 1, told[k - 1] = "done", ~renewed
      PROVE  asked'[k] = sid[k - 1]
  <2>1. Send(k)
    <3>1. ~NewChat /\ ~UNCHANGED vars
      BY <1>1 DEF NewChat, vars
    <3>2. \A j \in Turns : ~GatewayStep(j) /\ ~ConnectionFails(j)
      BY <1>1 DEF GatewayStep, Accept, AgentText, LogTurn, AgentReturns, AgentRaises,
                  ConnectionFails, EndStream, Move, IInv, TypeOK
    <3>3. \A j \in Turns : PageStep(j) => j = k /\ Send(j)
      BY <1>1 DEF PageStep, Send, PostTurn, Refuse, FetchFails, ReadEvent, ReadEnds,
                  Move, IInv, TypeOK
    <3> QED
      BY <1>1, <3>1, <3>2, <3>3 DEF Next
  <2>2. k - 1 \in Turns /\ \A j \in Turns : j > k - 1 => j = k \/ k < j
    BY <1>1, Typed, ChatAssumption DEF Turns
  <2>3. \A j \in Turns : j > k - 1 => pc[j] = "unsent"
    BY <1>1, <2>2 DEF IInv, SentInOrder
  <2>4. session = sid[k - 1]
    BY <1>1, <2>2, <2>3 DEF IInv, TurnInv, SessionInv
  <2> QED
    BY <1>1, <2>1, <2>4 DEF Send, PostTurn, IInv, TypeOK
<1>2. IInv /\ [Next]_vars =>
        [\A k \in Turns :
           /\ pc[k] = "unsent" /\ pc'[k] = "posted"
           /\ k > 1 /\ told[k - 1] = "done" /\ ~renewed
           => asked'[k] = sid[k - 1]]_vars
  BY <1>1
<1> QED
  BY <1>2, Invariance, PTL DEF Spec, ConversationStays
=============================================================================

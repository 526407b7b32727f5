---------------------------- MODULE MemoryProofs ----------------------------
(***************************************************************************)
(* TLAPS proofs about what is remembered and what is recalled of it: the   *)
(* memory bank, for any number of users, sessions, turns, fields and       *)
(* calls; the skills corpus, for any number of learners and skills; what a *)
(* prompt is given, for any corpora, hits, costs and budget.               *)
(***************************************************************************)
EXTENDS MemoryBank, SkillStore, Recall, ListingProofs

-----------------------------------------------------------------------------
(***************************************************************************)
(* MemoryBank                                                              *)
(***************************************************************************)
(* A call that was not made has done nothing.                              *)
UnusedCalls ==
  \A c \in Calls : phase[c] = "free" => op[c] = "none" /\ got[c] = {} /\ ~ok[c]

(* A memory is written by the one call that names it, before that returns, *)
(* for the user who made the call.                                         *)
Done(d) == op[d] \in Writers /\ phase[d] = "returned"

WritersAreDone ==
  /\ \A m \in store : Done(m.by) /\ user[m.by] = m.user
  /\ \A d \in gone : Done(d)
  /\ \A c \in Calls : \A d \in before[c] \cup got[c] : Done(d) /\ user[d] = user[c]

SucceededIsReturned == \A c \in Calls : ok[c] => phase[c] = "returned"

(* A pair names turns of its session that had ended when it was made.      *)
PairsAreOfThePast ==
  \A c \in Calls : op[c] = "generate" => about[c][1] \in 1 .. Len(events[session[c]])

(* A memory that is created names no turns.                                *)
CreatesAreDirect == \A c \in Calls : op[c] = "create" => about[c] = <<0, 0>>

BankInv ==
  /\ UnusedCalls /\ WritersAreDone /\ SucceededIsReturned
  /\ PurgedStaysGone /\ ClearedIsGone /\ NamedIsStored

PairInv == PairsAreOfThePast /\ CreatesAreDirect

(* A value of a profile was set by an update of that field of that user.   *)
ValuesAreUpdates ==
  \A u \in Users, f \in Fields : profile[u][f] # 0 =>
    LET c == profile[u][f]
    IN  op[c] = "profile" /\ phase[c] = "returned" /\ user[c] = u /\ field[c] = f

EarlierHaveReturned == \A c \in Calls : \A b \in earlier[c] : phase[b] = "returned"

ProfileInv == ValuesAreUpdates /\ EarlierHaveReturned /\ ProfileIsFresh

MemInv == TypeOK /\ BankInv /\ PairInv /\ ProfileInv

-----------------------------------------------------------------------------
(* The walk back over a session ends where it should.                      *)
LEMMA LastFinalIsLast ==
  ASSUME NEW turns \in Seq(BOOLEAN)
  PROVE  /\ LastFinal(turns) \in 0 .. Len(turns)
         /\ LastFinal(turns) # 0 => turns[LastFinal(turns)]
         /\ \A j \in LastFinal(turns) + 1 .. Len(turns) : ~turns[j]
<1> DEFINE n == Len(turns)
           IsLast(k) == /\ k # 0 => turns[k]
                        /\ \A j \in k + 1 .. n : ~turns[j]
           Quiet == {i \in Nat : i <= n /\ (i = n \/ turns[n - i])}
<1>1. n \in Nat /\ n \in Quiet
  OBVIOUS
<1>2. PICK i \in Quiet : \A j \in Quiet : i <= j
  BY <1>1, Least
<1>3. n - i \in 0 .. n /\ (n - i # 0 => turns[n - i])
  BY <1>1, <1>2
<1>4. ASSUME NEW j \in (n - i) + 1 .. n PROVE ~turns[j]
  <2>1. n - j \in Nat /\ n - j < i /\ n - j <= n /\ n - (n - j) = j
    BY <1>1, <1>2, <1>4
  <2>2. n - j \notin Quiet
    BY <1>2, <2>1
  <2> QED
    BY <2>1, <2>2
<1>5. \E k \in 0 .. n : IsLast(k)
  BY <1>3, <1>4
<1>6. LastFinal(turns) = CHOOSE k \in 0 .. n : IsLast(k)
  BY DEF LastFinal
<1>7. LastFinal(turns) \in 0 .. n /\ IsLast(LastFinal(turns))
  BY <1>5, <1>6, Zenon
<1> QED
  BY <1>7

LEMMA InitInv == Init => MemInv
<1> SUFFICES ASSUME Init PROVE MemInv
  OBVIOUS
<1>1. /\ (CHOOSE u \in Users : TRUE) \in Users
      /\ (CHOOSE s \in Sessions : TRUE) \in Sessions
      /\ (CHOOSE f \in Fields : TRUE) \in Fields
  BY MemoryAssumption
<1>2. TypeOK
  <2>1. events \in [Sessions -> Seq(BOOLEAN)] /\ \A s \in Sessions : Len(events[s]) <= MaxTurns
    BY MemoryAssumption DEF Init
  <2>2. about \in [Calls -> Nat \X Turns]
    BY MemoryAssumption DEF Init, Turns
  <2>3. profile \in [Users -> [Fields -> 0 .. MaxCalls]] /\ earlier \in [Calls -> SUBSET Calls]
    BY MemoryAssumption DEF Init
  <2>4. /\ op \in [Calls -> Ops] /\ user \in [Calls -> Users]
        /\ session \in [Calls -> Sessions] /\ field \in [Calls -> Fields]
        /\ phase \in [Calls -> {"free", "running", "counted", "returned"}]
        /\ ok \in [Calls -> BOOLEAN] /\ got \in [Calls -> SUBSET Calls]
        /\ store \subseteq Memory /\ gone \subseteq Calls
        /\ before \in [Calls -> SUBSET Calls]
    BY <1>1 DEF Init, Ops
  <2> QED
    BY <2>1, <2>2, <2>3, <2>4 DEF TypeOK
<1>3. BankInv
  BY DEF Init, BankInv, UnusedCalls, WritersAreDone, SucceededIsReturned, PurgedStaysGone,
         Stored, ClearedIsGone, NamedIsStored
<1>4. PairInv /\ ProfileInv
  BY DEF Init, PairInv, PairsAreOfThePast, CreatesAreDirect, ProfileInv, ValuesAreUpdates,
         EarlierHaveReturned, ProfileIsFresh
<1> QED
  BY <1>2, <1>3, <1>4 DEF MemInv

-----------------------------------------------------------------------------
(* A new call: it has a number of its own and no history.                  *)
LEMMA CallTypes ==
  ASSUME TypeOK, NEW c \in Calls, NEW operation \in Ops, NEW u \in Users,
         NEW subject \in Nat \X Turns, Call(c, operation, u, subject)
  PROVE  /\ op' \in [Calls -> Ops] /\ user' \in [Calls -> Users]
         /\ about' \in [Calls -> Nat \X Turns]
         /\ phase' \in [Calls -> {"free", "running", "counted", "returned"}]
         /\ before' \in [Calls -> SUBSET Calls]
BY DEF TypeOK, Call

LEMMA CallStep ==
  ASSUME TypeOK, BankInv, NEW c \in Calls, NEW operation \in Ops, NEW u \in Users,
         NEW subject, Call(c, operation, u, subject),
         UNCHANGED <<ok, got, bankVars>>
  PROVE  BankInv'
<1> USE DEF BankInv, TypeOK, bankVars
<1>1. /\ phase[c] = "free"
      /\ op' = [op EXCEPT ![c] = operation]
      /\ user' = [user EXCEPT ![c] = u]
      /\ phase' = [phase EXCEPT ![c] = "running"]
      /\ before' = [before EXCEPT ![c] =
           {d \in Calls : op[d] \in Writers /\ user[d] = u /\ phase[d] = "returned"}]
      /\ UNCHANGED <<ok, got, store, gone>>
  BY DEF Call
<1>2. \A d \in Calls : Done(d) => d # c /\ Done(d)' /\ user'[d] = user[d]
  BY <1>1 DEF Done
<1>3. \A m \in store : m.by \in Calls
  BY DEF Memory
<1>4. UnusedCalls'
  BY <1>1 DEF UnusedCalls
<1>5. WritersAreDone'
  <2>1. \A m \in store' : Done(m.by)' /\ user'[m.by] = m.user
    BY <1>1, <1>2, <1>3 DEF WritersAreDone
  <2>2. \A d \in gone' : Done(d)'
    BY <1>1, <1>2 DEF WritersAreDone
  <2>3. ASSUME NEW e \in Calls, NEW d \in before'[e] \cup got'[e]
        PROVE  Done(d)' /\ user'[d] = user'[e]
    <3>1. CASE e = c
      <4>1. got'[c] = {}
        BY <1>1 DEF UnusedCalls
      <4>2. d \in Calls /\ Done(d) /\ user[d] = u
        BY <1>1, <2>3, <3>1, <4>1 DEF Done
      <4> QED
        BY <1>1, <1>2, <3>1, <4>2
    <3>2. CASE e # c
      <4>1. d \in Calls /\ Done(d) /\ user[d] = user[e]
        BY <1>1, <2>3, <3>2 DEF WritersAreDone
      <4> QED
        BY <1>1, <1>2, <3>2, <4>1
    <3> QED
      BY <3>1, <3>2
  <2> QED
    BY <2>1, <2>2, <2>3 DEF WritersAreDone
<1>6. ~ok[c]
  BY <1>1 DEF UnusedCalls
<1>7. SucceededIsReturned'
  BY <1>1, <1>6 DEF SucceededIsReturned
<1>8. PurgedStaysGone'
  BY <1>1 DEF PurgedStaysGone, Stored
<1>9. ClearedIsGone'
  BY <1>1, <1>6 DEF ClearedIsGone, Stored
<1>10. NamedIsStored'
  BY <1>1, <1>6 DEF NamedIsStored
<1> QED
  BY <1>4, <1>5, <1>7, <1>8, <1>9, <1>10

(* A call that is not a generation leaves the pairs alone.                 *)
LEMMA CallPairs ==
  ASSUME TypeOK, PairInv, NEW c \in Calls, NEW operation \in Ops, operation # "generate",
         NEW u, NEW subject, operation = "create" => subject = <<0, 0>>,
         Call(c, operation, u, subject), UNCHANGED <<events, session>>
  PROVE  PairInv'
BY DEF TypeOK, PairInv, PairsAreOfThePast, CreatesAreDirect, Call

(* What sets no field of a profile leaves those set as they are.           *)
LEMMA ProfileStands ==
  ASSUME TypeOK, SucceededIsReturned, ProfileInv, profile' = profile,
         \A d \in Calls : phase[d] = "returned" =>
           op'[d] = op[d] /\ user'[d] = user[d] /\ field'[d] = field[d] /\ phase'[d] = phase[d],
         \A d \in Calls : ok'[d] /\ op'[d] = "profile" => ok[d] /\ earlier'[d] = earlier[d],
         \A d \in Calls : \A b \in earlier'[d] :
           b \in Calls /\ phase[b] = "returned"
  PROVE  ProfileInv'
<1>1. \A u \in Users, f \in Fields : profile[u][f] # 0 => profile[u][f] \in Calls
  BY MemoryAssumption DEF TypeOK, Calls
<1>2. ValuesAreUpdates'
  BY <1>1 DEF ProfileInv, ValuesAreUpdates
<1>3. EarlierHaveReturned'
  BY DEF EarlierHaveReturned
<1>4. ProfileIsFresh'
  <2> SUFFICES ASSUME NEW d \in Calls, op'[d] = "profile", ok'[d]
               PROVE  profile'[user'[d]][field'[d]] \notin earlier'[d] \cup {0}
    BY DEF ProfileIsFresh
  <2>1. ok[d] /\ phase[d] = "returned" /\ earlier'[d] = earlier[d]
    BY DEF SucceededIsReturned
  <2>2. op[d] = "profile" /\ user'[d] = user[d] /\ field'[d] = field[d]
    BY <2>1
  <2> QED
    BY <2>1, <2>2 DEF ProfileInv, ProfileIsFresh
<1> QED
  BY <1>2, <1>3, <1>4 DEF ProfileInv

(* A new call, by the fields it has.                                       *)
LEMMA ProfileAsked ==
  ASSUME TypeOK, BankInv, ProfileInv, NEW c \in Calls, NEW operation, NEW u, NEW subject,
         Call(c, operation, u, subject), UNCHANGED <<profile, ok>>,
         \A d \in Calls \ {c} : field'[d] = field[d] /\ earlier'[d] = earlier[d],
         \A b \in earlier'[c] : b \in Calls /\ phase[b] = "returned"
  PROVE  ProfileInv'
<1>1. phase[c] = "free" /\ ~ok[c]
  BY DEF Call, BankInv, UnusedCalls
<1>2. \A d \in Calls \ {c} : op'[d] = op[d] /\ user'[d] = user[d] /\ phase'[d] = phase[d]
  BY DEF Call, TypeOK
<1>3. \A d \in Calls : phase[d] = "returned" =>
        op'[d] = op[d] /\ user'[d] = user[d] /\ field'[d] = field[d] /\ phase'[d] = phase[d]
  BY <1>1, <1>2
<1>4. \A d \in Calls : ok'[d] /\ op'[d] = "profile" => ok[d] /\ earlier'[d] = earlier[d]
  BY <1>1
<1>5. \A d \in Calls : \A b \in earlier'[d] : b \in Calls /\ phase[b] = "returned"
  BY DEF TypeOK, ProfileInv, EarlierHaveReturned
<1> QED
  BY <1>3, <1>4, <1>5, ProfileStands DEF BankInv

LEMMA AgentTurnStep ==
  ASSUME MemInv, NEW s \in Sessions, NEW answered \in BOOLEAN, AgentTurn(s, answered)
  PROVE  MemInv'
<1> USE DEF MemInv
<1> DEFINE turns == events'[s]
<1>1. /\ Len(events[s]) < MaxTurns
      /\ events' = [events EXCEPT ![s] = Append(@, answered)]
      /\ UNCHANGED <<field, ok, got, bankVars, profileVars>>
  BY DEF AgentTurn
<1>2. /\ events[s] \in Seq(BOOLEAN) /\ turns = Append(events[s], answered)
      /\ turns \in Seq(BOOLEAN) /\ Len(turns) = Len(events[s]) + 1
      /\ \A k \in 1 .. Len(events[s]) : turns[k] = events[s][k]
  BY <1>1 DEF TypeOK
<1>3. \A r \in Sessions :
        /\ events'[r] \in Seq(BOOLEAN) /\ Len(events'[r]) <= MaxTurns
        /\ 1 .. Len(events[r]) \subseteq 1 .. Len(events'[r])
        /\ \A k \in 1 .. Len(events[r]) : events'[r][k] = events[r][k]
  <2> TAKE r \in Sessions
  <2>1. CASE r = s
    BY <1>1, <1>2, <2>1, MemoryAssumption
  <2>2. CASE r # s
    BY <1>1, <2>2 DEF TypeOK
  <2> QED
    BY <2>1, <2>2
<1>4. events' \in [Sessions -> Seq(BOOLEAN)]
  BY <1>1, <1>2 DEF TypeOK
<1>5. ASSUME NEW c \in Calls, op[c] = "generate"
      PROVE  about[c][1] \in 1 .. Len(events'[session[c]])
  BY <1>3, <1>5 DEF TypeOK, PairInv, PairsAreOfThePast
<1>7. CASE LastFinal(turns) = 0
  <2>1. UNCHANGED <<op, user, session, about, phase, before>>
    BY <1>7 DEF AgentTurn
  <2>2. TypeOK'
    BY <1>1, <1>3, <1>4, <2>1 DEF TypeOK, bankVars, profileVars
  <2>3. BankInv'
    BY <1>1, <2>1
       DEF bankVars, BankInv, UnusedCalls, WritersAreDone, Done, SucceededIsReturned,
           PurgedStaysGone, Stored, ClearedIsGone, NamedIsStored
  <2>4. PairInv'
    BY <1>5, <2>1 DEF PairInv, PairsAreOfThePast, CreatesAreDirect
  <2>5. ProfileInv'
    BY <1>1, <2>1
       DEF ProfileInv, ValuesAreUpdates, EarlierHaveReturned, ProfileIsFresh, profileVars
  <2> QED
    BY <2>2, <2>3, <2>4, <2>5
<1>8. CASE LastFinal(turns) # 0
  <2> DEFINE pair == <<Len(turns), LastFinal(turns)>>
  <2>1. PICK c \in Calls : /\ Call(c, "generate", Owner[s], pair)
                           /\ session' = [session EXCEPT ![c] = s]
    BY <1>8 DEF AgentTurn
  <2>2. /\ LastFinal(turns) \in 1 .. Len(turns) /\ turns[LastFinal(turns)]
        /\ \A j \in LastFinal(turns) + 1 .. Len(turns) : ~turns[j]
        /\ Len(turns) \in 1 .. MaxTurns
    <3>1. /\ LastFinal(turns) \in 0 .. Len(turns)
          /\ LastFinal(turns) # 0 => turns[LastFinal(turns)]
          /\ \A j \in LastFinal(turns) + 1 .. Len(turns) : ~turns[j]
      BY <1>2, LastFinalIsLast
    <3>2. Len(turns) \in 1 .. MaxTurns
      <4>1. Len(events[s]) \in Nat /\ Len(turns) = Len(events[s]) + 1
        BY <1>2
      <4> HIDE DEF turns
      <4> QED
        BY <1>1, <4>1, MemoryAssumption
    <3> HIDE DEF turns
    <3> QED
      BY <1>8, <3>1, <3>2
  <2>3. Owner[s] \in Users /\ "generate" \in Ops /\ pair \in Nat \X Turns
    BY <2>2, MemoryAssumption DEF Ops, Writers, Turns
  <2>4. TypeOK'
    <3>1. /\ op' \in [Calls -> Ops] /\ user' \in [Calls -> Users]
          /\ about' \in [Calls -> Nat \X Turns]
          /\ phase' \in [Calls -> {"free", "running", "counted", "returned"}]
          /\ before' \in [Calls -> SUBSET Calls]
      BY <2>1, <2>3, CallTypes
    <3>2. session' \in [Calls -> Sessions]
      BY <2>1 DEF TypeOK
    <3> QED
      BY <1>1, <1>3, <1>4, <3>1, <3>2 DEF TypeOK, bankVars, profileVars
  <2>5. BankInv'
    BY <1>1, <2>1, <2>3, CallStep
  <2>6. op' = [op EXCEPT ![c] = "generate"] /\ about' = [about EXCEPT ![c] = pair]
    BY <2>1 DEF Call
  <2>7. CreatesAreDirect'
    BY <2>6 DEF TypeOK, PairInv, CreatesAreDirect
  <2>8. PairInv'
    <3> SUFFICES ASSUME NEW d \in Calls, op'[d] = "generate"
                 PROVE  about'[d][1] \in 1 .. Len(events'[session'[d]])
      BY <2>7 DEF PairInv, PairsAreOfThePast
    <3>1. CASE d = c
      <4>1. about'[d] = pair /\ events'[session'[d]] = turns
        BY <2>1, <2>6, <3>1 DEF TypeOK
      <4> HIDE DEF turns
      <4> QED
        BY <2>2, <4>1
    <3>2. CASE d # c
      BY <1>5, <2>1, <2>6, <3>2 DEF TypeOK
    <3> QED
      BY <3>1, <3>2
  <2>9. ProfileInv'
    BY <1>1, <2>1, ProfileAsked
       DEF profileVars, TypeOK, ProfileInv, EarlierHaveReturned
  <2> QED
    BY <2>4, <2>5, <2>8, <2>9
<1> QED
  BY <1>7, <1>8

(* The other operations a user may ask for.                                *)
LEMMA OtherCallStep ==
  ASSUME MemInv, NEW c \in Calls, NEW operation \in Ops, operation # "generate",
         NEW u \in Users, NEW subject \in Nat \X Turns, Call(c, operation, u, subject),
         operation = "create" => subject = <<0, 0>>,
         field' \in [Calls -> Fields], earlier' \in [Calls -> SUBSET Calls],
         \A d \in Calls \ {c} : field'[d] = field[d] /\ earlier'[d] = earlier[d],
         \A b \in earlier'[c] : phase[b] = "returned",
         UNCHANGED <<events, session, ok, got, bankVars, profile>>
  PROVE  MemInv'
<1> USE DEF MemInv
<1>1. /\ op' \in [Calls -> Ops] /\ user' \in [Calls -> Users]
      /\ about' \in [Calls -> Nat \X Turns]
      /\ phase' \in [Calls -> {"free", "running", "counted", "returned"}]
      /\ before' \in [Calls -> SUBSET Calls]
  BY CallTypes
<1>2. TypeOK'
  BY <1>1 DEF TypeOK, bankVars
<1>3. BankInv'
  BY CallStep
<1>4. PairInv'
  BY CallPairs
<1>5. ProfileInv'
  BY ProfileAsked
<1> QED
  BY <1>2, <1>3, <1>4, <1>5

LEMMA AskedStep ==
  ASSUME MemInv,
         \/ \E u \in Users, operation \in {"create", "purge", "fetch"} : Request(u, operation)
         \/ \E u \in Users, operation \in {"delete", "update"} : Change(u, operation)
         \/ \E u \in Users, f \in Fields : UpdateProfile(u, f)
  PROVE  MemInv'
<1>1. 0 \in Turns /\ Calls \subseteq Nat
  BY MemoryAssumption DEF Turns, Calls
<1>2. ASSUME NEW u \in Users, NEW operation \in {"create", "purge", "fetch"},
             Request(u, operation)
      PROVE  MemInv'
  <2>1. PICK c \in Calls : Call(c, operation, u, <<0, 0>>)
    BY <1>2 DEF Request
  <2>2. operation \in Ops /\ operation # "generate" /\ <<0, 0>> \in Nat \X Turns
    BY <1>1 DEF Ops, Writers
  <2>3. /\ field' = field /\ earlier' = earlier /\ profile' = profile
        /\ field \in [Calls -> Fields] /\ earlier \in [Calls -> SUBSET Calls]
        /\ \A b \in earlier[c] : phase[b] = "returned"
    BY <1>2 DEF Request, profileVars, MemInv, TypeOK, ProfileInv, EarlierHaveReturned
  <2> QED
    BY <1>2, <2>1, <2>2, <2>3, OtherCallStep DEF Request
<1>3. ASSUME NEW u \in Users, NEW operation \in {"delete", "update"}, Change(u, operation)
      PROVE  MemInv'
  <2>1. PICK c \in Calls, d \in Calls : Call(c, operation, u, <<d, 0>>)
    BY <1>3 DEF Change
  <2>2. operation \in Ops /\ operation # "generate" /\ <<d, 0>> \in Nat \X Turns
    BY <1>1 DEF Ops, Writers
  <2>3. /\ field' = field /\ earlier' = earlier /\ profile' = profile
        /\ field \in [Calls -> Fields] /\ earlier \in [Calls -> SUBSET Calls]
        /\ \A b \in earlier[c] : phase[b] = "returned"
    BY <1>3 DEF Change, profileVars, MemInv, TypeOK, ProfileInv, EarlierHaveReturned
  <2> QED
    BY <1>3, <2>1, <2>2, <2>3, OtherCallStep DEF Change
<1>4. ASSUME NEW u \in Users, NEW f \in Fields, UpdateProfile(u, f)
      PROVE  MemInv'
  <2>1. PICK c \in Calls :
          /\ Call(c, "profile", u, <<0, 0>>)
          /\ field' = [field EXCEPT ![c] = f]
          /\ earlier' = [earlier EXCEPT ![c] =
               {d \in Calls : op[d] = "profile" /\ user[d] = u /\ phase[d] = "returned"}]
    BY <1>4 DEF UpdateProfile
  <2>2. "profile" \in Ops /\ <<0, 0>> \in Nat \X Turns
    BY <1>1 DEF Ops, Writers
  <2>3. /\ field' \in [Calls -> Fields] /\ earlier' \in [Calls -> SUBSET Calls]
        /\ \A d \in Calls \ {c} : field'[d] = field[d] /\ earlier'[d] = earlier[d]
        /\ \A b \in earlier'[c] : phase[b] = "returned"
    BY <2>1 DEF MemInv, TypeOK
  <2> QED
    BY <1>4, <2>1, <2>2, <2>3, OtherCallStep DEF UpdateProfile
<1> QED
  BY <1>2, <1>3, <1>4

-----------------------------------------------------------------------------
(* A call under way: what it does to the bank, and its return.             *)
Returns(c) ==
  /\ phase[c] \in {"running", "counted"}
  /\ \E normally \in BOOLEAN : Return(c, normally)
  /\ UNCHANGED <<events, callVars>>

(* Nobody has heard of a call under way yet.                               *)
LEMMA UnderWay ==
  ASSUME MemInv, NEW c \in Calls, phase[c] \in {"running", "counted"}
  PROVE  /\ ~ok[c] /\ ~Done(c) /\ c \notin gone /\ c \notin Stored
         /\ \A d \in Calls : c \notin before[d] /\ c \notin got[d]
BY DEF MemInv, BankInv, SucceededIsReturned, WritersAreDone, Done, Stored

(* What does not look at the bank.                                         *)
LEMMA ReturnsStep ==
  ASSUME MemInv, NEW c \in Calls, Returns(c)
  PROVE  /\ op' = op /\ user' = user /\ before' = before /\ field' = field
         /\ phase' \in [Calls -> {"free", "running", "counted", "returned"}]
         /\ ok' \in [Calls -> BOOLEAN]
         /\ \A d \in Calls : Done(d) => Done(d)'
         /\ op[c] \in Writers => Done(c)'
         /\ \A d \in Calls \ {c} : phase'[d] = phase[d] /\ ok'[d] = ok[d]
         /\ phase'[c] = "returned" /\ SucceededIsReturned' /\ PairInv'
<1> USE DEF MemInv, TypeOK
<1>1. /\ phase' = [phase EXCEPT ![c] = "returned"]
      /\ UNCHANGED <<events, op, user, session, about, field, before>>
  BY DEF Returns, Return, callVars
<1>2. PICK normally \in BOOLEAN : ok' = [ok EXCEPT ![c] = normally]
  BY DEF Returns, Return
<1>3. PairInv'
  BY <1>1 DEF PairInv, PairsAreOfThePast, CreatesAreDirect
<1>4. SucceededIsReturned'
  BY <1>1, <1>2 DEF BankInv, SucceededIsReturned
<1> QED
  BY <1>1, <1>2, <1>3, <1>4 DEF Done

LEMMA ProfileUntouched ==
  ASSUME MemInv, NEW c \in Calls, Returns(c), UNCHANGED profileVars,
         op[c] = "profile" => ~ok'[c]
  PROVE  ProfileInv'
<1>1. /\ op' = op /\ user' = user /\ field' = field
      /\ \A d \in Calls \ {c} : phase'[d] = phase[d] /\ ok'[d] = ok[d]
      /\ phase[c] # "returned"
  BY ReturnsStep DEF Returns
<1>2. \A d \in Calls : \A b \in earlier[d] : b \in Calls /\ phase[b] = "returned"
  BY DEF MemInv, TypeOK, ProfileInv, EarlierHaveReturned
<1> QED
  BY <1>1, <1>2, ProfileStands DEF MemInv, BankInv, profileVars

(* The effect of each kind of call, for what is stored and what is gone.   *)
LEMMA WriteStep ==
  ASSUME MemInv, NEW c \in Calls, Returns(c), Write(c)
  PROVE  MemInv'
<1> USE DEF MemInv, TypeOK
<1>1. /\ op[c] \in Writers /\ store' = store \cup {Written(c)}
      /\ UNCHANGED <<gone, got, profile, earlier>>
  BY DEF Write, profileVars
<1>2. /\ op' = op /\ user' = user /\ before' = before
      /\ \A d \in Calls : Done(d) => Done(d)'
      /\ Done(c)'
      /\ \A d \in Calls \ {c} : phase'[d] = phase[d] /\ ok'[d] = ok[d]
      /\ phase'[c] = "returned" /\ SucceededIsReturned' /\ PairInv'
  BY <1>1, ReturnsStep
<1>3. /\ c \notin gone /\ \A d \in Calls : c \notin before[d]
  BY UnderWay DEF Returns
<1>4. /\ Written(c).by = c /\ Written(c).user = user[c]
  BY DEF Written
<1>5. Stored' = Stored \cup {c}
  BY <1>1, <1>4 DEF Stored
<1>6. UnusedCalls'
  BY <1>1, <1>2 DEF BankInv, UnusedCalls
<1>7. WritersAreDone'
  <2>1. \A m \in store' : Done(m.by)' /\ user'[m.by] = m.user
    <3>1. \A m \in store : m.by \in Calls /\ Done(m.by) /\ user[m.by] = m.user
      BY DEF Memory, BankInv, WritersAreDone
    <3> QED
      BY <1>1, <1>2, <1>4, <3>1
  <2>2. \A d \in gone' : Done(d)'
    BY <1>1, <1>2 DEF BankInv, WritersAreDone
  <2>3. \A e \in Calls : \A d \in before'[e] \cup got'[e] : Done(d)' /\ user'[d] = user'[e]
    BY <1>1, <1>2 DEF BankInv, WritersAreDone
  <2> QED
    BY <2>1, <2>2, <2>3 DEF WritersAreDone
<1>8. PurgedStaysGone'
  BY <1>1, <1>3, <1>5 DEF BankInv, PurgedStaysGone
<1>9. ClearedIsGone'
  <2>1. op[c] # "purge"
    BY <1>1 DEF Writers
  <2> QED
    BY <1>2, <1>3, <1>5, <2>1 DEF BankInv, ClearedIsGone
<1>10. NamedIsStored'
  <2> SUFFICES ASSUME NEW d \in Calls, op'[d] = "create", ok'[d]
               PROVE  d \in gone' \/ \E m \in store' : m.by = d /\ m.user = user'[d]
    BY DEF NamedIsStored
  <2>1. CASE d = c
    BY <1>1, <1>2, <1>4, <2>1
  <2>2. CASE d # c
    BY <1>1, <1>2, <2>2 DEF BankInv, NamedIsStored
  <2> QED
    BY <2>1, <2>2
<1>11. TypeOK'
  <2>1. Written(c) \in Memory
    <3>1. about[c] \in Nat \X Turns
      OBVIOUS
    <3>2. about[c][1] \in Turns
      <4>1. CASE op[c] = "generate"
        BY <4>1, MemoryAssumption DEF PairInv, PairsAreOfThePast, Turns
      <4>2. CASE op[c] = "create"
        BY <4>2, MemoryAssumption DEF PairInv, CreatesAreDirect, Turns
      <4> QED
        BY <1>1, <4>1, <4>2 DEF Writers
    <3> QED
      BY <3>1, <3>2 DEF Written, Memory
  <2> QED
    BY <1>1, <2>1, ReturnsStep DEF Returns, callVars
<1>12. ProfileInv'
  BY <1>1, ProfileUntouched DEF Writers, profileVars
<1> QED
  BY <1>2, <1>6, <1>7, <1>8, <1>9, <1>10, <1>11, <1>12 DEF BankInv

LEMMA PurgeStep ==
  ASSUME MemInv, NEW c \in Calls, Returns(c), Purge(c)
  PROVE  MemInv'
<1> USE DEF MemInv, TypeOK
<1> DEFINE own == Own(user[c])
<1>1. /\ op[c] = "purge" /\ store' = store \ own
      /\ gone' = gone \cup {m.by : m \in own}
      /\ UNCHANGED <<got, profile, earlier>>
  BY DEF Purge, profileVars
<1>2. /\ op' = op /\ user' = user /\ before' = before
      /\ \A d \in Calls : Done(d) => Done(d)'
      /\ \A d \in Calls \ {c} : phase'[d] = phase[d] /\ ok'[d] = ok[d]
      /\ phase'[c] = "returned" /\ SucceededIsReturned' /\ PairInv'
  BY ReturnsStep
<1>3. \A m \in store : m.by \in Calls /\ Done(m.by) /\ user[m.by] = m.user
  BY DEF Memory, BankInv, WritersAreDone
<1>4. /\ \A m \in own : m \in store /\ m.user = user[c]
      /\ \A m \in store : m.user = user[c] => m \in own
  BY DEF Own
<1> HIDE DEF own
<1>5. Stored' \subseteq Stored
  BY <1>1 DEF Stored
<1>6. \A d \in Stored' : d \in Calls /\ user[d] # user[c]
  BY <1>1, <1>3, <1>4 DEF Stored
<1>7. UnusedCalls'
  BY <1>1, <1>2 DEF BankInv, UnusedCalls
<1>8. WritersAreDone'
  <2>1. \A m \in store' : Done(m.by)' /\ user'[m.by] = m.user
    BY <1>1, <1>2, <1>3
  <2>2. \A d \in gone' : Done(d)'
    BY <1>1, <1>2, <1>3, <1>4 DEF BankInv, WritersAreDone
  <2>3. \A e \in Calls : \A d \in before'[e] \cup got'[e] : Done(d)' /\ user'[d] = user'[e]
    BY <1>1, <1>2 DEF BankInv, WritersAreDone
  <2> QED
    BY <2>1, <2>2, <2>3 DEF WritersAreDone
<1>9. PurgedStaysGone'
  <2>1. ASSUME NEW d \in {m.by : m \in own} PROVE user[d] = user[c]
    <3>1. PICK m \in own : d = m.by
      OBVIOUS
    <3>2. m \in store /\ m.user = user[c]
      BY <1>4
    <3> QED
      BY <1>3, <3>1, <3>2
  <2>2. gone' \cap Stored' = {}
    BY <1>1, <1>5, <1>6, <2>1 DEF BankInv, PurgedStaysGone
  <2> QED
    BY <2>2 DEF PurgedStaysGone
<1>10. ClearedIsGone'
  <2> SUFFICES ASSUME NEW d \in Calls, op'[d] = "purge", ok'[d]
               PROVE  before'[d] \cap Stored' = {}
    BY DEF ClearedIsGone
  <2>1. CASE d = c
    BY <1>2, <1>6, <2>1 DEF BankInv, WritersAreDone
  <2>2. CASE d # c
    BY <1>2, <1>5, <2>2 DEF BankInv, ClearedIsGone
  <2> QED
    BY <2>1, <2>2
<1>11. NamedIsStored'
  <2> SUFFICES ASSUME NEW d \in Calls, op'[d] = "create", ok'[d]
               PROVE  d \in gone' \/ \E m \in store' : m.by = d /\ m.user = user'[d]
    BY DEF NamedIsStored
  <2>1. d # c /\ ok[d] /\ op[d] = "create"
    BY <1>1, <1>2
  <2>2. CASE d \in gone
    BY <1>1, <2>2
  <2>3. CASE d \notin gone
    <3>1. PICK m \in store : m.by = d /\ m.user = user[d]
      BY <2>1, <2>3 DEF BankInv, NamedIsStored
    <3> QED
      BY <1>1, <1>2, <3>1
  <2> QED
    BY <2>2, <2>3
<1>12. TypeOK'
  <2>1. gone' \subseteq Calls /\ store' \subseteq Memory
    BY <1>1, <1>3, <1>4
  <2> QED
    BY <1>1, <2>1, ReturnsStep DEF Returns, callVars
<1>13. ProfileInv'
  BY <1>1, ProfileUntouched DEF profileVars
<1> QED
  BY <1>2, <1>7, <1>8, <1>9, <1>10, <1>11, <1>12, <1>13 DEF BankInv

LEMMA DeleteStep ==
  ASSUME MemInv, NEW c \in Calls, Returns(c), Delete(c)
  PROVE  MemInv'
<1> USE DEF MemInv, TypeOK
<1> DEFINE e == about[c][1]
<1>1. /\ op[c] = "delete" /\ e \in Stored
      /\ store' = {m \in store : m.by # e}
      /\ gone' = gone \cup {e}
      /\ UNCHANGED <<got, profile, earlier>>
  BY DEF Delete, profileVars
<1>2. /\ op' = op /\ user' = user /\ before' = before
      /\ \A d \in Calls : Done(d) => Done(d)'
      /\ \A d \in Calls \ {c} : phase'[d] = phase[d] /\ ok'[d] = ok[d]
      /\ phase'[c] = "returned" /\ SucceededIsReturned' /\ PairInv'
  BY ReturnsStep
<1>3. \A m \in store : m.by \in Calls /\ Done(m.by) /\ user[m.by] = m.user
  BY DEF Memory, BankInv, WritersAreDone
<1>4. e \in Calls /\ Done(e)
  BY <1>1, <1>3 DEF Stored
<1> HIDE DEF e
<1>5. Stored' \subseteq Stored /\ e \notin Stored'
  BY <1>1 DEF Stored
<1>6. UnusedCalls'
  BY <1>1, <1>2 DEF BankInv, UnusedCalls
<1>7. WritersAreDone'
  <2>1. \A m \in store' : Done(m.by)' /\ user'[m.by] = m.user
    BY <1>1, <1>2, <1>3
  <2>2. \A d \in gone' : Done(d)'
    BY <1>1, <1>2, <1>4 DEF BankInv, WritersAreDone
  <2>3. \A a \in Calls : \A d \in before'[a] \cup got'[a] : Done(d)' /\ user'[d] = user'[a]
    BY <1>1, <1>2 DEF BankInv, WritersAreDone
  <2> QED
    BY <2>1, <2>2, <2>3 DEF WritersAreDone
<1>8. PurgedStaysGone'
  BY <1>1, <1>5 DEF BankInv, PurgedStaysGone
<1>9. ClearedIsGone'
  BY <1>1, <1>2, <1>5 DEF BankInv, ClearedIsGone
<1>10. NamedIsStored'
  <2> SUFFICES ASSUME NEW d \in Calls, op'[d] = "create", ok'[d]
               PROVE  d \in gone' \/ \E m \in store' : m.by = d /\ m.user = user'[d]
    BY DEF NamedIsStored
  <2>1. d # c /\ ok[d] /\ op[d] = "create"
    BY <1>1, <1>2
  <2>2. CASE d \in gone \/ d = e
    BY <1>1, <2>2
  <2>3. CASE d \notin gone /\ d # e
    <3>1. PICK m \in store : m.by = d /\ m.user = user[d]
      BY <2>1, <2>3 DEF BankInv, NamedIsStored
    <3> QED
      BY <1>1, <1>2, <2>3, <3>1
  <2> QED
    BY <2>2, <2>3
<1>11. TypeOK'
  <2>1. gone' \subseteq Calls /\ store' \subseteq Memory
    BY <1>1, <1>4
  <2> QED
    BY <1>1, <2>1, ReturnsStep DEF Returns, callVars
<1>12. ProfileInv'
  BY <1>1, ProfileUntouched DEF profileVars
<1> QED
  BY <1>2, <1>6, <1>7, <1>8, <1>9, <1>10, <1>11, <1>12 DEF BankInv

(* A call that only reads, or changes what is not kept here, or fails.     *)
LEMMA QuietStep ==
  ASSUME MemInv, NEW c \in Calls, Returns(c), UNCHANGED bankVars,
         got' \in [Calls -> SUBSET Calls],
         \A d \in Calls \ {c} : got'[d] = got[d],
         \A d \in got'[c] : Done(d) /\ user[d] = user[c],
         op[c] \in {"create", "purge"} => ~ok'[c],
         profile' \in [Users -> [Fields -> 0 .. MaxCalls]], earlier' = earlier, ProfileInv'
  PROVE  MemInv'
<1> USE DEF MemInv, TypeOK
<1>1. UNCHANGED <<store, gone>>
  BY DEF bankVars
<1>2. /\ op' = op /\ user' = user /\ before' = before
      /\ \A d \in Calls : Done(d) => Done(d)'
      /\ \A d \in Calls \ {c} : phase'[d] = phase[d] /\ ok'[d] = ok[d]
      /\ phase'[c] = "returned" /\ SucceededIsReturned' /\ PairInv'
  BY ReturnsStep
<1>3. UnusedCalls'
  BY <1>2 DEF BankInv, UnusedCalls
<1>4. WritersAreDone'
  <2>1. \A m \in store' : Done(m.by)' /\ user'[m.by] = m.user
    BY <1>1, <1>2 DEF Memory, BankInv, WritersAreDone
  <2>2. \A d \in gone' : Done(d)'
    BY <1>1, <1>2 DEF BankInv, WritersAreDone
  <2>3. \A a \in Calls : \A d \in before'[a] \cup got'[a] : Done(d)' /\ user'[d] = user'[a]
    BY <1>2 DEF BankInv, WritersAreDone
  <2> QED
    BY <2>1, <2>2, <2>3 DEF WritersAreDone
<1>5. PurgedStaysGone' /\ ClearedIsGone'
  BY <1>1, <1>2 DEF BankInv, PurgedStaysGone, ClearedIsGone, Stored
<1>6. NamedIsStored'
  BY <1>1, <1>2 DEF BankInv, NamedIsStored
<1>7. TypeOK'
  BY <1>1, ReturnsStep DEF Returns, callVars
<1> QED
  BY <1>2, <1>3, <1>4, <1>5, <1>6, <1>7 DEF BankInv

(* An update takes effect: nobody asked for one after it had returned.     *)
LEMMA FieldSet ==
  ASSUME MemInv, NEW c \in Calls, Returns(c), op[c] = "profile", earlier' = earlier,
         profile' = [profile EXCEPT ![user[c]][field[c]] = c]
  PROVE  ProfileInv'
<1>1. /\ op' = op /\ user' = user /\ field' = field
      /\ \A d \in Calls \ {c} : phase'[d] = phase[d] /\ ok'[d] = ok[d]
      /\ phase[c] # "returned" /\ phase'[c] = "returned"
  BY ReturnsStep DEF Returns
<1>2. c # 0 /\ user[c] \in Users /\ field[c] \in Fields
  BY DEF Calls, MemInv, TypeOK
<1>3. \A d \in Calls : c \notin earlier[d]
  BY <1>1 DEF MemInv, ProfileInv, EarlierHaveReturned
<1>4. ASSUME NEW u \in Users, NEW f \in Fields
      PROVE  profile'[u][f] = IF u = user[c] /\ f = field[c] THEN c ELSE profile[u][f]
  BY <1>2 DEF MemInv, TypeOK
<1>5. ValuesAreUpdates'
  <2> SUFFICES ASSUME NEW u \in Users, NEW f \in Fields, profile'[u][f] # 0
               PROVE  LET v == profile'[u][f]
                      IN  op'[v] = "profile" /\ phase'[v] = "returned"
                          /\ user'[v] = u /\ field'[v] = f
    BY DEF ValuesAreUpdates
  <2>1. CASE u = user[c] /\ f = field[c]
    BY <1>1, <1>4, <2>1
  <2>2. CASE ~(u = user[c] /\ f = field[c])
    <3> DEFINE v == profile[u][f]
    <3>1. profile'[u][f] = v
      BY <1>4, <2>2
    <3>2. v \in 0 .. MaxCalls /\ v # 0
      BY <3>1, <2>2 DEF MemInv, TypeOK
    <3>3. op[v] = "profile" /\ phase[v] = "returned" /\ user[v] = u /\ field[v] = f
      BY <3>2 DEF MemInv, ProfileInv, ValuesAreUpdates
    <3> HIDE DEF v
    <3>4. v \in Calls
      BY <3>2, MemoryAssumption DEF Calls
    <3> QED
      BY <1>1, <3>1, <3>3, <3>4
  <2> QED
    BY <2>1, <2>2
<1>6. EarlierHaveReturned'
  <2>1. \A b \in Calls : phase[b] = "returned" => phase'[b] = "returned"
    BY <1>1
  <2> QED
    BY <2>1 DEF MemInv, TypeOK, ProfileInv, EarlierHaveReturned
<1>7. ProfileIsFresh'
  <2> SUFFICES ASSUME NEW d \in Calls, op'[d] = "profile", ok'[d]
               PROVE  profile'[user[d]][field[d]] \notin earlier[d] \cup {0}
    BY <1>1 DEF ProfileIsFresh
  <2>1. user[d] \in Users /\ field[d] \in Fields
    BY DEF MemInv, TypeOK
  <2>2. CASE user[d] = user[c] /\ field[d] = field[c]
    BY <1>2, <1>3, <1>4, <2>1, <2>2
  <2>3. CASE ~(user[d] = user[c] /\ field[d] = field[c])
    <3>1. d # c /\ ok[d] /\ op[d] = "profile"
      BY <1>1, <2>3
    <3> QED
      BY <1>4, <2>1, <2>3, <3>1 DEF MemInv, ProfileInv, ProfileIsFresh
  <2> QED
    BY <2>2, <2>3
<1> QED
  BY <1>5, <1>6, <1>7 DEF ProfileInv

LEMMA LandsStep ==
  ASSUME MemInv, NEW c \in Calls, Lands(c)
  PROVE  MemInv'
<1>1. Returns(c) /\ Effect(c)
  BY DEF Lands, Returns
<1>2. MemInv => got \in [Calls -> SUBSET Calls]
                /\ profile \in [Users -> [Fields -> 0 .. MaxCalls]]
                /\ \A d \in got[c] : Done(d) /\ user[d] = user[c]
  BY DEF MemInv, TypeOK, BankInv, WritersAreDone
<1>3. CASE Fetch(c)
  <2>1. PICK found \in SUBSET Own(user[c]) : got' = [got EXCEPT ![c] = {m.by : m \in found}]
    BY <1>3 DEF Fetch
  <2>2. \A m \in found : m.by \in Calls /\ Done(m.by) /\ user[m.by] = user[c]
    BY <2>1 DEF Own, MemInv, TypeOK, Memory, BankInv, WritersAreDone
  <2>3. \A d \in got'[c] : d \in Calls /\ Done(d) /\ user[d] = user[c]
    BY <1>2, <2>1, <2>2
  <2>4. got' \in [Calls -> SUBSET Calls] /\ \A d \in Calls \ {c} : got'[d] = got[d]
    BY <1>2, <2>1, <2>2
  <2>5. ProfileInv'
    BY <1>1, <1>3, ProfileUntouched DEF Fetch
  <2> QED
    BY <1>1, <1>2, <1>3, <2>3, <2>4, <2>5, QuietStep DEF Fetch, profileVars
<1>4. CASE Update(c)
  <2>1. ProfileInv'
    BY <1>1, <1>4, ProfileUntouched DEF Update
  <2> QED
    BY <1>1, <1>2, <1>4, <2>1, QuietStep DEF Update, profileVars
<1>5. CASE SetFields(c)
  <2>1. /\ op[c] = "profile" /\ UNCHANGED <<bankVars, got>>
        /\ profile' = [profile EXCEPT ![user[c]][field[c]] = c]
        /\ earlier' = earlier
    BY <1>5 DEF SetFields
  <2>2. c \in 0 .. MaxCalls /\ user[c] \in Users /\ field[c] \in Fields
    BY MemoryAssumption DEF Calls, MemInv, TypeOK
  <2>3. profile' \in [Users -> [Fields -> 0 .. MaxCalls]]
    BY <1>2, <2>1, <2>2
  <2>4. ProfileInv'
    BY <1>1, <2>1, FieldSet
  <2> QED
    BY <1>1, <1>2, <2>1, <2>3, <2>4, QuietStep
<1> QED
  BY <1>1, <1>3, <1>4, <1>5, WriteStep, PurgeStep, DeleteStep DEF Effect

LEMMA FailsStep ==
  ASSUME MemInv, NEW c \in Calls, Fails(c)
  PROVE  MemInv'
<1>1. Returns(c) /\ ok' = [ok EXCEPT ![c] = FALSE]
  BY DEF Fails, Return, Returns
<1>2. ~ok'[c]
  BY <1>1 DEF MemInv, TypeOK
<1>3. UNCHANGED <<got, bankVars, profileVars>>
  BY DEF Fails
<1>4. ProfileInv'
  BY <1>1, <1>2, <1>3, ProfileUntouched
<1> QED
  BY <1>1, <1>2, <1>3, <1>4, QuietStep
     DEF profileVars, MemInv, TypeOK, BankInv, WritersAreDone

LEMMA CountFirstStep ==
  ASSUME MemInv, NEW c \in Calls, CountFirst(c)
  PROVE  MemInv'
<1> USE DEF MemInv, TypeOK
<1>1. /\ op[c] = "purge" /\ phase[c] = "running"
      /\ phase' = [phase EXCEPT ![c] = "counted"]
      /\ got' = [got EXCEPT ![c] = {m.by : m \in Own(user[c])}]
      /\ UNCHANGED <<events, op, user, session, about, field, before, ok, store, gone,
                     profile, earlier>>
  BY DEF CountFirst, callVars, bankVars, profileVars
<1>2. \A m \in Own(user[c]) : m.by \in Calls /\ Done(m.by) /\ user[m.by] = user[c]
  BY DEF Own, Memory, BankInv, WritersAreDone
<1>3. \A d \in Calls : Done(d) => Done(d)'
  BY <1>1 DEF Done
<1>4. TypeOK'
  BY <1>1, <1>2
<1>5. UnusedCalls'
  BY <1>1 DEF BankInv, UnusedCalls
<1>6. WritersAreDone'
  <2>1. \A m \in store' : Done(m.by)' /\ user'[m.by] = m.user
    BY <1>1, <1>3 DEF Memory, BankInv, WritersAreDone
  <2>2. \A d \in gone' : Done(d)'
    BY <1>1, <1>3 DEF BankInv, WritersAreDone
  <2>3. ASSUME NEW a \in Calls, NEW d \in before'[a] \cup got'[a]
        PROVE  Done(d)' /\ user'[d] = user'[a]
    <3>1. CASE d \in before[a] \cup got[a]
      BY <1>1, <1>3, <3>1 DEF BankInv, WritersAreDone
    <3>2. CASE a = c /\ d \in got'[c]
      <4>1. PICK m \in Own(user[c]) : d = m.by
        BY <1>1, <3>2
      <4> QED
        BY <1>1, <1>2, <1>3, <3>2, <4>1
    <3> QED
      BY <1>1, <2>3, <3>1, <3>2
  <2> QED
    BY <2>1, <2>2, <2>3 DEF WritersAreDone
<1>7. /\ SucceededIsReturned' /\ PurgedStaysGone' /\ ClearedIsGone' /\ NamedIsStored'
  BY <1>1 DEF BankInv, SucceededIsReturned, PurgedStaysGone, ClearedIsGone, NamedIsStored,
              Stored
<1>8. PairInv'
  BY <1>1 DEF PairInv, PairsAreOfThePast, CreatesAreDirect
<1>9. ProfileInv'
  <2>1. \A d \in Calls : phase[d] = "returned" => phase'[d] = phase[d]
    BY <1>1
  <2>2. \A d \in Calls : \A b \in earlier[d] : b \in Calls /\ phase[b] = "returned"
    BY DEF ProfileInv, EarlierHaveReturned
  <2> QED
    BY <1>1, <2>1, <2>2, ProfileStands DEF BankInv
<1> QED
  BY <1>4, <1>5, <1>6, <1>7, <1>8, <1>9 DEF BankInv

-----------------------------------------------------------------------------
LEMMA NextStep == MemInv /\ [Next]_vars => MemInv'
<1> SUFFICES ASSUME MemInv, [Next]_vars PROVE MemInv'
  OBVIOUS
<1>1. CASE UNCHANGED vars
  BY <1>1
     DEF vars, callVars, bankVars, profileVars, MemInv, TypeOK, BankInv, UnusedCalls,
         WritersAreDone, Done, SucceededIsReturned, PurgedStaysGone, ClearedIsGone, Stored,
         NamedIsStored, PairInv, PairsAreOfThePast, CreatesAreDirect, ProfileInv,
         ValuesAreUpdates, EarlierHaveReturned, ProfileIsFresh
<1>2. CASE Next
  BY <1>2, AgentTurnStep, AskedStep, CountFirstStep, LandsStep, FailsStep DEF Next
<1> QED
  BY <1>1, <1>2

(* The invariant of the bank and of the profile store, for any number of   *)
(* users and of overlapping calls.                                         *)
THEOREM BankInvariant == Spec => []MemInv
<1> QED
  BY InitInv, NextStep, PTL DEF Spec

(* The state of the calls and of the bank stays within its types.          *)
THEOREM BankTypes == Spec => []TypeOK
<1>1. MemInv => TypeOK
  BY DEF MemInv
<1> QED
  BY <1>1, BankInvariant, PTL

(* purge_memories and delete_memory: what is gone stays gone, whatever was *)
(* in flight, and a purge that went through left nothing written before.   *)
THEOREM ForgottenForGood == Spec => []ClearedStaysGone
<1>1. MemInv => ClearedStaysGone
  BY DEF MemInv, BankInv, ClearedStaysGone
<1> QED
  BY <1>1, BankInvariant, PTL

(* create_memory and fetch_memories: a name that was handed out is that of *)
(* the caller's memory, and what is read was written for the reader.       *)
THEOREM CallersAreToldTheTruth == Spec => []ToldIsTrue
<1>1. MemInv => ToldIsTrue
  BY DEF MemInv, BankInv, ToldIsTrue, NamedIsStored, FetchShowsOwn, WritersAreDone, Done
<1> QED
  BY <1>1, BankInvariant, PTL

(* update_profile: a field whose update returned holds that update or one  *)
(* that was not over before it was asked for, whatever else is updated.    *)
THEOREM FreshProfiles == Spec => []ProfileIsFresh
<1>1. MemInv => ProfileIsFresh
  BY DEF MemInv, ProfileInv
<1> QED
  BY <1>1, BankInvariant, PTL

-----------------------------------------------------------------------------
(***************************************************************************)
(* SkillStore                                                              *)
(***************************************************************************)
LEMMA SkillsStart == SkillInit => SkillInv
  BY DEF SkillInit, SkillInv, SkillTypeOK, PC, File, LearnerInv, ReplacedIsArchived,
         NoVersionGap, LearnedIsStored

(* The types, action by action. *)
LEMMA SkillTypeStep ==
  ASSUME SkillTypeOK, NEW l \in Learners, LearnerInv(l), LearnerStep(l)
  PROVE  SkillTypeOK'
<1> USE DEF SkillTypeOK, PC, Resume
<1>1. CASE Dispatch(l) \/ NothingLearned(l)
  BY <1>1 DEF Dispatch, NothingLearned
<1>2. CASE Learned(l)
  <2>1. PICK k \in Skills : /\ UpsertNew(l, k) \/ UpsertVersion(l, k)
                            /\ skill' = [skill EXCEPT ![l] = k]
                            /\ UNCHANGED <<corpus, failed>>
    BY <1>2 DEF Learned
  <2>2. CASE UpsertNew(l, k)
    BY <2>1, <2>2 DEF UpsertNew
  <2>3. CASE UpsertVersion(l, k)
    BY <2>1, <2>3 DEF UpsertVersion, FilesOf, Searchable, File
  <2> QED
    BY <2>1, <2>2, <2>3
<1>3. pc[l] \in {"archiving", "uploading"} => Upload(l) \in File
  BY DEF LearnerInv, Upload, File
<1>4. CASE ArchiveLands(l) \/ SkillLands(l) \/ UploadFails(l)
  BY <1>3, <1>4 DEF ArchiveLands, SkillLands, UploadFails
<1> QED
  BY <1>1, <1>2, <1>4 DEF LearnerStep

(* A file lands that the invariant already accounts for. *)
LEMMA LandingFile ==
  ASSUME SkillInv, NEW l \in Learners, pc[l] \in {"archiving", "uploading"},
         corpus' = corpus \cup {Upload(l)}
  PROVE  ReplacedIsArchived' /\ NoVersionGap'
<1> USE DEF SkillInv
<1>1. /\ Upload(l).id = skill[l] /\ Upload(l).by = l
      /\ Upload(l).current = (pc[l] # "archiving")
      /\ Upload(l).version = IF pc[l] = "archiving" THEN version[l] - 1 ELSE version[l]
      /\ version[l] \in Nat \ {0}
  BY DEF Upload, SkillTypeOK
<1>2. \A e \in corpus : e.version \in Nat \ {0}
  BY DEF SkillTypeOK, File
<1>3. ReplacedIsArchived'
  <2>1. pc[l] = "uploading" /\ version[l] > 1 =>
          \E e \in corpus : e.id = skill[l] /\ e.version + 1 = version[l] /\ ~e.current
    BY DEF LearnerInv
  <2>2. ASSUME NEW f \in corpus', f.current, f.version > 1
        PROVE  \E e \in corpus : e.id = f.id /\ e.version + 1 = f.version /\ ~e.current
    <3>1. CASE f \in corpus
      BY <2>2, <3>1 DEF ReplacedIsArchived
    <3>2. CASE f = Upload(l)
      BY <1>1, <2>1, <2>2, <3>2
    <3> QED
      BY <3>1, <3>2
  <2> QED
    BY <2>2 DEF ReplacedIsArchived
<1>4. NoVersionGap'
  <2>1. ASSUME NEW e \in corpus, NEW v \in 1 .. e.version
        PROVE  \E g \in corpus : g.id = e.id /\ g.version = v /\ g.current
    BY <2>1 DEF NoVersionGap
  <2>2. ASSUME NEW v \in 1 .. Upload(l).version
        PROVE  \E g \in corpus' : g.id = skill[l] /\ g.version = v /\ g.current
    <3>1. CASE pc[l] = "archiving"
      <4>1. PICK e \in corpus : e.id = skill[l] /\ e.version + 1 = version[l]
        BY <3>1 DEF LearnerInv
      <4>2. v \in 1 .. e.version
        BY <1>1, <1>2, <2>2, <3>1, <4>1
      <4> QED
        BY <2>1, <4>1, <4>2
    <3>2. CASE pc[l] = "uploading" /\ v = version[l]
      BY <1>1, <3>2
    <3>3. CASE pc[l] = "uploading" /\ v # version[l]
      <4>1. version[l] > 1
        BY <1>1, <2>2, <3>3
      <4>2. PICK e \in corpus : e.id = skill[l] /\ e.version + 1 = version[l]
        BY <3>3, <4>1 DEF LearnerInv
      <4>3. v \in 1 .. e.version
        BY <1>1, <1>2, <2>2, <3>3, <4>2
      <4> QED
        BY <2>1, <4>2, <4>3
    <3> QED
      BY <3>1, <3>2, <3>3
  <2>3. ASSUME NEW f \in corpus', NEW v \in 1 .. f.version
        PROVE  \E g \in corpus' : g.id = f.id /\ g.version = v /\ g.current
    <3>1. CASE f \in corpus
      BY <2>1, <3>1
    <3>2. CASE f = Upload(l)
      BY <1>1, <2>2, <3>2
    <3> QED
      BY <3>1, <3>2
  <2> QED
    BY <2>3 DEF NoVersionGap
<1> QED
  BY <1>3, <1>4

(* What a learner relies on is not disturbed when the corpus grows. *)
LEMMA OtherLearner ==
  ASSUME SkillInv, NEW l \in Learners, NEW m \in Learners \ {l}, LearnerStep(l)
  PROVE  /\ pc'[m] = pc[m] /\ skill'[m] = skill[m] /\ version'[m] = version[m]
         /\ failed'[m] = failed[m] /\ corpus \subseteq corpus'
  BY DEF LearnerStep, Dispatch, NothingLearned, Learned, UpsertNew, UpsertVersion,
         ArchiveLands, SkillLands, UploadFails, Resume, SkillInv, SkillTypeOK

LEMMA LearnerStepInv ==
  ASSUME SkillInv, NEW l \in Learners, LearnerStep(l)
  PROVE  SkillInv'
<1>1. SkillTypeOK' /\ SkillTypeOK
  BY SkillTypeStep DEF SkillInv
<1>2. corpus' = corpus \/ (pc[l] \in {"archiving", "uploading"}
                             /\ corpus' = corpus \cup {Upload(l)})
  BY DEF LearnerStep, Dispatch, NothingLearned, Learned, ArchiveLands, SkillLands,
         UploadFails, Resume
<1>3. ReplacedIsArchived' /\ NoVersionGap'
  <2>1. CASE corpus' = corpus
    BY <2>1 DEF SkillInv, ReplacedIsArchived, NoVersionGap
  <2>2. CASE corpus' # corpus
    BY <1>2, <2>2, LandingFile
  <2> QED
    BY <2>1, <2>2
<1>4. ASSUME NEW m \in Learners
      PROVE  LearnerInv(m)'
  <2>1. CASE m # l
    <3>1. /\ pc'[m] = pc[m] /\ skill'[m] = skill[m] /\ version'[m] = version[m]
          /\ corpus \subseteq corpus'
      BY <2>1, OtherLearner
    <3>2. LearnerInv(m)
      BY DEF SkillInv
    <3> QED
      BY <3>1, <3>2 DEF LearnerInv
  <2>2. CASE m = l
    <3> USE <2>2, <1>1 DEF LearnerInv, SkillTypeOK, Resume
    <3>1. CASE Dispatch(l) \/ NothingLearned(l)
      BY <3>1 DEF Dispatch, NothingLearned, SkillInv
    <3>2. CASE Learned(l)
      <4>1. PICK k \in Skills : /\ UpsertNew(l, k) \/ UpsertVersion(l, k)
                                /\ skill' = [skill EXCEPT ![l] = k]
                                /\ UNCHANGED <<corpus, failed>>
        BY <3>2 DEF Learned
      <4>2. CASE UpsertNew(l, k)
        <5>1. pc'[l] = "uploading" /\ skill'[l] = k /\ version'[l] = 1
          BY <4>1, <4>2 DEF UpsertNew
        <5> QED
          BY <5>1
      <4>3. CASE UpsertVersion(l, k)
        <5>1. PICK ex \in FilesOf(k) : /\ Resume(l, "extracting", "archiving")
                                       /\ version' = [version EXCEPT ![l] = ex.version + 1]
          BY <4>3 DEF UpsertVersion
        <5>2. ex \in corpus /\ ex.id = k /\ ex.version \in Nat \ {0}
          BY <5>1 DEF FilesOf, Searchable, File
        <5>3. pc'[l] = "archiving" /\ skill'[l] = k /\ version'[l] = ex.version + 1
          BY <4>1, <5>1
        <5> QED
          BY <4>1, <5>2, <5>3
      <4> QED
        BY <4>1, <4>2, <4>3
    <3>3. CASE ArchiveLands(l)
      <4>1. /\ Upload(l).id = skill[l] /\ Upload(l).version = version[l] - 1
            /\ Upload(l).current = FALSE /\ Upload(l) \in corpus'
        BY <3>3 DEF ArchiveLands, Upload
      <4>2. pc'[l] = "uploading" /\ skill'[l] = skill[l] /\ version'[l] = version[l]
        BY <3>3 DEF ArchiveLands
      <4>3. skill[l] \in Skills /\ version[l] \in Nat
        BY <3>3 DEF ArchiveLands, SkillInv
      <4> QED
        BY <4>1, <4>2, <4>3
    <3>4. CASE SkillLands(l) \/ UploadFails(l)
      BY <3>4 DEF SkillLands, UploadFails
    <3> QED
      BY <3>1, <3>2, <3>3, <3>4 DEF LearnerStep
  <2> QED
    BY <2>1, <2>2
<1>5. LearnedIsStored'
  <2>1. ASSUME NEW m \in Learners, pc'[m] = "ended", skill'[m] # NoSkill, ~failed'[m]
        PROVE  \E f \in corpus' : f.by = m /\ f.id = skill'[m] /\ f.current
    <3>1. CASE m # l
      BY <2>1, <3>1, OtherLearner DEF SkillInv, LearnedIsStored
    <3>2. CASE m = l
      <4> USE <2>1, <3>2, <1>1 DEF SkillTypeOK, Resume
      <4>1. CASE SkillLands(l)
        <5>1. Upload(l).by = l /\ Upload(l).id = skill[l] /\ Upload(l).current = TRUE
          BY <4>1 DEF SkillLands, Upload
        <5>2. Upload(l) \in corpus' /\ skill'[l] = skill[l]
          BY <4>1 DEF SkillLands
        <5> QED
          BY <5>1, <5>2
      <4>2. ~(Dispatch(l) \/ NothingLearned(l) \/ Learned(l) \/ ArchiveLands(l)
                \/ UploadFails(l))
        <5>1. ~NothingLearned(l)
          BY DEF NothingLearned, SkillInv, LearnerInv
        <5>2. ~Learned(l)
          BY DEF Learned, UpsertNew, UpsertVersion
        <5>3. ~Dispatch(l) /\ ~ArchiveLands(l) /\ ~UploadFails(l)
          BY DEF Dispatch, ArchiveLands, UploadFails
        <5> QED
          BY <5>1, <5>2, <5>3
      <4> QED
        BY <4>1, <4>2 DEF LearnerStep
    <3> QED
      BY <3>1, <3>2
  <2> QED
    BY <2>1 DEF LearnedIsStored
<1> QED
  BY <1>1, <1>3, <1>4, <1>5 DEF SkillInv

LEMMA SkillStep == SkillInv /\ [SkillNext]_skillVars => SkillInv'
<1> SUFFICES ASSUME SkillInv, [SkillNext]_skillVars PROVE SkillInv'
  OBVIOUS
<1>1. CASE SkillNext
  BY <1>1, LearnerStepInv DEF SkillNext
<1>2. CASE UNCHANGED skillVars
  BY <1>2 DEF skillVars, SkillInv, SkillTypeOK, LearnerInv, ReplacedIsArchived, NoVersionGap,
              LearnedIsStored
<1> QED
  BY <1>1, <1>2

(* The inductive invariant holds in every behaviour of the learners.       *)
THEOREM SkillInvariant == SkillSpec => []SkillInv
  BY SkillsStart, SkillStep, PTL DEF SkillSpec

(* Every variable keeps its type: only well-formed files enter the corpus. *)
THEOREM SkillTypes == SkillSpec => []SkillTypeOK
<1>1. SkillInv => SkillTypeOK
  BY DEF SkillInv
<1> QED
  BY <1>1, SkillInvariant, PTL

(* A version is archived before its successor is in the corpus, however    *)
(* many learners of a skill overlap and fail.                              *)
THEOREM ArchivedFirst == SkillSpec => []ReplacedIsArchived
<1>1. SkillInv => ReplacedIsArchived
  BY DEF SkillInv
<1> QED
  BY <1>1, SkillInvariant, PTL

(* No version number is skipped, for every schedule of the learners.       *)
THEOREM NoVersionGaps == SkillSpec => []NoVersionGap
<1>1. SkillInv => NoVersionGap
  BY DEF SkillInv
<1> QED
  BY <1>1, SkillInvariant, PTL

(* An extracted skill is stored unless an upload of its learner failed.    *)
THEOREM SkillIsStored == SkillSpec => []LearnedIsStored
<1>1. SkillInv => LearnedIsStored
  BY DEF SkillInv
<1> QED
  BY <1>1, SkillInvariant, PTL

-----------------------------------------------------------------------------
(***************************************************************************)
(* Recall: sorting and deduplicating what the corpora returned.            *)
(***************************************************************************)
Descending(s) == \A i, j \in DOMAIN s : i < j => s[i].score >= s[j].score

LEMMA ChunkTypes ==
  ASSUME NEW s \in Seq(Chunks)
  PROVE  /\ DOMAIN s = 1 .. Len(s) /\ Len(s) \in Nat
         /\ \A i \in DOMAIN s :
              /\ s[i] \in Chunks /\ s[i].score \in Nat /\ s[i].score \in 0 .. MaxScore
              /\ s[i].text \in Texts
<1>1. \A i \in DOMAIN s : s[i] \in Chunks
  OBVIOUS
<1>2. \A k \in Chunks : k.score \in 0 .. MaxScore /\ k.text \in Texts
  BY DEF Chunks
<1>3. 0 .. MaxScore \subseteq Nat
  BY RecallAssumption
<1> QED
  BY <1>1, <1>2, <1>3

LEMMA SortedProperties ==
  ASSUME NEW s \in Seq(Chunks)
  PROVE  /\ Sorted(s) \in Seq(Chunks) /\ Descending(Sorted(s))
         /\ ToSet(Sorted(s)) = ToSet(s)
<1> DEFINE C == DOMAIN s
           A == Ahead(s)
           f == InOrder(C, A)
           r == Sorted(s)
<1>1. /\ C = 1 .. Len(s) /\ Len(s) \in Nat
      /\ \A i \in C : s[i] \in Chunks /\ s[i].score \in Nat
  BY ChunkTypes
<1>2. IsFiniteSet(C) /\ Cardinality(C) = Len(s)
  BY <1>1, FS_Interval
<1>3. \A i, j \in C : <<i, j>> \in A <=>
        \/ s[i].score > s[j].score
        \/ s[i].score = s[j].score /\ i < j
  BY DEF Ahead
<1>4. Orders(A, C)
  <2> HIDE DEF A
  <2>1. \A i \in C : i \in Nat
    BY <1>1
  <2>2. \A i, j, k \in C : <<i, j>> \in A /\ <<j, k>> \in A => <<i, k>> \in A
    BY <1>1, <1>3, <2>1
  <2>3. \A i \in C : <<i, i>> \notin A
    BY <1>1, <1>3, <2>1
  <2>4. \A i, j \in C : i # j => <<i, j>> \in A \/ <<j, i>> \in A
    BY <1>1, <1>3, <2>1
  <2> QED
    BY <2>2, <2>3, <2>4 DEF Orders
<1>5. r = [n \in C |-> s[f[n]]]
  BY DEF Sorted
<1> HIDE DEF A, C
<1>6. Ordered(f, C, A)
  BY <1>2, <1>4, InOrderSorts
<1> HIDE DEF f
<1>7. /\ \A k \in C : f[k] \in C
      /\ \A i \in C : \E k \in C : f[k] = i
      /\ \A k, l \in C : k < l => <<f[k], f[l]>> \in A
  BY <1>1, <1>2, <1>6 DEF Ordered
<1> HIDE DEF r
<1>8. r \in Seq(Chunks) /\ DOMAIN r = C
  <2>1. r = [n \in 1 .. Len(s) |-> s[f[n]]] /\ \A n \in 1 .. Len(s) : s[f[n]] \in Chunks
    BY <1>1, <1>5, <1>7
  <2> QED
    BY <1>1, <2>1
<1>9. Descending(r)
  <2> SUFFICES ASSUME NEW i \in C, NEW j \in C, i < j PROVE r[i].score >= r[j].score
    BY <1>8 DEF Descending
  <2>1. f[i] \in C /\ f[j] \in C /\ <<f[i], f[j]>> \in A
    BY <1>7
  <2>2. \/ s[f[i]].score > s[f[j]].score
        \/ s[f[i]].score = s[f[j]].score /\ f[i] < f[j]
    BY <1>3, <2>1
  <2>3. s[f[i]].score \in Nat /\ s[f[j]].score \in Nat
    BY <1>1, <2>1
  <2>4. s[f[i]].score >= s[f[j]].score
    BY <2>2, <2>3
  <2> QED
    BY <1>5, <2>4
<1>10. ToSet(r) = ToSet(s)
  <2>1. ASSUME NEW x \in ToSet(r) PROVE x \in ToSet(s)
    <3>1. PICK n \in C : x = s[f[n]]
      BY <1>5, <1>8 DEF ToSet
    <3> QED
      BY <1>7, <3>1 DEF ToSet, C
  <2>2. ASSUME NEW x \in ToSet(s) PROVE x \in ToSet(r)
    <3>1. PICK i \in C : x = s[i]
      BY DEF ToSet, C
    <3>2. PICK n \in C : f[n] = i
      BY <1>7
    <3> QED
      BY <1>5, <1>8, <3>1, <3>2 DEF ToSet
  <2> QED
    BY <2>1, <2>2
<1> QED
  BY <1>8, <1>9, <1>10 DEF r

(* d has the best chunk of each text of s, best first.                     *)
BestOfEach(d, s) ==
  /\ d \in Seq(Chunks) /\ Descending(d)
  /\ \A k, l \in DOMAIN d : d[k].text = d[l].text => k = l
  /\ \A k \in DOMAIN d :
       d[k] \in ToSet(s) /\ \A c \in ToSet(s) : c.text = d[k].text => c.score <= d[k].score
  /\ \A c \in ToSet(s) : \E k \in DOMAIN d : d[k].text = c.text

LEMMA DeduplicatedProperties ==
  ASSUME NEW s \in Seq(Chunks), Descending(s)
  PROVE  BestOfEach(Deduplicated(s), s)
<1> DEFINE t == TextsOf(s)
           I == Firsts(t)
           J == {i \in 1 .. Len(s) : i \in I}
           d == Kept(s, I)
<1>1. /\ DOMAIN s = 1 .. Len(s) /\ Len(s) \in Nat
      /\ \A i \in DOMAIN s : s[i] \in Chunks /\ s[i].score \in Nat
  BY ChunkTypes
<1>2. t \in Seq({s[i].text : i \in DOMAIN s}) /\ DOMAIN t = DOMAIN s
      /\ \A i \in DOMAIN s : t[i] = s[i].text
  BY <1>1 DEF TextsOf
<1>3. d = Deduplicated(s)
  BY DEF Deduplicated
<1> HIDE DEF t
<1>4. /\ \A i \in I : i \in DOMAIN s
      /\ \A i \in I : \A q \in DOMAIN s : q < i => s[q].text # s[i].text
  <2>1. \A i \in I : i \in DOMAIN s
    BY <1>2 DEF Firsts
  <2>2. ASSUME NEW i \in I, NEW q \in DOMAIN s, q < i PROVE s[q].text # s[i].text
    <3>1. q \in 1 .. i - 1
      BY <1>1, <2>1, <2>2
    <3> QED
      BY <1>2, <2>1, <3>1 DEF Firsts
  <2> QED
    BY <2>1, <2>2
<1>5. \A q \in DOMAIN s : \E i \in I : i <= q /\ s[i].text = s[q].text
  <2> SUFFICES ASSUME NEW q \in DOMAIN s PROVE \E i \in I : i <= q /\ s[i].text = s[q].text
    OBVIOUS
  <2> DEFINE V == {s[i].text : i \in DOMAIN s}
  <2>1. t \in Seq(V) /\ q \in DOMAIN t
    BY <1>2
  <2> HIDE DEF V
  <2>2. PICK i \in I : i <= q /\ t[i] = t[q]
    BY <2>1, FirstPlace
  <2> QED
    BY <1>2, <1>4, <2>2
<1> HIDE DEF I
<1>6. d \in Seq(Chunks) /\ \E e : Enumerates(e, d, s, J)
  BY KeptEnumerates
<1> HIDE DEF d
<1>7. PICK e : Enumerates(e, d, s, J)
  BY <1>6
<1>8. /\ DOMAIN d = 1 .. Len(d) /\ Len(d) \in Nat
      /\ \A k \in DOMAIN d : e[k] \in I /\ e[k] \in DOMAIN s /\ d[k] = s[e[k]]
      /\ \A k, l \in DOMAIN d : k < l => e[k] < e[l]
      /\ \A i \in I : \E k \in DOMAIN d : e[k] = i
  <2>1. J = I
    BY <1>1, <1>4
  <2>2. DOMAIN d = 1 .. Len(d) /\ Len(d) \in Nat
    BY <1>6
  <2> QED
    BY <1>4, <1>7, <2>1, <2>2 DEF Enumerates
<1>9. Descending(d)
  BY <1>8 DEF Descending
<1>10. ASSUME NEW k \in DOMAIN d, NEW l \in DOMAIN d, d[k].text = d[l].text PROVE k = l
  <2>1. ~(e[k] < e[l]) /\ ~(e[l] < e[k])
    BY <1>4, <1>8, <1>10
  <2>2. ~(k < l) /\ ~(l < k)
    BY <1>8, <2>1
  <2> QED
    BY <1>8, <2>2
<1>11. ASSUME NEW k \in DOMAIN d
       PROVE  /\ d[k] \in ToSet(s)
              /\ \A c \in ToSet(s) : c.text = d[k].text => c.score <= d[k].score
  <2>1. d[k] \in ToSet(s)
    BY <1>8 DEF ToSet
  <2>2. ASSUME NEW c \in ToSet(s), c.text = d[k].text PROVE c.score <= d[k].score
    <3>1. PICK q \in DOMAIN s : c = s[q]
      BY DEF ToSet
    <3>2. ~(q < e[k])
      BY <1>4, <1>8, <2>2, <3>1
    <3>3. e[k] < q \/ e[k] = q
      BY <1>1, <1>8, <3>2
    <3>4. CASE e[k] = q
      BY <1>1, <1>8, <3>1, <3>4
    <3>5. CASE e[k] < q
      <4>1. s[e[k]].score >= s[q].score
        BY <1>8, <3>5 DEF Descending
      <4> QED
        BY <1>1, <1>8, <3>1, <4>1
    <3> QED
      BY <3>3, <3>4, <3>5
  <2> QED
    BY <2>1, <2>2
<1>12. ASSUME NEW c \in ToSet(s) PROVE \E k \in DOMAIN d : d[k].text = c.text
  <2>1. PICK q \in DOMAIN s : c = s[q]
    BY DEF ToSet
  <2>2. PICK i \in I : s[i].text = s[q].text
    BY <1>5
  <2>3. PICK k \in DOMAIN d : e[k] = i
    BY <1>8
  <2> QED
    BY <1>8, <2>1, <2>2, <2>3
<1> QED
  BY <1>3, <1>6, <1>9, <1>10, <1>11, <1>12 DEF BestOfEach

LEMMA BestIsReached ==
  ASSUME NEW d, NEW s \in Seq(Chunks), BestOfEach(d, s), ToSet(s) = All, NEW k \in DOMAIN d
  PROVE  Best(d[k].text) = d[k].score
<1> DEFINE t == d[k].text
           IsBest(n) == /\ \E c \in All : c.text = t /\ c.score = n
                        /\ \A c \in All : c.text = t => c.score <= n
<1>1. d[k] \in All /\ \A c \in All : c.text = t => c.score <= d[k].score
  BY DEF BestOfEach
<1>2. d[k].score \in 0 .. MaxScore /\ \A c \in All : c.score \in Nat
  <2>1. d \in Seq(Chunks)
    BY DEF BestOfEach
  <2>2. d[k].score \in 0 .. MaxScore
    BY <2>1, ChunkTypes
  <2>3. ASSUME NEW c \in All PROVE c.score \in Nat
    <3>1. PICK q \in DOMAIN s : c = s[q]
      BY DEF ToSet
    <3> QED
      BY <3>1, ChunkTypes
  <2> QED
    BY <2>2, <2>3
<1>3. Best(t) = CHOOSE n \in 0 .. MaxScore : IsBest(n)
  BY DEF Best
<1>4. IsBest(d[k].score)
  BY <1>1
<1>5. ASSUME NEW n \in 0 .. MaxScore, IsBest(n) PROVE n = d[k].score
  <2>1. PICK c \in All : c.text = t /\ c.score = n
    BY <1>5
  <2>2. n <= d[k].score /\ d[k].score <= n
    BY <1>1, <1>5, <2>1
  <2>3. d[k].score \in Nat /\ n \in Nat
    BY <1>1, <1>2, <2>1
  <2> QED
    BY <2>2, <2>3
<1> HIDE DEF IsBest
<1> QED
  BY <1>2, <1>3, <1>4, <1>5, Zenon

(* The texts of chunks that differ in their texts.                         *)
LEMMA TextsCount ==
  ASSUME NEW d \in Seq(Chunks), \A k, l \in DOMAIN d : d[k].text = d[l].text => k = l
  PROVE  Cardinality({d[k].text : k \in DOMAIN d}) = Len(d)
<1> DEFINE t == TextsOf(d)
<1>1. DOMAIN d = 1 .. Len(d) /\ Len(d) \in Nat /\ \A k \in DOMAIN d : d[k].text \in Texts
  BY ChunkTypes
<1>2. /\ t \in Seq(Texts) /\ DOMAIN t = DOMAIN d /\ Len(t) = Len(d)
      /\ \A k \in DOMAIN d : t[k] = d[k].text
  BY <1>1 DEF TextsOf
<1> HIDE DEF t
<1>3. IsInjective(t)
  BY <1>2 DEF IsInjective
<1>4. Cardinality(ToSet(t)) = Len(t)
  BY <1>2, <1>3, InjectiveSize
<1>5. ToSet(t) = {d[k].text : k \in DOMAIN d}
  BY <1>2 DEF ToSet
<1> QED
  BY <1>2, <1>4, <1>5

(* The merged context is the reference answer for what the corpora gave.   *)
LEMMA MergedIsBest ==
  ASSUME hits \in [DOMAIN Corpora -> Seq(Chunks)], context = Merged
  PROVE  ContextIsBest
<1> DEFINE g == Gathered
           s == Sorted(g)
           d == Deduplicated(s)
           m == FirstOf(d, TopK)
           texts == {k.text : k \in All}
           shown == {k.text : k \in Range(context)}
           size == IF Cardinality(texts) < TopK THEN Cardinality(texts) ELSE TopK
<1>1. g \in Seq(Chunks) /\ ToSet(g) = All
  <2>1. hits \in Seq(Seq(Chunks)) /\ DOMAIN hits = DOMAIN Corpora
    BY RecallAssumption
  <2>2. \A c \in DOMAIN hits : Range(hits[c]) = ToSet(hits[c])
    BY DEF Range, ToSet
  <2>3. All = UNION {ToSet(hits[c]) : c \in DOMAIN hits}
    BY <2>1, <2>2 DEF All
  <2> DEFINE S == Chunks
  <2> HIDE DEF S
  <2>4. hits \in Seq(Seq(S))
    BY <2>1 DEF S
  <2>5. FlattenSeq(hits) \in Seq(S)
    BY <2>4, FlattenedSet
  <2>6. ToSet(FlattenSeq(hits)) = UNION {ToSet(hits[i]) : i \in DOMAIN hits}
    BY <2>4, FlattenedSet
  <2> QED
    BY <2>3, <2>5, <2>6 DEF Gathered, S
<1> HIDE DEF g
<1>2. s \in Seq(Chunks) /\ Descending(s) /\ ToSet(s) = All
  BY <1>1, SortedProperties
<1> HIDE DEF s
<1>3. BestOfEach(d, s)
  BY <1>2, DeduplicatedProperties
<1>4. context = m /\ TopK \in Nat
  BY RecallAssumption DEF Merged, s, g
<1> HIDE DEF d
<1>5. /\ d \in Seq(Chunks) /\ Descending(d)
      /\ \A k, l \in DOMAIN d : d[k].text = d[l].text => k = l
      /\ \A k \in DOMAIN d : d[k] \in All
      /\ \A c \in All : \E k \in DOMAIN d : d[k].text = c.text
  BY <1>2, <1>3 DEF BestOfEach
<1>6. /\ DOMAIN d = 1 .. Len(d) /\ Len(d) \in Nat
      /\ \A k \in DOMAIN d : d[k].score \in Nat
  BY <1>5, ChunkTypes
<1>7. \A k \in DOMAIN d : Best(d[k].text) = d[k].score
  BY <1>2, <1>3, BestIsReached
<1>8. /\ m \in Seq(Chunks) /\ DOMAIN m = {k \in DOMAIN d : k <= TopK}
      /\ Len(m) = (IF Len(d) < TopK THEN Len(d) ELSE TopK)
      /\ \A k \in DOMAIN m : m[k] = d[k]
  <2> DEFINE S == Chunks
  <2>1. d \in Seq(S)
    BY <1>5
  <2> HIDE DEF S
  <2>2. /\ m \in Seq(S) /\ DOMAIN m = {k \in DOMAIN d : k <= TopK}
        /\ Len(m) = (IF Len(d) < TopK THEN Len(d) ELSE TopK)
        /\ \A k \in DOMAIN m : m[k] = d[k]
    BY <1>4, <2>1, FirstOfProperties
  <2> QED
    BY <2>2 DEF S
<1> HIDE DEF m
<1>9. texts = {d[k].text : k \in DOMAIN d}
  BY <1>5
<1>10. Cardinality(texts) = Len(d)
  BY <1>5, <1>9, TextsCount
<1>11. shown = {m[k].text : k \in DOMAIN m}
  BY <1>4 DEF Range
<1>12. \A k, l \in DOMAIN m : m[k].text = m[l].text => k = l
  BY <1>5, <1>8
<1>13. Cardinality(shown) = Len(m)
  BY <1>8, <1>11, <1>12, TextsCount
<1>14. Len(m) = size
  BY <1>8, <1>10
<1>15. shown \subseteq texts
  BY <1>8, <1>9, <1>11
<1>16. \A i \in DOMAIN m : m[i].score = Best(m[i].text)
  BY <1>7, <1>8
<1>17. \A i, j \in DOMAIN m : i < j => m[i].score >= m[j].score
  BY <1>5, <1>8 DEF Descending
<1>18. ASSUME NEW t \in texts \ shown, NEW u \in shown PROVE Best(t) <= Best(u)
  <2>1. PICK k \in DOMAIN d : t = d[k].text
    BY <1>9
  <2>2. PICK l \in DOMAIN m : u = m[l].text
    BY <1>11
  <2>3. l \in DOMAIN d /\ l <= TopK /\ u = d[l].text
    BY <1>8, <2>2
  <2>4. k \notin DOMAIN m
    BY <1>8, <1>11, <1>18, <2>1
  <2>5. l < k
    BY <1>4, <1>6, <1>8, <2>3, <2>4
  <2>6. d[l].score >= d[k].score
    BY <1>5, <2>3, <2>5 DEF Descending
  <2> QED
    BY <1>6, <1>7, <2>1, <2>3, <2>6
<1> HIDE DEF texts, shown, size
<1>19. /\ Len(context) = size /\ Cardinality(shown) = size /\ shown \subseteq texts
       /\ \A i \in DOMAIN context : context[i].score = Best(context[i].text)
       /\ \A i, j \in DOMAIN context : i < j => context[i].score >= context[j].score
       /\ \A t \in texts \ shown, u \in shown : Best(t) <= Best(u)
  BY <1>4, <1>13, <1>14, <1>15, <1>16, <1>17, <1>18
<1> QED
  BY <1>19 DEF ContextIsBest, texts, shown, size

(***************************************************************************)
(* Recall: the context stays what was merged, and at every item the budget *)
(* is what was taken, the profile included, and what is left.              *)
(***************************************************************************)
Lead == IF Tier1 > 0 THEN <<0>> ELSE <<>>

Spent(n) ==
  /\ n \in 0 .. Len(costs)
  /\ taken = Lead \o [i \in 1 .. n |-> i]
  /\ SumTo(costs, n) + Tier1 + left = budget

BudgetInv ==
  /\ budget \in Nat /\ left \in Nat /\ profileCost \in Nat /\ next \in Nat \ {0}
  /\ costs \in Seq(Nat)
  /\ stage \in {"query", "profile"} => taken = <<>> /\ next = 1 /\ left = budget
  /\ stage \in {"items", "done"} => Spent(next - 1)
  /\ stage = "done" /\ next <= Len(costs) => costs[next] > left

RecallInv ==
  /\ hits \in [DOMAIN Corpora -> Seq(Chunks)]
  /\ stage \in {"query", "profile", "items", "done"}
  /\ stage # "query" => context = Merged
  /\ BudgetInv

LEMMA CountingOn ==
  ASSUME NEW p \in Seq(Nat), NEW n \in Nat
  PROVE  Append(p \o [i \in 1 .. n |-> i], n + 1) = p \o [i \in 1 .. n + 1 |-> i]
<1> DEFINE m == Len(p)
           c == p \o [i \in 1 .. n |-> i]
           a == Append(c, n + 1)
           b == p \o [i \in 1 .. n + 1 |-> i]
<1>1. /\ c \in Seq(Nat) /\ Len(c) = m + n /\ m \in Nat
      /\ \A i \in 1 .. m : c[i] = p[i]
      /\ \A i \in 1 .. n : c[m + i] = i
  OBVIOUS
<1>2. /\ b \in Seq(Nat) /\ Len(b) = m + (n + 1)
      /\ \A i \in 1 .. m : b[i] = p[i]
      /\ \A i \in 1 .. n + 1 : b[m + i] = i
  OBVIOUS
<1> HIDE DEF m, c
<1>3. /\ a \in Seq(Nat) /\ Len(a) = m + (n + 1)
      /\ a[m + (n + 1)] = n + 1
      /\ \A i \in 1 .. m + n : a[i] = c[i]
  BY <1>1
<1> HIDE DEF a, b
<1>4. ASSUME NEW i \in 1 .. m + (n + 1) PROVE a[i] = b[i]
  <2>1. CASE i <= m
    <3>1. i \in 1 .. m /\ i \in 1 .. m + n
      BY <1>1, <2>1
    <3> QED
      BY <1>1, <1>2, <1>3, <3>1
  <2>2. CASE m < i /\ i <= m + n
    <3>1. i - m \in 1 .. n /\ i - m \in 1 .. n + 1 /\ i = m + (i - m) /\ i \in 1 .. m + n
      BY <1>1, <2>2
    <3>2. b[i] = i - m /\ c[i] = i - m
      BY <1>1, <1>2, <3>1
    <3> QED
      BY <1>3, <3>1, <3>2
  <2>3. CASE i = m + (n + 1)
    <3>1. n + 1 \in 1 .. n + 1
      OBVIOUS
    <3> QED
      BY <1>2, <1>3, <2>3, <3>1
  <2> QED
    BY <1>1, <2>1, <2>2, <2>3
<1>5. a = b
  BY <1>2, <1>3, <1>4
<1> QED
  BY <1>5 DEF a, b, c

LEMMA RecallStart ==
  RecallInit => RecallInv
  BY DEF RecallInit, RecallInv, BudgetInv, NoProfile

LEMMA AnswersStep ==
  ASSUME RecallInv, NEW c \in DOMAIN Corpora, Answers(c)
  PROVE  RecallInv'
<1>1. PICK found \in BoundedSeq({k \in Chunks : k.at = c}, MaxHits) :
        hits' = [hits EXCEPT ![c] = found]
  BY DEF Answers
<1>2. found \in Seq(Chunks)
  <2>1. PICK n \in 0 .. MaxHits : found \in [1 .. n -> {k \in Chunks : k.at = c}]
    BY <1>1 DEF BoundedSeq, SeqOf
  <2>2. n \in Nat /\ found \in [1 .. n -> Chunks]
    BY <2>1, RecallAssumption
  <2> QED
    BY <2>2
<1>3. hits' \in [DOMAIN Corpora -> Seq(Chunks)]
  BY <1>1, <1>2 DEF RecallInv
<1>4. stage = "query" /\ stage' = stage /\ UNCHANGED budgetVars
  BY DEF Answers
<1> QED
  BY <1>3, <1>4 DEF RecallInv, BudgetInv, budgetVars

LEMMA MergeStep ==
  ASSUME RecallInv, MergeHits
  PROVE  RecallInv'
<1>1. Merged' = Merged
  BY DEF Merged, Gathered, MergeHits
<1>2. Merged \in Seq(Chunks)
  <2>1. hits \in Seq(Seq(Chunks))
    BY RecallAssumption DEF RecallInv
  <2>2. Gathered \in Seq(Chunks)
    <3> DEFINE S == Chunks
    <3>1. hits \in Seq(Seq(S))
      BY <2>1
    <3> HIDE DEF S
    <3>2. FlattenSeq(hits) \in Seq(S)
      BY <3>1, FlattenedSet
    <3> QED
      BY <3>2 DEF Gathered, S
  <2>3. Deduplicated(Sorted(Gathered)) \in Seq(Chunks)
    BY <2>2, SortedProperties, DeduplicatedProperties DEF BestOfEach
  <2> DEFINE d == Deduplicated(Sorted(Gathered))
             S == Chunks
  <2>4. d \in Seq(S) /\ TopK \in Nat
    BY <2>3, RecallAssumption
  <2> HIDE DEF d, S
  <2>5. FirstOf(d, TopK) \in Seq(S)
    BY <2>4, FirstOfProperties
  <2> QED
    BY <2>5 DEF Merged, d, S
<1>3. costs' \in Seq(Nat)
  <2>1. Len(Merged) \in Nat
    BY <1>2
  <2>2. 1 .. MaxCost \subseteq Nat
    BY RecallAssumption
  <2> HIDE DEF Merged
  <2>3. costs' \in [1 .. Len(Merged) -> 1 .. MaxCost]
    BY DEF MergeHits
  <2>4. costs' \in [1 .. Len(Merged) -> Nat]
    BY <2>2, <2>3
  <2> QED
    BY <2>1, <2>4
<1>4. profileCost' \in Nat /\ budget' \in Nat /\ left' = budget'
  BY RecallAssumption DEF MergeHits
<1>5. /\ stage = "query" /\ stage' = "profile" /\ context' = Merged
      /\ hits' = hits /\ taken' = taken /\ next' = next
  BY DEF MergeHits
<1> HIDE DEF Merged
<1> QED
  BY <1>1, <1>3, <1>4, <1>5 DEF RecallInv, BudgetInv

LEMMA ProfileStep ==
  ASSUME RecallInv, TakeProfile
  PROVE  RecallInv'
<1>1. /\ stage = "profile" /\ stage' = "items" /\ UNCHANGED queryVars
      /\ profileCost' = profileCost /\ costs' = costs /\ budget' = budget /\ next' = next
  BY DEF TakeProfile
<1>2. /\ taken = <<>> /\ next = 1 /\ left = budget /\ costs \in Seq(Nat)
      /\ profileCost \in Nat /\ budget \in Nat
  BY <1>1 DEF RecallInv, BudgetInv
<1>3. taken' = Lead /\ left' \in Nat /\ Tier1 + left' = budget
  <2>1. CASE profileCost # NoProfile /\ profileCost <= left
    <3>1. taken' = <<0>> /\ left' = left - profileCost
      BY <1>2, <2>1 DEF TakeProfile
    <3> QED
      BY <1>2, <2>1, <3>1 DEF Lead, Tier1, NoProfile
  <2>2. CASE ~(profileCost # NoProfile /\ profileCost <= left)
    <3>1. taken' = taken /\ left' = left
      BY <2>2 DEF TakeProfile
    <3> QED
      BY <1>2, <2>2, <3>1 DEF Lead, Tier1, NoProfile
  <2> QED
    BY <2>1, <2>2
<1>4. Lead \o [i \in 1 .. 0 |-> i] = Lead
  <2>1. Lead \in Seq(Nat)
    BY DEF Lead
  <2>2. [i \in 1 .. 0 |-> i] = <<>>
    OBVIOUS
  <2> HIDE DEF Lead
  <2> QED
    BY <2>1, <2>2
<1>5. SumTo(costs, 0) = 0
  BY <1>2, SumSteps
<1>6. Tier1' = Tier1 /\ Lead' = Lead /\ SumTo(costs, 0)' = SumTo(costs, 0)
  BY <1>1 DEF Tier1, Lead
<1>7. Tier1 \in Nat
  BY <1>2 DEF Tier1
<1>8. 0 \in 0 .. Len(costs) /\ next - 1 = 0
  BY <1>2
<1> HIDE DEF Lead, Tier1
<1>9. Spent(0)'
  <2>1. 0 \in 0 .. Len(costs')
    BY <1>1, <1>8
  <2>2. taken' = Lead' \o [i \in 1 .. 0 |-> i]
    BY <1>3, <1>4, <1>6
  <2>3. SumTo(costs, 0)' + Tier1' + left' = budget'
    <3>1. SumTo(costs, 0)' = 0 /\ Tier1' = Tier1 /\ budget' = Tier1 + left'
      BY <1>1, <1>3, <1>5, <1>6
    <3>2. 0 + Tier1 + left' = Tier1 + left'
      BY <1>3, <1>7
    <3> QED
      BY <3>1, <3>2
  <2> QED
    BY <2>1, <2>2, <2>3 DEF Spent
<1>10. Spent(next - 1)'
  <2>1. (next - 1)' = 0
    BY <1>1, <1>8
  <2> QED
    BY <1>9, <2>1 DEF Spent
<1>11. context' = Merged'
  BY <1>1 DEF RecallInv, Merged, Gathered, queryVars
<1> HIDE DEF Merged
<1> QED
  BY <1>1, <1>2, <1>3, <1>10, <1>11 DEF RecallInv, BudgetInv, queryVars

LEMMA ItemStep ==
  ASSUME RecallInv, TakeItem
  PROVE  RecallInv'
<1> DEFINE n == next - 1
<1>1. /\ stage = "items" /\ stage' = stage /\ UNCHANGED queryVars
      /\ profileCost' = profileCost /\ costs' = costs /\ budget' = budget
      /\ next <= Len(costs) /\ costs[next] <= left /\ next' = next + 1
      /\ taken' = Append(taken, next) /\ left' = left - costs[next]
  BY DEF TakeItem
<1>2. /\ costs \in Seq(Nat) /\ left \in Nat /\ budget \in Nat /\ profileCost \in Nat
      /\ next \in Nat \ {0} /\ Spent(n)
  BY <1>1 DEF RecallInv, BudgetInv
<1>3. /\ n \in Nat /\ n + 1 = next /\ next \in 1 .. Len(costs) /\ Len(costs) \in Nat
      /\ next \in 0 .. Len(costs) /\ costs[next] \in Nat /\ next' - 1 = next
  BY <1>1, <1>2
<1>4. /\ taken = Lead \o [i \in 1 .. n |-> i]
      /\ SumTo(costs, n) + Tier1 + left = budget
  BY <1>2 DEF Spent
<1>5. /\ SumTo(costs, next) = SumTo(costs, n) + costs[next]
      /\ SumTo(costs, n) \in Nat
  BY <1>2, <1>3, SumSteps
<1>6. Tier1' = Tier1 /\ Lead' = Lead /\ Tier1 \in Nat /\ Lead \in Seq(Nat)
  BY <1>1, <1>2 DEF Tier1, Lead
<1> HIDE DEF n
<1>7. left' \in Nat /\ SumTo(costs, next) + Tier1 + left' = budget
  <2> DEFINE cost == costs[next]
             sum == SumTo(costs, n)
             tier == Tier1
  <2>1. cost \in Nat /\ sum \in Nat /\ tier \in Nat /\ left \in Nat
    BY <1>2, <1>3, <1>5, <1>6
  <2>2. cost <= left /\ left' = left - cost /\ sum + tier + left = budget
    BY <1>1, <1>4
  <2>3. SumTo(costs, next) = sum + cost
    BY <1>5
  <2> HIDE DEF cost, sum, tier
  <2>4. left' \in Nat /\ (sum + cost) + tier + left' = budget
    BY <2>1, <2>2
  <2> QED
    BY <2>3, <2>4 DEF tier
<1>8. taken' = Lead \o [i \in 1 .. next |-> i]
  <2>1. Append(Lead \o [i \in 1 .. n |-> i], n + 1) = Lead \o [i \in 1 .. n + 1 |-> i]
    BY <1>3, <1>6, CountingOn
  <2> QED
    BY <1>1, <1>3, <1>4, <2>1
<1>9. Spent(next - 1)'
  <2>1. (next - 1)' = next
    BY <1>3
  <2>2. /\ next \in 0 .. Len(costs') /\ taken' = Lead' \o [i \in 1 .. next |-> i]
        /\ SumTo(costs', next) + Tier1' + left' = budget'
    BY <1>1, <1>3, <1>6, <1>7, <1>8
  <2> QED
    BY <2>1, <2>2 DEF Spent
<1>10. context' = Merged'
  BY <1>1 DEF RecallInv, Merged, Gathered, queryVars
<1>11. next' \in Nat \ {0}
  BY <1>1, <1>2
<1> HIDE DEF Merged
<1> QED
  BY <1>1, <1>2, <1>7, <1>9, <1>10, <1>11 DEF RecallInv, BudgetInv, queryVars

LEMMA StopStep ==
  ASSUME RecallInv, StopTaking
  PROVE  RecallInv'
<1>1. /\ stage = "items" /\ stage' = "done" /\ UNCHANGED queryVars /\ UNCHANGED budgetVars
      /\ next <= Len(costs) => costs[next] > left
  BY DEF StopTaking
<1>2. Merged' = Merged
  BY <1>1 DEF Merged, Gathered, queryVars
<1>3. Spent(next - 1)'
  BY <1>1 DEF RecallInv, BudgetInv, Spent, Lead, Tier1, budgetVars
<1> QED
  BY <1>1, <1>2, <1>3 DEF RecallInv, BudgetInv, queryVars, budgetVars

LEMMA RecallInvariance ==
  RecallSpec => []RecallInv
<1>1. RecallInv /\ [RecallNext]_recallVars => RecallInv'
  <2> SUFFICES ASSUME RecallInv, [RecallNext]_recallVars PROVE RecallInv'
    OBVIOUS
  <2>1. CASE RecallNext
    BY <2>1, AnswersStep, MergeStep, ProfileStep, ItemStep, StopStep DEF RecallNext
  <2>2. CASE UNCHANGED recallVars
    <3>1. UNCHANGED queryVars /\ UNCHANGED budgetVars /\ stage' = stage
      BY <2>2 DEF recallVars
    <3>2. Merged' = Merged
      BY <3>1 DEF Merged, Gathered, queryVars
    <3>3. Spent(next - 1)' = Spent(next - 1)
      BY <3>1 DEF Spent, Lead, Tier1, budgetVars
    <3> QED
      BY <3>1, <3>2, <3>3 DEF RecallInv, BudgetInv, queryVars, budgetVars
  <2> QED
    BY <2>1, <2>2
<1> QED
  BY RecallStart, <1>1, PTL DEF RecallSpec

(* The prompt gets the best of all corpora, in whatever order they answer  *)
(* and whichever fail, and as much of it as fits beside the profile, for   *)
(* every number of corpora, every score, cost and budget.                  *)
THEOREM RecallsTheBest ==
  RecallSpec => []RecallIsBest
<1>1. RecallInv => ContextIsBest
  <2>1. ASSUME RecallInv, stage # "query" PROVE ContextIsBest
    BY <2>1, MergedIsBest DEF RecallInv
  <2>2. ASSUME stage = "query" PROVE ContextIsBest
    BY <2>2 DEF ContextIsBest
  <2> QED
    BY <2>1, <2>2
<1>2. RecallInv => SummaryFillsBudget
  <2> SUFFICES ASSUME RecallInv, stage = "done"
               PROVE  \E n \in 0 .. Len(costs) :
                        /\ taken = (IF Tier1 > 0 THEN <<0>> ELSE <<>>) \o [i \in 1 .. n |-> i]
                        /\ Fits(n)
                        /\ n < Len(costs) => ~Fits(n + 1)
    BY DEF SummaryFillsBudget
  <2> DEFINE n == next - 1
  <2>1. /\ Spent(n) /\ costs \in Seq(Nat) /\ left \in Nat /\ budget \in Nat
        /\ next \in Nat \ {0} /\ profileCost \in Nat
        /\ next <= Len(costs) => costs[next] > left
    BY DEF RecallInv, BudgetInv
  <2>2. Tier1 \in Nat
    BY <2>1 DEF Tier1
  <2>3. n \in 0 .. Len(costs) /\ n + 1 = next /\ Len(costs) \in Nat
    BY <2>1 DEF Spent
  <2>4. SumTo(costs, n) \in Nat
    BY <2>1, <2>3, SumSteps
  <2>5. taken = Lead \o [i \in 1 .. n |-> i] /\ SumTo(costs, n) + Tier1 + left = budget
    BY <2>1 DEF Spent
  <2> HIDE DEF n
  <2>6. Fits(n)
    BY <2>1, <2>2, <2>4, <2>5 DEF Fits
  <2>7. ASSUME n < Len(costs) PROVE ~Fits(n + 1)
    <3>1. next \in 1 .. Len(costs) /\ next - 1 = n /\ costs[next] > left /\ costs[next] \in Nat
      BY <2>1, <2>3, <2>7
    <3>2. SumTo(costs, next) = SumTo(costs, n) + costs[next]
      BY <2>1, <3>1, SumSteps
    <3> QED
      BY <2>1, <2>2, <2>3, <2>4, <2>5, <3>1, <3>2 DEF Fits
  <2> QED
    BY <2>3, <2>5, <2>6, <2>7 DEF Lead
<1> QED
  BY RecallInvariance, <1>1, <1>2, PTL DEF RecallIsBest
=============================================================================

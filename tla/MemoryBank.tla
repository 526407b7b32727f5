----------------------------- MODULE MemoryBank -----------------------------
(***************************************************************************)
(* Long-term memory: memory/memory_bank.py with the callback that feeds it *)
(* after every agent turn (memory/skill_learning.py), the /memories        *)
(* endpoints of gateway/main.py and memory/user_profile.py.                *)
(*                                                                         *)
(* Every operation is one blocking SDK call in a thread of its own: calls  *)
(* of one user overlap in any order.  A call can fail before or after it   *)
(* took effect; the exception is swallowed and the caller gets a neutral   *)
(* value (0, None, False, []).  Requests for another user's memories are   *)
(* refused and change nothing; turns of one session follow each other.     *)
(***************************************************************************)
EXTENDS Naturals, Sequences, FiniteSets

CONSTANTS
  Users, Sessions,
  Owner,      \* Owner[s]: the user of session s
  Fields,     \* profile fields
  MaxTurns,   \* bound: turns of a session
  MaxCalls    \* bound: calls of the bank and of the profile store

ASSUME MemoryAssumption ==
  /\ Owner \in [Sessions -> Users]
  /\ Sessions # {} /\ Fields # {}
  /\ MaxTurns \in Nat /\ MaxCalls \in Nat

Calls == 1 .. MaxCalls
Turns == 0 .. MaxTurns
Writers == {"generate", "create"}
Ops == Writers \cup {"purge", "fetch", "delete", "update", "profile", "none"}

(* What is stored: the call that wrote it names it, said and replied are   *)
(* the turns its user text and agent text come from (0: written directly). *)
Memory == [user : Users, by : Calls, said : Turns, replied : Turns]

VARIABLES
  events,    \* events[s]: per turn of session s, whether it has a final text
  op,        \* op[c]: what call c is
  user,      \* user[c]: the caller
  session,   \* session[c]: the session a generation is about
  about,     \* about[c]: its turns, or the target of a change
  field,     \* field[c]: the profile field an update sets
  phase,     \* phase[c]
  ok,        \* ok[c]: the call returned normally
  got,       \* got[c]: what a fetch returned, what a purge counted
  store,     \* the memories of the bank
  profile,   \* profile[u][f]: the update that set the field, 0 if none
  gone,      \* history: calls whose memory was purged or deleted
  before,    \* history: writers that had returned when call c was made
  earlier    \* history: the updates of that profile that had returned when
             \* update c was asked for

callVars == <<op, user, session, about, field, before>>
bankVars == <<store, gone>>
profileVars == <<profile, earlier>>
vars == <<events, callVars, phase, ok, got, bankVars, profileVars>>

Init ==
  /\ events = [s \in Sessions |-> <<>>]
  /\ op = [c \in Calls |-> "none"]
  /\ user = [c \in Calls |-> CHOOSE u \in Users : TRUE]
  /\ session = [c \in Calls |-> CHOOSE s \in Sessions : TRUE]
  /\ about = [c \in Calls |-> <<0, 0>>]
  /\ field = [c \in Calls |-> CHOOSE f \in Fields : TRUE]
  /\ phase = [c \in Calls |-> "free"]
  /\ ok = [c \in Calls |-> FALSE]
  /\ got = [c \in Calls |-> {}]
  /\ store = {} /\ gone = {}
  /\ profile = [u \in Users |-> [f \in Fields |-> 0]]
  /\ before = [c \in Calls |-> {}]
  /\ earlier = before

Stored == {m.by : m \in store}
Own(u) == {m \in store : m.user = u}

(* The next call number is handed to an operation and its thread starts.   *)
Call(c, operation, u, subject) ==
  /\ phase[c] = "free" /\ \A d \in Calls : d < c => phase[d] # "free"
  /\ op' = [op EXCEPT ![c] = operation]
  /\ user' = [user EXCEPT ![c] = u]
  /\ about' = [about EXCEPT ![c] = subject]
  /\ phase' = [phase EXCEPT ![c] = "running"]
  /\ before' = [before EXCEPT ![c] =
       {d \in Calls : op[d] \in Writers /\ user[d] = u /\ phase[d] = "returned"}]

Return(c, normally) ==
  /\ phase' = [phase EXCEPT ![c] = "returned"]
  /\ ok' = [ok EXCEPT ![c] = normally]

(* The walk back over the session's events: the last turn with a final     *)
(* text of the agent, 0 if there is none.                                  *)
LastFinal(turns) ==
  CHOOSE k \in 0 .. Len(turns) :
    /\ k # 0 => turns[k]
    /\ \A j \in k + 1 .. Len(turns) : ~turns[j]

(* An agent turn ends, with a final text or without one.  The callback     *)
(* pairs the user's text with the last final text in the session, and with *)
(* none in it, or no bank configured, does nothing.                        *)
AgentTurn(s, answered) ==
  /\ Len(events[s]) < MaxTurns
  /\ events' = [events EXCEPT ![s] = Append(@, answered)]
  /\ IF LastFinal(events'[s]) = 0
       THEN UNCHANGED <<op, user, session, about, phase, before>>
       ELSE \E c \in Calls :
              /\ Call(c, "generate", Owner[s], <<Len(events'[s]), LastFinal(events'[s])>>)
              /\ session' = [session EXCEPT ![c] = s]
  /\ UNCHANGED <<field, ok, got, bankVars, profileVars>>

(* POST, DELETE and GET /memories/{user_id} of the user's own id.          *)
Request(u, operation) ==
  /\ \E c \in Calls : Call(c, operation, u, <<0, 0>>)
  /\ UNCHANGED <<events, session, field, ok, got, bankVars, profileVars>>

(* delete_memory and update_memory name a memory some call has written.    *)
Change(u, operation) ==
  /\ \E c, d \in Calls : op[d] \in Writers /\ user[d] = u /\ Call(c, operation, u, <<d, 0>>)
  /\ UNCHANGED <<events, session, field, ok, got, bankVars, profileVars>>

UpdateProfile(u, f) ==
  /\ \E c \in Calls :
       /\ Call(c, "profile", u, <<0, 0>>)
       /\ field' = [field EXCEPT ![c] = f]
       /\ earlier' = [earlier EXCEPT ![c] =
            {d \in Calls : op[d] = "profile" /\ user[d] = u /\ phase[d] = "returned"}]
  /\ UNCHANGED <<events, session, ok, got, bankVars, profile>>

(* Mutant: every memory is written with the same scope.                    *)
WrittenUnscoped(c) ==
  [user |-> CHOOSE u \in Users : TRUE, by |-> c, said |-> about[c][1], replied |-> about[c][2]]

(* The effect of a call on the bank or the profile store.                  *)
Written(c) == [user |-> user[c], by |-> c, said |-> about[c][1], replied |-> about[c][2]]

Write(c) ==
  /\ op[c] \in Writers
  /\ store' = store \cup {Written(c)}
  /\ UNCHANGED <<gone, got, profileVars>>

(* purge_memories lists first, for its answer, and purges then.            *)
CountFirst(c) ==
  /\ op[c] = "purge" /\ phase[c] = "running"
  /\ phase' = [phase EXCEPT ![c] = "counted"]
  /\ got' = [got EXCEPT ![c] = {m.by : m \in Own(user[c])}]
  /\ UNCHANGED <<events, callVars, ok, bankVars, profileVars>>

(* Mutant: one page of the list is deleted.                                *)
PurgeOnePage(c) ==
  /\ op[c] = "purge" /\ phase[c] = "counted"
  /\ \E page \in SUBSET Own(user[c]) :
       /\ Cardinality(page) = IF Own(user[c]) = {} THEN 0 ELSE 1
       /\ store' = store \ page
       /\ gone' = gone \cup {m.by : m \in page}
  /\ UNCHANGED <<got, profileVars>>

Purge(c) ==
  /\ op[c] = "purge" /\ phase[c] = "counted"
  /\ store' = store \ Own(user[c])
  /\ gone' = gone \cup {m.by : m \in Own(user[c])}
  /\ UNCHANGED <<got, profileVars>>

(* Mutant: the scope is left out of the query.                             *)
FetchUnscoped(c) ==
  /\ op[c] = "fetch"
  /\ \E found \in SUBSET store : got' = [got EXCEPT ![c] = {m.by : m \in found}]
  /\ UNCHANGED <<bankVars, profileVars>>

(* The top_k of what matches the query.                                    *)
Fetch(c) ==
  /\ op[c] = "fetch"
  /\ \E found \in SUBSET Own(user[c]) : got' = [got EXCEPT ![c] = {m.by : m \in found}]
  /\ UNCHANGED <<bankVars, profileVars>>

(* A memory that is gone can be neither deleted nor updated.               *)
Delete(c) ==
  /\ op[c] = "delete" /\ about[c][1] \in Stored
  /\ store' = {m \in store : m.by # about[c][1]}
  /\ gone' = gone \cup {about[c][1]}
  /\ UNCHANGED <<got, profileVars>>

(* Mutant: the update writes the memory if it is not there.                *)
UpdateOrWrite(c) ==
  /\ op[c] = "update"
  /\ store' = {m \in store : m.by # about[c][1]} \cup
       {[user |-> user[c], by |-> about[c][1], said |-> 0, replied |-> 0]}
  /\ UNCHANGED <<gone, got, profileVars>>

Update(c) ==
  /\ op[c] = "update" /\ about[c][1] \in Stored
  /\ UNCHANGED <<bankVars, got, profileVars>>

(* Mutant: set(updates) without merge.                                     *)
SetDocument(c) ==
  /\ op[c] = "profile"
  /\ profile' = [profile EXCEPT ![user[c]] = [f \in Fields |-> IF f = field[c] THEN c ELSE 0]]
  /\ UNCHANGED <<bankVars, got, earlier>>

(* set(updates, merge=True): only the given field changes.                 *)
SetFields(c) ==
  /\ op[c] = "profile"
  /\ profile' = [profile EXCEPT ![user[c]][field[c]] = c]
  /\ UNCHANGED <<bankVars, got, earlier>>

Effect(c) ==
  Write(c) \/ Purge(c) \/ Fetch(c) \/ Delete(c) \/ Update(c) \/ SetFields(c)

(* The call takes effect and returns, or its answer is lost.               *)
Lands(c) ==
  /\ phase[c] \in {"running", "counted"}
  /\ Effect(c)
  /\ \E normally \in BOOLEAN : Return(c, normally)
  /\ UNCHANGED <<events, callVars>>

(* The call fails without effect; a fetch then answers with nothing.       *)
Fails(c) ==
  /\ phase[c] \in {"running", "counted"}
  /\ Return(c, FALSE)
  /\ UNCHANGED <<events, callVars, got, bankVars, profileVars>>

Next ==
  \/ \E s \in Sessions, answered \in BOOLEAN : AgentTurn(s, answered)
  \/ \E u \in Users, operation \in {"create", "purge", "fetch"} : Request(u, operation)
  \/ \E u \in Users, operation \in {"delete", "update"} : Change(u, operation)
  \/ \E u \in Users, f \in Fields : UpdateProfile(u, f)
  \/ \E c \in Calls : CountFirst(c) \/ Lands(c) \/ Fails(c)

Spec == Init /\ [][Next]_vars

TypeOK ==
  /\ events \in [Sessions -> Seq(BOOLEAN)]
  /\ \A s \in Sessions : Len(events[s]) <= MaxTurns
  /\ op \in [Calls -> Ops] /\ user \in [Calls -> Users]
  /\ session \in [Calls -> Sessions]
  /\ about \in [Calls -> Nat \X Turns]
  /\ field \in [Calls -> Fields]
  /\ phase \in [Calls -> {"free", "running", "counted", "returned"}]
  /\ ok \in [Calls -> BOOLEAN]
  /\ got \in [Calls -> SUBSET Calls]
  /\ store \subseteq Memory /\ gone \subseteq Calls
  /\ profile \in [Users -> [Fields -> 0 .. MaxCalls]]
  /\ before \in [Calls -> SUBSET Calls] /\ earlier \in [Calls -> SUBSET Calls]

-----------------------------------------------------------------------------
(* What was purged or deleted never comes back, whatever was in flight     *)
(* then and whatever is updated later.                                     *)
PurgedStaysGone == gone \cap Stored = {}

(* DELETE /memories: when the purge really went through, everything whose  *)
(* writing had ended before the request is gone for good.                  *)
ClearedIsGone ==
  \A c \in Calls : op[c] = "purge" /\ ok[c] => before[c] \cap Stored = {}

(* POST /memories: a resource name in the 201 is that of a memory that was *)
(* written, with the caller's scope, and is there unless it was cleared.   *)
NamedIsStored ==
  \A c \in Calls : op[c] = "create" /\ ok[c] =>
    c \in gone \/ \E m \in store : m.by = c /\ m.user = user[c]

(* GET /memories shows the caller what was written for the caller, also    *)
(* when other users' calls are in flight.                                  *)
FetchShowsOwn ==
  \A c \in Calls : op[c] \in {"fetch", "purge"} =>
    \A d \in got[c] : op[d] \in Writers /\ user[d] = user[c]

(* update_profile returned: its field then holds that update or one that   *)
(* ran beside it or was asked for later.  No update of the same or of      *)
(* another field brings back a value that had been set before, or empties  *)
(* the field.                                                              *)
ProfileIsFresh ==
  \A c \in Calls : op[c] = "profile" /\ ok[c] =>
    profile[user[c]][field[c]] \notin earlier[c] \cup {0}

(* Forgetting is final and complete.                                       *)
ClearedStaysGone == PurgedStaysGone /\ ClearedIsGone

(* What a caller is told of the bank is true: names that were handed out,  *)
(* memories that were read.                                                *)
ToldIsTrue == NamedIsStored /\ FetchShowsOwn
=============================================================================

---------------------------- MODULE AgentsProofs ----------------------------
(***************************************************************************)
(* TLAPS proofs about the agents of a session, for every set of names and  *)
(* every limit: the tracker (AgentLifecycle), whose depth and whose walks  *)
(* through the tree rest on the induction of ListingProofs, the agents a   *)
(* task is given (Synthesis), for every registry and every search, and the *)
(* instructions an agent gets (Instructions), for any number of layers and *)
(* files of any length.                                                    *)
(***************************************************************************)
EXTENDS AgentLifecycle, Synthesis, Instructions, ListingProofs

-----------------------------------------------------------------------------
(* Lemmas about sequences and finite sets. *)

LEMMA AppendRange ==
  ASSUME NEW S, NEW s \in Seq(S), NEW x \in S
  PROVE  /\ Append(s, x) \in Seq(S)
         /\ ToSet(Append(s, x)) = ToSet(s) \cup {x}
         /\ DOMAIN Append(s, x) = DOMAIN s \cup {Len(s) + 1}
         /\ Len(Append(s, x)) = Len(s) + 1
         /\ Append(s, x)[Len(s) + 1] = x
         /\ \A k \in DOMAIN s : Append(s, x)[k] = s[k]
<1>1. Append(s, x) \in Seq(S) /\ Len(Append(s, x)) = Len(s) + 1
  OBVIOUS
<1>2. DOMAIN s = 1 .. Len(s) /\ DOMAIN Append(s, x) = 1 .. (Len(s) + 1)
  OBVIOUS
<1>3. /\ Append(s, x)[Len(s) + 1] = x
      /\ \A k \in DOMAIN s : Append(s, x)[k] = s[k]
  OBVIOUS
<1>4. DOMAIN Append(s, x) = DOMAIN s \cup {Len(s) + 1}
  BY <1>2
<1> QED
  BY <1>1, <1>3, <1>4 DEF ToSet

LEMMA EmptyRange == ToSet(<<>>) = {} /\ DOMAIN <<>> = {}
  BY DEF ToSet

LEMMA KnownNames ==
  ASSUME TypeOK
  PROVE  Known \subseteq Names
BY DEF TypeOK, Known, ToSet

LEMMA RunningFinite ==
  ASSUME TypeOK
  PROVE  IsFiniteSet(Running) /\ Cardinality(Running) \in Nat
<1>1. Running \subseteq Names
  BY DEF Running, Known, ToSet, TypeOK
<1> QED
  BY <1>1, LimitsAssumption, FS_Subset, FS_CardinalityType

LEMMA WorkingFinite ==
  ASSUME TypeOK
  PROVE  IsFiniteSet(working) /\ Cardinality(working) \in Nat
<1>1. IsFiniteSet(1 .. MaxSpawns)
  BY LimitsAssumption, FS_Interval
<1>2. working \subseteq 1 .. MaxSpawns
  BY DEF TypeOK
<1> QED
  BY <1>1, <1>2, FS_Subset, FS_CardinalityType

-----------------------------------------------------------------------------
LEMMA InitInv == Init => IInv
<1> SUFFICES ASSUME Init PROVE IInv
  OBVIOUS
<1>1. TypeOK
  BY LimitsAssumption DEF Init, TypeOK, Statuses
<1>2. HistoryMatchesTree
  BY EmptyRange DEF Init, HistoryMatchesTree, Known, ChildrenOf
<1>3. FreshHistory
  BY EmptyRange DEF Init, FreshHistory, IsInjective
<1>4. Known = {} /\ Running = {}
  BY EmptyRange DEF Init, Known, Running
<1>5. LinksFollowBirth
  BY <1>4 DEF LinksFollowBirth
<1>6. SlotPerRunningNode /\ ExactSlots
  BY <1>4, FS_EmptySet DEF Init, SlotPerRunningNode, ExactSlots
<1> QED
  BY <1>1, <1>2, <1>3, <1>5, <1>6 DEF IInv

-----------------------------------------------------------------------------
(* A spawn. *)

(* What a spawn does to the tree and the history, as sets. *)
LEMMA SpawnEffect ==
  ASSUME IInv, NEW n \in Names, NEW p \in Names \cup {NoParent}, Spawn(n, p)
  PROVE  /\ order' \in Seq(Names) /\ Known' = Known \cup {n}
         /\ children' \in [Names -> Seq(Names)]
         /\ ToSet(children'[n]) = IF p = n THEN {n} ELSE {}
         /\ \A m \in Names \ {n} :
              ToSet(children'[m]) = IF m = p /\ p \in Known
                                      THEN ChildrenOf(m) \cup {n} ELSE ChildrenOf(m)
         /\ spawned' \in Seq(Names) /\ ToSet(spawned') = ToSet(spawned) \cup {n}
         /\ Len(spawned') = Len(spawned) + 1
         /\ DOMAIN spawned' = DOMAIN spawned \cup {Len(spawned) + 1}
         /\ spawned'[Len(spawned) + 1] = n
         /\ \A k \in DOMAIN spawned : spawned'[k] = spawned[k]
<1> USE DEF IInv, TypeOK
<1> DEFINE fresh == [children EXCEPT ![n] = <<>>]
<1>1. order' \in Seq(Names) /\ Known' = Known \cup {n}
  <2>1. CASE n \in Known
    BY <2>1 DEF Spawn, LinkNode, Known
  <2>2. CASE n \notin Known
    BY <2>2, AppendRange DEF Spawn, LinkNode, Known
  <2> QED
    BY <2>1, <2>2
<1>2. fresh \in [Names -> Seq(Names)]
  OBVIOUS
<1>3. children' = IF p \in Known \cup {n} THEN [fresh EXCEPT ![p] = Append(@, n)]
                                          ELSE fresh
  BY DEF Spawn, LinkNode
<1>4. Known \cup {n} \subseteq Names
  BY DEF Known, ToSet
<1>5. children' \in [Names -> Seq(Names)]
  BY <1>2, <1>3, <1>4, AppendRange
<1>6. ToSet(children'[n]) = IF p = n THEN {n} ELSE {}
  <2>1. CASE p = n
    <3>1. children'[n] = <<n>>
      BY <2>1, <1>2, <1>3
    <3>2. ToSet(<<n>>) = {n}
      BY DEF ToSet
    <3> QED
      BY <2>1, <3>1, <3>2 DEF ChildrenOf
  <2>2. CASE p # n
    <3>1. children'[n] = <<>>
      BY <2>2, <1>2, <1>3, <1>4
    <3> QED
      BY <2>2, <3>1, EmptyRange DEF ChildrenOf
  <2> QED
    BY <2>1, <2>2
<1>7. ASSUME NEW m \in Names \ {n}
      PROVE  ToSet(children'[m]) = IF m = p /\ p \in Known
                                     THEN ChildrenOf(m) \cup {n} ELSE ChildrenOf(m)
  <2>1. CASE m = p /\ p \in Known
    <3>1. children'[m] = Append(children[m], n)
      BY <2>1, <1>2, <1>3
    <3>2. ToSet(Append(children[m], n)) = ToSet(children[m]) \cup {n}
      BY AppendRange
    <3> QED
      BY <2>1, <3>1, <3>2 DEF ChildrenOf
  <2>2. CASE ~(m = p /\ p \in Known)
    <3>1. children'[m] = children[m]
      BY <2>2, <1>2, <1>3, <1>4
    <3> QED
      BY <2>2, <3>1 DEF ChildrenOf
  <2> QED
    BY <2>1, <2>2
<1>8. spawned' = Append(spawned, n) /\ spawned \in Seq(Names)
  BY DEF Spawn, StartAgent
<1>9. /\ spawned' \in Seq(Names) /\ ToSet(spawned') = ToSet(spawned) \cup {n}
      /\ Len(spawned') = Len(spawned) + 1
      /\ DOMAIN spawned' = DOMAIN spawned \cup {Len(spawned) + 1}
      /\ spawned'[Len(spawned) + 1] = n
      /\ \A k \in DOMAIN spawned : spawned'[k] = spawned[k]
  <2>1. /\ Append(spawned, n) \in Seq(Names)
        /\ ToSet(Append(spawned, n)) = ToSet(spawned) \cup {n}
        /\ Len(Append(spawned, n)) = Len(spawned) + 1
        /\ DOMAIN Append(spawned, n) = DOMAIN spawned \cup {Len(spawned) + 1}
        /\ Append(spawned, n)[Len(spawned) + 1] = n
        /\ \A k \in DOMAIN spawned : Append(spawned, n)[k] = spawned[k]
    BY <1>8, AppendRange
  <2> QED
    BY <1>8, <2>1, Zenon
<1> HIDE DEF IInv, TypeOK, fresh
<1> QED
  BY <1>1, <1>5, <1>6, <1>7, <1>9

LEMMA SpawnType ==
  ASSUME IInv, NEW n \in Names, NEW p \in Names \cup {NoParent}, Spawn(n, p)
  PROVE  TypeOK'
<1>1. /\ Len(spawned) \in Nat /\ Len(spawned) + 1 <= MaxSpawns
      /\ Len(spawned) + 1 \in 1 .. MaxSpawns
  BY LimitsAssumption DEF Spawn, CallerMaySpawn, IInv, TypeOK
<1>2. active' \in 0 .. MaxPerSession
  BY LimitsAssumption DEF Spawn, StartAgent, IInv, TypeOK
<1>3. /\ parent' \in [Names -> Names \cup {NoParent}]
      /\ status' \in [Names -> Statuses]
  BY DEF Spawn, StartAgent, Statuses, IInv, TypeOK
<1>4. birth' \in [Names -> 0 .. MaxSpawns]
  BY <1>1 DEF Spawn, StartAgent, IInv, TypeOK
<1>5. working' \subseteq 1 .. MaxSpawns
  <2>1. working' = working \cup {Len(spawned) + 1} /\ working \subseteq 1 .. MaxSpawns
    BY DEF Spawn, StartAgent, IInv, TypeOK
  <2> QED
    BY <1>1, <2>1
<1>6. /\ order' \in Seq(Names) /\ children' \in [Names -> Seq(Names)]
      /\ spawned' \in Seq(Names) /\ Len(spawned') = Len(spawned) + 1
  BY SpawnEffect
<1> QED
  BY <1>1, <1>2, <1>3, <1>4, <1>5, <1>6 DEF TypeOK

LEMMA SpawnHistory ==
  ASSUME IInv, NEW n \in Names, NEW p \in Names \cup {NoParent}, Spawn(n, p)
  PROVE  HistoryMatchesTree'
<1> USE SpawnEffect
<1>1. /\ Known' = Known \cup {n} /\ Known = ToSet(spawned)
      /\ ToSet(spawned') = ToSet(spawned) \cup {n}
  BY DEF IInv, HistoryMatchesTree
<1>2. working' \subseteq DOMAIN spawned'
  BY DEF Spawn, StartAgent, IInv, HistoryMatchesTree
<1>3. \A m \in Known' : birth'[m] <= Len(spawned')
  <2>1. /\ birth' = [birth EXCEPT ![n] = Len(spawned) + 1]
        /\ birth \in [Names -> 0 .. MaxSpawns] /\ Len(spawned) \in Nat
        /\ Known \subseteq Names
    BY DEF Spawn, StartAgent, IInv, TypeOK, Known, ToSet
  <2>2. \A m \in Known : birth[m] <= Len(spawned)
    BY DEF IInv, HistoryMatchesTree
  <2>3. Len(spawned') = Len(spawned) + 1
    OBVIOUS
  <2> QED
    BY <1>1, <2>1, <2>2, <2>3, LimitsAssumption
<1>4. ASSUME NEW m \in Names PROVE ChildrenOf(m)' \subseteq Known'
  <2>1. ChildrenOf(m) \subseteq Known
    BY DEF IInv, HistoryMatchesTree
  <2>2. ToSet(children'[m]) \subseteq Known \cup {n}
    <3>1. CASE m = n
      <4>1. ToSet(children'[n]) \subseteq {n}
        OBVIOUS
      <4> QED
        BY <3>1, <4>1
    <3>2. CASE m # n
      <4>1. ToSet(children'[m]) \subseteq ChildrenOf(m) \cup {n}
        BY <3>2
      <4> QED
        BY <2>1, <4>1
    <3> QED
      BY <3>1, <3>2
  <2> QED
    BY <1>1, <2>2 DEF ChildrenOf
<1> QED
  BY <1>1, <1>2, <1>3, <1>4 DEF HistoryMatchesTree

LEMMA SpawnFresh ==
  ASSUME IInv, NEW n \in Names, NEW p \in Names \cup {NoParent}, Spawn(n, p)
  PROVE  FreshHistory'
<1> SUFFICES ASSUME FreshNames
             PROVE  /\ IsInjective(spawned')
                    /\ \A k \in DOMAIN spawned' :
                         k \in working' <=> status'[spawned'[k]] = "running"
  BY DEF FreshHistory
<1>1. n \notin ToSet(spawned)
  BY DEF Spawn, CallerMaySpawn, IInv, HistoryMatchesTree
<1>2. \A k \in DOMAIN spawned : spawned[k] # n /\ spawned[k] \in Names
  BY <1>1 DEF ToSet, IInv, TypeOK
<1>3. Len(spawned) + 1 \notin DOMAIN spawned
  BY DEF IInv, TypeOK
<1>4. IsInjective(spawned')
  <2>1. /\ DOMAIN spawned' = DOMAIN spawned \cup {Len(spawned) + 1}
        /\ spawned'[Len(spawned) + 1] = n
        /\ \A k \in DOMAIN spawned : spawned'[k] = spawned[k]
    BY SpawnEffect
  <2>2. \A j, k \in DOMAIN spawned : spawned[j] = spawned[k] => j = k
    BY DEF IInv, FreshHistory, IsInjective
  <2>3. \A j, k \in DOMAIN spawned' : spawned'[j] = spawned'[k] => j = k
    BY <1>2, <2>1, <2>2
  <2> QED
    BY <2>3 DEF IsInjective
<1>5. /\ status' = [status EXCEPT ![n] = "running"]
      /\ status \in [Names -> Statuses]
      /\ working' = working \cup {Len(spawned) + 1}
  BY DEF Spawn, StartAgent, IInv, TypeOK
<1>6. \A k \in DOMAIN spawned : k \in working <=> status[spawned[k]] = "running"
  BY DEF IInv, FreshHistory
<1>7. ASSUME NEW k \in DOMAIN spawned
      PROVE  k \in working' <=> status'[spawned'[k]] = "running"
  BY <1>2, <1>3, <1>5, <1>6, SpawnEffect
<1>8. /\ spawned'[Len(spawned) + 1] = n
      /\ DOMAIN spawned' = DOMAIN spawned \cup {Len(spawned) + 1}
  BY SpawnEffect
<1>9. Len(spawned) + 1 \in working' /\ status'[spawned'[Len(spawned) + 1]] = "running"
  BY <1>5, <1>8
<1>10. \A k \in DOMAIN spawned' : k \in working' <=> status'[spawned'[k]] = "running"
  BY <1>7, <1>8, <1>9
<1> QED
  BY <1>4, <1>10

LEMMA SpawnLinks ==
  ASSUME IInv, NEW n \in Names, NEW p \in Names \cup {NoParent}, Spawn(n, p)
  PROVE  LinksFollowBirth'
<1> SUFFICES ASSUME NEW q \in Known', NEW c \in ChildrenOf(q)'
             PROVE  q = c \/ birth'[q] < birth'[c]
  BY DEF LinksFollowBirth
<1>1. /\ birth' = [birth EXCEPT ![n] = Len(spawned) + 1]
      /\ birth \in [Names -> 0 .. MaxSpawns] /\ Len(spawned) \in Nat
      /\ Known \subseteq Names
  BY DEF Spawn, StartAgent, IInv, TypeOK, Known, ToSet
<1>2. \A m \in Known : birth[m] <= Len(spawned)
  BY DEF IInv, HistoryMatchesTree
<1>3. CASE q = n
  <2>1. ToSet(children'[n]) \subseteq {n}
    BY SpawnEffect
  <2> QED
    BY <1>3, <2>1 DEF ChildrenOf
<1>4. CASE q # n
  <2>1. q \in Known /\ q \in Names
    BY <1>1, <1>4, SpawnEffect
  <2>2. c = n \/ c \in ChildrenOf(q)
    <3>1. ToSet(children'[q]) \subseteq ChildrenOf(q) \cup {n}
      BY <1>4, <2>1, SpawnEffect
    <3> QED
      BY <3>1 DEF ChildrenOf
  <2>3. CASE c = n
    BY <1>1, <1>2, <1>4, <2>1, <2>3, LimitsAssumption
  <2>4. CASE c # n
    <3>1. c \in ChildrenOf(q) /\ c \in Names
      BY <2>1, <2>2, <2>4, <1>1 DEF IInv, HistoryMatchesTree
    <3>2. q = c \/ birth[q] < birth[c]
      BY <2>1, <3>1 DEF IInv, LinksFollowBirth
    <3> QED
      BY <1>1, <1>4, <2>1, <2>4, <3>1, <3>2
  <2> QED
    BY <2>3, <2>4
<1> QED
  BY <1>3, <1>4

LEMMA SpawnSlots ==
  ASSUME IInv, NEW n \in Names, NEW p \in Names \cup {NoParent}, Spawn(n, p)
  PROVE  SlotPerRunningNode' /\ ExactSlots'
<1>1. TypeOK /\ active \in Nat /\ active' = active + 1
  BY LimitsAssumption DEF IInv, TypeOK, Spawn, StartAgent
<1>2. SlotPerRunningNode'
  <2>1. Running' = Running \cup {n}
    <3>1. Known \subseteq Names /\ status \in [Names -> Statuses]
      BY DEF Known, ToSet, IInv, TypeOK
    <3>2. status' = [status EXCEPT ![n] = "running"]
      BY DEF Spawn, StartAgent
    <3>3. Known' = Known \cup {n}
      BY SpawnEffect
    <3> QED
      BY <3>1, <3>2, <3>3 DEF Running
  <2>2. /\ Cardinality(Running) \in Nat
        /\ Cardinality(Running') = IF n \in Running THEN Cardinality(Running)
                                                    ELSE Cardinality(Running) + 1
    BY <1>1, <2>1, RunningFinite, FS_AddElement
  <2> QED
    BY <1>1, <2>2 DEF SlotPerRunningNode, IInv
<1>3. ExactSlots'
  <2>1. /\ working' = working \cup {Len(spawned) + 1}
        /\ Len(spawned) + 1 \notin working
    BY DEF Spawn, StartAgent, IInv, TypeOK, HistoryMatchesTree
  <2>2. Cardinality(working') = Cardinality(working) + 1
    BY <1>1, <2>1, WorkingFinite, FS_AddElement
  <2> QED
    BY <1>1, <2>2 DEF ExactSlots, IInv
<1> QED
  BY <1>2, <1>3

-----------------------------------------------------------------------------
(* A report of an agent's end. *)

LEMMA FinishType ==
  ASSUME IInv, NEW n \in Names, NEW outcome \in {"done", "failed"},
         MarkFinished(n, outcome), working' \subseteq working
  PROVE  TypeOK' /\ HistoryMatchesTree' /\ LinksFollowBirth'
<1> USE LimitsAssumption DEF IInv, MarkFinished, nodeVars
<1>1. active' \in 0 .. MaxPerSession
  BY DEF TypeOK, ReleaseSlot
<1>2. status' \in [Names -> Statuses]
  BY DEF TypeOK, Statuses
<1>3. TypeOK'
  BY <1>1, <1>2 DEF TypeOK
<1>4. HistoryMatchesTree' /\ LinksFollowBirth'
  BY DEF HistoryMatchesTree, LinksFollowBirth, Known, ChildrenOf
<1> QED
  BY <1>3, <1>4

LEMMA FinishSlotPerRunningNode ==
  ASSUME IInv, NEW n \in Names, NEW outcome \in {"done", "failed"},
         MarkFinished(n, outcome)
  PROVE  SlotPerRunningNode'
<1>1. TypeOK /\ active \in Nat /\ n \in Known
  BY LimitsAssumption DEF IInv, TypeOK, MarkFinished
<1>2. Running' = Running \ {n}
  <2>1. Known \subseteq Names /\ status \in [Names -> Statuses] /\ Known' = Known
    BY DEF Known, ToSet, IInv, TypeOK, MarkFinished, nodeVars
  <2>2. status' = [status EXCEPT ![n] = outcome] /\ outcome # "running"
    BY DEF MarkFinished
  <2> QED
    BY <2>1, <2>2 DEF Running
<1>3. /\ Cardinality(Running) \in Nat
      /\ Cardinality(Running') = IF n \in Running THEN Cardinality(Running) - 1
                                                  ELSE Cardinality(Running)
  BY <1>1, <1>2, RunningFinite, FS_RemoveElement
<1>4. Cardinality(Running) <= active
  BY DEF IInv, SlotPerRunningNode
<1>5. Cardinality(Running') <= active'
  <2>1. CASE n \in Running
    <3>1. status[n] = "running"
      BY <2>1 DEF Running
    <3>2. active' = IF active > 0 THEN active - 1 ELSE active
      BY <3>1 DEF MarkFinished, ReleaseSlot
    <3>3. Cardinality(Running) > 0
      BY <2>1, <1>1, <1>3, RunningFinite, FS_EmptySet
    <3> QED
      BY <1>1, <1>3, <1>4, <2>1, <3>2, <3>3
  <2>2. CASE n \notin Running
    <3>1. active' = active
      BY <1>1, <2>2 DEF Running, MarkFinished, ReleaseSlot
    <3> QED
      BY <1>3, <1>4, <2>2, <3>1
  <2> QED
    BY <2>1, <2>2
<1> QED
  BY <1>5 DEF SlotPerRunningNode

(* Under FreshNames, a report releases a slot exactly if its spawn is at work. *)
LEMMA FreshRelease ==
  ASSUME IInv, FreshNames, NEW k \in DOMAIN spawned, NEW outcome \in {"done", "failed"},
         MarkFinished(spawned[k], outcome), working' = working \ {k}
  PROVE  FreshHistory' /\ ExactSlots'
<1>1. TypeOK /\ active \in Nat /\ spawned[k] \in Names
  BY LimitsAssumption DEF IInv, TypeOK
<1>2. /\ status' = [status EXCEPT ![spawned[k]] = outcome] /\ outcome # "running"
      /\ status \in [Names -> Statuses] /\ spawned' = spawned
  BY DEF MarkFinished, IInv, TypeOK
<1>3. /\ IsInjective(spawned) /\ active = Cardinality(working)
      /\ \A j \in DOMAIN spawned : j \in working <=> status[spawned[j]] = "running"
  BY DEF IInv, FreshHistory, ExactSlots
<1>4. FreshHistory'
  <2>1. ASSUME NEW j \in DOMAIN spawned, j # k
        PROVE  j \in working' <=> status'[spawned[j]] = "running"
    <3>1. spawned[j] # spawned[k] /\ spawned[j] \in Names
      BY <1>3, <2>1 DEF IsInjective, IInv, TypeOK
    <3> QED
      BY <1>2, <1>3, <2>1, <3>1
  <2>2. k \notin working' /\ status'[spawned[k]] # "running"
    BY <1>1, <1>2
  <2> QED
    BY <1>2, <1>3, <2>1, <2>2 DEF FreshHistory
<1>5. ExactSlots'
  <2>1. /\ Cardinality(working) \in Nat
        /\ Cardinality(working') = IF k \in working THEN Cardinality(working) - 1
                                                    ELSE Cardinality(working)
    BY <1>1, WorkingFinite, FS_RemoveElement
  <2>2. k \in working => Cardinality(working) > 0
    BY <1>1, <2>1, WorkingFinite, FS_EmptySet
  <2>3. active' = IF k \in working /\ active > 0 THEN active - 1 ELSE active
    BY <1>3 DEF MarkFinished, ReleaseSlot
  <2> QED
    BY <1>1, <1>3, <2>1, <2>2, <2>3 DEF ExactSlots
<1> QED
  BY <1>4, <1>5

-----------------------------------------------------------------------------
LEMMA StepInv == IInv /\ [Next]_vars => IInv'
<1> SUFFICES ASSUME IInv, [Next]_vars PROVE IInv'
  OBVIOUS
<1>1. ASSUME NEW n \in Names, NEW p \in Names \cup {NoParent}, Spawn(n, p)
      PROVE  IInv'
  BY <1>1, SpawnType, SpawnHistory, SpawnFresh, SpawnLinks, SpawnSlots DEF IInv
<1>2. ASSUME NEW k \in DOMAIN spawned, NEW outcome \in {"done", "failed"},
             MarkFinished(spawned[k], outcome), working' = working \ {k}
      PROVE  IInv'
  <2>1. spawned[k] \in Names
    BY DEF IInv, TypeOK
  <2>2. TypeOK' /\ HistoryMatchesTree' /\ LinksFollowBirth' /\ SlotPerRunningNode'
    BY <1>2, <2>1, FinishType, FinishSlotPerRunningNode
  <2>3. FreshHistory' /\ ExactSlots'
    BY <1>2, FreshRelease DEF FreshHistory, ExactSlots
  <2> QED
    BY <2>2, <2>3 DEF IInv
<1>3. ASSUME NEW k \in 1 .. MaxSpawns, NEW outcome \in {"done", "failed"},
             Finish(k, outcome)
      PROVE  IInv'
  <2>1. k \in DOMAIN spawned
    BY <1>3 DEF Finish, IInv, HistoryMatchesTree
  <2> QED
    BY <1>2, <1>3, <2>1 DEF Finish
<1>4. ASSUME NEW k \in 1 .. MaxSpawns, NEW outcome \in {"done", "failed"},
             ReportAgain(k, outcome)
      PROVE  IInv'
  <2>1. k \in DOMAIN spawned /\ working' = working \ {k}
    BY <1>4 DEF ReportAgain
  <2> QED
    BY <1>2, <1>4, <2>1 DEF ReportAgain
<1>5. ASSUME UNCHANGED vars PROVE IInv'
  BY <1>5 DEF vars, IInv, TypeOK, HistoryMatchesTree, FreshHistory,
              LinksFollowBirth, SlotPerRunningNode, ExactSlots, Known,
              ChildrenOf, Running
<1> QED
  BY <1>1, <1>3, <1>4, <1>5 DEF Next

(* The inductive invariant holds in every behaviour of the tracker. *)
THEOREM Invariance == Spec => []IInv
  BY InitInv, StepInv, PTL DEF Spec

(* Every variable keeps its type: the slot counter stays within            *)
(* max_agents_per_session for every limit.                                 *)
THEOREM TypeCorrect == Spec => []TypeOK
<1>1. IInv => TypeOK
  BY DEF IInv
<1> QED
  BY <1>1, Invariance, PTL

(* A running node always has a slot, for every pattern of reuse of names,  *)
(* unknown parents and repeated reports.                                   *)
THEOREM SlotsCoverRunning == Spec => []SlotPerRunningNode
<1>1. IInv => SlotPerRunningNode
  BY DEF IInv
<1> QED
  BY <1>1, Invariance, PTL

(* Without reuse of names, the slot counter is the number of agents at     *)
(* work, however late or often their ends are reported.                    *)
THEOREM SlotsExact == Spec => []ExactSlots
<1>1. IInv => ExactSlots
  BY DEF IInv
<1> QED
  BY <1>1, Invariance, PTL

(* Links always lead from an older spawn to a younger one, so the only     *)
(* cycle the tree can hold is an agent that is its own parent.             *)
THEOREM LinksOrdered == Spec => []LinksFollowBirth
<1>1. IInv => LinksFollowBirth
  BY DEF IInv
<1> QED
  BY <1>1, Invariance, PTL
-----------------------------------------------------------------------------
(* Depth, while callers use fresh names and known parents. *)

LEMMA AboveFinite ==
  ASSUME TypeOK, NEW n
  PROVE  IsFiniteSet(Above(n)) /\ Depth(n) \in Nat /\ Above(n) \subseteq Known
<1>1. Above(n) \subseteq Known /\ Known \subseteq Names
  BY DEF Above, Known, ToSet, TypeOK
<1>2. Above(n) \in SUBSET Names
  BY <1>1
<1> QED
  BY <1>1, <1>2, LimitsAssumption, FS_Subset, FS_CardinalityType DEF Depth

(* A set that holds n's parent and the parents of its members holds all    *)
(* that is above n; what is above n is such a set.                         *)
LEMMA AboveLeast ==
  ASSUME NEW n, NEW up \in SUBSET Known, Parents({n} \cup up) \subseteq up
  PROVE  Above(n) \subseteq up
BY DEF Above

LEMMA AboveClosed ==
  ASSUME NEW n
  PROVE  Parents({n} \cup Above(n)) \subseteq Above(n)
<1> SUFFICES ASSUME NEW m \in {n} \cup Above(n), parent[m] \in Known,
                    NEW up \in SUBSET Known, Parents({n} \cup up) \subseteq up
             PROVE  parent[m] \in up
  BY DEF Above, Parents
<1>1. m \in {n} \cup up
  BY AboveLeast
<1> QED
  BY <1>1 DEF Parents

(* A spawn leaves the agents known before where they are. *)
LEMMA SpawnKeepsAbove ==
  ASSUME IInv, ProperTree, NEW n \in Names, NEW p \in Names \cup {NoParent},
         Spawn(n, p), n \notin Known, NEW m \in Known
  PROVE  Above(m)' = Above(m)
<1>1. Known' = Known \cup {n} /\ Known \subseteq Names
  BY SpawnEffect, KnownNames DEF IInv
<1>2. \A x \in Known : parent'[x] = parent[x] /\ parent[x] # n
  <2>1. parent' = [parent EXCEPT ![n] = p] /\ parent \in [Names -> Names \cup {NoParent}]
    BY DEF Spawn, StartAgent, IInv, TypeOK
  <2>2. \A x \in Known : parent[x] \in Known \cup {NoParent}
    BY DEF ProperTree
  <2> QED
    BY <1>1, <2>1, <2>2, LimitsAssumption
<1>3. Above(m) \subseteq Known
  BY AboveFinite DEF IInv
<1>4. Above(m)' \subseteq Above(m)
  <2>1. Parents({m} \cup Above(m)) \subseteq Above(m)
    BY AboveClosed
  <2>2. ASSUME NEW x \in {m} \cup Above(m), parent'[x] \in Known' PROVE parent'[x] \in Above(m)
    <3>1. x \in Known
      BY <1>3
    <3>2. parent'[x] = parent[x] /\ parent[x] \in Known
      BY <1>1, <1>2, <2>2, <3>1
    <3> QED
      BY <2>1, <3>2 DEF Parents
  <2>3. {parent'[x] : x \in {m} \cup Above(m)} \cap Known' \subseteq Above(m)
    BY <2>2
  <2>4. Above(m) \in SUBSET Known'
    BY <1>1, <1>3
  <2>5. \A x \in Above(m)' : \A up \in SUBSET Known' :
          {parent'[y] : y \in {m} \cup up} \cap Known' \subseteq up => x \in up
    BY DEF Above, Parents
  <2> QED
    BY <2>3, <2>4, <2>5
<1>5. Above(m) \subseteq Above(m)'
  <2> SUFFICES ASSUME NEW x \in Above(m), NEW up \in SUBSET Known',
                      {parent'[y] : y \in {m} \cup up} \cap Known' \subseteq up
               PROVE  x \in up
    BY <1>1, <1>3 DEF Above, Parents
  <2>1. Parents({m} \cup (up \cap Known)) \subseteq up \cap Known
    <3> SUFFICES ASSUME NEW y \in {m} \cup (up \cap Known), parent[y] \in Known
                 PROVE  parent[y] \in up
      BY DEF Parents
    <3>1. y \in Known /\ parent'[y] = parent[y] /\ parent[y] \in Known'
      BY <1>1, <1>2
    <3>2. y \in {m} \cup up
      OBVIOUS
    <3>3. parent'[y] \in up
      BY <3>1, <3>2
    <3> QED
      BY <3>1, <3>3
  <2>2. up \cap Known \in SUBSET Known
    OBVIOUS
  <2> QED
    BY <2>1, <2>2, AboveLeast
<1> QED
  BY <1>4, <1>5

(* A new agent is at most one below its parent. *)
LEMMA SpawnDepth ==
  ASSUME IInv, ProperTree, NEW n \in Names, NEW p \in Known \cup {NoParent},
         Spawn(n, p), n \notin Known
  PROVE  Depth(n)' <= MaxDepth
<1>1. Known \subseteq Names /\ p \in Names \cup {NoParent} /\ Known' = Known \cup {n}
  <2>1. Known \subseteq Names
    BY KnownNames DEF IInv
  <2>2. p \in Names \cup {NoParent}
    BY <2>1
  <2> QED
    BY <2>1, <2>2, SpawnEffect
<1>2. /\ parent' = [parent EXCEPT ![n] = p]
      /\ parent \in [Names -> Names \cup {NoParent}]
  BY DEF Spawn, StartAgent, IInv, TypeOK
<1>3. /\ parent'[n] = p
      /\ \A x \in Known : parent'[x] = parent[x] /\ parent[x] # n
  <2>1. \A x \in Known : parent[x] \in Known \cup {NoParent}
    BY DEF ProperTree
  <2> QED
    BY <1>1, <1>2, <2>1, LimitsAssumption
<1>4. \A up \in SUBSET Known' :
        {parent'[y] : y \in {n} \cup up} \cap Known' \subseteq up => Above(n)' \subseteq up
  BY DEF Above, Parents
<1>5. CASE p = NoParent
  <2>1. NoParent \notin Known'
    BY <1>1, LimitsAssumption
  <2>2. {parent'[y] : y \in {n} \cup {}} \cap Known' \subseteq {}
    BY <1>3, <1>5, <2>1
  <2>3. Above(n)' = {}
    BY <1>4, <2>2
  <2>4. Depth(n)' = 0
    BY <2>3, FS_EmptySet DEF Depth
  <2> QED
    BY <2>4, LimitsAssumption
<1>6. CASE p \in Known
  <2> DEFINE up == Above(p) \cup {p}
  <2>1. /\ IsFiniteSet(Above(p)) /\ Depth(p) \in Nat /\ Above(p) \subseteq Known
        /\ Parents({p} \cup Above(p)) \subseteq Above(p)
    BY AboveFinite, AboveClosed DEF IInv
  <2>2. {parent'[y] : y \in {n} \cup up} \cap Known' \subseteq up
    <3> SUFFICES ASSUME NEW y \in {n} \cup up, parent'[y] \in Known' PROVE parent'[y] \in up
      OBVIOUS
    <3>1. CASE y = n
      BY <1>3, <3>1
    <3>2. CASE y \in up
      <4>1. y \in Known /\ parent'[y] = parent[y] /\ parent[y] \in Known
        BY <1>1, <1>3, <1>6, <2>1, <3>2
      <4> QED
        BY <2>1, <3>2, <4>1 DEF Parents
    <3> QED
      BY <3>1, <3>2
  <2>3. up \in SUBSET Known'
    BY <1>1, <1>6, <2>1
  <2>4. Above(n)' \subseteq up
    BY <1>4, <2>2, <2>3
  <2>5. IsFiniteSet(up) /\ Cardinality(up) \in Nat /\ Cardinality(up) <= Depth(p) + 1
    <3>1. Depth(p) = Cardinality(Above(p))
      BY DEF Depth
    <3>2. /\ IsFiniteSet(up)
          /\ Cardinality(up) = IF p \in Above(p) THEN Depth(p) ELSE Depth(p) + 1
      BY <2>1, <3>1, FS_AddElement
    <3> HIDE DEF up
    <3> QED
      BY <2>1, <3>2, FS_CardinalityType
  <2>6. Above(n)' \in SUBSET up
    BY <2>4
  <2>7. Cardinality(Above(n)') <= Cardinality(up) /\ IsFiniteSet(Above(n)')
    BY <2>5, <2>6, FS_Subset
  <2>8. Cardinality(Above(n)') \in Nat
    BY <2>7, FS_CardinalityType
  <2>9. Depth(p) < MaxDepth
    BY <1>1, <1>6, LimitsAssumption DEF Spawn, DepthAllows
  <2>10. Depth(n)' = Cardinality(Above(n)')
    BY DEF Depth
  <2> HIDE DEF up
  <2> QED
    BY <2>1, <2>5, <2>7, <2>8, <2>9, <2>10, LimitsAssumption
<1> QED
  BY <1>5, <1>6

-----------------------------------------------------------------------------
(* The tree, while callers use fresh names and known parents. *)

(* What such a spawn does to the tree. *)
LEMMA SpawnGrows ==
  ASSUME IInv, ProperTree, NEW n \in Names, NEW p \in Known \cup {NoParent},
         Spawn(n, p), n \notin Known
  PROVE  /\ order' = Append(order, n) /\ Known' = Known \cup {n}
         /\ parent'[n] = p /\ \A x \in Known : parent'[x] = parent[x] /\ parent[x] # n
         /\ children'[n] = <<>>
         /\ \A x \in Known : children'[x] = IF x = p THEN Append(children[x], n)
                                                    ELSE children[x]
         /\ birth'[n] = Len(spawned) + 1 /\ \A x \in Known : birth'[x] = birth[x]
         /\ \A x \in Known : birth[x] \in Nat /\ birth[x] <= Len(spawned)
<1>1. Known \subseteq Names /\ TypeOK
  BY KnownNames DEF IInv
<1>2. p \in Names \cup {NoParent} /\ p # n /\ \A x \in Known : x # n /\ x \in Names
  BY <1>1, LimitsAssumption
<1>3. order' = Append(order, n) /\ Known' = Known \cup {n}
  BY <1>2, SpawnEffect DEF Spawn, LinkNode
<1>4. parent'[n] = p /\ \A x \in Known : parent'[x] = parent[x] /\ parent[x] # n
  <2>1. parent' = [parent EXCEPT ![n] = p] /\ parent \in [Names -> Names \cup {NoParent}]
    BY <1>1 DEF Spawn, StartAgent, TypeOK
  <2>2. \A x \in Known : parent[x] \in Known \cup {NoParent}
    BY DEF ProperTree
  <2> QED
    BY <1>2, <2>1, <2>2, LimitsAssumption
<1>5. /\ children'[n] = <<>>
      /\ \A x \in Known : children'[x] = IF x = p THEN Append(children[x], n)
                                                 ELSE children[x]
  <2> DEFINE fresh == [children EXCEPT ![n] = <<>>]
  <2>1. /\ fresh \in [Names -> Seq(Names)] /\ fresh[n] = <<>>
        /\ \A x \in Known : fresh[x] = children[x]
    BY <1>1, <1>2 DEF TypeOK
  <2>2. children' = IF p \in Known \cup {n} THEN [fresh EXCEPT ![p] = Append(@, n)]
                                            ELSE fresh
    BY DEF Spawn, LinkNode
  <2> HIDE DEF fresh
  <2> QED
    BY <1>2, <2>1, <2>2, LimitsAssumption
<1>6. birth'[n] = Len(spawned) + 1 /\ \A x \in Known : birth'[x] = birth[x]
  BY <1>1, <1>2 DEF Spawn, StartAgent, TypeOK
<1>7. \A x \in Known : birth[x] \in Nat /\ birth[x] <= Len(spawned)
  BY <1>1, <1>2, LimitsAssumption DEF IInv, TypeOK, HistoryMatchesTree
<1> QED
  BY <1>3, <1>4, <1>5, <1>6, <1>7

(* A sequence stays injective when it is extended by something new. *)
LEMMA AppendKeepsInjective ==
  ASSUME NEW S, NEW s \in Seq(S), NEW x \in S, IsInjective(s), x \notin ToSet(s)
  PROVE  IsInjective(Append(s, x))
<1>1. \A k \in DOMAIN s : s[k] # x
  BY DEF ToSet
<1> QED
  BY <1>1 DEF IsInjective

LEMMA SpawnProper ==
  ASSUME IInv, ProperTree, NEW n \in Names, NEW p \in Known \cup {NoParent},
         Spawn(n, p), n \notin Known
  PROVE  ProperTree'
<1>1. /\ order' = Append(order, n) /\ Known' = Known \cup {n}
      /\ parent'[n] = p /\ \A x \in Known : parent'[x] = parent[x] /\ parent[x] # n
      /\ children'[n] = <<>>
      /\ \A x \in Known : children'[x] = IF x = p THEN Append(children[x], n)
                                                 ELSE children[x]
      /\ birth'[n] = Len(spawned) + 1 /\ \A x \in Known : birth'[x] = birth[x]
      /\ \A x \in Known : birth[x] \in Nat /\ birth[x] <= Len(spawned)
  BY SpawnGrows
<1>2. TypeOK /\ Known \subseteq Names /\ p # n /\ NoParent \notin Known'
  BY <1>1, KnownNames, LimitsAssumption DEF IInv
<1>3. IsInjective(order')
  <2>1. order \in Seq(Names) /\ IsInjective(order) /\ n \notin ToSet(order)
    BY <1>2 DEF TypeOK, ProperTree, Known
  <2>2. IsInjective(Append(order, n))
    BY <2>1, AppendKeepsInjective
  <2> QED
    BY <1>1, <2>2
<1>4. \A x \in Known' : parent'[x] \in Known' \cup {NoParent}
  BY <1>1 DEF ProperTree
<1>5. ASSUME NEW x \in Known' PROVE IsInjective(children'[x])
  <2>1. CASE x = n
    BY <1>1, <2>1 DEF IsInjective
  <2>2. CASE x \in Known
    <3>1. /\ children[x] \in Seq(Names) /\ IsInjective(children[x])
          /\ ToSet(children[x]) \subseteq Known
      BY <1>2, <2>2 DEF TypeOK, ProperTree, IInv, HistoryMatchesTree, ChildrenOf
    <3>2. n \notin ToSet(children[x])
      BY <3>1
    <3>3. IsInjective(Append(children[x], n))
      BY <3>1, <3>2, AppendKeepsInjective
    <3>4. children'[x] = IF x = p THEN Append(children[x], n) ELSE children[x]
      BY <1>1, <2>2
    <3> QED
      BY <3>1, <3>3, <3>4, Zenon
  <2> QED
    BY <1>1, <2>1, <2>2
<1>6. ASSUME NEW x \in Known', NEW c \in Known'
      PROVE  c \in ChildrenOf(x)' <=> parent'[c] = x
  <2>1. CASE x = n
    <3>1. ChildrenOf(x)' = {}
      BY <1>1, <2>1, EmptyRange DEF ChildrenOf
    <3>2. parent'[c] # n
      BY <1>1, <1>2
    <3> QED
      BY <2>1, <3>1, <3>2
  <2>2. CASE x \in Known
    <3>1. children[x] \in Seq(Names) /\ ChildrenOf(x) \subseteq Known
      BY <1>2, <2>2 DEF TypeOK, IInv, HistoryMatchesTree
    <3>2. ChildrenOf(x)' = IF x = p THEN ChildrenOf(x) \cup {n} ELSE ChildrenOf(x)
      <4>1. ToSet(Append(children[x], n)) = ToSet(children[x]) \cup {n}
        BY <3>1, AppendRange
      <4>2. children'[x] = IF x = p THEN Append(children[x], n) ELSE children[x]
        BY <1>1, <2>2
      <4>3. ToSet(children'[x]) = IF x = p THEN ToSet(children[x]) \cup {n} ELSE ToSet(children[x])
        BY <4>1, <4>2, Zenon
      <4> QED
        BY <4>3 DEF ChildrenOf
    <3>3. c \in Known => (c \in ChildrenOf(x) <=> parent[c] = x)
      BY <2>2 DEF ProperTree
    <3> QED
      BY <1>1, <2>2, <3>1, <3>2, <3>3
  <2> QED
    BY <1>1, <2>1, <2>2
<1>7. ASSUME NEW x \in Known', parent'[x] \in Known'
      PROVE  birth'[parent'[x]] < birth'[x]
  <2>1. Len(spawned) \in Nat
    BY <1>2 DEF TypeOK
  <2>2. CASE x = n
    <3>1. p \in Known
      BY <1>1, <1>2, <1>7, <2>2
    <3> QED
      BY <1>1, <2>1, <2>2, <3>1
  <2>3. CASE x \in Known
    <3>1. parent'[x] = parent[x] /\ parent[x] \in Known
      BY <1>1, <1>7, <2>3
    <3>2. birth[parent[x]] < birth[x]
      BY <2>3, <3>1 DEF ProperTree
    <3> QED
      BY <1>1, <2>3, <3>1, <3>2
  <2> QED
    BY <1>1, <2>2, <2>3
<1> QED
  BY <1>3, <1>4, <1>5, <1>6, <1>7 DEF ProperTree

LEMMA InitTree == Init => TreeInv
<1> SUFFICES ASSUME Init PROVE ProperTree /\ DepthWithinLimit
  BY DEF TreeInv
<1>1. Known = {} /\ IsInjective(order)
  BY EmptyRange DEF Init, Known, IsInjective
<1> QED
  BY <1>1 DEF ProperTree, DepthWithinLimit

(* An ended agent changes nothing in the tree. *)
LEMMA SameTree ==
  ASSUME nodeVars' = nodeVars, birth' = birth
  PROVE  /\ Known' = Known /\ \A n : Depth(n)' = Depth(n)
         /\ ProperTree <=> ProperTree'
         /\ DepthWithinLimit <=> DepthWithinLimit'
<1>1. Known' = Known
  BY DEF nodeVars, Known
<1>2. \A n : Depth(n)' = Depth(n)
  BY <1>1 DEF nodeVars, Depth, Above, Parents
<1>3. ProperTree <=> ProperTree'
  BY <1>1 DEF nodeVars, ProperTree, ChildrenOf
<1>4. DepthWithinLimit <=> DepthWithinLimit'
  BY <1>1, <1>2 DEF DepthWithinLimit
<1> QED
  BY <1>1, <1>2, <1>3, <1>4

LEMMA SpawnIsFresh ==
  ASSUME FreshNames, KnownParents, NEW n \in Names, NEW p \in Names \cup {NoParent},
         Spawn(n, p)
  PROVE  n \notin Known /\ p \in Known \cup {NoParent}
BY DEF Spawn, CallerMaySpawn

(* The step of the depth theorems: no known agent changes its depth. *)
LEMMA StepDepth ==
  ASSUME FreshNames, KnownParents, IInv, ProperTree, [Next]_vars
  PROVE  \A m \in Known : Depth(m)' = Depth(m)
<1>1. ASSUME NEW n \in Names, NEW p \in Names \cup {NoParent}, Spawn(n, p), NEW m \in Known
      PROVE  Depth(m)' = Depth(m)
  <2>1. Above(m)' = Above(m)
    BY <1>1, SpawnIsFresh, SpawnKeepsAbove
  <2> QED
    BY <2>1 DEF Depth
<1>2. ASSUME nodeVars' = nodeVars, birth' = birth, NEW m \in Known
      PROVE  Depth(m)' = Depth(m)
  BY <1>2, SameTree
<1> QED
  BY <1>1, <1>2 DEF Next, Finish, ReportAgain, MarkFinished, vars, nodeVars

LEMMA StepTree == IInv /\ TreeInv /\ [Next]_vars => TreeInv'
<1> SUFFICES ASSUME FreshNames, KnownParents, IInv, ProperTree, DepthWithinLimit, [Next]_vars
             PROVE  ProperTree' /\ DepthWithinLimit'
  BY DEF TreeInv
<1>1. ASSUME NEW n \in Names, NEW p \in Names \cup {NoParent}, Spawn(n, p)
      PROVE  ProperTree' /\ DepthWithinLimit'
  <2>1. n \notin Known /\ p \in Known \cup {NoParent}
    BY <1>1, SpawnIsFresh
  <2>2. ProperTree'
    BY <1>1, <2>1, SpawnProper
  <2>3. Known' = Known \cup {n} /\ Depth(n)' <= MaxDepth
    BY <1>1, <2>1, SpawnEffect, SpawnDepth
  <2>4. \A m \in Known : Depth(m)' = Depth(m)
    BY StepDepth
  <2>5. ASSUME NEW m \in Known' PROVE Depth(m)' <= MaxDepth
    BY <2>3, <2>4 DEF DepthWithinLimit
  <2>6. DepthWithinLimit'
    BY <2>5 DEF DepthWithinLimit
  <2> QED
    BY <2>2, <2>6
<1>2. ASSUME nodeVars' = nodeVars, birth' = birth
      PROVE  ProperTree' /\ DepthWithinLimit'
  BY <1>2, SameTree
<1> QED
  BY <1>1, <1>2 DEF Next, Finish, ReportAgain, MarkFinished, vars, nodeVars

LEMMA TreeInvariance == Spec => [](IInv /\ TreeInv)
<1>1. Init => IInv /\ TreeInv
  BY InitInv, InitTree
<1>2. IInv /\ TreeInv /\ [Next]_vars => (IInv /\ TreeInv)'
  BY StepInv, StepTree
<1> QED
  BY <1>1, <1>2, PTL DEF Spec

(* With fresh names and known parents, no agent is deeper in the tree than *)
(* max_delegation_depth, for every limit and every number of agents.       *)
THEOREM DepthBounded ==
  ASSUME FreshNames, KnownParents
  PROVE  Spec => []DepthWithinLimit
<1>1. IInv /\ TreeInv => DepthWithinLimit
  BY DEF TreeInv
<1> QED
  BY <1>1, TreeInvariance, PTL

(* With fresh names and known parents, an agent keeps its depth.           *)
THEOREM DepthStable ==
  ASSUME FreshNames, KnownParents
  PROVE  Spec => DepthIsStable
<1>1. IInv /\ TreeInv /\ [Next]_vars => [\A n \in Known : Depth(n)' = Depth(n)]_vars
  BY StepDepth DEF TreeInv
<1> QED
  BY <1>1, TreeInvariance, PTL DEF Spec, DepthIsStable
-----------------------------------------------------------------------------
(* get_tree's loop. *)

Walks == [stack : Seq(Names), listed : Seq(Names)]

(* The walk after k rounds: nothing is on the stack or in the list twice;  *)
(* what is still to come hangs on the stack; parents are listed before     *)
(* their children; and every round lists an agent until the stack is empty.*)
OnWay(w, k) ==
  /\ w \in Walks
  /\ ToSet(w.stack) \cup ToSet(w.listed) \subseteq Known
  /\ IsInjective(w.stack) /\ IsInjective(w.listed)
  /\ ToSet(w.stack) \cap ToSet(w.listed) = {}
  /\ \A n \in Known : parent[n] = NoParent => n \in ToSet(w.stack) \cup ToSet(w.listed)
  /\ \A n \in ToSet(w.listed) : ChildrenOf(n) \subseteq ToSet(w.stack) \cup ToSet(w.listed)
  /\ \A n \in ToSet(w.stack) : parent[n] = NoParent \/ parent[n] \in ToSet(w.listed)
  /\ \A i \in DOMAIN w.listed :
       parent[w.listed[i]] = NoParent \/ \E j \in 1 .. i - 1 : w.listed[j] = parent[w.listed[i]]
  /\ w.stack = <<>> \/ Len(w.listed) = k

LEMMA VisitType ==
  ASSUME TypeOK, NEW w \in Walks
  PROVE  Visit(w) \in Walks
<1>1. CASE w.stack = <<>>
  BY <1>1 DEF Visit
<1>2. CASE w.stack # <<>>
  <2>1. w.stack \in Seq(Names) /\ w.listed \in Seq(Names)
    BY DEF Walks
  <2>2. Head(w.stack) \in Names /\ Tail(w.stack) \in Seq(Names)
    BY <1>2, <2>1, HeadAndTail
  <2>3. Reverse(children[Head(w.stack)]) \in Seq(Names)
    BY <2>2, ReverseSet DEF TypeOK
  <2>4. Reverse(children[Head(w.stack)]) \o Tail(w.stack) \in Seq(Names)
    BY <2>2, <2>3, ConcatSet
  <2>5. Append(w.listed, Head(w.stack)) \in Seq(Names)
    BY <2>1, <2>2
  <2> QED
    BY <1>2, <2>4, <2>5 DEF Visit, Walks
<1> QED
  BY <1>1, <1>2

(* The walk of get_tree exists; v[k] is how far it is after k rounds.      *)
WalksUp(v, m) ==
  /\ v[0] = [stack |-> Roots, listed |-> <<>>]
  /\ \A k \in 1 .. m : v[k] = Visit(v[k - 1])
  /\ Walk(m) = v[m]

LEMMA WalkSteps ==
  ASSUME TypeOK, Roots \in Seq(Names), NEW m \in Nat
  PROVE  \E v : WalksUp(v, m)
<1> DEFINE b == [stack |-> Roots, listed |-> <<>>]
           F == [k \in Nat |-> [w \in Walks |-> Visit(w)]]
           Obeys(x) == x = [k \in 0 .. m |-> IF k = 0 THEN b ELSE Visit(x[k - 1])]
           v == CHOOSE x : Obeys(x)
<1>1. b \in Walks
  BY DEF Walks
<1>2. F \in [Nat -> [Walks -> Walks]]
  BY VisitType
<1>3. \A k \in Nat, w \in Walks : F[k][w] = Visit(w)
  OBVIOUS
<1>4. Walk(m) = v[m]
  BY Zenon DEF Walk
<1> HIDE DEF F, b
<1>5. PICK w \in [0 .. m -> Walks] : Iterates(w, b, F, m)
  BY <1>1, <1>2, Iteration
<1>6. Obeys(w)
  <2>1. ASSUME NEW k \in 0 .. m
        PROVE  w[k] = IF k = 0 THEN b ELSE Visit(w[k - 1])
    <3>1. CASE k = 0
      BY <1>5, <3>1 DEF Iterates
    <3>2. CASE k # 0
      <4>1. k \in 1 .. m /\ k - 1 \in 0 .. m /\ k \in Nat
        BY <3>2
      <4>2. w[k] = F[k][w[k - 1]] /\ w[k - 1] \in Walks
        BY <1>5, <4>1 DEF Iterates
      <4> QED
        BY <1>3, <3>2, <4>1, <4>2, Zenon
    <3> QED
      BY <3>1, <3>2
  <2> QED
    BY <2>1, Zenon
<1>7. Obeys(v)
  BY <1>6, Zenon
<1> HIDE DEF v
<1>8. ASSUME NEW k \in 0 .. m
      PROVE  v[k] = IF k = 0 THEN b ELSE Visit(v[k - 1])
  BY <1>7, Zenon
<1>9. v[0] = b
  BY <1>8
<1>10. \A k \in 1 .. m : v[k] = Visit(v[k - 1])
  <2> SUFFICES ASSUME NEW k \in 1 .. m PROVE v[k] = Visit(v[k - 1])
    OBVIOUS
  <2>1. k \in 0 .. m /\ k # 0
    OBVIOUS
  <2> QED
    BY <1>8, <2>1, Zenon
<1> QED
  BY <1>4, <1>9, <1>10 DEF WalksUp, b

(* The roots are the agents without a parent, each once.                   *)
LEMMA RootsAreRoots ==
  ASSUME IInv, ProperTree
  PROVE  /\ Roots \in Seq(Names) /\ IsInjective(Roots)
         /\ ToSet(Roots) = {n \in Known : parent[n] = NoParent}
<1> DEFINE I == {i \in DOMAIN order : parent[order[i]] = NoParent}
<1>1. order \in Seq(Names) /\ I \subseteq DOMAIN order /\ Roots = Kept(order, I)
  BY DEF IInv, TypeOK, Roots
<1>2. \A i, j \in I : order[i] = order[j] => i = j
  BY DEF ProperTree, IsInjective
<1>3. {order[i] : i \in I} = {n \in Known : parent[n] = NoParent}
  BY DEF Known, ToSet
<1> HIDE DEF I
<1> QED
  BY <1>1, <1>2, <1>3, KeptSet

LEMMA WalkStarts ==
  ASSUME IInv, ProperTree
  PROVE  OnWay([stack |-> Roots, listed |-> <<>>], 0)
<1> DEFINE w == [stack |-> Roots, listed |-> <<>>]
<1>1. w.stack = Roots /\ w.listed = <<>> /\ ToSet(<<>>) = {} /\ DOMAIN <<>> = {}
  BY EmptyRange
<1>2. w \in Walks
  BY RootsAreRoots DEF Walks
<1>3. IsInjective(<<>>) /\ Len(<<>>) = 0
  BY DEF IsInjective
<1> HIDE DEF w
<1> QED
  BY <1>1, <1>2, <1>3, RootsAreRoots DEF OnWay, w

(* The children of an agent on the stack are neither on it nor listed.     *)
LEMMA VisitKeeps ==
  ASSUME IInv, ProperTree, NEW k \in Nat, NEW w, OnWay(w, k)
  PROVE  OnWay(Visit(w), k + 1)
<1>1. w \in Walks /\ w.stack \in Seq(Names) /\ w.listed \in Seq(Names) /\ Visit(w) \in Walks
  BY VisitType DEF OnWay, Walks, IInv
<1>2. CASE w.stack = <<>>
  <2>1. Visit(w) = w
    BY <1>2 DEF Visit
  <2> QED
    BY <1>2, <2>1 DEF OnWay
<1>3. CASE w.stack # <<>>
  <2> DEFINE x == Head(w.stack)
             cs == children[x]
             v == Visit(w)
             S == ToSet(w.stack)
             L == ToSet(w.listed)
  <2>1. /\ x \in Names /\ Tail(w.stack) \in Seq(Names)
        /\ S = {x} \cup ToSet(Tail(w.stack)) /\ x \notin ToSet(Tail(w.stack))
        /\ IsInjective(Tail(w.stack))
    BY <1>1, <1>3, HeadAndTail DEF OnWay
  <2>2. x \in Known /\ S \subseteq Known /\ L \subseteq Known /\ x \notin L /\ S \cap L = {}
    BY <2>1 DEF OnWay
  <2>3. v.stack = Reverse(cs) \o Tail(w.stack) /\ v.listed = Append(w.listed, x)
    BY <1>3 DEF Visit
  <2>4. /\ cs \in Seq(Names) /\ IsInjective(cs) /\ ToSet(cs) = ChildrenOf(x)
        /\ ToSet(cs) \subseteq Known /\ \A c \in ToSet(cs) : parent[c] = x
    <3>1. cs \in Seq(Names) /\ IsInjective(cs) /\ ToSet(cs) = ChildrenOf(x)
      BY <2>1, <2>2 DEF IInv, TypeOK, ProperTree, ChildrenOf
    <3>2. ChildrenOf(x) \subseteq Known
      BY <2>1 DEF IInv, HistoryMatchesTree
    <3>3. \A c \in ChildrenOf(x) : parent[c] = x
      BY <2>2, <3>2 DEF ProperTree
    <3> QED
      BY <3>1, <3>2, <3>3
  <2>5. x # NoParent
    BY <2>1, LimitsAssumption
  <2>6. ToSet(cs) \cap (S \cup L) = {}
    <3> SUFFICES ASSUME NEW c \in ToSet(cs), c \in S \cup L PROVE FALSE
      OBVIOUS
    <3>1. parent[c] = x /\ parent[c] # NoParent
      BY <2>4, <2>5
    <3>2. CASE c \in S
      BY <2>2, <3>1, <3>2 DEF OnWay
    <3>3. CASE c \in L
      <4>1. PICK i \in DOMAIN w.listed : w.listed[i] = c
        BY <3>3 DEF ToSet
      <4>2. PICK j \in 1 .. i - 1 : w.listed[j] = x
        BY <3>1, <4>1 DEF OnWay
      <4>3. j \in DOMAIN w.listed
        BY <1>1, <4>1, <4>2
      <4> QED
        BY <2>2, <4>2, <4>3 DEF ToSet
    <3> QED
      BY <3>2, <3>3
  <2> HIDE DEF x, cs, v
  <2>7. Reverse(cs) \in Seq(Names) /\ ToSet(Reverse(cs)) = ToSet(cs) /\ IsInjective(Reverse(cs))
    BY <2>4, ReverseSet
  <2>8. /\ ToSet(v.stack) = ToSet(cs) \cup ToSet(Tail(w.stack))
        /\ IsInjective(v.stack)
    <3> DEFINE first == Reverse(cs)
               rest == Tail(w.stack)
    <3>1. /\ first \in Seq(Names) /\ rest \in Seq(Names) /\ ToSet(first) = ToSet(cs)
          /\ IsInjective(first) /\ IsInjective(rest) /\ ToSet(first) \cap ToSet(rest) = {}
      BY <2>1, <2>6, <2>7
    <3>2. v.stack = first \o rest
      BY <2>3
    <3> HIDE DEF first, rest
    <3>3. ToSet(first \o rest) = ToSet(first) \cup ToSet(rest) /\ IsInjective(first \o rest)
      BY <3>1, ConcatSet, ConcatInjective
    <3> QED
      BY <3>1, <3>2, <3>3 DEF rest
  <2>9. /\ ToSet(v.listed) = L \cup {x} /\ IsInjective(v.listed)
        /\ Len(v.listed) = Len(w.listed) + 1
        /\ DOMAIN v.listed = DOMAIN w.listed \cup {Len(w.listed) + 1}
        /\ v.listed[Len(w.listed) + 1] = x
        /\ \A i \in DOMAIN w.listed : v.listed[i] = w.listed[i]
    <3>1. IsInjective(w.listed)
      BY DEF OnWay
    <3> QED
      BY <1>1, <2>1, <2>2, <2>3, <3>1, AppendRange, AppendKeepsInjective
  <2>10. ToSet(v.stack) \cup ToSet(v.listed) = S \cup L \cup ToSet(cs)
    BY <2>1, <2>8, <2>9
  <2>11. ToSet(v.stack) \cap ToSet(v.listed) = {}
    BY <2>1, <2>2, <2>6, <2>8, <2>9
  <2>12. ASSUME NEW n \in Known, parent[n] = NoParent
         PROVE  n \in ToSet(v.stack) \cup ToSet(v.listed)
    BY <2>10, <2>12 DEF OnWay
  <2>13. ASSUME NEW n \in ToSet(v.listed)
         PROVE  ChildrenOf(n) \subseteq ToSet(v.stack) \cup ToSet(v.listed)
    <3>1. CASE n = x
      BY <2>4, <2>10, <3>1
    <3>2. CASE n \in L
      BY <2>10, <3>2 DEF OnWay
    <3> QED
      BY <2>9, <3>1, <3>2
  <2>14. ASSUME NEW n \in ToSet(v.stack)
         PROVE  parent[n] = NoParent \/ parent[n] \in ToSet(v.listed)
    <3>1. CASE n \in ToSet(cs)
      BY <2>4, <2>9, <3>1
    <3>2. CASE n \in S
      BY <2>9, <3>2 DEF OnWay
    <3> QED
      BY <2>1, <2>8, <3>1, <3>2
  <2>15. ASSUME NEW i \in DOMAIN v.listed
         PROVE  \/ parent[v.listed[i]] = NoParent
                \/ \E j \in 1 .. i - 1 : v.listed[j] = parent[v.listed[i]]
    <3>1. DOMAIN w.listed = 1 .. Len(w.listed) /\ Len(w.listed) \in Nat
      BY <1>1
    <3>2. CASE i \in DOMAIN w.listed
      <4>1. v.listed[i] = w.listed[i]
        BY <2>9, <3>2
      <4>2. CASE parent[w.listed[i]] # NoParent
        <5>1. PICK j \in 1 .. i - 1 : w.listed[j] = parent[w.listed[i]]
          BY <3>2, <4>2 DEF OnWay
        <5>2. j \in DOMAIN w.listed
          BY <3>1, <3>2, <5>1
        <5> QED
          BY <2>9, <4>1, <5>1, <5>2
      <4> QED
        BY <4>1, <4>2
    <3>3. CASE i = Len(w.listed) + 1
      <4>1. v.listed[i] = x
        BY <2>9, <3>3
      <4>2. CASE parent[x] # NoParent
        <5>1. parent[x] \in L
          BY <2>1, <4>2 DEF OnWay
        <5>2. PICK j \in DOMAIN w.listed : w.listed[j] = parent[x]
          BY <5>1 DEF ToSet
        <5>3. j \in 1 .. i - 1 /\ v.listed[j] = parent[x]
          BY <2>9, <3>1, <3>3, <5>2
        <5> QED
          BY <4>1, <5>3
      <4> QED
        BY <4>1, <4>2
    <3> QED
      BY <2>9, <3>2, <3>3
  <2>16. Len(v.listed) = k + 1
    BY <1>3, <2>9 DEF OnWay
  <2>17. ToSet(v.stack) \cup ToSet(v.listed) \subseteq Known
    BY <2>2, <2>4, <2>10
  <2>18. v \in Walks
    BY <1>1 DEF v
  <2>19. OnWay(v, k + 1)
    BY <2>8, <2>9, <2>11, <2>12, <2>13, <2>14, <2>15, <2>16, <2>17, <2>18 DEF OnWay
  <2> QED
    BY <2>19 DEF v
<1> QED
  BY <1>2, <1>3

(* After as many rounds as there are agents, the stack is empty and every  *)
(* agent is listed.                                                        *)
LEMMA WalkEnds ==
  ASSUME IInv, ProperTree, NEW w, OnWay(w, Len(order))
  PROVE  w.stack = <<>> /\ ToSet(w.listed) = Known
<1>1. /\ w.stack \in Seq(Names) /\ w.listed \in Seq(Names)
      /\ order \in Seq(Names) /\ Len(order) \in Nat
  BY DEF OnWay, Walks, IInv, TypeOK
<1>2. /\ IsFiniteSet(Known) /\ Cardinality(Known) = Len(order)
      /\ IsFiniteSet(ToSet(w.listed)) /\ Cardinality(ToSet(w.listed)) = Len(w.listed)
  BY <1>1, InjectiveSize DEF OnWay, ProperTree, Known
<1>3. w.stack = <<>>
  <2> SUFFICES ASSUME w.stack # <<>> PROVE FALSE
    OBVIOUS
  <2>1. Head(w.stack) \in ToSet(w.stack)
    BY <1>1, HeadAndTail
  <2>2. Head(w.stack) \notin ToSet(w.listed) /\ Head(w.stack) \in Known
    BY <2>1 DEF OnWay
  <2>3. Cardinality(ToSet(w.listed)) = Cardinality(Known)
    BY <1>2 DEF OnWay
  <2>4. ToSet(w.listed) \in SUBSET Known
    BY DEF OnWay
  <2>5. ToSet(w.listed) = Known
    BY <1>2, <2>3, <2>4, FS_Subset
  <2> QED
    BY <2>2, <2>5
<1>4. ToSet(w.stack) = {}
  BY <1>3, EmptyRange
<1>5. ToSet(w.listed) = Known
  <2> SUFFICES ASSUME Known \ ToSet(w.listed) # {} PROVE FALSE
    BY DEF OnWay
  <2> DEFINE late == {birth[n] : n \in Known \ ToSet(w.listed)}
  <2>1. \A n \in Known : birth[n] \in Nat
    BY KnownNames, LimitsAssumption DEF IInv, TypeOK
  <2>2. late \subseteq Nat /\ late # {}
    BY <2>1
  <2>3. PICK first \in late : \A other \in late : first <= other
    BY <2>2, Least
  <2>4. PICK n \in Known \ ToSet(w.listed) : \A m \in Known \ ToSet(w.listed) : birth[n] <= birth[m]
    BY <2>3
  <2>5. parent[n] \in Known /\ parent[n] # NoParent
    BY <1>4, <2>4 DEF OnWay, ProperTree
  <2>6. birth[parent[n]] < birth[n]
    BY <2>4, <2>5 DEF ProperTree
  <2>7. parent[n] \in ToSet(w.listed)
    BY <2>1, <2>4, <2>5, <2>6
  <2>8. n \in ChildrenOf(parent[n])
    BY <2>4, <2>5 DEF ProperTree
  <2> QED
    BY <1>4, <2>4, <2>7, <2>8 DEF OnWay
<1> QED
  BY <1>3, <1>5

LEMMA TreeListed ==
  ASSUME IInv, ProperTree
  PROVE  TreeIsComplete
<1> DEFINE m == Len(order)
<1>1. m \in Nat /\ TypeOK
  BY DEF IInv, TypeOK
<1> HIDE DEF m
<1>2. PICK v : WalksUp(v, m)
  BY <1>1, RootsAreRoots, WalkSteps
<1>3. OnWay(Walk(m), m)
  <2> DEFINE T == {k \in 0 .. m : OnWay(v[k], k)}
  <2>1. 0 \in T
    BY <1>1, <1>2, WalkStarts DEF WalksUp
  <2>2. ASSUME NEW k \in 0 .. m - 1, k \in T PROVE k + 1 \in T
    <3>1. k \in Nat /\ k + 1 \in 1 .. m /\ (k + 1) - 1 = k /\ k + 1 \in 0 .. m
      BY <1>1
    <3>2. v[k + 1] = Visit(v[k])
      BY <1>2, <3>1 DEF WalksUp
    <3>3. OnWay(Visit(v[k]), k + 1)
      BY <2>2, <3>1, VisitKeeps
    <3> QED
      BY <3>1, <3>2, <3>3
  <2> HIDE DEF T
  <2>3. \A k \in 0 .. m : k \in T
    BY <1>1, <2>1, <2>2, UpTo
  <2>4. OnWay(v[m], m)
    BY <1>1, <2>3 DEF T
  <2> QED
    BY <1>2, <2>4 DEF WalksUp
<1> DEFINE w == Walk(m)
<1>4. w.stack = <<>> /\ ToSet(w.listed) = Known /\ IsInjective(w.listed)
  <2>1. OnWay(w, Len(order))
    BY <1>3 DEF m
  <2> HIDE DEF w
  <2> QED
    BY <2>1, WalkEnds DEF OnWay
<1>5. ASSUME NEW i \in DOMAIN w.listed, NEW k \in DOMAIN w.listed,
             parent[w.listed[k]] = w.listed[i]
      PROVE  i < k
  <2>1. OnWay(w, m)
    BY <1>3
  <2> HIDE DEF w
  <2>2. w.listed \in Seq(Names)
    BY <2>1 DEF OnWay, Walks
  <2>3. w.listed[i] \in Names /\ w.listed[i] # NoParent
    BY <2>2, LimitsAssumption
  <2>4. PICK j \in 1 .. k - 1 : w.listed[j] = parent[w.listed[k]]
    BY <1>5, <2>1, <2>3 DEF OnWay
  <2>5. j \in DOMAIN w.listed /\ j < k
    BY <2>2
  <2>6. j = i
    BY <1>4, <1>5, <2>4, <2>5 DEF IsInjective
  <2> QED
    BY <2>5, <2>6
<1> HIDE DEF w
<1> QED
  BY <1>4, <1>5 DEF TreeIsComplete, w, m

(* With fresh names and known parents, get_tree lists every agent once and *)
(* after its parent, in as many rounds as there are agents: its loop ends. *)
THEOREM TreeComplete ==
  ASSUME FreshNames, KnownParents
  PROVE  Spec => []TreeIsComplete
<1>1. IInv /\ TreeInv => TreeIsComplete
  BY TreeListed DEF TreeInv
<1> QED
  BY <1>1, TreeInvariance, PTL


(***************************************************************************)
(* Synthesis: what a pass makes of a registry, a task and what was found.  *)
(***************************************************************************)
(* The pairs of candidates of which the first is the better match.         *)
Better == {c \in Candidates \X Candidates : Precedes(c[1], c[2])}

LEMMA RegistryType ==
  ASSUME registry \in Registries
  PROVE  /\ registry \in Seq(Templates) /\ DOMAIN registry = 1 .. Len(registry)
         /\ Len(registry) \in Nat
         /\ \A i \in DOMAIN registry : registry[i] \in Templates
         /\ \A t \in Templates :
              t.domain \subseteq Words /\ t.priority \in Nat /\ t.builds \in BOOLEAN
         /\ \A i, j \in DOMAIN registry : registry[i].base = registry[j].base => i = j
<1>1. registry \in Seq(Templates)
  BY SynthesisAssumption
<1>2. \A i, j \in DOMAIN registry : registry[i].base = registry[j].base => i = j
  BY SynthesisAssumption
<1>3. \A t \in Templates : t.domain \subseteq Words /\ t.priority \in Nat /\ t.builds \in BOOLEAN
  BY SynthesisAssumption
<1> QED
  BY <1>1, <1>2, <1>3

LEMMA ScoreType ==
  ASSUME registry \in Registries, task \in SUBSET Words, NEW i \in DOMAIN registry
  PROVE  Score(registry[i]) \in Nat
<1>1. task \cap registry[i].domain \in SUBSET Words
  OBVIOUS
<1>2. IsFiniteSet(task \cap registry[i].domain)
  BY <1>1, SynthesisAssumption, FS_Subset
<1> QED
  BY <1>2, FS_CardinalityType DEF Score

LEMMA CandidatesOrdered ==
  ASSUME registry \in Registries, task \in SUBSET Words
  PROVE  /\ IsFiniteSet(Candidates) /\ Candidates \subseteq DOMAIN registry
         /\ Orders(Better, Candidates)
         /\ \A i, j \in Candidates : <<i, j>> \in Better <=> Precedes(i, j)
<1>1. Candidates \in SUBSET DOMAIN registry
  BY DEF Candidates
<1>2. DOMAIN registry = 1 .. Len(registry) /\ Len(registry) \in Nat
  BY RegistryType
<1>3. IsFiniteSet(1 .. Len(registry))
  BY <1>2, FS_Interval
<1>4. IsFiniteSet(Candidates)
  BY <1>1, <1>2, <1>3, FS_Subset
<1>5. \A i, j \in Candidates : <<i, j>> \in Better <=> Precedes(i, j)
  BY DEF Better
<1>6. \A i \in Candidates :
        i \in Nat /\ Score(registry[i]) \in Nat /\ registry[i].priority \in Nat
  BY <1>1, <1>2, ScoreType, RegistryType
<1>7. \A i, j, k \in Candidates : Precedes(i, j) /\ Precedes(j, k) => Precedes(i, k)
  BY <1>6 DEF Precedes
<1>8. \A i \in Candidates : ~Precedes(i, i)
  BY <1>6 DEF Precedes
<1>9. \A i, j \in Candidates : i # j => Precedes(i, j) \/ Precedes(j, i)
  BY <1>6 DEF Precedes
<1>10. Orders(Better, Candidates)
  BY <1>5, <1>7, <1>8, <1>9 DEF Orders
<1> QED
  BY <1>1, <1>4, <1>5, <1>10

LEMMA RankedByPlace ==
  ASSUME registry \in Registries, task \in SUBSET Words
  PROVE  /\ Ranked \in Seq(Candidates)
         /\ \A k \in DOMAIN Ranked : Place(Ranked[k]) = k
         /\ \A i \in Candidates : Place(i) \in DOMAIN Ranked /\ Ranked[Place(i)] = i
         /\ \A i, j \in Candidates : Precedes(i, j) => Place(i) < Place(j)
<1> DEFINE C == Candidates
           A == Better
<1>1. /\ IsFiniteSet(C) /\ Orders(A, C)
      /\ \A i, j \in C : <<i, j>> \in A <=> Precedes(i, j)
  BY CandidatesOrdered
<1>2. Ranked = InOrder(C, A)
  BY DEF Ranked, Better
<1>3. \A i \in C : Place(i) = PlaceIn(C, A, i)
  <2> SUFFICES ASSUME NEW i \in C PROVE Place(i) = PlaceIn(C, A, i)
    OBVIOUS
  <2>1. {j \in Candidates : Precedes(j, i)} = {j \in C : <<j, i>> \in A}
    BY <1>1
  <2> QED
    BY <2>1 DEF Place, PlaceIn
<1> HIDE DEF C, A
<1>4. Ordered(InOrder(C, A), C, A)
  BY <1>1, InOrderSorts
<1>5. \A i, j \in C : <<i, j>> \in A => PlaceIn(C, A, i) < PlaceIn(C, A, j)
  BY <1>1, PlaceProperties
<1>6. /\ Ranked \in Seq(C) /\ DOMAIN Ranked = 1 .. Cardinality(C)
      /\ \A k \in DOMAIN Ranked : Ranked[k] \in C /\ PlaceIn(C, A, Ranked[k]) = k
      /\ \A i \in C : PlaceIn(C, A, i) \in DOMAIN Ranked /\ Ranked[PlaceIn(C, A, i)] = i
  BY <1>2, <1>4 DEF Ordered
<1>7. /\ \A k \in DOMAIN Ranked : Place(Ranked[k]) = k
      /\ \A i \in C : Place(i) \in DOMAIN Ranked /\ Ranked[Place(i)] = i
  BY <1>3, <1>6
<1>8. \A i, j \in C : Precedes(i, j) => Place(i) < Place(j)
  BY <1>1, <1>3, <1>5
<1> QED
  BY <1>6, <1>7, <1>8 DEF C

(* The templates whose agents are built, and where they come from.         *)
LEMMA BestAreFirst ==
  ASSUME registry \in Registries, task \in SUBSET Words
  PROVE  /\ BestTemplates \in Seq(Templates) /\ Len(BestTemplates) <= MaxAgents
         /\ DOMAIN BestTemplates = {k \in DOMAIN Ranked : k <= MaxAgents}
         /\ \A k \in DOMAIN BestTemplates :
              Ranked[k] \in Candidates /\ BestTemplates[k] = registry[Ranked[k]]
<1> DEFINE best == FirstOf(Ranked, MaxAgents)
           R == Ranked
           C == Candidates
<1>1. R \in Seq(C) /\ MaxAgents \in Nat
  BY RankedByPlace, SynthesisAssumption
<1>2. C \subseteq DOMAIN registry /\ \A i \in DOMAIN registry : registry[i] \in Templates
  BY CandidatesOrdered, RegistryType
<1>3. BestTemplates = [k \in DOMAIN best |-> registry[best[k]]]
  BY DEF BestTemplates
<1> HIDE DEF R, C
<1>4. /\ best \in Seq(C) /\ DOMAIN best = {k \in DOMAIN R : k <= MaxAgents}
      /\ \A k \in DOMAIN best : best[k] = R[k]
      /\ Len(best) <= MaxAgents
  <2>1. FirstOf(R, MaxAgents) \in Seq(C)
    BY <1>1, FirstOfProperties
  <2>2. /\ Len(FirstOf(R, MaxAgents)) = IF Len(R) < MaxAgents THEN Len(R) ELSE MaxAgents
        /\ DOMAIN FirstOf(R, MaxAgents) = {k \in DOMAIN R : k <= MaxAgents}
        /\ \A k \in DOMAIN FirstOf(R, MaxAgents) : FirstOf(R, MaxAgents)[k] = R[k]
    BY <1>1, FirstOfProperties
  <2>3. Len(FirstOf(R, MaxAgents)) <= MaxAgents
    BY <1>1, <2>2
  <2> QED
    BY <2>1, <2>2, <2>3 DEF R
<1> HIDE DEF best
<1>5. /\ DOMAIN best = 1 .. Len(best) /\ Len(best) \in Nat
      /\ \A k \in DOMAIN best : best[k] \in C
  <2>1. best \in Seq(C)
    BY <1>4
  <2> QED
    BY ONLY <2>1
<1>6. /\ BestTemplates \in Seq(Templates) /\ Len(BestTemplates) = Len(best)
      /\ DOMAIN BestTemplates = DOMAIN best
  BY <1>2, <1>3, <1>5
<1> QED
  BY <1>3, <1>4, <1>5, <1>6 DEF R, C

LEMMA CoreAreCore ==
  ASSUME registry \in Registries
  PROVE  /\ CoreTemplates \in Seq(Templates) /\ Len(CoreTemplates) <= MaxCore
         /\ \A k \in DOMAIN CoreTemplates : \E i \in DOMAIN registry : CoreTemplates[k] = registry[i]
         /\ \A k, l \in DOMAIN CoreTemplates :
              CoreTemplates[k].base = CoreTemplates[l].base => k = l
<1> DEFINE I == {i \in DOMAIN registry : registry[i].priority = 1}
           core == Kept(registry, I)
<1>1. /\ registry \in Seq(Templates) /\ I \subseteq DOMAIN registry
      /\ \A i, j \in DOMAIN registry : registry[i].base = registry[j].base => i = j
  BY RegistryType
<1>2. CoreTemplates = FirstOf(core, MaxCore) /\ MaxCore \in Nat
  BY SynthesisAssumption DEF CoreTemplates
<1> HIDE DEF I
<1>3. core \in Seq(Templates) /\ ToSet(core) = {registry[i] : i \in I} /\ IsInjective(core)
  BY <1>1, KeptSet
<1> HIDE DEF core
<1>4. /\ \A k \in DOMAIN core : \E i \in DOMAIN registry : core[k] = registry[i]
      /\ \A k, l \in DOMAIN core : core[k].base = core[l].base => k = l
  <2>1. ASSUME NEW k \in DOMAIN core PROVE \E i \in DOMAIN registry : core[k] = registry[i]
    <3>1. core[k] \in {registry[i] : i \in I}
      BY <1>3 DEF ToSet
    <3> QED
      BY <1>1, <3>1
  <2>2. ASSUME NEW k \in DOMAIN core, NEW l \in DOMAIN core, core[k].base = core[l].base
        PROVE  k = l
    <3>1. PICK i \in DOMAIN registry : core[k] = registry[i]
      BY <2>1
    <3>2. PICK j \in DOMAIN registry : core[l] = registry[j]
      BY <2>1
    <3>3. core[k] = core[l]
      BY <1>1, <2>2, <3>1, <3>2
    <3> QED
      BY <1>3, <3>3 DEF IsInjective
  <2> QED
    BY <2>1, <2>2
<1>5. FirstOf(core, MaxCore) \in Seq(Templates)
  BY <1>2, <1>3, FirstOfProperties
<1>6. /\ Len(FirstOf(core, MaxCore)) = IF Len(core) < MaxCore THEN Len(core) ELSE MaxCore
      /\ DOMAIN FirstOf(core, MaxCore) = {k \in DOMAIN core : k <= MaxCore}
      /\ \A k \in DOMAIN FirstOf(core, MaxCore) : FirstOf(core, MaxCore)[k] = core[k]
  BY <1>2, <1>3, FirstOfProperties
<1>7. Len(FirstOf(core, MaxCore)) <= MaxCore
  BY <1>2, <1>3, <1>6
<1> QED
  BY <1>2, <1>4, <1>5, <1>6, <1>7

(* What NamesOf(Built(s), p) has: the names of those that build, in the    *)
(* order of s, each once if no base occurs twice in s.                     *)
NamesBuilt(r, s, p) ==
  /\ ToSet(r) = {UniqueName(s[k].base, p) : k \in {l \in DOMAIN s : s[l].builds}}
  /\ Len(r) <= Len(s)
  /\ (\A k, l \in DOMAIN s : s[k].base = s[l].base => k = l) => IsInjective(r)
  /\ \A k, l \in DOMAIN s : k < l /\ s[k].builds /\ s[l].builds =>
       \E x, y \in DOMAIN r :
         x < y /\ r[x] = UniqueName(s[k].base, p) /\ r[y] = UniqueName(s[l].base, p)

LEMMA BuiltNames ==
  ASSUME NEW S, NEW s \in Seq(S), NEW p
  PROVE  /\ NamesOf(Built(s), p) \in Seq({UniqueName(x.base, p) : x \in S})
         /\ NamesBuilt(NamesOf(Built(s), p), s, p)
<1> DEFINE I == {k \in DOMAIN s : s[k].builds}
           J == {i \in 1 .. Len(s) : i \in I}
           b == Kept(s, I)
           r == NamesOf(Built(s), p)
           Name(x) == UniqueName(x.base, p)
<1>1. DOMAIN s = 1 .. Len(s) /\ Len(s) \in Nat /\ J = I /\ \A k \in DOMAIN s : s[k] \in S
  OBVIOUS
<1>2. b = Built(s)
  BY DEF Built
<1>3. r = [k \in DOMAIN b |-> Name(b[k])]
  BY <1>2 DEF NamesOf
<1>4. PICK e : Enumerates(e, b, s, J)
  <2> HIDE DEF I
  <2> QED
    BY KeptEnumerates
<1>5. b \in Seq(S) /\ Len(b) <= Len(s)
  <2> HIDE DEF I
  <2> QED
    BY KeptEnumerates, KeptLength
<1> HIDE DEF b
<1>6. /\ DOMAIN b = 1 .. Len(b) /\ Len(b) \in Nat /\ DOMAIN r = 1 .. Len(b)
      /\ r \in Seq({Name(x) : x \in S}) /\ Len(r) = Len(b)
      /\ \A k \in 1 .. Len(b) : r[k] = Name(b[k])
  BY <1>3, <1>5
<1> HIDE DEF r
<1>7. /\ \A k \in 1 .. Len(b) : e[k] \in I /\ b[k] = s[e[k]]
      /\ \A k, l \in 1 .. Len(b) : k < l => e[k] < e[l]
      /\ \A i \in I : \E k \in 1 .. Len(b) : e[k] = i
  BY <1>1, <1>4 DEF Enumerates
<1>8. \A k \in 1 .. Len(b) : r[k] = Name(s[e[k]])
  BY <1>6, <1>7
<1>9. ToSet(r) = {Name(s[k]) : k \in I}
  <2>1. ASSUME NEW x \in ToSet(r) PROVE x \in {Name(s[k]) : k \in I}
    <3>1. PICK k \in DOMAIN r : x = r[k]
      BY DEF ToSet
    <3> QED
      BY <1>6, <1>7, <1>8, <3>1
  <2>2. ASSUME NEW i \in I PROVE Name(s[i]) \in ToSet(r)
    <3>1. PICK k \in 1 .. Len(b) : e[k] = i
      BY <1>7
    <3> QED
      BY <1>6, <1>8, <3>1 DEF ToSet
  <2> QED
    BY <2>1, <2>2
<1>10. ASSUME \A k, l \in DOMAIN s : s[k].base = s[l].base => k = l
       PROVE  IsInjective(r)
  <2> SUFFICES ASSUME NEW k \in DOMAIN r, NEW l \in DOMAIN r, r[k] = r[l] PROVE k = l
    BY DEF IsInjective
  <2>1. e[k] \in I /\ e[l] \in I /\ s[e[k]].base = s[e[l]].base
    BY <1>6, <1>7, <1>8 DEF UniqueName
  <2>2. e[k] = e[l] /\ e[k] \in Nat
    BY <1>1, <1>10, <2>1
  <2>3. ~(k < l) /\ ~(l < k)
    BY <1>6, <1>7, <2>2
  <2> QED
    BY <1>6, <2>3
<1>11. ASSUME NEW k \in I, NEW l \in I, k < l
       PROVE  \E x, y \in DOMAIN r : x < y /\ r[x] = Name(s[k]) /\ r[y] = Name(s[l])
  <2>1. PICK x \in 1 .. Len(b) : e[x] = k
    BY <1>7
  <2>2. PICK y \in 1 .. Len(b) : e[y] = l
    BY <1>7
  <2>3. k \in Nat /\ l \in Nat
    BY <1>1
  <2>4. x < y
    <3>1. CASE y < x
      <4>1. l < k
        BY <1>7, <2>1, <2>2, <3>1
      <4> QED
        BY <1>11, <2>3, <4>1
    <3>2. CASE x = y
      BY <1>11, <2>1, <2>2, <2>3, <3>2
    <3> QED
      BY <1>6, <3>1, <3>2
  <2> QED
    BY <1>6, <1>8, <2>1, <2>2, <2>4
<1>12. Len(r) <= Len(s)
  BY <1>5, <1>6
<1>13. NamesBuilt(r, s, p)
  <2>1. \A k, l \in DOMAIN s : k < l /\ s[k].builds /\ s[l].builds =>
          \E x, y \in DOMAIN r : x < y /\ r[x] = Name(s[k]) /\ r[y] = Name(s[l])
    BY <1>11
  <2>2. (\A k, l \in DOMAIN s : s[k].base = s[l].base => k = l) => IsInjective(r)
    BY <1>10
  <2> QED
    BY <1>9, <1>12, <2>1, <2>2 DEF NamesBuilt
<1> QED
  BY <1>6, <1>13 DEF r

(* The merge: no name twice, not too many, and of what there is either all *)
(* or, before anything left out, everything that comes earlier.            *)
LEMMA MergeProperties ==
  ASSUME NEW S, NEW t \in Seq(S), NEW s \in Seq(S)
  PROVE  /\ Merge(t, s) \in Seq(ToSet(s \o t)) /\ IsInjective(Merge(t, s))
         /\ Len(Merge(t, s)) <= MaxAgents
         /\ Len(s) <= MaxAgents => ToSet(s) \subseteq ToSet(Merge(t, s))
         /\ s # <<>> \/ t # <<>> => Merge(t, s) # <<>>
<1> DEFINE c == s \o t
           u == Unique(c)
           V == ToSet(c)
           m == FirstOf(u, MaxAgents)
<1>1. /\ c \in Seq(S) /\ Len(c) = Len(s) + Len(t) /\ Len(s) \in Nat /\ Len(t) \in Nat
      /\ DOMAIN c = 1 .. Len(c) /\ \A i \in 1 .. Len(s) : c[i] = s[i]
  OBVIOUS
<1>2. MaxAgents \in Nat \ {0} /\ Merge(t, s) = m
  BY SynthesisAssumption DEF Merge
<1> HIDE DEF c
<1>3. PICK e : UniqueIn(e, c)
  BY <1>1, UniqueProperties
<1>4. u \in Seq(V) /\ IsInjective(u)
  BY <1>3 DEF UniqueIn
<1>5. ASSUME NEW i \in DOMAIN c, i <= MaxAgents PROVE c[i] \in ToSet(m)
  BY <1>1, <1>2, <1>5, UniqueKeepsFirst
<1> HIDE DEF u, V
<1>6. /\ m \in Seq(V) /\ IsInjective(m)
      /\ Len(m) = IF Len(u) < MaxAgents THEN Len(u) ELSE MaxAgents
  BY <1>2, <1>4, FirstOfProperties
<1>7. Len(m) <= MaxAgents
  <2>1. Len(u) \in Nat
    BY <1>4
  <2> QED
    BY <1>2, <1>6, <2>1
<1> HIDE DEF m
<1>8. ASSUME Len(s) <= MaxAgents, NEW x \in ToSet(s) PROVE x \in ToSet(m)
  <2>1. PICK i \in DOMAIN s : x = s[i]
    BY DEF ToSet
  <2>2. i \in DOMAIN c /\ i <= MaxAgents /\ c[i] = x
    BY <1>1, <1>2, <1>8, <2>1
  <2> QED
    BY <1>5, <2>2
<1>9. ASSUME s # <<>> \/ t # <<>> PROVE m # <<>>
  <2>1. 1 \in DOMAIN c /\ 1 <= MaxAgents
    BY <1>1, <1>2, <1>9
  <2>2. c[1] \in ToSet(m)
    BY <1>5, <2>1
  <2> QED
    BY <2>2 DEF ToSet
<1> QED
  BY <1>2, <1>6, <1>7, <1>8, <1>9 DEF V, c

LEMMA MergeKeepsBetter ==
  ASSUME NEW S, NEW t \in Seq(S), NEW s \in Seq(S), ToSet(s) \cap ToSet(t) = {}, IsInjective(t),
         NEW x \in DOMAIN t, NEW y \in DOMAIN t, x < y, t[y] \in ToSet(Merge(t, s))
  PROVE  t[x] \in ToSet(Merge(t, s))
<1> DEFINE c == s \o t
           i == Len(s) + x
           j == Len(s) + y
<1>1. /\ c \in Seq(S) /\ Len(c) = Len(s) + Len(t) /\ Len(s) \in Nat /\ Len(t) \in Nat
      /\ DOMAIN c = 1 .. Len(s) + Len(t) /\ DOMAIN t = 1 .. Len(t) /\ DOMAIN s = 1 .. Len(s)
      /\ \A k \in 1 .. Len(s) : c[k] = s[k]
      /\ \A k \in 1 .. Len(t) : c[Len(s) + k] = t[k]
  OBVIOUS
<1>2. i \in DOMAIN c /\ j \in DOMAIN c /\ i < j /\ c[i] = t[x] /\ c[j] = t[y]
  BY <1>1
<1>3. ASSUME NEW l \in 1 .. j - 1 PROVE c[l] # c[j]
  <2>1. CASE l <= Len(s)
    <3>1. l \in DOMAIN s /\ c[l] = s[l]
      BY <1>1, <2>1
    <3>2. c[l] \in ToSet(s)
      BY <3>1 DEF ToSet
    <3>3. c[j] \in ToSet(t)
      BY <1>2 DEF ToSet
    <3> QED
      BY <3>2, <3>3
  <2>2. CASE Len(s) < l
    <3>1. l - Len(s) \in DOMAIN t /\ l = Len(s) + (l - Len(s)) /\ l - Len(s) # y
      BY <1>1, <2>2
    <3>2. c[l] = t[l - Len(s)]
      BY <1>1, <3>1
    <3>3. t[l - Len(s)] # t[y]
      BY <3>1 DEF IsInjective
    <3> QED
      BY <1>2, <3>2, <3>3
  <2> QED
    BY <1>1, <2>1, <2>2
<1>4. j \in Firsts(c)
  BY <1>2, <1>3 DEF Firsts
<1>5. MaxAgents \in Nat /\ Merge(t, s) = FirstOf(Unique(c), MaxAgents)
  BY SynthesisAssumption DEF Merge
<1> HIDE DEF c, i, j
<1>6. c[j] \in ToSet(FirstOf(Unique(c), MaxAgents))
  BY <1>2, <1>5
<1>7. c[i] \in ToSet(FirstOf(Unique(c), MaxAgents))
  BY <1>1, <1>2, <1>4, <1>5, <1>6, UniqueKeepsEarlier
<1> QED
  BY <1>2, <1>5, <1>7

(* The names a pass can give.                                              *)
AllNames(p) == {UniqueName(x.base, p) : x \in Templates \cup Skills}

LEMMA AllNamesOf ==
  ASSUME NEW s, NEW p, s \in Seq(Templates) \/ s \in Seq(Skills)
  PROVE  NamesOf(Built(s), p) \in Seq(AllNames(p)) /\ NamesBuilt(NamesOf(Built(s), p), s, p)
<1> DEFINE S == Templates \cup Skills
<1>1. s \in Seq(S)
  <2>1. CASE s \in Seq(Templates)
    BY <2>1
  <2>2. CASE s \in Seq(Skills)
    BY <2>2
  <2> QED
    BY <2>1, <2>2
<1> HIDE DEF S
<1>2. NamesOf(Built(s), p) \in Seq({UniqueName(x.base, p) : x \in S})
  BY <1>1, BuiltNames
<1>3. NamesBuilt(NamesOf(Built(s), p), s, p)
  BY <1>1, BuiltNames
<1> QED
  BY <1>2, <1>3 DEF AllNames, S

(* The candidates whose agents a pass has from the registry.               *)
Chosen(i) == i \in Candidates /\ Place(i) <= MaxAgents /\ registry[i].builds
NameOf(i, p) == UniqueName(registry[i].base, p)

LEMMA NamesDiffer ==
  ASSUME registry \in Registries, NEW p,
         NEW i \in DOMAIN registry, NEW j \in DOMAIN registry, NameOf(i, p) = NameOf(j, p)
  PROVE  i = j
BY RegistryType DEF NameOf, UniqueName

LEMMA RegistryAgentsProperties ==
  ASSUME registry \in Registries, task \in SUBSET Words, NEW p
  PROVE  /\ RegistryAgents(p) \in Seq(AllNames(p)) /\ IsInjective(RegistryAgents(p))
         /\ ToSet(RegistryAgents(p)) = {NameOf(i, p) : i \in {j \in Candidates : Chosen(j)}}
         /\ \A i, j \in Candidates : Chosen(i) /\ Chosen(j) /\ Precedes(i, j) =>
              \E x, y \in DOMAIN RegistryAgents(p) :
                /\ x < y /\ RegistryAgents(p)[x] = NameOf(i, p)
                /\ RegistryAgents(p)[y] = NameOf(j, p)
<1> DEFINE b == BestTemplates
           R == Ranked
<1>1. /\ b \in Seq(Templates) /\ DOMAIN b = {k \in DOMAIN R : k <= MaxAgents}
      /\ \A k \in DOMAIN b : R[k] \in Candidates /\ b[k] = registry[R[k]]
  BY BestAreFirst
<1>2. /\ \A k \in DOMAIN R : Place(R[k]) = k
      /\ \A i \in Candidates : Place(i) \in DOMAIN R /\ R[Place(i)] = i
      /\ \A i, j \in Candidates : Precedes(i, j) => Place(i) < Place(j)
  BY RankedByPlace
<1>3. Candidates \subseteq DOMAIN registry
  BY CandidatesOrdered
<1>4. NamesOf(Built(b), p) \in Seq(AllNames(p)) /\ NamesBuilt(NamesOf(Built(b), p), b, p)
  BY <1>1, AllNamesOf
<1> DEFINE r == RegistryAgents(p)
<1>5. r \in Seq(AllNames(p)) /\ NamesBuilt(r, b, p)
  BY <1>4 DEF RegistryAgents
<1>6. \A k \in DOMAIN b : b[k].builds => Chosen(R[k])
  BY <1>1, <1>2 DEF Chosen
<1>7. \A i \in Candidates : Chosen(i) =>
        Place(i) \in DOMAIN b /\ b[Place(i)] = registry[i] /\ b[Place(i)].builds
  BY <1>1, <1>2 DEF Chosen
<1> HIDE DEF b, R, r
<1>8. IsInjective(r)
  <2>1. ASSUME NEW k \in DOMAIN b, NEW l \in DOMAIN b, b[k].base = b[l].base PROVE k = l
    <3>1. R[k] = R[l]
      BY <1>1, <1>3, <2>1, RegistryType
    <3> QED
      BY <1>1, <1>2, <3>1
  <2> QED
    BY <1>5, <2>1 DEF NamesBuilt
<1>9. ToSet(r) = {NameOf(i, p) : i \in {j \in Candidates : Chosen(j)}}
  <2>1. ToSet(r) = {UniqueName(b[k].base, p) : k \in {l \in DOMAIN b : b[l].builds}}
    BY <1>5 DEF NamesBuilt
  <2>2. ASSUME NEW k \in DOMAIN b, b[k].builds
        PROVE  UniqueName(b[k].base, p) \in {NameOf(i, p) : i \in {j \in Candidates : Chosen(j)}}
    <3>1. R[k] \in Candidates /\ Chosen(R[k]) /\ NameOf(R[k], p) = UniqueName(b[k].base, p)
      BY <1>1, <1>6, <2>2 DEF NameOf
    <3> QED
      BY <3>1
  <2>3. ASSUME NEW i \in Candidates, Chosen(i) PROVE NameOf(i, p) \in ToSet(r)
    <3>1. /\ Place(i) \in DOMAIN b /\ b[Place(i)].builds
          /\ UniqueName(b[Place(i)].base, p) = NameOf(i, p)
      BY <1>7, <2>3 DEF NameOf
    <3> QED
      BY <2>1, <3>1
  <2> QED
    BY <2>1, <2>2, <2>3
<1>10. ASSUME NEW i \in Candidates, NEW j \in Candidates, Chosen(i), Chosen(j), Precedes(i, j)
       PROVE  \E x, y \in DOMAIN r : x < y /\ r[x] = NameOf(i, p) /\ r[y] = NameOf(j, p)
  <2> DEFINE k == Place(i)
             l == Place(j)
  <2>1. k < l
    BY <1>2, <1>10
  <2>2. /\ k \in DOMAIN b /\ b[k] = registry[i] /\ b[k].builds
        /\ l \in DOMAIN b /\ b[l] = registry[j] /\ b[l].builds
    BY <1>7, <1>10
  <2> HIDE DEF k, l
  <2>3. \E x, y \in DOMAIN r :
          x < y /\ r[x] = UniqueName(b[k].base, p) /\ r[y] = UniqueName(b[l].base, p)
    BY <1>5, <2>1, <2>2 DEF NamesBuilt
  <2> QED
    BY <2>2, <2>3 DEF NameOf
<1> QED
  BY <1>5, <1>8, <1>9, <1>10 DEF r

LEMMA CoreAgentsProperties ==
  ASSUME registry \in Registries, NEW p
  PROVE  /\ CoreAgents(p) \in Seq(AllNames(p)) /\ IsInjective(CoreAgents(p))
         /\ Len(CoreAgents(p)) <= MaxCore
<1> DEFINE core == CoreTemplates
           r == CoreAgents(p)
<1>1. /\ core \in Seq(Templates) /\ Len(core) <= MaxCore
      /\ \A k, l \in DOMAIN core : core[k].base = core[l].base => k = l
  BY CoreAreCore
<1>2. r \in Seq(AllNames(p)) /\ NamesBuilt(r, core, p)
  BY <1>1, AllNamesOf DEF CoreAgents
<1> HIDE DEF core, r
<1>3. IsInjective(r) /\ Len(r) <= Len(core)
  BY <1>1, <1>2 DEF NamesBuilt
<1>4. Len(r) \in Nat /\ Len(core) \in Nat /\ MaxCore \in Nat
  BY <1>1, <1>2, SynthesisAssumption
<1> QED
  BY <1>1, <1>2, <1>3, <1>4 DEF r

LEMMA SkillAgentsProperties ==
  ASSUME NEW skills \in Searches, NEW p
  PROVE  /\ SkillAgents(skills, p) \in Seq(AllNames(p))
         /\ Len(SkillAgents(skills, p)) <= MaxAgents
         /\ ToSet(SkillAgents(skills, p)) =
              {UniqueName(skills[k].base, p) : k \in {l \in DOMAIN skills : skills[l].builds}}
         /\ \A k \in DOMAIN skills : skills[k] \in Skills
<1> DEFINE r == SkillAgents(skills, p)
<1>1. MaxAgents \in Nat
  BY SynthesisAssumption
<1>2. PICK n \in 0 .. MaxAgents : skills \in [1 .. n -> Skills]
  BY DEF Searches, BoundedSeq, SeqOf
<1>3. skills \in Seq(Skills) /\ Len(skills) = n /\ \A k \in DOMAIN skills : skills[k] \in Skills
  BY <1>1, <1>2
<1>4. r \in Seq(AllNames(p)) /\ NamesBuilt(r, skills, p)
  BY <1>3, AllNamesOf DEF SkillAgents
<1> HIDE DEF r
<1>5. Len(r) \in Nat /\ Len(r) <= Len(skills)
  BY <1>4 DEF NamesBuilt
<1>6. Len(r) <= MaxAgents
  BY <1>1, <1>2, <1>3, <1>5
<1> QED
  BY <1>3, <1>4, <1>6 DEF NamesBuilt, r

(***************************************************************************)
(* One pass: what Synthesised makes of what its search found.              *)
(***************************************************************************)
(* The properties of the agents a of pass p, whose search found skills.    *)
PassIsSound(a, skills, p) ==
  /\ a \in Seq(AllNames(p)) /\ IsInjective(a)
  /\ Len(a) <= MaxAgents \/ Len(a) <= MaxCore
  /\ \A i, j \in Candidates :
       (/\ Precedes(i, j) /\ Place(i) <= MaxAgents /\ registry[i].builds
        /\ NameOf(j, p) \in ToSet(a))
       => NameOf(i, p) \in ToSet(a)
  /\ \A k \in DOMAIN skills : skills[k].builds => UniqueName(skills[k].base, p) \in ToSet(a)
  /\ \A i \in DOMAIN registry :
       (/\ i \in Candidates => Place(i) > MaxAgents
        /\ NameOf(i, p) \in ToSet(a))
       => /\ \A k \in DOMAIN skills : ~skills[k].builds
          /\ \A j \in Candidates : registry[j].builds => Place(j) > MaxAgents

LEMMA NameOfSkill ==
  ASSUME registry \in Registries, NEW skills \in Searches, NEW p,
         NEW i \in DOMAIN registry, NEW k \in DOMAIN skills
  PROVE  NameOf(i, p) # UniqueName(skills[k].base, p)
<1>1. registry[i] \in Templates /\ skills[k] \in Skills
  BY RegistryType, SkillAgentsProperties
<1>2. skills[k].base # registry[i].base
  BY <1>1, SynthesisAssumption
<1> QED
  BY <1>2 DEF NameOf, UniqueName

LEMMA PlaceType ==
  ASSUME registry \in Registries, task \in SUBSET Words
  PROVE  \A i \in Candidates : Place(i) \in Nat
<1>1. \A i \in Candidates : Place(i) \in DOMAIN Ranked
  BY RankedByPlace
<1>2. Ranked \in Seq(Candidates)
  BY RankedByPlace
<1>3. DOMAIN Ranked = 1 .. Len(Ranked)
  BY <1>2
<1> QED
  BY <1>1, <1>3

LEMMA SynthesisedIsSound ==
  ASSUME registry \in Registries, task \in SUBSET Words, NEW skills \in Searches, NEW p
  PROVE  PassIsSound(Synthesised(skills, p), skills, p)
<1> DEFINE t == RegistryAgents(p)
           s == SkillAgents(skills, p)
           S == AllNames(p)
           m == Merge(t, s)
           a == Synthesised(skills, p)
           C == CoreAgents(p)
<1> SUFFICES PassIsSound(a, skills, p)
  OBVIOUS
<1>1. a = IF m = <<>> THEN C ELSE m
  BY DEF Synthesised
<1>2. /\ t \in Seq(S) /\ IsInjective(t)
      /\ ToSet(t) = {NameOf(i, p) : i \in {j \in Candidates : Chosen(j)}}
      /\ \A i, j \in Candidates : Chosen(i) /\ Chosen(j) /\ Precedes(i, j) =>
           \E x, y \in DOMAIN t : x < y /\ t[x] = NameOf(i, p) /\ t[y] = NameOf(j, p)
  BY RegistryAgentsProperties
<1>3. /\ s \in Seq(S) /\ Len(s) <= MaxAgents
      /\ ToSet(s) = {UniqueName(skills[k].base, p) : k \in {l \in DOMAIN skills : skills[l].builds}}
  BY SkillAgentsProperties
<1>4. C \in Seq(S) /\ IsInjective(C) /\ Len(C) <= MaxCore
  BY CoreAgentsProperties
<1>5. Candidates \subseteq DOMAIN registry /\ MaxAgents \in Nat
  BY CandidatesOrdered, SynthesisAssumption
<1>6. \A i, j \in Candidates : Precedes(i, j) => Place(i) < Place(j)
  BY RankedByPlace
<1>7. \A i \in Candidates : Place(i) \in Nat
  BY PlaceType
<1> HIDE DEF t, s, S, C
<1>8. /\ m \in Seq(ToSet(s \o t)) /\ IsInjective(m) /\ Len(m) <= MaxAgents
      /\ ToSet(s) \subseteq ToSet(m)
      /\ s # <<>> \/ t # <<>> => m # <<>>
  BY <1>2, <1>3, MergeProperties
<1>9. ToSet(s \o t) = ToSet(s) \cup ToSet(t)
  BY <1>2, <1>3, ConcatSet
<1>10. ToSet(s) \subseteq S /\ ToSet(t) \subseteq S
  <2>1. \A k \in DOMAIN s : s[k] \in S
    BY <1>3
  <2>2. \A k \in DOMAIN t : t[k] \in S
    BY <1>2
  <2> QED
    BY <2>1, <2>2 DEF ToSet
<1> HIDE DEF m
<1>11. m \in Seq(S) /\ ToSet(m) \subseteq ToSet(s) \cup ToSet(t)
  <2> DEFINE V == ToSet(s \o t)
  <2>1. m \in Seq(V) /\ V \subseteq S
    BY <1>8, <1>9, <1>10
  <2>2. V = ToSet(s) \cup ToSet(t)
    BY <1>9
  <2> HIDE DEF V
  <2>3. m \in Seq(S) /\ \A k \in DOMAIN m : m[k] \in V
    BY <2>1
  <2> QED
    BY <2>2, <2>3 DEF ToSet
<1>12. \A i \in DOMAIN registry : NameOf(i, p) \notin ToSet(s)
  BY <1>3, NameOfSkill
<1>13. ToSet(s) \cap ToSet(t) = {}
  <2>1. \A x \in ToSet(t) : \E i \in DOMAIN registry : x = NameOf(i, p)
    BY <1>2, <1>5
  <2> QED
    BY <1>12, <2>1
<1>14. \A i \in DOMAIN registry : NameOf(i, p) \in ToSet(t) => Chosen(i)
  <2> SUFFICES ASSUME NEW i \in DOMAIN registry, NameOf(i, p) \in ToSet(t) PROVE Chosen(i)
    OBVIOUS
  <2>1. PICK j \in Candidates : Chosen(j) /\ NameOf(j, p) = NameOf(i, p)
    BY <1>2
  <2>2. i = j
    BY <1>5, <2>1, NamesDiffer
  <2> QED
    BY <2>1, <2>2
<1>15. \A i \in Candidates : Chosen(i) => NameOf(i, p) \in ToSet(t)
  BY <1>2
<1>16. \A k \in DOMAIN skills : skills[k].builds => UniqueName(skills[k].base, p) \in ToSet(s)
  BY <1>3
<1> HIDE DEF a
<1>17. CASE m # <<>>
  <2>1. a = m
    BY <1>1, <1>17
  <2>2. \A i \in DOMAIN registry : NameOf(i, p) \in ToSet(a) => Chosen(i)
    BY <1>11, <1>12, <1>14, <2>1
  <2>3. ASSUME NEW i \in Candidates, NEW j \in Candidates, Precedes(i, j), Place(i) <= MaxAgents,
               registry[i].builds, NameOf(j, p) \in ToSet(a)
        PROVE  NameOf(i, p) \in ToSet(a)
    <3>1. Chosen(i)
      BY <2>3 DEF Chosen
    <3>2. Chosen(j)
      BY <1>5, <2>2, <2>3
    <3>3. PICK x \in DOMAIN t, y \in DOMAIN t :
            x < y /\ t[x] = NameOf(i, p) /\ t[y] = NameOf(j, p)
      BY <1>2, <2>3, <3>1, <3>2
    <3>4. t[y] \in ToSet(Merge(t, s))
      BY <2>1, <2>3, <3>3 DEF m
    <3>5. t[x] \in ToSet(Merge(t, s))
      BY <1>2, <1>3, <1>13, <3>3, <3>4, MergeKeepsBetter
    <3> QED
      BY <2>1, <3>3, <3>5 DEF m
  <2>4. \A k \in DOMAIN skills : skills[k].builds => UniqueName(skills[k].base, p) \in ToSet(a)
    BY <1>8, <1>16, <2>1
  <2>5. ASSUME NEW i \in DOMAIN registry, i \in Candidates => Place(i) > MaxAgents,
               NameOf(i, p) \in ToSet(a)
        PROVE  FALSE
    <3>1. i \in Candidates /\ Place(i) <= MaxAgents
      BY <2>2, <2>5 DEF Chosen
    <3> QED
      BY <1>5, <1>7, <2>5, <3>1
  <2> QED
    BY <1>8, <1>11, <2>1, <2>3, <2>4, <2>5 DEF PassIsSound, S
<1>18. CASE m = <<>>
  <2>1. a = C /\ s = <<>> /\ t = <<>>
    BY <1>1, <1>8, <1>18
  <2>2. ToSet(s) = {} /\ ToSet(t) = {}
    BY <2>1 DEF ToSet
  <2>3. \A k \in DOMAIN skills : ~skills[k].builds
    BY <1>16, <2>2
  <2>4. \A i \in Candidates : ~Chosen(i)
    BY <1>15, <2>2
  <2>5. \A j \in Candidates : registry[j].builds => Place(j) > MaxAgents
    BY <1>5, <1>7, <2>4 DEF Chosen
  <2>6. \A i \in Candidates : ~(Place(i) <= MaxAgents /\ registry[i].builds)
    BY <2>4 DEF Chosen
  <2>7. a \in Seq(S) /\ IsInjective(a) /\ Len(a) <= MaxCore
    BY <1>4, <2>1
  <2> QED
    BY <2>3, <2>5, <2>6, <2>7 DEF PassIsSound, S
<1> QED
  BY <1>17, <1>18

(***************************************************************************)
(* The invariant of Synthesis: a pass that ran is sound.                   *)
(***************************************************************************)
SynInv ==
  /\ registry \in Registries /\ task \in SUBSET Words
  /\ pass \in 0 .. 2 /\ pass = 1 => agents[0] # <<>>
  /\ agents = [p \in Passes |-> agents[p]] /\ found = [p \in Passes |-> found[p]]
  /\ \A p \in Passes :
       IF Ran(p) THEN found[p] \in Searches /\ PassIsSound(agents[p], found[p], p)
       ELSE agents[p] = <<>>

LEMMA InitSyn ==
  SynInit => SynInv
<1> SUFFICES ASSUME SynInit PROVE SynInv
  OBVIOUS
<1>1. /\ agents = [p \in Passes |-> <<>>] /\ found = [p \in Passes |-> <<>>]
      /\ pass = 0 /\ registry \in Registries /\ task \in SUBSET Words
  BY DEF SynInit
<1>2. \A p \in Passes : ~Ran(p)
  BY <1>1 DEF Ran, Passes
<1> QED
  BY <1>1, <1>2 DEF SynInv

(* What a pass saw stays as it was: registry and task do not change.       *)
LEMMA SoundStays ==
  ASSUME registry' = registry, task' = task, NEW p, NEW a, NEW skills,
         agents'[p] = a, found'[p] = skills, PassIsSound(a, skills, p)
  PROVE  PassIsSound(agents[p], found[p], p)'
<1>1. Candidates' = Candidates
  BY DEF Candidates, Score
<1>2. \A i, j : Precedes(i, j)' = Precedes(i, j)
  BY DEF Precedes, Score
<1>3. \A i : Place(i)' = Place(i)
  BY <1>1, <1>2 DEF Place
<1>4. \A i : NameOf(i, p)' = NameOf(i, p)
  BY DEF NameOf
<1> QED
  BY <1>1, <1>2, <1>3, <1>4 DEF PassIsSound

LEMMA SynthesiseKeeps ==
  ASSUME SynInv, NEW q \in Passes, Synthesise(q)
  PROVE  SynInv'
<1>1. PICK skills \in Searches :
        /\ found' = [found EXCEPT ![q] = skills]
        /\ agents' = [agents EXCEPT ![q] = Synthesised(skills, q)]
  BY DEF Synthesise
<1>2. /\ registry \in Registries /\ task \in SUBSET Words
      /\ registry' = registry /\ task' = task /\ pass = q
      /\ pass' = IF q = 0 /\ agents'[0] = <<>> THEN 2 ELSE q + 1
      /\ q = 1 => agents[0] # <<>>
  BY DEF SynInv, Synthesise
<1> DEFINE a == Synthesised(skills, q)
<1>3. PassIsSound(a, skills, q)
  BY <1>2, SynthesisedIsSound
<1>4. /\ agents' = [p \in Passes |-> agents'[p]] /\ found' = [p \in Passes |-> found'[p]]
      /\ agents'[q] = a /\ found'[q] = skills
      /\ \A p \in Passes \ {q} : agents'[p] = agents[p] /\ found'[p] = found[p]
  <2> HIDE DEF a
  <2>1. /\ agents' = [p \in Passes |-> IF p = q THEN a ELSE agents[p]]
        /\ found' = [p \in Passes |-> IF p = q THEN skills ELSE found[p]]
    BY <1>1 DEF SynInv, a
  <2> QED
    BY <2>1
<1> HIDE DEF a
<1>5. PassIsSound(agents[q], found[q], q)'
  BY <1>2, <1>3, <1>4, SoundStays
<1>6. Ran(q)' /\ found'[q] \in Searches
  BY <1>1, <1>2, <1>4 DEF Ran, Passes
<1>7. ASSUME NEW p \in Passes \ {q}
      PROVE  /\ Ran(p)' => found'[p] \in Searches /\ PassIsSound(agents[p], found[p], p)'
             /\ ~Ran(p)' => agents'[p] = <<>>
  <2>1. CASE q = 0
    <3>1. p = 1 /\ ~Ran(p)' /\ ~Ran(p)
      BY <1>2, <1>7, <2>1 DEF Ran, Passes
    <3> QED
      BY <1>4, <3>1 DEF SynInv
  <2>2. CASE q = 1
    <3>1. p = 0 /\ Ran(p)' /\ Ran(p)
      BY <1>2, <1>7, <2>2 DEF Ran, Passes
    <3>2. found[p] \in Searches /\ PassIsSound(agents[p], found[p], p)
      BY <3>1 DEF SynInv
    <3>3. PassIsSound(agents[p], found[p], p)'
      BY <1>2, <1>4, <3>2, SoundStays
    <3> QED
      BY <1>4, <3>1, <3>2, <3>3
  <2> QED
    BY <2>1, <2>2 DEF Passes
<1>8. pass' \in 0 .. 2 /\ pass' = 1 => agents'[0] # <<>>
  BY <1>2 DEF Passes
<1> QED
  BY <1>2, <1>4, <1>5, <1>6, <1>7, <1>8 DEF SynInv

LEMMA SynInvariance ==
  SynSpec => []SynInv
<1>1. SynInv /\ [SynNext]_synVars => SynInv'
  <2> SUFFICES ASSUME SynInv, [SynNext]_synVars PROVE SynInv'
    OBVIOUS
  <2>1. CASE SynNext
    BY <2>1, SynthesiseKeeps DEF SynNext
  <2>2. CASE UNCHANGED synVars
    <3>1. registry' = registry /\ task' = task /\ agents' = agents /\ found' = found /\ pass' = pass
      BY <2>2 DEF synVars
    <3>2. \A p : Ran(p)' = Ran(p)
      BY <3>1 DEF Ran
    <3>3. ASSUME NEW p \in Passes, PassIsSound(agents[p], found[p], p)
          PROVE  PassIsSound(agents[p], found[p], p)'
      BY <3>1, <3>3, SoundStays
    <3> QED
      BY <3>1, <3>2, <3>3 DEF SynInv
  <2> QED
    BY <2>1, <2>2
<1> QED
  BY InitSyn, <1>1, PTL DEF SynSpec

(* No two agents below the pipeline's parent have the same name, whatever  *)
(* the registry and the skill corpus hold and however the two searches of  *)
(* one task differ, and neither pass has more agents than its limit.       *)
THEOREM DistinctNames ==
  SynSpec => []NamesAreDistinct
<1>1. SynInv => NamesAreDistinct
  <2> SUFFICES ASSUME SynInv PROVE NamesAreDistinct
    OBVIOUS
  <2>1. ASSUME NEW p \in Passes
        PROVE  /\ agents[p] \in Seq(AllNames(p)) /\ IsInjective(agents[p])
               /\ Len(agents[p]) <= MaxAgents \/ Len(agents[p]) <= MaxCore
    <3>1. CASE Ran(p)
      BY <3>1 DEF SynInv, PassIsSound
    <3>2. CASE ~Ran(p)
      <4>1. agents[p] = <<>>
        BY <3>2 DEF SynInv
      <4>2. Len(agents[p]) <= MaxAgents
        BY <4>1, SynthesisAssumption
      <4> QED
        BY <4>1, <4>2 DEF IsInjective
    <3> QED
      BY <3>1, <3>2
  <2>2. \A p \in Passes : Of(p) = ToSet(agents[p])
    BY DEF Of, Range, ToSet
  <2>3. \A p \in Passes : \A x \in Of(p) : x[2] = p
    <3> SUFFICES ASSUME NEW p \in Passes, NEW x \in Of(p) PROVE x[2] = p
      OBVIOUS
    <3>1. PICK k \in DOMAIN agents[p] : x = agents[p][k]
      BY DEF Of, Range
    <3>2. agents[p][k] \in AllNames(p)
      BY <2>1
    <3> QED
      BY <3>1, <3>2 DEF AllNames, UniqueName
  <2>4. Of(0) \cap Of(1) = {}
    BY <2>3 DEF Passes
  <2>5. ASSUME NEW p \in Passes PROVE Cardinality(Of(p)) = Len(agents[p])
    <3> DEFINE s == agents[p]
               S == AllNames(p)
    <3>1. s \in Seq(S) /\ IsInjective(s)
      BY <2>1
    <3> HIDE DEF s, S
    <3>2. Cardinality(ToSet(s)) = Len(s)
      BY <3>1, InjectiveSize
    <3> QED
      BY <2>2, <3>2 DEF s
  <2> QED
    BY <2>1, <2>4, <2>5 DEF NamesAreDistinct
<1> QED
  BY SynInvariance, <1>1, PTL

(* The agents of a pass are the best there are, for every registry, task   *)
(* and search: every skill that builds is used, no template is passed over *)
(* for a worse match unless it was cut or could not be built, and the core *)
(* templates come in only when there is nothing else.                      *)
THEOREM BestAreChosen ==
  SynSpec => []BestAgentsWin
<1>1. SynInv => BestAgentsWin
  <2> SUFFICES ASSUME SynInv, NEW p \in Passes, Ran(p)
               PROVE  /\ \A i, j \in Candidates :
                           (/\ Precedes(i, j) /\ Place(i) <= MaxAgents /\ registry[i].builds
                            /\ UniqueName(registry[j].base, p) \in Of(p))
                           => UniqueName(registry[i].base, p) \in Of(p)
                      /\ \A s \in Range(found[p]) :
                           s.builds => UniqueName(s.base, p) \in Of(p)
                      /\ \A i \in DOMAIN registry :
                           (/\ i \in Candidates => Place(i) > MaxAgents
                            /\ UniqueName(registry[i].base, p) \in Of(p))
                           => /\ \A s \in Range(found[p]) : ~s.builds
                              /\ \A j \in Candidates : registry[j].builds => Place(j) > MaxAgents
    BY DEF BestAgentsWin, BestTemplatesWin, SkillsWin, FallbackIsLast
  <2>1. PassIsSound(agents[p], found[p], p)
    BY DEF SynInv
  <2>2. Of(p) = ToSet(agents[p])
    BY DEF Of, Range, ToSet
  <2>3. \A s \in Range(found[p]) : \E k \in DOMAIN found[p] : s = found[p][k]
    BY DEF Range
  <2> QED
    BY <2>1, <2>2, <2>3 DEF PassIsSound, NameOf
<1> QED
  BY SynInvariance, <1>1, PTL

(***************************************************************************)
(* The instructions of an agent (Instructions).  An override joins, behind *)
(* the lines before the child's marker, the section of every heading of    *)
(* either text, each once; Sections says at which line each of them begins *)
(* and SectionFound that the merged text, parsed again, has it there.      *)
(***************************************************************************)

(* What Order lists.                                                       *)
LinesAndLead == Lines \cup {Lead}

(* What tells the lines apart.                                             *)
LEMMA LineKinds ==
  /\ \A x \in Lines : IsText(x) <=> \E w \in Nat \X Nat : x = Text(w)
  /\ \A w : IsText(Text(w)) /\ Text(w).of = w
  /\ Bare \in Lines /\ IsText(Bare) /\ Bare.of = <<0, 0>>
  /\ Overrides \in Lines /\ ~IsText(Overrides)
  /\ Extends \in Lines /\ ~IsText(Extends)
  /\ Lead \notin Lines /\ ~IsText(Lead)
  /\ \A x \in Lines \ Marks : IsText(x)
<1>1. \A x \in Marks : ~IsText(x) /\ x.kind \in {"heading", "scoped", "overrides", "extends"}
  BY DEF Marks, IsText, Heading, Scoped, Overrides, Extends
<1>2. \A w : IsText(Text(w)) /\ Text(w).of = w /\ Text(w).kind = "text"
  BY DEF IsText, Text
<1>3. Bare \in Lines
  <2>1. <<0, 0>> \in Nat \X Nat
    OBVIOUS
  <2> QED
    BY <2>1 DEF Bare, Lines
<1>4. Lead.kind = "lead" /\ ~IsText(Lead)
  BY DEF Lead, IsText
<1>5. Lead \notin Lines
  <2>1. Lead \notin Marks
    BY <1>1, <1>4
  <2>2. \A w : Lead # Text(w)
    BY <1>2, <1>4
  <2> QED
    BY <2>1, <2>2 DEF Lines
<1>6. Overrides \in Marks /\ Extends \in Marks
  BY DEF Marks
<1>7. \A x \in Lines : x \in Marks \/ \E w \in Nat \X Nat : x = Text(w)
  BY DEF Lines
<1>8. Bare = Text(<<0, 0>>)
  BY DEF Bare
<1> HIDE DEF Bare
<1> QED
  BY <1>1, <1>2, <1>3, <1>4, <1>5, <1>6, <1>7, <1>8 DEF Lines

(* Filtered: the lines it keeps and where they stood.                      *)
KeptLines(text) == {i \in DOMAIN text : text[i].kind # "scoped" /\ ~InBlockOf(text, i, "other")}

LEMMA FilteredProperties ==
  ASSUME NEW text \in Seq(Lines)
  PROVE  /\ Filtered(text) \in Seq(Lines)
         /\ ToSet(Filtered(text)) = {text[i] : i \in KeptLines(text)}
         /\ \E e : Enumerates(e, Filtered(text), text, KeptLines(text))
<1>1. KeptLines(text) \subseteq DOMAIN text /\ DOMAIN text = 1 .. Len(text)
  BY DEF KeptLines
<1>2. Filtered(text) = Kept(text, KeptLines(text))
  BY DEF Filtered, KeptLines
<1>3. {i \in 1 .. Len(text) : i \in KeptLines(text)} = KeptLines(text)
  BY <1>1
<1>4. \E e : Enumerates(e, Kept(text, KeptLines(text)), text, {i \in 1 .. Len(text) : i \in KeptLines(text)})
  BY KeptEnumerates
<1>5. Kept(text, KeptLines(text)) \in Seq(Lines) /\ ToSet(Kept(text, KeptLines(text))) = {text[i] : i \in KeptLines(text)}
  BY <1>1, KeptSet
<1>6. \E e : Enumerates(e, Kept(text, KeptLines(text)), text, KeptLines(text))
  BY <1>3, <1>4, Zenon
<1> QED
  BY <1>2, <1>5, <1>6, Zenon

(* Order: the headings of a text, each once, its lead first.               *)
LEMMA OrderProperties ==
  ASSUME NEW text \in Seq(Lines)
  PROVE  /\ Order(text) \in Seq(LinesAndLead)
         /\ IsInjective(Order(text))
         /\ Len(Order(text)) >= 1 /\ Order(text)[1] = Lead
         /\ ToSet(Order(text)) = {Lead} \cup {text[i] : i \in Marked(text)}
<1> DEFINE heads == Kept(text, Marked(text))
           s == <<Lead>> \o heads
<1>1. Marked(text) \subseteq DOMAIN text
  BY DEF Marked
<1>2. heads \in Seq(Lines) /\ ToSet(heads) = {text[i] : i \in Marked(text)}
  BY <1>1, KeptSet
<1>3. Order(text) = Unique(s)
  BY DEF Order
<1> HIDE DEF heads
<1>4. <<Lead>> \in Seq(LinesAndLead) /\ heads \in Seq(LinesAndLead)
  <2>1. Lead \in LinesAndLead
    BY DEF LinesAndLead
  <2>2. Lines \subseteq LinesAndLead
    BY DEF LinesAndLead
  <2> HIDE DEF LinesAndLead
  <2> QED
    BY <1>2, <2>1, <2>2
<1>5. ToSet(<<Lead>>) = {Lead}
  BY DEF ToSet
<1>6. s \in Seq(LinesAndLead) /\ ToSet(s) = {Lead} \cup ToSet(heads)
  <2>1. ToSet(<<Lead>> \o heads) = ToSet(<<Lead>>) \cup ToSet(heads)
    BY <1>4, ConcatSet
  <2> QED
    BY <1>4, <1>5, <2>1
<1>7. s # <<>> /\ s[1] = Lead
  BY <1>4
<1> HIDE DEF s
<1>8. PICK e : UniqueIn(e, s)
  BY <1>6, UniqueProperties
<1>9. Unique(s) \in Seq(ToSet(s)) /\ IsInjective(Unique(s)) /\ ToSet(Unique(s)) = ToSet(s)
  BY <1>8 DEF UniqueIn
<1>10. Len(Unique(s)) >= 1 /\ Unique(s)[1] = Lead
  BY <1>6, <1>7, UniqueHead
<1>11. Unique(s) \in Seq(LinesAndLead)
  <2>1. ToSet(s) \subseteq LinesAndLead
    BY <1>6 DEF ToSet
  <2> QED
    BY <1>9, <2>1
<1> QED
  BY <1>2, <1>3, <1>6, <1>9, <1>10, <1>11

(* b is the text that follows the line at.                                 *)
Follows(b, text, at) ==
  /\ b \in Seq(Lines) /\ at + Len(b) <= Len(text)
  /\ \A j \in 1 .. Len(b) : b[j] = text[at + j] /\ IsText(b[j])
  /\ at + Len(b) = Len(text) \/ ~IsText(text[at + Len(b) + 1])

Headed(text, h) == h = Lead \/ (~IsText(h) /\ LinesOf(text, h) # {})

(* Only one text follows a line.                                           *)
LEMMA FollowsOnce ==
  ASSUME NEW text \in Seq(Lines), NEW at \in Nat, NEW b, NEW c,
         Follows(b, text, at), Follows(c, text, at)
  PROVE  b = c
<1>1. /\ b \in Seq(Lines) /\ at + Len(b) <= Len(text)
      /\ \A j \in 1 .. Len(b) : b[j] = text[at + j] /\ IsText(b[j])
      /\ at + Len(b) = Len(text) \/ ~IsText(text[at + Len(b) + 1])
  BY DEF Follows
<1>2. /\ c \in Seq(Lines) /\ at + Len(c) <= Len(text)
      /\ \A j \in 1 .. Len(c) : c[j] = text[at + j] /\ IsText(c[j])
      /\ at + Len(c) = Len(text) \/ ~IsText(text[at + Len(c) + 1])
  BY DEF Follows
<1>3. Len(b) \in Nat /\ Len(c) \in Nat /\ Len(text) \in Nat
  BY <1>1, <1>2
<1>4. ASSUME Len(b) < Len(c) PROVE FALSE
  <2>1. Len(b) + 1 \in 1 .. Len(c) /\ at + Len(b) # Len(text) /\ at + (Len(b) + 1) = at + Len(b) + 1
    BY <1>2, <1>3, <1>4
  <2> QED
    BY <1>1, <1>2, <2>1
<1>5. ASSUME Len(c) < Len(b) PROVE FALSE
  <2>1. Len(c) + 1 \in 1 .. Len(b) /\ at + Len(c) # Len(text) /\ at + (Len(c) + 1) = at + Len(c) + 1
    BY <1>1, <1>3, <1>5
  <2> QED
    BY <1>1, <1>2, <2>1
<1>6. Len(b) = Len(c)
  BY <1>3, <1>4, <1>5
<1>7. \A j \in 1 .. Len(b) : b[j] = c[j]
  BY <1>1, <1>2, <1>6
<1>8. b = [j \in 1 .. Len(b) |-> b[j]] /\ c = [j \in 1 .. Len(c) |-> c[j]]
  BY <1>1, <1>2
<1> QED
  BY <1>6, <1>7, <1>8

(* Where Body starts and what it is.                                       *)
LEMMA BodyProperties ==
  ASSUME NEW text \in Seq(Lines), NEW h, Headed(text, h)
  PROVE  /\ LastOf(text, h) \in 0 .. Len(text)
         /\ Follows(Body(text, h), text, LastOf(text, h))
         /\ h = Lead => LastOf(text, h) = 0
         /\ h # Lead => /\ LastOf(text, h) \in LinesOf(text, h)
                        /\ \A i \in LinesOf(text, h) : i <= LastOf(text, h)
<1> DEFINE L == LinesOf(text, h)
           start == LastOf(text, h)
           n == Len(text)
           ends == {i \in DOMAIN text : i > start /\ ~IsText(text[i])}
           end == IF ends = {} THEN n + 1 ELSE CHOOSE i \in ends : \A j \in ends : i <= j
           b == Body(text, h)
<1>1. n \in Nat /\ DOMAIN text = 1 .. n /\ L \subseteq 0 .. n /\ L \subseteq 1 .. n
  BY DEF LinesOf
<1>2. b = SubSeq(text, start + 1, end - 1)
  BY DEF Body
<1>3. h = Lead => start = 0
  BY DEF LastOf
<1>4. ASSUME h # Lead PROVE start \in L /\ \A i \in L : i <= start
  <2>1. L # {}
    BY <1>4 DEF Headed
  <2>2. start = CHOOSE i \in L : \A j \in L : j <= i
    BY <1>4 DEF LastOf
  <2> HIDE DEF L, start
  <2>3. \E i \in L : \A j \in L : j <= i
    BY <1>1, <2>1, Greatest
  <2> QED
    BY <2>2, <2>3, Zenon
<1>5. start \in 0 .. n
  <2> HIDE DEF L, start, n
  <2>1. CASE h = Lead
    BY <1>1, <1>3, <2>1
  <2>2. CASE h # Lead
    <3>1. start \in L
      BY <1>4, <2>2
    <3> QED
      BY <1>1, <3>1, Zenon
  <2> QED
    BY <2>1, <2>2
<1> HIDE DEF start, n
<1>6. ends \subseteq 1 .. n /\ \A i \in ends : i > start /\ ~IsText(text[i])
  BY <1>1
<1>7. /\ end \in start + 1 .. n + 1
      /\ end = n + 1 \/ ~IsText(text[end])
      /\ \A i \in start + 1 .. end - 1 : i \in 1 .. n /\ IsText(text[i])
  <2>1. CASE ends = {}
    <3>1. end = n + 1
      BY <2>1
    <3>2. \A i \in start + 1 .. n : i \in 1 .. n /\ i > start
      BY <1>1, <1>5
    <3>3. \A i \in start + 1 .. n : IsText(text[i])
      BY <1>1, <2>1, <3>2
    <3> HIDE DEF end, ends
    <3> QED
      BY <1>1, <1>5, <3>1, <3>2, <3>3
  <2>2. CASE ends # {}
    <3>1. end = CHOOSE i \in ends : \A j \in ends : i <= j
      BY <2>2
    <3>2. \E i \in ends : \A j \in ends : i <= j
      <4> HIDE DEF ends
      <4>1. ends \subseteq Nat
        BY <1>1, <1>6
      <4> QED
        BY <2>2, <4>1, Least
    <3>3. end \in ends /\ \A j \in ends : end <= j
      <4> HIDE DEF ends, end
      <4> QED
        BY <3>1, <3>2, Zenon
    <3> HIDE DEF end
    <3>4. end \in 1 .. n /\ end > start /\ ~IsText(text[end])
      BY <1>6, <3>3
    <3>5. ASSUME NEW i \in start + 1 .. end - 1 PROVE i \in 1 .. n /\ IsText(text[i])
      <4>1. i \in 1 .. n /\ i > start /\ ~(end <= i)
        BY <1>1, <1>5, <3>4
      <4> QED
        BY <1>1, <3>3, <4>1
    <3> HIDE DEF ends
    <3> QED
      BY <1>1, <1>5, <3>4, <3>5
  <2> QED
    BY <2>1, <2>2
<1> HIDE DEF end, ends, b
<1>8. b \in Seq(Lines) /\ Len(b) = end - 1 - start /\ \A j \in 1 .. Len(b) : b[j] = text[start + j]
  <2>1. start + 1 \in Nat /\ end - 1 \in Nat /\ end - 1 >= start
    BY <1>1, <1>5, <1>7
  <2>2. \A i \in start + 1 .. end - 1 : i \in 1 .. Len(text)
    BY <1>7 DEF n
  <2>3. start \in Nat /\ end \in Nat
    BY <1>1, <1>5, <1>7
  <2> QED
    BY <1>2, <1>7, <2>1, <2>2, <2>3
<1>9. Follows(b, text, start)
  <2>1. start + Len(b) = end - 1 /\ start + Len(b) <= n /\ Len(b) \in Nat
    BY <1>1, <1>5, <1>7, <1>8
  <2>2. \A j \in 1 .. Len(b) : start + j \in start + 1 .. end - 1
    BY <1>1, <1>5, <1>7, <2>1
  <2>3. \A j \in 1 .. Len(b) : b[j] = text[start + j] /\ IsText(b[j])
    BY <1>7, <1>8, <2>2
  <2>4. start + Len(b) = n \/ ~IsText(text[start + Len(b) + 1])
    <3>1. start + Len(b) + 1 = end
      BY <1>1, <1>5, <1>7, <2>1
    <3>2. end = n + 1 => start + Len(b) = n
      BY <1>1, <2>1
    <3> QED
      BY <1>7, <3>1, <3>2
  <2> QED
    BY <1>8, <2>1, <2>3, <2>4 DEF Follows, n
<1> QED
  BY <1>3, <1>4, <1>5, <1>9 DEF b, start, n

(* A line of the body stands under the heading of the body.                *)
LEMMA UnderBody ==
  ASSUME NEW text \in Seq(Lines), NEW h, Headed(text, h), NEW j \in 1 .. Len(Body(text, h))
  PROVE  /\ LastOf(text, h) + j \in DOMAIN text
         /\ text[LastOf(text, h) + j] = Body(text, h)[j] /\ IsText(Body(text, h)[j])
         /\ Under(text, LastOf(text, h) + j) = h
<1> DEFINE start == LastOf(text, h)
           b == Body(text, h)
           i == start + j
           above == {k \in Marked(text) : k <= i}
<1>1. /\ start \in 0 .. Len(text) /\ Follows(b, text, start)
      /\ h = Lead => start = 0
      /\ h # Lead => start \in LinesOf(text, h)
  BY BodyProperties
<1> HIDE DEF start, b
<1>2. /\ b \in Seq(Lines) /\ start + Len(b) <= Len(text) /\ Len(text) \in Nat
      /\ \A k \in 1 .. Len(b) : b[k] = text[start + k] /\ IsText(b[k])
  BY <1>1 DEF Follows
<1>3. j \in 1 .. Len(b) /\ Len(b) \in Nat /\ start \in Nat
  BY <1>1, <1>2 DEF b
<1>4. i \in 1 .. Len(text) /\ DOMAIN text = 1 .. Len(text)
  BY <1>1, <1>2, <1>3
<1>5. ASSUME NEW k \in above PROVE k <= start /\ k \in 1 .. Len(text)
  <2>1. k \in 1 .. Len(text) /\ ~IsText(text[k]) /\ k <= start + j
    BY <1>4 DEF Marked
  <2>2. CASE k > start
    <3>1. k - start \in 1 .. Len(b) /\ start + (k - start) = k
      BY <1>3, <2>1, <2>2
    <3> QED
      BY <1>2, <2>1, <3>1
  <2> QED
    BY <1>3, <2>1, <2>2
<1>6. Under(text, i) = IF above = {} THEN Lead ELSE text[CHOOSE k \in above : \A l \in above : l <= k]
  BY DEF Under
<1>7. CASE h = Lead
  <2>1. above = {}
    BY <1>1, <1>5, <1>7
  <2> QED
    BY <1>2, <1>3, <1>4, <1>6, <1>7, <2>1 DEF start, b
<1>8. CASE h # Lead
  <2>1. start \in 1 .. Len(text) /\ text[start] = h
    BY <1>1, <1>4, <1>8 DEF LinesOf
  <2>2. ~IsText(h)
    BY <1>8 DEF Headed
  <2>3. start \in above
    BY <1>3, <1>4, <2>1, <2>2 DEF Marked
  <2>4. \A k \in above : k <= start /\ k \in Nat
    BY <1>5
  <2> HIDE DEF above
  <2>5. ASSUME NEW k \in above, \A l \in above : l <= k PROVE k = start
    <3>1. start <= k /\ k <= start /\ k \in Nat
      BY <2>3, <2>4, <2>5
    <3> QED
      BY <1>3, <3>1
  <2>6. \A l \in above : l <= start
    BY <2>4
  <2>7. (CHOOSE k \in above : \A l \in above : l <= k) = start
    BY <2>3, <2>5, <2>6, Zenon
  <2>8. Under(text, i) = h
    <3>1. above # {}
      BY <2>3
    <3> HIDE DEF i
    <3> QED
      BY <1>6, <2>1, <2>7, <3>1, Zenon
  <2> QED
    BY <1>2, <1>3, <1>4, <2>8 DEF start, b
<1> QED
  BY <1>7, <1>8

(* The lines of r: pre, then the sections T[n], P[n]; section n begins     *)
(* after line at[n - 1].                                                   *)
Sections(at, r, pre, m, T, P) ==
  /\ at[0] = Len(pre)
  /\ \A n \in 1 .. m : at[n] = at[n - 1] + 1 + Len(P[n])
  /\ Len(r) = at[m]
  /\ \A k, l \in 0 .. m : k <= l => at[k] <= at[l]
  /\ \A i \in 1 .. Len(pre) : r[i] = pre[i]
  /\ \A n \in 1 .. m : /\ r[at[n - 1] + 1] = T[n]
                       /\ \A j \in 1 .. Len(P[n]) : r[at[n - 1] + 1 + j] = P[n][j]
  /\ \A i \in 1 .. Len(r) :
       \/ i \in 1 .. Len(pre)
       \/ \E n \in 1 .. m : i = at[n - 1] + 1 \/ \E j \in 1 .. Len(P[n]) : i = at[n - 1] + 1 + j

(* Where the sections of a joined text begin.                              *)
LEMMA SectionPlaces ==
  ASSUME NEW S, NEW m \in Nat, NEW T \in [1 .. m -> S], NEW P \in [1 .. m -> Seq(S)],
         NEW pre \in Seq(S)
  PROVE  LET r == pre \o FlattenSeq([n \in 1 .. m |-> <<T[n]>> \o P[n]])
         IN  r \in Seq(S) /\ \E at \in [0 .. m -> Nat] : Sections(at, r, pre, m, T, P)
<1> DEFINE r == pre \o FlattenSeq([n \in 1 .. m |-> <<T[n]>> \o P[n]])
           ss == [n \in 1 .. m |-> <<T[n]>> \o P[n]]
           F == FlattenSeq(ss)
           p == Len(pre)
<1>1. ASSUME NEW n \in 1 .. m
      PROVE  /\ ss[n] \in Seq(S) /\ Len(ss[n]) = 1 + Len(P[n]) /\ Len(P[n]) \in Nat
             /\ ss[n][1] = T[n] /\ \A j \in 1 .. Len(P[n]) : ss[n][1 + j] = P[n][j]
  <2>1. ss[n] = <<T[n]>> \o P[n] /\ T[n] \in S /\ P[n] \in Seq(S)
    OBVIOUS
  <2> HIDE DEF ss
  <2> QED
    BY <2>1
<1>2. Len(ss) = m /\ ss \in Seq(Seq(S))
  <2>1. ss \in [1 .. m -> Seq(S)]
    BY <1>1
  <2> HIDE DEF ss
  <2> QED
    BY <2>1
<1> HIDE DEF ss
<1>3. F \in Seq(S)
  BY <1>2, FlattenedSet
<1>4. PICK a \in [0 .. m -> Nat] : Places(a, ss)
  BY <1>2, FlattenedPlaces
<1>5. /\ a[0] = 0 /\ \A k \in 1 .. m : a[k] = a[k - 1] + Len(ss[k])
      /\ Len(F) = a[m]
      /\ \A k, l \in 0 .. m : k <= l => a[k] <= a[l]
      /\ \A k \in 1 .. m : \A j \in 1 .. Len(ss[k]) : F[a[k - 1] + j] = ss[k][j]
      /\ \A i \in 1 .. Len(F) : \E k \in 1 .. m : \E j \in 1 .. Len(ss[k]) : i = a[k - 1] + j
  BY <1>2, <1>4 DEF Places
<1>6. r = pre \o F /\ p \in Nat
  BY DEF ss
<1> HIDE DEF F, r
<1>7. /\ r \in Seq(S) /\ Len(r) = p + a[m] /\ Len(F) \in Nat
      /\ \A i \in 1 .. p : r[i] = pre[i]
      /\ \A i \in 1 .. a[m] : r[p + i] = F[i]
  <2>1. /\ pre \o F \in Seq(S) /\ Len(pre \o F) = p + Len(F) /\ Len(F) \in Nat
        /\ \A i \in 1 .. p : (pre \o F)[i] = pre[i]
        /\ \A i \in 1 .. Len(F) : (pre \o F)[p + i] = F[i]
    BY <1>3
  <2>2. Len(F) = a[m]
    BY <1>5
  <2> HIDE DEF p
  <2> QED
    BY <1>6, <2>1, <2>2, Zenon
<1> HIDE DEF p
<1> DEFINE at == [k \in 0 .. m |-> p + a[k]]
<1>8. at \in [0 .. m -> Nat] /\ \A k \in 0 .. m : at[k] = p + a[k] /\ a[k] \in Nat
  BY <1>4, <1>6
<1> HIDE DEF at
<1>9. ASSUME NEW n \in 1 .. m
      PROVE  /\ n - 1 \in 0 .. m /\ n \in 0 .. m /\ m \in 0 .. m
             /\ a[n] = a[n - 1] + 1 + Len(P[n]) /\ a[n] <= a[m]
             /\ at[n - 1] = p + a[n - 1] /\ a[n - 1] \in Nat /\ a[m] \in Nat
  <2>1. n - 1 \in 0 .. m /\ n \in 0 .. m /\ m \in 0 .. m /\ n <= m
    OBVIOUS
  <2>2. a[n] = a[n - 1] + Len(ss[n]) /\ a[n] <= a[m]
    BY <1>5, <2>1
  <2>3. a[n] \in Nat /\ a[n - 1] \in Nat /\ a[m] \in Nat
    BY <1>8, <2>1
  <2> QED
    BY <1>1, <1>8, <2>1, <2>2, <2>3
<1>10. at[0] = p /\ Len(r) = at[m]
  BY <1>5, <1>6, <1>7, <1>8
<1>11. ASSUME NEW n \in 1 .. m PROVE at[n] = at[n - 1] + 1 + Len(P[n])
  <2> DEFINE u == a[n]
             v == a[n - 1]
             w == at[n - 1]
             l == Len(P[n])
  <2>1. at[n] = p + u /\ l \in Nat /\ u = v + 1 + l /\ w = p + v /\ v \in Nat
    BY <1>1, <1>8, <1>9
  <2> HIDE DEF u, v, w, l
  <2>2. at[n] = w + 1 + l
    BY <1>6, <2>1
  <2> QED
    BY <2>2 DEF w, l
<1>12. \A k, l \in 0 .. m : k <= l => at[k] <= at[l]
  <2> SUFFICES ASSUME NEW k \in 0 .. m, NEW l \in 0 .. m, k <= l PROVE at[k] <= at[l]
    OBVIOUS
  <2>1. a[k] <= a[l]
    BY <1>5
  <2> QED
    BY <1>6, <1>8, <2>1
<1>13. ASSUME NEW n \in 1 .. m
       PROVE  /\ r[at[n - 1] + 1] = T[n]
              /\ \A j \in 1 .. Len(P[n]) : r[at[n - 1] + 1 + j] = P[n][j]
  <2> DEFINE q == a[n - 1]
             w == at[n - 1]
             l == Len(P[n])
             z == a[m]
             s == ss[n]
  <2>1. /\ \A j \in 1 .. 1 + l : F[q + j] = s[j]
        /\ Len(s) = 1 + l /\ l \in Nat /\ s[1] = T[n] /\ \A j \in 1 .. l : s[1 + j] = P[n][j]
    BY <1>1, <1>5
  <2>2. w = p + q /\ q \in Nat /\ z \in Nat /\ q + 1 + l <= z
    BY <1>9
  <2>3. \A i \in 1 .. z : r[p + i] = F[i]
    BY <1>7
  <2> HIDE DEF q, w, l, z, s
  <2>4. ASSUME NEW j \in 1 .. 1 + l PROVE r[w + j] = s[j]
    <3>1. q + j \in 1 .. z /\ p + (q + j) = w + j
      BY <1>6, <2>1, <2>2
    <3> QED
      BY <2>1, <2>3, <3>1
  <2>5. r[w + 1] = T[n]
    <3>1. 1 \in 1 .. 1 + l
      BY <2>1
    <3> QED
      BY <2>1, <2>4, <3>1
  <2>6. ASSUME NEW j \in 1 .. l PROVE r[w + 1 + j] = P[n][j]
    <3>1. 1 + j \in 1 .. 1 + l /\ w + (1 + j) = w + 1 + j
      BY <1>6, <2>1, <2>2
    <3>2. r[w + (1 + j)] = s[1 + j]
      BY <2>4, <3>1
    <3> QED
      BY <2>1, <3>1, <3>2
  <2> QED
    BY <2>5, <2>6 DEF w, l
<1>14. ASSUME NEW i \in 1 .. Len(r), i \notin 1 .. p
       PROVE  \E n \in 1 .. m : i = at[n - 1] + 1 \/ \E j \in 1 .. Len(P[n]) : i = at[n - 1] + 1 + j
  <2>1. i - p \in 1 .. Len(F) /\ i = p + (i - p)
    BY <1>5, <1>6, <1>7, <1>14
  <2>2. PICK n \in 1 .. m : \E j \in 1 .. Len(ss[n]) : i - p = a[n - 1] + j
    BY <1>5, <2>1
  <2>3. PICK j \in 1 .. Len(ss[n]) : i - p = a[n - 1] + j
    BY <2>2
  <2> DEFINE q == a[n - 1]
             w == at[n - 1]
             l == Len(P[n])
  <2>4. w = p + q /\ q \in Nat /\ l \in Nat /\ j \in 1 .. 1 + l /\ i - p = q + j /\ i \in Nat
    <3>1. j \in 1 .. 1 + l /\ l \in Nat
      BY <1>1
    <3> HIDE DEF l
    <3>2. i \in Nat
      BY <1>7, <1>8
    <3> QED
      BY <1>9, <2>3, <3>1, <3>2
  <2> HIDE DEF q, w, l
  <2>5. CASE j = 1
    <3>1. i = w + 1
      BY <1>6, <2>4, <2>5
    <3> QED
      BY <3>1 DEF w
  <2>6. CASE j # 1
    <3>1. j - 1 \in 1 .. l /\ i = w + 1 + (j - 1)
      BY <1>6, <2>4, <2>6
    <3> QED
      BY <3>1 DEF w, l
  <2> QED
    BY <2>5, <2>6
<1>15. Sections(at, r, pre, m, T, P)
  BY <1>7, <1>10, <1>11, <1>12, <1>13, <1>14 DEF Sections, p
<1> QED
  BY <1>7, <1>8, <1>15 DEF r

(* The parts are text, and so is no head line but the first.               *)
TextInParts(m, T, P) ==
  /\ \A k \in 1 .. m : \A j \in 1 .. Len(P[k]) : IsText(P[k][j])
  /\ \A k \in 2 .. m : ~IsText(T[k])

(* Head line n is a heading, and no other is the same.                     *)
HeadsOnce(m, T, n) == ~IsText(T[n]) /\ \A k \in 1 .. m : T[k] = T[n] => k = n

LaidOut(at, r, pre, m, T, P) ==
  /\ m \in Nat /\ T \in [1 .. m -> Lines] /\ P \in [1 .. m -> Seq(Lines)]
  /\ pre \in Seq(Lines) /\ r \in Seq(Lines) /\ at \in [0 .. m -> Nat]
  /\ Sections(at, r, pre, m, T, P) /\ TextInParts(m, T, P)

(* Section n is where its head line and its part are found.                *)
Found(at, r, T, P, n) ==
  T[n] \in ToSet(r) /\ LastOf(r, T[n]) = at[n - 1] + 1 /\ Body(r, T[n]) = P[n]

(* A heading that begins one section and is nowhere before them.           *)
LEMMA SectionFound ==
  ASSUME NEW m, NEW T, NEW P, NEW pre, NEW r, NEW at, LaidOut(at, r, pre, m, T, P),
         NEW n \in 1 .. m, HeadsOnce(m, T, n), T[n] \notin ToSet(pre)
  PROVE  Found(at, r, T, P, n)
<1> DEFINE h == T[n]
           x == at[n - 1] + 1
<1>1. /\ \A k \in 1 .. m : at[k] = at[k - 1] + 1 + Len(P[k])
      /\ Len(r) = at[m]
      /\ \A k, l \in 0 .. m : k <= l => at[k] <= at[l]
      /\ \A i \in 1 .. Len(pre) : r[i] = pre[i]
      /\ \A k \in 1 .. m : /\ r[at[k - 1] + 1] = T[k]
                           /\ \A j \in 1 .. Len(P[k]) : r[at[k - 1] + 1 + j] = P[k][j]
      /\ \A i \in 1 .. Len(r) :
           \/ i \in 1 .. Len(pre)
           \/ \E k \in 1 .. m : i = at[k - 1] + 1 \/ \E j \in 1 .. Len(P[k]) : i = at[k - 1] + 1 + j
  BY DEF LaidOut, Sections
<1>types. /\ m \in Nat /\ T \in [1 .. m -> Lines] /\ P \in [1 .. m -> Seq(Lines)]
          /\ pre \in Seq(Lines) /\ r \in Seq(Lines) /\ at \in [0 .. m -> Nat]
  BY DEF LaidOut
<1>texts. /\ \A k \in 1 .. m : \A j \in 1 .. Len(P[k]) : IsText(P[k][j])
          /\ \A k \in 2 .. m : ~IsText(T[k])
          /\ ~IsText(h) /\ \A k \in 1 .. m : T[k] = h => k = n
  BY DEF LaidOut, TextInParts, HeadsOnce
<1>2. /\ n - 1 \in 0 .. m /\ n \in 0 .. m /\ m \in 0 .. m
      /\ at[n - 1] \in Nat /\ at[n] \in Nat /\ at[m] \in Nat /\ P[n] \in Seq(Lines) /\ Len(P[n]) \in Nat
  BY <1>types
<1>3. x \in 1 .. Len(r) /\ r[x] = h /\ x + Len(P[n]) = at[n] /\ at[n] <= Len(r)
  <2>1. at[n] = at[n - 1] + 1 + Len(P[n]) /\ at[n] <= at[m] /\ r[at[n - 1] + 1] = T[n]
    BY <1>1, <1>2
  <2> QED
    BY <1>1, <1>2, <2>1
<1>4. DOMAIN r = 1 .. Len(r) /\ DOMAIN pre = 1 .. Len(pre) /\ h \in Lines
  BY <1>types
<1>5. ASSUME NEW i \in LinesOf(r, h) PROVE i = x
  <2>1. i \in 1 .. Len(r) /\ r[i] = h
    BY <1>4, <1>5 DEF LinesOf
  <2>2. CASE i \in 1 .. Len(pre)
    <3>1. r[i] = pre[i]
      BY <1>1, <2>2
    <3>2. pre[i] \in ToSet(pre)
      BY <1>4, <2>2 DEF ToSet
    <3> QED
      BY <2>1, <3>1, <3>2
  <2>3. ASSUME NEW k \in 1 .. m, i = at[k - 1] + 1 PROVE i = x
    <3>1. r[i] = T[k]
      BY <1>1, <2>3
    <3>2. k = n
      BY <1>texts, <2>1, <3>1
    <3> QED
      BY <2>3, <3>2
  <2>4. ASSUME NEW k \in 1 .. m, NEW j \in 1 .. Len(P[k]), i = at[k - 1] + 1 + j PROVE FALSE
    <3>1. r[i] = P[k][j]
      BY <1>1, <2>4
    <3> QED
      BY <1>texts, <2>1, <3>1
  <2> QED
    BY <1>1, <2>1, <2>2, <2>3, <2>4
<1>6. x \in LinesOf(r, h)
  BY <1>3, <1>4 DEF LinesOf
<1>7. h # Lead
  BY <1>4, LineKinds
<1>8. Headed(r, h)
  BY <1>texts, <1>6, <1>7 DEF Headed
<1>9. LastOf(r, h) = x /\ Follows(Body(r, h), r, LastOf(r, h))
  BY <1>types, <1>5, <1>7, <1>8, BodyProperties
<1>10. Follows(P[n], r, x)
  <2>1. \A j \in 1 .. Len(P[n]) : P[n][j] = r[x + j]
    BY <1>1
  <2>2. x + Len(P[n]) = Len(r) \/ ~IsText(r[x + Len(P[n]) + 1])
    <3>1. CASE n = m
      BY <1>1, <1>3, <3>1
    <3>2. CASE n # m
      <4>1. n + 1 \in 2 .. m /\ (n + 1) - 1 = n /\ n + 1 \in 1 .. m
        BY <1>types, <3>2
      <4>2. r[at[(n + 1) - 1] + 1] = T[n + 1]
        BY <1>1, <4>1
      <4> QED
        BY <1>texts, <1>3, <4>1, <4>2
    <3> QED
      BY <3>1, <3>2
  <2> QED
    BY <1>texts, <1>2, <1>3, <2>1, <2>2 DEF Follows
<1>11. Body(r, h) = P[n]
  <2>1. x \in Nat
    BY <1>2
  <2> QED
    BY <1>types, <1>9, <1>10, <2>1, FollowsOnce
<1>12. h \in ToSet(r)
  BY <1>3, <1>4 DEF ToSet
<1> QED
  BY <1>9, <1>11, <1>12 DEF Found

(* ApplyOverrides as sections.                                             *)
LEMMA MarkerProperties ==
  ASSUME NEW child \in Seq(Lines), Overrides \in ToSet(child)
  PROVE  /\ Marker(child) \in 1 .. Len(child) /\ child[Marker(child)] = Overrides
         /\ Before(child) \in Seq(Lines) /\ Len(Before(child)) = Marker(child) - 1
         /\ \A i \in 1 .. Len(Before(child)) : Before(child)[i] = child[i]
         /\ After(child) \in Seq(Lines) /\ Len(After(child)) = Len(child) - Marker(child)
         /\ \A i \in 1 .. Len(After(child)) : After(child)[i] = child[Marker(child) + i]
<1> DEFINE L == LinesOf(child, Overrides)
           mk == Marker(child)
<1>1. L \subseteq 1 .. Len(child) /\ L # {} /\ \A i \in L : child[i] = Overrides
  <2>1. DOMAIN child = 1 .. Len(child)
    OBVIOUS
  <2>2. \E i \in DOMAIN child : child[i] = Overrides
    BY DEF ToSet
  <2> QED
    BY <2>1, <2>2 DEF LinesOf
<1>2. mk = CHOOSE i \in L : \A j \in L : i <= j
  BY DEF Marker
<1> HIDE DEF L, mk
<1>3. L \subseteq Nat
  BY <1>1
<1>4. \E i \in L : \A j \in L : i <= j
  BY <1>1, <1>3, Least
<1>5. mk \in L
  BY <1>2, <1>4, Zenon
<1>6. mk \in 1 .. Len(child) /\ child[mk] = Overrides /\ Len(child) \in Nat
  BY <1>1, <1>5
<1>7. Before(child) = SubSeq(child, 1, mk - 1) /\ After(child) = SubSeq(child, mk + 1, Len(child))
  BY DEF Before, After, mk
<1>8. /\ SubSeq(child, 1, mk - 1) \in Seq(Lines) /\ Len(SubSeq(child, 1, mk - 1)) = mk - 1
      /\ \A i \in 1 .. mk - 1 : SubSeq(child, 1, mk - 1)[i] = child[i]
  BY <1>6
<1>9. /\ SubSeq(child, mk + 1, Len(child)) \in Seq(Lines)
      /\ Len(SubSeq(child, mk + 1, Len(child))) = Len(child) - mk
      /\ \A i \in 1 .. Len(child) - mk : SubSeq(child, mk + 1, Len(child))[i] = child[mk + i]
  BY <1>6
<1> QED
  BY <1>6, <1>7, <1>8, <1>9 DEF mk

Replaced(child) == ToSet(Order(After(child)))
Heads(base, child) == Unique(Order(base) \o Order(After(child)))
Part(base, child, h) == IF h \in Replaced(child) THEN Body(After(child), h) ELSE Body(base, h)
HeadLine(h) == IF h = Lead THEN Bare ELSE h
HeadLines(base, child) == [n \in 1 .. Len(Heads(base, child)) |-> HeadLine(Heads(base, child)[n])]
Parts(base, child) == [n \in 1 .. Len(Heads(base, child)) |-> Part(base, child, Heads(base, child)[n])]

(* Every heading of an Order heads a section of its text.                  *)
LEMMA OrderHeaded ==
  ASSUME NEW text \in Seq(Lines), NEW h \in ToSet(Order(text))
  PROVE  /\ Headed(text, h) /\ h \in LinesAndLead /\ ~IsText(h)
         /\ h # Lead => h \in Lines /\ h \in ToSet(text)
<1>1. h = Lead \/ \E i \in Marked(text) : h = text[i]
  BY OrderProperties
<1>2. ASSUME NEW i \in Marked(text), h = text[i]
      PROVE  i \in LinesOf(text, h) /\ ~IsText(h) /\ h \in Lines /\ h \in ToSet(text)
  BY <1>2 DEF Marked, LinesOf, ToSet
<1> QED
  BY <1>1, <1>2, LineKinds DEF Headed, LinesAndLead

(* The headings of both, each once, the lead first.                        *)
LEMMA HeadsProperties ==
  ASSUME NEW base \in Seq(Lines), NEW child \in Seq(Lines), Overrides \in ToSet(child)
  PROVE  /\ Heads(base, child) \in Seq(LinesAndLead) /\ IsInjective(Heads(base, child))
         /\ Len(Heads(base, child)) >= 1 /\ Heads(base, child)[1] = Lead
         /\ ToSet(Heads(base, child)) = ToSet(Order(base)) \cup Replaced(child)
         /\ Lead \in Replaced(child)
<1> DEFINE u == Order(base)
           v == Order(After(child))
           s == u \o v
<1>1. After(child) \in Seq(Lines)
  BY MarkerProperties
<1>2. /\ u \in Seq(LinesAndLead) /\ Len(u) >= 1 /\ u[1] = Lead
      /\ v \in Seq(LinesAndLead) /\ Lead \in ToSet(v)
  BY <1>1, OrderProperties
<1>3. Heads(base, child) = Unique(s) /\ Replaced(child) = ToSet(v)
  BY DEF Heads, Replaced
<1> HIDE DEF u, v
<1>4. s \in Seq(LinesAndLead) /\ ToSet(s) = ToSet(u) \cup ToSet(v)
  <2>1. s \in Seq(LinesAndLead)
    BY <1>2
  <2>2. ToSet(u \o v) = ToSet(u) \cup ToSet(v)
    BY <1>2, ConcatSet
  <2> QED
    BY <2>1, <2>2
<1>5. s # <<>> /\ s[1] = Lead
  BY <1>2
<1> HIDE DEF s
<1>6. PICK e : UniqueIn(e, s)
  BY <1>4, UniqueProperties
<1>7. Unique(s) \in Seq(ToSet(s)) /\ IsInjective(Unique(s)) /\ ToSet(Unique(s)) = ToSet(s)
  BY <1>6 DEF UniqueIn
<1>8. Len(Unique(s)) >= 1 /\ Unique(s)[1] = Lead
  BY <1>4, <1>5, UniqueHead
<1>9. Unique(s) \in Seq(LinesAndLead)
  <2>1. ToSet(s) \subseteq LinesAndLead
    BY <1>4 DEF ToSet
  <2> QED
    BY <1>7, <2>1
<1> QED
  BY <1>2, <1>3, <1>4, <1>7, <1>8, <1>9 DEF u

(* What part n is made of.                                                 *)
LEMMA PartsProperties ==
  ASSUME NEW base \in Seq(Lines), NEW child \in Seq(Lines), Overrides \in ToSet(child),
         NEW h \in ToSet(Heads(base, child))
  PROVE  /\ HeadLine(h) \in Lines
         /\ h # Lead => h \in Lines /\ ~IsText(h) /\ HeadLine(h) = h
         /\ h \in Replaced(child) => Headed(After(child), h) /\ Part(base, child, h) = Body(After(child), h)
         /\ h \notin Replaced(child) => Headed(base, h) /\ Part(base, child, h) = Body(base, h)
         /\ Part(base, child, h) \in Seq(Lines)
         /\ \A j \in 1 .. Len(Part(base, child, h)) : IsText(Part(base, child, h)[j])
<1> DEFINE over == After(child)
<1>1. over \in Seq(Lines)
  BY MarkerProperties
<1>2. h \in ToSet(Order(base)) \/ h \in Replaced(child)
  BY HeadsProperties
<1>3. h \in Replaced(child) => Headed(over, h)
  BY <1>1, OrderHeaded DEF Replaced
<1>4. h \notin Replaced(child) => Headed(base, h)
  BY <1>2, OrderHeaded
<1>5. h \in LinesAndLead /\ ~IsText(h)
  BY <1>1, <1>2, OrderHeaded DEF Replaced
<1>6. h # Lead => h \in Lines /\ ~IsText(h) /\ HeadLine(h) = h
  BY <1>5 DEF HeadLine, LinesAndLead
<1>7. HeadLine(h) \in Lines
  BY <1>5, LineKinds DEF HeadLine, LinesAndLead
<1>8. ASSUME NEW text \in Seq(Lines), Headed(text, h)
      PROVE  Body(text, h) \in Seq(Lines) /\ \A j \in 1 .. Len(Body(text, h)) : IsText(Body(text, h)[j])
  <2>1. Follows(Body(text, h), text, LastOf(text, h))
    BY <1>8, BodyProperties
  <2> QED
    BY <2>1 DEF Follows
<1>9. CASE h \in Replaced(child)
  <2>1. Part(base, child, h) = Body(over, h)
    BY <1>9 DEF Part
  <2>2. Body(over, h) \in Seq(Lines) /\ \A j \in 1 .. Len(Body(over, h)) : IsText(Body(over, h)[j])
    BY <1>1, <1>3, <1>8, <1>9
  <2> HIDE DEF over
  <2> QED
    BY <1>3, <1>5, <1>7, <1>9, <2>1, <2>2 DEF over, HeadLine, LinesAndLead
<1>10. CASE h \notin Replaced(child)
  <2>1. Part(base, child, h) = Body(base, h)
    BY <1>10 DEF Part
  <2>2. Body(base, h) \in Seq(Lines) /\ \A j \in 1 .. Len(Body(base, h)) : IsText(Body(base, h)[j])
    BY <1>4, <1>8, <1>10
  <2> QED
    BY <1>4, <1>5, <1>7, <1>10, <2>1, <2>2 DEF HeadLine, LinesAndLead
<1> QED
  BY <1>9, <1>10

(* What ApplyOverrides joins are sections.                                 *)
LEMMA OverridesLaidOut ==
  ASSUME NEW base \in Seq(Lines), NEW child \in Seq(Lines), Overrides \in ToSet(child)
  PROVE  LET m == Len(Heads(base, child))
             T == HeadLines(base, child)
             P == Parts(base, child)
             r == ApplyOverrides(base, child)
         IN  /\ m \in Nat /\ T \in [1 .. m -> Lines] /\ P \in [1 .. m -> Seq(Lines)]
             /\ TextInParts(m, T, P)
             /\ r \in Seq(Lines)
             /\ \E at \in [0 .. m -> Nat] : Sections(at, r, Before(child), m, T, P)
<1> DEFINE heads == Heads(base, child)
           m == Len(heads)
           T == HeadLines(base, child)
           P == Parts(base, child)
           r == ApplyOverrides(base, child)
           pre == Before(child)
<1>1. /\ heads \in Seq(LinesAndLead) /\ m \in Nat /\ DOMAIN heads = 1 .. m
      /\ IsInjective(heads) /\ m >= 1 /\ heads[1] = Lead
  BY HeadsProperties
<1>2. pre \in Seq(Lines)
  BY MarkerProperties
<1>3. /\ T = [n \in 1 .. m |-> HeadLine(heads[n])]
      /\ P = [n \in 1 .. m |-> Part(base, child, heads[n])]
  BY DEF HeadLines, Parts
<1>4. r = pre \o FlattenSeq([n \in DOMAIN heads |->
            <<IF heads[n] = Lead THEN Bare ELSE heads[n]>> \o
              (IF heads[n] \in Range(Order(After(child))) THEN Body(After(child), heads[n])
               ELSE Body(base, heads[n]))])
  BY DEF ApplyOverrides, Section, Heads
<1>5. ASSUME NEW n \in 1 .. m
      PROVE  /\ HeadLine(heads[n]) \in Lines /\ Part(base, child, heads[n]) \in Seq(Lines)
             /\ \A j \in 1 .. Len(Part(base, child, heads[n])) : IsText(Part(base, child, heads[n])[j])
             /\ heads[n] # Lead => ~IsText(HeadLine(heads[n]))
  <2>1. heads[n] \in ToSet(heads)
    BY <1>1 DEF ToSet
  <2> QED
    BY <2>1, PartsProperties
<1>6. r = pre \o FlattenSeq([n \in 1 .. m |-> <<T[n]>> \o P[n]])
  <2>1. \A n \in 1 .. m : T[n] = HeadLine(heads[n]) /\ P[n] = Part(base, child, heads[n])
    BY <1>3
  <2>2. ASSUME NEW n \in 1 .. m
        PROVE  <<T[n]>> \o P[n] =
                 <<IF heads[n] = Lead THEN Bare ELSE heads[n]>> \o
                   (IF heads[n] \in Range(Order(After(child))) THEN Body(After(child), heads[n])
                    ELSE Body(base, heads[n]))
    <3>1. T[n] = IF heads[n] = Lead THEN Bare ELSE heads[n]
      BY <2>1, Zenon DEF HeadLine
    <3>2. Range(Order(After(child))) = Replaced(child)
      BY DEF Range, ToSet, Replaced
    <3>3. P[n] = IF heads[n] \in Range(Order(After(child))) THEN Body(After(child), heads[n])
                 ELSE Body(base, heads[n])
      BY <2>1, <3>2, Zenon DEF Part
    <3> QED
      BY <3>1, <3>3, Zenon
  <2>3. DOMAIN heads = 1 .. m
    BY <1>1
  <2> HIDE DEF T, P, heads, m, pre, r
  <2> QED
    BY <1>4, <2>2, <2>3, Zenon
<1>7. T \in [1 .. m -> Lines] /\ P \in [1 .. m -> Seq(Lines)]
  <2> HIDE DEF T, P, heads, m
  <2> QED
    BY <1>3, <1>5
<1>8. \A k \in 1 .. m : \A j \in 1 .. Len(P[k]) : IsText(P[k][j])
  <2> HIDE DEF P, heads, m
  <2> QED
    BY <1>3, <1>5
<1>9. \A k \in 2 .. m : ~IsText(T[k])
  <2> HIDE DEF T, heads, m
  <2> SUFFICES ASSUME NEW k \in 2 .. m PROVE ~IsText(T[k])
    OBVIOUS
  <2>1. k \in 1 .. m /\ 1 \in 1 .. m /\ k # 1
    BY <1>1
  <2>2. heads[k] # Lead
    BY <1>1, <2>1 DEF IsInjective
  <2> QED
    BY <1>3, <1>5, <2>1, <2>2
<1>10. r \in Seq(Lines) /\ \E at \in [0 .. m -> Nat] : Sections(at, r, pre, m, T, P)
  <2> HIDE DEF T, P, heads, m, pre, r
  <2> QED
    <3> DEFINE q == pre \o FlattenSeq([n \in 1 .. m |-> <<T[n]>> \o P[n]])
    <3>1. q \in Seq(Lines) /\ \E at \in [0 .. m -> Nat] : Sections(at, q, pre, m, T, P)
      BY <1>1, <1>2, <1>7, SectionPlaces, Zenon
    <3>2. r = q
      BY <1>6
    <3> HIDE DEF q
    <3> QED
      BY <3>1, <3>2
<1>11. TextInParts(m, T, P)
  BY <1>8, <1>9 DEF TextInParts
<1> HIDE DEF T, P, m, r, pre
<1> QED
  BY <1>1, <1>7, <1>10, <1>11 DEF T, P, m, r, pre, heads

(* What an override leaves of the sections: their text and their order.    *)
LEMMA SectionsStay ==
  ASSUME NEW base \in Seq(Lines), NEW child \in Seq(Lines), Overrides \in ToSet(child)
  PROVE  LET r == ApplyOverrides(base, child)
             heads == Heads(base, child)
         IN  /\ r \in Seq(Lines) /\ ToSet(Before(child)) \subseteq ToSet(r)
             /\ \A h \in ToSet(heads) \ ({Lead} \cup ToSet(Before(child))) :
                  h \in ToSet(r) /\ Body(r, h) = Part(base, child, h)
             /\ \A k, l \in 1 .. Len(heads) :
                  (/\ heads[k] \notin {Lead} \cup ToSet(Before(child))
                   /\ heads[l] \notin {Lead} \cup ToSet(Before(child)) /\ k < l)
                  => LastOf(r, heads[k]) < LastOf(r, heads[l])
<1> DEFINE heads == Heads(base, child)
           m == Len(heads)
           T == HeadLines(base, child)
           P == Parts(base, child)
           r == ApplyOverrides(base, child)
           pre == Before(child)
<1>1. /\ m \in Nat /\ T \in [1 .. m -> Lines] /\ P \in [1 .. m -> Seq(Lines)]
      /\ TextInParts(m, T, P)
      /\ r \in Seq(Lines)
      /\ \E at \in [0 .. m -> Nat] : Sections(at, r, pre, m, T, P)
  BY OverridesLaidOut
<1>2. PICK at \in [0 .. m -> Nat] : Sections(at, r, pre, m, T, P)
  BY <1>1
<1>3. pre \in Seq(Lines)
  BY MarkerProperties
<1>4. IsInjective(heads) /\ DOMAIN heads = 1 .. m
  BY HeadsProperties
<1>5. \A n \in 1 .. m : T[n] = HeadLine(heads[n]) /\ P[n] = Part(base, child, heads[n])
  BY DEF HeadLines, Parts
<1> HIDE DEF heads, m, T, P, r, pre
<1>6. ASSUME NEW n \in 1 .. m
      PROVE  /\ heads[n] # Lead => T[n] = heads[n] /\ ~IsText(T[n])
             /\ heads[n] = Lead => T[n] = Bare
  <2>1. heads[n] \in ToSet(heads)
    BY <1>4 DEF ToSet
  <2> QED
    BY <1>5, <2>1, PartsProperties DEF heads, HeadLine
<1>7. ASSUME NEW n \in 1 .. m, heads[n] # Lead, heads[n] \notin ToSet(pre)
      PROVE  /\ heads[n] \in ToSet(r) /\ LastOf(r, heads[n]) = at[n - 1] + 1
             /\ Body(r, heads[n]) = Part(base, child, heads[n])
  <2>1. T[n] = heads[n] /\ ~IsText(T[n]) /\ T[n] \notin ToSet(pre)
    BY <1>6, <1>7
  <2>2. \A k \in 1 .. m : T[k] = T[n] => k = n
    <3> SUFFICES ASSUME NEW k \in 1 .. m, T[k] = T[n] PROVE k = n
      OBVIOUS
    <3>1. heads[k] # Lead
      BY <1>6, <2>1, LineKinds
    <3>2. heads[k] = heads[n]
      BY <1>6, <2>1, <3>1
    <3> QED
      BY <1>4, <3>2 DEF IsInjective
  <2>3. /\ T[n] \in ToSet(r) /\ LastOf(r, T[n]) = at[n - 1] + 1
        /\ Body(r, T[n]) = P[n]
    <3>1. m \in Nat /\ T \in [1 .. m -> Lines] /\ P \in [1 .. m -> Seq(Lines)] /\ r \in Seq(Lines)
      BY <1>1
    <3>2. TextInParts(m, T, P) /\ HeadsOnce(m, T, n) /\ T[n] \notin ToSet(pre)
      BY <1>1, <2>1, <2>2 DEF HeadsOnce
    <3> QED
      <4>1. LaidOut(at, r, pre, m, T, P)
        BY <1>1, <1>2, <1>3, <3>1 DEF LaidOut
      <4>2. HeadsOnce(m, T, n) /\ T[n] \notin ToSet(pre)
        BY <3>2
      <4>3. Found(at, r, T, P, n)
        BY <4>1, <4>2, SectionFound
      <4> QED
        BY <4>3, Zenon DEF Found
  <2> QED
    BY <1>5, <2>1, <2>3, Zenon
<1>8. ToSet(pre) \subseteq ToSet(r)
  <2>1. /\ \A i \in 1 .. Len(pre) : r[i] = pre[i]
        /\ at[0] = Len(pre) /\ Len(r) = at[m] /\ at[0] <= at[m]
    BY <1>1, <1>2 DEF Sections
  <2>2. DOMAIN pre = 1 .. Len(pre) /\ DOMAIN r = 1 .. Len(r) /\ Len(pre) \in Nat /\ Len(r) \in Nat
    BY <1>1, <1>3
  <2>3. \A i \in 1 .. Len(pre) : i \in 1 .. Len(r)
    BY <2>1, <2>2
  <2> QED
    BY <2>1, <2>2, <2>3 DEF ToSet
<1>9. ASSUME NEW h \in ToSet(heads), h # Lead, h \notin ToSet(pre)
      PROVE  h \in ToSet(r) /\ Body(r, h) = Part(base, child, h)
  <2>1. PICK n \in 1 .. m : h = heads[n]
    BY <1>4 DEF ToSet
  <2> QED
    BY <1>7, <1>9, <2>1
<1>10. ASSUME NEW k \in 1 .. m, NEW l \in 1 .. m, k < l, heads[k] # Lead, heads[k] \notin ToSet(pre),
              heads[l] # Lead, heads[l] \notin ToSet(pre)
       PROVE  LastOf(r, heads[k]) < LastOf(r, heads[l])
  <2>1. LastOf(r, heads[k]) = at[k - 1] + 1 /\ LastOf(r, heads[l]) = at[l - 1] + 1
    BY <1>7, <1>10
  <2>2. k \in 0 .. m /\ l - 1 \in 0 .. m /\ k - 1 \in 0 .. m /\ k <= l - 1
    BY <1>1, <1>10
  <2>3. at[k] = at[k - 1] + 1 + Len(P[k]) /\ at[k] <= at[l - 1]
    BY <1>2, <2>2 DEF Sections
  <2>4. Len(P[k]) \in Nat /\ at[k] \in Nat /\ at[k - 1] \in Nat /\ at[l - 1] \in Nat
    BY <1>1, <2>2
  <2>5. at[k - 1] + 1 < at[l - 1] + 1
    BY <2>3, <2>4
  <2> QED
    BY <2>1, <2>5
<1>11. /\ r \in Seq(Lines) /\ ToSet(pre) \subseteq ToSet(r)
       /\ \A h \in ToSet(heads) \ ({Lead} \cup ToSet(pre)) :
            h \in ToSet(r) /\ Body(r, h) = Part(base, child, h)
       /\ \A k, l \in 1 .. m :
            (heads[k] \notin {Lead} \cup ToSet(pre) /\ heads[l] \notin {Lead} \cup ToSet(pre) /\ k < l)
            => LastOf(r, heads[k]) < LastOf(r, heads[l])
  BY <1>1, <1>8, <1>9, <1>10
<1> QED
  BY <1>11 DEF r, heads, pre, m

(* R says where a text of r was taken from.                                *)
Sources(R, r, base, child) ==
  /\ \A i \in DOMAIN r : (IsText(r[i]) /\ r[i] # Bare) =>
       \E s \in {"child", "parent"} : \E p \in Nat : <<i, s, p>> \in R
  /\ \A i \in DOMAIN r, p \in Nat : <<i, "child", p>> \in R => p \in DOMAIN child /\ child[p] = r[i]
  /\ \A i \in DOMAIN r, p \in Nat : <<i, "parent", p>> \in R => p \in DOMAIN base /\ base[p] = r[i]
  /\ \A i, j \in DOMAIN r : \A s \in {"child", "parent"} : \A p \in Nat :
       <<i, s, p>> \in R /\ <<j, s, p>> \in R => i = j

(* The bodies of two headings have no place in common.                     *)
LEMMA BodiesApart ==
  ASSUME NEW text \in Seq(Lines), NEW g, NEW h, Headed(text, g), Headed(text, h),
         NEW j \in 1 .. Len(Body(text, g)), NEW k \in 1 .. Len(Body(text, h)),
         LastOf(text, g) + j = LastOf(text, h) + k
  PROVE  g = h /\ j = k
<1>1. Under(text, LastOf(text, g) + j) = g /\ Under(text, LastOf(text, h) + k) = h
  BY UnderBody
<1>2. g = h
  BY <1>1
<1>3. LastOf(text, g) \in 0 .. Len(text) /\ Len(text) \in Nat
  BY BodyProperties
<1>4. j \in Int /\ k \in Int
  OBVIOUS
<1> DEFINE u == LastOf(text, g)
<1>5. u + j = u + k /\ u \in Nat
  BY <1>2, <1>3
<1> HIDE DEF u
<1> QED
  BY <1>2, <1>4, <1>5

(* Every text an override leaves has a place of its own in one of the two  *)
(* texts; none is taken from a section of the parent that is replaced.     *)
LEMMA OverrideSources ==
  ASSUME NEW base \in Seq(Lines), NEW child \in Seq(Lines), Overrides \in ToSet(child)
  PROVE  LET r == ApplyOverrides(base, child)
         IN  \E R : /\ Sources(R, r, base, child)
                    /\ \A i \in DOMAIN r, p \in Nat :
                         <<i, "parent", p>> \in R => Under(base, p) \notin Replaced(child)
<1> DEFINE heads == Heads(base, child)
           m == Len(heads)
           T == HeadLines(base, child)
           P == Parts(base, child)
           r == ApplyOverrides(base, child)
           pre == Before(child)
           over == After(child)
           mk == Marker(child)
           c == Len(child)
<1>1. /\ m \in Nat /\ T \in [1 .. m -> Lines] /\ P \in [1 .. m -> Seq(Lines)]
      /\ TextInParts(m, T, P)
      /\ r \in Seq(Lines)
      /\ \E at \in [0 .. m -> Nat] : Sections(at, r, pre, m, T, P)
  BY OverridesLaidOut
<1>2. PICK at \in [0 .. m -> Nat] : Sections(at, r, pre, m, T, P)
  BY <1>1
<1>3. /\ mk \in 1 .. c /\ c \in Nat /\ DOMAIN child = 1 .. c
      /\ pre \in Seq(Lines) /\ Len(pre) = mk - 1
      /\ \A i \in 1 .. mk - 1 : pre[i] = child[i]
      /\ over \in Seq(Lines) /\ Len(over) = c - mk
      /\ \A i \in 1 .. c - mk : over[i] = child[mk + i]
  BY MarkerProperties
<1>4. IsInjective(heads) /\ DOMAIN heads = 1 .. m /\ heads[1] = Lead
  BY HeadsProperties
<1>5. \A n \in 1 .. m : T[n] = HeadLine(heads[n]) /\ P[n] = Part(base, child, heads[n])
  BY DEF HeadLines, Parts
<1>6. ASSUME NEW n \in 1 .. m
      PROVE  /\ heads[n] \in Replaced(child) => Headed(over, heads[n]) /\ P[n] = Body(over, heads[n])
             /\ heads[n] \notin Replaced(child) => Headed(base, heads[n]) /\ P[n] = Body(base, heads[n])
             /\ IsText(T[n]) => T[n] = Bare
  <2>1. heads[n] \in ToSet(heads)
    BY <1>4 DEF ToSet
  <2> HIDE DEF T, P, m
  <2> QED
    BY <1>5, <2>1, PartsProperties DEF HeadLine
<1> HIDE DEF heads, m, T, P, r, pre, over, mk, c
<1>7. DOMAIN r = 1 .. Len(r) /\ \A n \in 1 .. m : P[n] \in Seq(Lines) /\ Len(P[n]) \in Nat
  BY <1>1
<1> DEFINE Spot(n, j) == at[n - 1] + 1 + j
           PreAt(i, p) == i \in 1 .. Len(pre) /\ p = i
           OverAt(i, p) == \E n \in 1 .. m : \E j \in 1 .. Len(P[n]) :
             heads[n] \in Replaced(child) /\ i = Spot(n, j) /\ p = mk + (LastOf(over, heads[n]) + j)
           ParentAt(i, p) == \E n \in 1 .. m : \E j \in 1 .. Len(P[n]) :
             heads[n] \notin Replaced(child) /\ i = Spot(n, j) /\ p = LastOf(base, heads[n]) + j
           R == {x \in Nat \X {"child", "parent"} \X Nat :
                   IF x[2] = "child" THEN PreAt(x[1], x[3]) \/ OverAt(x[1], x[3])
                   ELSE ParentAt(x[1], x[3])}
<1>8. ASSUME NEW i \in Nat, NEW p \in Nat
      PROVE  /\ <<i, "child", p>> \in R <=> PreAt(i, p) \/ OverAt(i, p)
             /\ <<i, "parent", p>> \in R <=> ParentAt(i, p)
  <2> HIDE DEF PreAt, OverAt, ParentAt
  <2>1. /\ <<i, "child", p>> \in Nat \X {"child", "parent"} \X Nat
        /\ <<i, "parent", p>> \in Nat \X {"child", "parent"} \X Nat
    OBVIOUS
  <2>2. /\ <<i, "child", p>>[1] = i /\ <<i, "child", p>>[2] = "child" /\ <<i, "child", p>>[3] = p
        /\ <<i, "parent", p>>[1] = i /\ <<i, "parent", p>>[2] = "parent" /\ <<i, "parent", p>>[3] = p
        /\ "parent" # "child"
    OBVIOUS
  <2>3. ASSUME NEW x \in Nat \X {"child", "parent"} \X Nat
        PROVE  x \in R <=> IF x[2] = "child" THEN PreAt(x[1], x[3]) \/ OverAt(x[1], x[3])
                           ELSE ParentAt(x[1], x[3])
    BY Zenon
  <2> HIDE DEF R
  <2>4. <<i, "child", p>> \in R <=> PreAt(i, p) \/ OverAt(i, p)
    BY <2>1, <2>2, <2>3, Zenon
  <2>5. <<i, "parent", p>> \in R <=> ParentAt(i, p)
    BY <2>1, <2>2, <2>3, Zenon
  <2> QED
    BY <2>4, <2>5
<1>9. ASSUME NEW n \in 1 .. m, NEW j \in 1 .. Len(P[n])
      PROVE  /\ r[Spot(n, j)] = P[n][j]
             /\ heads[n] \in Replaced(child) =>
                  /\ LastOf(over, heads[n]) + j \in 1 .. c - mk
                  /\ P[n][j] = over[LastOf(over, heads[n]) + j]
             /\ heads[n] \notin Replaced(child) =>
                  /\ LastOf(base, heads[n]) + j \in DOMAIN base
                  /\ P[n][j] = base[LastOf(base, heads[n]) + j]
                  /\ Under(base, LastOf(base, heads[n]) + j) = heads[n]
  <2>1. r[Spot(n, j)] = P[n][j]
    BY <1>2 DEF Sections
  <2>2. ASSUME heads[n] \in Replaced(child)
        PROVE  /\ LastOf(over, heads[n]) + j \in 1 .. c - mk
               /\ P[n][j] = over[LastOf(over, heads[n]) + j]
    <3>1. Headed(over, heads[n]) /\ P[n] = Body(over, heads[n])
      BY <1>6, <2>2
    <3>2. j \in 1 .. Len(Body(over, heads[n]))
      BY <3>1
    <3>3. /\ LastOf(over, heads[n]) + j \in DOMAIN over
          /\ over[LastOf(over, heads[n]) + j] = Body(over, heads[n])[j]
      BY <1>3, <3>1, <3>2, UnderBody
    <3>4. DOMAIN over = 1 .. c - mk
      BY <1>3
    <3> QED
      BY <3>1, <3>3, <3>4
  <2>3. ASSUME heads[n] \notin Replaced(child)
        PROVE  /\ LastOf(base, heads[n]) + j \in DOMAIN base
               /\ P[n][j] = base[LastOf(base, heads[n]) + j]
               /\ Under(base, LastOf(base, heads[n]) + j) = heads[n]
    <3>1. Headed(base, heads[n]) /\ P[n] = Body(base, heads[n])
      BY <1>6, <2>3
    <3>2. j \in 1 .. Len(Body(base, heads[n]))
      BY <3>1
    <3> QED
      BY <3>1, <3>2, UnderBody
  <2> QED
    BY <2>1, <2>2, <2>3
<1>10. ASSUME NEW i \in DOMAIN r, IsText(r[i]), r[i] # Bare
       PROVE  \E s \in {"child", "parent"} : \E p \in Nat : <<i, s, p>> \in R
  <2>1. i \in 1 .. Len(r) /\ i \in Nat
    BY <1>7
  <2>2. CASE i \in 1 .. Len(pre)
    BY <1>8, <2>1, <2>2
  <2>3. ASSUME NEW n \in 1 .. m, i = at[n - 1] + 1 PROVE FALSE
    <3>1. r[i] = T[n]
      BY <1>2, <2>3 DEF Sections
    <3> QED
      BY <1>6, <1>10, <3>1
  <2>4. ASSUME NEW n \in 1 .. m, NEW j \in 1 .. Len(P[n]), i = Spot(n, j)
        PROVE  \E s \in {"child", "parent"} : \E p \in Nat : <<i, s, p>> \in R
    <3>1. CASE heads[n] \in Replaced(child)
      <4> DEFINE p == mk + (LastOf(over, heads[n]) + j)
      <4>1. LastOf(over, heads[n]) + j \in 1 .. c - mk
        BY <1>9, <3>1
      <4>2. p \in Nat
        BY <1>3, <4>1
      <4>3. OverAt(i, p)
        BY <2>4, <3>1
      <4> HIDE DEF p, OverAt, PreAt, R
      <4> QED
        BY <1>8, <2>1, <4>2, <4>3
    <3>2. CASE heads[n] \notin Replaced(child)
      <4> DEFINE p == LastOf(base, heads[n]) + j
      <4>1. p \in DOMAIN base
        BY <1>9, <3>2
      <4>2. p \in Nat
        BY <4>1
      <4>3. ParentAt(i, p)
        BY <2>4, <3>2
      <4> HIDE DEF p, ParentAt, R
      <4> QED
        BY <1>8, <2>1, <4>2, <4>3
    <3> QED
      BY <3>1, <3>2
  <2>5. \/ i \in 1 .. Len(pre)
        \/ \E n \in 1 .. m : i = at[n - 1] + 1 \/ \E j \in 1 .. Len(P[n]) : i = Spot(n, j)
    BY <1>2, <2>1 DEF Sections
  <2> HIDE DEF R, Spot
  <2> QED
    BY <2>2, <2>3, <2>4, <2>5
<1>11. ASSUME NEW i, NEW p, PreAt(i, p)
       PROVE  p \in 1 .. mk - 1 /\ p \in DOMAIN child /\ child[p] = r[i]
  <2>1. p = i /\ i \in 1 .. mk - 1 /\ r[i] = pre[i]
    BY <1>2, <1>3, <1>11 DEF Sections
  <2>2. p \in 1 .. c
    BY <1>3, <2>1
  <2> QED
    BY <1>3, <2>1, <2>2
<1>12. ASSUME NEW i, NEW p, OverAt(i, p)
       PROVE  p > mk /\ p \in DOMAIN child /\ child[p] = r[i]
  <2>1. PICK n \in 1 .. m : \E j \in 1 .. Len(P[n]) :
          heads[n] \in Replaced(child) /\ i = Spot(n, j) /\ p = mk + (LastOf(over, heads[n]) + j)
    BY <1>12
  <2>2. PICK j \in 1 .. Len(P[n]) :
          heads[n] \in Replaced(child) /\ i = Spot(n, j) /\ p = mk + (LastOf(over, heads[n]) + j)
    BY <2>1
  <2> DEFINE q == LastOf(over, heads[n]) + j
  <2>3. q \in 1 .. c - mk /\ r[i] = over[q] /\ p = mk + q
    BY <1>9, <2>2
  <2> HIDE DEF q
  <2> QED
    BY <1>3, <2>3
<1>13. ASSUME NEW i, NEW p, ParentAt(i, p)
       PROVE  p \in DOMAIN base /\ base[p] = r[i] /\ Under(base, p) \notin Replaced(child)
  <2>1. PICK n \in 1 .. m : \E j \in 1 .. Len(P[n]) :
          heads[n] \notin Replaced(child) /\ i = Spot(n, j) /\ p = LastOf(base, heads[n]) + j
    BY <1>13
  <2>2. PICK j \in 1 .. Len(P[n]) :
          heads[n] \notin Replaced(child) /\ i = Spot(n, j) /\ p = LastOf(base, heads[n]) + j
    BY <2>1
  <2> HIDE DEF Spot
  <2> QED
    BY <1>9, <2>2
<1>14. ASSUME NEW i, NEW k, NEW p, OverAt(i, p), OverAt(k, p) PROVE i = k
  <2>1. PICK n \in 1 .. m : \E j \in 1 .. Len(P[n]) :
          heads[n] \in Replaced(child) /\ i = Spot(n, j) /\ p = mk + (LastOf(over, heads[n]) + j)
    BY <1>14
  <2>2. PICK j \in 1 .. Len(P[n]) :
          heads[n] \in Replaced(child) /\ i = Spot(n, j) /\ p = mk + (LastOf(over, heads[n]) + j)
    BY <2>1
  <2>3. PICK o \in 1 .. m : \E j1 \in 1 .. Len(P[o]) :
          heads[o] \in Replaced(child) /\ k = Spot(o, j1) /\ p = mk + (LastOf(over, heads[o]) + j1)
    BY <1>14
  <2>4. PICK l \in 1 .. Len(P[o]) :
          heads[o] \in Replaced(child) /\ k = Spot(o, l) /\ p = mk + (LastOf(over, heads[o]) + l)
    BY <2>3
  <2>5. LastOf(over, heads[n]) + j = LastOf(over, heads[o]) + l
    <3> DEFINE a == LastOf(over, heads[n]) + j
               b == LastOf(over, heads[o]) + l
    <3>1. a \in 1 .. c - mk /\ b \in 1 .. c - mk /\ mk + a = mk + b
      BY <1>9, <2>2, <2>4
    <3> HIDE DEF a, b
    <3>2. a = b
      BY <1>3, <3>1
    <3> QED
      BY <3>2 DEF a, b
  <2>6. /\ Headed(over, heads[n]) /\ j \in 1 .. Len(Body(over, heads[n]))
        /\ Headed(over, heads[o]) /\ l \in 1 .. Len(Body(over, heads[o]))
    BY <1>6, <2>2, <2>4
  <2>7. heads[n] = heads[o] /\ j = l
    BY <1>3, <2>5, <2>6, BodiesApart
  <2>8. n = o
    BY <1>4, <2>7 DEF IsInjective
  <2> QED
    BY <2>2, <2>4, <2>7, <2>8
<1>15. ASSUME NEW i, NEW k, NEW p, ParentAt(i, p), ParentAt(k, p) PROVE i = k
  <2>1. PICK n \in 1 .. m : \E j \in 1 .. Len(P[n]) :
          heads[n] \notin Replaced(child) /\ i = Spot(n, j) /\ p = LastOf(base, heads[n]) + j
    BY <1>15
  <2>2. PICK j \in 1 .. Len(P[n]) :
          heads[n] \notin Replaced(child) /\ i = Spot(n, j) /\ p = LastOf(base, heads[n]) + j
    BY <2>1
  <2>3. PICK o \in 1 .. m : \E j1 \in 1 .. Len(P[o]) :
          heads[o] \notin Replaced(child) /\ k = Spot(o, j1) /\ p = LastOf(base, heads[o]) + j1
    BY <1>15
  <2>4. PICK l \in 1 .. Len(P[o]) :
          heads[o] \notin Replaced(child) /\ k = Spot(o, l) /\ p = LastOf(base, heads[o]) + l
    BY <2>3
  <2>5. LastOf(base, heads[n]) + j = LastOf(base, heads[o]) + l
    BY <2>2, <2>4
  <2>6. /\ Headed(base, heads[n]) /\ j \in 1 .. Len(Body(base, heads[n]))
        /\ Headed(base, heads[o]) /\ l \in 1 .. Len(Body(base, heads[o]))
    BY <1>6, <2>2, <2>4
  <2>7. heads[n] = heads[o] /\ j = l
    BY <2>5, <2>6, BodiesApart
  <2>8. n = o
    BY <1>4, <2>7 DEF IsInjective
  <2> QED
    BY <2>2, <2>4, <2>7, <2>8
<1>16. ASSUME NEW i, NEW k, NEW p, PreAt(i, p), PreAt(k, p) PROVE i = k
  BY <1>16
<1>17. ASSUME NEW i, NEW k, NEW p, PreAt(i, p), OverAt(k, p) PROVE FALSE
  <2> HIDE DEF PreAt, OverAt
  <2>1. p \in 1 .. mk - 1 /\ p > mk
    BY <1>11, <1>12, <1>17
  <2> QED
    BY <1>3, <2>1
<1> HIDE DEF PreAt, OverAt, ParentAt, R, Spot
<1>18. \A i \in DOMAIN r : i \in Nat
  BY <1>7
<1>19. \A i \in DOMAIN r, p \in Nat : <<i, "child", p>> \in R => p \in DOMAIN child /\ child[p] = r[i]
  BY <1>8, <1>11, <1>12, <1>18
<1>20. \A i \in DOMAIN r, p \in Nat : <<i, "parent", p>> \in R =>
         p \in DOMAIN base /\ base[p] = r[i] /\ Under(base, p) \notin Replaced(child)
  BY <1>8, <1>13, <1>18
<1>21. ASSUME NEW i \in DOMAIN r, NEW k \in DOMAIN r, NEW s \in {"child", "parent"}, NEW p \in Nat,
              <<i, s, p>> \in R, <<k, s, p>> \in R
       PROVE  i = k
  <2>1. CASE s = "child"
    <3>1. (PreAt(i, p) \/ OverAt(i, p)) /\ (PreAt(k, p) \/ OverAt(k, p))
      BY <1>8, <1>18, <1>21, <2>1
    <3> QED
      BY <1>14, <1>16, <1>17, <3>1
  <2>2. CASE s = "parent"
    <3>1. ParentAt(i, p) /\ ParentAt(k, p)
      BY <1>8, <1>18, <1>21, <2>2
    <3> QED
      BY <1>15, <3>1
  <2> QED
    BY <2>1, <2>2
<1>22. Sources(R, r, base, child)
  BY <1>10, <1>19, <1>20, <1>21 DEF Sources
<1> QED
  BY <1>20, <1>22 DEF r

(* What a layer without an override adds behind the layers before it.      *)
Kinds(child) == {i \in DOMAIN child : child[i] # Extends}

(* Every text has a place of its own there too.                            *)
LEMMA AppendSources ==
  ASSUME NEW base \in Seq(Lines), NEW child \in Seq(Lines)
  PROVE  LET r == base \o Kept(child, Kinds(child))
         IN  /\ r \in Seq(Lines)
             /\ ToSet(r) = ToSet(base) \cup {child[i] : i \in Kinds(child)}
             /\ \E R : Sources(R, r, base, child)
<1> DEFINE q == Kept(child, Kinds(child))
           r == base \o q
           a == Len(base)
           b == Len(q)
<1>1. Kinds(child) \subseteq 1 .. Len(child) /\ DOMAIN child = 1 .. Len(child) /\ Len(child) \in Nat
  BY DEF Kinds
<1>2. q \in Seq(Lines) /\ ToSet(q) = {child[i] : i \in Kinds(child)}
  BY <1>1, KeptSet
<1>3. {i \in 1 .. Len(child) : i \in Kinds(child)} = Kinds(child)
  BY <1>1
<1>4. \E e : Enumerates(e, Kept(child, Kinds(child)), child, {i \in 1 .. Len(child) : i \in Kinds(child)})
  BY KeptEnumerates
<1>5. PICK e : Enumerates(e, q, child, Kinds(child))
  BY <1>3, <1>4
<1> HIDE DEF q
<1>6. /\ e \in [1 .. b -> Kinds(child)]
      /\ \A k \in 1 .. b : q[k] = child[e[k]]
      /\ \A k, l \in 1 .. b : k < l => e[k] < e[l]
  BY <1>5 DEF Enumerates
<1>7. /\ r \in Seq(Lines) /\ Len(r) = a + b /\ a \in Nat /\ b \in Nat /\ DOMAIN r = 1 .. a + b
      /\ \A i \in 1 .. a : r[i] = base[i]
      /\ \A i \in 1 .. b : r[a + i] = q[i]
      /\ DOMAIN base = 1 .. a
  BY <1>2
<1>8. ToSet(r) = ToSet(base) \cup ToSet(q)
  BY <1>2, ConcatSet
<1> DEFINE Old(i, p) == i \in 1 .. a /\ p = i
           New(i, p) == \E k \in 1 .. b : i = a + k /\ p = e[k]
           R == {x \in Nat \X {"child", "parent"} \X Nat :
                   IF x[2] = "child" THEN New(x[1], x[3]) ELSE Old(x[1], x[3])}
<1>9. ASSUME NEW i \in Nat, NEW p \in Nat
      PROVE  /\ <<i, "child", p>> \in R <=> New(i, p)
             /\ <<i, "parent", p>> \in R <=> Old(i, p)
  <2> HIDE DEF Old, New
  <2>1. /\ <<i, "child", p>> \in Nat \X {"child", "parent"} \X Nat
        /\ <<i, "parent", p>> \in Nat \X {"child", "parent"} \X Nat
    OBVIOUS
  <2>2. /\ <<i, "child", p>>[1] = i /\ <<i, "child", p>>[2] = "child" /\ <<i, "child", p>>[3] = p
        /\ <<i, "parent", p>>[1] = i /\ <<i, "parent", p>>[2] = "parent" /\ <<i, "parent", p>>[3] = p
        /\ "parent" # "child"
    OBVIOUS
  <2>3. ASSUME NEW x \in Nat \X {"child", "parent"} \X Nat
        PROVE  x \in R <=> IF x[2] = "child" THEN New(x[1], x[3]) ELSE Old(x[1], x[3])
    BY Zenon
  <2> HIDE DEF R
  <2>4. <<i, "child", p>> \in R <=> New(i, p)
    BY <2>1, <2>2, <2>3, Zenon
  <2>5. <<i, "parent", p>> \in R <=> Old(i, p)
    BY <2>1, <2>2, <2>3, Zenon
  <2> QED
    BY <2>4, <2>5
<1> HIDE DEF R, r, a, b
<1>10. ASSUME NEW k \in 1 .. b PROVE e[k] \in Nat /\ e[k] \in DOMAIN child /\ child[e[k]] = r[a + k]
  <2>1. e[k] \in Kinds(child) /\ q[k] = child[e[k]] /\ r[a + k] = q[k]
    BY <1>6, <1>7
  <2>2. e[k] \in 1 .. Len(child)
    BY <1>1, <2>1
  <2> QED
    BY <1>1, <2>1, <2>2
<1>11. ASSUME NEW i \in DOMAIN r
       PROVE  \E s \in {"child", "parent"} : \E p \in Nat : <<i, s, p>> \in R
  <2>1. i \in 1 .. a + b /\ i \in Nat
    BY <1>7
  <2>2. CASE i \in 1 .. a
    <3>1. Old(i, i)
      BY <2>2
    <3> HIDE DEF Old
    <3> QED
      BY <1>9, <2>1, <3>1
  <2>3. CASE i \notin 1 .. a
    <3>1. i - a \in 1 .. b /\ i = a + (i - a)
      BY <1>7, <2>1, <2>3
    <3>2. New(i, e[i - a]) /\ e[i - a] \in Nat
      BY <1>10, <3>1
    <3> HIDE DEF New
    <3> QED
      BY <1>9, <2>1, <3>2
  <2> QED
    BY <2>2, <2>3
<1>12. ASSUME NEW i, NEW p, New(i, p) PROVE p \in DOMAIN child /\ child[p] = r[i]
  BY <1>10, <1>12
<1>13. ASSUME NEW i, NEW p, Old(i, p) PROVE p \in DOMAIN base /\ base[p] = r[i]
  BY <1>7, <1>13
<1>14. ASSUME NEW i, NEW j, NEW p, New(i, p), New(j, p) PROVE i = j
  <2>1. PICK k \in 1 .. b : i = a + k /\ p = e[k]
    BY <1>14
  <2>2. PICK l \in 1 .. b : j = a + l /\ p = e[l]
    BY <1>14
  <2>3. e[k] = e[l] /\ e[k] \in Nat
    BY <1>10, <2>1, <2>2
  <2>4. ~(e[k] < e[l]) /\ ~(e[l] < e[k])
    BY <2>3
  <2>5. k = l
    BY <1>6, <1>7, <2>4
  <2> QED
    BY <2>1, <2>2, <2>5
<1>15. ASSUME NEW i, NEW j, NEW p, Old(i, p), Old(j, p) PROVE i = j
  BY <1>15
<1> HIDE DEF Old, New
<1>16. \A i \in DOMAIN r : i \in Nat
  BY <1>7
<1>17. \A i \in DOMAIN r, p \in Nat : <<i, "child", p>> \in R => p \in DOMAIN child /\ child[p] = r[i]
  BY <1>9, <1>12, <1>16
<1>18. \A i \in DOMAIN r, p \in Nat : <<i, "parent", p>> \in R => p \in DOMAIN base /\ base[p] = r[i]
  BY <1>9, <1>13, <1>16
<1>19. ASSUME NEW i \in DOMAIN r, NEW j \in DOMAIN r, NEW s \in {"child", "parent"}, NEW p \in Nat,
              <<i, s, p>> \in R, <<j, s, p>> \in R
       PROVE  i = j
  <2>1. CASE s = "child"
    BY <1>9, <1>14, <1>16, <1>19, <2>1
  <2>2. CASE s = "parent"
    BY <1>9, <1>15, <1>16, <1>19, <2>2
  <2> QED
    BY <2>1, <2>2
<1>20. Sources(R, r, base, child)
  BY <1>11, <1>17, <1>18, <1>19 DEF Sources
<1>21. /\ r \in Seq(Lines)
       /\ ToSet(r) = ToSet(base) \cup {child[i] : i \in Kinds(child)}
       /\ \E R1 : Sources(R1, r, base, child)
  BY <1>2, <1>7, <1>8, <1>20
<1> QED
  BY <1>21 DEF r, q

(***************************************************************************)
(* The invariant of Instructions: every text of the merged layers was read *)
(* in one of them and stands there once.                                   *)
(***************************************************************************)
InstrInv ==
  /\ merged \in Seq(Lines) /\ latest \in Seq(Lines) /\ layer \in Nat
  /\ \A i \in DOMAIN merged : (IsText(merged[i]) /\ merged[i] # Bare) => merged[i].of[1] \in 1 .. layer
  /\ \A i, j \in DOMAIN merged :
       (IsText(merged[i]) /\ merged[i] # Bare /\ merged[i] = merged[j]) => i = j
  /\ ScopeIsKept

(* Nothing has been read.                                                  *)
LEMMA InitInstr ==
  InstrInit => InstrInv
<1> SUFFICES ASSUME InstrInit PROVE InstrInv
  OBVIOUS
<1>1. merged = <<>> /\ latest = <<>> /\ layer = 0
  BY DEF InstrInit
<1>2. <<>> \in Seq(Lines) /\ DOMAIN <<>> = {}
  OBVIOUS
<1> QED
  BY <1>1, <1>2 DEF InstrInv, ScopeIsKept

(* The file that is read: its texts carry their places.                    *)
LEMMA FileRead ==
  ASSUME InstrInv, ReadLayer
  PROVE  /\ latest' \in Seq(Lines) /\ layer' = layer + 1 /\ layer \in Nat
         /\ merged' = MergeLayer(merged, Filtered(latest'))
         /\ \A i \in DOMAIN latest' : IsText(latest'[i]) => latest'[i] = Text(<<layer + 1, i>>)
<1>1. layer \in Nat /\ layer < Len(MaxLines) /\ MaxLines \in Seq(Nat)
  BY InstructionsAssumption DEF InstrInv, ReadLayer
<1>2. PICK shape \in BoundedSeq(Marks \cup {Bare}, MaxLines[layer + 1]) :
        latest' = [i \in DOMAIN shape |->
          IF IsText(shape[i]) THEN Text(<<layer + 1, i>>) ELSE shape[i]]
  BY DEF ReadLayer
<1>3. MaxLines[layer + 1] \in Nat
  BY <1>1
<1>4. PICK n \in Nat : shape \in [1 .. n -> Marks \cup {Bare}]
  BY <1>2, <1>3 DEF BoundedSeq, SeqOf
<1>5. ASSUME NEW i \in 1 .. n
      PROVE  /\ latest'[i] \in Lines
             /\ IsText(latest'[i]) => latest'[i] = Text(<<layer + 1, i>>)
  <2>1. latest'[i] = IF IsText(shape[i]) THEN Text(<<layer + 1, i>>) ELSE shape[i]
    BY <1>2, <1>4
  <2>2. shape[i] \in Marks \cup {Bare}
    BY <1>4
  <2>3. <<layer + 1, i>> \in Nat \X Nat
    BY <1>1, <1>4
  <2>4. CASE IsText(shape[i])
    <3>1. latest'[i] = Text(<<layer + 1, i>>)
      BY <2>1, <2>4
    <3>2. Text(<<layer + 1, i>>) \in Lines
      BY <2>3 DEF Lines
    <3> QED
      BY <3>1, <3>2, Zenon
  <2>5. CASE ~IsText(shape[i])
    <3>1. latest'[i] = shape[i] /\ ~IsText(latest'[i])
      BY <2>1, <2>5
    <3>2. shape[i] \in Marks
      BY <2>2, <2>5, LineKinds
    <3> QED
      BY <3>1, <3>2 DEF Lines
  <2> QED
    BY <2>4, <2>5
<1>6. DOMAIN latest' = 1 .. n /\ latest' = [i \in 1 .. n |-> latest'[i]]
  BY <1>2, <1>4
<1>7. latest' \in Seq(Lines)
  <2>1. latest' \in [1 .. n -> Lines]
    BY <1>5, <1>6, Zenon
  <2> DEFINE f == latest'
  <2>2. f \in [1 .. n -> Lines]
    BY <2>1
  <2> HIDE DEF f
  <2>3. f \in Seq(Lines)
    BY <1>4, <2>2
  <2> QED
    BY <2>3 DEF f
<1> QED
  BY <1>1, <1>5, <1>6, <1>7 DEF ReadLayer

(* What is kept of it, each text with the place it was read from.          *)
LEMMA ChildRead ==
  ASSUME InstrInv, ReadLayer
  PROVE  LET child == Filtered(latest')
         IN  /\ child \in Seq(Lines)
             /\ ToSet(child) = {latest'[i] : i \in KeptLines(latest')}
             /\ \A p \in DOMAIN child : IsText(child[p]) =>
                  \E i \in KeptLines(latest') : child[p] = latest'[i] /\ child[p] = Text(<<layer + 1, i>>)
             /\ \A p, q \in DOMAIN child : (IsText(child[p]) /\ child[p] = child[q]) => p = q
<1> DEFINE child == Filtered(latest')
           J == KeptLines(latest')
<1>1. /\ latest' \in Seq(Lines)
      /\ \A i \in DOMAIN latest' : IsText(latest'[i]) => latest'[i] = Text(<<layer + 1, i>>)
  BY FileRead
<1>2. /\ child \in Seq(Lines) /\ ToSet(child) = {latest'[i] : i \in J}
      /\ \E e : Enumerates(e, child, latest', J)
  BY <1>1, FilteredProperties
<1>3. PICK e : Enumerates(e, child, latest', J)
  BY <1>2
<1>4. J \subseteq DOMAIN latest' /\ DOMAIN latest' \subseteq Nat
  BY <1>1 DEF KeptLines
<1> HIDE DEF child, J
<1>5. DOMAIN child = 1 .. Len(child) /\ Len(child) \in Nat
  BY <1>2
<1>6. /\ e \in [1 .. Len(child) -> J]
      /\ \A k \in 1 .. Len(child) : child[k] = latest'[e[k]]
      /\ \A k, l \in 1 .. Len(child) : k < l => e[k] < e[l]
  BY <1>3 DEF Enumerates
<1>7. ASSUME NEW p \in DOMAIN child, IsText(child[p])
      PROVE  e[p] \in J /\ child[p] = latest'[e[p]] /\ child[p] = Text(<<layer + 1, e[p]>>)
  <2>1. e[p] \in J /\ child[p] = latest'[e[p]]
    BY <1>5, <1>6
  <2> QED
    BY <1>1, <1>4, <1>7, <2>1
<1>8. ASSUME NEW p \in DOMAIN child, NEW q \in DOMAIN child, IsText(child[p]), child[p] = child[q]
      PROVE  p = q
  <2>1. Text(<<layer + 1, e[p]>>) = Text(<<layer + 1, e[q]>>)
    BY <1>7, <1>8
  <2>2. <<layer + 1, e[p]>> = <<layer + 1, e[q]>>
    BY <2>1, LineKinds
  <2>3. e[p] = e[q] /\ e[p] \in Nat
    BY <1>4, <1>7, <1>8, <2>2
  <2>4. ~(e[p] < e[q]) /\ ~(e[q] < e[p])
    BY <2>3
  <2> QED
    BY <1>5, <1>6, <2>4
<1>9. /\ child \in Seq(Lines) /\ ToSet(child) = {latest'[i] : i \in J}
      /\ \A p \in DOMAIN child : IsText(child[p]) =>
           \E i \in J : child[p] = latest'[i] /\ child[p] = Text(<<layer + 1, i>>)
      /\ \A p, q \in DOMAIN child : (IsText(child[p]) /\ child[p] = child[q]) => p = q
  BY <1>2, <1>7, <1>8
<1> QED
  BY <1>9 DEF child, J

(* The first layer is taken as it is.                                      *)
LEMMA FirstSources ==
  ASSUME NEW base \in Seq(Lines), NEW child \in Seq(Lines)
  PROVE  \E R : Sources(R, child, base, child)
<1> DEFINE R == {<<i, "child", i>> : i \in DOMAIN child}
<1>1. DOMAIN child \subseteq Nat
  OBVIOUS
<1>2. \A x, y, z : <<x, y, z>> \in R <=> x \in DOMAIN child /\ y = "child" /\ z = x
  OBVIOUS
<1> HIDE DEF R
<1>3. "parent" # "child"
  OBVIOUS
<1>4. \A i \in DOMAIN child : \E s \in {"child", "parent"} : \E p \in Nat : <<i, s, p>> \in R
  BY <1>1, <1>2
<1>5. Sources(R, child, base, child)
  BY <1>2, <1>3, <1>4 DEF Sources
<1> QED
  BY <1>5

(* So has every text of a merged layer, whichever way it was merged.       *)
LEMMA MergeSources ==
  ASSUME InstrInv, ReadLayer
  PROVE  merged' \in Seq(Lines) /\ \E R : Sources(R, merged', merged, Filtered(latest'))
<1> DEFINE child == Filtered(latest')
<1>1. merged \in Seq(Lines) /\ child \in Seq(Lines) /\ merged' = MergeLayer(merged, child)
  BY FileRead, ChildRead DEF InstrInv
<1> HIDE DEF child
<1>2. CASE layer = 0
  <2>1. merged' = child
    BY <1>1, <1>2 DEF MergeLayer
  <2> QED
    BY <1>1, <2>1, FirstSources DEF child
<1>3. CASE layer # 0 /\ Overrides \in ToSet(child)
  <2>1. merged' = ApplyOverrides(merged, child)
    BY <1>1, <1>3 DEF MergeLayer, Range, ToSet
  <2> QED
    BY <1>1, <1>3, <2>1, SectionsStay, OverrideSources DEF child
<1>4. CASE layer # 0 /\ Overrides \notin ToSet(child)
  <2>1. merged' = merged \o Kept(child, Kinds(child))
    BY <1>1, <1>4 DEF MergeLayer, Range, ToSet, Kinds
  <2> QED
    BY <1>1, <2>1, AppendSources DEF child
<1> QED
  BY <1>2, <1>3, <1>4
(* Where a text of the merged layers comes from: of the layer just read    *)
(* with its place there, or of an earlier layer.                           *)
LEMMA TextsRead ==
  ASSUME InstrInv, ReadLayer, NEW R, Sources(R, merged', merged, Filtered(latest')),
         NEW k \in DOMAIN merged', IsText(merged'[k]), merged'[k] # Bare,
         NEW s \in {"child", "parent"}, NEW p \in Nat, <<k, s, p>> \in R
  PROVE  /\ s = "child" => /\ p \in DOMAIN Filtered(latest') /\ Filtered(latest')[p] = merged'[k]
                           /\ \E i \in KeptLines(latest') : merged'[k] = Text(<<layer + 1, i>>)
                           /\ merged'[k].of[1] = layer + 1
         /\ s = "parent" => /\ p \in DOMAIN merged /\ merged[p] = merged'[k]
                            /\ merged'[k].of[1] \in 1 .. layer
<1> DEFINE child == Filtered(latest')
           r == merged'
<1>1. /\ p \in Nat /\ s = "child" => p \in DOMAIN child /\ child[p] = r[k]
      /\ s = "parent" => p \in DOMAIN merged /\ merged[p] = r[k]
  <2>1. s = "child" => p \in DOMAIN child /\ child[p] = r[k]
    BY DEF Sources
  <2>2. s = "parent" => p \in DOMAIN merged /\ merged[p] = r[k]
    BY DEF Sources
  <2> QED
    BY <2>1, <2>2
<1>2. \A q \in DOMAIN child : IsText(child[q]) =>
        \E i \in KeptLines(latest') : child[q] = latest'[i] /\ child[q] = Text(<<layer + 1, i>>)
  BY ChildRead
<1>3. \A q \in DOMAIN merged : (IsText(merged[q]) /\ merged[q] # Bare) => merged[q].of[1] \in 1 .. layer
  BY DEF InstrInv
<1>4. IsText(r[k]) /\ r[k] # Bare
  OBVIOUS
<1> HIDE DEF child, r
<1>5. CASE s = "child"
  <2>1. p \in DOMAIN child /\ child[p] = r[k]
    BY <1>1, <1>5
  <2>2. PICK i \in KeptLines(latest') : r[k] = Text(<<layer + 1, i>>)
    BY <1>2, <1>4, <2>1
  <2>3. r[k].of = <<layer + 1, i>>
    BY <2>2, LineKinds
  <2>4. r[k].of[1] = layer + 1
    BY <2>3
  <2> QED
    BY <1>5, <2>1, <2>2, <2>4 DEF r, child
<1>6. CASE s = "parent"
  <2>1. p \in DOMAIN merged /\ merged[p] = r[k]
    BY <1>1, <1>6
  <2> QED
    BY <1>3, <1>4, <1>6, <2>1 DEF r, child
<1> QED
  BY <1>5, <1>6

(* A layer keeps the invariant.                                            *)
LEMMA ReadKeeps ==
  ASSUME InstrInv, ReadLayer
  PROVE  InstrInv'
<1> DEFINE child == Filtered(latest')
           r == merged'
           t == latest'
           n == layer + 1
<1>1. /\ t \in Seq(Lines) /\ layer' = n /\ layer \in Nat /\ r = MergeLayer(merged, child)
      /\ \A i \in DOMAIN t : IsText(t[i]) => t[i] = Text(<<n, i>>)
  BY FileRead
<1>2. /\ child \in Seq(Lines) /\ ToSet(child) = {t[i] : i \in KeptLines(t)}
      /\ \A p, q \in DOMAIN child : (IsText(child[p]) /\ child[p] = child[q]) => p = q
  BY ChildRead
<1>3. r \in Seq(Lines) /\ \E R : Sources(R, r, merged, child)
  BY MergeSources
<1>4. PICK R : Sources(R, r, merged, child)
  BY <1>3
<1>5. \A k \in DOMAIN r : \A s \in {"child", "parent"} : \A p \in Nat :
        (IsText(r[k]) /\ r[k] # Bare /\ <<k, s, p>> \in R) =>
          /\ s = "child" => /\ p \in DOMAIN child /\ child[p] = r[k]
                            /\ \E i \in KeptLines(t) : r[k] = Text(<<n, i>>)
                            /\ r[k].of[1] = n
          /\ s = "parent" => /\ p \in DOMAIN merged /\ merged[p] = r[k] /\ r[k].of[1] \in 1 .. layer
  BY <1>4, TextsRead
<1>6. \A k \in DOMAIN r : (IsText(r[k]) /\ r[k] # Bare) =>
        \E s \in {"child", "parent"} : \E p \in Nat : <<k, s, p>> \in R
  BY <1>4 DEF Sources
<1>7. \A k, l \in DOMAIN r : \A s \in {"child", "parent"} : \A p \in Nat :
        <<k, s, p>> \in R /\ <<l, s, p>> \in R => k = l
  BY <1>4 DEF Sources
<1>8. merged \in Seq(Lines) /\ \A i, j \in DOMAIN merged :
        (IsText(merged[i]) /\ merged[i] # Bare /\ merged[i] = merged[j]) => i = j
  BY DEF InstrInv
<1>9. /\ layer = 0 => r = child
      /\ layer # 0 /\ Overrides \notin ToSet(child) => r = merged \o Kept(child, Kinds(child))
  BY <1>1 DEF MergeLayer, Range, ToSet, Kinds
<1> HIDE DEF child, r, t, n
<1>10. n \in Nat /\ n = layer + 1 /\ n \notin 1 .. layer /\ \A x \in 1 .. layer : x \in 1 .. n
  BY <1>1 DEF n
<1>11. \A i \in DOMAIN r : (IsText(r[i]) /\ r[i] # Bare) => r[i].of[1] \in 1 .. n
  <2> SUFFICES ASSUME NEW i \in DOMAIN r, IsText(r[i]), r[i] # Bare PROVE r[i].of[1] \in 1 .. n
    OBVIOUS
  <2>1. PICK s \in {"child", "parent"} : \E p \in Nat : <<i, s, p>> \in R
    BY <1>6
  <2>2. PICK p \in Nat : <<i, s, p>> \in R
    BY <2>1
  <2>3. s = "child" => r[i].of[1] = n
    BY <1>5, <2>2
  <2>4. s = "parent" => r[i].of[1] \in 1 .. layer
    BY <1>5, <2>2
  <2>5. n \in 1 .. n
    BY <1>1, <1>10
  <2> QED
    BY <1>10, <2>3, <2>4, <2>5
<1>12. \A i, j \in DOMAIN r : (IsText(r[i]) /\ r[i] # Bare /\ r[i] = r[j]) => i = j
  <2> SUFFICES ASSUME NEW i \in DOMAIN r, NEW j \in DOMAIN r, IsText(r[i]), r[i] # Bare, r[i] = r[j]
               PROVE  i = j
    OBVIOUS
  <2>1. PICK s \in {"child", "parent"} : \E p \in Nat : <<i, s, p>> \in R
    BY <1>6
  <2>2. PICK p \in Nat : <<i, s, p>> \in R
    BY <2>1
  <2>3. PICK u \in {"child", "parent"} : \E q \in Nat : <<j, u, q>> \in R
    BY <1>6
  <2>4. PICK q \in Nat : <<j, u, q>> \in R
    BY <2>3
  <2>5. /\ s = "child" => p \in DOMAIN child /\ child[p] = r[i] /\ r[i].of[1] = n
        /\ s = "parent" => p \in DOMAIN merged /\ merged[p] = r[i] /\ r[i].of[1] \in 1 .. layer
    BY <1>5, <2>2
  <2>6. /\ u = "child" => q \in DOMAIN child /\ child[q] = r[j] /\ r[j].of[1] = n
        /\ u = "parent" => q \in DOMAIN merged /\ merged[q] = r[j] /\ r[j].of[1] \in 1 .. layer
    BY <1>5, <2>4
  <2>7. s = u
    BY <1>10, <2>5, <2>6
  <2>8. CASE s = "child"
    <3>1. p = q
      BY <1>2, <2>5, <2>6, <2>7, <2>8
    <3> QED
      BY <1>7, <2>2, <2>4, <2>7, <3>1
  <2>9. CASE s = "parent"
    <3>1. p = q
      BY <1>8, <2>5, <2>6, <2>7, <2>9
    <3> QED
      BY <1>7, <2>2, <2>4, <2>7, <3>1
  <2> QED
    BY <2>8, <2>9
<1>13. ASSUME NEW i \in DOMAIN t, IsText(t[i])
       PROVE  /\ InBlockOf(t, i, "other") => t[i] \notin ToSet(r)
              /\ (~InBlockOf(t, i, "other") /\ Overrides \notin ToSet(t)) => t[i] \in ToSet(r)
  <2>1. t[i] = Text(<<n, i>>) /\ t[i].of = <<n, i>>
    BY <1>1, <1>13, LineKinds
  <2>2. t[i] # Bare /\ t[i].of[1] = n
    <3>1. <<n, i>> # <<0, 0>>
      BY <1>1, <1>10
    <3> QED
      BY <2>1, <3>1, LineKinds
  <2>3. ASSUME InBlockOf(t, i, "other"), t[i] \in ToSet(r) PROVE FALSE
    <3>1. PICK k \in DOMAIN r : r[k] = t[i]
      BY <2>3 DEF ToSet
    <3>2. IsText(r[k]) /\ r[k] # Bare
      BY <1>13, <2>2, <3>1
    <3>3. PICK s \in {"child", "parent"} : \E p \in Nat : <<k, s, p>> \in R
      BY <1>6, <3>2
    <3>4. PICK p \in Nat : <<k, s, p>> \in R
      BY <3>3
    <3>5. s # "parent"
      BY <1>5, <1>10, <2>2, <3>1, <3>2, <3>4
    <3>6. \E q \in KeptLines(t) : r[k] = Text(<<n, q>>)
      BY <1>5, <3>2, <3>4, <3>5
    <3>7. PICK q \in KeptLines(t) : r[k] = Text(<<n, q>>)
      BY <3>6
    <3>8. <<n, q>> = <<n, i>>
      BY <2>1, <3>1, <3>7, LineKinds
    <3>9. q = i
      BY <3>8
    <3> QED
      BY <2>3, <3>7, <3>9 DEF KeptLines
  <2>4. ASSUME ~InBlockOf(t, i, "other"), Overrides \notin ToSet(t) PROVE t[i] \in ToSet(r)
    <3>1. i \in KeptLines(t)
      BY <1>13, <2>4 DEF KeptLines, IsText
    <3>2. t[i] \in ToSet(child)
      BY <1>2, <3>1
    <3>3. ToSet(child) \subseteq ToSet(t)
      BY <1>2 DEF KeptLines, ToSet
    <3>4. Overrides \notin ToSet(child)
      BY <2>4, <3>3
    <3>5. PICK q \in DOMAIN child : child[q] = t[i]
      BY <3>2 DEF ToSet
    <3>6. q \in Kinds(child)
      BY <1>13, <3>5, LineKinds DEF Kinds
    <3>7. t[i] \in ToSet(merged \o Kept(child, Kinds(child)))
      BY <1>2, <1>8, <3>5, <3>6, AppendSources
    <3> QED
      BY <1>9, <3>2, <3>4, <3>7
  <2> QED
    BY <2>3, <2>4
<1>14. \A i \in DOMAIN t : IsText(t[i]) =>
         /\ InBlockOf(t, i, "other") => t[i] \notin Range(r)
         /\ (~InBlockOf(t, i, "other") /\ Overrides \notin Range(t)) => t[i] \in Range(r)
  BY <1>13 DEF Range, ToSet
<1>15. ScopeIsKept'
  BY <1>14 DEF ScopeIsKept, t, r
<1>16. n \in Nat
  BY <1>10
<1> QED
  BY <1>1, <1>3, <1>11, <1>12, <1>15, <1>16 DEF InstrInv, t, r
(* The lines around the marker are the child's.                            *)
LEMMA AroundMarker ==
  ASSUME NEW child \in Seq(Lines), Overrides \in ToSet(child)
  PROVE  ToSet(Before(child)) \subseteq ToSet(child) /\ ToSet(After(child)) \subseteq ToSet(child)
<1>1. /\ Marker(child) \in 1 .. Len(child) /\ DOMAIN child = 1 .. Len(child) /\ Len(child) \in Nat
      /\ DOMAIN Before(child) = 1 .. Len(Before(child)) /\ Len(Before(child)) = Marker(child) - 1
      /\ \A i \in 1 .. Len(Before(child)) : Before(child)[i] = child[i]
      /\ DOMAIN After(child) = 1 .. Len(After(child)) /\ Len(After(child)) = Len(child) - Marker(child)
      /\ \A i \in 1 .. Len(After(child)) : After(child)[i] = child[Marker(child) + i]
  BY MarkerProperties
<1>2. \A i \in DOMAIN Before(child) : i \in DOMAIN child /\ Before(child)[i] = child[i]
  BY <1>1
<1>3. \A i \in DOMAIN After(child) :
        Marker(child) + i \in DOMAIN child /\ After(child)[i] = child[Marker(child) + i]
  BY <1>1
<1> QED
  BY <1>2, <1>3 DEF ToSet

(* A heading of the override is one of those that are replaced.            *)
LEMMA TitleReplaced ==
  ASSUME NEW base \in Seq(Lines), NEW child \in Seq(Lines), Overrides \in ToSet(child),
         NEW h \in Titled(After(child))
  PROVE  h \in Replaced(child) /\ h \in ToSet(Heads(base, child)) /\ h # Lead /\ ~IsText(h)
<1>1. After(child) \in Seq(Lines)
  BY MarkerProperties
<1>2. h \in ToSet(After(child)) /\ h.kind = "heading"
  BY DEF Titled, Range, ToSet
<1>3. h # Lead /\ ~IsText(h)
  BY <1>2 DEF Lead, IsText
<1>4. PICK i \in DOMAIN After(child) : After(child)[i] = h
  BY <1>2 DEF ToSet
<1>5. i \in Marked(After(child))
  BY <1>3, <1>4 DEF Marked
<1>6. h \in Replaced(child)
  BY <1>1, <1>4, <1>5, OrderProperties DEF Replaced
<1> QED
  BY <1>3, <1>6, HeadsProperties

(* The step of a layer that overrides.                                     *)
LEMMA OverrideStep ==
  ASSUME InstrInv, ReadLayer, layer > 0, Overrides \in Range(Filtered(latest'))
  PROVE  /\ merged \in Seq(Lines) /\ Filtered(latest') \in Seq(Lines)
         /\ Overrides \in ToSet(Filtered(latest'))
         /\ merged' = ApplyOverrides(merged, Filtered(latest'))
<1>1. Overrides \in ToSet(Filtered(latest'))
  BY DEF Range, ToSet
<1>2. layer # 0 /\ layer \in Nat
  BY DEF InstrInv
<1>3. merged' = MergeLayer(merged, Filtered(latest'))
  BY FileRead
<1> QED
  BY <1>1, <1>2, <1>3, ChildRead DEF MergeLayer, InstrInv

(* OverrideReplaces, for one heading of the override.                      *)
LEMMA OverrideTakesOver ==
  ASSUME InstrInv, ReadLayer, layer > 0, Overrides \in Range(Filtered(latest')),
         NEW h \in Titled(After(Filtered(latest')))
  PROVE  /\ h \in Range(merged')
         /\ \A i \in DOMAIN merged :
              (IsText(merged[i]) /\ merged[i] # Bare /\ Under(merged, i) = h)
                => merged[i] \notin Range(merged')
         /\ h \notin Range(Before(Filtered(latest'))) => Body(merged', h) = Body(After(Filtered(latest')), h)
<1> DEFINE child == Filtered(latest')
           r == merged'
<1>1. merged \in Seq(Lines) /\ child \in Seq(Lines) /\ Overrides \in ToSet(child) /\ r = ApplyOverrides(merged, child)
  BY OverrideStep
<1>2. h \in Titled(After(child))
  OBVIOUS
<1>3. \A R, k : \A s \in {"child", "parent"} : \A p \in Nat :
        (Sources(R, r, merged, child) /\ k \in DOMAIN r /\ IsText(r[k]) /\ r[k] # Bare /\ <<k, s, p>> \in R) =>
          /\ s = "child" => r[k].of[1] = layer + 1
          /\ s = "parent" => p \in DOMAIN merged /\ merged[p] = r[k]
  BY TextsRead
<1> HIDE DEF child, r
<1>4. h \in Replaced(child) /\ h \in ToSet(Heads(merged, child)) /\ h # Lead /\ ~IsText(h)
  BY <1>1, <1>2, TitleReplaced
<1>5. /\ ToSet(Before(child)) \subseteq ToSet(r)
      /\ h \notin ToSet(Before(child)) => h \in ToSet(r) /\ Body(r, h) = Part(merged, child, h)
  BY <1>1, <1>4, SectionsStay
<1>6. Part(merged, child, h) = Body(After(child), h)
  BY <1>4 DEF Part
<1>7. PICK R : /\ Sources(R, r, merged, child)
               /\ \A i \in DOMAIN r, p \in Nat :
                    <<i, "parent", p>> \in R => Under(merged, p) \notin Replaced(child)
  BY <1>1, OverrideSources
<1>8. ASSUME NEW i \in DOMAIN merged, IsText(merged[i]), merged[i] # Bare, Under(merged, i) = h,
             merged[i] \in ToSet(r)
      PROVE  FALSE
  <2>1. PICK k \in DOMAIN r : r[k] = merged[i]
    BY <1>8 DEF ToSet
  <2>2. merged[i].of[1] \in 1 .. layer /\ layer \in Nat
    BY <1>8 DEF InstrInv
  <2>3. \E s \in {"child", "parent"} : \E p \in Nat : <<k, s, p>> \in R
    BY <1>7, <1>8, <2>1 DEF Sources
  <2>4. PICK s \in {"child", "parent"} : \E p \in Nat : <<k, s, p>> \in R
    BY <2>3
  <2>5. PICK p \in Nat : <<k, s, p>> \in R
    BY <2>4
  <2>6. s = "child" => r[k].of[1] = layer + 1
    BY <1>3, <1>7, <1>8, <2>1, <2>5
  <2>7. s = "parent"
    BY <2>1, <2>2, <2>6
  <2>8. p \in DOMAIN merged /\ merged[p] = merged[i]
    BY <1>3, <1>7, <1>8, <2>1, <2>5, <2>7
  <2>9. p = i
    BY <1>8, <2>8 DEF InstrInv
  <2>10. Under(merged, p) \notin Replaced(child)
    BY <1>7, <2>5, <2>7
  <2> QED
    BY <1>4, <1>8, <2>9, <2>10
<1>9. /\ h \in ToSet(r)
      /\ \A i \in DOMAIN merged :
           (IsText(merged[i]) /\ merged[i] # Bare /\ Under(merged, i) = h) => merged[i] \notin ToSet(r)
      /\ h \notin ToSet(Before(child)) => Body(r, h) = Body(After(child), h)
  BY <1>5, <1>6, <1>8
<1> QED
  BY <1>9 DEF child, r, Range, ToSet

(* A heading of the parent that the child does not have keeps its section. *)
LEMMA UntouchedTitle ==
  ASSUME NEW base \in Seq(Lines), NEW child \in Seq(Lines), Overrides \in ToSet(child),
         NEW h \in Titled(base), h \notin ToSet(child)
  PROVE  /\ h \notin Replaced(child) /\ h \in ToSet(Heads(base, child))
         /\ h \notin {Lead} \cup ToSet(Before(child))
         /\ Part(base, child, h) = Body(base, h)
<1>1. h \in ToSet(base) /\ h.kind = "heading"
  BY DEF Titled, Range, ToSet
<1>2. h # Lead /\ ~IsText(h)
  BY <1>1 DEF Lead, IsText
<1>3. ToSet(Before(child)) \subseteq ToSet(child) /\ ToSet(After(child)) \subseteq ToSet(child)
  BY AroundMarker
<1>4. After(child) \in Seq(Lines)
  BY MarkerProperties
<1>5. h \notin Replaced(child)
  <2>1. Replaced(child) = {Lead} \cup {After(child)[i] : i \in Marked(After(child))}
    BY <1>4, OrderProperties DEF Replaced
  <2>2. \A i \in Marked(After(child)) : After(child)[i] \in ToSet(After(child))
    BY DEF Marked, ToSet
  <2> QED
    BY <1>2, <1>3, <2>1, <2>2
<1>6. PICK i \in DOMAIN base : base[i] = h
  BY <1>1 DEF ToSet
<1>7. i \in Marked(base)
  BY <1>2, <1>6 DEF Marked
<1>8. h \in ToSet(Order(base))
  BY <1>6, <1>7, OrderProperties
<1>9. h \in ToSet(Heads(base, child))
  BY <1>8, HeadsProperties
<1> QED
  BY <1>2, <1>3, <1>5, <1>9 DEF Part

(* UntouchedStays, for two headings of the parent.                         *)
LEMMA OverrideLeaves ==
  ASSUME InstrInv, ReadLayer, layer > 0, Overrides \in Range(Filtered(latest')),
         NEW g \in Titled(merged) \ Range(Filtered(latest')),
         NEW h \in Titled(merged) \ Range(Filtered(latest'))
  PROVE  /\ {g, h} \subseteq Range(merged') /\ Body(merged', h) = Body(merged, h)
         /\ (\E i, j \in DOMAIN Order(merged) : i < j /\ Order(merged)[i] = g /\ Order(merged)[j] = h)
              => LastOf(merged', g) < LastOf(merged', h)
<1> DEFINE child == Filtered(latest')
           r == merged'
           u == Order(merged)
           v == Order(After(child))
           heads == Heads(merged, child)
           outside == {Lead} \cup ToSet(Before(child))
<1>1. merged \in Seq(Lines) /\ child \in Seq(Lines) /\ Overrides \in ToSet(child) /\ r = ApplyOverrides(merged, child)
  BY OverrideStep
<1>2. g \in Titled(merged) /\ h \in Titled(merged) /\ g \notin ToSet(child) /\ h \notin ToSet(child)
  BY DEF Range, ToSet
<1> HIDE DEF child, r
<1>3. g \in ToSet(heads) /\ g \notin outside
  BY <1>1, <1>2, UntouchedTitle
<1>4. h \in ToSet(heads) /\ h \notin outside /\ Part(merged, child, h) = Body(merged, h)
  BY <1>1, <1>2, UntouchedTitle
<1>5. /\ \A x \in ToSet(heads) \ outside : x \in ToSet(r) /\ Body(r, x) = Part(merged, child, x)
      /\ \A k, l \in 1 .. Len(heads) :
           (heads[k] \notin outside /\ heads[l] \notin outside /\ k < l) => LastOf(r, heads[k]) < LastOf(r, heads[l])
  BY <1>1, SectionsStay
<1>6. u \in Seq(LinesAndLead) /\ IsInjective(u)
  BY <1>1, OrderProperties
<1>7. v \in Seq(LinesAndLead)
  BY <1>1, MarkerProperties, OrderProperties
<1>8. heads = Unique(u \o v) /\ heads \in Seq(LinesAndLead)
  BY <1>1, HeadsProperties DEF Heads
<1> HIDE DEF u, v, heads, outside
<1>9. ASSUME NEW i \in DOMAIN u, NEW j \in DOMAIN u, i < j, u[i] = g, u[j] = h
      PROVE  LastOf(r, g) < LastOf(r, h)
  <2>1. DOMAIN heads = 1 .. Len(heads)
    BY <1>8
  <2>2. PICK k \in 1 .. Len(heads) : heads[k] = g
    BY <1>3, <2>1 DEF ToSet
  <2>3. PICK l \in 1 .. Len(heads) : heads[l] = h
    BY <1>4, <2>1 DEF ToSet
  <2>4. k < l
    BY <1>6, <1>7, <1>8, <1>9, <2>2, <2>3, UniqueOrder
  <2> QED
    BY <1>3, <1>4, <1>5, <2>2, <2>3, <2>4
<1>10. /\ g \in ToSet(r) /\ h \in ToSet(r) /\ Body(r, h) = Body(merged, h)
       /\ (\E i, j \in DOMAIN u : i < j /\ u[i] = g /\ u[j] = h) => LastOf(r, g) < LastOf(r, h)
  BY <1>3, <1>4, <1>5, <1>9
<1> QED
  BY <1>10 DEF r, u, Range, ToSet

(* The invariant holds throughout.                                         *)
LEMMA InstrInvariance ==
  InstrSpec => []InstrInv
<1>1. InstrInv /\ [ReadLayer]_instrVars => InstrInv'
  <2> SUFFICES ASSUME InstrInv, [ReadLayer]_instrVars PROVE InstrInv'
    OBVIOUS
  <2>1. CASE ReadLayer
    BY <2>1, ReadKeeps
  <2>2. CASE UNCHANGED instrVars
    BY <2>2 DEF instrVars, InstrInv, ScopeIsKept
  <2> QED
    BY <2>1, <2>2
<1> QED
  BY <1>1, InitInstr, PTL DEF InstrSpec

(* Merging the layers' files loses nothing that is this agent's, lets in   *)
(* nothing of another agent's block, replaces the sections a child         *)
(* overrides and leaves the others as they were: for any titles, any       *)
(* number of layers and files of any length.                               *)
THEOREM LayersExact ==
  InstrSpec => LayersAreExact
<1> DEFINE Replaces ==
             LET child == Filtered(latest')
             IN  (layer > 0 /\ Overrides \in Range(child)) =>
                   \A h \in Titled(After(child)) :
                     /\ h \in Range(merged')
                     /\ \A i \in DOMAIN merged :
                          (IsText(merged[i]) /\ merged[i] # Bare /\ Under(merged, i) = h)
                            => merged[i] \notin Range(merged')
                     /\ h \notin Range(Before(child)) => Body(merged', h) = Body(After(child), h)
           Stays ==
             LET child == Filtered(latest')
             IN  (layer > 0 /\ Overrides \in Range(child)) =>
                   \A g, h \in Titled(merged) \ Range(child) :
                     /\ {g, h} \subseteq Range(merged') /\ Body(merged', h) = Body(merged, h)
                     /\ (\E i, j \in DOMAIN Order(merged) :
                           i < j /\ Order(merged)[i] = g /\ Order(merged)[j] = h)
                          => LastOf(merged', g) < LastOf(merged', h)
<1>1. InstrInv => ScopeIsKept
  BY DEF InstrInv
<1>2. ASSUME InstrInv, ReadLayer PROVE Replaces
  BY <1>2, OverrideTakesOver
<1>3. ASSUME InstrInv, ReadLayer PROVE Stays
  BY <1>3, OverrideLeaves
<1>4. InstrInv /\ [ReadLayer]_instrVars => [Replaces]_instrVars /\ [Stays]_instrVars
  BY <1>2, <1>3
<1>5. InstrSpec => [][Replaces]_instrVars /\ [][Stays]_instrVars
  BY <1>4, InstrInvariance, PTL DEF InstrSpec
<1> QED
  BY <1>1, <1>5, InstrInvariance, PTL DEF LayersAreExact, OverrideReplaces, UntouchedStays
=============================================================================

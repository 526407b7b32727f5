--------------------------- MODULE AgentLifecycle ---------------------------
(***************************************************************************)
(* agents/agent_lifecycle.py: one AgentLifecycleTracker, the record of the *)
(* agents a session has spawned.                                           *)
(*                                                                         *)
(* Every method holds the tracker's lock, so each is one action; what the  *)
(* lock cannot order is who calls what when.  Agents run on their own and  *)
(* report their end (Finish), a report can arrive a second time, after a   *)
(* retry or a timeout (ReportAgain), and a name can be spawned again.  A   *)
(* call that raises SpawnError or names no known agent changes nothing.    *)
(*                                                                         *)
(* spawned and working are history: which agent each successful spawn      *)
(* started and which of them are still at work, whatever the tracker       *)
(* believes.                                                               *)
(***************************************************************************)
EXTENDS Naturals, FiniteSets, SequencesExt, Listing

CONSTANTS
  Names,         \* agent names
  NoParent,      \* parent of a root
  MaxPerSession, \* max_agents_per_session
  MaxDepth,      \* max_delegation_depth
  MaxSpawns,     \* bound: successful spawns
  FreshNames,    \* callers never reuse a name
  KnownParents   \* callers spawn under an agent that exists, or at the root

ASSUME LimitsAssumption ==
  /\ MaxPerSession \in Nat /\ MaxDepth \in Nat /\ MaxSpawns \in Nat
  /\ NoParent \notin Names
  /\ FreshNames \in BOOLEAN /\ KnownParents \in BOOLEAN
  /\ IsFiniteSet(Names)

Statuses == {"running", "done", "failed"}

VARIABLES
  order,     \* keys of _nodes, in insertion order
  parent,    \* node.parent
  status,    \* node.status
  children,  \* node.children
  active,    \* _active_count
  spawned,   \* history: the names spawned, one entry per successful spawn
  birth,     \* history: birth[n]: the latest spawn of n
  working    \* history: the spawns whose agent is still at work

nodeVars == <<order, parent, children>>
vars == <<order, parent, status, children, active, spawned, birth, working>>

Known == ToSet(order)
ChildrenOf(n) == ToSet(children[n])
Running == {n \in Known : status[n] = "running"}

TypeOK ==
  /\ order \in Seq(Names)
  /\ parent \in [Names -> Names \cup {NoParent}]
  /\ status \in [Names -> Statuses]
  /\ children \in [Names -> Seq(Names)]
  /\ active \in 0 .. MaxPerSession
  /\ spawned \in Seq(Names) /\ Len(spawned) <= MaxSpawns
  /\ birth \in [Names -> 0 .. MaxSpawns]
  /\ working \subseteq 1 .. MaxSpawns

Init ==
  /\ order = <<>>
  /\ parent = [n \in Names |-> NoParent]
  /\ status = [n \in Names |-> "done"]
  /\ children = [n \in Names |-> <<>>]
  /\ active = 0
  /\ spawned = <<>>
  /\ birth = [n \in Names |-> 0]
  /\ working = {}

(***************************************************************************)
(* _depth_of_locked.  The walk up the parents stops at a root, at a parent *)
(* that is not in the tree, or at one met before, so what it counts is the *)
(* least set that holds the parent of n and that of every agent in it.     *)
(***************************************************************************)
(* Fault: an ended agent no longer counts as an ancestor.                  *)
ParentsRunning(ns) == {parent[m] : m \in ns} \cap Running

Parents(ns) == {parent[m] : m \in ns} \cap Known

Above(n) == {m \in Known :
  \A up \in SUBSET Known : Parents({n} \cup up) \subseteq up => m \in up}

Depth(n) == Cardinality(Above(n))

(* spawn compares the depth of the parent with the limit: an unknown       *)
(* parent has depth -1, and spawning at the root counts as depth 0.        *)
(* Fault: <= in place of <.                                                *)
DepthAllowsOneMore(p) ==
  \/ p = NoParent
  \/ p \in Known /\ Depth(p) <= MaxDepth
  \/ p \notin Known \cup {NoParent}

DepthAllows(p) ==
  \/ p = NoParent /\ 0 < MaxDepth
  \/ p \in Known /\ Depth(p) < MaxDepth
  \/ p \notin Known \cup {NoParent}

(***************************************************************************)
(* spawn(name, parent): a known name's node is replaced, keeping its place *)
(* in the dict; the child is linked to the parent the dict now has.        *)
(***************************************************************************)
CallerMaySpawn(n, p) ==
  /\ Len(spawned) < MaxSpawns
  /\ FreshNames => n \notin Known
  /\ KnownParents => p \in Known \cup {NoParent}

(* Fault: a replaced node keeps the children of the one before.            *)
LinkKeepingChildren(n, p) ==
  /\ order' = IF n \in Known THEN order ELSE Append(order, n)
  /\ children' = IF p \in Known \cup {n}
                   THEN [children EXCEPT ![p] = Append(@, n)]
                   ELSE children

LinkNode(n, p) ==
  /\ order' = IF n \in Known THEN order ELSE Append(order, n)
  /\ LET fresh == [children EXCEPT ![n] = <<>>] IN
       children' = IF p \in Known \cup {n}
                     THEN [fresh EXCEPT ![p] = Append(@, n)]
                     ELSE fresh

StartAgent(n, p) ==
  /\ parent' = [parent EXCEPT ![n] = p]
  /\ status' = [status EXCEPT ![n] = "running"]
  /\ active' = active + 1
  /\ spawned' = Append(spawned, n)
  /\ birth' = [birth EXCEPT ![n] = Len(spawned) + 1]
  /\ working' = working \cup {Len(spawned) + 1}

Spawn(n, p) ==
  /\ CallerMaySpawn(n, p)
  /\ active < MaxPerSession
  /\ DepthAllows(p)
  /\ LinkNode(n, p)
  /\ StartAgent(n, p)

(***************************************************************************)
(* complete and fail: _finish releases a slot only for a running node, and *)
(* overwrites the status of one that has ended.                            *)
(***************************************************************************)
(* Fault: every report releases a slot.                                    *)
ReleaseAlways(n) ==
  active' = IF active > 0 THEN active - 1 ELSE active

ReleaseSlot(n) ==
  active' = IF status[n] = "running" /\ active > 0 THEN active - 1 ELSE active

MarkFinished(n, outcome) ==
  /\ n \in Known
  /\ ReleaseSlot(n)
  /\ status' = [status EXCEPT ![n] = outcome]
  /\ UNCHANGED <<nodeVars, spawned, birth>>

(* The agent of spawn k ends and reports it.                               *)
Finish(k, outcome) ==
  /\ k \in working
  /\ MarkFinished(spawned[k], outcome)
  /\ working' = working \ {k}

(* A report about an agent that is already over.                           *)
ReportAgain(k, outcome) ==
  /\ k \in DOMAIN spawned \ working
  /\ MarkFinished(spawned[k], outcome)
  /\ UNCHANGED working

Next ==
  \/ \E n \in Names, p \in Names \cup {NoParent} : Spawn(n, p)
  \/ \E k \in 1 .. MaxSpawns, outcome \in {"done", "failed"} :
       Finish(k, outcome) \/ ReportAgain(k, outcome)

Spec == Init /\ [][Next]_vars

(***************************************************************************)
(* get_tree: a stack of nodes, the roots in dict order at first; a visited *)
(* node's children are put in front one by one.                            *)
(***************************************************************************)

(* Fault: every node starts a tree of its own.                             *)
RootsAll == order

Roots == Kept(order, {i \in DOMAIN order : parent[order[i]] = NoParent})

(* One round of the loop: w is the stack and what is listed so far.        *)
Visit(w) ==
  IF w.stack = <<>> THEN w
  ELSE [stack |-> Reverse(children[Head(w.stack)]) \o Tail(w.stack),
        listed |-> Append(w.listed, Head(w.stack))]

(* The stack and the list after so many rounds.                            *)
Walk(rounds) ==
  LET w[k \in 0 .. rounds] ==
        IF k = 0 THEN [stack |-> Roots, listed |-> <<>>] ELSE Visit(w[k - 1])
  IN  w[rounds]

(***************************************************************************)
(* The inductive invariant: the history and the tree name the same agents, *)
(* and a node that is running is the latest spawn of its name.             *)
(***************************************************************************)
HistoryMatchesTree ==
  /\ Known = ToSet(spawned)
  /\ working \subseteq DOMAIN spawned
  /\ \A n \in Known : birth[n] <= Len(spawned)
  /\ \A n \in Names : ChildrenOf(n) \subseteq Known

FreshHistory ==
  FreshNames => /\ IsInjective(spawned)
                /\ \A k \in DOMAIN spawned :
                     k \in working <=> status[spawned[k]] = "running"

(***************************************************************************)
(* Properties                                                              *)
(***************************************************************************)

(* No more nodes are running than slots are taken, however names are       *)
(* reused and reports repeated: a reported end gives back at most the slot *)
(* of the node it names (agent_lifecycle.py:164, 263).                     *)
SlotPerRunningNode == Cardinality(Running) <= active

(* When no name is reused, the slots taken are exactly the agents at work, *)
(* also when an end is reported twice (agent_lifecycle.py:263).            *)
ExactSlots == FreshNames => active = Cardinality(working)

(* A link goes from an older spawn to a younger one, unless an agent is    *)
(* its own parent: a respawned node does not keep the links of the node it *)
(* replaces (agent_lifecycle.py:157), so the links of different agents     *)
(* form no cycle.                                                          *)
LinksFollowBirth ==
  \A p \in Known : \A c \in ChildrenOf(p) : p = c \/ birth[p] < birth[c]

(* The limit spawn checks against the parent bounds the depth of every     *)
(* agent in the tree, the "maximum nesting depth" of agent_lifecycle.py:106*)
(* and 148, as long as a parent is spawned before its children.            *)
DepthWithinLimit == \A n \in Known : Depth(n) <= MaxDepth

(* An agent stays at the depth it was admitted at, whatever ends or is     *)
(* spawned around it.                                                      *)
DepthIsStable == [][\A n \in Known : Depth(n)' = Depth(n)]_vars

(* get_tree visits every agent once, a parent before its children, in as   *)
(* many rounds as there are agents (agent_lifecycle.py:194-203).           *)
TreeIsComplete ==
  LET end == Walk(Len(order)) IN
    /\ end.stack = <<>>
    /\ IsInjective(end.listed) /\ ToSet(end.listed) = Known
    /\ \A i, k \in DOMAIN end.listed :
         parent[end.listed[k]] = end.listed[i] => i < k

(* get_tree returns: it holds the tracker's lock until the stack is empty  *)
(* (agent_lifecycle.py:196).  With links to younger spawns only, it visits *)
(* at most 2^MaxSpawns paths from each root.                               *)
TreeWalkEnds == Walk(2 ^ (MaxSpawns + 1)).stack = <<>>

(***************************************************************************)
(* What the documentation says, for the runs that refute it                *)
(***************************************************************************)

(* agent_lifecycle.py:105: "Hard cap on concurrently *running* agents".    *)
RunningWithinCap == Cardinality(working) <= MaxPerSession

(* agent_lifecycle.py:173: "Mark *name* as done and release its active     *)
(* slot": with every agent over, no slot is taken.                         *)
AllSlotsReleased == working = {} => active = 0

(* agent_lifecycle.py:189: "a snapshot of the full agent tree".            *)
TreeIsFull == Known \subseteq ToSet(Walk(Len(order)).listed)

(* The inductive invariant of the proofs: every conjunct about the slots   *)
(* and the history at once.                                                *)
IInv ==
  /\ TypeOK
  /\ HistoryMatchesTree
  /\ FreshHistory
  /\ LinksFollowBirth
  /\ SlotPerRunningNode
  /\ ExactSlots

(* The shape of the tree while callers use fresh names and known parents:  *)
(* every agent once, links that are the parents seen from above, and no    *)
(* agent older than its parent.                                            *)
ProperTree ==
  /\ IsInjective(order)
  /\ \A n \in Known : parent[n] \in Known \cup {NoParent}
  /\ \A n \in Known : IsInjective(children[n])
  /\ \A n, c \in Known : c \in ChildrenOf(n) <=> parent[c] = n
  /\ \A n \in Known : parent[n] \in Known => birth[parent[n]] < birth[n]

(* The inductive invariant about the tree.                                 *)
TreeInv == FreshNames /\ KnownParents => ProperTree /\ DepthWithinLimit
=============================================================================

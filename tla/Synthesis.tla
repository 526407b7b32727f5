----------------------------- MODULE Synthesis -----------------------------
(***************************************************************************)
(* agents/synthesizer.py as build_dynamic_parallel_dispatcher of           *)
(* agents/task_agent.py uses it: one task gets a set of agents twice, once *)
(* for the sequential path (seq 0) and once, synthesised anew, for the     *)
(* parallel one (seq 1), since an ADK agent has one parent.                *)
(*                                                                         *)
(* A pass scores the registry's templates against the words of the task,   *)
(* asks the skill corpus -- which may answer differently or fail the       *)
(* second time -- and merges both.  A template or skill whose agent cannot *)
(* be built is left out.                                                   *)
(***************************************************************************)
EXTENDS Naturals, SequencesExt, FiniteSets, Listing

CONSTANTS
  Words,       \* words of tasks and domains
  Registries,  \* the contents agent_registry.yaml may have: sequences of Template
  Skills,      \* what searches find: [base, builds]
  MaxAgents,   \* _MAX_AGENTS
  MinScore,    \* _MIN_SCORE
  MaxCore      \* how many core templates the fallback takes

(* A template: its name (base), domain, priority (1 is core), and whether  *)
(* its agent can be built.                                                 *)
Templates == UNION {{r[i] : i \in DOMAIN r} : r \in Registries}

(* No two templates of a registry have the same name, and a skill's name   *)
(* starts with Skill_, so that it is not a template's.                     *)
ASSUME SynthesisAssumption ==
  /\ MaxAgents \in Nat \ {0} /\ MinScore \in Nat \ {0} /\ MaxCore \in Nat
  /\ IsFiniteSet(Words)
  /\ \A t \in Templates :
       t.domain \subseteq Words /\ t.priority \in Nat /\ t.builds \in BOOLEAN
  /\ \A s \in Skills : s.builds \in BOOLEAN /\ \A t \in Templates : s.base # t.base
  /\ \A r \in Registries :
       /\ r \in Seq(Templates)
       /\ \A i, j \in DOMAIN r : r[i].base = r[j].base => i = j

Passes == {0, 1}

VARIABLES
  registry,  \* the registry both passes read
  task,      \* the words of the task
  found,     \* found[p]: the skills the search of pass p returned
  agents,    \* agents[p]: the names of the agents pass p synthesised
  pass       \* the next pass; 2 when the pipeline is built or given up

synVars == <<registry, task, found, agents, pass>>

SynInit ==
  /\ registry \in Registries
  /\ task \in SUBSET Words
  /\ found = [p \in Passes |-> <<>>]
  /\ agents = [p \in Passes |-> <<>>]
  /\ pass = 0

(* Mutant: the name is made of the task alone.                             *)
UniqueNamePerTask(base, p) == <<base, 0>>

(* unique_agent_name: the task is the same for both passes, so base name   *)
(* and pass tell names apart.                                              *)
UniqueName(base, p) == <<base, p>>

Score(t) == Cardinality(task \cap t.domain)
Candidates == {i \in DOMAIN registry : Score(registry[i]) >= MinScore}

(* The sort of _score_registry: score, then priority, then file order.     *)
Precedes(i, j) ==
  LET s == registry[i]
      t == registry[j]
  IN  \/ Score(s) > Score(t)
      \/ Score(s) = Score(t) /\ s.priority < t.priority
      \/ Score(s) = Score(t) /\ s.priority = t.priority /\ i < j

Place(i) == Cardinality({j \in Candidates : Precedes(j, i)}) + 1

(* Mutant: the templates are not sorted.                                   *)
InFileOrder == InOrder(Candidates, {c \in Candidates \X Candidates : c[1] < c[2]})

Ranked == InOrder(Candidates, {c \in Candidates \X Candidates : Precedes(c[1], c[2])})

Built(s) == Kept(s, {k \in DOMAIN s : s[k].builds})
NamesOf(s, p) == [k \in DOMAIN s |-> UniqueName(s[k].base, p)]

(* _score_registry: the cut comes before the building.                     *)
BestTemplates ==
  LET best == FirstOf(Ranked, MaxAgents) IN [k \in DOMAIN best |-> registry[best[k]]]
RegistryAgents(p) == NamesOf(Built(BestTemplates), p)

(* _synthesise_from_skills                                                 *)
SkillAgents(skills, p) == NamesOf(Built(skills), p)

(* Mutant: the registry's agents come first.                               *)
MergeRegistryFirst(fromRegistry, fromSkills) ==
  FirstOf(Unique(fromRegistry \o fromSkills), MaxAgents)

(* _merge: skills first, the first agent of a name wins.                   *)
Merge(fromRegistry, fromSkills) ==
  FirstOf(Unique(fromSkills \o fromRegistry), MaxAgents)

(* _fallback_core_agents                                                   *)
CoreTemplates ==
  FirstOf(Kept(registry, {i \in DOMAIN registry : registry[i].priority = 1}), MaxCore)
CoreAgents(p) == NamesOf(Built(CoreTemplates), p)

(* Mutant: the fallback looks at the registry's agents only.               *)
SynthesisedFromRegistry(skills, p) ==
  LET merged == Merge(RegistryAgents(p), SkillAgents(skills, p))
  IN  IF RegistryAgents(p) = <<>> THEN merged \o CoreAgents(p) ELSE merged

Synthesised(skills, p) ==
  LET merged == Merge(RegistryAgents(p), SkillAgents(skills, p))
  IN  IF merged = <<>> THEN CoreAgents(p) ELSE merged

(* search_skills(top_k=_MAX_AGENTS); an exception counts as no skill.      *)
Searches == BoundedSeq(Skills, MaxAgents)

(* synthesise(task, seq).  Without any agent from the first pass there is  *)
(* no pipeline and no second pass.                                         *)
Synthesise(p) ==
  /\ pass = p
  /\ \E skills \in Searches :
       /\ found' = [found EXCEPT ![p] = skills]
       /\ agents' = [agents EXCEPT ![p] = Synthesised(skills, p)]
  /\ pass' = IF p = 0 /\ agents'[0] = <<>> THEN 2 ELSE p + 1
  /\ UNCHANGED <<registry, task>>

SynNext == \E p \in Passes : Synthesise(p)

SynSpec == SynInit /\ [][SynNext]_synVars

-----------------------------------------------------------------------------
Ran(p) == pass > p /\ (p = 1 => agents[0] # <<>>)
Of(p) == Range(agents[p])

(* No agent object's name occurs twice below the pipeline's parent: not    *)
(* within a pass, not in both, whatever the two searches returned.         *)
NamesAreDistinct ==
  /\ Of(0) \cap Of(1) = {}
  /\ \A p \in Passes :
       /\ Cardinality(Of(p)) = Len(agents[p])
       /\ Len(agents[p]) <= MaxAgents \/ Len(agents[p]) <= MaxCore

(* A template among the first MaxAgents that was passed over for a worse   *)
(* one could not be built: of the registry's agents the better match wins. *)
(* A skill takes the place of no template of its domain, as the module and *)
(* _merge say it does: _merge drops an agent only for an equal name, and   *)
(* a skill never has the name of a template.                               *)
BestTemplatesWin ==
  \A p \in Passes : Ran(p) =>
    \A i, j \in Candidates :
      (/\ Precedes(i, j) /\ Place(i) <= MaxAgents /\ registry[i].builds
       /\ UniqueName(registry[j].base, p) \in Of(p))
      => UniqueName(registry[i].base, p) \in Of(p)

(* Every skill that was found and could be built is used, however well the *)
(* registry matched.                                                       *)
SkillsWin ==
  \A p \in Passes : Ran(p) =>
    \A s \in Range(found[p]) : s.builds => UniqueName(s.base, p) \in Of(p)

(* A template that shares no word with the task, or is not among the first *)
(* MaxAgents that do, is used only when no skill was built and none of     *)
(* those could be either: the cut comes before the building.               *)
FallbackIsLast ==
  \A p \in Passes : Ran(p) =>
    \A i \in DOMAIN registry :
      (/\ i \in Candidates => Place(i) > MaxAgents
       /\ UniqueName(registry[i].base, p) \in Of(p))
      => /\ \A s \in Range(found[p]) : ~s.builds
         /\ \A j \in Candidates : registry[j].builds => Place(j) > MaxAgents

(* The agents of a pass are the best there are, by the order the code has: *)
(* skills before templates, better templates before worse, the fallback    *)
(* last.  Templates behind the cut are not in this order.                  *)
BestAgentsWin == BestTemplatesWin /\ SkillsWin /\ FallbackIsLast
=============================================================================

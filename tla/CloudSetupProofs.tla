-------------------------- MODULE CloudSetupProofs --------------------------
(***************************************************************************)
(* The wizards of CloudSetup, for any number of runs, failures, names and  *)
(* demo tables.                                                            *)
(***************************************************************************)
EXTENDS CloudSetup, FiniteSetTheorems, TLAPS

-----------------------------------------------------------------------------
(* The steps of the setup wizard that come after a given one.              *)
PastEngine == {"dataset", "drop", "create", "insert", "image", "service", "ready"}
PastSkills == {"bank", "fallback", "engine"} \cup PastEngine
PastKnowledge == {"skills"} \cup PastSkills
PastFirestore == {"knowledge"} \cup PastKnowledge
PastRuntime == {"firestore"} \cup PastFirestore
PastRoles == {"runtimeRoles"} \cup PastRuntime
PastAccount == {"roles"} \cup PastRoles
PastBucket == {"versioning", "account"} \cup PastAccount
PastApis == {"bucket"} \cup PastBucket

(* The place of a step of the teardown wizard, 0 for all others.           *)
Rank(step) ==
  CASE step = "service" -> 1
    [] step = "engine" -> 2
    [] step = "bank" -> 3
    [] step = "knowledge" -> 4
    [] step = "skills" -> 5
    [] step = "bucket" -> 6
    [] step = "firestore" -> 7
    [] step = "account" -> 8
    [] step = "image" -> 9
    [] step = "apis" -> 10
    [] step = "env" -> 11
    [] step = "torn" -> 12
    [] OTHER -> 0

(* The running, or finished, teardown is past step s.                      *)
Passed(s) == program = "teardown" /\ Rank(s) < Rank(at)

Positions ==
  /\ program = "none" => at = "idle"
  /\ program = "setup" => at \in {"apis", "idle"} \cup PastApis
  /\ program = "teardown" => at = "idle" \/ Rank(at) > 0

(* What the steps of a setup so far have left.                             *)
StepsDone ==
  program = "setup" =>
    /\ at \in PastApis => "apis" \in fixed
    /\ at \in PastBucket => "bucket" \in fixed
    /\ at \in PastAccount => "account" \in fixed
    /\ at \in PastRoles => "roles" \in fixed
    /\ at \in PastRuntime => "runtimeRoles" \in fixed \cup warned
    /\ at \in PastFirestore => "firestore" \in fixed
    /\ at \in PastKnowledge => env.knowledge # 0
    /\ at \in PastSkills => env.skills # 0
    /\ at \in {"engine"} \cup PastEngine => env.bank # 0 \/ "bank" \in warned
    /\ at \in PastEngine => env.engine # 0
    /\ at \in {"image", "service"} => answers.cloudRun
    /\ at = "service" => "image" \in fixed
    /\ at = "ready" /\ answers.cloudRun /\ "service" \notin warned => {"image", "service"} \subseteq fixed

(* A name that is held exists, and is for an empty place in .env.          *)
HeldInv ==
  held # 0 =>
    /\ program = "setup"
    /\ at \in {"knowledge", "skills", "bank", "fallback", "engine"}
    /\ Exists(held) /\ env[Key(at)] = 0
    /\ at = "engine" => knows[held] = env

(* Names are generated once.                                               *)
MadeInv ==
  /\ IsFiniteSet(made)
  /\ \A r \in made : r.id <= used
  /\ \A r, s \in made : r.id = s.id => r = s

(* After a teardown .env is empty or was kept.                             *)
TornIsEmpty == (program = "teardown" /\ Resting /\ ~kept) => env = NoName

RowInv == row # 0 <=> (program = "setup" /\ at \in {"drop", "create", "insert"})

(* The generated resources that no later step of this teardown deletes, or *)
(* that nothing refers to, passed over ones apart, and the fixed ones      *)
(* it has failed to delete.                                                *)
Lost == {r \in made : r.id # held /\ r.id \notin spared /\ \A n \in Names : env[n] = r.id => Passed(n)}
Uncleared == {s \in Deleted : s \in fixed /\ Passed(s)}
LeftInv == Cardinality(Lost) + Cardinality(Uncleared) <= faults

IInv ==
  /\ TypeOK /\ Positions /\ StepsDone /\ HeldInv /\ MadeInv
  /\ NamedExists /\ EngineMatchesEnv /\ TornIsEmpty /\ RowInv
  /\ LeftInv /\ SeedDamageIsBounded

LEMMA Numbers == MaxIds \in Nat /\ MaxFaults \in Nat /\ MaxRuns \in Nat /\ NumTables \in Nat /\ NumTables > 0
  BY BoundsAssumption, TablesAssumption

-----------------------------------------------------------------------------
(* Counting what is left.                                                  *)
LEMMA NoMore ==
  ASSUME NEW A, NEW B, NEW C, NEW D, IsFiniteSet(A), IsFiniteSet(C),
         B \subseteq A, D \subseteq C, NEW f \in Nat, NEW g \in Nat, f <= g,
         Cardinality(A) + Cardinality(C) <= f
  PROVE  Cardinality(B) + Cardinality(D) <= g
<1>1. /\ IsFiniteSet(B) /\ Cardinality(B) <= Cardinality(A)
      /\ IsFiniteSet(D) /\ Cardinality(D) <= Cardinality(C)
  BY FS_Subset
<1>2. /\ Cardinality(A) \in Nat /\ Cardinality(B) \in Nat
      /\ Cardinality(C) \in Nat /\ Cardinality(D) \in Nat
  BY <1>1, FS_CardinalityType
<1> QED
  BY ONLY <1>1, <1>2, Cardinality(A) + Cardinality(C) <= f, f <= g, f \in Nat, g \in Nat

LEMMA OneMore ==
  ASSUME NEW A, NEW B, NEW C, NEW D, IsFiniteSet(A), IsFiniteSet(C), NEW x,
         B \subseteq A \cup {x}, D \subseteq C, NEW f \in Nat,
         Cardinality(A) + Cardinality(C) <= f
  PROVE  /\ Cardinality(B) + Cardinality(D) <= f + 1
         /\ Cardinality(D) + Cardinality(B) <= f + 1
<1>1. /\ IsFiniteSet(A \cup {x})
      /\ Cardinality(A \cup {x}) = IF x \in A THEN Cardinality(A) ELSE Cardinality(A) + 1
  BY FS_AddElement
<1>2. /\ IsFiniteSet(B) /\ Cardinality(B) <= Cardinality(A \cup {x})
      /\ IsFiniteSet(D) /\ Cardinality(D) <= Cardinality(C)
  BY <1>1, FS_Subset
<1>3. /\ Cardinality(A) \in Nat /\ Cardinality(B) \in Nat
      /\ Cardinality(C) \in Nat /\ Cardinality(D) \in Nat
  BY <1>2, FS_CardinalityType
<1> QED
  BY ONLY <1>1, <1>2, <1>3, Cardinality(A) + Cardinality(C) <= f, f \in Nat

LEMMA LeftIsFinite ==
  ASSUME IInv
  PROVE  IsFiniteSet(Lost) /\ IsFiniteSet(Uncleared) /\ faults \in Nat
<1>1. Lost \subseteq made /\ IsFiniteSet(made)
  BY DEF IInv, MadeInv, Lost
<1>2. IsFiniteSet(Deleted)
  <2>1. IsFiniteSet({})
    BY FS_EmptySet
  <2>2. IsFiniteSet({"service"})
    BY FS_Singleton
  <2>3. IsFiniteSet({"service"} \cup {"image"})
    BY <2>2, FS_AddElement
  <2>4. IsFiniteSet(({"service"} \cup {"image"}) \cup {"firestore"})
    BY <2>3, FS_AddElement
  <2>5. IsFiniteSet((({"service"} \cup {"image"}) \cup {"firestore"}) \cup {"account"})
    BY <2>4, FS_AddElement
  <2>6. IsFiniteSet(((({"service"} \cup {"image"}) \cup {"firestore"}) \cup {"account"}) \cup {"bucket"})
    BY <2>5, FS_AddElement
  <2>7. Deleted = ((({"service"} \cup {"image"}) \cup {"firestore"}) \cup {"account"}) \cup {"bucket"}
    BY DEF Deleted
  <2> QED
    BY <2>6, <2>7
<1>3. Uncleared \subseteq Deleted
  BY DEF Uncleared
<1>4. faults \in Nat
  BY Numbers DEF IInv, TypeOK
<1> QED
  BY <1>1, <1>2, <1>3, <1>4, FS_Subset

LEMMA LeftKept ==
  ASSUME IInv, Lost' \subseteq Lost, Uncleared' \subseteq Uncleared, faults' = faults \/ Fault
  PROVE  LeftInv'
<1>1. faults' \in Nat /\ faults <= faults'
  BY LeftIsFinite DEF Fault
<1>2. Cardinality(Lost) + Cardinality(Uncleared) <= faults
  BY DEF IInv, LeftInv
<1> QED
  BY <1>1, <1>2, LeftIsFinite, NoMore DEF LeftInv

LEMMA LeftGrown ==
  ASSUME IInv, Fault, NEW x,
         \/ Lost' \subseteq Lost \cup {x} /\ Uncleared' \subseteq Uncleared
         \/ Lost' \subseteq Lost /\ Uncleared' \subseteq Uncleared \cup {x}
  PROVE  LeftInv'
<1>1. faults' = faults + 1 /\ faults \in Nat
  BY LeftIsFinite DEF Fault
<1>2. Cardinality(Lost) + Cardinality(Uncleared) <= faults
  BY DEF IInv, LeftInv
<1>3. Cardinality(Uncleared) + Cardinality(Lost) <= faults
  BY <1>2, LeftIsFinite, FS_CardinalityType
<1>4. CASE Lost' \subseteq Lost \cup {x} /\ Uncleared' \subseteq Uncleared
  BY <1>1, <1>2, <1>4, LeftIsFinite, OneMore DEF LeftInv
<1>5. CASE Lost' \subseteq Lost /\ Uncleared' \subseteq Uncleared \cup {x}
  BY <1>1, <1>3, <1>5, LeftIsFinite, OneMore DEF LeftInv
<1> QED
  BY <1>4, <1>5

(* The tables that are short, outside the one the script is at.            *)
Short == (1 .. NumTables) \ (Full \cup {row})

LEMMA ShortIsFinite == IsFiniteSet(Short) /\ Cardinality(Short) \in Nat
<1>1. IsFiniteSet(1 .. NumTables)
  BY Numbers, FS_Interval
<1>2. IsFiniteSet(Short)
  BY <1>1, FS_Subset DEF Short
<1> QED
  BY <1>2, FS_CardinalityType

LEMMA DamageKept ==
  ASSUME IInv, Short' \subseteq Short, seeded' = seeded, faults' = faults \/ Fault
  PROVE  SeedDamageIsBounded'
<1>1. faults' \in Nat /\ faults \in Nat /\ faults <= faults'
  BY LeftIsFinite DEF Fault
<1>2. IsFiniteSet(Short') /\ Cardinality(Short') <= Cardinality(Short)
  BY ShortIsFinite, FS_Subset
<1>3. Cardinality(Short') \in Nat /\ Cardinality(Short) \in Nat
  BY <1>2, ShortIsFinite, FS_CardinalityType
<1>4. seeded => Cardinality(Short) <= faults
  BY DEF IInv, SeedDamageIsBounded, Short
<1>5. seeded' => Cardinality(Short') <= faults'
  BY <1>1, <1>2, <1>3, <1>4
<1> QED
  BY <1>5 DEF SeedDamageIsBounded, Short

LEMMA DamageGrown ==
  ASSUME IInv, NEW x, Short' \subseteq Short \cup {x}, seeded' = seeded, Fault
  PROVE  SeedDamageIsBounded'
<1>1. faults' = faults + 1 /\ faults \in Nat
  BY LeftIsFinite DEF Fault
<1>2. seeded => Cardinality(Short) + Cardinality({}) <= faults
  BY ShortIsFinite, FS_EmptySet DEF IInv, SeedDamageIsBounded, Short
<1>3. seeded => Cardinality(Short') + Cardinality({}) <= faults + 1
  BY <1>1, <1>2, ShortIsFinite, FS_EmptySet, OneMore
<1>4. IsFiniteSet(Short') /\ Cardinality({}) = 0
  BY ShortIsFinite, FS_AddElement, FS_Subset, FS_EmptySet
<1>5. seeded' => Cardinality(Short') <= faults'
  BY <1>1, <1>3, <1>4, FS_CardinalityType
<1> QED
  BY <1>5 DEF SeedDamageIsBounded, Short

LEMMA InitInv == Init => IInv
<1> SUFFICES ASSUME Init PROVE IInv
  OBVIOUS
<1> USE DEF Init, ProjectInit, DataInit
<1>1. TypeOK
  <2>1. 0 \in 0 .. MaxIds /\ 0 \in 0 .. MaxFaults /\ 0 \in 0 .. MaxRuns /\ 0 \in 0 .. NumTables
    BY Numbers
  <2>2. NoName \in Named
    BY <2>1 DEF NoName, Named
  <2>3. "idle" \in Steps
    BY DEF Steps
  <2> QED
    BY <2>1, <2>2, <2>3 DEF TypeOK
<1>2. Positions /\ StepsDone /\ HeldInv /\ TornIsEmpty /\ RowInv
  BY DEF Positions, StepsDone, HeldInv, TornIsEmpty, RowInv
<1>3. MadeInv
  BY FS_EmptySet DEF MadeInv
<1>4. NamedExists /\ EngineMatchesEnv
  BY DEF NamedExists, EngineMatchesEnv, NoName, Names
<1>5. Lost = {} /\ Uncleared = {}
  BY DEF Lost, Uncleared
<1>6. LeftInv
  BY <1>5, FS_EmptySet DEF LeftInv
<1>7. SeedDamageIsBounded
  BY DEF SeedDamageIsBounded
<1> QED
  BY <1>1, <1>2, <1>3, <1>4, <1>6, <1>7 DEF IInv

-----------------------------------------------------------------------------
(* The setup wizard.  What something refers to stays referred to.          *)
Referred(r) == r.id = held \/ \E n \in Names : env[n] = r.id

LEMMA SetupLeft ==
  ASSUME IInv, program' = "setup", faults' = faults \/ Fault, spared' = spared,
         \A r \in made' : r \in made \/ r.id = held',
         \A r \in made : Referred(r) => Referred(r)'
  PROVE  LeftInv'
<1>1. Lost' \subseteq Lost
  BY DEF Lost, Referred, Passed
<1>2. Uncleared' \subseteq Uncleared
  BY DEF Uncleared, Passed
<1> QED
  BY <1>1, <1>2, LeftKept

LEMMA SetupData ==
  ASSUME IInv, program = "setup", program' = "setup", UNCHANGED dataVars,
         faults' = faults \/ Fault,
         at \notin {"drop", "create", "insert"}, at' \notin {"drop", "create", "insert"}
  PROVE  RowInv' /\ SeedDamageIsBounded' /\ TornIsEmpty'
<1>1. Short' \subseteq Short /\ seeded' = seeded
  BY DEF Short, Full, dataVars
<1> QED
  BY <1>1, DamageKept DEF IInv, RowInv, TornIsEmpty, dataVars

LEMMA StartSetupStep == IInv /\ StartSetup /\ UNCHANGED dataVars => IInv'
<1> SUFFICES ASSUME IInv, StartSetup, UNCHANGED dataVars PROVE IInv'
  OBVIOUS
<1>1. /\ Resting /\ runs < MaxRuns /\ runs' = runs + 1
      /\ program' = "setup" /\ at' = "apis"
      /\ answers' \in [demo : BOOLEAN, cloudRun : BOOLEAN] /\ warned' = {}
      /\ UNCHANGED <<fixed, made, used, knows, env, held, kept, spared, faults, tables, row, seeded>>
  BY DEF StartSetup, Begin, cloudVars, dataVars
<1>2. TypeOK'
  BY <1>1, Numbers DEF IInv, TypeOK, Steps, Fixed
<1>3. held = 0 /\ row = 0
  BY <1>1 DEF IInv, HeldInv, RowInv, Resting
<1>4. Positions' /\ StepsDone' /\ HeldInv' /\ TornIsEmpty' /\ RowInv'
  BY <1>1, <1>3 DEF Positions, StepsDone, HeldInv, TornIsEmpty, RowInv,
     PastApis, PastBucket, PastAccount, PastRoles, PastRuntime, PastFirestore, PastKnowledge, PastSkills, PastEngine
<1>5. MadeInv' /\ EngineMatchesEnv'
  BY <1>1 DEF IInv, MadeInv, EngineMatchesEnv
<1>6. NamedExists'
  <2>1. CASE program = "teardown"
    BY <1>1, <2>1 DEF IInv, TornIsEmpty, NamedExists, Resting, NoName
  <2>2. CASE program # "teardown"
    BY <1>1, <2>2 DEF IInv, NamedExists, Exists
  <2> QED
    BY <2>1, <2>2
<1>7. LeftInv'
  BY <1>1, SetupLeft DEF Referred
<1>8. SeedDamageIsBounded'
  <2>1. Short' \subseteq Short
    BY <1>1 DEF Short, Full
  <2> QED
    BY <1>1, <2>1, DamageKept
<1> QED
  BY <1>2, <1>4, <1>5, <1>6, <1>7, <1>8 DEF IInv

(* A step that only makes a fixed resource.                                *)
LEMMA EnsureStep ==
  ASSUME IInv, UNCHANGED dataVars,
         EnsureBucket \/ \E s \in Fixed \ {"bucket", "dataset"} : Ensure(s)
  PROVE  IInv'
<1>1. PICK s \in Fixed \ {"dataset"} :
        /\ program = "setup" /\ at = s /\ program' = "setup"
        /\ fixed' = fixed \cup {s}
        /\ at' = After(s) \/ (s = "bucket" /\ at' = "versioning")
        /\ UNCHANGED <<made, used, knows, env, held, answers, warned, kept, spared, faults, runs, tables, row, seeded>>
  BY DEF EnsureBucket, Ensure, Step, Advance, Fixed, dataVars
<1>2. TypeOK'
  BY <1>1 DEF IInv, TypeOK, Steps, Fixed, Names, After
<1>3. held = 0
  BY <1>1 DEF IInv, HeldInv, Fixed
<1>4. at \notin {"drop", "create", "insert"} /\ at' \notin {"drop", "create", "insert"}
  BY <1>1 DEF Fixed, After
<1>5. RowInv' /\ SeedDamageIsBounded' /\ TornIsEmpty'
  BY <1>1, <1>4, SetupData DEF dataVars
<1>6. HeldInv' /\ MadeInv' /\ NamedExists' /\ EngineMatchesEnv'
  BY <1>1, <1>3 DEF IInv, HeldInv, MadeInv, NamedExists, EngineMatchesEnv, Exists
<1>7. LeftInv'
  BY <1>1, SetupLeft DEF Referred
<1>8. Positions' /\ StepsDone'
  BY <1>1 DEF IInv, Positions, StepsDone, Fixed, After,
     PastApis, PastBucket, PastAccount, PastRoles, PastRuntime, PastFirestore, PastKnowledge, PastSkills, PastEngine
<1> QED
  BY <1>2, <1>5, <1>6, <1>7, <1>8 DEF IInv

(* A step that finds its name in .env.                                     *)
LEMMA SkipStep ==
  ASSUME IInv, UNCHANGED dataVars, NEW s \in Names, SkipNamed(s)
  PROVE  IInv'
<1>1. /\ program = "setup" /\ at = s /\ program' = "setup" /\ held = 0 /\ env[s] # 0
      /\ at' = After(s)
      /\ UNCHANGED <<fixed, made, used, knows, env, held, answers, warned, kept, spared, faults, runs,
                     tables, row, seeded>>
  BY DEF SkipNamed, Step, Advance, cloudVars, dataVars
<1>2. TypeOK'
  BY <1>1 DEF IInv, TypeOK, Steps, Fixed, Names, After
<1>3. at \notin {"drop", "create", "insert"} /\ at' \notin {"drop", "create", "insert"}
  BY <1>1 DEF Names, After
<1>4. RowInv' /\ SeedDamageIsBounded' /\ TornIsEmpty'
  BY <1>1, <1>3, SetupData DEF dataVars
<1>5. HeldInv' /\ MadeInv' /\ NamedExists' /\ EngineMatchesEnv'
  BY <1>1 DEF IInv, HeldInv, MadeInv, NamedExists, EngineMatchesEnv, Exists
<1>6. LeftInv'
  BY <1>1, SetupLeft DEF Referred
<1>7. Positions' /\ StepsDone'
  BY <1>1 DEF IInv, Positions, StepsDone, Names, After,
     PastApis, PastBucket, PastAccount, PastRoles, PastRuntime, PastFirestore, PastKnowledge, PastSkills, PastEngine
<1> QED
  BY <1>2, <1>4, <1>5, <1>6, <1>7 DEF IInv

(* A generated resource is there, and the step holds its name: a new one,  *)
(* or the memory bank that was found.                                      *)
LEMMA HeldStep ==
  ASSUME IInv, UNCHANGED dataVars, program = "setup", UNCHANGED <<program, at, env, answers, warned, kept, spared, runs>>,
         at \in {"knowledge", "skills", "bank", "fallback", "engine"},
         held = 0, env[Key(at)] = 0, held' \in Ids,
         \/ UNCHANGED <<made, used>> /\ \E r \in made : r.id = held'
         \/ /\ used' = used + 1 /\ used < MaxIds /\ held' = used + 1
            /\ \E kind \in Kinds : made' = made \cup {[kind |-> kind, id |-> used + 1]},
         \/ fixed' = fixed \/ fixed' = fixed \cup {"bucket"},
         \/ knows' = knows /\ at # "engine"
         \/ knows' = [knows EXCEPT ![held'] = env] /\ at = "engine",
         faults' = faults \/ Fault
  PROVE  IInv'
<1>1. made \subseteq made' /\ \A r \in made' : r \in made \/ r.id = held'
  OBVIOUS
<1>2. \E r \in made' : r.id = held'
  <2>1. CASE UNCHANGED <<made, used>> /\ \E r \in made : r.id = held'
    BY <2>1
  <2>2. ASSUME NEW kind \in Kinds, held' = used + 1,
               made' = made \cup {[kind |-> kind, id |-> used + 1]}
        PROVE  \E r \in made' : r.id = held'
    <3>1. [kind |-> kind, id |-> used + 1].id = held'
      BY <2>2
    <3> QED
      BY <2>2, <3>1
  <2> QED
    BY <2>1, <2>2
<1>3. TypeOK'
  <2>1. faults' \in 0 .. MaxFaults
    BY Numbers DEF IInv, TypeOK, Fault
  <2>2. used' \in 0 .. MaxIds /\ held' \in 0 .. MaxIds
    BY Numbers DEF IInv, TypeOK, Ids
  <2>3. made' \subseteq [kind : Kinds, id : Ids]
    BY DEF IInv, TypeOK
  <2>4. fixed' \subseteq Fixed
    BY DEF IInv, TypeOK, Fixed
  <2>5. knows \in [Ids -> Named] /\ env \in Named
    BY DEF IInv, TypeOK
  <2>6. knows' \in [Ids -> Named]
    BY <2>5
  <2> QED
    BY <2>1, <2>2, <2>3, <2>4, <2>6 DEF IInv, TypeOK, dataVars
<1>4. Positions' /\ StepsDone'
  BY DEF IInv, Positions, StepsDone
<1>5. HeldInv'
  <2>1. at = "engine" => knows'[held'] = env
    BY DEF IInv, TypeOK
  <2> QED
    BY <1>2, <2>1 DEF HeldInv, Exists, Key
<1>6. MadeInv'
  <2>1. CASE UNCHANGED <<made, used>>
    BY <2>1 DEF IInv, MadeInv
  <2>2. CASE used' = used + 1 /\ \E kind \in Kinds : made' = made \cup {[kind |-> kind, id |-> used + 1]}
    <3>1. PICK kind \in Kinds : made' = made \cup {[kind |-> kind, id |-> used + 1]}
      BY <2>2
    <3>2. used \in Nat /\ \A r \in made : r.id \in Nat /\ r.id <= used
      BY Numbers DEF IInv, TypeOK, MadeInv, Ids
    <3>3. IsFiniteSet(made')
      BY <3>1, FS_AddElement DEF IInv, MadeInv
    <3>4. \A r \in made' : r.id <= used'
      BY <2>2, <3>1, <3>2
    <3>5. \A r, s \in made' : r.id = s.id => r = s
      BY <3>1, <3>2 DEF IInv, MadeInv
    <3> QED
      BY <3>3, <3>4, <3>5 DEF MadeInv
  <2> QED
    BY <2>1, <2>2
<1>7. NamedExists'
  BY <1>1 DEF IInv, NamedExists, Exists
<1>8. EngineMatchesEnv'
  BY DEF IInv, EngineMatchesEnv, Key
<1>9. RowInv' /\ SeedDamageIsBounded' /\ TornIsEmpty'
  BY SetupData
<1>10. LeftInv'
  <2>1. 0 \notin {r.id : r \in made}
    BY DEF IInv, TypeOK, Ids
  <2>2. \A r \in made : Referred(r) => Referred(r)'
    BY <2>1 DEF Referred
  <2> QED
    BY <1>1, <2>2, SetupLeft
<1> QED
  BY <1>3, <1>4, <1>5, <1>6, <1>7, <1>8, <1>9, <1>10 DEF IInv

LEMMA CreateSteps ==
  ASSUME IInv, UNCHANGED dataVars,
         \/ \E s \in {"knowledge", "skills"} : CreateCorpus(s)
         \/ FindBank \/ CreateBank \/ CreateFallback \/ CreateEngine
  PROVE  IInv'
<1>1. CASE \E s \in {"knowledge", "skills"} : CreateCorpus(s)
  BY <1>1, HeldStep, Numbers
     DEF CreateCorpus, Unnamed, Step, Create, Kinds, Names, Ids, IInv, TypeOK
<1>2. CASE FindBank
  BY <1>2, HeldStep DEF FindBank, Unnamed, Step, cloudVars, IInv, TypeOK
<1>3. CASE CreateBank
  BY <1>3, HeldStep, Numbers DEF CreateBank, Unnamed, Step, Create, Kinds, Names, Ids, IInv, TypeOK
<1>4. CASE CreateFallback
  BY <1>4, HeldStep, Numbers DEF CreateFallback, Unnamed, Step, Create, Kinds, Names, Ids, IInv, TypeOK
<1>5. CASE CreateEngine
  BY <1>5, HeldStep, Numbers DEF CreateEngine, Unnamed, Step, Create, Kinds, Names, Ids, IInv, TypeOK
<1> QED
  BY <1>1, <1>2, <1>3, <1>4, <1>5

(* The bank could not be made: what was made is lost, the step goes on.    *)
LEMMA BankLost ==
  ASSUME IInv, UNCHANGED dataVars, program = "setup", program' = "setup", held = 0, held' = 0,
         Fault, NEW kind \in Kinds,
         \/ UNCHANGED <<made, used>>
         \/ /\ used' = used + 1 /\ used < MaxIds
            /\ made' = made \cup {[kind |-> kind, id |-> used + 1]},
         \/ at = "bank" /\ at' = "fallback" /\ warned' = warned
         \/ at = "fallback" /\ at' = "engine" /\ warned' = warned \cup {"bank"},
         UNCHANGED <<fixed, knows, env, answers, kept, spared, runs>>
  PROVE  IInv'
<1>1. UNCHANGED <<tables, row, seeded>>
  BY DEF dataVars
<1>2. used \in Nat /\ \A r \in made : r.id \in Nat /\ r.id <= used
  BY Numbers DEF IInv, TypeOK, MadeInv, Ids
<1>3. TypeOK'
  <2>1. faults' \in 0 .. MaxFaults
    BY Numbers DEF IInv, TypeOK, Fault
  <2>2. used' \in 0 .. MaxIds
    BY Numbers DEF IInv, TypeOK
  <2>3. made' \subseteq [kind : Kinds, id : Ids]
    BY <1>2, Numbers DEF IInv, TypeOK, Ids
  <2>4. at' \in Steps /\ warned' \subseteq {"runtimeRoles", "bank", "service"}
    BY DEF IInv, TypeOK, Steps, Names
  <2> QED
    BY <1>1, <2>1, <2>2, <2>3, <2>4 DEF IInv, TypeOK
<1>4. Positions' /\ StepsDone'
  BY DEF IInv, Positions, StepsDone,
     PastApis, PastBucket, PastAccount, PastRoles, PastRuntime, PastFirestore, PastKnowledge, PastSkills, PastEngine
<1>5. MadeInv'
  <2>1. CASE UNCHANGED <<made, used>>
    BY <2>1 DEF IInv, MadeInv
  <2>2. CASE used' = used + 1 /\ made' = made \cup {[kind |-> kind, id |-> used + 1]}
    <3>1. IsFiniteSet(made')
      BY <2>2, FS_AddElement DEF IInv, MadeInv
    <3>2. \A r \in made' : r.id <= used'
      BY <1>2, <2>2
    <3>3. \A r, s \in made' : r.id = s.id => r = s
      BY <1>2, <2>2 DEF IInv, MadeInv
    <3> QED
      BY <3>1, <3>2, <3>3 DEF MadeInv
  <2> QED
    BY <2>1, <2>2
<1>6. HeldInv' /\ NamedExists' /\ EngineMatchesEnv'
  BY DEF IInv, HeldInv, NamedExists, EngineMatchesEnv, Exists
<1>7. RowInv' /\ SeedDamageIsBounded' /\ TornIsEmpty'
  BY SetupData
<1>8. LeftInv'
  <2>1. Lost' \subseteq Lost \cup {[kind |-> kind, id |-> used + 1]}
    BY DEF Lost, Passed
  <2>2. Uncleared' \subseteq Uncleared
    BY DEF Uncleared, Passed
  <2> QED
    BY <2>1, <2>2, LeftGrown
<1> QED
  BY <1>3, <1>4, <1>5, <1>6, <1>7, <1>8 DEF IInv

LEMMA BankRaisesStep ==
  ASSUME IInv, UNCHANGED dataVars, BankRaises \/ FallbackRaises
  PROVE  IInv'
<1>1. CASE BankRaises
  <2>1. "bank" \in Kinds
    BY DEF Kinds, Names
  <2> QED
    BY <1>1, <2>1, BankLost DEF BankRaises, Unnamed, Step, Create
<1>2. CASE FallbackRaises
  <2>1. "bankCorpus" \in Kinds
    BY DEF Kinds
  <2> QED
    BY <1>2, <2>1, BankLost DEF FallbackRaises, Unnamed, Step, Create, Advance, After
<1> QED
  BY <1>1, <1>2

(* Steps that are skipped with a warning.                                  *)
LEMMA WarnedStep ==
  ASSUME IInv, UNCHANGED dataVars, RuntimeRolesRefused \/ SkipCloudRun
  PROVE  IInv'
<1>1. /\ program = "setup" /\ program' = "setup" /\ held' = held
      /\ \/ at = "runtimeRoles" /\ at' = "firestore" /\ warned' = warned \cup {"runtimeRoles"}
         \/ at = "image" /\ at' = "ready" /\ warned' = warned \cup {"service"}
      /\ faults' = faults \/ Fault
      /\ UNCHANGED <<fixed, made, used, knows, env, answers, kept, spared, runs, tables, row, seeded>>
  BY DEF RuntimeRolesRefused, SkipCloudRun, Step, Advance, After, cloudVars, dataVars
<1>2. TypeOK'
  <2>1. faults' \in 0 .. MaxFaults
    BY <1>1, Numbers DEF IInv, TypeOK, Fault
  <2> QED
    BY <1>1, <2>1 DEF IInv, TypeOK, Steps, Fixed
<1>3. held = 0
  BY <1>1 DEF IInv, HeldInv
<1>4. RowInv' /\ SeedDamageIsBounded' /\ TornIsEmpty'
  BY <1>1, SetupData
<1>5. HeldInv' /\ MadeInv' /\ NamedExists' /\ EngineMatchesEnv'
  BY <1>1, <1>3 DEF IInv, HeldInv, MadeInv, NamedExists, EngineMatchesEnv, Exists
<1>6. LeftInv'
  BY <1>1, SetupLeft DEF Referred
<1>7. Positions' /\ StepsDone'
  BY <1>1 DEF IInv, Positions, StepsDone,
     PastApis, PastBucket, PastAccount, PastRoles, PastRuntime, PastFirestore, PastKnowledge, PastSkills, PastEngine
<1> QED
  BY <1>2, <1>4, <1>5, <1>6, <1>7 DEF IInv

(* The engine is deployed again, with the names .env holds.                *)
LEMMA UpdateStep == IInv /\ UNCHANGED dataVars /\ UpdateEngine => IInv'
<1> SUFFICES ASSUME IInv, UNCHANGED dataVars, UpdateEngine PROVE IInv'
  OBVIOUS
<1>1. /\ program = "setup" /\ at = "engine" /\ program' = "setup" /\ at' = After("engine")
      /\ held = 0 /\ held' = 0 /\ Exists(env.engine)
      /\ knows' = [knows EXCEPT ![env.engine] = env]
      /\ fixed' = fixed \cup {"bucket"}
      /\ UNCHANGED <<made, used, env, answers, warned, kept, spared, faults, runs, tables, row, seeded>>
  BY DEF UpdateEngine, Step, Advance, dataVars
<1>2. env.engine \in Ids /\ env.engine # 0
  BY <1>1, Numbers DEF IInv, TypeOK, Exists, Ids
<1>3. TypeOK'
  <2>1. knows \in [Ids -> Named] /\ env \in Named
    BY DEF IInv, TypeOK
  <2>2. knows' \in [Ids -> Named]
    BY <1>1, <2>1
  <2>3. at' \in Steps /\ fixed' \subseteq Fixed
    BY <1>1 DEF IInv, TypeOK, Steps, Fixed, Names, After
  <2> QED
    BY <1>1, <2>2, <2>3 DEF IInv, TypeOK
<1>4. at' \notin {"drop", "create", "insert"}
  BY <1>1 DEF After
<1>5. Positions' /\ StepsDone'
  BY <1>1, <1>2 DEF IInv, Positions, StepsDone, After,
     PastApis, PastBucket, PastAccount, PastRoles, PastRuntime, PastFirestore, PastKnowledge, PastSkills, PastEngine
<1>6. MadeInv' /\ HeldInv' /\ NamedExists'
  BY <1>1 DEF IInv, HeldInv, MadeInv, NamedExists, Exists
<1>7. EngineMatchesEnv'
  <2>1. knows'[env.engine] = env
    BY <1>1, <1>2 DEF IInv, TypeOK
  <2>2. env.knowledge # 0 /\ env.skills # 0
    BY <1>1 DEF IInv, StepsDone, PastKnowledge, PastSkills
  <2> QED
    BY <1>1, <2>1, <2>2 DEF EngineMatchesEnv
<1>8. RowInv' /\ SeedDamageIsBounded' /\ TornIsEmpty'
  BY <1>1, <1>4, SetupData DEF dataVars
<1>9. LeftInv'
  BY <1>1, SetupLeft DEF Referred
<1> QED
  BY <1>3, <1>5, <1>6, <1>7, <1>8, <1>9 DEF IInv

(* The name that is held gets its place in .env.                           *)
LEMMA RecordStep == IInv /\ UNCHANGED dataVars /\ RecordName => IInv'
<1> SUFFICES ASSUME IInv, UNCHANGED dataVars, RecordName PROVE IInv'
  OBVIOUS
<1>1. PICK key \in Names : key = Key(at)
  BY DEF RecordName, IInv, HeldInv, Key, Names
<1>2. /\ program = "setup" /\ program' = "setup" /\ held # 0 /\ held' = 0
      /\ at' = After(at)
      /\ env' = [env EXCEPT ![key] = held]
      /\ UNCHANGED <<fixed, made, used, knows, answers, warned, kept, spared, faults, runs, tables, row, seeded>>
  BY <1>1 DEF RecordName, Advance, cloudVars, dataVars
<1>3. /\ at \in {"knowledge", "skills", "bank", "fallback", "engine"}
      /\ Exists(held) /\ env[key] = 0 /\ (at = "engine" => knows[held] = env)
  BY <1>1, <1>2 DEF IInv, HeldInv
<1>4. /\ env \in Named /\ env'[key] = held /\ \A n \in Names : n # key => env'[n] = env[n]
      /\ env' \in Named /\ held \in 0 .. MaxIds
  BY <1>2 DEF IInv, TypeOK, Named
<1>5. TypeOK'
  <2>1. at' \in Steps
    BY <1>2, <1>3 DEF Steps, Fixed, Names, After
  <2>2. 0 \in 0 .. MaxIds
    BY Numbers
  <2> QED
    BY <1>2, <1>4, <2>1, <2>2 DEF IInv, TypeOK
<1>6. /\ at \notin {"drop", "create", "insert"} /\ at' \notin {"drop", "create", "insert"}
      /\ at' \in {"skills", "bank", "engine", "dataset", "image", "ready"}
  BY <1>2, <1>3 DEF After
<1>7. Positions'
  BY <1>2, <1>6 DEF Positions,
     PastApis, PastBucket, PastAccount, PastRoles, PastRuntime, PastFirestore, PastKnowledge, PastSkills, PastEngine
<1>8. StepsDone'
  BY <1>1, <1>2, <1>3, <1>4 DEF IInv, StepsDone, After, Key, Names,
     PastApis, PastBucket, PastAccount, PastRoles, PastRuntime, PastFirestore, PastKnowledge, PastSkills, PastEngine
<1>9. MadeInv' /\ HeldInv'
  BY <1>2 DEF IInv, HeldInv, MadeInv
<1>10. NamedExists'
  BY <1>2, <1>3, <1>4 DEF IInv, NamedExists, Exists
<1>11. EngineMatchesEnv'
  <2>1. CASE at = "engine"
    <3>1. key = "engine" /\ env'.engine = held /\ knows'[held] = env
      BY <1>1, <1>2, <1>3, <1>4, <2>1 DEF Key
    <3>2. env'.knowledge = env.knowledge /\ env'.skills = env.skills /\ env'.bank = env.bank
      BY <1>4, <3>1 DEF Names
    <3>3. env.knowledge # 0 /\ env.skills # 0
      BY <1>2, <2>1 DEF IInv, StepsDone, PastKnowledge, PastSkills
    <3> QED
      BY <3>1, <3>2, <3>3 DEF EngineMatchesEnv
  <2>2. CASE at # "engine"
    <3>1. key # "engine" /\ env'.engine = env.engine
      BY <1>1, <1>3, <1>4, <2>2 DEF Key, Names
    <3>2. env.engine # 0 =>
            /\ key = "bank" /\ env'.knowledge = env.knowledge /\ env'.skills = env.skills
            /\ knows[env.engine].bank \in {0, env.bank} /\ env.bank = 0
      BY <1>1, <1>3, <1>4, <2>2 DEF IInv, EngineMatchesEnv, Key, Names
    <3> QED
      BY <1>2, <3>1, <3>2 DEF IInv, EngineMatchesEnv
  <2> QED
    BY <2>1, <2>2
<1>12. RowInv' /\ SeedDamageIsBounded' /\ TornIsEmpty'
  BY <1>2, <1>6, SetupData DEF dataVars
<1>13. LeftInv'
  <2>1. \A r \in made : r.id # 0
    BY DEF IInv, TypeOK, Ids
  <2>2. \A r \in made : Referred(r) => Referred(r)'
    BY <1>2, <1>3, <1>4, <2>1 DEF Referred
  <2> QED
    BY <1>2, <2>2, SetupLeft
<1> QED
  BY <1>5, <1>7, <1>8, <1>9, <1>10, <1>11, <1>12, <1>13 DEF IInv

-----------------------------------------------------------------------------
(* The demo data.                                                          *)
SeedSteps == {"drop", "create", "insert"}

(* A step of the seeding: only the tables, and where the script is.        *)
LEMMA SeedFrame ==
  ASSUME IInv, program = "setup", program' = "setup",
         at \in {"dataset"} \cup SeedSteps,
         \/ at' \in SeedSteps /\ row' \in 1 .. NumTables
         \/ at' = After("dataset") /\ row' = 0,
         tables' \in [1 .. NumTables -> {"missing", "empty", "full"}], seeded' \in BOOLEAN,
         fixed' = fixed \/ fixed' = fixed \cup {"dataset"},
         UNCHANGED <<made, used, knows, env, held, answers, warned, kept, spared, runs>>,
         faults' = faults \/ Fault, SeedDamageIsBounded'
  PROVE  IInv'
<1> USE DEF SeedSteps
<1>1. held = 0
  BY DEF IInv, HeldInv
<1>2. at' \in SeedSteps \cup {"image", "ready"}
  BY DEF After
<1>3. TypeOK'
  <2>1. faults' \in 0 .. MaxFaults /\ row' \in 0 .. NumTables
    BY Numbers DEF IInv, TypeOK, Fault
  <2>2. at' \in Steps /\ fixed' \subseteq Fixed
    BY <1>2 DEF IInv, TypeOK, Steps, Fixed
  <2> QED
    BY <2>1, <2>2 DEF IInv, TypeOK
<1>4. Positions'
  BY <1>2 DEF Positions,
     PastApis, PastBucket, PastAccount, PastRoles, PastRuntime, PastFirestore, PastKnowledge, PastSkills, PastEngine
<1>5. StepsDone'
  BY DEF IInv, StepsDone, After,
     PastApis, PastBucket, PastAccount, PastRoles, PastRuntime, PastFirestore, PastKnowledge, PastSkills, PastEngine
<1>6. HeldInv' /\ MadeInv' /\ NamedExists' /\ EngineMatchesEnv' /\ TornIsEmpty'
  BY <1>1 DEF IInv, HeldInv, MadeInv, NamedExists, EngineMatchesEnv, TornIsEmpty, Exists
<1>7. RowInv'
  BY <1>2, Numbers DEF RowInv, After
<1>8. LeftInv'
  BY SetupLeft DEF Referred
<1> QED
  BY <1>3, <1>4, <1>5, <1>6, <1>7, <1>8 DEF IInv

(* Where the script is, and what it says of the tables.                    *)
LEMMA AtTable ==
  ASSUME IInv, program = "setup", at \in SeedSteps
  PROVE  row \in 1 .. NumTables /\ tables \in [1 .. NumTables -> {"missing", "empty", "full"}]
  BY Numbers DEF IInv, TypeOK, RowInv, SeedSteps

LEMMA SeedStep == IInv /\ (EnsureDataset \/ DropTable \/ CreateTable) => IInv'
<1> SUFFICES ASSUME IInv, EnsureDataset \/ DropTable \/ CreateTable PROVE IInv'
  OBVIOUS
<1>1. /\ program = "setup" /\ program' = "setup" /\ at \in {"dataset"} \cup SeedSteps
      /\ at' \in SeedSteps
      /\ fixed' = fixed \/ fixed' = fixed \cup {"dataset"}
      /\ UNCHANGED <<made, used, knows, env, held, answers, warned, kept, spared, runs, faults, seeded>>
  BY DEF EnsureDataset, DropTable, CreateTable, Step, SeedSteps, cloudVars
<1>2. /\ tables \in [1 .. NumTables -> {"missing", "empty", "full"}]
      /\ seeded \in BOOLEAN
  BY DEF IInv, TypeOK
<1>3. /\ row' \in 1 .. NumTables
      /\ tables' \in [1 .. NumTables -> {"missing", "empty", "full"}]
      /\ Short' \subseteq Short
  <2>1. CASE EnsureDataset
    <3>1. row = 0 /\ row' = 1 /\ tables' = tables
      BY <2>1 DEF EnsureDataset
    <3> QED
      BY <1>2, <3>1, Numbers DEF Short, Full
  <2>2. CASE DropTable \/ CreateTable
    <3>1. PICK new \in {"missing", "empty"} : tables' = [tables EXCEPT ![row] = new] /\ row' = row
      BY <2>2 DEF DropTable, CreateTable
    <3>2. row \in 1 .. NumTables
      BY <1>1, <2>2, AtTable DEF DropTable, CreateTable, Step, SeedSteps
    <3>3. Short' \subseteq Short
      BY <1>2, <3>1 DEF Short, Full
    <3> QED
      BY <1>2, <3>1, <3>2, <3>3
  <2> QED
    BY <2>1, <2>2
<1>4. SeedDamageIsBounded'
  BY <1>1, <1>3, DamageKept
<1> QED
  BY <1>1, <1>2, <1>3, <1>4, SeedFrame

LEMMA InsertStep == IInv /\ InsertRows => IInv'
<1> SUFFICES ASSUME IInv, InsertRows PROVE IInv'
  OBVIOUS
<1>1. /\ program = "setup" /\ program' = "setup" /\ at = "insert"
      /\ UNCHANGED <<fixed, made, used, knows, env, held, answers, warned, kept, spared, runs>>
      /\ seeded' = (seeded \/ \A i \in 1 .. NumTables : tables'[i] = "full")
  BY DEF InsertRows, Step, cloudVars
<1>2. /\ row \in 1 .. NumTables /\ tables \in [1 .. NumTables -> {"missing", "empty", "full"}]
      /\ seeded \in BOOLEAN
  BY <1>1, AtTable DEF IInv, TypeOK, SeedSteps
<1>3. \/ tables' = [tables EXCEPT ![row] = "full"] /\ faults' = faults
      \/ Fault /\ tables' = tables
  BY DEF InsertRows
<1>4. /\ tables' \in [1 .. NumTables -> {"missing", "empty", "full"}] /\ seeded' \in BOOLEAN
      /\ faults' = faults \/ Fault
  BY <1>1, <1>2, <1>3
<1>5. \/ at' \in SeedSteps /\ row' \in 1 .. NumTables
      \/ at' = After("dataset") /\ row' = 0
  BY <1>2, Numbers DEF InsertRows, NextTable, SeedSteps
<1>6. SeedDamageIsBounded'
  <2>1. CASE \A i \in 1 .. NumTables : tables'[i] = "full"
    <3>1. Short' = {}
      BY <2>1 DEF Short, Full
    <3>2. faults' \in Nat
      BY <1>4, LeftIsFinite DEF Fault
    <3> QED
      BY <3>1, <3>2, FS_EmptySet DEF SeedDamageIsBounded, Short
  <2>2. CASE ~ \A i \in 1 .. NumTables : tables'[i] = "full"
    <3>1. seeded' = seeded
      BY <1>1, <1>2, <2>2
    <3>2. CASE tables' = [tables EXCEPT ![row] = "full"] /\ faults' = faults
      <4>1. Short' \subseteq Short
        BY <1>2, <3>2 DEF Short, Full
      <4> QED
        BY <3>1, <3>2, <4>1, DamageKept
    <3>3. CASE Fault /\ tables' = tables
      <4>1. Short' \subseteq Short \cup {row}
        BY <3>3 DEF Short, Full
      <4> QED
        BY <3>1, <3>3, <4>1, DamageGrown
    <3> QED
      BY <1>3, <3>2, <3>3
  <2> QED
    BY <2>1, <2>2
<1> QED
  BY <1>1, <1>4, <1>5, <1>6, SeedFrame DEF SeedSteps

LEMMA SeedingFailsStep == IInv /\ SeedingFails => IInv'
<1> SUFFICES ASSUME IInv, SeedingFails PROVE IInv'
  OBVIOUS
<1>1. /\ program = "setup" /\ program' = "setup" /\ at \in {"dataset"} \cup SeedSteps
      /\ Fault /\ row' = 0 /\ at' = After("dataset")
      /\ UNCHANGED <<fixed, made, used, knows, env, held, answers, warned, kept, spared, runs, tables, seeded>>
  BY DEF SeedingFails, Step, SeedSteps, cloudVars
<1>2. Short' \subseteq Short \cup {row}
  BY <1>1 DEF Short, Full
<1>3. SeedDamageIsBounded'
  BY <1>1, <1>2, DamageGrown
<1>4. tables' \in [1 .. NumTables -> {"missing", "empty", "full"}] /\ seeded' \in BOOLEAN
  BY <1>1 DEF IInv, TypeOK
<1> QED
  BY <1>1, <1>3, <1>4, SeedFrame

(* A run of the setup wizard is cut short.                                 *)
LEMMA SeedingCutStep == IInv /\ SeedingCut => IInv'
<1> SUFFICES ASSUME IInv, SeedingCut PROVE IInv'
  OBVIOUS
<1>1. /\ program = "setup" /\ program' = "setup" /\ at' = "idle" /\ held' = 0 /\ row' = 0
      /\ Fault
      /\ UNCHANGED <<fixed, made, used, knows, env, answers, warned, kept, spared, runs, tables, seeded>>
  BY DEF SeedingCut, Interrupted, cloudVars
<1>2. TypeOK'
  <2>1. faults' \in 0 .. MaxFaults
    BY <1>1, Numbers DEF IInv, TypeOK, Fault
  <2>2. 0 \in 0 .. MaxIds /\ 0 \in 0 .. NumTables
    BY Numbers
  <2> QED
    BY <1>1, <2>1, <2>2 DEF IInv, TypeOK, Steps
<1>3. /\ Positions' /\ StepsDone' /\ HeldInv' /\ MadeInv' /\ NamedExists'
      /\ EngineMatchesEnv' /\ TornIsEmpty' /\ RowInv'
  BY <1>1 DEF IInv, Positions, StepsDone, HeldInv, MadeInv, NamedExists, EngineMatchesEnv,
     TornIsEmpty, RowInv, Exists,
     PastApis, PastBucket, PastAccount, PastRoles, PastRuntime, PastFirestore, PastKnowledge, PastSkills, PastEngine
<1>4. SeedDamageIsBounded'
  <2>1. Short' \subseteq Short \cup {row}
    BY <1>1 DEF Short, Full
  <2> QED
    BY <1>1, <2>1, DamageGrown
<1>5. LeftInv'
  <2>1. Uncleared' \subseteq Uncleared
    BY <1>1 DEF Uncleared, Passed
  <2>2. CASE \E r \in made : r.id = held
    <3>1. PICK r \in made : r.id = held
      BY <2>2
    <3>2. Lost' \subseteq Lost \cup {r}
      BY <1>1, <3>1 DEF Lost, Passed, IInv, MadeInv
    <3> QED
      BY <1>1, <2>1, <3>2, LeftGrown
  <2>3. CASE \A r \in made : r.id # held
    <3>1. Lost' \subseteq Lost
      BY <1>1, <2>3 DEF Lost, Passed
    <3> QED
      BY <1>1, <2>1, <3>1, LeftKept
  <2> QED
    BY <2>2, <2>3
<1> QED
  BY <1>2, <1>3, <1>4, <1>5 DEF IInv

-----------------------------------------------------------------------------
(* The teardown wizard.  A step of it leaves everything but the resources, *)
(* .env and its own position.                                              *)
LEMMA TeardownFrame ==
  ASSUME IInv, UNCHANGED dataVars, program' = "teardown",
         at \notin SeedSteps, at' = "idle" \/ Rank(at') > 0,
         fixed' \subseteq fixed, made' \subseteq made,
         env' \in {env, NoName}, kept' \in BOOLEAN, runs' \in 0 .. MaxRuns,
         UNCHANGED <<used, knows, held, answers, warned>>, held = 0, spared' = spared \/ spared' \subseteq Ids,
         faults' = faults \/ Fault, TornIsEmpty', LeftInv'
  PROVE  IInv'
<1>1. NoName \in Named
  BY Numbers DEF NoName, Named
<1>2. at' \in Steps
  BY DEF Rank, Steps, Fixed, Names
<1>3. TypeOK'
  <2>1. faults' \in 0 .. MaxFaults
    BY Numbers DEF IInv, TypeOK, Fault
  <2>2. made' \subseteq [kind : Kinds, id : Ids] /\ fixed' \subseteq Fixed
    BY DEF IInv, TypeOK
  <2> QED
    BY <1>1, <1>2, <2>1, <2>2 DEF IInv, TypeOK, dataVars
<1>4. Positions' /\ StepsDone' /\ HeldInv' /\ NamedExists'
  BY DEF Positions, StepsDone, HeldInv, NamedExists
<1>5. MadeInv'
  BY FS_Subset DEF IInv, MadeInv
<1>6. EngineMatchesEnv'
  BY DEF IInv, EngineMatchesEnv, NoName, Names
<1>7. RowInv'
  <2>1. row = 0
    BY DEF IInv, RowInv, SeedSteps
  <2> QED
    BY <2>1 DEF RowInv, dataVars
<1>8. SeedDamageIsBounded'
  <2>1. Short' \subseteq Short /\ seeded' = seeded
    BY DEF Short, Full, dataVars
  <2> QED
    BY <2>1, DamageKept
<1> QED
  BY <1>3, <1>4, <1>5, <1>6, <1>7, <1>8 DEF IInv

LEMMA Deletions ==
  ASSUME IInv, program = "teardown"
  PROVE  held = 0 /\ at \notin SeedSteps
  BY DEF IInv, HeldInv, Positions, SeedSteps, Rank

(* A deletion, done or failed, is passed, and nothing else.                *)
LEMMA PassedGrows ==
  ASSUME program = "teardown", program' = "teardown", NEW s \in Names \cup Deleted,
         at = s, at' = AfterDelete(s)
  PROVE  \A p \in Names \cup Deleted : Passed(p)' <=> Passed(p) \/ p = s
<1>1. \A p \in Names \cup Deleted : Rank(p) \in 1 .. 9
  BY DEF Rank, Names, Deleted
<1>2. \A p \in Names \cup Deleted : Rank(p) = Rank(s) => p = s
  BY DEF Rank, Names, Deleted
<1>3. Rank(AfterDelete(s)) = Rank(s) + 1
  <2>1. PICK next : next = AfterDelete(s)
    OBVIOUS
  <2>2. \/ s = "service" /\ next = "engine"
        \/ s = "engine" /\ next = "bank"
        \/ s = "bank" /\ next = "knowledge"
        \/ s = "knowledge" /\ next = "skills"
        \/ s = "skills" /\ next = "bucket"
        \/ s = "bucket" /\ next = "firestore"
        \/ s = "firestore" /\ next = "account"
        \/ s = "account" /\ next = "image"
        \/ s = "image" /\ next = "apis"
    BY <2>1 DEF AfterDelete, Names, Deleted
  <2>3. Rank(next) = Rank(s) + 1
    BY ONLY <2>2 DEF Rank
  <2> QED
    BY <2>1, <2>3
<1> SUFFICES ASSUME NEW p \in Names \cup Deleted
             PROVE  Rank(p) < Rank(s) + 1 <=> Rank(p) < Rank(s) \/ p = s
  BY <1>3 DEF Passed
<1>4. Rank(p) \in 1 .. 9 /\ Rank(s) \in 1 .. 9
  BY <1>1
<1>5. Rank(p) < Rank(s) + 1 <=> Rank(p) < Rank(s) \/ Rank(p) = Rank(s)
  BY ONLY <1>4
<1> QED
  BY <1>2, <1>5

LEMMA StartTeardownStep == IInv /\ UNCHANGED dataVars /\ StartTeardown => IInv'
<1> SUFFICES ASSUME IInv, UNCHANGED dataVars, StartTeardown PROVE IInv'
  OBVIOUS
<1>1. /\ Resting /\ runs < MaxRuns /\ runs' = runs + 1
      /\ program' = "teardown" /\ at' = "service"
      /\ UNCHANGED <<fixed, made, used, knows, env, held, answers, warned, kept, spared, faults>>
  BY DEF StartTeardown, Begin, cloudVars
<1>2. runs' \in 0 .. MaxRuns
  BY <1>1, Numbers DEF IInv, TypeOK
<1>3. held = 0 /\ at \notin SeedSteps
  BY <1>1 DEF IInv, HeldInv, Resting, SeedSteps
<1>4. TornIsEmpty' /\ Rank(at') > 0
  BY <1>1 DEF TornIsEmpty, Resting, Rank
<1>5. \A s \in Names \cup Deleted : ~Passed(s)'
  BY <1>1 DEF Passed, Rank, Names, Deleted
<1>6. LeftInv'
  <2>1. Lost' \subseteq Lost /\ Uncleared' \subseteq Uncleared
    BY <1>1, <1>5 DEF Lost, Uncleared
  <2> QED
    BY <1>1, <2>1, LeftKept
<1>7. kept' \in BOOLEAN
  BY <1>1 DEF IInv, TypeOK
<1> QED
  BY <1>1, <1>2, <1>3, <1>4, <1>6, <1>7, TeardownFrame

LEMMA DeleteFixedStep ==
  ASSUME IInv, UNCHANGED dataVars,
         NEW s \in {"service", "bucket", "firestore", "account", "image"}, DeleteFixed(s)
  PROVE  IInv'
<1>1. /\ program = "teardown" /\ program' = "teardown" /\ at = s /\ at' = AfterDelete(s)
      /\ UNCHANGED <<made, used, knows, env, held, answers, warned, kept, spared, runs>>
  BY DEF DeleteFixed, Deleting
<1>2. /\ fixed' \subseteq fixed
      /\ (s \notin fixed' /\ faults' = faults) \/ Fault
  BY DEF DeleteFixed
<1>3. Rank(at') > 0 /\ ~Resting'
  BY <1>1 DEF AfterDelete, Rank, Resting
<1>4. \A p \in Names \cup Deleted : Passed(p)' <=> Passed(p) \/ p = s
  BY <1>1, PassedGrows DEF Deleted
<1>5. Lost' \subseteq Lost
  BY <1>1, <1>4 DEF Lost, Names
<1>6. LeftInv'
  <2>1. CASE s \notin fixed'
    <3>1. Uncleared' \subseteq Uncleared
      BY <1>2, <1>4, <2>1 DEF Uncleared
    <3> QED
      BY <1>2, <1>5, <3>1, LeftKept
  <2>2. CASE s \in fixed'
    <3>1. Fault
      BY <1>2, <2>2
    <3>2. Uncleared' \subseteq Uncleared \cup {s}
      BY <1>2, <1>4 DEF Uncleared
    <3> QED
      BY <1>5, <3>1, <3>2, LeftGrown
  <2> QED
    BY <2>1, <2>2
<1>7. TornIsEmpty' /\ kept' \in BOOLEAN /\ runs' \in 0 .. MaxRuns
  BY <1>1, <1>3 DEF TornIsEmpty, IInv, TypeOK
<1>8. made' \subseteq made /\ env' \in {env, NoName} /\ (faults' = faults \/ Fault)
  BY <1>1, <1>2
<1> QED
  BY <1>1, <1>2, <1>3, <1>6, <1>7, <1>8, Deletions, TeardownFrame

LEMMA DeleteNamedStep ==
  ASSUME IInv, UNCHANGED dataVars, NEW n \in Names,
         DeleteNamed(n) \/ (n = "bank" /\ DeleteBank)
  PROVE  IInv'
<1>1. /\ program = "teardown" /\ program' = "teardown" /\ at = n /\ at' = AfterDelete(n)
      /\ UNCHANGED <<fixed, used, knows, env, held, answers, warned, kept, runs>>
  BY DEF DeleteNamed, DeleteBank, Deleting
<1>2. \/ made' = {r \in made : r.id # env[n]} /\ UNCHANGED <<faults, spared>>
      \/ Fault /\ UNCHANGED <<made, spared>>
      \/ env[n] # 0 /\ spared' = spared \cup {env[n]} /\ UNCHANGED <<made, faults>>
  BY DEF DeleteNamed, DeleteBank, Forget
<1>3. Rank(at') > 0 /\ ~Resting'
  BY <1>1 DEF AfterDelete, Rank, Resting, Names
<1>4. \A p \in Names \cup Deleted : Passed(p)' <=> Passed(p) \/ p = n
  BY <1>1, PassedGrows
<1>5. Uncleared' \subseteq Uncleared
  BY <1>1, <1>4 DEF Uncleared, Deleted, Names
<1>6. LeftInv'
  <2>1. CASE made' = {r \in made : r.id # env[n]} /\ UNCHANGED <<faults, spared>>
    <3>1. Lost' \subseteq Lost
      BY <1>1, <1>4, <2>1 DEF Lost
    <3> QED
      BY <1>5, <2>1, <3>1, LeftKept
  <2>2. CASE Fault /\ UNCHANGED <<made, spared>>
    <3>1. CASE \E r \in made : r.id = env[n]
      <4>1. PICK r \in made : r.id = env[n]
        BY <3>1
      <4>2. Lost' \subseteq Lost \cup {r}
        BY <1>1, <1>4, <2>2, <4>1 DEF Lost, IInv, MadeInv
      <4> QED
        BY <1>5, <2>2, <4>2, LeftGrown
    <3>2. CASE \A r \in made : r.id # env[n]
      <4>1. Lost' \subseteq Lost
        BY <1>1, <1>4, <2>2, <3>2 DEF Lost
      <4> QED
        BY <1>5, <2>2, <4>1, LeftKept
    <3> QED
      BY <3>1, <3>2
  <2>3. CASE spared' = spared \cup {env[n]} /\ UNCHANGED <<made, faults>>
    <3>1. Lost' \subseteq Lost
      BY <1>1, <1>4, <2>3 DEF Lost
    <3> QED
      BY <1>5, <2>3, <3>1, LeftKept
  <2> QED
    BY <1>2, <2>1, <2>2, <2>3
<1>7. TornIsEmpty' /\ kept' \in BOOLEAN /\ runs' \in 0 .. MaxRuns
  BY <1>1, <1>3 DEF TornIsEmpty, IInv, TypeOK
<1>8. made' \subseteq made /\ fixed' \subseteq fixed /\ env' \in {env, NoName}
      /\ (faults' = faults \/ Fault)
  BY <1>1, <1>2
<1>9. spared' = spared \/ spared' \subseteq Ids
  <2>1. env[n] \in 0 .. MaxIds /\ spared \subseteq Ids
    BY DEF IInv, TypeOK, Named
  <2>2. env[n] # 0 => env[n] \in Ids
    BY ONLY <2>1, Numbers DEF Ids
  <2> QED
    BY <1>2, <2>1, <2>2
<1> QED
  BY <1>1, <1>3, <1>6, <1>7, <1>8, <1>9, Deletions, TeardownFrame

(* Both corpora are passed over at once.                                   *)
LEMMA SkipCorporaStep == IInv /\ UNCHANGED dataVars /\ SkipCorpora => IInv'
<1> SUFFICES ASSUME IInv, UNCHANGED dataVars, SkipCorpora PROVE IInv'
  OBVIOUS
<1>1. /\ program = "teardown" /\ program' = "teardown" /\ at = "knowledge" /\ at' = "bucket"
      /\ spared' = spared \cup ({env.knowledge, env.skills} \ {0})
      /\ UNCHANGED <<fixed, made, used, knows, env, held, answers, warned, kept, faults, runs>>
  BY DEF SkipCorpora, Deleting, AfterDelete, cloudVars
<1>2. Rank(at') > 0 /\ ~Resting'
  BY <1>1 DEF Rank, Resting
<1>3. \A p \in Names \cup Deleted : Passed(p)' => Passed(p) \/ p \in {"knowledge", "skills"}
  BY <1>1 DEF Passed, Rank, Names, Deleted
<1>4. Uncleared' \subseteq Uncleared
  BY <1>1, <1>3 DEF Uncleared, Deleted
<1>5. \A r \in made : r.id # 0
  BY DEF IInv, TypeOK, Ids
<1>6. Lost' \subseteq Lost
  <2> SUFFICES ASSUME NEW r \in Lost' PROVE r \in Lost
    OBVIOUS
  <2>1. r \in made /\ r.id # held /\ r.id \notin spared /\ r.id # 0
    BY <1>1, <1>5 DEF Lost
  <2>2. r.id # env.knowledge /\ r.id # env.skills
    BY <1>1, <2>1 DEF Lost
  <2>3. \A n \in Names : env[n] = r.id => Passed(n)
    BY <1>1, <1>3, <2>2 DEF Lost
  <2> QED
    BY <2>1, <2>3 DEF Lost
<1>7. LeftInv'
  BY <1>1, <1>4, <1>6, LeftKept
<1>8. TornIsEmpty' /\ kept' \in BOOLEAN /\ runs' \in 0 .. MaxRuns
  BY <1>1, <1>2 DEF TornIsEmpty, IInv, TypeOK
<1>9. spared' \subseteq Ids
  <2>1. env.knowledge \in 0 .. MaxIds /\ env.skills \in 0 .. MaxIds /\ spared \subseteq Ids
    BY DEF IInv, TypeOK, Named, Names
  <2>2. \A i \in 0 .. MaxIds : i # 0 => i \in Ids
    BY Numbers DEF Ids
  <2> QED
    BY <1>1, <2>1, <2>2
<1> QED
  BY <1>1, <1>2, <1>7, <1>8, <1>9, Deletions, TeardownFrame

(* The end of a teardown, and one that is cut short.                       *)
LEMMA TeardownEndStep ==
  ASSUME IInv, UNCHANGED dataVars, DisableApis \/ WipeEnv \/ TeardownCut
  PROVE  IInv'
<1>1. /\ program = "teardown" /\ program' = "teardown"
      /\ at' \in {"env", "torn", "idle"}
      /\ fixed' \subseteq fixed /\ env' \in {env, NoName} /\ kept' \in BOOLEAN
      /\ UNCHANGED <<made, used, knows, held, answers, warned, spared, runs>>
      /\ faults' = faults \/ Fault
  BY DEF DisableApis, WipeEnv, TeardownCut, Deleting, AfterDelete, cloudVars, IInv, TypeOK
<1>2. TornIsEmpty'
  BY DEF DisableApis, WipeEnv, TeardownCut, Deleting, AfterDelete, TornIsEmpty, Resting
<1>3. Rank(at') > 0 \/ at' = "idle"
  BY <1>1 DEF Rank
<1>4. LeftInv'
  <2>1. CASE at' = "idle"
    <3>1. \A p \in Names \cup Deleted : ~Passed(p)'
      BY <1>1, <2>1 DEF Passed, Rank, Names, Deleted
    <3>2. env' = env
      BY <2>1 DEF DisableApis, WipeEnv, TeardownCut, Deleting, AfterDelete
    <3>3. Lost' \subseteq Lost /\ Uncleared' \subseteq Uncleared
      BY <1>1, <3>1, <3>2 DEF Lost, Uncleared
    <3> QED
      BY <1>1, <3>3, LeftKept
  <2>2. CASE at' # "idle"
    <3>1. at \in {"apis", "env"}
      BY <2>2 DEF DisableApis, WipeEnv, TeardownCut, Deleting
    <3>2. \A p \in Names \cup Deleted : Passed(p)
      BY <1>1, <3>1 DEF Passed, Rank, Names, Deleted
    <3>3. Lost' \subseteq Lost
      <4>1. \A r \in made : r.id # held /\ r.id \notin spared => r \in Lost
        BY <3>2 DEF Lost
      <4> QED
        BY <1>1, <4>1 DEF Lost
    <3>4. Uncleared' \subseteq Uncleared
      BY <1>1, <3>2 DEF Uncleared
    <3> QED
      BY <1>1, <3>3, <3>4, LeftKept
  <2> QED
    BY <2>1, <2>2
<1>5. made' \subseteq made /\ runs' \in 0 .. MaxRuns
  BY <1>1 DEF IInv, TypeOK
<1> QED
  BY <1>1, <1>2, <1>3, <1>4, <1>5, Deletions, TeardownFrame

-----------------------------------------------------------------------------
LEMMA NextInv == IInv /\ [Next]_allVars => IInv'
<1> SUFFICES ASSUME IInv, [Next]_allVars PROVE IInv'
  OBVIOUS
<1>1. CASE UNCHANGED allVars
  <2>1. /\ UNCHANGED <<fixed, made, used, env, knows, program, at, held, answers, warned, kept, spared, faults, runs>>
        /\ UNCHANGED <<tables, row, seeded>>
    BY <1>1 DEF allVars, vars, dataVars
  <2>2. /\ TypeOK' /\ Positions' /\ StepsDone' /\ MadeInv' /\ TornIsEmpty' /\ RowInv'
        /\ EngineMatchesEnv'
    BY <2>1 DEF IInv, TypeOK, Positions, StepsDone, MadeInv, TornIsEmpty, Resting, RowInv,
       EngineMatchesEnv
  <2>3. HeldInv' /\ NamedExists'
    BY <2>1 DEF IInv, HeldInv, NamedExists, Exists, Key
  <2>4. Lost' \subseteq Lost /\ Uncleared' \subseteq Uncleared /\ Short' \subseteq Short
    BY <2>1 DEF Lost, Uncleared, Passed, Short, Full
  <2> QED
    BY <2>1, <2>2, <2>3, <2>4, LeftKept, DamageKept DEF IInv
<1>2. CASE SetupNext /\ UNCHANGED dataVars
  BY <1>2, StartSetupStep, EnsureStep, SkipStep, CreateSteps, BankRaisesStep, WarnedStep,
     UpdateStep, RecordStep DEF SetupNext
<1>3. CASE TeardownNext /\ UNCHANGED dataVars
  <2>1. CASE StartTeardown
    BY <1>3, <2>1, StartTeardownStep
  <2>2. CASE \E s \in {"service", "bucket", "firestore", "account", "image"} : DeleteFixed(s)
    BY <1>3, <2>2, DeleteFixedStep
  <2>3. CASE DeleteBank \/ \E n \in Names \ {"bank"} : DeleteNamed(n)
    <3>1. PICK n \in Names : DeleteNamed(n) \/ (n = "bank" /\ DeleteBank)
      BY <2>3 DEF Names
    <3> QED
      BY <1>3, <3>1, DeleteNamedStep
  <2>4. CASE DisableApis \/ WipeEnv \/ TeardownCut
    BY <1>3, <2>4, TeardownEndStep
  <2>5. CASE SkipCorpora
    BY <1>3, <2>5, SkipCorporaStep
  <2> QED
    BY <1>3, <2>1, <2>2, <2>3, <2>4, <2>5 DEF TeardownNext
<1>4. CASE SeedNext
  BY <1>4, SeedStep, InsertStep, SeedingFailsStep, SeedingCutStep DEF SeedNext
<1> QED
  BY <1>1, <1>2, <1>3, <1>4 DEF Next

(* The inductive invariant of both wizards.                                *)
THEOREM SetupInvariant == Spec => []IInv
<1> QED
  BY InitInv, NextInv, PTL DEF Spec

(* Resources, .env, positions and tables stay what they are.               *)
THEOREM SetupTypes == Spec => []TypeOK
<1>1. IInv => TypeOK
  BY DEF IInv
<1> QED
  BY <1>1, SetupInvariant, PTL

(* .env names what exists, and the engine was deployed with what it names  *)
(* (write_env after each step of setup_wizard.py).                         *)
THEOREM EnvTellsTheTruth == Spec => []EnvIsTrue
<1>1. IInv => EnvIsTrue
  BY DEF IInv, EnvIsTrue
<1> QED
  BY <1>1, SetupInvariant, PTL

(* "Setup complete!" is true but for what this run has warned of, whatever *)
(* runs came before (main of setup_wizard.py).                             *)
THEOREM CompleteIsComplete == Spec => []SetupComplete
<1>1. IInv => SetupComplete
  BY DEF IInv, StepsDone, NamedExists, SetupComplete, Names,
     PastApis, PastBucket, PastAccount, PastRoles, PastRuntime, PastFirestore, PastKnowledge, PastSkills, PastEngine
<1> QED
  BY <1>1, SetupInvariant, PTL

(* What is left over, during setups and after a teardown, was paid for     *)
(* with a failure each, but for what the teardown has no step for or       *)
(* passes over: demo dataset, role bindings, memory banks, and corpora     *)
(* when it ran without the SDK.                                            *)
THEOREM LeftoversArePaidFor == Spec => []LeftoversAreFaults
<1>1. IInv => LeftoversAreFaults
  <2> SUFFICES ASSUME IInv PROVE OrphansAreFaults /\ TeardownLeavesFaults
    BY DEF LeftoversAreFaults
  <2>1. /\ IsFiniteSet(Lost) /\ IsFiniteSet(Uncleared) /\ faults \in Nat
        /\ Cardinality(Lost) \in Nat /\ Cardinality(Uncleared) \in Nat
        /\ Cardinality(Lost) + Cardinality(Uncleared) <= faults
    BY LeftIsFinite, FS_CardinalityType DEF IInv, LeftInv
  <2>2. OrphansAreFaults
    <3>1. PICK counted : counted = {r \in Orphans : ~Spared(r)}
      OBVIOUS
    <3>2. counted \subseteq Lost
      BY <3>1 DEF Orphans, Lost, Spared
    <3>3. Cardinality(counted) <= Cardinality(Lost) /\ Cardinality(counted) \in Nat
      BY <2>1, <3>2, FS_Subset, FS_CardinalityType
    <3>4. Cardinality(counted) <= faults
      BY ONLY <2>1, <3>3
    <3> QED
      BY <3>1, <3>4 DEF OrphansAreFaults
  <2>3. TeardownLeavesFaults
    <3> SUFFICES ASSUME at = "torn"
                 PROVE  Cardinality({r \in made : ~Spared(r)})
                          + Cardinality(fixed \cap Deleted) <= faults
      BY DEF TeardownLeavesFaults
    <3>1. program = "teardown" /\ held = 0
      BY DEF IInv, TypeOK, Positions, HeldInv,
     PastApis, PastBucket, PastAccount, PastRoles, PastRuntime, PastFirestore, PastKnowledge, PastSkills, PastEngine
    <3>2. \A p \in Names \cup Deleted : Passed(p)
      BY <3>1 DEF Passed, Rank, Names, Deleted
    <3>3. \A r \in made : r.id # 0
      BY DEF IInv, TypeOK, Ids
    <3>4. {r \in made : ~Spared(r)} = Lost /\ fixed \cap Deleted = Uncleared
      BY <3>1, <3>2, <3>3 DEF Lost, Uncleared, Spared
    <3> QED
      BY <2>1, <3>4
  <2> QED
    BY <2>2, <2>3
<1> QED
  BY <1>1, SetupInvariant, PTL

(* A seeding run that breaks off harms no table but its own                *)
(* (seed_bigquery.py: each table is dropped, created and filled in turn).  *)
THEOREM SeedingHarmsOneTable == Spec => []SeedDamageIsBounded
<1>1. IInv => SeedDamageIsBounded
  BY DEF IInv
<1> QED
  BY <1>1, SetupInvariant, PTL

=============================================================================

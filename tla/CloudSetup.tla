----------------------------- MODULE CloudSetup -----------------------------
(***************************************************************************)
(* The life of one project under both wizards: set up, cut short, run      *)
(* again, torn down, set up anew, in any order.                            *)
(***************************************************************************)
EXTENDS DemoData, TeardownWizard

allVars == <<vars, dataVars>>

Init == ProjectInit /\ DataInit

Next ==
  \/ (SetupNext \/ TeardownNext) /\ UNCHANGED dataVars
  \/ SeedNext

Spec == Init /\ [][Next]_allVars

Steps == Fixed \cup Names \cup 
  {"fallback", "drop", "create", "insert", "env", "idle", "ready", "torn"}
Named == [Names -> 0 .. MaxIds]

TypeOK ==
  /\ fixed \subseteq Fixed
  /\ made \subseteq [kind : Kinds, id : Ids]
  /\ used \in 0 .. MaxIds
  /\ env \in Named
  /\ knows \in [Ids -> Named]
  /\ program \in {"none", "setup", "teardown"} /\ at \in Steps
  /\ held \in 0 .. MaxIds
  /\ answers \in [demo : BOOLEAN, cloudRun : BOOLEAN]
  /\ warned \subseteq {"runtimeRoles", "bank", "service"}
  /\ kept \in BOOLEAN /\ spared \subseteq Ids
  /\ faults \in 0 .. MaxFaults /\ runs \in 0 .. MaxRuns
  /\ tables \in [1 .. NumTables -> {"missing", "empty", "full"}]
  /\ row \in 0 .. NumTables
  /\ seeded \in BOOLEAN

-----------------------------------------------------------------------------
(* What .env names exists: a name is written only after its creation and   *)
(* forgotten with its deletion.  Only an .env that outlived a teardown     *)
(* names what is gone.                                                     *)
NamedExists ==
  (~kept /\ program # "teardown") => \A n \in Names : env[n] # 0 => Exists(env[n])

(* What "Setup complete!" leaves out, this run has warned of: after any    *)
(* history of broken runs and teardowns the project then has everything    *)
(* the gateway and the engine need, and .env names it -- unless .env       *)
(* outlived a teardown.  Missing after a warning may be the roles of the   *)
(* engine's service account, the memory bank, and without docker the       *)
(* whole Cloud Run service that was asked for.                             *)
SetupComplete ==
  (program = "setup" /\ at = "ready") =>
    /\ {"apis", "bucket", "account", "roles", "firestore"} \subseteq fixed
    /\ "runtimeRoles" \in fixed \cup warned
    /\ answers.cloudRun /\ "service" \notin warned => {"image", "service"} \subseteq fixed
    /\ env.bank # 0 \/ "bank" \in warned
    /\ \A n \in {"knowledge", "skills", "engine"} :
         env[n] # 0 /\ (kept \/ Exists(env[n]))

(* The engine in .env was deployed with the corpora in .env, also when it  *)
(* was kept by "s" in later runs; its memory bank may be one that was not  *)
(* there yet, never another one.                                           *)
EngineMatchesEnv ==
  env.engine # 0 =>
    /\ \A n \in {"knowledge", "skills"} : env[n] # 0 /\ knows[env.engine][n] = env[n]
    /\ knows[env.engine].bank \in {0, env.bank}

(* .env tells the truth about the project.                                 *)
EnvIsTrue == NamedExists /\ EngineMatchesEnv

(* Each failed call or broken run costs at most one resource with a        *)
(* generated name that nothing refers to any more.  What a teardown has    *)
(* passed over without a failure is not counted: memory banks, and corpora *)
(* when it ran without the SDK.                                            *)
Spared(r) == r.id \in spared
OrphansAreFaults == Cardinality({r \in Orphans : ~Spared(r)}) <= faults

(* Of the resources it has a step for and did not pass over, a finished    *)
(* teardown leaves at most one per failure of this project's whole life,   *)
(* whatever order the runs came in.  It has no step for the demo dataset   *)
(* and for role bindings of the engine's account, which always stay, and   *)
(* asks about the APIs.                                                    *)
Deleted == {"bucket", "account", "firestore", "image", "service"}
TeardownLeavesFaults ==
  at = "torn" =>
    Cardinality({r \in made : ~Spared(r)}) + Cardinality(fixed \cap Deleted) <= faults

(* What is left over was paid for with a failure, but for what the         *)
(* teardown has no step for or passes over: the demo dataset, the role     *)
(* bindings, memory banks, and without the SDK the corpora.                *)
LeftoversAreFaults == OrphansAreFaults /\ TeardownLeavesFaults

(* Once all demo tables were full, a seeding run that breaks off or is     *)
(* refused harms no table but the one it was at, and a later run repairs   *)
(* what it reaches: no more tables are short than runs have failed.        *)
SeedDamageIsBounded ==
  seeded => Cardinality((1 .. NumTables) \ (Full \cup {row})) <= faults

=============================================================================

----------------------------- MODULE SetupWizard -----------------------------
(***************************************************************************)
(* setup_wizard.py with what it runs: scripts/deploy.py,                   *)
(* create_memory_bank of memory/memory_bank.py; the demo data is seeded by *)
(* DemoData.  Each step asks the project, or .env, whether its resource is *)
(* there and creates it if not; a generated name is only in the wizard's   *)
(* memory until write_env.  A call that fails ends the run wherever it is  *)
(* (Interrupted), except where the code catches the exception.             *)
(***************************************************************************)
EXTENDS CloudProject

(* main: the steps in their order; gather_config has asked whether the     *)
(* demo data and the Cloud Run service are wanted.                         *)
After(step) ==
  LET afterDemo == IF answers.cloudRun THEN "image" ELSE "ready"
  IN  CASE step = "apis" -> "bucket"
        [] step = "bucket" -> "account"
        [] step = "versioning" -> "account"
        [] step = "account" -> "roles"
        [] step = "roles" -> "runtimeRoles"
        [] step = "runtimeRoles" -> "firestore"
        [] step = "firestore" -> "knowledge"
        [] step = "knowledge" -> "skills"
        [] step = "skills" -> "bank"
        [] step \in {"bank", "fallback"} -> "engine"
        [] step = "engine" -> IF answers.demo THEN "dataset" ELSE afterDemo
        [] step = "dataset" -> afterDemo
        [] step = "image" -> "service"
        [] OTHER -> "ready"

Step(s) == program = "setup" /\ at = s
Advance == at' = After(at)

(* The .env key a step fills.                                              *)
Key(step) == IF step = "fallback" THEN "bank" ELSE step

(* preflight passed, gather_config answered, "Proceed?" confirmed.  The    *)
(* base values written to .env first are the same on every run.            *)
StartSetup ==
  /\ Begin("setup", "apis")
  /\ \E demo, cloudRun \in BOOLEAN : answers' = [demo |-> demo, cloudRun |-> cloudRun]
  /\ warned' = {}
  /\ UNCHANGED <<cloudVars, env, held, kept, spared, faults>>

(* Mutant: the exit status of the command is not looked at.                *)
EnsureUnchecked(s) ==
  /\ Step(s)
  /\ (fixed' = fixed \cup {s} /\ UNCHANGED faults) \/ (Fault /\ UNCHANGED fixed)
  /\ Advance
  /\ UNCHANGED <<made, used, knows, env, program, held, answers, warned, kept, spared, runs>>

(* Steps that leave the same resource whether or not it was there.         *)
Ensure(s) ==
  /\ Step(s)
  /\ fixed' = fixed \cup {s}
  /\ Advance
  /\ UNCHANGED <<made, used, knows, env, program, held, answers, warned, kept, spared, faults, runs>>

(* The roles of the engine's own service account cannot be granted, or not *)
(* all of them: a warning, and the run goes on.                            *)
RuntimeRolesRefused ==
  /\ Step("runtimeRoles")
  /\ Fault
  /\ warned' = warned \cup {"runtimeRoles"}
  /\ Advance
  /\ UNCHANGED <<cloudVars, env, program, held, answers, kept, spared, runs>>

(* deploy_cloud_run without docker: image and service are skipped.         *)
SkipCloudRun ==
  /\ Step("image")
  /\ warned' = warned \cup {"service"}
  /\ at' = After("service")
  /\ UNCHANGED <<cloudVars, env, program, held, answers, kept, spared, faults, runs>>

(* gsutil ls, else mb; versioning is switched on by the run that made it.  *)
EnsureBucket ==
  /\ Step("bucket")
  /\ fixed' = fixed \cup {"bucket"}
  /\ at' = IF "bucket" \in fixed THEN After("bucket") ELSE "versioning"
  /\ UNCHANGED <<made, used, knows, env, program, held, answers, warned, kept, spared, faults, runs>>

(* Mutant: the operation's name is taken for the resource's.               *)
CreateNotAwaited(kind) ==
  /\ used < MaxIds
  /\ used' = used + 1
  /\ UNCHANGED made

(* A creation call returns: the new name is held until it is written.      *)
Create(kind) ==
  /\ used < MaxIds
  /\ used' = used + 1
  /\ made' = made \cup {[kind |-> kind, id |-> used + 1]}

(* Mutant: .env is not read before the creation.                           *)
UnnamedAlways(s) == Step(s) /\ held = 0

Unnamed(s) == Step(s) /\ held = 0 /\ env[Key(s)] = 0

(* .env already has the name: the step is skipped.                         *)
SkipNamed(s) ==
  /\ Step(s) /\ held = 0 /\ env[s] # 0
  /\ Advance
  /\ UNCHANGED <<cloudVars, env, program, held, answers, warned, kept, spared, faults, runs>>

CreateCorpus(s) ==
  /\ Unnamed(s)
  /\ Create(s)
  /\ held' = used + 1
  /\ UNCHANGED <<fixed, knows, env, program, at, answers, warned, kept, spared, faults, runs>>

(* create_memory_bank: an engine with the display name is used again.      *)
FindBank ==
  /\ Unnamed("bank")
  /\ \E r \in made : r.kind = "bank" /\ held' = r.id
  /\ UNCHANGED <<cloudVars, env, program, at, answers, warned, kept, spared, faults, runs>>

(* No such engine was listed, or the listing failed and was passed over.   *)
CreateBank ==
  /\ Unnamed("bank")
  /\ \/ (\A r \in made : r.kind # "bank") /\ UNCHANGED faults
     \/ (\E r \in made : r.kind = "bank") /\ Fault
  /\ Create("bank")
  /\ held' = used + 1
  /\ UNCHANGED <<fixed, knows, env, program, at, answers, warned, kept, spared, runs>>

(* It raises, before or after the engine was created: try a RAG corpus.    *)
BankRaises ==
  /\ Unnamed("bank")
  /\ Fault
  /\ Create("bank") \/ UNCHANGED <<made, used>>
  /\ at' = "fallback"
  /\ UNCHANGED <<fixed, knows, env, program, held, answers, warned, kept, spared, runs>>

CreateFallback ==
  /\ Unnamed("fallback")
  /\ Create("bankCorpus")
  /\ held' = used + 1
  /\ UNCHANGED <<fixed, knows, env, program, at, answers, warned, kept, spared, faults, runs>>

(* The second failure, before or after the corpus was created, is only a   *)
(* warning: the run goes on without a bank.                                *)
FallbackRaises ==
  /\ Unnamed("fallback")
  /\ Fault
  /\ Create("bankCorpus") \/ UNCHANGED <<made, used>>
  /\ warned' = warned \cup {"bank"}
  /\ Advance
  /\ UNCHANGED <<fixed, knows, env, program, held, answers, kept, spared, runs>>

(* Mutant: the engine is deployed before the environment is loaded.        *)
CreateEngineBare ==
  /\ Unnamed("engine")
  /\ Create("engine")
  /\ held' = used + 1
  /\ fixed' = fixed \cup {"bucket"}
  /\ UNCHANGED <<knows, env, program, at, answers, warned, kept, spared, faults, runs>>

(* scripts/deploy.py: the engine gets the names .env holds now.            *)
CreateEngine ==
  /\ Unnamed("engine")
  /\ Create("engine")
  /\ held' = used + 1
  /\ knows' = [knows EXCEPT ![used + 1] = env]
  /\ fixed' = fixed \cup {"bucket"}
  /\ UNCHANGED <<env, program, at, answers, warned, kept, spared, faults, runs>>

(* "u": redeploy; an engine that is gone cannot be updated.                *)
UpdateEngine ==
  /\ Step("engine") /\ held = 0 /\ Exists(env.engine)
  /\ knows' = [knows EXCEPT ![env.engine] = env]
  /\ fixed' = fixed \cup {"bucket"}
  /\ Advance
  /\ UNCHANGED <<made, used, env, program, held, answers, warned, kept, spared, faults, runs>>

(* write_env of the name the step holds.                                   *)
RecordName ==
  /\ program = "setup" /\ held # 0
  /\ env' = [env EXCEPT ![Key(at)] = held]
  /\ held' = 0
  /\ Advance
  /\ UNCHANGED <<cloudVars, program, answers, warned, kept, spared, faults, runs>>

(* An uncaught failure, sys.exit or Ctrl-C: what was held is forgotten.    *)
Interrupted ==
  /\ program = "setup" /\ ~Resting
  /\ Fault
  /\ at' = "idle" /\ held' = 0
  /\ UNCHANGED <<cloudVars, env, program, answers, warned, kept, spared, runs>>

SetupNext ==
  \/ StartSetup
  \/ \E s \in Fixed \ {"bucket", "dataset"} : Ensure(s)
  \/ EnsureBucket \/ RuntimeRolesRefused \/ SkipCloudRun
  \/ \E s \in Names : SkipNamed(s)
  \/ \E s \in {"knowledge", "skills"} : CreateCorpus(s)
  \/ FindBank \/ CreateBank \/ BankRaises \/ CreateFallback \/ FallbackRaises
  \/ CreateEngine \/ UpdateEngine \/ RecordName
=============================================================================

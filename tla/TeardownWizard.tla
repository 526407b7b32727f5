--------------------------- MODULE TeardownWizard ---------------------------
(***************************************************************************)
(* teardown_wizard.py: what .env names and what has a fixed name is        *)
(* deleted, one step after the other; a step that fails is passed over.    *)
(* The demo dataset, the generated corpora .env has forgotten and the      *)
(* roles of the engine's service account are no step of it.                *)
(***************************************************************************)
EXTENDS CloudProject

(* main: the steps in "safe dependency order".                             *)
AfterDelete(step) ==
  CASE step = "service" -> "engine"
    [] step = "engine" -> "bank"
    [] step = "bank" -> "knowledge"
    [] step = "knowledge" -> "skills"
    [] step = "skills" -> "bucket"
    [] step = "bucket" -> "firestore"
    [] step = "firestore" -> "account"
    [] step = "account" -> "image"
    [] step = "image" -> "apis"
    [] OTHER -> "env"

Deleting(s) == program = "teardown" /\ at = s

(* Mutant: the Cloud Run service is left to the console.                   *)
StartTeardownLate ==
  /\ Begin("teardown", "engine")
  /\ UNCHANGED <<cloudVars, env, held, answers, warned, kept, spared, faults>>

(* read_env, then "type 'yes' to confirm".                                 *)
StartTeardown ==
  /\ Begin("teardown", "service")
  /\ UNCHANGED <<cloudVars, env, held, answers, warned, kept, spared, faults>>

(* The bucket takes its versioning with it.                                *)
DeleteFixed(s) ==
  /\ Deleting(s)
  /\ at' = AfterDelete(s)
  /\ \/ /\ fixed' = fixed \ ({s} \cup IF s = "bucket" THEN {"versioning"} ELSE {})
        /\ UNCHANGED faults
     \/ Fault /\ UNCHANGED fixed
  /\ UNCHANGED <<made, used, knows, env, program, held, answers, warned, kept, spared, runs>>

Forget(n) == made' = {r \in made : r.id # env[n]}

(* A name that .env does not hold is skipped.                              *)
DeleteNamed(n) ==
  /\ Deleting(n)
  /\ at' = AfterDelete(n)
  /\ \/ Forget(n) /\ UNCHANGED faults
     \/ env[n] # 0 /\ Fault /\ UNCHANGED made
  /\ UNCHANGED <<fixed, used, knows, env, program, held, answers, warned, kept, spared, runs>>

(* delete_memory_bank: without vertexai.preview.memory_bank, which an SDK  *)
(* need not have, it asks gcloud, ignores the exit status and says         *)
(* "deleted"; a bank that is still there afterwards is not a fault that    *)
(* came from outside.                                                      *)
DeleteBank ==
  /\ Deleting("bank")
  /\ at' = AfterDelete("bank")
  /\ \/ Forget("bank") /\ UNCHANGED spared
     \/ env.bank # 0 /\ spared' = spared \cup {env.bank} /\ UNCHANGED made
  /\ UNCHANGED <<fixed, used, knows, env, program, held, answers, warned, kept, faults, runs>>

(* delete_rag_corpora without the SDK skips both corpora with a warning.    *)
SkipCorpora ==
  /\ Deleting("knowledge")
  /\ at' = AfterDelete("skills")
  /\ spared' = spared \cup ({env.knowledge, env.skills} \ {0})
  /\ UNCHANGED <<cloudVars, env, program, held, answers, warned, kept, faults, runs>>

(* disable_apis asks; the API list is the same either way.                 *)
DisableApis ==
  /\ Deleting("apis")
  /\ fixed' \in {fixed, fixed \ {"apis"}}
  /\ at' = AfterDelete("apis")
  /\ UNCHANGED <<made, used, knows, env, program, held, answers, warned, kept, spared, faults, runs>>

(* wipe_env_file asks; "n" keeps the names of what was just deleted.       *)
WipeEnv ==
  /\ Deleting("env")
  /\ \/ env' = NoName /\ kept' = FALSE
     \/ UNCHANGED env /\ kept' = TRUE
  /\ at' = "torn"
  /\ UNCHANGED <<cloudVars, program, held, answers, warned, spared, faults, runs>>

(* Ctrl-C ends the wizard at once: .env stays.                             *)
TeardownCut ==
  /\ program = "teardown" /\ ~Resting
  /\ Fault
  /\ at' = "idle" /\ kept' = TRUE
  /\ UNCHANGED <<cloudVars, env, program, held, answers, warned, spared, runs>>

TeardownNext ==
  \/ StartTeardown
  \/ \E s \in {"service", "bucket", "firestore", "account", "image"} : DeleteFixed(s)
  \/ \E n \in Names \ {"bank"} : DeleteNamed(n)
  \/ DeleteBank \/ SkipCorpora \/ DisableApis \/ WipeEnv \/ TeardownCut
=============================================================================

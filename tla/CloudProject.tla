---------------------------- MODULE CloudProject ----------------------------
(***************************************************************************)
(* What the setup and teardown wizards share: one GCP project, the .env    *)
(* file beside the code, and the wizard that is running.                   *)
(*                                                                         *)
(* A resource with a fixed name (bucket, service account, database...)     *)
(* exists or not.  Corpora, memory bank and engine get a generated         *)
(* resource name at each creation, a number here; .env is the only place   *)
(* that remembers which of them the platform uses.                         *)
(*                                                                         *)
(* faults counts every call that failed and every run that was cut short   *)
(* (Ctrl-C, a CalledProcessError, a broken connection): the wizards print  *)
(* a warning or a traceback and keep no record of it.                      *)
(***************************************************************************)
EXTENDS Naturals, FiniteSets

CONSTANTS
  MaxIds,      \* bound: generated resource names
  MaxFaults,   \* bound: failed calls and runs cut short
  MaxRuns      \* bound: runs of either wizard

ASSUME BoundsAssumption == MaxIds \in Nat /\ MaxFaults \in Nat /\ MaxRuns \in Nat

Fixed == {"apis", "bucket", "versioning", "account", "roles", "runtimeRoles",
          "firestore", "dataset", "image", "service"}
Names == {"knowledge", "skills", "bank", "engine"}
Kinds == Names \cup {"bankCorpus"}

VARIABLES
  fixed,   \* the resources with fixed names that exist
  made,    \* the resources with generated names that exist: [kind, id]
  used,    \* history: how many names have been generated
  env,     \* env[n]: the name .env holds for n, 0 when empty
  knows,   \* knows[i]: env as engine i was last deployed with it
  program, \* the wizard that runs, or ran last
  at,      \* the step it is at
  held,    \* a generated name the step holds and has not written to .env, 0 if none
  answers, \* the answers of gather_config: [demo, cloudRun]
  warned,  \* history: what this run of setup warned about and went on without
  kept,    \* history: .env has outlived a teardown
  spared,  \* history: generated names a teardown passed over without a failure
  faults, runs

cloudVars == <<fixed, made, used, knows>>
vars == <<fixed, made, used, env, knows, program, at, held, answers, warned, kept, spared,
          faults, runs>>

Ids == 1 .. MaxIds
NoName == [n \in Names |-> 0]
Exists(i) == \E r \in made : r.id = i

(* No wizard is running.                                                   *)
Resting == at \in {"idle", "ready", "torn"}

(* Generated resources that nothing refers to any more.                    *)
Orphans == {r \in made : r.id # held /\ \A n \in Names : env[n] # r.id}

(* A call fails, or the user presses Ctrl-C: counted, bounded.             *)
Fault == faults < MaxFaults /\ faults' = faults + 1

ProjectInit ==
  /\ fixed = {} /\ made = {} /\ used = 0
  /\ env = NoName
  /\ knows = [i \in Ids |-> NoName]
  /\ program = "none" /\ at = "idle" /\ held = 0
  /\ answers = [demo |-> FALSE, cloudRun |-> FALSE]
  /\ warned = {}
  /\ kept = FALSE /\ spared = {}
  /\ faults = 0 /\ runs = 0

(* A wizard is started.                                                    *)
Begin(wizard, step) ==
  /\ Resting
  /\ runs < MaxRuns /\ runs' = runs + 1
  /\ program' = wizard /\ at' = step
=============================================================================

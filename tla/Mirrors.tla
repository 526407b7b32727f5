------------------------------ MODULE Mirrors ------------------------------
(***************************************************************************)
(* Three copies of a truth kept elsewhere: the task records each process   *)
(* mirrors (TaskMetadata), the verified tokens and the signing keys a      *)
(* gateway caches (Credentials).  They do not interact, so a behaviour is  *)
(* one of a single copy, the one named by part.                            *)
(***************************************************************************)
EXTENDS TaskMetadata, Credentials

VARIABLE part

mirrorVars == <<part, vars, credVars>>

MirrorsInit ==
  /\ Init /\ CredInit
  /\ part \in {"records", "tokens", "keys"}

Step(p) == part = p /\ UNCHANGED part

MirrorsNext ==
  \/ Step("records") /\ Next /\ UNCHANGED credVars
  \/ Step("tokens") /\ (TokenNext \/ Tick) /\ UNCHANGED vars
  \/ Step("keys") /\ (KeyNext \/ Tick) /\ UNCHANGED vars

MirrorsSpec == MirrorsInit /\ [][MirrorsNext]_mirrorVars
=============================================================================

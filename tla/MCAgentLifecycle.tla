-------------------------- MODULE MCAgentLifecycle --------------------------
(* Agent names for TLC, and their symmetry.                                *)
EXTENDS AgentLifecycle
NameSymmetry == Permutations(Names)
=============================================================================

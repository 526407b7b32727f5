----------------------------- MODULE MCMirrors -----------------------------
(* When the tokens of Mirrors expire, for TLC.                             *)
EXTENDS Mirrors

CONSTANTS a1, a2, p1, p2, short, long
MCExpiry == [t \in {short, long} |-> IF t = short THEN 1 ELSE 3]
=============================================================================

---------------------------- MODULE MCMemoryBank ----------------------------
(* Who owns which session of MemoryBank, for TLC.                          *)
EXTENDS MemoryBank

CONSTANTS ann, bob, chat1, chat2
MCOwner == [s \in {chat1, chat2} |-> IF s = chat1 THEN ann ELSE bob]
=============================================================================

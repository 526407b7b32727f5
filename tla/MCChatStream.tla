---------------------------- MODULE MCChatStream ----------------------------
(* The bounds of ChatStream are plain numbers and sets: see the cfgs.      *)
EXTENDS ChatStream
=============================================================================

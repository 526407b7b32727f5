------------------------------ MODULE Selection ------------------------------
(***************************************************************************)
(* Three places where the platform selects what a model gets to see: the   *)
(* agents of a task (Synthesis), the instructions of an agent              *)
(* (Instructions), the context of a prompt (Recall).  They share nothing;  *)
(* a behaviour is one of a single one, named by subject.                   *)
(***************************************************************************)
EXTENDS Synthesis, Instructions, Recall

VARIABLE subject

selectionVars == <<subject, synVars, instrVars, recallVars>>

Init ==
  /\ subject \in {"agents", "instructions", "context"}
  /\ InstrInit /\ RecallInit
  /\ IF subject = "agents" THEN SynInit
     ELSE /\ registry = <<>> /\ task = {} /\ pass = 0
          /\ found = [p \in Passes |-> <<>>] /\ agents = [p \in Passes |-> <<>>]

About(s) == subject = s /\ UNCHANGED subject

Next ==
  \/ About("agents") /\ SynNext /\ UNCHANGED <<instrVars, recallVars>>
  \/ About("instructions") /\ ReadLayer /\ UNCHANGED <<synVars, recallVars>>
  \/ About("context") /\ RecallNext /\ UNCHANGED <<synVars, instrVars>>

Spec == Init /\ [][Next]_selectionVars
=============================================================================

---------------------------- MODULE MCTaskStore ----------------------------
(* Tasks and instances of TaskStore for TLC; the tasks are symmetric, the  *)
(* instances are not (NoRunner).                                           *)
EXTENDS TaskStore, TLC
TaskSymmetry == Permutations(Tasks)
============================================================================

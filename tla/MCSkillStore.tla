---------------------------- MODULE MCSkillStore ----------------------------
(* Learners and skills for TLC, and their symmetry.                        *)
EXTENDS SkillStore, TLC
SkillSymmetry == Permutations(Learners) \cup Permutations(Skills)
=============================================================================

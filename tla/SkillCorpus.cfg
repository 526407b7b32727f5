\* Four learners, two skills, searches that may miss.
SPECIFICATION SkillSpec
CONSTANTS
  Learners = {l1, l2, l3, l4}
  Skills = {s1, s2}
  NoSkill = NoSkill
  SearchFinds = FALSE
  Overlap = TRUE
SYMMETRY SkillSymmetry
INVARIANTS
  ReplacedIsArchived
  NoVersionGap
  LearnedIsStored
CHECK_DEADLOCK FALSE

\* Four agents, three slots, three levels; callers keep the naming discipline.
SPECIFICATION Spec
CONSTANTS
  Names = {a, b, c, d}
  NoParent = NoParent
  MaxPerSession = 3
  MaxDepth = 2
  MaxSpawns = 4
  FreshNames = TRUE
  KnownParents = TRUE
SYMMETRY NameSymmetry
INVARIANTS
  ExactSlots
  DepthWithinLimit
  TreeIsComplete
PROPERTIES
  DepthIsStable

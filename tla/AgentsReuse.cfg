\* Names and parents are chosen freely; two slots, four spawns.
SPECIFICATION Spec
CONSTANTS
  Names = {a, b, c}
  NoParent = NoParent
  MaxPerSession = 2
  MaxDepth = 2
  MaxSpawns = 4
  FreshNames = FALSE
  KnownParents = FALSE
SYMMETRY NameSymmetry
INVARIANTS
  SlotPerRunningNode
  LinksFollowBirth

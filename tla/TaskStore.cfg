\* Two tasks, one progress note, an instance with a runner and one without; one
\* executor thread per instance, so the writes of two tasks wait for each other.
SPECIFICATION Spec
CONSTANTS
  Tasks = {t1, t2}
  Instances = {i1, i2}
  NoRunner = {i2}
  MaxNotes = 1
  PoolSize = 1
SYMMETRY TaskSymmetry
INVARIANTS
  EndedMeansStored
  CancelledIsNeverDone
  OnlyCancelEndsOpen
  SeenOutcomeIsTrue
PROPERTIES
  StoreNeverRegresses
  ImplementsLifecycle
\* Every task id of the bound may be used up and its instance gone.
CHECK_DEADLOCK FALSE

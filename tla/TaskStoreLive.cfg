\* Two tasks on one instance compete for its single executor thread.
SPECIFICATION FairSpec
CONSTANTS
  Tasks = {t1, t2}
  Instances = {i1}
  NoRunner = {}
  MaxNotes = 0
  PoolSize = 1
PROPERTY EveryTaskEnds
\* Every task id of the bound may be used up and its instance gone.
CHECK_DEADLOCK FALSE

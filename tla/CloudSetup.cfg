\* Four runs of either wizard, two failures.
SPECIFICATION Spec
CONSTANTS
  MaxIds = 13
  MaxFaults = 2
  MaxRuns = 4
  NumTables = 2
INVARIANTS
  EnvIsTrue
  SetupComplete
  LeftoversAreFaults
  SeedDamageIsBounded
\* The runs of the bound may be used up.
CHECK_DEADLOCK FALSE

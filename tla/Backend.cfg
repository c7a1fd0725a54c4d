\* Users, drift, crashes and lost calls; the ten-hour resync is counted on.
\* The operator may have nothing left to do: no deadlock check.
SPECIFICATION SpecWithResync
CONSTANTS
  None = None
  MaxEdits = 4
  MaxFaults = 2
  Urls = {u1, u2}
INVARIANTS
  StepInv
PROPERTIES
  ReleasedOnlyWhenAbsent
  OnlyMarkedAreOrphaned
  DeletionCompletes
  Converges
CHECK_DEADLOCK FALSE

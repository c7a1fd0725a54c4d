\* Users, drift, crashes and lost calls; one version whose path is edited.
\* The operator may have nothing left to do: no deadlock check.
SPECIFICATION Spec
CONSTANTS
  None = None
  MaxEdits = 3
  MaxFaults = 1
  a = a
  b = b
  f1 = f1
  p1 = p1
  Names = {a}
  Paths = {x1, x2}
  Fields = {f1}
  Policies = {p1}
  Lists <- OneVersion
  VersionStatuses = {"", "Succeeded"}
INVARIANTS
  IndInv
  OwnedInv
PROPERTIES
  ManagesTheVersionSet
  Converges
  NothingRemains
  DeletionFollows
  UsesVersions
  BornToHeldApi
CHECK_DEADLOCK FALSE

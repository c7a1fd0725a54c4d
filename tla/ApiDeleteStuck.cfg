\* Create and delete, without faults.
SPECIFICATION Spec
CONSTANTS
  None = None
  MaxEdits = 2
  MaxFaults = 0
  a = a
  b = b
  f1 = f1
  p1 = p1
  Names = {a}
  Paths = {x1}
  Fields = {f1}
  Policies = {p1}
  Lists <- OneVersion
  VersionStatuses = {"", "Succeeded"}
PROPERTIES
  DeletionCompletes
CHECK_DEADLOCK FALSE

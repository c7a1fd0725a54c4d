\* Two versions without a policy, or one, are created, without faults.
SPECIFICATION Spec
CONSTANTS
  None = None
  MaxEdits = 1
  MaxFaults = 0
  a = a
  b = b
  f1 = f1
  p1 = p1
  Names = {a, b}
  Paths = {x1}
  Fields = {f1}
  Policies = {None}
  Lists <- NoPolicy
  VersionStatuses = {"", "Succeeded"}
PROPERTIES
  Converges
CHECK_DEADLOCK FALSE

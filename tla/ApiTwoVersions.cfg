\* Two versions are created, or one, with two faults in between; imports are
\* repeated.  The operator may have nothing left to do: no deadlock check.
SPECIFICATION Spec
CONSTANTS
  None = None
  MaxEdits = 1
  MaxFaults = 2
  a = a
  b = b
  f1 = f1
  p1 = p1
  Names = {a, b}
  Paths = {x1}
  Fields = {f1}
  Policies = {p1}
  Lists <- OneOrTwo
  VersionStatuses = {"", "Provisioning", "Succeeded"}
PROPERTIES
  Converges
CHECK_DEADLOCK FALSE

\* Create and delete, without faults.
SPECIFICATION Spec
CONSTANTS
  None = None
  MaxEdits = 2
  MaxFaults = 0
  Urls = {u1}
INVARIANTS
  NoOrphan
CHECK_DEADLOCK FALSE

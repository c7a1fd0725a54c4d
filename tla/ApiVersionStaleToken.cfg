\* One edit while the import of the previous content is tracked.
SPECIFICATION Spec
CONSTANTS
  None = None
  d1 = d1
  l1 = l1
  p1 = p1
  p2 = p2
  MaxEdits = 2
  MaxFaults = 0
  page = page
  Documents = {d1, d2}
  Links = {}
  Policies = {p1}
  ErrorPages = {}
  Choices <- Complete
  Tokens = {t1, t2, t3}
  InProgressCodes = {200}
  EditsWhileTracked = TRUE
  Reverts = FALSE
  FetchesFail = FALSE
  ImportsMayFail = FALSE
  RefusesDuringImport = TRUE
PROPERTIES
  RecordedShaIsImported
CHECK_DEADLOCK FALSE

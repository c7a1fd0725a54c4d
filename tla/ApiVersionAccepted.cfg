\* Azure answers 202 while it imports the only document ever given.
SPECIFICATION Spec
CONSTANTS
  None = None
  d1 = d1
  l1 = l1
  p1 = p1
  p2 = p2
  MaxEdits = 1
  MaxFaults = 0
  page = page
  Documents = {d1}
  Links = {}
  Policies = {p1}
  ErrorPages = {}
  Choices <- Complete
  Tokens = {t1, t2, t3}
  InProgressCodes = {202}
  EditsWhileTracked = FALSE
  Reverts = FALSE
  FetchesFail = FALSE
  ImportsMayFail = FALSE
  RefusesDuringImport = TRUE
PROPERTIES
  Converges
CHECK_DEADLOCK FALSE

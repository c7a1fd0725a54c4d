\* Two edits, the second back to the content recorded as applied.
SPECIFICATION Spec
CONSTANTS
  None = None
  d1 = d1
  l1 = l1
  p1 = p1
  p2 = p2
  MaxEdits = 3
  MaxFaults = 0
  page = page
  Documents = {d1, d2}
  Links = {}
  Policies = {p1}
  ErrorPages = {}
  Choices <- Complete
  Tokens = {t1, t2, t3}
  InProgressCodes = {200}
  EditsWhileTracked = FALSE
  Reverts = TRUE
  FetchesFail = FALSE
  ImportsMayFail = FALSE
  RefusesDuringImport = TRUE
PROPERTIES
  Converges
CHECK_DEADLOCK FALSE

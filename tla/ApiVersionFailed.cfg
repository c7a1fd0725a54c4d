\* Azure rejects a document, or not, after its token was recorded.
SPECIFICATION Spec
CONSTANTS
  None = None
  d1 = d1
  l1 = l1
  p1 = p1
  p2 = p2
  MaxEdits = 1
  MaxFaults = 0
  page = page
  Documents = {d1}
  Links = {}
  Policies = {p1}
  ErrorPages = {}
  Choices <- Complete
  Tokens = {t1, t2, t3}
  InProgressCodes = {200}
  EditsWhileTracked = FALSE
  Reverts = FALSE
  FetchesFail = FALSE
  ImportsMayFail = TRUE
  RefusesDuringImport = TRUE
PROPERTIES
  ImportEndIsReported
CHECK_DEADLOCK FALSE

\* Users do not edit while a token is recorded (see ApiVersionStaleToken), nor
\* go back to what is recorded as applied (see ApiVersionRevert).
\* The operator may have nothing left to do: no deadlock check.
SPECIFICATION Spec
CONSTANTS
  None = None
  d1 = d1
  l1 = l1
  p1 = p1
  p2 = p2
  MaxEdits = 3
  MaxFaults = 1
  page = page
  Documents = {d1, d2}
  Links = {l1}
  Policies = {p1, p2}
  ErrorPages = {page}
  Choices <- Linked
  Tokens = {t1, t2}
  InProgressCodes = {200}
  EditsWhileTracked = FALSE
  Reverts = FALSE
  FetchesFail = FALSE
  ImportsMayFail = FALSE
  RefusesDuringImport = FALSE
INVARIANTS
  ImportInv
PROPERTIES
  RecordedShaIsImported
  RecordedPolicyIsApplied
  Converges
  DeletionCompletes
  ProgressesAsPromised
CHECK_DEADLOCK FALSE

\* Everything may go wrong: links, rejected imports, edits at any time, a
\* crash or another fault.
\* The operator may have nothing left to do: no deadlock check.
SPECIFICATION Spec
CONSTANTS
  None = None
  d1 = d1
  l1 = l1
  p1 = p1
  p2 = p2
  MaxEdits = 3
  MaxFaults = 1
  page = page
  Documents = {d1, d2}
  Links = {l1}
  Policies = {p1, None}
  ErrorPages = {page}
  Choices <- Lacking
  Tokens = {t1, t2, t3}
  InProgressCodes = {200, 202}
  EditsWhileTracked = TRUE
  Reverts = TRUE
  FetchesFail = TRUE
  ImportsMayFail = TRUE
  RefusesDuringImport = TRUE
SYMMETRY Symmetry
INVARIANTS
  TypeOK
  NoOrphan
  IndInv
PROPERTIES
  ManagesTheApi
  LivesAsPromised
CHECK_DEADLOCK FALSE

\* A second run of the garbage collection.
CONSTANTS
  c1 = c1
  c2 = c2
  Conn = {c1, c2}
  Store = Store
  None = None
  StateStore = TRUE
  RollbackOnClose = {FALSE}
  PreparedStatements = FALSE
  Local = {c1}
  MayTimeOut = FALSE
  MaxRuns = 2
SPECIFICATION GcSpec
CHECK_DEADLOCK FALSE
PROPERTY RecordedCommitStands

\* A commit fails before any server has committed.
CONSTANTS
  c1 = c1
  c2 = c2
  Conn = {c1, c2}
  Store = Store
  None = None
  StateStore = FALSE
  RollbackOnClose = {TRUE}
  PreparedStatements = FALSE
SPECIFICATION Spec
CHECK_DEADLOCK FALSE
INVARIANT FailureRollsBack

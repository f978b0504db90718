\* One participant, a transaction that times out while its client is at work; two runs.
CONSTANTS
  c1 = c1
  Conn = {c1}
  Store = Store
  None = None
  StateStore = TRUE
  RollbackOnClose = {FALSE}
  PreparedStatements = FALSE
  Local = {c1}
  MayTimeOut = TRUE
  MaxRuns = 2
SPECIFICATION GcFairSpec
CHECK_DEADLOCK FALSE
INVARIANTS
  GcTypeOK
  SuccessIsSettled
PROPERTY CollectionEnds

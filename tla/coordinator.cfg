\* Two connections and a state store; an open transaction is rolled back by close(), or not.
CONSTANTS
  c1 = c1
  c2 = c2
  Conn = {c1, c2}
  Store = Store
  None = None
  StateStore = TRUE
  RollbackOnClose = {TRUE, FALSE}
  PreparedStatements = FALSE
SPECIFICATION FairSpec
\* The application may end its process.
CHECK_DEADLOCK FALSE
INVARIANTS
  TypeOK
  AllOrNothing
  AnswerIsTrue
  StoreNeverAhead
  Inv
PROPERTIES
  DecisionStands
  ImplementsAtomicCommit
  CallReturns

\* Bounds: a master and a slave, 2 values, 2 calls, 1 retry.
SPECIFICATION Spec
CONSTANTS
  m1 = m1
  s1 = s1
  Element = {m1, s1}
  Masters <- MCMasters
  Slaves <- MCSlaves
  FabricAnswers <- MCFabricAnswers
  x = x
  y = y
  Section <- MCSection
  Given <- MCGiven
  Value = {x, y}
  Initial = x
  None = None
  MaxRetries = 1
  MaxCalls = 2
INVARIANTS
  TypeOK
  Agree
  ParticipantsReferenced
  RetryBounded
PROPERTIES
  CallReturns
\* The session commands are used up and every connection is lost.
CHECK_DEADLOCK FALSE

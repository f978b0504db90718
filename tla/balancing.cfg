SPECIFICATION Spec
CONSTANTS
  Null = Null
  m1 = m1
  m2 = m2
  s1 = s1
  s2 = s2
  s3 = s3
  Servers = {m1, m2, s1, s2, s3}
  Weight <- WeightValue
  Settings <- SettingsValue
  MaxCalls = 3
  MaxChanges = 1
INVARIANTS
  TypeOK
  AllAlternativesTested
  AttemptsBounded
  FairTurns
CHECK_DEADLOCK FALSE

SPECIFICATION Spec
CONSTANTS
  m1 = m1
  m2 = m2
  s1 = s1
  None = None
  Masters <- MastersValue
  Slaves <- SlavesValue
  Settings <- SettingsValue
  Faults = {"connect", "begin", "commit", "autocommit", "lost"}
  Discipline = {"flat", "nonempty", "reopen", "revealed"}
INVARIANTS
  TypeOK
  OneServer
  CanBeUndone
  NothingLeftOpen
  WritesOnMaster
PROPERTIES
  EndedByApplication
CHECK_DEADLOCK FALSE

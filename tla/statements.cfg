SPECIFICATION Spec
CONSTANTS
  m1 = m1
  s1 = s1
  s2 = s2
  None = None
  Proxy = m1
  Master <- MasterValue
  Slave <- SlaveValue
  Settings <- SettingsValue
  Group = {"g"}
  Texts <- TextsValue
  Answers <- AnswersValue
  Faults = {"error", "transient", "inject"}
  Discipline = {"keep", "prepare", "prepared_write", "last_used", "rollback", "flat"}
INVARIANTS
  TypeOK
  ReadYourWrites
  PartitionKept
  InTransaction
  ExecutedOnce
CHECK_DEADLOCK FALSE

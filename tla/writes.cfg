\* Bounds: see MCWrites: up to 3 clients, 2 masters, at most 5 writes.
SPECIFICATION Spec
CONSTANTS
  c1 = c1
  c2 = c2
  c3 = c3
  Client = {c1, c2, c3}
  Master = {m1, m2}
  NoHost = NoHost
  Proxy = m1
  Causal = TRUE
  Settings <- SettingsValue
INVARIANTS
  TypeOK
  SameMaster
  AnnouncedWhileRunning
  TokensDiffer
PROPERTIES
  ImplementsSerialWrites
\* The writes are used up, or every client is gone.
CHECK_DEADLOCK FALSE

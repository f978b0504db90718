SPECIFICATION Spec
CONSTANTS
  t1 = t1
  t2 = t2
  Null = Null
  Threads = {t1, t2}
  Files <- FilesValue
  HostTree <- HostTreeValue
  HostFile <- HostFileValue
  Hosts <- HostsValue
  Envs <- EnvsValue
  Credentials <- CredentialsValue
  Placeholders <- PlaceholdersValue
  Charsets = {"utf8"}
  MaxConnects = 3
  MaxChanges = 1
  Discipline = {"quiet"}
INVARIANTS
  TypeOK
  AsConfigured
  AsListed
SYMMETRY Symmetry
CHECK_DEADLOCK FALSE

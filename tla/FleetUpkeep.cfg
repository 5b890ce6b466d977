SPECIFICATION Spec
CONSTANTS
  h1 = h1
  h2 = h2
  i1 = i1
  i2 = i2
  o1 = o1
  o2 = o2
  NoName = NoName
  Hosts <- TwoHosts
  MaxFaults = 1
  MaxEdits = 1
  SyncConcurrency = 1
  HostNames <- TwoHosts
  RecordIds = {1, 2}
  Importers <- TwoImporters
  Operators <- TwoOperators
  Deleters <- EveryDeletion
  Creators = {1}
  MaxLogs = 2
  MaxWrites = 4
  Enders = {"button", "beacon"}
  Retries = 1
  MaxReloads = 3
INVARIANTS
  FleetUpkeepTypeOK
  SyncAlone
  NamesUnique
  PauseFollowsImports
  JobsFollowDeletions
  TrailKept
  NewestShown
PROPERTIES
  SyncsReachAll
  MonitorAlwaysBack
  SpinnerStops
  LoadingEnds
CHECK_DEADLOCK FALSE

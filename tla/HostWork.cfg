SPECIFICATION Spec
CONSTANTS
  h1 = h1
  h2 = h2
  h3 = h3
  Hosts <- ThreeHosts
  MaxFaults = 1
  MaxEdits = 1
  MaxSweeps = 2
  PoolWidth = 2
  Watched = h3
  VmList <- ThreeInOrder
  RootList <- RscdThenNsh
  StartHosts <- FoundHosts
  MaxPolls = 1
  InstallJobs = {"j1", "j2"}
  RemovalJobs = {"j3"}
  Chunks = 2
INVARIANTS
  HostWorkTypeOK
  SweepsAccountedFor
  
  SuccessMeansClean
  StagedIsPackage
PROPERTIES
  HostWorkEnds
CHECK_DEADLOCK FALSE

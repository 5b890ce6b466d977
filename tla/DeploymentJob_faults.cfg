SPECIFICATION Spec
CONSTANTS
  e1 = e1
  e2 = e2
  e3 = e3
  j1 = j1
  j2 = j2
  Jobs <- OneJob
  Endpoints <- ThreeEndpoints
  EnvironmentOf <- AllRnd
  Bodies <- UninstallAll
  RndConcurrency = 2
  ProdConcurrency = 1
  MaxSteps = 0
  MaxFaults = 2
  MayCrash = TRUE
SYMMETRY EndpointSymmetry
INVARIANTS
  JobInv
  CompletedIsQuiet
  OneFaultNeverStrands
PROPERTIES
  PoolsKeepContract
CHECK_DEADLOCK FALSE

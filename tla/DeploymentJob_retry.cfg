SPECIFICATION Spec
CONSTANTS
  e1 = e1
  e2 = e2
  e3 = e3
  j1 = j1
  j2 = j2
  Jobs <- TwoJobs
  Endpoints <- TwoEndpoints
  EnvironmentOf <- AllRnd
  Bodies <- InstallAll
  RndConcurrency = 1
  ProdConcurrency = 1
  MaxSteps = 1
  MaxFaults = 0
  MayCrash = FALSE
SYMMETRY EndpointSymmetry
CONSTRAINT SecondIsRetry
INVARIANTS
  RetryRepeatsOnlyFailures
CHECK_DEADLOCK FALSE

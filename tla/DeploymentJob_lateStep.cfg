SPECIFICATION Spec
CONSTANTS
  e1 = e1
  e2 = e2
  e3 = e3
  j1 = j1
  j2 = j2
  Jobs <- OneJob
  Endpoints <- TwoEndpoints
  EnvironmentOf <- AllRnd
  Bodies <- UninstallAll
  RndConcurrency = 2
  ProdConcurrency = 1
  MaxSteps = 1
  MaxFaults = 0
  MayCrash = FALSE
INVARIANTS
  FailedIsRetryable
CHECK_DEADLOCK FALSE

SPECIFICATION Spec
CONSTANTS
  Hosts = {"h1"}
  MaxFaults = 1
  MaxEdits = 1
  Callers = {"check", "sync"}
  Answers = {"auth_failed"}
  Encrypted = FALSE
  ExecTimeout = 6
  ProbeTimeout = 9
  ResolveMax = 4
  Installed = {"new"}
INVARIANTS
  FilterSparesNewer
CHECK_DEADLOCK FALSE

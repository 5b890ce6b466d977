SPECIFICATION Spec
CONSTANTS
  Hosts = {"h1"}
  MaxFaults = 1
  MaxEdits = 1
  Callers = {"check", "sync"}
  Answers = {"auth_failed"}
  Encrypted = FALSE
  ExecTimeout = 6
  ProbeTimeout = 9
  ResolveMax = 8
  Installed = {"new"}
INVARIANTS
  HostAccessTypeOK
  SessionFollowsRecord
  ExecVerdictArrives
PROPERTIES
  OutagesEnd
  CallSettles
  RecordComesBack
CHECK_DEADLOCK FALSE

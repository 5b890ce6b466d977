SPECIFICATION LiveSpec
CONSTANTS
  h1 = h1
  h2 = h2
  h3 = h3
  Hosts <- ThreeHosts
  MaxConcurrent = 1
  MaxNoted = 1
  MaxRestarts = 1
INVARIANTS
  QueueInv
  AtMostLimit
PROPERTIES
  FirstComeFirstServed
  QueuedIsStarted
  NeedyIsProbed

SPECIFICATION FairSpec
CONSTANTS
  Lengths <- SomeLengths
  Concurrencies <- SomeConcurrencies
PROPERTIES
  ImplementsContract
  AlwaysSettles
  SurvivorsDrain
CHECK_DEADLOCK FALSE

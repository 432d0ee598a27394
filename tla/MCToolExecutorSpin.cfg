SPECIFICATION FairSpec
CONSTANTS
  Kinds <- AllKinds
  MaxTools = 2
  Extras = {}
  Aborts = {"user", "interrupt"}
PROPERTIES
  DrainReturns
CHECK_DEADLOCK FALSE

SPECIFICATION FairLockSpec
CONSTANTS
  Processes = {"p1", "p2", "p3"}
  Ghosts = {"ghost"}
  SessionOf <- MCSessions
INVARIANTS
  OwnersNeedRace
PROPERTIES
  SchedulerServed
CHECK_DEADLOCK FALSE

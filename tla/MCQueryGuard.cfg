SPECIFICATION FairSpec
CONSTANTS
  IdleTimeout = 2
  HardMax = 4
  LeaseGrace = 1
  LeaseTimeouts <- MCLeaseTimeouts
  LeaseCaps <- MCLeaseCaps
  TimerLag = 1
  TimerEarly = 1
  MaxTime = 8
  MaxGeneration = 5
  MaxLeases = 2
INVARIANTS WatchdogArmed LeasesBelongToQuery HardMaxRespected SettledOnce
PROPERTIES SessionSpec WatchdogEndsQuery

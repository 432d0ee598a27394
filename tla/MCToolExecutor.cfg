SPECIFICATION FairSpec
CONSTANTS
  Kinds <- ThreeKinds
  MaxTools = 2
  Extras = {"progress", "hooks"}
  Aborts = {"user", "interrupt"}
INVARIANTS
  Exclusive
  ContextInOrder
  Answered
  DrainedCompletely
  NobodyForgotten
PROPERTIES
  FailedAnsweredOnce
  DrainOfKnownReturns
  NeverStranded
CHECK_DEADLOCK FALSE

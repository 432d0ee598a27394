SPECIFICATION Spec
CONSTANTS
  Kinds <- SomeKinds
  MaxTools = 2
  Extras = {}
  Aborts = {"user", "interrupt"}
INVARIANTS RejectionEndsTurn
CHECK_DEADLOCK FALSE

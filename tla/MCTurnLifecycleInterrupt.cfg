SPECIFICATION Spec
CONSTANTS
  t1 = t1
  t2 = t2
  t3 = t3
  Turns <- MCTurns
  UserCommands <- MCUserCommands
  OtherCommands <- MCNoCommands
  TeammateMessages <- MCNoCommands
  EagerEffects = FALSE
  MaxInterrupts = 1
  MaxGeneration = 9
CHECK_DEADLOCK FALSE
INVARIANT AlwaysInterruptible

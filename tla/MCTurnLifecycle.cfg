SPECIFICATION Spec
CONSTANTS
  t1 = t1
  t2 = t2
  t3 = t3
  Turns <- MCTurns
  UserCommands <- MCShellAndSlash
  OtherCommands <- MCUrgentCommands
  TeammateMessages <- MCTeammateMessages
  EagerEffects = TRUE
  MaxInterrupts = 1
  MaxGeneration = 9
SYMMETRY MCSymmetry
CHECK_DEADLOCK FALSE
INVARIANTS ActiveHasTurn CommandsAccounted

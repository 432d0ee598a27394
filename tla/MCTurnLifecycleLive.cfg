SPECIFICATION FairSpec
CONSTANTS
  t1 = t1
  t2 = t2
  t3 = t3
  Turns <- MCTurns
  UserCommands <- MCTwoPrompts
  OtherCommands <- MCNoticeOnly
  TeammateMessages <- MCTeammateMessages
  EagerEffects = FALSE
  MaxInterrupts = 1
  MaxGeneration = 9
CHECK_DEADLOCK FALSE
INVARIANTS OneExecution FirstInterruptReaches LosersAborted DeliveredOnce
PROPERTY QueueServed

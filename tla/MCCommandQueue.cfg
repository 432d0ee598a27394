SPECIFICATION Spec
CONSTANTS
  a1 = "a1"
  main1 = main1
  main2 = main2
  run1 = run1
  run2 = run2
  Kinds <- MCKinds
  Agents <- MCAgents
  Loops <- MCLoops
  Addressee <- MCAddressee
  MaxPushes = 3
SYMMETRY Slots
CHECK_DEADLOCK FALSE
INVARIANTS ReadOnce NothingLost ArrivalOrderKept NeverStalls
PROPERTY MostUrgentGoes

SPECIFICATION FairSpec
CONSTANTS
  Queries <- MCQueries
  MaxTurns = 2
  RecoveryLimit = 1
  NudgeLimit = 1
  Escalated = 2
  Caps = {1}
  MaxUses = 2
INVARIANTS
  RequestsPaired
  TranscriptAnswered
  WithheldSurfaces
  NeverResentUnchanged
PROPERTIES
  QueryReturns
CHECK_DEADLOCK FALSE

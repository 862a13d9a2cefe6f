SPECIFICATION FairSpec
CONSTANTS
  MaxIterations = 2
  MaxEmpty = 1
  MaxStreamErrors = 1
  MaxTruncations = 2
  MaxGrace = 1
  MaxHalvings = 1
  MaxTurns = 2
INVARIANTS
  TypeOK
  GivesUpForReason
  DowngradeIsTracked
  AnswerOnce
  HandoffEnds
PROPERTIES
  TurnEnds
CHECK_DEADLOCK FALSE

SPECIFICATION FairSpec
CONSTANTS
  MaxTurns = 1
  MaxSteps = 2
  MaxCalls = 2
  MaxCorrections = 1
  MaxFollowUps = 1
  SlowOpening = TRUE
  Identified = {TRUE}
CHECK_DEADLOCK FALSE
INVARIANTS TurnSound
PROPERTIES TurnEnds

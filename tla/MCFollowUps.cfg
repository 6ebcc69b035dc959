\* Three inputs while saves land, two where anything may fail.
SPECIFICATION FairSpec
CONSTANTS
  MaxSteps = 2
  Worlds <- All
INVARIANTS MildInputsKept DeliveredOnce
PROPERTIES MildPromptReturns EveryInputSettles ShutdownCompletes
CHECK_DEADLOCK FALSE

\* Two commands, three bytes each: one character and half of another.
SPECIFICATION FairSpec
CONSTANTS
  Cmds = {c1, c2}
  MaxJobs = 1
  Busy = {c1}
  MaxBytes = 3
  BufferLimit = 1
  Promotes = TRUE
  Escapes = FALSE
INVARIANTS JobsSound
PROPERTIES CallReturns
CHECK_DEADLOCK FALSE

\* Two tasks at a time want the screen; three lines, one barrier and one
\* refused write.
SPECIFICATION TerminalSpec
CONSTANTS
  Crowded = FALSE
  MaxSteps = 3
  MaxLines = 3
  MaxBarriers = 1
  MaxFailures = 1
INVARIANTS TerminalSound ScrollbackSound
CHECK_DEADLOCK FALSE

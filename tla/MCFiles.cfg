\* Edits: one file of up to two lines, a view, a change by another program, two edits.  The index:
\* two files, two writes, a command, a cancellation and an error.  The menu: two files, two queries.
SPECIFICATION FilesSpec
CONSTANTS
  Texts = {x, y}
  Text = x
  MaxLen = 2
  MaxViews = 2
  MaxChanges = 1
  MaxEdits = 2
  MaxDrift = 1
  Context = 0
  DirectFirst = FALSE
  Races = FALSE
  Paths = {a, b}
  AUTO_UPDATE_LIMIT = 1
  MaxWrites = 2
  MaxCommands = 1
  MaxCancels = 1
  MaxErrors = 1
  Files = {"a", "b"}
  Queries = {"q1", "q2"}
  Hits <- MCHits
  MaxScanned = 1
  MaxTyped = 3
  MaxScans = 2
  MaxPicks = 1
  MaxFails = 1
INVARIANTS PlansSound IndexSound MentionsSound
PROPERTIES WritesSound LatestAnswered
CHECK_DEADLOCK FALSE

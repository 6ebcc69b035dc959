\* A failed stream leaves its marker to the next response.
SPECIFICATION ModelSpec
CONSTANTS
  Subjects = {"stream"}
  Shapes <- MCShapes
  Habits = {"indexed", "ids", "first id", "together"}
  Overlapping = FALSE
  MaxRequests = 2
  MaxFailures = 1
  Budget = 8
  Recent = 2
  MinRecent = 1
  MaxSegments = 1
  MaxRecords = 2
  Big = 4
  MaxBig = 2
  Drops = FALSE
  MaxMessages = 7
  Providers <- MCProviders
  ChatOpaque = FALSE
  Restarting = FALSE
  MaxReplayed = 6
  ProviderNames = {"a", "b"}
  Models <- MCModels
  Apis = {"auto", "chat"}
  EffortOrder <- MCOrder
  Scale <- MCScale
  Declared <- MCDeclared
  Mandatory <- MCMandatory
  Files <- MCFiles
  MaxSwitches = 3
  DiffCap = 4
  MaxSends = 3
  MaxEdits = 3
  MaxMishaps = 2
INVARIANTS NeverSuppressed
\* Every bound on requests, failures and messages ends a behaviour.
CHECK_DEADLOCK FALSE

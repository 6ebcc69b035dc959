\* Streams: two requests, one of which may break once.  The context: seven messages, two of them
\* large, and two retained results.  The wire: six messages.  The choice of a worker's model: three switches.  The worker: three
\* delegations, three edits and two mishaps.
SPECIFICATION ModelSpec
CONSTANTS
  Subjects = {"stream", "context", "wire", "choice", "worker"}
  Shapes <- MCShapes
  Habits = {"indexed", "ids", "first id", "together"}
  Overlapping = FALSE
  MaxRequests = 2
  MaxFailures = 1
  Budget = 8
  Recent = 2
  MinRecent = 1
  MaxSegments = 1
  MaxRecords = 2
  Big = 4
  MaxBig = 2
  Drops = FALSE
  MaxMessages = 7
  Providers <- MCProviders
  ChatOpaque = FALSE
  Restarting = FALSE
  MaxReplayed = 6
  ProviderNames = {"a", "b"}
  Models <- MCModels
  Apis = {"auto", "chat"}
  EffortOrder <- MCOrder
  Scale <- MCScale
  Declared <- MCDeclared
  Mandatory <- MCMandatory
  Files <- MCFiles
  MaxSwitches = 3
  DiffCap = 4
  MaxSends = 3
  MaxEdits = 3
  MaxMishaps = 2
INVARIANTS StreamSound ContextKept ReplaySound SwitchesKept DelegationSound
PROPERTIES NeverAgain
\* Every bound on requests, failures and messages ends a behaviour.
CHECK_DEADLOCK FALSE

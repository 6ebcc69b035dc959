\* Every batch of up to three calls, with a script of one nested request and two cancellations.
SPECIFICATION FairSpec
CONSTANTS
  Kinds = {"read", "search", "remote", "edit", "ask", "bash", "view", "script", "echo"}
  MaxCalls = 3
  Capacity = 2
  MaxRequests = 1
  MaxCancels = 2
INVARIANTS BatchSound WritesAlone
PROPERTIES CancelEnds
\* A batch that returned or raised has nothing left to do.
CHECK_DEADLOCK FALSE

\* One retry, two resends, two cancellations, on a route that takes images or is known not to,
\* with and without a provider that describes them.
SPECIFICATION FairSpec
CONSTANTS
  MaxRetries = 1
  MaxResends = 2
  MaxCancels = 2
  Routes = {TRUE, FALSE}
  Visions = {TRUE, FALSE}
INVARIANTS AttemptsAccounted DescriptionsKept
PROPERTIES RequestEnds
\* A request that ended has nothing left to do.
CHECK_DEADLOCK FALSE

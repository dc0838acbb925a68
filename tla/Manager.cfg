SPECIFICATION FairSpec
CONSTANTS
  first = first
  second = second
  BTC = BTC
  None = None
  Services <- TwoStarts
  OwnerStopsFeed = TRUE
  Wanted <- TradesOnly
  MAXFAILURES = 1
  MINBACKOFF = 1
  MAXBACKOFF = 1
  DEGRADED = 300
  RETRIES = 1
  WIDTH = 1
INVARIANTS
  CleanRestarts
PROPERTIES
  StopReturnsIfQuiet

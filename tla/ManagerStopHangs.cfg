SPECIFICATION FairSpec
CONSTANTS
  first = first
  second = second
  BTC = BTC
  None = None
  Services <- OneStart
  OwnerStopsFeed = FALSE
  Wanted <- TradesOnly
  MAXFAILURES = 1
  MINBACKOFF = 1
  MAXBACKOFF = 1
  DEGRADED = 300
  RETRIES = 1
  WIDTH = 1
PROPERTY StopReturns

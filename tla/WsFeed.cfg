SPECIFICATION FairSpec
CONSTANTS
  service = service
  BTC = BTC
  Services <- OneService
  Wanted <- TradesAndBook
  MAXFAILURES = 2
  MINBACKOFF = 2
  MAXBACKOFF = 6
  DEGRADED = 300
  RETRIES = 2
  WIDTH = 4
INVARIANTS
  SubscriptionsTracked
  WaitsAsConfigured
PROPERTIES
  LoopGoesOn

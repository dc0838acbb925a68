SPECIFICATION FairSpec
CONSTANTS
  Callers = {poller, looper, submitter}
  Pollers = {poller}
  Loopers = {looper}
  THRESHOLD = 2
  COOLDOWN = 2
  ATTEMPTS = 2
INVARIANTS
  TypeOK
  NoFalseTrip
PROPERTIES
  Recovers

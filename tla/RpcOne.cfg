SPECIFICATION FairSpec
CONSTANTS
  Callers = {looper}
  Pollers = {}
  Loopers = {looper}
  THRESHOLD = 3
  COOLDOWN = 2
  ATTEMPTS = 2
INVARIANTS
  CooldownRespected
  NoSuccessWhileOpen
PROPERTIES
  ImplementsBreaker

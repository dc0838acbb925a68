SPECIFICATION SigningSpec
CONSTANTS
  builder = builder
  signer = signer
  hot = hot
  cold = cold
  other = other
  Signers <- TwoTasks
  Wallets <- ThreeWallets
  OwnWallets <- Separate
  DefaultUsers <- Builders
  FirstDefault = hot
  Plans <- StrategyPlans
  Resets <- ResetBack
  MaxNonce = 2
INVARIANTS
  TypeOK
  NoNonceCollision
  TrackerCoversSigned
  BundleSequenced

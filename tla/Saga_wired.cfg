SPECIFICATION FairSpec
CONSTANTS
  Caller = {c1, c2}
  Goroutine = {g1, g2}
  Wallet = {2}
  InitWallets = {2}
  RetryBudget = 5
  Ticker = "never"
  MaxCrashes = 2
  MaxUnheard = 0
  MaxLost = 1
  NoWallet = NoWallet
INVARIANTS
  SagaTypeOK
  LegsInOrder
  PaidOrRefunded
  StatusTruthful
  OneChain
  HeldIsReported
PROPERTIES
  KeepsPromise
  UndisturbedEnds

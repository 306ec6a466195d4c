SPECIFICATION FairSpec
CONSTANTS
  Caller = {c1}
  Goroutine = {g1, g2, g3}
  Wallet = {2}
  InitWallets = {}
  RetryBudget = 2
  Ticker = "alone"
  MaxCrashes = 1
  MaxUnheard = 1
  MaxLost = 1
  NoWallet = NoWallet
PROPERTIES
  TransferResolves

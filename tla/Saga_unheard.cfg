SPECIFICATION Spec
CONSTANTS
  Caller = {c1}
  Goroutine = {g1, g2}
  Wallet = {2}
  InitWallets = {2}
  RetryBudget = 5
  Ticker = "never"
  MaxCrashes = 0
  MaxUnheard = 1
  MaxLost = 0
  NoWallet = NoWallet
SYMMETRY Symmetry
INVARIANT StatusTruthful

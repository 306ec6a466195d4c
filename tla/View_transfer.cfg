SPECIFICATION ViewSpec
CONSTANTS
  Caller = {c1, c2}
  Goroutine = {g1, g2}
  Wallet = {2}
  InitWallets = {2}
  RetryBudget = 2
  Ticker = "never"
  MaxCrashes = 1
  MaxUnheard = 0
  MaxLost = 1
  NoWallet = NoWallet
SYMMETRY Symmetry
INVARIANTS ViewConsistent ViewsNeverTurnBack

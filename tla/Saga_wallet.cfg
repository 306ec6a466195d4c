SPECIFICATION Spec
CONSTANTS
  Caller = {c1}
  Goroutine = {g1, g2}
  Wallet = {1, 2}
  InitWallets = {2}
  RetryBudget = 5
  Ticker = "never"
  MaxCrashes = 0
  MaxUnheard = 0
  MaxLost = 0
  NoWallet = NoWallet
SYMMETRY Symmetry
INVARIANT RefundReachesPayer

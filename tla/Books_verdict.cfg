SPECIFICATION BooksSpec
CONSTANTS
  t1 = t1
  t2 = t2
  t3 = t3
  k1 = k1
  k2 = k2
  None = None
  AllTenants = AllTenants
  Request = {r1, r2}
  Tenant = {t1, t2, t3}
  Provisioned = {t1, t2}
  AccountId = {1, 2}
  Key = {k1, k2}
  Command <- BooksCommands
  MaxInt <- MCMaxInt
  PoolSize = 3
  InitKind <- MCInitKind
  InitBalance <- MCInitBalance
  AlterDelta <- MCAlterDelta
  MaxTampers = 1
SYMMETRY Symmetry
INVARIANTS
  BooksTypeOK
  BooksTie
PROPERTY
  QuietVerdictExact
  AlteredWalletFrozen

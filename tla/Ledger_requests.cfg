SPECIFICATION Spec
CONSTANTS
  t1 = t1
  t2 = t2
  k1 = k1
  k2 = k2
  None = None
  Request = {r1, r2, r3}
  Tenant = {t1, t2}
  AccountId = {1, 2, 3}
  Key = {k1, k2}
  Command <- RequestCommands
  MaxInt <- MCMaxInt
  PoolSize = 4
  InitKind <- MCInitKind
  InitBalance <- MCInitBalance
SYMMETRY Symmetry
INVARIANTS
  TypeOK
  WalletsNeverNegative
  KeyedExactlyOnce
  LoserFindsWinner
  AnswersTruthful
PROPERTY
  RequestsAreAtomic

SPECIFICATION StatementsSpec
CONSTANTS
  t1 = t1
  t2 = t2
  k1 = k1
  k2 = k2
  None = None
  Operator = Operator
  NoTenant = NoTenant
  Request = {r1, r2, r3}
  Tenant = {t1, t2}
  AccountId = {1, 2, 3}
  Key = {k1, k2}
  Command <- StatementCommands
  MaxInt <- MCMaxInt
  PoolSize = 5
  InitKind <- MCInitKind
  InitBalance <- MCInitBalance
  Call <- StatementCalls
  ClockError = 0
SYMMETRY Symmetry
INVARIANTS
  StatementsTypeOK
  StatementExplainsBalance
  TenantsReadTheirOwn
PROPERTIES
  StatementIsHistory

SPECIFICATION Spec
CONSTANTS
  n1 = n1
  n2 = n2
  n3 = n3
  x = x
  None = None
  OperatorKey = OperatorKey
  DemoKey = DemoKey
  LegacyTenant = 9
  Call = {1, 2, 3}
  Name = {n1, n2, n3}
  Alias = {x}
  Command <- DirectoryCommands
  InitTenant <- MCInitTenant
  InitName <- MCInitName
  InitLink <- MCInitLink
  InitPair <- MCInitPair
  InitAlias <- MCInitAlias
INVARIANTS
  DirectoryTypeOK
  NameBoundOnce
  OneActiveLink
  AliasBehindLink
  RevocationHolds
  KeysNameTenants
PROPERTIES
  RevokedIsFinal
  AliasKeepsMeaning

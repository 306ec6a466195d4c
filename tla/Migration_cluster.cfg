CONSTANTS
  d1 = d1  d2 = d2  u1 = u1  u2 = u2  r1 = r1  r2 = r2  r3 = r3  s1 = s1
  p1 = p1  p2 = p2  p3 = p3
  Database = {d1, d2}
  User = {u1, u2}
  Run = {r1, r2, r3}
  Service = {s1}
  Target <- MCTarget
  UsersGiven <- MCUsers
  Password <- MCPassword
  RightsGiven <- MCRights
  LastFile = 3
  Demo = {d1}
  MaxFailures = 2
  Careless = FALSE
  None = None
CHECK_DEADLOCK FALSE
SPECIFICATION Spec
INVARIANTS MigrationTypeOK OneDatabase HistoryTellsTruth ServesCompleteSchema NoChangesTrue
PROPERTY SomeRunSucceeds

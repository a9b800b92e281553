SPECIFICATION FairSpec
CONSTANTS
  Admins = {a1, a2}
  Risks = {low, high}
  MaxPolicies = 3
  Clients = {c1, c2}
  MaxRepos = 2
  MaxScans = 2
  MaxRepoFaults = 2
  Channels = {mail, app}
  PageSizes = {0, 1, 2, 3}
  DefaultSize = 2
  LargestSize = 2
  MaxSent = 4
  Threads = {t1, t2}
  Burst = 2
  MaxBuckets = 3
  MaxRefills = 1
  AuditStates = {"running", "paused", "completed", "failed"}
  Ended = {"completed", "failed"}
  Percents = {10, 100}
  MaxMoves = 3
  Tenants = {x, y}
  Callers = {k1, k2}
  Connections = {n1, n2}
  NoTenant = none
INVARIANTS TypeOK NothingLeftBehind ListsAreComplete OneBurst TenantsApart
PROPERTIES OrgRecordsKept StreamTellsTheEnd
CHECK_DEADLOCK FALSE

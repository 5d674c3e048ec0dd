SPECIFICATION MCManagerSpec
CONSTANTS
  c1 = c1
  c2 = c2
  i1 = i1
  i2 = i2
  p1 = p1
  s1 = s1
  s2 = s2
  s3 = s3
  e1 = e1
  e2 = e2
  t1 = t1
  None = None
  Callers <- MCCallers
  Ids <- MCIds
  Sessions <- MCSessions
  Entries <- MCEntries
  Tenants <- MCTenants
  OneShot <- MCOneShot
  MaxContexts = 2
  Persistent = FALSE
  Faults = {"overlap", "cancel"}
  TenantLimit = 1
  Telemetry = TRUE
SYMMETRY Symmetry
INVARIANT
  OwnBrowserSession
CHECK_DEADLOCK FALSE

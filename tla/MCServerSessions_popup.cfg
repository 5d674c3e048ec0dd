SPECIFICATION SessionsSpec
CONSTANTS
  Agents = {a1}
  TabNames = {n1}
  Tabs = {t1}
  Browsers = {b1}
  NoTab = NoTab
  MaxTabs = 2
  TabEnv = {"death", "cancel"}
  u1 = u1
  u2 = u2
  Users = {u1, u2}
  Client <- OneClient
  SessionNames = {s}
  DefaultName = default
  WebObjects = {o1, o2, o3}
  Targets = {x1, x2}
  Requested = {0, 1, 3}
  MaxPages = 2
  Nil = Nil
  c1 = c1
  c2 = c2
  Conns = {c1, c2}
  WsClients <- OneClientId
  ClientOf <- SameClient
  MaxConns = 2
  WsSlots = 2
  Burst = 2
  Rate = 1
  MaxTime = 3
  Deployments <- SomeDeployments
  Reraised = TRUE
  PageIds = {p1, p2, p3}
  BatchUrls = {y1, y2}
  Modes = {"standalone", "cdp", "persistent", "pool"}
  NoPage = NoPage
CHECK_DEADLOCK FALSE
INVARIANT BatchPagesSkipped

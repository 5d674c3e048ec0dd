SPECIFICATION SessionsSpec
CONSTANTS
  Agents = {a1, a2}
  TabNames = {n1, n2, n3}
  Tabs = {t1, t2, t3}
  Browsers = {b1, b2}
  NoTab = NoTab
  MaxTabs = 2
  TabEnv = {"death", "cancel", "hang"}
  u1 = u1
  u2 = u2
  Users = {u1, u2}
  Client <- OneClient
  SessionNames = {s}
  DefaultName = default
  WebObjects = {o1, o2, o3}
  Targets = {x1, x2}
  Requested = {0, 1, 3}
  MaxPages = 2
  Nil = Nil
  c1 = c1
  c2 = c2
  Conns = {c1, c2}
  WsClients <- OneClientId
  ClientOf <- SameClient
  MaxConns = 2
  WsSlots = 2
  Burst = 2
  Rate = 1
  MaxTime = 3
  Deployments <- SomeDeployments
  Reraised = TRUE
  PageIds = {p1, p2, p3}
  BatchUrls = {y1, y2}
  Modes = {"standalone", "cdp", "persistent", "pool"}
  NoPage = NoPage
SYMMETRY SessionsSymmetry
VIEW SessionsView
CHECK_DEADLOCK FALSE
INVARIANTS
  TabTableSound ContextsOwned ActiveTabOpen TabsKeepBrowser
  SequentialFetchIsOfItsUrl DefaultAlwaysFound
  RateBound
  AnswersReadable ShutdownOrder
  NoStrayPage DrivenPageKept StopReleases
PROPERTIES
  KeepsTable

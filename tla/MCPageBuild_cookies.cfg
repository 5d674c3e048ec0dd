SPECIFICATION BuildSpec
CONSTANTS
  Parts = {"fetch"}
  Builders = {d1, d2}
  Keys = {k1, k2}
  Listings = {k1}
  NoKey = NoKey
  Looks <- SomeLooks
  MaxTemplates = 1
  MaxBuilds = 4
  Elements <- SomeElements
  Pages <- SomePages
  MaxElements = 3
  Rooms = {3, 5}
  Policies = {"reject", "accept", "dismiss"}
  Documents <- SomeDocuments
  Requests <- SomeRequests
  MaxTokens = 100
  HtmlPages <- SomeHtml
  PageSchemas = {"Product", "GovernmentPage"}
  Threshold = 50
  TextDensity = FALSE
  ChunkPages <- SomeChunkPages
  PruneSchemas = {"Product", "NewsArticle", "LocalBusiness", "Generic"}
  TokenBudgets = {0, 40, 100}
  RawTokens = 200
  Similarities = {20, 90}
  PriceLimit = 1
  Fetches = {f1, f2, f3}
  Jars = {j1, j2}
  Sites = {s1}
  CookieNames = {c1}
  i1 = i1
  i2 = i2
  Options <- SomeOptions
  Impersonations = {i1, i2}
  DefaultImpersonation = i1
  CurlIds = {q1, q2, q3}
  NoOne = NoOne
  Installs <- SomeInstalls
  Preferences = {"auto", "httpx"}
  Lists <- SomeLists
  Infos = {"none", "x"}
VIEW BuildView
SYMMETRY BuildSymmetry
CHECK_DEADLOCK FALSE
INVARIANT OwnCookiesOnly

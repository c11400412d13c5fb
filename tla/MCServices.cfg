\* Bounds. Catalog: two paths, two repositories. GitHub: two installations, one
\* repository, two calls, two setups. Replay: two crashes. Delivery: four commits.
\* Routing: three minutes. Readiness: three roots, three requests, one permit.
\* Operator: two sessions, four instants. Context: two members, two versions, two
\* bundles, three days. Studio: two clients, journals of two, two variants, four
\* edits and one disturbance.
CONSTANTS
  p1 = p1
  p2 = p2
  r1 = r1
  r2 = r2
  i1 = i1
  i2 = i2
  Path = {p1, p2}
  Builtin = {p1}
  Repo = {r1, r2}
  Origin <- MCOrigin
  WellNamed = {}
  InstallationOf <- MCInstallationOf
  Installation = {i1}
  None = None
  Account = {i1, i2}
  Repository = {r1}
  SourceCall = {c1, c2}
  Setup = {s1, s2}
  Nothing = Nothing
  MaxCrashes = 2
  Commits = 4
  Workers <- MCWorkers
  WindowLimit = 2
  LastMinute = 2
  Root = {"r1", "r2", "r3"}
  Request = {"q1", "q2", "q3"}
  Trees <- MCTrees
  Permits = 1
  NoRoot = "none"
  Operator = {"o1"}
  Surface = {"e", "t"}
  RequestKey = {"k1", "k2"}
  Sessions = 2
  Lifetime = 1
  HeartbeatTimeout = 1
  PendingBound = 1
  LastTime = 3
  ContextMember = {"u1", "u2"}
  Versions = 2
  StaleAfter = 1
  LastDay = 2
  Bundles = 2
  Client = {u1, u2}
  NoClient = NoClient
  Command = {style, layout}
  layout = layout
  style = style
  Structural = {layout}
  MaxCommands = 2
  MaxVariants = 2
  WorkerConfigured = TRUE
  MaxRevision = 4
  MaxDisturbances = 1
INIT ServicesInit
NEXT ServicesNext
CHECK_DEADLOCK FALSE
INVARIANTS
  
  
  EffectOnce
  DetectedIsRoutable
  CompleteScansShown
  TerminalsReachable
  RefreshSeesEdits
PROPERTIES
  
  OneAttempt

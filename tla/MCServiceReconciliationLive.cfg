SPECIFICATION FairRecSpec
CONSTANTS
  db = db
  web = web
  Nodes = {n1, n2}
  Sessions = {s1}
  Portals = {}
  Services = {web}
  NoNode = NoNode
  NoService = NoService
  Reconciler = Reconciler
  MaxNodes = 2
  MaxRestarts = 0
  OnWindows = TRUE
  Needs <- Alone
  NeedsHealthy <- Alone
  MaxReplicas = 2
  NoSpec = NoSpec
  NoPass = NoPass
INVARIANT NeverTooMany
PROPERTIES
  Spec
  ShortageEnds

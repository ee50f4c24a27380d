SPECIFICATION RecSpec
CONSTANTS
  db = db
  web = web
  Nodes = {n1, n2, n3}
  Sessions = {s1}
  Portals = {}
  Services = {web}
  NoNode = NoNode
  NoService = NoService
  Reconciler = Reconciler
  MaxNodes = 3
  MaxRestarts = 0
  OnWindows = TRUE
  Needs <- Alone
  NeedsHealthy <- Alone
  MaxReplicas = 2
  NoSpec = NoSpec
  NoPass = NoPass
SYMMETRY Symmetry
INVARIANT IndexNamesReplica

SPECIFICATION FairRecSpec
CONSTANTS
  db = db
  web = web
  Nodes = {n1, n2}
  Sessions = {s1}
  Portals = {}
  Services = {web}
  NoNode = NoNode
  NoService = NoService
  Reconciler = Reconciler
  MaxNodes = 2
  MaxRestarts = 1
  OnWindows = TRUE
  Needs <- Alone
  NeedsHealthy <- Alone
  MaxReplicas = 1
  NoSpec = NoSpec
  NoPass = NoPass
PROPERTY ExcessIsRemoved

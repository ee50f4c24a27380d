SPECIFICATION RecSpec
CONSTANTS
  db = db
  web = web
  Nodes = {n1, n2}
  Sessions = {s1}
  Portals = {}
  Services = {db, web}
  NoNode = NoNode
  NoService = NoService
  Reconciler = Reconciler
  MaxNodes = 2
  MaxRestarts = 0
  OnWindows = FALSE
  Needs <- WebOnDb
  NeedsHealthy <- Alone
  MaxReplicas = 1
  NoSpec = NoSpec
  NoPass = NoPass
SYMMETRY Symmetry
INVARIANTS
  KillsItsOwn
  NoLostProcess

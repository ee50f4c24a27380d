SPECIFICATION FairSpec
CONSTANTS
  Nodes = {n1}
  Sessions = {s1}
  Portals = {}
  Services = {web}
  NoNode = NoNode
  NoService = NoService
  Reconciler = Reconciler
  MaxNodes = 1
  MaxRestarts = 1
  OnWindows = TRUE
PROPERTY AutoKillOnDisconnect

SPECIFICATION LocalSpec
CONSTANTS
  n1 = n1
  n2 = n2
  Nodes = {n1, n2}
  Checked = {n1}
  Sessions = {s1}
  Portals = {w1}
  Services = {web}
  NoNode = NoNode
  NoService = NoService
  Reconciler = Reconciler
  NoProbe = NoProbe
  MaxNodes = 1
  MaxRestarts = 1
  OnWindows = TRUE
  SuccessThreshold = 2
  FailureThreshold = 2
INVARIANTS
  LocalTypeOK
  NodesApart
  HealthIsCurrent
PROPERTIES
  StatusEarned
  ExitIsNoticed

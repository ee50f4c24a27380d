SPECIFICATION FairSpec
CONSTANTS
  Nodes = {n1, n2}
  Sessions = {s1, s2}
  Portals = {w1}
  Services = {web}
  NoNode = NoNode
  NoService = NoService
  Reconciler = Reconciler
  MaxNodes = 2
  MaxRestarts = 1
  OnWindows = TRUE
INVARIANTS
  OneHolder
  SlotsExclusive
  NoLostProcess
  OneProcessPerNode
  KilledStaysDead
PROPERTIES
  KeepsLifecycle
  ExitIsNoticed
  CleanupEnds

SPECIFICATION FairSpec
CONSTANTS
  x = x
  None = None
  Peers = {1, 2}
  Values = {x}
  MaxVersion = 2
  MaxTime = 1
  MaxRestarts <- MCMaxRestarts
INVARIANTS
  StampsUnique
  SameSeenSameState
PROPERTIES
  ReplicasAdvance
  Convergence
CHECK_DEADLOCK FALSE

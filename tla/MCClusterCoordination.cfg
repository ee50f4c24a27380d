SPECIFICATION FairSpec
CONSTANTS
  p1 = p1
  p2 = p2
  t1 = t1
  t2 = t2
  None = None
  Peers = {p1, p2}
  Tasks <- TasksOf
  MaxTerm = 2
  MaxRestarts = 1
INVARIANTS
  LeaderIsRecognised
PROPERTIES
  NewLeadership
  SplitBrainHeals
CHECK_DEADLOCK FALSE

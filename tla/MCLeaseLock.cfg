SPECIFICATION Spec
CONSTANTS
  None = None
  p1 = p1
  s1 = s1
  s2 = s2
  a = a
  b = b
  Peers = {p1}
  Sessions = {s1, s2}
  Keys = {k1}
  Holders = {a, b}
  PeerOf <- OneDaemon
  HolderOf <- Names
  Ttl <- Ttls
  MaxTime = 4
  MaxFence = 3
  MaxRestarts = 1
INVARIANT MutualExclusion
PROPERTY FencesIncrease
CHECK_DEADLOCK FALSE

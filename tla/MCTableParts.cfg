SPECIFICATION TablesSpec
CONSTANTS
  a = a
  b = b
  h = h
  v1 = v1
  Daemons = {a, b}
  Hosts = {h}
  Homes <- MCHomes
  Conns = {1, 2}
  NoConn = NoConn
  MailSize = 1
  Services = {1, 2, 3, 4}
  States <- MCStates
  Codes = {a, b}
  Ttl <- MCTtl
  Window = 2
  MaxNonces = 1
  KeptNonces = 1
  MaxClock = 3
  MaxTries = 2
  Unused = Unused
  Clients = {a, b}
  Templates = {v1}
  NoCall = NoCall
  SendRoom = 2
INVARIANTS
  TablesTypeOK
  MeshNamesForwarded
  NamesHaveOrigin
  OrderIsRight
  OneTimeOnce
  SavedAreListed
CHECK_DEADLOCK FALSE

SPECIFICATION LiveSpec
CONSTANTS
  a = a
  b = b
  h = h
  v1 = v1
  v2 = v2
  empty = empty
  long = long
  Sides = {a, b}
  QueueSize = 1
  WireSize = 1
  NoMsg = NoMsg
  Daemons = {a, b}
  Hosts = {h}
  Homes <- MCHomes
  Conns = {1}
  NoConn = NoConn
  MailSize = 1
  Rules = {v1, v2}
  Ports = {1, 2}
  Adds = {a, b}
  NoAdd = NoAdd
  Asker = a
  Server = b
  ChunksOf <- MCChunks
  ChunkRoom = 1
  LinkRoom = 2
  Keys = {a, b, empty, long}
  Values = {v1, v2}
  KeyLen <- MCKeyLen
  ValLen <- MCValLen
  RegionSize = 32
  KeyLimit = 9
  Dead = Dead
  Absent = Absent
INVARIANTS
  LiveTypeOK
  StreamKeepsData
PROPERTIES
  KvKeepsPromise
  ReaderReturns
  NamesSpread
  OnlyRivalsReplaced
  StreamsEnd
CHECK_DEADLOCK FALSE

SPECIFICATION FairSpec
CONSTANTS
  Fetchers = {a, b}
  PUSH_BUF = 2
  MaxFile = 5
  PushFaultBound = 2
  Players = {a, b}
  Cells = {k, l, m}
  GameFaultBound = 2
  SEQ_BUF = 2
  SEQ_START = 10
  MaxSent = 5
  Askers = {a, b}
  OPSZ = 2
  BYTE = 3
  MaxCount = 3
  SERVED = 2
  Typists = {a, b}
  MaxLines = 2
  CHUNK = 2
  PIPE = 2
  READS = 1
  MaxProc = 2
  Guests = {a, b}
  UNITS = 2
  BUFFER = 1
  MaxLeft = 1
  Addrs = {"x", "y", "z"}
  Dotted = {"x", "y"}
  MaxAsks = 2
  Clients = {a, b}
  BUF_SIZE = 4
  Blocks = 2
  Rest = 0
  MaxFaults = 2
INVARIANTS
  TypeOK
  PushInOrder
  TurnsAlternate
  TransferWhole
  CalculatedFromAll
  ZombiesAreMerged
  StoredInOrder
  ShownIsAsked
  Prefix
  TotalsAgree
  OneServed
  RelayInOrder
  SocketsCurrent
PROPERTIES
  MarksKept
  EveryoneServed
  Finishes
CHECK_DEADLOCK FALSE

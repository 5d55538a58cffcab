SPECIFICATION SpacedFairSpec
CONSTANTS
  Conn = {a, b}
  NoConn = NoConn
  MAX_CLNT = 3
  Talkers = {a, b}
  MaxSent = 2
PROPERTIES
  ImplementsRoom
  LeaverReleased
  EverythingBroadcast

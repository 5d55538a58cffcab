SPECIFICATION Spec
CONSTANTS
  Conn = {a, b}
  NoConn = NoConn
  MAX_CLNT = 3
  Talkers = {a}
  MaxSent = 1
INVARIANT SendToAll

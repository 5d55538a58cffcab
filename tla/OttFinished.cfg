SPECIFICATION Spec
CONSTANTS
  Conn = {a, b}
  NoConn = NoConn
  MAX_CLNT = 3
  FILE = 3
  BASIC_BUF = 3
  STANDARD_BUF = 2
  PREMIUM_BUF = 4
  PACKET = 2
  Garbage = {1}
  BUFFER = 1
  Asked = {0, 2, 3}
INVARIANT FinishedHasAll
CHECK_DEADLOCK FALSE

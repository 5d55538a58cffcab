SPECIFICATION PacedFairSpec
CONSTANTS
  Conn = {a, b}
  NoConn = NoConn
  MAX_CLNT = 3
  CELLS = 2
  MaxAsk = 0
  BUFFER = 6
INVARIANTS
  InFrame
  CreditNamed
PROPERTY GameEnds
CHECK_DEADLOCK FALSE

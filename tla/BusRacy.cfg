SPECIFICATION Spec
CONSTANTS
  Conn = {a, b}
  NoConn = NoConn
  MAX_CLNT = 3
  ROWS = 1
  COLS = 2
  SeatNos = {2}
  Garbage = {4}
  MaxAsk = 1
SYMMETRY Symmetry
INVARIANTS
  TypeOK
  CountExact
  InPacket

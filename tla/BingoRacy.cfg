SPECIFICATION Spec
CONSTANTS
  Conn = {a, b}
  NoConn = NoConn
  MAX_CLNT = 3
  CELLS = 1
  MaxAsk = 1
  BUFFER = 6
SYMMETRY Symmetry
INVARIANTS
  TypeOK
  EndFull
  BoardShown
CHECK_DEADLOCK FALSE

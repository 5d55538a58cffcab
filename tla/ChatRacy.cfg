SPECIFICATION Spec
CONSTANTS
  Conn = {a, b, c}
  NoConn = NoConn
  MAX_CLNT = 4
  Talkers = {a, b}
  MaxSent = 1
SYMMETRY Symmetry
INVARIANTS
  TypeOK
  CountExact
  TableExact
  OneConversation
PROPERTY RemoveThenClose

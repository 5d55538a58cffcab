SPECIFICATION OrderlyFairSpec
CONSTANTS
  Conn = {a, b}
  NoConn = NoConn
  MAX_CLNT = 3
  ROWS = 2
  COLS = 1
  SeatNos = {2}
  Garbage = {0, 9}
  MaxAsk = 2
INVARIANTS
  TicketsHonoured
PROPERTIES
  ImplementsBooking
  RequestAnswered

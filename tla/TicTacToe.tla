----------------------------- MODULE TicTacToe ------------------------------
(***************************************************************************)
(* lab4-2/udptt_server.c and lab4-2/udptt_client.c: tic-tac-toe without a  *)
(* winner over UDP.  The whole board travels in every datagram and each    *)
(* side goes on from the board it received last, whatever it had before,   *)
(* so one server plays any number of games at once; it ends with the first *)
(* full board.                                                             *)
(***************************************************************************)
EXTENDS Integers, Sequences, FiniteSets, SequencesExt

CONSTANTS Players,         \* the client processes
          Cells,           \* the cells of the board (3 x 3 in the code)
          GameFaultBound   \* bound: datagrams the network mistreats

ASSUME GameAssumption == /\ IsFiniteSet(Cells)
                         /\ Cardinality(Cells) % 2 = 1
                         /\ GameFaultBound \in Nat

\* INIT_VALUE, C_VALUE and S_VALUE
Boards == [Cells -> {"free", "X", "O"}]
EmptyBoard == [cell \in Cells |-> "free"]
With(board, value) == {cell \in Cells : board[cell] = value}

\* A bug: a taken cell is not refused.
MovesAny(board, value) == {[board EXCEPT ![cell] = value] : cell \in Cells}

Moves(board, value) == {[board EXCEPT ![cell] = value] : cell \in With(board, "free")}

\* A bug: the scan stops before the last cell.
availble_spaceShort(board) == Cardinality(With(board, "free")) > 1

availble_space(board) == With(board, "free") # {}

VARIABLES
  toReferee,   \* boards queued at the server, with their senders
  toPlayer,    \* boards queued at each client
  gameFaults,  \* what the network has done, in order
  refereePc,   \* the server: "play" or "end"
  playerPc,    \* a client: it must "move", it "wait"s, or its game is "over"
  gameboard    \* a client's board

gameVars == <<toReferee, toPlayer, gameFaults, refereePc, playerPc, gameboard>>

GameInit ==
  /\ toReferee = <<>>
  /\ toPlayer = [p \in Players |-> <<>>]
  /\ gameFaults = <<>>
  /\ refereePc = "play"
  /\ playerPc = [p \in Players |-> "move"]
  /\ gameboard = [p \in Players |-> EmptyBoard]

\* The user of client p chooses a free cell; a full board is sent and not
\* waited for.
Move(p) ==
  /\ playerPc[p] = "move"
  /\ \E board \in Moves(gameboard[p], "X") :
       /\ gameboard' = [gameboard EXCEPT ![p] = board]
       /\ toReferee' = Append(toReferee, [from |-> p, board |-> board])
       /\ playerPc' = [playerPc EXCEPT ![p] = IF availble_space(board) THEN "wait" ELSE "over"]
  /\ UNCHANGED <<toPlayer, gameFaults, refereePc>>

\* The board the server sends is the client's from now on.
TakeBoard(p) ==
  /\ playerPc[p] = "wait"
  /\ toPlayer[p] # <<>>
  /\ gameboard' = [gameboard EXCEPT ![p] = Head(toPlayer[p])]
  /\ toPlayer' = [toPlayer EXCEPT ![p] = Tail(@)]
  /\ playerPc' = [playerPc EXCEPT ![p] = "move"]
  /\ UNCHANGED <<toReferee, gameFaults, refereePc>>

\* The server marks a cell of the board it gets that rand() finds free.
Reply ==
  /\ refereePc = "play"
  /\ toReferee # <<>>
  /\ LET got == Head(toReferee)
     IN  /\ availble_space(got.board)
         /\ \E board \in Moves(got.board, "O") :
              toPlayer' = [toPlayer EXCEPT ![got.from] = Append(@, board)]
  /\ toReferee' = Tail(toReferee)
  /\ UNCHANGED <<gameFaults, refereePc, playerPc, gameboard>>

\* A full board ends the server, whoever else is playing.
CloseGame ==
  /\ refereePc = "play"
  /\ toReferee # <<>>
  /\ ~availble_space(Head(toReferee).board)
  /\ refereePc' = "end"
  /\ toReferee' = Tail(toReferee)
  /\ UNCHANGED <<toPlayer, gameFaults, playerPc, gameboard>>

\* A datagram of queue q is lost or delivered twice, or two change places.
Disturb(q, fault) ==
  CASE fault = "loss" -> {RemoveAt(q, i) : i \in DOMAIN q}
    [] fault = "dup"  -> {InsertAt(q, i, q[i]) : i \in DOMAIN q}
    [] fault = "swap" -> {[q EXCEPT ![i] = q[i + 1], ![i + 1] = q[i]] :
                            i \in 1 .. Len(q) - 1}

GameNetwork ==
  /\ Len(gameFaults) < GameFaultBound
  /\ \E fault \in {"loss", "dup", "swap"} :
       /\ gameFaults' = Append(gameFaults, fault)
       /\ \/ /\ toReferee' \in Disturb(toReferee, fault)
             /\ UNCHANGED toPlayer
          \/ /\ \E p \in Players : \E q \in Disturb(toPlayer[p], fault) :
                  toPlayer' = [toPlayer EXCEPT ![p] = q]
             /\ UNCHANGED toReferee
  /\ UNCHANGED <<refereePc, playerPc, gameboard>>

GameNext == \/ Reply \/ CloseGame \/ GameNetwork
            \/ \E p \in Players : Move(p) \/ TakeBoard(p)

-----------------------------------------------------------------------------
GameTypeOK ==
  /\ toReferee \in Seq([from : Players, board : Boards])
  /\ toPlayer \in [Players -> Seq(Boards)]
  /\ refereePc \in {"play", "end"}
  /\ playerPc \in [Players -> {"move", "wait", "over"}]
  /\ gameboard \in [Players -> Boards]

Lead(board) == Cardinality(With(board, "X")) - Cardinality(With(board, "O"))

\* Turns alternate on every board wherever it is, though neither side compares
\* the board it gets with the one it had and the network mistreats datagrams
\* as it likes; and because the cells are odd in number, the user asked for a
\* move always has a free cell (the client asks until it gets one).
TurnsAlternate ==
  /\ \A i \in DOMAIN toReferee : Lead(toReferee[i].board) = 1
  /\ \A p \in Players :
       /\ \A i \in DOMAIN toPlayer[p] : Lead(toPlayer[p][i]) = 0
       /\ playerPc[p] = "move" => /\ Lead(gameboard[p]) = 0
                                  /\ availble_space(gameboard[p])
       /\ playerPc[p] = "over" => ~availble_space(gameboard[p])

\* No mark disappears from a client's board as long as the network doubles no
\* datagram: the server answers a doubled one twice, with two boards, and the
\* second takes back what the client did since.
MarksKept ==
  [][\A p \in Players :
       "dup" \notin ToSet(gameFaults) =>
         \A cell \in Cells :
           gameboard[p][cell] # "free" => gameboard'[p][cell] = gameboard[p][cell]
    ]_gameVars

\* A move is answered while the server plays and the network does nothing wrong.
MoveAnswered ==
  \A p \in Players :
    playerPc[p] = "wait" ~> (playerPc[p] # "wait" \/ refereePc = "end" \/ gameFaults # <<>>)

GameSpec == GameInit /\ [][GameNext]_gameVars
=============================================================================

---------------------------- MODULE BingoServer ----------------------------
(***************************************************************************)
(* Final/bingo_server.c with the clients of Final/bingo_client.c: clients  *)
(* name random numbers, the first to name a number gets its cell, and when *)
(* all cells are taken the next request ends the game.                     *)
(*                                                                         *)
(* All handlers read into ONE request packet and send ONE response packet, *)
(* whose command they set outside the lock; the claim and its broadcast    *)
(* are made under the lock, the READY and the END messages are not.        *)
(*                                                                         *)
(* A broadcast writes two things to a client, the packet and the table of  *)
(* descriptors, and the client reads two things in turn by their length.   *)
(* What it has not read is modelled as units: a packet is one, the table,  *)
(* which is longer, is two, of which the last holds only zeros.            *)
(***************************************************************************)
EXTENDS AcceptLoop, TcpPeer, Sequences

CONSTANTS CELLS,    \* cells of the board (4 by 4 in the code)
          MaxAsk,   \* bound: requests a client sends; if 0, any number, but
                    \* each when all is quiet
          BUFFER    \* bound: units a connection holds until the client reads

ASSUME BingoAssumption == /\ CELLS \in Nat \ {0}
                          /\ MaxAsk \in Nat
                          /\ BUFFER \in Nat

Cells   == 1 .. CELLS
Numbers == 1 .. CELLS   \* RAND_START .. RAND_END

\* Units of a client's stream: a packet with its command, and whether all its
\* cells are taken, and the two parts of the table.
Packets == [cmd : {"READY", "RESPONSE", "END"}, full : BOOLEAN]
Head1   == [cmd |-> "table", full |-> FALSE]
Zeros   == [cmd |-> "zeros", full |-> FALSE]
Table   == <<Head1, Zeros>>
Units   == Packets \cup {Head1, Zeros}

VARIABLES
  up,        \* the server process exists
  peer,      \* what the server's kernel knows of each client's end
  inbox,     \* numbers sent and not yet read
  stream,    \* units sent and not yet read
  numbers,   \* bingo_number_array: the number of each cell, 0 while it has none
  qnum,      \* qpacket: its number, 0 before the first request
  scmd,      \* spacket.cmd
  board,     \* spacket.board: the descriptor that has the cell, or 0
  file,      \* the connection a handler's read() is blocked on
  idx,       \* each handler's i
  cell,      \* the cell get_empty_index2() looks at next
  shown,     \* history: the cells taken in the last packet sent to a client
  rpc,       \* a client's receiving thread: "hello", "packet", "table", "over"
  isEnd,     \* the packet it read last says END
  ready,     \* sem_one was posted: the sending thread runs
  asked,     \* how many numbers a client sent, if they are bounded
  named      \* history: the numbers a client sent

netVars  == <<peer, inbox, stream>>
pktVars  == <<qnum, scmd, board>>
hdlVars  == <<file, idx, cell, shown>>
clntVars == <<rpc, isEnd, ready, asked, named>>
vars     == <<loopVars, up, netVars, numbers, pktVars, hdlVars, clntVars>>

PC   == {"none", "start", "ready", "greet", "read", "blocked", "check", "scan", "end",
         "endpacket", "endtable", "response", "claim", "packet", "table",
         "unlock", "remove", "done"}

Init ==
  /\ LoopInit
  /\ up = TRUE
  /\ peer = [c \in Conn |-> "open"]
  /\ inbox = [c \in Conn |-> <<>>]
  /\ stream = [c \in Conn |-> <<>>]
  /\ numbers = [x \in Cells |-> 0]
  /\ qnum = 0
  /\ scmd = "READY"
  /\ board = [x \in Cells |-> 0]
  /\ file = [c \in Conn |-> NoConn]
  /\ idx = [c \in Conn |-> 0]
  /\ cell = [c \in Conn |-> 1]
  /\ shown = [c \in Conn |-> {}]
  /\ rpc = [c \in Conn |-> "hello"]
  /\ isEnd = [c \in Conn |-> FALSE]
  /\ ready = {}
  /\ asked = [c \in Conn |-> 0]
  /\ named = [c \in Conn |-> {}]

-----------------------------------------------------------------------------
\* main.  generate_random_num: the next number drawn goes to the first empty
\* cell, unless it is on the board already.
AllNumbered == \A x \in Cells : numbers[x] # 0

Draw(n) ==
  /\ ~AllNumbered
  /\ \A x \in Cells : numbers[x] # n
  /\ \E x \in Cells :
       /\ numbers[x] = 0
       /\ \A y \in 1 .. x - 1 : numbers[y] # 0
       /\ numbers' = [numbers EXCEPT ![x] = n]
  /\ UNCHANGED <<loopVars, up, netVars, pktVars, hdlVars, clntVars>>

MainAccept(c) ==
  /\ up /\ AllNumbered
  /\ Accept(c)
  /\ UNCHANGED <<up, netVars, numbers, pktVars, hdlVars, clntVars>>
MainAppend ==
  up /\ Enlist /\ UNCHANGED <<up, netVars, numbers, pktVars, hdlVars, clntVars>>
MainCreate ==
  up /\ Create /\ UNCHANGED <<up, netVars, numbers, pktVars, hdlVars, clntVars>>

-----------------------------------------------------------------------------
\* A client.

\* read() of a packet: the next unit, whatever it is.
\* The first one starts the sending thread if it says READY.
ReadHello(c) ==
  /\ peer[c] = "open"
  /\ rpc[c] = "hello"
  /\ stream[c] # <<>>
  /\ ready' = IF Head(stream[c]).cmd = "READY" THEN ready \cup {c} ELSE ready
  /\ stream' = [stream EXCEPT ![c] = Tail(@)]
  /\ rpc' = [rpc EXCEPT ![c] = "packet"]
  /\ UNCHANGED <<loopVars, up, peer, inbox, numbers, pktVars, hdlVars, isEnd,
                 asked, named>>

ReadPacket(c) ==
  /\ peer[c] = "open"
  /\ rpc[c] = "packet"
  /\ stream[c] # <<>>
  /\ isEnd' = [isEnd EXCEPT ![c] = Head(stream[c]).cmd = "END"]
  /\ stream' = [stream EXCEPT ![c] = Tail(@)]
  /\ rpc' = [rpc EXCEPT ![c] = "table"]
  /\ UNCHANGED <<loopVars, up, peer, inbox, numbers, pktVars, hdlVars, ready,
                 asked, named>>

\* read() of the table: two units, or one if no more is there.  After END the
\* thread sets end and returns.
ReadTable(c) ==
  /\ peer[c] = "open"
  /\ rpc[c] = "table"
  /\ stream[c] # <<>>
  /\ stream' = [stream EXCEPT ![c] = IF Len(@) = 1 THEN <<>> ELSE SubSeq(@, 3, Len(@))]
  /\ rpc' = [rpc EXCEPT ![c] = IF isEnd[c] THEN "over" ELSE "packet"]
  /\ UNCHANGED <<loopVars, up, peer, inbox, numbers, pktVars, hdlVars, isEnd,
                 ready, asked, named>>

\* Nothing is on its way and every handler waits for a request.
Quiet ==
  /\ mpc = "accept"
  /\ \A c \in Conn : inbox[c] = <<>> /\ stream[c] = <<>>
  /\ \A t \in Conn : pc[t] \in {"none", "blocked", "done"}

\* The sending thread, until end is set: the next random number.
Ask(c) ==
  /\ up /\ peer[c] = "open"
  /\ c \in ready /\ rpc[c] # "over"
  /\ IF MaxAsk = 0 THEN Quiet ELSE asked[c] < MaxAsk
  /\ \E n \in Numbers :
       /\ inbox' = [inbox EXCEPT ![c] = Append(@, n)]
       /\ named' = [named EXCEPT ![c] = @ \cup {n}]
  /\ asked' = IF MaxAsk = 0 THEN asked ELSE [asked EXCEPT ![c] = @ + 1]
  /\ UNCHANGED <<loopVars, up, peer, stream, numbers, pktVars, hdlVars, rpc, isEnd,
                 ready>>

\* Both threads have returned, or the process is killed.
Leave(c) ==
  /\ peer[c] = "open"
  /\ c \in ready /\ rpc[c] = "over"
  /\ \E p \in AfterClose(stream[c] # <<>>) : peer' = [peer EXCEPT ![c] = p]
  /\ UNCHANGED <<loopVars, up, inbox, stream, numbers, pktVars, hdlVars, clntVars>>

Die(c) ==
  /\ peer[c] = "open"
  /\ \E p \in AfterClose(stream[c] # <<>>) : peer' = [peer EXCEPT ![c] = p]
  /\ UNCHANGED <<loopVars, up, inbox, stream, numbers, pktVars, hdlVars, clntVars>>

-----------------------------------------------------------------------------
\* handle_clnt.

BoardFull == \A x \in Cells : board[x] # 0
Taken     == {x \in Cells : board[x] # 0}

\* write() of units to a descriptor; a closed one takes nothing, a reset one
\* raises SIGPIPE, one whose client does not read blocks.  A slot never used
\* holds 0, the standard input.
Write(fd, units) ==
  LET c == IF fd = NoFd THEN NoConn ELSE fdtab[fd]
  IN  IF c = NoConn
        THEN UNCHANGED <<up, peer, stream>>
        ELSE /\ peer[c] = "open" => Len(stream[c]) + Len(units) <= BUFFER
             /\ up' = ~WriteKills(peer[c])
             /\ \E p \in AfterWrite(peer[c]) : peer' = [peer EXCEPT ![c] = p]
             /\ stream' = IF peer[c] = "open"
                            THEN [stream EXCEPT ![c] = @ \o units]
                            ELSE stream

SPacket == <<[cmd |-> scmd, full |-> BoardFull]>>

\* The packet as it is now goes to descriptor fd.
SendSPacket(fd) ==
  /\ Write(fd, SPacket)
  /\ shown' = [c \in Conn |-> IF fd # NoFd /\ fdtab[fd] = c THEN Taken ELSE shown[c]]

HandlerStart(t) ==
  /\ up
  /\ TakeArg(t, "ready")
  /\ UNCHANGED <<up, netVars, numbers, pktVars, hdlVars, clntVars>>

\* spacket.cmd = BINGO_READY, BINGO_END or BINGO_RESPONSE, without the lock;
\* the result field, which clients only print, is left out.
SetCommand(t, from, cmd, to) ==
  /\ up
  /\ pc[t] = from
  /\ scmd' = cmd
  /\ Goto(t, to)
  /\ UNCHANGED <<mainVars, regVars, mutx, fdtab, sock, up, netVars, numbers, qnum,
                 board, hdlVars, clntVars>>

\* A bug: the command is left as it was.
SetEndNot(t)   == SetCommand(t, "end", scmd, "endpacket")

SetReady(t)    == SetCommand(t, "ready", "READY", "greet")
SetEnd(t)      == SetCommand(t, "end", "END", "endpacket")
SetResponse(t) == SetCommand(t, "response", "RESPONSE", "claim")

\* A bug: READY is followed by the table as well.
GreetTable(t) ==
  /\ up
  /\ pc[t] = "greet"
  /\ Write(sock[t], SPacket \o Table)
  /\ Goto(t, "read")
  /\ UNCHANGED <<mainVars, regVars, mutx, fdtab, sock, inbox, numbers, pktVars,
                 hdlVars, clntVars>>

\* write(clnt_sock, &spacket, sizeof(spacket)), and no table
Greet(t) ==
  /\ up
  /\ pc[t] = "greet"
  /\ SendSPacket(sock[t])
  /\ Goto(t, "read")
  /\ UNCHANGED <<mainVars, regVars, mutx, fdtab, sock, inbox, numbers, pktVars,
                 file, idx, cell, clntVars>>

\* read() is called; on a closed descriptor it fails, which is not looked at.
ReadCall(t) ==
  /\ up
  /\ pc[t] = "read"
  /\ file' = [file EXCEPT ![t] = fdtab[sock[t]]]
  /\ Goto(t, IF file'[t] = NoConn THEN "check" ELSE "blocked")
  /\ UNCHANGED <<mainVars, regVars, mutx, fdtab, sock, up, netVars, numbers,
                 pktVars, idx, cell, shown, clntVars>>

\* The next request; or 0 at the end of the stream; or -1 after a reset, and
\* the last request is served again.
Receive(t) ==
  LET c == file[t]
  IN  /\ up
      /\ pc[t] = "blocked"
      /\ \/ /\ inbox[c] # <<>>
            /\ qnum' = Head(inbox[c])
            /\ inbox' = [inbox EXCEPT ![c] = Tail(@)]
            /\ Goto(t, "check")
            /\ UNCHANGED peer
         \/ /\ inbox[c] = <<>>
            /\ peer[c] # "open"
            /\ peer' = [peer EXCEPT ![c] = IF @ = "err" THEN "rst" ELSE @]
            /\ Goto(t, IF peer[c] = "err" THEN "check" ELSE "remove")
            /\ UNCHANGED <<qnum, inbox>>
      /\ file' = [file EXCEPT ![t] = NoConn]
      /\ UNCHANGED <<mainVars, regVars, mutx, fdtab, sock, up, stream, numbers,
                     scmd, board, idx, cell, shown, clntVars>>

\* qpacket.cmd == BINGO_REQUEST; then get_empty_index2() is called
Check(t) ==
  /\ up
  /\ pc[t] = "check"
  /\ Goto(t, IF qnum = 0 THEN "read" ELSE "scan")
  /\ UNCHANGED <<mainVars, regVars, mutx, fdtab, sock, up, netVars, numbers,
                 pktVars, hdlVars, clntVars>>

\* A bug: the search for an empty cell stops before the last one.
ScanEarly(t) ==
  /\ up
  /\ pc[t] = "scan"
  /\ IF cell[t] # CELLS /\ board[cell[t]] # 0
       THEN cell' = [cell EXCEPT ![t] = @ + 1] /\ UNCHANGED pc
       ELSE /\ cell' = [cell EXCEPT ![t] = 1]
            /\ Goto(t, IF cell[t] = CELLS THEN "end" ELSE "response")
  /\ UNCHANGED <<mainVars, regVars, mutx, fdtab, sock, up, netVars, numbers,
                 pktVars, file, idx, shown, clntVars>>

\* get_empty_index2() looks at one cell, without the lock: it returns at the
\* first empty one, or FULL after the last.
Scan(t) ==
  /\ up
  /\ pc[t] = "scan"
  /\ IF cell[t] # CELLS /\ board[cell[t]] # 0
       THEN cell' = [cell EXCEPT ![t] = @ + 1] /\ UNCHANGED pc
       ELSE /\ cell' = [cell EXCEPT ![t] = 1]
            /\ Goto(t, IF board[cell[t]] # 0 THEN "end" ELSE "response")
  /\ UNCHANGED <<mainVars, regVars, mutx, fdtab, sock, up, netVars, numbers,
                 pktVars, file, idx, shown, clntVars>>

\* The END broadcast, without the lock: for each slot the packet, then the table.
EndPacket(t) ==
  /\ up
  /\ pc[t] = "endpacket"
  /\ IF idx[t] < clnt_cnt
       THEN /\ SendSPacket(clnt_socks[idx[t]])
            /\ Goto(t, "endtable")
            /\ UNCHANGED idx
       ELSE /\ Goto(t, "read")
            /\ idx' = [idx EXCEPT ![t] = 0]
            /\ UNCHANGED <<up, peer, stream, shown>>
  /\ UNCHANGED <<mainVars, regVars, mutx, fdtab, sock, inbox, numbers, pktVars,
                 file, cell, clntVars>>

EndTable(t) ==
  /\ up
  /\ pc[t] = "endtable"
  /\ Write(clnt_socks[idx[t]], Table)
  /\ Goto(t, "endpacket")
  /\ idx' = [idx EXCEPT ![t] = @ + 1]
  /\ UNCHANGED <<mainVars, regVars, mutx, fdtab, sock, inbox, numbers, pktVars,
                 file, cell, shown, clntVars>>

\* A bug: the lock is given back before the broadcast.
ClaimUnlocked(t) ==
  /\ up
  /\ pc[t] = "claim"
  /\ mutx = NoConn
  /\ board' = [x \in Cells |-> IF numbers[x] = qnum /\ board[x] = 0
                                 THEN sock[t] ELSE board[x]]
  /\ Goto(t, "packet")
  /\ UNCHANGED <<mainVars, regVars, mutx, fdtab, sock, up, netVars, numbers, qnum,
                 scmd, hdlVars, clntVars>>

\* A bug: the number, not its place on the board, is taken for the cell.
ClaimByNumber(t) ==
  /\ up
  /\ pc[t] = "claim"
  /\ mutx = NoConn
  /\ mutx' = t
  /\ board' = [x \in Cells |-> IF x = qnum /\ board[x] = 0 THEN sock[t] ELSE board[x]]
  /\ Goto(t, "packet")
  /\ UNCHANGED <<mainVars, regVars, fdtab, sock, up, netVars, numbers, qnum, scmd,
                 hdlVars, clntVars>>

\* lock; num = exist_number(qpacket.bingo_num); a free cell goes to clnt_sock
Claim(t) ==
  /\ up
  /\ pc[t] = "claim"
  /\ mutx = NoConn
  /\ mutx' = t
  /\ board' = [x \in Cells |-> IF numbers[x] = qnum /\ board[x] = 0
                                 THEN sock[t] ELSE board[x]]
  /\ Goto(t, "packet")
  /\ UNCHANGED <<mainVars, regVars, fdtab, sock, up, netVars, numbers, qnum, scmd,
                 hdlVars, clntVars>>

\* The RESPONSE broadcast, under the lock.
SendPacket(t) ==
  /\ up
  /\ pc[t] = "packet"
  /\ IF idx[t] < clnt_cnt
       THEN /\ SendSPacket(clnt_socks[idx[t]])
            /\ Goto(t, "table")
            /\ UNCHANGED idx
       ELSE /\ Goto(t, "unlock")
            /\ idx' = [idx EXCEPT ![t] = 0]
            /\ UNCHANGED <<up, peer, stream, shown>>
  /\ UNCHANGED <<mainVars, regVars, mutx, fdtab, sock, inbox, numbers, pktVars,
                 file, cell, clntVars>>

SendTable(t) ==
  /\ up
  /\ pc[t] = "table"
  /\ Write(clnt_socks[idx[t]], Table)
  /\ Goto(t, "packet")
  /\ idx' = [idx EXCEPT ![t] = @ + 1]
  /\ UNCHANGED <<mainVars, regVars, mutx, fdtab, sock, inbox, numbers, pktVars,
                 file, cell, shown, clntVars>>

Unlock(t) ==
  /\ up
  /\ pc[t] = "unlock"
  /\ mutx' = NoConn
  /\ Goto(t, "read")
  /\ UNCHANGED <<mainVars, regVars, fdtab, sock, up, netVars, numbers, pktVars,
                 hdlVars, clntVars>>

\* lock; removal block; close(clnt_sock); unlock; the thread returns
Remove(t) ==
  /\ up
  /\ pc[t] = "remove"
  /\ mutx = NoConn
  /\ RemoveSelf(t)
  /\ fdtab' = [fdtab EXCEPT ![sock[t]] = NoConn]
  /\ Goto(t, "done")
  /\ UNCHANGED <<mainVars, mutx, sock, up, netVars, numbers, pktVars, hdlVars,
                 clntVars>>

-----------------------------------------------------------------------------
Handler(t) ==
  \/ HandlerStart(t) \/ SetReady(t) \/ Greet(t) \/ ReadCall(t) \/ Receive(t)
  \/ Check(t) \/ Scan(t) \/ SetEnd(t) \/ EndPacket(t) \/ EndTable(t)
  \/ SetResponse(t) \/ Claim(t) \/ SendPacket(t) \/ SendTable(t) \/ Unlock(t) \/ Remove(t)

Main == \/ \E n \in Numbers : Draw(n)
        \/ \E c \in Conn : MainAccept(c)
        \/ MainAppend \/ MainCreate

Receiver(c) == ReadHello(c) \/ ReadPacket(c) \/ ReadTable(c)

Next ==
  \/ Main
  \/ \E c \in Conn : Receiver(c) \/ Ask(c) \/ Leave(c) \/ Die(c) \/ Handler(c)

Spec == Init /\ [][Next]_vars

\* Clients connect one after the other before anyone sends, send one request at
\* a time (they sleep after each), and are not killed.
Paced ==
  /\ own' # own => Quiet /\ \A c \in Conn : named[c] = {}
  /\ \A c \in Conn : Len(inbox'[c]) > Len(inbox[c]) => Quiet
  /\ \A c \in Conn : peer'[c] \notin {peer[c], "rst"} => rpc[c] = "over"

PacedSpec == Init /\ [][Next /\ Paced]_vars

\* The threads of the server and of the clients are scheduled, and each call
\* they are blocked in returns when it can.
PacedFairSpec ==
  /\ PacedSpec
  /\ WF_vars(Main /\ Paced)
  /\ \A c \in Conn : /\ WF_vars(Handler(c) /\ Paced)
                     /\ WF_vars(Receiver(c))
                     /\ WF_vars(Ask(c) /\ Paced)

-----------------------------------------------------------------------------
\* Type invariant.
TypeOK ==
  /\ LoopTypeOK(PC)
  /\ up \in BOOLEAN
  /\ peer \in [Conn -> PeerState]
  /\ inbox \in [Conn -> Seq(Numbers)]
  /\ stream \in [Conn -> Seq(Units)]
  /\ numbers \in [Cells -> Numbers \cup {0}]
  /\ qnum \in Numbers \cup {0}
  /\ scmd \in {"READY", "RESPONSE", "END"}
  /\ board \in [Cells -> Fds \cup {0}]
  /\ file \in [Conn -> Conn \cup {NoConn}]
  /\ idx \in [Conn -> 0 .. Cardinality(Conn)]
  /\ cell \in [Conn -> Cells]
  /\ shown \in [Conn -> SUBSET Cells]
  /\ rpc \in [Conn -> {"hello", "packet", "table", "over"}]
  /\ isEnd \in [Conn -> BOOLEAN]
  /\ ready \subseteq Conn
  /\ asked \in [Conn -> 0 .. MaxAsk]
  /\ named \in [Conn -> SUBSET Numbers]

\* No client is ever told END with a cell still free, although handlers
\* overwrite each other's command and scan the board without the lock.
EndFull ==
  \A c \in Conn : \A i \in 1 .. Len(stream[c]) :
    stream[c][i].cmd = "END" => stream[c][i].full

\* Used one request at a time, a client never loses its place in the stream as
\* long as the game lasts: nothing marks where a packet or a table begins, and
\* the READY packet comes without a table.  (Once it is over a client that
\* leaves shifts the slots under the END broadcast, which then skips the next
\* client or the table it is due.)
InFrame ==
  ~BoardFull =>
    \A c \in Conn : \A i \in 1 .. Len(stream[c]) :
      LET at == CASE rpc[c] = "hello" -> i
                  [] rpc[c] = "table" -> i + 2
                  [] OTHER            -> i + 1
      IN  stream[c][i] \in Packets <=> at = 1 \/ at % 3 = 2

\* Used one request at a time, a cell goes to a client that named its number.
\* bingo_server.c:39 says of board that it holds the id of the client that got
\* the number.
CreditNamed ==
  \A x \in Cells : \A c \in Conn :
    board[x] = own[c] /\ own[c] # NoFd => numbers[x] \in named[c]

\* Used one request at a time, every client that plays is told the end once
\* the board is full: an END broadcast may miss a client because another one
\* leaves, but that client goes on asking.
GameEnds ==
  \A c \in Conn :
    BoardFull /\ c \in ready ~> rpc[c] = "over"

\* A client that was greeted, is still there, and whose handler is not done.
Playing(c) ==
  peer[c] = "open" /\ pc[c] \notin {"none", "start", "ready", "greet", "done"}

\* Between two claims every client has been shown every cell taken so far: the
\* last packet sent to a client that plays has the board as it is, whoever
\* joined, left or was killed while the claims were being broadcast, as long as
\* no thread took another one's descriptor.
BoardShown ==
  ArgsIntact /\ (\A t \in Conn : pc[t] \notin {"packet", "table"})
    => \A c \in Conn : Playing(c) => shown[c] = Taken

=============================================================================

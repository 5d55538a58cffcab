----------------------------- MODULE BusServer -----------------------------
(***************************************************************************)
(* lab9-1/bus_server.c with the clients of lab9-1/bus_client.c.            *)
(*                                                                         *)
(* All handlers share ONE request packet and ONE response packet, which    *)
(* also holds the seat map.  A handler reads a request into the first,     *)
(* works out its seat, looks at the seat map, and only then, and only to   *)
(* reserve, takes mutx.  The result of read() is not looked at, so after   *)
(* the client is gone the handler serves whatever the packet holds.        *)
(*                                                                         *)
(* The response packet is modelled as the words of its struct, because the *)
(* seat number is not checked before it indexes the seat map: number 0     *)
(* meets the seatno field, one past the last meets the result field, and   *)
(* a number further out, or one the client never initialised, memory       *)
(* outside the packet.  Every statement that reads or writes a shared      *)
(* packet is a step of its own.                                            *)
(***************************************************************************)
EXTENDS AcceptLoop, TcpPeer, Sequences

CONSTANTS ROWS, COLS,  \* the seat map (2 by 10 in the code)
          SeatNos,     \* bound: the seat numbers users type
          Garbage,     \* bound: what memory that was never written, or that
                       \* is not the packet's, may hold
          MaxAsk       \* bound: requests a client types before it quits

ASSUME SeatAssumption == /\ {ROWS, COLS} \subseteq Nat \ {0}
                         /\ SeatNos \subseteq Int
                         /\ Garbage \subseteq Int
                         /\ MaxAsk \in Nat

Seats == 1 .. ROWS * COLS

\* Word indices of RES_PACKET, from its seatno on (nobody reads its command).
SeatnoW  == 0
SeatW(s) == s
ResultW  == ROWS * COLS + 1
Words    == 0 .. ResultW

Inquiry == 1
Reserve == 2
Cancel  == 3
Quit    == 4
Numbers == SeatNos \cup Garbage
Request == [command : Inquiry .. Quit, seatno : Numbers]

VARIABLES
  up,        \* the server process exists, and has not written astray
  peer,      \* what the server's kernel knows of each client's end
  inbox,     \* requests sent and not yet read
  replies,   \* replies sent and not yet read
  qpacket,   \* the shared request packet
  spacket,   \* the shared response packet, word by word
  file,      \* the connection a handler's read() is blocked on
  row,       \* each handler's row,
  word,      \* its row and col as a word of spacket,
  seat,      \* and its copy of the seat
  left,      \* the clients whose sending thread returned after a quit
  sem_one,   \* posted when a request was written
  sem_two,   \* posted when a reply was shown
  last,      \* the client's own qpacket
  asked,     \* how many requests the client sent
  holds,     \* history: the seats a client was told it has
  clean,     \* history: no two requests in work at once, no wrong seat number
             \* for a seat to reserve or cancel, no client killed
  wild,      \* history: a client sent a number that is neither 0 nor a seat's
  stray      \* history: the server wrote outside the response packet

netVars  == <<peer, inbox, replies>>
pktVars  == <<qpacket, spacket>>
hdlVars  == <<file, row, word, seat>>
clntVars == <<left, sem_one, sem_two, last, asked, holds>>
histVars == <<clean, wild, stray>>
vars     == <<loopVars, up, netVars, pktVars, hdlVars, clntVars, histVars>>

PC   == {"none", "start", "read", "blocked", "row", "col", "look",
         "inquiry?", "reserve?", "cancel?", "quit?",
         "inquiry", "reserve", "lock", "refuse", "judge", "take",
         "cancel", "decide", "free", "reply", "quit", "done"}
Past == {"done"}

Init ==
  /\ LoopInit
  /\ up = TRUE
  /\ peer = [c \in Conn |-> "open"]
  /\ inbox = [c \in Conn |-> <<>>]
  /\ replies = [c \in Conn |-> <<>>]
  /\ qpacket = [command |-> 0, seatno |-> 0]
  /\ spacket = [w \in Words |-> 0]
  /\ file = [c \in Conn |-> NoConn]
  /\ row = [c \in Conn |-> 0]
  /\ word = [c \in Conn |-> 0]
  /\ seat = [c \in Conn |-> 0]
  /\ left = {}
  /\ sem_one = [c \in Conn |-> 0]
  /\ sem_two = [c \in Conn |-> 1]
  /\ last \in [Conn -> [command : {Inquiry}, seatno : Garbage]]
  /\ asked = [c \in Conn |-> 0]
  /\ holds = [c \in Conn |-> {}]
  /\ clean = TRUE
  /\ wild = FALSE
  /\ stray = FALSE

-----------------------------------------------------------------------------
\* A client: bus_client.c's two threads.

\* The sending thread: sem_wait(&sem_two); the user types a command and, for 2
\* and 3, a number (otherwise the old one is sent again, which before the first
\* was typed is what the uninitialised packet holds); write(); sem_post(&sem_one),
\* which only the client itself can see; after 4 it returns.
ClientAsk(c) ==
  /\ up /\ peer[c] = "open"
  /\ c \notin left
  /\ sem_two[c] > 0
  /\ \E r \in Request :
       /\ IF r.command \in {Inquiry, Quit} THEN r.seatno = last[c].seatno
                                           ELSE r.seatno \in SeatNos
       /\ r.command # Quit => asked[c] < MaxAsk
       /\ last' = [last EXCEPT ![c] = r]
       /\ inbox' = [inbox EXCEPT ![c] = Append(@, r)]
       /\ left' = IF r.command = Quit THEN left \cup {c} ELSE left
       /\ clean' = (clean /\ (r.command \in {Reserve, Cancel} => r.seatno \in Seats))
       /\ wild' = (wild \/ r.seatno \notin Seats \cup {0})
  /\ asked' = [asked EXCEPT ![c] = @ + 1]
  /\ sem_two' = [sem_two EXCEPT ![c] = @ - 1]
  /\ sem_one' = [sem_one EXCEPT ![c] = @ + 1]
  /\ UNCHANGED <<loopVars, up, peer, replies, pktVars, hdlVars, holds, stray>>

\* The server's end of c is gone, so a read that finds nothing returns 0.
ServerClosed(c) == ~up \/ (own[c] # NoFd /\ \A f \in Fds : fdtab[f] # c)

\* The seats the client has once it is shown this result of its last request.
HoldsAfter(c, result) ==
  IF result # 0 THEN holds[c]
  ELSE CASE last[c].command = Reserve -> holds[c] \cup {last[c].seatno}
         [] last[c].command = Cancel  -> holds[c] \ {last[c].seatno}
         [] OTHER                     -> holds[c]

\* The receiving thread: sem_wait(&sem_one); read() returns; the seat map and
\* the result are shown; sem_post(&sem_two)
ClientShow(c) ==
  /\ peer[c] = "open"
  /\ sem_one[c] > 0
  /\ \/ /\ replies[c] # <<>>
        /\ replies' = [replies EXCEPT ![c] = Tail(@)]
        /\ holds' = [holds EXCEPT ![c] = HoldsAfter(c, Head(replies[c]))]
     \/ /\ replies[c] = <<>>
        /\ ServerClosed(c)
        /\ UNCHANGED <<replies, holds>>
  /\ sem_one' = [sem_one EXCEPT ![c] = @ - 1]
  /\ sem_two' = [sem_two EXCEPT ![c] = @ + 1]
  /\ UNCHANGED <<loopVars, up, peer, inbox, pktVars, hdlVars, left, last, asked,
                 histVars>>

\* The client process is killed.
ClientDie(c) ==
  /\ peer[c] = "open"
  /\ \E p \in AfterClose(replies[c] # <<>>) : peer' = [peer EXCEPT ![c] = p]
  /\ clean' = FALSE
  /\ UNCHANGED <<loopVars, up, inbox, replies, pktVars, hdlVars, clntVars, wild,
                 stray>>

-----------------------------------------------------------------------------
\* main.

MainAccept(c) ==
  up /\ Accept(c) /\ UNCHANGED <<up, netVars, pktVars, hdlVars, clntVars, histVars>>
MainAppend ==
  up /\ Enlist /\ UNCHANGED <<up, netVars, pktVars, hdlVars, clntVars, histVars>>
MainCreate ==
  up /\ Create /\ UNCHANGED <<up, netVars, pktVars, hdlVars, clntVars, histVars>>

-----------------------------------------------------------------------------
\* handle_clnt.

HandlerStart(t) ==
  /\ up
  /\ TakeArg(t, "read")
  /\ UNCHANGED <<up, netVars, pktVars, hdlVars, clntVars, histVars>>

\* The handler has read a request and not yet replied.
Busy(t) == pc[t] \in PC \ {"none", "start", "read", "blocked", "done"}

\* What a handler's step leaves alone, unless it says otherwise.
LoopKept   == UNCHANGED <<mainVars, regVars, fdtab, sock>>
OthersKept == LoopKept /\ UNCHANGED <<netVars, file, clntVars, clean, wild>>

\* read() is called; on a closed descriptor it fails and qpacket stays.
ReadCall(t) ==
  /\ up
  /\ pc[t] = "read"
  /\ file' = [file EXCEPT ![t] = fdtab[sock[t]]]
  /\ Goto(t, IF file'[t] = NoConn THEN "row" ELSE "blocked")
  /\ clean' = (clean /\ file'[t] # NoConn)
  /\ LoopKept
  /\ UNCHANGED <<mutx, up, netVars, pktVars, row, word, seat, clntVars, wild,
                 stray>>

\* read(clnt_sock, &qpacket, sizeof(qpacket)): the next request, or at the end
\* of the stream nothing, and the handler goes on all the same.
Receive(t) ==
  LET c == file[t]
  IN  /\ up
      /\ pc[t] = "blocked"
      /\ \/ /\ inbox[c] # <<>>
            /\ qpacket' = Head(inbox[c])
            /\ inbox' = [inbox EXCEPT ![c] = Tail(@)]
            /\ UNCHANGED peer
         \/ /\ inbox[c] = <<>>
            /\ peer[c] # "open"
            /\ peer' = [peer EXCEPT ![c] = IF @ = "err" THEN "rst" ELSE @]
            /\ UNCHANGED <<qpacket, inbox>>
      /\ file' = [file EXCEPT ![t] = NoConn]
      /\ Goto(t, "row")
      /\ clean' = (clean /\ \A u \in Conn \ {t} : ~Busy(u))
      /\ LoopKept
      /\ UNCHANGED <<mutx, up, replies, spacket, row, word, seat, clntVars, wild,
                     stray>>

\* The locals of an iteration are not used in the next one.
Forget(t) ==
  /\ word' = [word EXCEPT ![t] = 0]
  /\ seat' = [seat EXCEPT ![t] = 0]

\* C's / and %, which truncate towards 0.
Quot(a, b) == IF a >= 0 THEN a \div b ELSE -((-a) \div b)
Rem(a, b)  == a - b * Quot(a, b)

\* A bug: rows are counted from the number itself.
LocateRowHigh(t) ==
  /\ up
  /\ pc[t] = "row"
  /\ row' = [row EXCEPT ![t] = Quot(qpacket.seatno, COLS)]
  /\ Goto(t, "col")
  /\ OthersKept
  /\ UNCHANGED <<mutx, up, pktVars, word, seat, stray>>

\* row = (qpacket.seatno - 1) / COLS
LocateRow(t) ==
  /\ up
  /\ pc[t] = "row"
  /\ row' = [row EXCEPT ![t] = Quot(qpacket.seatno - 1, COLS)]
  /\ Goto(t, "col")
  /\ OthersKept
  /\ UNCHANGED <<mutx, up, pktVars, word, seat, stray>>

\* col = (qpacket.seatno - 1) % COLS, of whatever request is there by now
LocateCol(t) ==
  /\ up
  /\ pc[t] = "col"
  /\ word' = [word EXCEPT ![t] =
                SeatW(1) + row[t] * COLS + Rem(qpacket.seatno - 1, COLS)]
  /\ row' = [row EXCEPT ![t] = 0]
  /\ Goto(t, "look")
  /\ OthersKept
  /\ UNCHANGED <<mutx, up, pktVars, seat, stray>>

\* seat = spacket.seats[row][col]: outside the packet whatever the memory there
\* holds, if the process may read it.
LookUp(t) ==
  /\ up
  /\ pc[t] = "look"
  /\ \E s \in IF word[t] \in Words THEN {spacket[word[t]]} ELSE Garbage :
       seat' = [seat EXCEPT ![t] = s]
  /\ up' \in IF word[t] \in Words THEN {TRUE} ELSE BOOLEAN
  /\ Goto(t, "inquiry?")
  /\ OthersKept
  /\ UNCHANGED <<mutx, pktVars, row, word, stray>>

\* One test of the if chain on qpacket.command, which is read anew for each.
Test(t, here, command, yes, no) ==
  /\ up
  /\ pc[t] = here
  /\ Goto(t, IF qpacket.command = command THEN yes ELSE no)
  /\ OthersKept
  /\ UNCHANGED <<mutx, up, pktVars, row, word, seat, stray>>

\* A bug: an inquiry is not answered.
DispatchSilent(t) ==
  \/ Test(t, "inquiry?", Inquiry, "read",    "reserve?")
  \/ Test(t, "reserve?", Reserve, "reserve", "cancel?")
  \/ Test(t, "cancel?",  Cancel,  "cancel",  "quit?")
  \/ Test(t, "quit?",    Quit,    "quit",    "read")

\* The chain: a command that changes while it is tested may meet none of them,
\* and the handler goes back to read() without a reply.
Dispatch(t) ==
  \/ Test(t, "inquiry?", Inquiry, "inquiry", "reserve?")
  \/ Test(t, "reserve?", Reserve, "reserve", "cancel?")
  \/ Test(t, "cancel?",  Cancel,  "cancel",  "quit?")
  \/ Test(t, "quit?",    Quit,    "quit",    "read")

\* spacket.result = 0
Inquire(t) ==
  /\ up
  /\ pc[t] = "inquiry"
  /\ spacket' = [spacket EXCEPT ![ResultW] = 0]
  /\ Goto(t, "reply")
  /\ OthersKept
  /\ UNCHANGED <<mutx, up, qpacket, row, word, seat, stray>>

\* spacket.seatno = qpacket.seatno
NoteSeat(t) ==
  /\ up
  /\ pc[t] \in {"reserve", "cancel"}
  /\ spacket' = [spacket EXCEPT ![SeatnoW] = qpacket.seatno]
  /\ Goto(t, IF pc[t] = "reserve" THEN "lock" ELSE "decide")
  /\ OthersKept
  /\ UNCHANGED <<mutx, up, qpacket, row, word, seat, stray>>

\* lock; is the number beyond the last seat?
CheckNumber(t) ==
  /\ up
  /\ pc[t] = "lock"
  /\ mutx = NoConn
  /\ mutx' = t
  /\ Goto(t, IF qpacket.seatno > ROWS * COLS THEN "refuse" ELSE "judge")
  /\ OthersKept
  /\ UNCHANGED <<up, pktVars, row, word, seat, stray>>

\* spacket.result = -1; unlock
RefuseSeat(t) ==
  /\ up
  /\ pc[t] = "refuse"
  /\ spacket' = [spacket EXCEPT ![ResultW] = -1]
  /\ mutx' = NoConn
  /\ Goto(t, "reply")
  /\ OthersKept
  /\ UNCHANGED <<up, qpacket, row, word, seat, stray>>

\* A bug: a seat that is taken is given away again.
ReserveAny(t) ==
  /\ up
  /\ pc[t] = "judge"
  /\ spacket' = [spacket EXCEPT ![ResultW] = 0]
  /\ Goto(t, "take")
  /\ OthersKept
  /\ UNCHANGED <<mutx, up, qpacket, row, word, seat, stray>>

\* Was the seat taken when the handler looked?  Then spacket.result = -2 and
\* unlock, otherwise spacket.result = 0 and the seat is next.
ReserveSeat(t) ==
  /\ up
  /\ pc[t] = "judge"
  /\ spacket' = [spacket EXCEPT ![ResultW] = IF seat[t] # 0 THEN -2 ELSE 0]
  /\ mutx' = IF seat[t] # 0 THEN NoConn ELSE mutx
  /\ Goto(t, IF seat[t] # 0 THEN "reply" ELSE "take")
  /\ OthersKept
  /\ UNCHANGED <<up, qpacket, row, word, seat, stray>>

\* spacket.seats[row][col] = v.  What a write outside the packet hits depends
\* on the build; the server is followed up to there.
WriteSeat(t, v) ==
  IF word[t] \in Words
    THEN /\ spacket' = [spacket EXCEPT ![word[t]] = v]
         /\ UNCHANGED <<up, stray>>
    ELSE /\ up' = FALSE
         /\ stray' = TRUE
         /\ UNCHANGED spacket

\* spacket.seats[row][col] = clnt_sock; unlock
TakeSeat(t) ==
  /\ up
  /\ pc[t] = "take"
  /\ WriteSeat(t, sock[t])
  /\ mutx' = NoConn
  /\ Goto(t, "reply")
  /\ OthersKept
  /\ UNCHANGED <<qpacket, row, word, seat>>

\* A bug: the seat is not looked at.
CancelAny(t) ==
  /\ up
  /\ pc[t] = "decide"
  /\ spacket' = [spacket EXCEPT ![ResultW] = IF seat[t] = 0 THEN -3 ELSE 0]
  /\ Goto(t, IF seat[t] = 0 THEN "reply" ELSE "free")
  /\ OthersKept
  /\ UNCHANGED <<mutx, up, qpacket, row, word, seat, stray>>

\* Without the lock: a free seat, then another descriptor's seat, is refused.
CancelSeat(t) ==
  /\ up
  /\ pc[t] = "decide"
  /\ spacket' = [spacket EXCEPT ![ResultW] = IF seat[t] = 0 THEN -3
                                             ELSE IF seat[t] # sock[t] THEN -4
                                             ELSE 0]
  /\ Goto(t, IF seat[t] = 0 \/ seat[t] # sock[t] THEN "reply" ELSE "free")
  /\ OthersKept
  /\ UNCHANGED <<mutx, up, qpacket, row, word, seat, stray>>

\* spacket.seats[row][col] = 0
FreeSeat(t) ==
  /\ up
  /\ pc[t] = "free"
  /\ WriteSeat(t, 0)
  /\ Goto(t, "reply")
  /\ OthersKept
  /\ UNCHANGED <<mutx, qpacket, row, word, seat>>

\* write(clnt_sock, &spacket, sizeof(spacket)); a reply is its result field.
Reply(t) ==
  LET c == fdtab[sock[t]]
  IN  /\ up
      /\ pc[t] = "reply"
      /\ IF c = NoConn
           THEN UNCHANGED <<up, peer, replies>>
           ELSE /\ up' = ~WriteKills(peer[c])
                /\ \E p \in AfterWrite(peer[c]) : peer' = [peer EXCEPT ![c] = p]
                /\ replies' = IF peer[c] = "open"
                                THEN [replies EXCEPT ![c] = Append(@, spacket[ResultW])]
                                ELSE replies
      /\ Forget(t)
      /\ Goto(t, "read")
      /\ LoopKept
      /\ UNCHANGED <<mutx, inbox, pktVars, file, row, clntVars, histVars>>

\* lock; removal block; close(clnt_sock); unlock; the thread returns.  The
\* seats of the client stay taken.
QuitClient(t) ==
  /\ up
  /\ pc[t] = "quit"
  /\ mutx = NoConn
  /\ RemoveSelf(t)
  /\ fdtab' = [fdtab EXCEPT ![sock[t]] = NoConn]
  /\ Forget(t)
  /\ Goto(t, "done")
  /\ UNCHANGED <<mainVars, mutx, sock, up, netVars, pktVars, file, row, clntVars,
                 histVars>>

-----------------------------------------------------------------------------
Handler(t) ==
  \/ HandlerStart(t) \/ ReadCall(t) \/ Receive(t)
  \/ LocateRow(t) \/ LocateCol(t) \/ LookUp(t)
  \/ Dispatch(t) \/ Inquire(t) \/ NoteSeat(t)
  \/ CheckNumber(t) \/ RefuseSeat(t) \/ ReserveSeat(t) \/ TakeSeat(t)
  \/ CancelSeat(t) \/ FreeSeat(t) \/ Reply(t) \/ QuitClient(t)

Client(c) ==
  ClientAsk(c) \/ ClientShow(c) \/ ClientDie(c)

Main == (\E c \in Conn : MainAccept(c)) \/ MainAppend \/ MainCreate

\* Every user has left or was killed; nothing more need happen.
Idle ==
  /\ \A c \in Conn : peer[c] # "open" \/ c \in left \/ ~up
  /\ UNCHANGED vars

Next ==
  \/ Main
  \/ \E c \in Conn : Client(c) \/ Handler(c)
  \/ Idle

Spec == Init /\ [][Next]_vars

\* Connections far apart, requests one at a time, only existing seats reserved
\* and cancelled, and clients that leave with 4: the use the program is written
\* for.  An inquiry still carries whatever number the client's packet holds.
Orderly ==
  /\ clean'
  /\ own' # own => \A t \in Conn : pc[t] # "start"

OrderlySpec == Init /\ [][Next /\ Orderly]_vars

\* Threads of the server and of the clients are scheduled; users need not type.
OrderlyFairSpec ==
  /\ OrderlySpec
  /\ WF_vars(Main /\ Orderly)
  /\ \A c \in Conn : /\ WF_vars(Handler(c) /\ Orderly)
                     /\ WF_vars(ClientShow(c))

-----------------------------------------------------------------------------
\* Type invariant.
TypeOK ==
  /\ LoopTypeOK(PC)
  /\ up \in BOOLEAN
  /\ peer \in [Conn -> PeerState]
  /\ inbox \in [Conn -> Seq(Request)]
  /\ replies \in [Conn -> Seq(Int)]
  /\ qpacket \in [command : 0 .. Quit, seatno : Numbers \cup {0}]
  /\ spacket \in [Words -> Int]
  /\ file \in [Conn -> Conn \cup {NoConn}]
  /\ row \in [Conn -> Int]
  /\ word \in [Conn -> Int]
  /\ seat \in [Conn -> Int]
  /\ left \subseteq Conn
  /\ sem_one \in [Conn -> 0 .. 1]
  /\ sem_two \in [Conn -> 0 .. 1]
  /\ last \in [Conn -> Request]
  /\ asked \in [Conn -> 0 .. MaxAsk + 1]
  /\ holds \in [Conn -> SUBSET Numbers]
  /\ {clean, wild, stray} \subseteq BOOLEAN

\* clnt_cnt is exact in spite of mixed-up arguments and of quits served twice
\* from a stale request packet: one per listed connection still being served.
CountExact == CountIsExact(Past)

\* No seat number is checked before it is used as an index, and its row and its
\* column may be two different requests' (bus_server.c:96-97).  Still, as long as
\* the numbers sent are seats' or 0, whatever they meet in the shared packets,
\* the server writes nothing outside the response packet.
InPacket == stray => wild

\* Used as intended, a client at its prompt still has every seat it was told it
\* reserved, until it quits or the server crashes, although the seat copy is
\* taken before the lock and cancelling takes no lock.
TicketsHonoured ==
  \A c \in Conn :
    up /\ pc[c] # "done" /\ sem_two[c] = 1 =>
      \A s \in holds[c] : spacket[SeatW(s)] = own[c]

\* Who has a seat once the handler that has decided about it has also written it.
Holder(s) ==
  LET deciding == {t \in Conn : pc[t] \in {"take", "free"} /\ word[t] = SeatW(s)}
      t == CHOOSE u \in deciding : TRUE
  IN  IF deciding = {} THEN spacket[SeatW(s)]
      ELSE IF pc[t] = "take" THEN sock[t] ELSE 0

Booking == INSTANCE SeatBooking WITH
  Customers <- Fds,
  taken <- [s \in Seats |-> Holder(s)],
  verdict <- spacket[ResultW]

\* Used as intended, the handlers decide every request atomically on the
\* current seat map.
ImplementsBooking == Booking!BookingSpec

\* Used as intended, every request is answered: the receiving thread gets a
\* reply, or after a quit the end of the stream, and posts sem_two again.
RequestAnswered ==
  \A c \in Conn : sem_two[c] = 0 ~> sem_two[c] = 1

\* bus_client.c:148 tells a user "Cancellation failed. (The seat was reserved
\* by another person.)": a cancellation goes through only for the person who
\* reserved the seat.
CancelOnlyOwn ==
  \A t \in Conn : pc[t] = "free" => qpacket.seatno \in holds[t]

\* bus_client.c:142 tells a user "Reservation failed. (The seat was already
\* reserved.)": a reservation is not granted on a seat that is taken, not even
\* where no arguments were mixed up, nobody was killed, and all ask for seats.
ReservedRefused ==
  up /\ ArgsIntact /\ (\A c \in Conn : peer[c] = "open" /\ last[c].command = Reserve) =>
    \A t \in Conn, s \in Seats :
      pc[t] = "take" /\ word[t] = SeatW(s) => spacket[SeatW(s)] = 0

=============================================================================

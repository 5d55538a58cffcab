------------------------- MODULE BingoServerProofs -------------------------
(***************************************************************************)
(* BingoInv is an inductive invariant of the bingo server, however its     *)
(* handlers interleave: the types, and that nobody is told END before the  *)
(* board is full.  With ShownInv, who a broadcast has still to come to, it *)
(* shows that every client is sent every claim.  PacedInv is invariant if  *)
(* the server is used one request at a time: a cell goes to who named its  *)
(* number, and clients keep their place in what they are sent.             *)
(***************************************************************************)
EXTENDS BingoServer, AcceptLoopProofs

Past == {"done"}

Loop == LoopInv(PC, Past, Past)

\* TypeOK without the loop's variables.
NetTypeOK ==
  /\ up \in BOOLEAN
  /\ peer \in [Conn -> PeerState]
  /\ inbox \in [Conn -> Seq(Numbers)]
  /\ stream \in [Conn -> Seq(Units)]

PktTypeOK ==
  /\ numbers \in [Cells -> Numbers \cup {0}]
  /\ qnum \in Numbers \cup {0}
  /\ scmd \in {"READY", "RESPONSE", "END"}
  /\ board \in [Cells -> Fds \cup {0}]

OwnTypeOK ==
  /\ file \in [Conn -> Conn \cup {NoConn}]
  /\ idx \in [Conn -> 0 .. Cardinality(Conn)]
  /\ rpc \in [Conn -> {"hello", "packet", "table", "over"}]
  /\ isEnd \in [Conn -> BOOLEAN]
  /\ ready \subseteq Conn
  /\ asked \in [Conn -> 0 .. MaxAsk]
  /\ named \in [Conn -> SUBSET Numbers]

\* The table of descriptors may get shorter between a broadcast's test of i and
\* its use; i stays within what the table once held.
HandlerInv ==
  \A t \in Conn :
    /\ pc[t] \in {"table", "endtable"} => idx[t] < Cardinality(Conn)
    /\ pc[t] = "blocked" => file[t] # NoConn

\* The command says END only once the board is full, and the board stays full
\* between a handler's scan of it and the broadcast.
EndInv ==
  /\ scmd = "END" => BoardFull
  /\ \A t \in Conn : pc[t] = "end" => BoardFull
  /\ \A c \in Conn : isEnd[c] => BoardFull
  /\ \A c \in Conn : \A i \in 1 .. Len(stream[c]) :
       stream[c][i].cmd = "END" => BoardFull /\ stream[c][i].full

\* The cells a handler's scan has passed are taken.
ScanInv ==
  /\ cell \in [Conn -> Cells]
  /\ shown \in [Conn -> SUBSET Cells]
  /\ \A t \in Conn : \A x \in 1 .. cell[t] - 1 : board[x] # 0

BingoInv ==
  /\ Loop
  /\ NetTypeOK
  /\ PktTypeOK
  /\ OwnTypeOK
  /\ HandlerInv
  /\ EndInv
  /\ ScanInv

\* What the loop's invariant does not cover.
Rest == NetTypeOK /\ PktTypeOK /\ OwnTypeOK /\ HandlerInv /\ EndInv

\* The cells that are taken stay with who has them.
BoardKept == \A x \in Cells : board[x] # 0 => board'[x] = board[x]
-----------------------------------------------------------------------------
\* The bingo handler's labels fit the loop's lemmas.
LEMMA PCLabels == LabelsOK(PC, Past, Past)
BY DEF LabelsOK, PC, Past

\* Init establishes BingoInv.
LEMMA InitBingoInv == Init => BingoInv
<1> SUFFICES ASSUME Init PROVE BingoInv
  OBVIOUS
<1> USE DEF Init, LoopInit
<1>1. /\ Cardinality(Conn) \in Nat /\ MAX_CLNT \in Nat /\ NoConn \notin Conn
      /\ CELLS \in Nat \ {0} /\ MaxAsk \in Nat
  BY ConnAssumption, BingoAssumption, FS_CardinalityType
<1>2. Registered(Past) = {}
  BY DEF Registered
<1>3. CountIsExact(Past)
  BY <1>2, FS_EmptySet DEF CountIsExact
<1>4. LoopTypeOK(PC)
  BY <1>1 DEF LoopTypeOK, PC, Fds, Slots
<1>5. Bookkeeping
  BY DEF Bookkeeping, Started
<1>6. TableIs(Past) /\ FdsKept(Past)
  <2>1. 0 .. clnt_cnt - 1 = {}
    OBVIOUS
  <2>2. ListedFds = {} /\ {own[c] : c \in Registered(Past)} = {}
    BY <1>2, <2>1 DEF ListedFds
  <2> QED
    BY <2>1, <2>2 DEF TableIs, FdsKept
<1>7. Loop
  BY <1>3, <1>4, <1>5, <1>6 DEF Loop, LoopInv
<1>8. <<>> \in Seq(Numbers) /\ <<>> \in Seq(Units) /\ Len(<<>>) = 0
  BY EmptySeq
<1>9. NetTypeOK /\ PktTypeOK /\ OwnTypeOK
  BY <1>1, <1>8 DEF NetTypeOK, PktTypeOK, OwnTypeOK, PeerState, Numbers
<1>10. HandlerInv /\ EndInv
  BY <1>8 DEF HandlerInv, EndInv
<1>11. ScanInv
  BY <1>1 DEF ScanInv, Cells
<1> QED
  BY <1>7, <1>9, <1>10, <1>11 DEF BingoInv

\* Every step keeps the loop's invariant.
LEMMA NextLoop ==
  ASSUME Loop, [Next]_vars
  PROVE  Loop'
<1>1. LoopInv(PC, Past, Past) /\ LoopTypeOK(PC) /\ Bookkeeping
  BY DEF Loop, LoopInv
<1>2. ASSUME UNCHANGED loopVars PROVE Loop'
  BY <1>1, <1>2, StutterKeeps DEF Loop
<1>3. CASE UNCHANGED vars
  BY <1>2, <1>3 DEF vars
<1>4. ASSUME NEW c \in Conn, Receiver(c) \/ Ask(c) \/ Leave(c) \/ Die(c) PROVE Loop'
  BY <1>2, <1>4 DEF Receiver, ReadHello, ReadPacket, ReadTable, Ask, Leave, Die
<1>5. ASSUME Main PROVE Loop'
  <2>1. ASSUME NEW n \in Numbers, Draw(n) PROVE Loop'
    BY <1>2, <2>1 DEF Draw
  <2> QED
    BY <1>1, <1>5, <2>1, PCLabels, AcceptKeeps, EnlistKeeps, CreateKeeps
      DEF Main, MainAccept, MainAppend, MainCreate, Loop
<1>6. ASSUME NEW t \in Conn, HandlerStart(t) PROVE Loop'
  BY <1>1, <1>6, PCLabels, TakeArgKeeps DEF HandlerStart, PC, Past, Loop
\* A handler's step from one label of its loop to another.
<1>7. ASSUME NEW t \in Conn, NEW next \in PC \ {"none", "start", "done"},
             pc[t] \in PC \ {"none", "start", "done"}, Goto(t, next),
             mutx' \in Conn \cup {NoConn}, UNCHANGED <<mainVars, regVars, fdtab, sock>>
      PROVE  Loop'
  BY <1>1, <1>7, PCLabels, MoveKeeps DEF Past, Loop
<1>8. ASSUME NEW t \in Conn,
             \/ SetReady(t) \/ Greet(t) \/ ReadCall(t) \/ Receive(t) \/ Check(t)
             \/ Scan(t) \/ SetEnd(t) \/ EndPacket(t) \/ EndTable(t) \/ SetResponse(t)
             \/ SendPacket(t) \/ SendTable(t)
      PROVE  Loop'
  <2>1. UNCHANGED <<mainVars, regVars, mutx, fdtab, sock>>
    BY <1>8 DEF SetReady, Greet, ReadCall, Receive, Check, Scan, SetEnd, EndPacket, EndTable,
         SetResponse, SetCommand, SendPacket, SendTable
  <2>2. /\ pc[t] \in PC \ {"none", "start", "done"}
        /\ \E next \in PC \ {"none", "start", "done"} : Goto(t, next)
    <3>1. pc \in [Conn -> PC]
      BY <1>1 DEF LoopTypeOK
    <3>2. CASE Scan(t)
      <4>1. pc[t] = "scan"
        BY <3>2 DEF Scan
      <4>2. \E next \in {"scan", "end", "response"} : Goto(t, next)
        <5>1. UNCHANGED pc => Goto(t, "scan")
          BY <3>1, <4>1 DEF Goto
        <5> QED
          BY <3>2, <5>1 DEF Scan
      <4> QED
        BY <4>1, <4>2 DEF PC
    <3> QED
      BY <1>8, <3>2 DEF SetReady, Greet, ReadCall, Receive, Check, SetEnd, EndPacket,
           EndTable, SetResponse, SetCommand, SendPacket, SendTable, PC
  <2>3. mutx' \in Conn \cup {NoConn}
    BY <1>1, <2>1 DEF LoopTypeOK
  <2> QED
    BY <1>7, <2>1, <2>2, <2>3
<1>9. ASSUME NEW t \in Conn, Claim(t) \/ Unlock(t) PROVE Loop'
  <2>1. /\ UNCHANGED <<mainVars, regVars, fdtab, sock>> /\ mutx' \in Conn \cup {NoConn}
        /\ pc[t] \in PC \ {"none", "start", "done"}
        /\ \E next \in PC \ {"none", "start", "done"} : Goto(t, next)
    BY <1>9 DEF Claim, Unlock, PC
  <2> QED
    BY <1>7, <2>1
<1>10. ASSUME NEW t \in Conn, Remove(t) PROVE Loop'
  <2>1. /\ pc[t] = "remove" /\ Goto(t, "done") /\ RemoveSelf(t)
        /\ fdtab' = [fdtab EXCEPT ![sock[t]] = NoConn]
        /\ UNCHANGED <<mainVars, sock>> /\ mutx' \in Conn \cup {NoConn}
    BY <1>10, <1>1 DEF Remove, LoopTypeOK
  <2> QED
    BY <1>1, <2>1, PCLabels, LeaveKeeps DEF Past, Loop
<1> QED
  BY <1>3, <1>4, <1>5, <1>6, <1>8, <1>9, <1>10 DEF Next, Handler
-----------------------------------------------------------------------------
\* What write() changes.
LEMMA WriteEffect ==
  ASSUME LoopTypeOK(PC), NetTypeOK, NEW fd \in Fds \cup {NoFd}, NEW units \in Seq(Units),
         Write(fd, units)
  PROVE  /\ up' \in BOOLEAN /\ peer' \in [Conn -> PeerState]
         /\ stream' \in [Conn -> Seq(Units)]
         /\ \A c \in Conn : peer'[c] = "open" <=> peer[c] = "open"
         /\ \A c \in Conn :
              stream'[c] = IF fd # NoFd /\ fdtab[fd] = c /\ peer[c] = "open"
                             THEN stream[c] \o units ELSE stream[c]
<1> DEFINE d == IF fd = NoFd THEN NoConn ELSE fdtab[fd]
<1>1. /\ d \in Conn \cup {NoConn}
      /\ \A c \in Conn : d = c <=> fd # NoFd /\ fdtab[fd] = c
  BY ConnAssumption DEF LoopTypeOK
<1>2. CASE d = NoConn
  BY <1>1, <1>2, ConnAssumption DEF Write, NetTypeOK
<1>3. CASE d # NoConn
  <2>1. /\ up' = ~WriteKills(peer[d])
        /\ \E p \in AfterWrite(peer[d]) : peer' = [peer EXCEPT ![d] = p]
        /\ stream' = IF peer[d] = "open"
                       THEN [stream EXCEPT ![d] = @ \o units] ELSE stream
    BY <1>3 DEF Write
  <2>2. d \in Conn
    BY <1>1, <1>3
  <2> HIDE DEF d
  <2>3. stream[d] \o units \in Seq(Units)
    BY <2>2, ConcatProperties DEF NetTypeOK
  <2>4. stream' \in [Conn -> Seq(Units)]
    BY <2>1, <2>2, <2>3 DEF NetTypeOK
  <2>5. up' \in BOOLEAN /\ peer' \in [Conn -> PeerState]
        /\ \A c \in Conn : peer'[c] = "open" <=> peer[c] = "open"
    BY <2>1, <2>2 DEF NetTypeOK, PeerState, AfterWrite, WriteKills
  <2>6. \A c \in Conn : stream'[c] = IF d = c /\ peer[c] = "open"
                                        THEN stream[c] \o units ELSE stream[c]
    BY <2>1, <2>2 DEF NetTypeOK
  <2> QED
    BY <1>1, <2>4, <2>5, <2>6
<1> QED
  BY <1>2, <1>3

\* A packet on its way is as the response packet was when it was sent.
LEMMA PacketUnits ==
  ASSUME PktTypeOK, EndInv
  PROVE  /\ SPacket \in Seq(Units) /\ Len(SPacket) = 1
         /\ SPacket[1] \in Packets
         /\ SPacket[1].cmd = "END" => BoardFull /\ SPacket[1].full
<1>1. [cmd |-> scmd, full |-> BoardFull] \in Packets
  BY DEF PktTypeOK, Packets, BoardFull
<1> QED
  BY <1>1 DEF SPacket, EndInv, Units

\* The table is two units, and neither is a packet.
LEMMA TableUnits ==
  /\ Table \in Seq(Units) /\ Len(Table) = 2
  /\ \A i \in 1 .. 2 : Table[i] \notin Packets /\ Table[i].cmd # "END"
BY DEF Table, Units, Head1, Zeros, Packets

\* A write of units none of which says END too early.
LEMMA WriteKeeps ==
  ASSUME LoopTypeOK(PC), NetTypeOK, EndInv, NEW fd \in Fds \cup {NoFd},
         NEW units \in Seq(Units), Write(fd, units),
         \A i \in 1 .. Len(units) : units[i].cmd = "END" => BoardFull /\ units[i].full,
         BoardFull => BoardFull'
  PROVE  /\ up' \in BOOLEAN /\ peer' \in [Conn -> PeerState]
         /\ stream' \in [Conn -> Seq(Units)]
         /\ \A c \in Conn : \A i \in 1 .. Len(stream'[c]) :
              stream'[c][i].cmd = "END" => BoardFull' /\ stream'[c][i].full
<1>1. /\ up' \in BOOLEAN /\ peer' \in [Conn -> PeerState]
      /\ stream' \in [Conn -> Seq(Units)]
      /\ \A c \in Conn :
           stream'[c] = IF fd # NoFd /\ fdtab[fd] = c /\ peer[c] = "open"
                          THEN stream[c] \o units ELSE stream[c]
  BY WriteEffect
<1>2. ASSUME NEW c \in Conn, stream'[c] = stream[c] \o units,
             NEW i \in 1 .. Len(stream'[c]), stream'[c][i].cmd = "END"
      PROVE  BoardFull' /\ stream'[c][i].full
  <2> DEFINE q == stream[c]
             r == stream'[c]
  <2>1. q \in Seq(Units) /\ Len(q) \in Nat /\ Len(units) \in Nat
    BY LenProperties DEF NetTypeOK
  <2>2. /\ Len(r) = Len(q) + Len(units)
        /\ \A k \in 1 .. Len(q) + Len(units) :
             r[k] = IF k <= Len(q) THEN q[k] ELSE units[k - Len(q)]
    BY <1>2, <2>1, ConcatProperties
  <2>3. \A k \in 1 .. Len(q) : q[k].cmd = "END" => BoardFull /\ q[k].full
    BY DEF EndInv
  <2> HIDE DEF q, r
  <2>4. CASE i <= Len(q)
    <3>1. i \in 1 .. Len(q) /\ r[i] = q[i]
      BY <2>1, <2>2, <2>4, <1>2 DEF r
    <3> QED
      BY <1>2, <2>3, <3>1 DEF r
  <2>5. CASE ~(i <= Len(q))
    <3>1. i - Len(q) \in 1 .. Len(units) /\ r[i] = units[i - Len(q)]
      BY <2>1, <2>2, <2>5, <1>2 DEF r
    <3> QED
      BY <1>2, <3>1 DEF r
  <2> QED
    BY <2>4, <2>5
<1>3. ASSUME NEW c \in Conn, stream'[c] = stream[c]
      PROVE  \A i \in 1 .. Len(stream'[c]) :
               stream'[c][i].cmd = "END" => BoardFull' /\ stream'[c][i].full
  BY <1>3 DEF EndInv
<1> QED
  BY <1>1, <1>2, <1>3-----------------------------------------------------------------------------
\* A step that claims, sends and takes nothing.
LEMMA EndKept ==
  ASSUME EndInv, UNCHANGED <<board, stream, isEnd>>,
         scmd' = "END" => scmd = "END" \/ BoardFull,
         \A t \in Conn : pc'[t] = "end" => pc[t] = "end" \/ BoardFull
  PROVE  EndInv'
BY DEF EndInv, BoardFull

\* main's steps, a handler's first, and a step of nobody.
LEMMA LoopStep ==
  ASSUME Rest, Loop, Main \/ UNCHANGED vars \/ \E t \in Conn : HandlerStart(t)
  PROVE  Rest' /\ BoardKept
<1> USE DEF Rest
<1>1. LoopTypeOK(PC) /\ Bookkeeping
  BY DEF Loop, LoopInv
<1>2. /\ UNCHANGED <<up, peer, inbox, stream, qnum, scmd, board, file, idx>>
      /\ UNCHANGED <<rpc, isEnd, ready, asked, named>>
      /\ UNCHANGED numbers \/ \E n \in Numbers : Draw(n)
  BY DEF Main, Draw, MainAccept, MainAppend, MainCreate, vars, HandlerStart, netVars,
         pktVars, hdlVars, clntVars
<1>3. numbers' \in [Cells -> Numbers \cup {0}]
  BY <1>2 DEF PktTypeOK, Draw
<1>4. NetTypeOK' /\ PktTypeOK' /\ OwnTypeOK' /\ BoardKept
  BY <1>2, <1>3 DEF NetTypeOK, PktTypeOK, OwnTypeOK, BoardKept
<1>5. \A t \in Conn : pc'[t] = pc[t] \/ pc'[t] \in {"start", "ready"}
  <2>1. CASE UNCHANGED pc
    BY <2>1
  <2>2. CASE \E next \in {"start", "ready"}, t \in Conn : pc' = [pc EXCEPT ![t] = next]
    BY <1>1, <2>2 DEF LoopTypeOK
  <2>3. MainCreate => \E next \in {"start", "ready"}, t \in Conn : pc' = [pc EXCEPT ![t] = next]
    BY <1>1 DEF MainCreate, Create, Bookkeeping
  <2>4. ASSUME NEW t \in Conn, HandlerStart(t)
        PROVE  pc' = [pc EXCEPT ![t] = "ready"]
    BY <2>4 DEF HandlerStart, TakeArg
  <2>5. ASSUME NEW n \in Numbers, Draw(n) PROVE UNCHANGED pc
    BY <2>5 DEF Draw, loopVars
  <2>6. \A c \in Conn : MainAccept(c) => UNCHANGED pc
    BY DEF MainAccept, Accept
  <2>7. MainAppend \/ UNCHANGED vars => UNCHANGED pc
    BY DEF MainAppend, Enlist, vars, loopVars
  <2> QED
    BY <2>1, <2>2, <2>3, <2>4, <2>5, <2>6, <2>7 DEF Main
<1>6. HandlerInv'
  BY <1>2, <1>5 DEF HandlerInv
<1>7. EndInv'
  BY <1>2, <1>5, EndKept
<1> QED
  BY <1>4, <1>6, <1>7

\* A client sends a request, leaves or is killed.
LEMMA AskStep ==
  ASSUME Rest, Loop, NEW c \in Conn, Ask(c) \/ Leave(c) \/ Die(c)
  PROVE  Rest' /\ BoardKept
<1> USE DEF Rest
<1>1. /\ UNCHANGED <<up, stream, numbers, qnum, scmd, board, file, idx>>
      /\ UNCHANGED <<pc, rpc, isEnd, ready>>
  BY DEF Ask, Leave, Die, loopVars, pktVars, hdlVars, clntVars
<1>2. /\ inbox' \in [Conn -> Seq(Numbers)] /\ peer' \in [Conn -> PeerState]
      /\ asked' \in [Conn -> 0 .. MaxAsk] /\ named' \in [Conn -> SUBSET Numbers]
  <2>1. CASE Leave(c) \/ Die(c)
    BY <2>1 DEF Leave, Die, AfterClose, clntVars, NetTypeOK, OwnTypeOK, PeerState
  <2>2. CASE Ask(c)
    <3>1. PICK n \in Numbers : /\ inbox' = [inbox EXCEPT ![c] = Append(@, n)]
                               /\ named' = [named EXCEPT ![c] = @ \cup {n}]
      BY <2>2 DEF Ask
    <3>2. Append(inbox[c], n) \in Seq(Numbers)
      BY AppendProperties DEF NetTypeOK
    <3>3. peer' = peer /\ asked' = IF MaxAsk = 0 THEN asked ELSE [asked EXCEPT ![c] = @ + 1]
      BY <2>2 DEF Ask
    <3>4. MaxAsk # 0 => asked[c] + 1 \in 0 .. MaxAsk
      BY <2>2, BingoAssumption DEF Ask, OwnTypeOK
    <3>5. inbox' \in [Conn -> Seq(Numbers)] /\ peer' \in [Conn -> PeerState]
      BY <3>1, <3>2, <3>3 DEF NetTypeOK
    <3>6. named' \in [Conn -> SUBSET Numbers]
      BY <3>1 DEF OwnTypeOK
    <3>7. asked' \in [Conn -> 0 .. MaxAsk]
      BY <3>3, <3>4 DEF OwnTypeOK
    <3> QED
      BY <3>5, <3>6, <3>7
  <2> QED
    BY <2>1, <2>2
<1>3. NetTypeOK' /\ PktTypeOK' /\ OwnTypeOK' /\ HandlerInv' /\ BoardKept
  BY <1>1, <1>2 DEF NetTypeOK, PktTypeOK, OwnTypeOK, HandlerInv, BoardKept
<1>4. EndInv'
  BY <1>1, EndKept
<1> QED
  BY <1>3, <1>4

\* What a client reads off its stream leaves the rest as it is.
LEMMA ReceiveStep ==
  ASSUME Rest, Loop, NEW c \in Conn, Receiver(c)
  PROVE  Rest' /\ BoardKept
<1> USE DEF Rest
<1>1. /\ UNCHANGED <<up, peer, inbox, numbers, qnum, scmd, board, file, idx>>
      /\ UNCHANGED <<pc, asked, named>> /\ stream[c] # <<>>
  BY DEF Receiver, ReadHello, ReadPacket, ReadTable, loopVars, pktVars, hdlVars
<1> DEFINE q == stream[c]
<1>2. q \in Seq(Units)
  BY DEF NetTypeOK
<1>3. /\ Head(q) = q[1] /\ Head(q) \in Units /\ Len(q) \in Nat /\ Len(q) >= 1
      /\ Tail(q) \in Seq(Units) /\ Len(Tail(q)) = Len(q) - 1
      /\ \A i \in 1 .. Len(q) - 1 : Tail(q)[i] = q[i + 1]
  BY <1>1, <1>2, Behind
<1> DEFINE OfIt(r) == /\ r \in Seq(Units)
                      /\ \A i \in 1 .. Len(r) : \E j \in 1 .. Len(q) : r[i] = q[j]
<1>4. OfIt(Tail(q))
  BY <1>3
<1>5. \E r : OfIt(r) /\ stream' = [stream EXCEPT ![c] = r]
  <2>1. CASE ReadHello(c) \/ ReadPacket(c)
    BY <1>4, <2>1 DEF ReadHello, ReadPacket
  <2>2. CASE ReadTable(c)
    <3>1. stream' = [stream EXCEPT ![c] = IF Len(q) = 1 THEN <<>> ELSE SubSeq(q, 3, Len(q))]
      BY <2>2 DEF ReadTable
    <3>2. OfIt(<<>>)
      BY EmptySeq
    <3>3. OfIt(SubSeq(q, 3, Len(q)))
      <4>1. \A i \in 3 .. Len(q) : q[i] \in Units
        BY <1>2, <1>3, ElementOfSeq
      <4>2. /\ SubSeq(q, 3, Len(q)) \in Seq(Units)
            /\ Len(SubSeq(q, 3, Len(q))) = IF 3 <= Len(q) THEN Len(q) - 3 + 1 ELSE 0
            /\ \A i \in 1 .. Len(q) - 3 + 1 : SubSeq(q, 3, Len(q))[i] = q[3 + i - 1]
        BY <1>3, <4>1, SubSeqProperties
      <4>3. \A i \in 1 .. Len(SubSeq(q, 3, Len(q))) :
              i \in 1 .. Len(q) - 3 + 1 /\ 3 + i - 1 \in 1 .. Len(q)
        BY <1>3, <4>2
      <4> QED
        BY <4>2, <4>3
    <3> QED
      BY <3>1, <3>2, <3>3
  <2> QED
    BY <2>1, <2>2 DEF Receiver
<1>6. PICK r : OfIt(r) /\ stream' = [stream EXCEPT ![c] = r]
  BY <1>5
<1>7. stream' \in [Conn -> Seq(Units)]
  BY <1>6 DEF NetTypeOK
<1>8. ASSUME NEW d \in Conn, NEW i \in 1 .. Len(stream'[d]), stream'[d][i].cmd = "END"
      PROVE  BoardFull /\ stream'[d][i].full
  <2>1. CASE d = c
    <3>1. stream'[d] = r
      BY <1>6, <2>1 DEF NetTypeOK
    <3>2. PICK j \in 1 .. Len(q) : r[i] = q[j]
      BY <1>6, <1>8, <3>1
    <3> QED
      BY <1>8, <3>1, <3>2 DEF EndInv
  <2>2. CASE d # c
    <3>1. stream'[d] = stream[d]
      BY <1>6, <2>2 DEF NetTypeOK
    <3> QED
      BY <1>8, <3>1 DEF EndInv
  <2> QED
    BY <2>1, <2>2
<1>9. /\ rpc' \in [Conn -> {"hello", "packet", "table", "over"}]
      /\ ready' \subseteq Conn
      /\ isEnd' = isEnd \/ isEnd' = [isEnd EXCEPT ![c] = Head(q).cmd = "END"]
  BY DEF Receiver, ReadHello, ReadPacket, ReadTable, OwnTypeOK
<1>10. isEnd' \in [Conn -> BOOLEAN] /\ \A d \in Conn : isEnd'[d] => BoardFull
  <2>1. Head(q).cmd = "END" => BoardFull
    BY <1>3 DEF EndInv
  <2> QED
    BY <1>9, <2>1 DEF OwnTypeOK, EndInv
<1>11. NetTypeOK' /\ PktTypeOK' /\ HandlerInv' /\ BoardKept
  BY <1>1, <1>7 DEF NetTypeOK, PktTypeOK, HandlerInv, BoardKept
<1>12. OwnTypeOK'
  BY <1>1, <1>9, <1>10 DEF OwnTypeOK
<1>13. EndInv'
  BY <1>1, <1>8, <1>10 DEF EndInv, BoardFull
<1> QED
  BY <1>11, <1>12, <1>13

\* A handler sets the command, reads, scans the board or leaves.
LEMMA QuietHandlerStep ==
  ASSUME Rest, Loop, ScanInv, NEW t \in Conn,
         \/ SetReady(t) \/ SetEnd(t) \/ SetResponse(t) \/ ReadCall(t) \/ Receive(t)
         \/ Check(t) \/ Scan(t) \/ Unlock(t) \/ Remove(t)
  PROVE  Rest' /\ BoardKept
<1> USE DEF Rest
<1>1. LoopTypeOK(PC) /\ Bookkeeping
  BY DEF Loop, LoopInv
<1>2. /\ UNCHANGED <<up, stream, numbers, board, idx>>
      /\ UNCHANGED <<rpc, isEnd, ready, asked, named>>
      /\ \A u \in Conn : u # t => pc'[u] = pc[u]
      /\ pc'[t] \in {"greet", "claim", "endpacket", "check", "blocked", "read", "end",
                     "response", "scan", "remove", "done"}
  BY <1>1 DEF SetReady, SetEnd, SetResponse, SetCommand, ReadCall, Receive, Check, Scan,
     Unlock, Remove, Goto, netVars, pktVars, hdlVars, clntVars, LoopTypeOK
<1>3. scmd' \in {"READY", "RESPONSE", "END"} /\ (scmd' = "END" => scmd = "END" \/ BoardFull)
  BY DEF SetReady, SetEnd, SetResponse, SetCommand, ReadCall, Receive, Check, Scan, Unlock,
         Remove, pktVars, EndInv, PktTypeOK
<1>4. pc'[t] = "end" => BoardFull
  <2>1. CASE Scan(t)
    <3>1. pc[t] = "scan" /\ cell[t] \in Cells /\ CELLS \in Nat
      BY <2>1, BingoAssumption DEF Scan, ScanInv
    <3>2. SUFFICES ASSUME pc'[t] = "end" PROVE BoardFull
      OBVIOUS
    <3>3. board[cell[t]] # 0 /\ cell[t] = CELLS
      BY <1>1, <2>1, <3>1, <3>2 DEF Scan, Goto, LoopTypeOK
    <3>4. \A x \in 1 .. cell[t] - 1 : board[x] # 0
      BY DEF ScanInv
    <3> QED
      BY <3>1, <3>3, <3>4 DEF BoardFull, Cells
  <2> QED
    BY <1>1, <2>1 DEF SetReady, SetEnd, SetResponse, SetCommand, ReadCall, Receive, Check,
       Unlock, Remove, Goto, LoopTypeOK
<1>5. /\ inbox' \in [Conn -> Seq(Numbers)] /\ peer' \in [Conn -> PeerState]
      /\ qnum' \in Numbers \cup {0}
      /\ file' \in [Conn -> Conn \cup {NoConn}]
      /\ \A u \in Conn : pc'[u] = "blocked" => file'[u] # NoConn
  <2>1. CASE \/ SetReady(t) \/ SetEnd(t) \/ SetResponse(t) \/ Check(t) \/ Scan(t)
             \/ Unlock(t) \/ Remove(t)
    <3>1. UNCHANGED <<inbox, peer, qnum, file>> /\ pc'[t] # "blocked"
      BY <1>1, <2>1 DEF SetReady, SetEnd, SetResponse, SetCommand, Check, Scan, Unlock, Remove, Goto,
         netVars, pktVars, hdlVars, LoopTypeOK
    <3> QED
      BY <1>2, <3>1 DEF NetTypeOK, PktTypeOK, OwnTypeOK, HandlerInv
  <2>2. CASE ReadCall(t)
    <3>1. /\ pc[t] = "read" /\ file' = [file EXCEPT ![t] = fdtab[sock[t]]]
          /\ UNCHANGED <<inbox, peer, qnum>>
          /\ pc' = [pc EXCEPT ![t] = IF file'[t] = NoConn THEN "check" ELSE "blocked"]
      BY <2>2 DEF ReadCall, Goto, netVars, pktVars
    <3>2. fdtab[sock[t]] \in Conn \cup {NoConn}
      BY <1>1, <3>1 DEF LoopTypeOK, Bookkeeping, Started
    <3>3. \A u \in Conn : pc'[u] = "blocked" => file'[u] # NoConn
      BY <1>1, <3>1 DEF LoopTypeOK, OwnTypeOK, HandlerInv
    <3> QED
      BY <3>1, <3>2, <3>3 DEF NetTypeOK, PktTypeOK, OwnTypeOK
  <2>3. CASE Receive(t)
    <3>1. PICK c \in Conn : c = file[t]
      BY <2>3 DEF Receive, HandlerInv, OwnTypeOK
    <3>2. /\ file' = [file EXCEPT ![t] = NoConn]
          /\ \/ /\ inbox[c] # <<>>
                /\ qnum' = Head(inbox[c])
                /\ inbox' = [inbox EXCEPT ![c] = Tail(@)]
                /\ UNCHANGED peer
             \/ /\ peer' = [peer EXCEPT ![c] = IF @ = "err" THEN "rst" ELSE @]
                /\ UNCHANGED <<qnum, inbox>>
      BY <2>3, <3>1 DEF Receive
    <3>3. inbox[c] # <<>> => Head(inbox[c]) \in Numbers /\ Tail(inbox[c]) \in Seq(Numbers)
      BY Behind DEF NetTypeOK
    <3>4. inbox' \in [Conn -> Seq(Numbers)] /\ peer' \in [Conn -> PeerState]
      BY <3>2, <3>3 DEF NetTypeOK, PeerState
    <3>5. qnum' \in Numbers \cup {0}
      BY <3>2, <3>3 DEF PktTypeOK
    <3>6. pc'[t] # "blocked" /\ \A u \in Conn : u # t => file'[u] = file[u]
      BY <1>1, <2>3, <3>2 DEF Receive, Goto, LoopTypeOK, OwnTypeOK
    <3> QED
      BY <1>2, <3>2, <3>4, <3>5, <3>6 DEF OwnTypeOK, HandlerInv
  <2> QED
    BY <2>1, <2>2, <2>3
<1>6. NetTypeOK' /\ PktTypeOK' /\ OwnTypeOK' /\ BoardKept
  BY <1>2, <1>3, <1>5 DEF NetTypeOK, PktTypeOK, OwnTypeOK, BoardKept
<1>7. HandlerInv'
  BY <1>2, <1>5 DEF HandlerInv
<1>8. EndInv'
  BY <1>2, <1>3, <1>4, EndKept
<1> QED
  BY <1>6, <1>7, <1>8
\* A free cell goes to the handler that claims it.
LEMMA ClaimStep ==
  ASSUME Rest, Loop, NEW t \in Conn, Claim(t)
  PROVE  Rest' /\ BoardKept
<1> USE DEF Rest
<1>1. /\ UNCHANGED <<up, peer, inbox, stream, numbers, qnum, scmd, file, idx>>
      /\ UNCHANGED <<rpc, isEnd, ready, asked, named>>
      /\ pc' = [pc EXCEPT ![t] = "packet"] /\ pc[t] = "claim"
      /\ board' = [x \in Cells |-> IF numbers[x] = qnum /\ board[x] = 0
                                     THEN sock[t] ELSE board[x]]
  BY DEF Claim, Goto, netVars, hdlVars, clntVars
<1>2. sock[t] \in Fds /\ pc \in [Conn -> PC]
  BY <1>1 DEF Loop, LoopInv, LoopTypeOK, Bookkeeping, Started
<1>3. board' \in [Cells -> Fds \cup {0}] /\ BoardKept
  BY <1>1, <1>2 DEF PktTypeOK, BoardKept
<1>4. BoardFull => BoardFull'
  BY <1>3 DEF BoardKept, BoardFull
<1>5. NetTypeOK' /\ PktTypeOK' /\ OwnTypeOK'
  BY <1>1, <1>3 DEF NetTypeOK, PktTypeOK, OwnTypeOK
<1>6. \A u \in Conn : pc'[u] = pc[u] \/ pc'[u] = "packet"
  BY <1>1, <1>2
<1>7. HandlerInv' /\ EndInv'
  BY <1>1, <1>4, <1>6 DEF HandlerInv, EndInv
<1> QED
  BY <1>3, <1>5, <1>7

\* A handler writes a packet or the table, or its broadcast is over.
LEMMA WriteStep ==
  ASSUME Rest, Loop, NEW t \in Conn,
         Greet(t) \/ EndPacket(t) \/ EndTable(t) \/ SendPacket(t) \/ SendTable(t)
  PROVE  Rest' /\ BoardKept
<1> USE DEF Rest
<1>1. /\ LoopTypeOK(PC) /\ Bookkeeping /\ idx[t] \in 0 .. Cardinality(Conn)
      /\ clnt_cnt \in 0 .. Cardinality(Conn) /\ Cardinality(Conn) \in Nat
      /\ MAX_CLNT \in Nat /\ Cardinality(Conn) < MAX_CLNT
  BY ConnAssumption, FS_CardinalityType DEF Loop, LoopInv, OwnTypeOK, LoopTypeOK
<1>2. /\ UNCHANGED <<inbox, numbers, qnum, scmd, board, file>>
      /\ UNCHANGED <<rpc, isEnd, ready, asked, named>>
      /\ \A u \in Conn : u # t => pc'[u] = pc[u]
      /\ pc'[t] \in {"read", "endtable", "endpacket", "table", "packet", "unlock"}
  <2>1. /\ UNCHANGED <<inbox, numbers, qnum, scmd, board, file>>
        /\ UNCHANGED <<rpc, isEnd, ready, asked, named>>
    BY DEF Greet, EndPacket, EndTable, SendPacket, SendTable, pktVars, clntVars, hdlVars
  <2>2. \E next \in {"read", "endtable", "endpacket", "table", "packet", "unlock"} :
          pc' = [pc EXCEPT ![t] = next]
    BY DEF Greet, EndPacket, EndTable, SendPacket, SendTable, Goto
  <2> QED
    BY <1>1, <2>1, <2>2 DEF LoopTypeOK
<1>3. /\ SPacket \in Seq(Units) /\ Len(SPacket) = 1
      /\ SPacket[1].cmd = "END" => BoardFull /\ SPacket[1].full
  BY PacketUnits
<1>4. \/ \E fd \in Fds \cup {NoFd} : Write(fd, SPacket)
      \/ \E fd \in Fds \cup {NoFd} : Write(fd, Table)
      \/ UNCHANGED <<up, peer, stream>>
  <2>1. CASE Greet(t)
    <3>1. sock[t] \in Fds /\ Write(sock[t], SPacket)
      BY <1>1, <2>1 DEF Greet, SendSPacket, LoopTypeOK, Bookkeeping, Started
    <3> QED
      BY <3>1
  <2>2. ASSUME idx[t] < Cardinality(Conn) PROVE clnt_socks[idx[t]] \in Fds \cup {NoFd}
    BY <1>1, <2>2 DEF LoopTypeOK, Slots
  <2>3. CASE EndTable(t) \/ SendTable(t)
    <3>1. idx[t] < Cardinality(Conn) /\ Write(clnt_socks[idx[t]], Table)
      BY <2>3 DEF EndTable, SendTable, HandlerInv
    <3> QED
      BY <2>2, <3>1
  <2>4. CASE EndPacket(t) \/ SendPacket(t)
    <3>1. CASE idx[t] < clnt_cnt
      <4>1. Write(clnt_socks[idx[t]], SPacket) /\ idx[t] < Cardinality(Conn)
        BY <1>1, <2>4, <3>1 DEF EndPacket, SendPacket, SendSPacket
      <4> QED
        BY <2>2, <4>1
    <3>2. CASE ~(idx[t] < clnt_cnt)
      BY <2>4, <3>2 DEF EndPacket, SendPacket
    <3> QED
      BY <3>1, <3>2
  <2> QED
    BY <2>1, <2>3, <2>4
<1>5. BoardFull => BoardFull'
  BY <1>2 DEF BoardFull
<1>6. /\ up' \in BOOLEAN /\ peer' \in [Conn -> PeerState]
      /\ stream' \in [Conn -> Seq(Units)]
      /\ \A c \in Conn : \A i \in 1 .. Len(stream'[c]) :
           stream'[c][i].cmd = "END" => BoardFull' /\ stream'[c][i].full
  <2>1. ASSUME NEW fd \in Fds \cup {NoFd}, Write(fd, SPacket) PROVE <1>6!:
    <3>1. \A i \in 1 .. Len(SPacket) : SPacket[i].cmd = "END" => BoardFull /\ SPacket[i].full
      BY <1>3
    <3> QED
      BY <1>1, <1>3, <1>5, <2>1, <3>1, WriteKeeps
  <2>2. ASSUME NEW fd \in Fds \cup {NoFd}, Write(fd, Table) PROVE <1>6!:
    <3>1. \A i \in 1 .. Len(Table) : Table[i].cmd = "END" => BoardFull /\ Table[i].full
      BY TableUnits
    <3> QED
      BY <1>1, <1>5, <2>2, <3>1, WriteKeeps, TableUnits
  <2>3. ASSUME UNCHANGED <<up, peer, stream>> PROVE <1>6!:
    BY <1>5, <2>3 DEF NetTypeOK, EndInv
  <2> QED
    BY <1>4, <2>1, <2>2, <2>3
<1>7. /\ idx' \in [Conn -> 0 .. Cardinality(Conn)]
      /\ \A u \in Conn : pc'[u] \in {"table", "endtable"} => idx'[u] < Cardinality(Conn)
  <2>1. CASE Greet(t)
    BY <1>1, <1>2, <2>1 DEF Greet, Goto, hdlVars, OwnTypeOK, HandlerInv, LoopTypeOK
  <2>2. CASE EndTable(t) \/ SendTable(t)
    <3>1. /\ idx' = [idx EXCEPT ![t] = @ + 1] /\ pc'[t] \notin {"table", "endtable"}
          /\ idx[t] < Cardinality(Conn)
      BY <1>1, <2>2 DEF EndTable, SendTable, Goto, LoopTypeOK, HandlerInv
    <3> QED
      BY <1>1, <1>2, <3>1 DEF OwnTypeOK, HandlerInv
  <2>3. CASE EndPacket(t) \/ SendPacket(t)
    <3>1. CASE idx[t] < clnt_cnt
      <4>1. idx' = idx /\ idx[t] < Cardinality(Conn)
        BY <1>1, <2>3, <3>1 DEF EndPacket, SendPacket
      <4> QED
        BY <1>2, <4>1 DEF OwnTypeOK, HandlerInv
    <3>2. CASE ~(idx[t] < clnt_cnt)
      <4>1. idx' = [idx EXCEPT ![t] = 0] /\ pc'[t] \notin {"table", "endtable"}
        BY <1>1, <2>3, <3>2 DEF EndPacket, SendPacket, Goto, LoopTypeOK
      <4> QED
        BY <1>1, <1>2, <4>1 DEF OwnTypeOK, HandlerInv
    <3> QED
      BY <3>1, <3>2
  <2> QED
    BY <2>1, <2>2, <2>3
<1>8. NetTypeOK' /\ PktTypeOK' /\ OwnTypeOK' /\ BoardKept
  BY <1>2, <1>6, <1>7 DEF NetTypeOK, PktTypeOK, OwnTypeOK, BoardKept
<1>9. HandlerInv'
  BY <1>2, <1>7 DEF HandlerInv
<1>10. EndInv'
  BY <1>2, <1>5, <1>6 DEF EndInv
<1> QED
  BY <1>8, <1>9, <1>10
-----------------------------------------------------------------------------
\* Only a handler's scan moves on, past a cell that is taken.
LEMMA NextScan ==
  ASSUME ScanInv, BoardKept, [Next]_vars
  PROVE  ScanInv'
<1>1. CELLS \in Nat \ {0}
  BY BingoAssumption
<1>2. shown' = shown \/ \E fd : SendSPacket(fd)
  <2>1. ASSUME NEW t \in Conn, Handler(t) PROVE shown' = shown \/ \E fd : SendSPacket(fd)
    BY <2>1 DEF Handler, HandlerStart, SetReady, Greet, ReadCall, Receive, Check, Scan, SetEnd,
       EndPacket, EndTable, SetResponse, SetCommand, Claim, SendPacket, SendTable, Unlock,
       Remove, hdlVars
  <2>2. ASSUME NEW c \in Conn, Receiver(c) \/ Ask(c) \/ Leave(c) \/ Die(c)
        PROVE  shown' = shown
    BY <2>2 DEF Receiver, ReadHello, ReadPacket, ReadTable, Ask, Leave, Die, hdlVars
  <2>3. Main \/ UNCHANGED vars => shown' = shown
    BY DEF Main, Draw, MainAccept, MainAppend, MainCreate, vars, hdlVars
  <2> QED
    BY <2>1, <2>2, <2>3 DEF Next
<1>3. shown' \in [Conn -> SUBSET Cells]
  BY <1>2 DEF ScanInv, SendSPacket, Taken
<1>4. cell' = cell \/ \E t \in Conn : Scan(t)
  <2>1. ASSUME NEW t \in Conn, Handler(t), ~Scan(t) PROVE cell' = cell
    BY <2>1 DEF Handler, HandlerStart, SetReady, Greet, ReadCall, Receive, Check, SetEnd,
       EndPacket, EndTable, SetResponse, SetCommand, Claim, SendPacket, SendTable, Unlock,
       Remove, hdlVars
  <2>2. ASSUME NEW c \in Conn, Receiver(c) \/ Ask(c) \/ Leave(c) \/ Die(c)
        PROVE  cell' = cell
    BY <2>2 DEF Receiver, ReadHello, ReadPacket, ReadTable, Ask, Leave, Die, hdlVars
  <2>3. Main \/ UNCHANGED vars => cell' = cell
    BY DEF Main, Draw, MainAccept, MainAppend, MainCreate, vars, hdlVars
  <2> QED
    BY <2>1, <2>2, <2>3 DEF Next
<1>5. /\ cell' \in [Conn -> Cells]
      /\ \A t \in Conn : \A x \in 1 .. cell'[t] - 1 : board[x] # 0
  <2>1. CASE cell' = cell
    BY <2>1 DEF ScanInv
  <2>2. ASSUME NEW t \in Conn, Scan(t) PROVE <1>5!:
    <3>1. cell \in [Conn -> Cells] /\ \A u \in Conn : \A x \in 1 .. cell[u] - 1 : board[x] # 0
      BY DEF ScanInv
    <3>2. CASE cell[t] # CELLS /\ board[cell[t]] # 0 /\ cell' = [cell EXCEPT ![t] = @ + 1]
      BY <1>1, <3>1, <3>2 DEF Cells
    <3>3. CASE cell' = [cell EXCEPT ![t] = 1]
      BY <1>1, <3>1, <3>3 DEF Cells
    <3> QED
      BY <2>2, <3>2, <3>3 DEF Scan
  <2> QED
    BY <1>4, <2>1, <2>2
<1>6. \A t \in Conn : \A x \in 1 .. cell'[t] - 1 : x \in Cells
  BY <1>1, <1>5 DEF Cells
<1> QED
  BY <1>3, <1>5, <1>6 DEF ScanInv, BoardKept

\* Every step keeps BingoInv and the cells that are taken.
LEMMA NextBingoInv ==
  ASSUME BingoInv, [Next]_vars
  PROVE  BingoInv' /\ BoardKept
<1>1. Rest /\ Loop /\ ScanInv
  BY DEF BingoInv, Rest
<1>2. Loop'
  BY <1>1, NextLoop
<1>3. Rest' /\ BoardKept
  <2>1. CASE Main \/ UNCHANGED vars \/ \E t \in Conn : HandlerStart(t)
    BY <1>1, <2>1, LoopStep
  <2>2. CASE \E c \in Conn : Ask(c) \/ Leave(c) \/ Die(c)
    BY <1>1, <2>2, AskStep
  <2>3. CASE \E c \in Conn : Receiver(c)
    BY <1>1, <2>3, ReceiveStep
  <2>4. CASE \E t \in Conn : \/ SetReady(t) \/ SetEnd(t) \/ SetResponse(t) \/ ReadCall(t)
                             \/ Receive(t) \/ Check(t) \/ Scan(t) \/ Unlock(t)
                             \/ Remove(t)
    BY <1>1, <2>4, QuietHandlerStep
  <2>5. CASE \E t \in Conn : Claim(t)
    BY <1>1, <2>5, ClaimStep
  <2>6. CASE \E t \in Conn : \/ Greet(t) \/ EndPacket(t) \/ EndTable(t) \/ SendPacket(t)
                             \/ SendTable(t)
    BY <1>1, <2>6, WriteStep
  <2> QED
    BY <2>1, <2>2, <2>3, <2>4, <2>5, <2>6 DEF Next, Handler
<1>4. ScanInv'
  BY <1>1, <1>3, NextScan
<1> QED
  BY <1>2, <1>3, <1>4 DEF BingoInv, Rest

\* BingoInv is what the properties below need.
LEMMA BingoInvImplies == BingoInv => TypeOK /\ EndFull
<1> SUFFICES ASSUME BingoInv PROVE TypeOK /\ EndFull
  OBVIOUS
<1>1. TypeOK
  BY DEF BingoInv, Loop, LoopInv, NetTypeOK, PktTypeOK, OwnTypeOK, ScanInv, TypeOK
<1>2. EndFull
  BY DEF BingoInv, EndInv, EndFull
<1> QED
  BY <1>1, <1>2

\* Every variable keeps its type, and a broadcast its index within the table, for
\* any number of clients and any board, however the threads interleave.
THEOREM BingoTypes == Spec => []TypeOK
<1>1. BingoInv /\ [Next]_vars => BingoInv'
  BY NextBingoInv
<1> QED
  BY <1>1, InitBingoInv, BingoInvImplies, PTL DEF Spec

\* No client is told END with a cell still free, although the handlers share one
\* response packet and scan the board without the lock (get_empty_index2).
THEOREM BingoEndFull == Spec => []EndFull
<1>1. BingoInv /\ [Next]_vars => BingoInv'
  BY NextBingoInv
<1> QED
  BY <1>1, InitBingoInv, BingoInvImplies, PTL DEF Spec

-----------------------------------------------------------------------------
\* A claim's broadcast is made under the lock, and every other handler that is
\* not in a loop of its own stands at the beginning of the table.
LockInv ==
  \A t \in Conn :
    /\ pc[t] \in {"packet", "table", "unlock"} => mutx = t
    /\ pc[t] \notin {"packet", "table", "endpacket", "endtable"} => idx[t] = 0

\* t's broadcast has still to come to c: its slot is ahead.
Due(t, c) ==
  /\ pc[t] \in {"packet", "table"}
  /\ \E i \in idx[t] .. clnt_cnt - 1 :
       clnt_socks[i] = own[c] /\ (pc[t] = "packet" \/ i # idx[t])

\* A client that has not been shown the board as it is will be by a broadcast
\* that is under way.
ShownInv ==
  ArgsIntact =>
    \A c \in Conn : Playing(c) => shown[c] = Taken \/ \E t \in Conn : Due(t, c)

\* A connection that is open was open before.
LEMMA OpenBefore ==
  ASSUME NetTypeOK, [Next]_vars, NEW c \in Conn, peer'[c] = "open"
  PROVE  peer[c] = "open"
<1>1. ASSUME NEW fd, NEW units, Write(fd, units) PROVE peer[c] = "open"
  BY <1>1 DEF Write, AfterWrite, NetTypeOK
<1>2. CASE UNCHANGED peer
  BY <1>2
<1>3. CASE Main \/ UNCHANGED vars
  <2>1. UNCHANGED peer
    BY <1>3 DEF Main, Draw, MainAccept, MainAppend, MainCreate, vars, netVars
  <2> QED
    BY <1>2, <2>1
<1>4. CASE \E d \in Conn : Receiver(d) \/ Ask(d) \/ Leave(d) \/ Die(d)
  <2>1. UNCHANGED peer \/ \E d \in Conn, p \in {"fin", "err"} : peer' = [peer EXCEPT ![d] = p]
    BY <1>4 DEF Receiver, ReadHello, ReadPacket, ReadTable, Ask, Leave, Die, AfterClose
  <2> QED
    BY <2>1 DEF NetTypeOK
<1>5. ASSUME NEW t \in Conn, Handler(t) PROVE peer[c] = "open"
  <2>1. CASE Greet(t) \/ EndPacket(t) \/ EndTable(t) \/ SendPacket(t) \/ SendTable(t)
    <3>1. UNCHANGED peer \/ \E fd, units : Write(fd, units)
      BY <2>1 DEF Greet, EndPacket, EndTable, SendPacket, SendTable, SendSPacket
    <3> QED
      BY <1>1, <3>1
  <2>2. CASE Receive(t)
    <3>1. UNCHANGED peer
          \/ peer' = [peer EXCEPT ![file[t]] = IF @ = "err" THEN "rst" ELSE @]
      BY <2>2 DEF Receive
    <3> QED
      BY <3>1 DEF NetTypeOK
  <2>3. CASE \/ HandlerStart(t) \/ SetReady(t) \/ SetEnd(t) \/ SetResponse(t) \/ ReadCall(t)
             \/ Check(t) \/ Scan(t) \/ Claim(t) \/ Unlock(t) \/ Remove(t)
    <3>1. UNCHANGED peer
      BY <2>3 DEF HandlerStart, SetReady, SetEnd, SetResponse, SetCommand, ReadCall, Check,
         Scan, Claim, Unlock, Remove, netVars
    <3> QED
      BY <3>1
  <2> QED
    BY <1>5, <2>1, <2>2, <2>3 DEF Handler
<1> QED
  BY <1>3, <1>4, <1>5 DEF Next

\* Arguments that are intact were so before.
LEMMA ArgsBefore ==
  ASSUME LoopTypeOK(PC), Bookkeeping, [Next]_vars, ArgsIntact'
  PROVE  ArgsIntact
<1>1. ASSUME UNCHANGED <<own, sock>> PROVE ArgsIntact
  BY <1>1 DEF ArgsIntact, Started
<1>2. ASSUME NEW c \in Conn, MainAccept(c) PROVE ArgsIntact
  <2>1. own[c] = NoFd /\ sock' = sock /\ \A d \in Conn : d # c => own'[d] = own[d]
    BY <1>2 DEF MainAccept, Accept, LoopTypeOK
  <2>2. ~Started(c)
    BY <2>1 DEF Bookkeeping
  <2> QED
    BY <2>1, <2>2 DEF ArgsIntact, Started
<1>3. ASSUME NEW t \in Conn, HandlerStart(t) PROVE ArgsIntact
  <2>1. pc[t] = "start" /\ own' = own /\ \A u \in Conn : u # t => sock'[u] = sock[u]
    BY <1>3 DEF HandlerStart, TakeArg, LoopTypeOK
  <2>2. ~Started(t)
    BY <2>1 DEF Bookkeeping
  <2> QED
    BY <2>1, <2>2 DEF ArgsIntact, Started
<1>4. CASE \/ UNCHANGED vars \/ MainAppend \/ MainCreate \/ \E n \in Numbers : Draw(n)
           \/ \E c \in Conn : Receiver(c) \/ Ask(c) \/ Leave(c) \/ Die(c)
  BY <1>1, <1>4 DEF vars, loopVars, MainAppend, Enlist, MainCreate, Create, Draw, Receiver,
     ReadHello, ReadPacket, ReadTable, Ask, Leave, Die
<1>5. ASSUME NEW t \in Conn, Handler(t), ~HandlerStart(t) PROVE ArgsIntact
  <2>1. UNCHANGED <<own, sock>>
    BY <1>5 DEF Handler, SetReady, Greet, ReadCall, Receive, Check, Scan, SetEnd, EndPacket,
       EndTable, SetResponse, SetCommand, SendPacket, SendTable, Claim, Unlock, Remove, mainVars
  <2> QED
    BY <1>1, <2>1
<1> QED
  BY <1>2, <1>3, <1>4, <1>5 DEF Next, Main

\* The lock stays with the handler that broadcasts, and each loop starts at 0.
LEMMA NextLock ==
  ASSUME LoopTypeOK(PC), OwnTypeOK, Bookkeeping, LockInv, [Next]_vars
  PROVE  LockInv'
<1>1. ASSUME UNCHANGED <<mutx, idx>>,
             \A t \in Conn :
               \/ pc'[t] = pc[t]
               \/ /\ pc[t] \notin {"packet", "table", "endpacket", "endtable"}
                  /\ pc'[t] \notin {"packet", "table", "unlock"}
      PROVE  LockInv'
  BY <1>1 DEF LockInv
<1>2. CASE \/ UNCHANGED vars \/ \E n \in Numbers : Draw(n)
           \/ \E c \in Conn : \/ Receiver(c) \/ Ask(c) \/ Leave(c) \/ Die(c)
                             \/ MainAccept(c)
  BY <1>1, <1>2 DEF vars, loopVars, hdlVars, Draw, Receiver, ReadHello, ReadPacket, ReadTable,
     Ask, Leave, Die, MainAccept, Accept
<1>3. CASE MainAppend \/ MainCreate
  <2>1. UNCHANGED <<mutx, idx>>
    BY <1>3 DEF MainAppend, Enlist, MainCreate, Create, hdlVars
  <2>2. UNCHANGED pc \/ (pc[cur] = "none" /\ pc' = [pc EXCEPT ![cur] = "start"])
    BY <1>3 DEF MainAppend, Enlist, MainCreate, Create, Bookkeeping
  <2> QED
    BY <1>1, <2>1, <2>2 DEF LoopTypeOK
<1>4. ASSUME NEW t \in Conn,
             \/ HandlerStart(t) \/ SetReady(t) \/ SetEnd(t) \/ SetResponse(t) \/ Greet(t)
             \/ ReadCall(t) \/ Receive(t) \/ Check(t) \/ Scan(t) \/ Remove(t)
      PROVE  LockInv'
  <2>1. UNCHANGED <<mutx, idx>>
    BY <1>4 DEF HandlerStart, TakeArg, SetReady, SetEnd, SetResponse, SetCommand, Greet,
       ReadCall, Receive, Check, Scan, Remove, hdlVars
  <2>2. /\ pc[t] \notin {"packet", "table", "endpacket", "endtable"}
        /\ UNCHANGED pc \/ \E next \in PC \ {"packet", "table", "unlock"} :
                            pc' = [pc EXCEPT ![t] = next]
    BY <1>4 DEF HandlerStart, TakeArg, SetReady, SetEnd, SetResponse, SetCommand, Greet,
       ReadCall, Receive, Check, Scan, Remove, Goto, PC
  <2>3. \A u \in Conn : u # t => pc'[u] = pc[u]
    BY <2>2 DEF LoopTypeOK
  <2>4. pc'[t] = pc[t] \/ pc'[t] \notin {"packet", "table", "unlock"}
    BY <2>2 DEF LoopTypeOK
  <2> QED
    BY <1>1, <2>1, <2>2, <2>3, <2>4
<1>5. ASSUME NEW t \in Conn, EndPacket(t) \/ EndTable(t) PROVE LockInv'
  <2>1. /\ mutx' = mutx /\ pc[t] \in {"endpacket", "endtable"}
        /\ \A u \in Conn : u # t => pc'[u] = pc[u] /\ idx'[u] = idx[u]
    BY <1>5 DEF EndPacket, EndTable, Goto, LoopTypeOK, OwnTypeOK
  <2>2. \/ pc'[t] \in {"endpacket", "endtable"}
        \/ (pc'[t] = "read" /\ idx'[t] = 0)
    BY <1>5 DEF EndPacket, EndTable, Goto, LoopTypeOK, OwnTypeOK
  <2> QED
    BY <2>1, <2>2 DEF LockInv
<1>6. ASSUME NEW t \in Conn, SendPacket(t) \/ SendTable(t) PROVE LockInv'
  <2>1. /\ mutx' = mutx /\ pc[t] \in {"packet", "table"}
        /\ \A u \in Conn : u # t => pc'[u] = pc[u] /\ idx'[u] = idx[u]
    BY <1>6 DEF SendPacket, SendTable, Goto, LoopTypeOK, OwnTypeOK
  <2>2. \/ pc'[t] \in {"packet", "table"}
        \/ (pc'[t] = "unlock" /\ idx'[t] = 0)
    BY <1>6 DEF SendPacket, SendTable, Goto, LoopTypeOK, OwnTypeOK
  <2> QED
    BY <2>1, <2>2 DEF LockInv
<1>7. ASSUME NEW t \in Conn, Claim(t) PROVE LockInv'
  <2>1. /\ pc[t] = "claim" /\ mutx = NoConn /\ mutx' = t /\ idx' = idx /\ pc'[t] = "packet"
        /\ \A u \in Conn : u # t => pc'[u] = pc[u]
    BY <1>7 DEF Claim, Goto, hdlVars, LoopTypeOK
  <2>2. \A u \in Conn : pc[u] \notin {"packet", "table", "unlock"}
    BY <2>1, ConnAssumption DEF LockInv
  <2> QED
    BY <2>1, <2>2 DEF LockInv
<1>8. ASSUME NEW t \in Conn, Unlock(t) PROVE LockInv'
  <2>1. /\ pc[t] = "unlock" /\ idx' = idx /\ pc'[t] = "read"
        /\ \A u \in Conn : u # t => pc'[u] = pc[u]
    BY <1>8 DEF Unlock, Goto, hdlVars, LoopTypeOK
  <2>2. \A u \in Conn : u # t => pc[u] \notin {"packet", "table", "unlock"}
    BY <2>1 DEF LockInv
  <2> QED
    BY <2>1, <2>2 DEF LockInv
<1> QED
  BY <1>2, <1>3, <1>4, <1>5, <1>6, <1>7, <1>8 DEF Next, Handler, Main

\* A step after which everyone who plays has been shown the board, or was not
\* before it and is still due what it was due.
LEMMA ShownKept ==
  ASSUME ShownInv, ArgsIntact, UNCHANGED board,
         \A c \in Conn : Playing(c)' =>
           \/ shown'[c] = Taken
           \/ /\ Playing(c) /\ shown'[c] = shown[c]
              /\ \A t \in Conn : Due(t, c) => Due(t, c)'
  PROVE  ShownInv'
<1>1. Taken' = Taken
  BY DEF Taken
<1> QED
  BY <1>1 DEF ShownInv

\* A step of main or of a handler that is not in a claim's broadcast.
LEMMA ShownAside ==
  ASSUME ShownInv, ArgsIntact, UNCHANGED <<board, clnt_socks, clnt_cnt>>,
         \A c \in Conn : Playing(c)' =>
           \/ shown'[c] = Taken
           \/ Playing(c) /\ shown'[c] = shown[c] /\ own'[c] = own[c],
         \A t \in Conn : pc[t] \in {"packet", "table"} => pc'[t] = pc[t] /\ idx'[t] = idx[t]
  PROVE  ShownInv'
<1>1. ASSUME NEW c \in Conn, NEW t \in Conn, own'[c] = own[c], Due(t, c) PROVE Due(t, c)'
  BY <1>1 DEF Due
<1> QED
  BY <1>1, ShownKept

\* A step under the lock, when there is no broadcast.
LEMMA ShownLocked ==
  ASSUME ShownInv, LockInv, ArgsIntact, mutx = NoConn, UNCHANGED <<board, shown>>,
         \A c \in Conn : Playing(c)' => Playing(c)
  PROVE  ShownInv'
<1>1. \A t, c \in Conn : ~Due(t, c)
  BY ConnAssumption DEF Due, LockInv
<1> QED
  BY <1>1, ShownKept

\* A claim: every client that plays is listed, so the broadcast will come to it.
LEMMA ShownClaim ==
  ASSUME Loop, LockInv, ArgsIntact, NEW t \in Conn, Claim(t)
  PROVE  ShownInv'
<1>1. /\ LoopTypeOK(PC) /\ Bookkeeping /\ TableIs(Past)
  BY DEF Loop, LoopInv
<1>2. /\ pc[t] = "claim" /\ pc'[t] = "packet" /\ idx[t] = 0
      /\ UNCHANGED <<clnt_socks, clnt_cnt, own, idx, peer>>
      /\ \A c \in Conn : c # t => pc'[c] = pc[c]
  BY <1>1 DEF Claim, Goto, LoopTypeOK, LockInv, regVars, mainVars, hdlVars, netVars
<1>3. ASSUME NEW c \in Conn, Playing(c)' PROVE Due(t, c)'
  <2>1. c \in Registered(Past)
    BY <1>1, <1>2, <1>3 DEF Playing, Registered, Bookkeeping, Past
  <2>2. own[c] \in ListedFds
    BY <1>1, <2>1 DEF TableIs
  <2>3. \E i \in 0 .. clnt_cnt - 1 : clnt_socks[i] = own[c]
    BY <2>2 DEF ListedFds
  <2> QED
    BY <1>2, <2>3 DEF Due
<1> QED
  BY <1>3 DEF ShownInv

\* The broadcast of a claim: the packet to the next client, the table, the end.
LEMMA ShownBroadcast ==
  ASSUME Loop, OwnTypeOK, LockInv, ShownInv, ArgsIntact, NEW t \in Conn,
         SendPacket(t) \/ SendTable(t),
         \A c \in Conn : peer'[c] = "open" => peer[c] = "open"
  PROVE  ShownInv'
<1>1. /\ LoopTypeOK(PC) /\ Bookkeeping /\ FdsKept(Past) /\ idx[t] \in Nat /\ clnt_cnt \in Nat
      /\ idx \in [Conn -> 0 .. Cardinality(Conn)]
  BY ConnAssumption, FS_CardinalityType DEF Loop, LoopInv, LoopTypeOK, OwnTypeOK
<1>2. /\ UNCHANGED <<board, clnt_socks, clnt_cnt, own>> /\ pc[t] \in {"packet", "table"}
      /\ \A u \in Conn : u # t => pc'[u] = pc[u]
      /\ pc'[t] \in {"packet", "table", "unlock"}
  BY <1>1 DEF SendPacket, SendTable, Goto, LoopTypeOK, mainVars, regVars, pktVars
<1>3. \A u, c \in Conn : Due(u, c) => u = t
  BY <1>2 DEF Due, LockInv
<1>4. \A c \in Conn : Playing(c)' => Playing(c)
  BY <1>2 DEF Playing
<1>5. ASSUME NEW c \in Conn, Playing(c)
      PROVE  \/ shown'[c] = Taken
             \/ shown'[c] = shown[c] /\ \A u \in Conn : Due(u, c) => Due(u, c)'
  <2>1. CASE SendTable(t)
    <3>1. /\ pc[t] = "table" /\ pc'[t] = "packet" /\ idx'[t] = idx[t] + 1 /\ shown' = shown
      BY <1>1, <2>1 DEF SendTable, Goto, LoopTypeOK
    <3>2. ASSUME Due(t, c) PROVE Due(t, c)'
      <4>1. PICK i \in idx[t] .. clnt_cnt - 1 : clnt_socks[i] = own[c] /\ i # idx[t]
        BY <3>1, <3>2 DEF Due
      <4>2. i \in idx'[t] .. clnt_cnt' - 1
        BY <1>1, <1>2, <3>1, <4>1
      <4> QED
        BY <1>2, <3>1, <4>1, <4>2 DEF Due
    <3> QED
      BY <1>3, <3>1, <3>2
  <2>2. CASE SendPacket(t) /\ ~(idx[t] < clnt_cnt)
    <3>1. shown' = shown
      BY <2>2 DEF SendPacket
    <3>2. ~Due(t, c)
      BY <1>1, <2>2 DEF Due
    <3> QED
      BY <1>3, <3>1, <3>2
  <2>3. CASE SendPacket(t) /\ idx[t] < clnt_cnt
    <3> DEFINE fd == clnt_socks[idx[t]]
    <3>1. /\ shown' = [d \in Conn |-> IF fd # NoFd /\ fdtab[fd] = d THEN Taken ELSE shown[d]]
          /\ pc'[t] = "table" /\ idx' = idx
      BY <1>1, <2>3 DEF SendPacket, SendSPacket, Goto, LoopTypeOK
    <3>2. CASE own[c] = fd
      <4>1. own[c] # NoFd /\ fdtab[own[c]] = c
        BY <1>1, <1>5 DEF Playing, Bookkeeping, FdsKept, Past
      <4> QED
        BY <3>1, <3>2, <4>1
    <3>3. CASE own[c] # fd
      <4>1. ASSUME Due(t, c) PROVE Due(t, c)'
        <5>1. PICK i \in idx[t] .. clnt_cnt - 1 : clnt_socks[i] = own[c]
          BY <4>1 DEF Due
        <5>2. i # idx[t]
          BY <3>3, <5>1
        <5> QED
          BY <1>2, <3>1, <5>1, <5>2 DEF Due
      <4>2. shown'[c] = Taken \/ shown'[c] = shown[c]
        BY <3>1
      <4> QED
        BY <1>3, <4>1, <4>2
    <3> QED
      BY <3>2, <3>3
  <2> QED
    BY <2>1, <2>2, <2>3
<1> QED
  BY <1>2, <1>4, <1>5, ShownKept

\* Every step keeps ShownInv.
LEMMA NextShown ==
  ASSUME BingoInv, LockInv, ShownInv, [Next]_vars
  PROVE  ShownInv'
<1> SUFFICES ASSUME ArgsIntact' PROVE ShownInv'
  BY DEF ShownInv
<1>1. /\ Loop /\ LoopTypeOK(PC) /\ Bookkeeping /\ NetTypeOK /\ OwnTypeOK /\ LockInv /\ ShownInv
  BY DEF BingoInv, Loop, LoopInv
<1>2. ArgsIntact
  BY <1>1, ArgsBefore
<1>3. FdsKept(Past) /\ shown \in [Conn -> SUBSET Cells]
  BY <1>1, <1>2 DEF Loop, LoopInv, BingoInv, ScanInv
<1>4. \A c \in Conn : peer'[c] = "open" => peer[c] = "open"
  BY <1>1, OpenBefore
<1>5. CASE \/ UNCHANGED vars \/ \E n \in Numbers : Draw(n)
           \/ \E c \in Conn : Receiver(c) \/ Ask(c) \/ Leave(c) \/ Die(c)
  <2>1. UNCHANGED <<board, clnt_socks, clnt_cnt, own, shown, pc, idx>>
    BY <1>5 DEF vars, loopVars, pktVars, hdlVars, Draw, Receiver, ReadHello, ReadPacket,
       ReadTable, Ask, Leave, Die
  <2>2. \A c \in Conn : Playing(c)' => Playing(c)
    BY <1>4, <2>1 DEF Playing
  <2> QED
    BY <1>1, <1>2, <2>1, <2>2, ShownAside
<1>6. ASSUME NEW c \in Conn, MainAccept(c) PROVE ShownInv'
  <2>1. /\ UNCHANGED <<board, clnt_socks, clnt_cnt, shown, pc, idx>> /\ own[c] = NoFd
        /\ \A d \in Conn : d # c => own'[d] = own[d]
    BY <1>1, <1>6 DEF MainAccept, Accept, pktVars, hdlVars, LoopTypeOK
  <2>2. \A d \in Conn : Playing(d)' => Playing(d) /\ own'[d] = own[d]
    BY <1>1, <1>4, <2>1 DEF Playing, Bookkeeping
  <2> QED
    BY <1>1, <1>2, <2>1, <2>2, ShownAside
<1>7. CASE MainAppend
  <2>1. UNCHANGED <<board, shown, pc>> /\ mutx = NoConn
    BY <1>7 DEF MainAppend, Enlist, pktVars, hdlVars
  <2>2. \A c \in Conn : Playing(c)' => Playing(c)
    BY <1>4, <2>1 DEF Playing
  <2> QED
    BY <1>1, <1>2, <2>1, <2>2, ShownLocked
\* A step of one thread, to a label outside the claim's broadcast.
<1>8. ASSUME NEW t \in Conn, NEW next \in PC, pc' = [pc EXCEPT ![t] = next],
             UNCHANGED <<board, clnt_socks, clnt_cnt, own>>,
             pc[t] \notin {"packet", "table"},
             \A u \in Conn : u # t => idx'[u] = idx[u],
             \A c \in Conn : shown'[c] \in {shown[c], Taken},
             \/ shown'[t] = Taken
             \/ next \in {"none", "start", "ready", "greet", "done"}
             \/ pc[t] \notin {"none", "start", "ready", "greet", "done"}
      PROVE  ShownInv'
  <2>1. pc'[t] = next /\ \A u \in Conn : u # t => pc'[u] = pc[u]
    BY <1>1, <1>8 DEF LoopTypeOK
  <2>2. \A c \in Conn : Playing(c)' =>
           \/ shown'[c] = Taken
           \/ Playing(c) /\ shown'[c] = shown[c] /\ own'[c] = own[c]
    BY <1>4, <1>8, <2>1 DEF Playing
  <2>3. \A u \in Conn : pc[u] \in {"packet", "table"} => pc'[u] = pc[u] /\ idx'[u] = idx[u]
    BY <1>8, <2>1
  <2> QED
    BY <1>1, <1>2, <1>8, <2>2, <2>3, ShownAside
<1>9. CASE MainCreate
  <2>1. /\ pc' = [pc EXCEPT ![cur] = "start"] /\ cur \in Conn /\ pc[cur] = "none"
        /\ UNCHANGED <<board, clnt_socks, clnt_cnt, own, idx, shown>>
    BY <1>1, <1>9 DEF MainCreate, Create, Bookkeeping, pktVars, hdlVars
  <2>2. "start" \in PC
    BY DEF PC
  <2> QED
    BY <1>8, <2>1, <2>2
<1>10. ASSUME NEW t \in Conn,
              \/ HandlerStart(t) \/ SetReady(t) \/ SetEnd(t) \/ SetResponse(t) \/ ReadCall(t)
              \/ Receive(t) \/ Check(t) \/ Scan(t) \/ Unlock(t) \/ EndTable(t)
       PROVE  ShownInv'
  <2>1. /\ UNCHANGED <<board, clnt_socks, clnt_cnt, own, shown>>
        /\ \A u \in Conn : u # t => idx'[u] = idx[u]
        /\ pc[t] \notin {"packet", "table"}
    BY <1>1, <1>10 DEF HandlerStart, TakeArg, SetReady, SetEnd, SetResponse, SetCommand, ReadCall,
       Receive, Check, Scan, Unlock, EndTable, pktVars, hdlVars, mainVars, regVars, OwnTypeOK
  <2>2. pc' = pc \/ \E next \in PC :
          /\ pc' = [pc EXCEPT ![t] = next]
          /\ \/ next \in {"none", "start", "ready", "greet", "done"}
             \/ pc[t] \notin {"none", "start", "ready", "greet", "done"}
    BY <1>10 DEF HandlerStart, TakeArg, SetReady, SetEnd, SetResponse, SetCommand, ReadCall,
       Receive, Check, Scan, Unlock, EndTable, Goto, PC
  <2>3. CASE pc' = pc
    <3>1. pc' = [pc EXCEPT ![t] = pc[t]] /\ pc[t] \in PC
      BY <1>1, <2>3 DEF LoopTypeOK
    <3> QED
      BY <1>8, <2>1, <3>1
  <2> QED
    BY <1>8, <2>1, <2>2, <2>3
<1>11. ASSUME NEW t \in Conn, Greet(t) PROVE ShownInv'
  <2>1. /\ UNCHANGED <<board, clnt_socks, clnt_cnt, own, idx>> /\ pc[t] = "greet"
        /\ pc' = [pc EXCEPT ![t] = "read"]
        /\ shown' = [c \in Conn |-> IF sock[t] # NoFd /\ fdtab[sock[t]] = c
                                       THEN Taken ELSE shown[c]]
    BY <1>11 DEF Greet, SendSPacket, Goto, pktVars, mainVars, regVars
  <2>2. sock[t] # NoFd /\ fdtab[sock[t]] = t
    BY <1>1, <1>2, <1>3, <2>1 DEF Bookkeeping, Started, ArgsIntact, FdsKept, Past
  <2>3. shown'[t] = Taken /\ \A c \in Conn : shown'[c] \in {shown[c], Taken}
    BY <2>1, <2>2
  <2>4. "read" \in PC
    BY DEF PC
  <2> QED
    BY <1>8, <2>1, <2>3, <2>4
<1>12. ASSUME NEW t \in Conn, EndPacket(t) PROVE ShownInv'
  <2>1. /\ UNCHANGED <<board, clnt_socks, clnt_cnt, own>> /\ pc[t] = "endpacket"
        /\ \A u \in Conn : u # t => idx'[u] = idx[u]
        /\ \E next \in PC : pc' = [pc EXCEPT ![t] = next]
    BY <1>1, <1>12 DEF EndPacket, Goto, PC, pktVars, mainVars, regVars, OwnTypeOK
  <2>2. \A c \in Conn : shown'[c] \in {shown[c], Taken}
    BY <1>12 DEF EndPacket, SendSPacket
  <2> QED
    BY <1>8, <2>1, <2>2
<1>13. ASSUME NEW t \in Conn, Remove(t) PROVE ShownInv'
  <2>1. UNCHANGED <<board, shown>> /\ mutx = NoConn /\ pc' = [pc EXCEPT ![t] = "done"]
    BY <1>13 DEF Remove, Goto, pktVars, hdlVars
  <2>2. \A c \in Conn : Playing(c)' => Playing(c)
    BY <1>1, <1>4, <2>1 DEF Playing, LoopTypeOK
  <2> QED
    BY <1>1, <1>2, <2>1, <2>2, ShownLocked
<1>14. ASSUME NEW t \in Conn, Claim(t) PROVE ShownInv'
  BY <1>1, <1>2, <1>14, ShownClaim
<1>15. ASSUME NEW t \in Conn, SendPacket(t) \/ SendTable(t) PROVE ShownInv'
  BY <1>1, <1>2, <1>4, <1>15, ShownBroadcast
<1> QED
  BY <1>5, <1>6, <1>7, <1>9, <1>10, <1>11, <1>12, <1>13, <1>14, <1>15
    DEF Next, Handler, Main

\* Between two claims every client that plays has been sent every cell taken so
\* far, for any number of clients and any board, whoever connects, leaves or is
\* killed during the broadcasts (handle_clnt's loop under the lock).
THEOREM BingoBoardShown == Spec => []BoardShown
<1>1. Init => LockInv /\ ShownInv
  BY DEF Init, LoopInit, LockInv, ShownInv, Playing
<1>2. BingoInv /\ LockInv /\ ShownInv /\ [Next]_vars => BingoInv' /\ LockInv' /\ ShownInv'
  BY NextBingoInv, NextLock, NextShown DEF BingoInv, Loop, LoopInv
<1>3. ShownInv => BoardShown
  BY DEF ShownInv, BoardShown, Due
<1> QED
  BY <1>1, <1>2, <1>3, InitBingoInv, PTL DEF Spec

-----------------------------------------------------------------------------
\* A handler is at work on a request or on its greeting.
Active(t) == pc[t] \notin {"none", "blocked", "done"}

\* As long as the game lasts there is one request at a time: nobody has left,
\* one handler at most is at work, and only while no request waits.
PlayInv ==
  /\ \A c \in Conn : peer[c] = "open" /\ rpc[c] # "over"
  /\ \A t \in Conn : pc[t] \notin {"end", "endpacket", "endtable", "remove", "done"}
  /\ \A t, u \in Conn : Active(t) /\ Active(u) => t = u
  /\ mpc # "accept" => \A c \in Conn : ~Active(c) /\ inbox[c] = <<>>
  /\ \A c \in Conn :
       inbox[c] # <<>> =>
         /\ \A t \in Conn : ~Active(t)
         /\ Len(inbox[c]) = 1 /\ inbox[c][1] \in named[c]
         /\ \A d \in Conn : inbox[d] # <<>> => d = c
  /\ \A t \in Conn :
       /\ pc[t] = "blocked" => file[t] = t
       /\ pc[t] \in {"check", "scan", "response", "claim"} => qnum \in named[t]
       /\ pc[t] = "table" => idx[t] < clnt_cnt

\* Where in a client's stream, counted from READY, the unit before the next it
\* reads lies (but for the full turns of a packet and a table).
Offset(c) == CASE rpc[c] = "hello" -> 0
               [] rpc[c] = "table" -> 2
               [] OTHER            -> 1

Framed(c) ==
  \A i \in 1 .. Len(stream[c]) :
    stream[c][i] \in Packets <=> i + Offset(c) = 1 \/ (i + Offset(c)) % 3 = 2

\* The client has been written the packet of a broadcast and not yet the table.
MidTable(c) == \E t \in Conn : pc[t] = "table" /\ clnt_socks[idx[t]] = own[c]

\* A client that is greeted has been written whole packets and tables, but for
\* the table of the broadcast that has come to it.
FrameInv ==
  \A c \in Conn :
    /\ Framed(c)
    /\ IF pc[c] \in {"none", "start", "ready", "greet"}
         THEN stream[c] = <<>> /\ rpc[c] = "hello"
         ELSE (Len(stream[c]) + Offset(c)) % 3 = IF MidTable(c) THEN 2 ELSE 1

\* The credit is right, nobody connects once there is one to give, and the
\* board has its numbers before anyone connects.
CreditInv ==
  /\ ArgWaits /\ ArgsIntact
  /\ \A c \in Conn : rpc[c] = "over" => BoardFull
  /\ \A c \in Conn : own[c] # NoFd => AllNumbered
  /\ (\E x \in Cells : board[x] # 0) => \E c \in Conn : named[c] # {}
  /\ CreditNamed

PacedInv ==
  /\ BingoInv
  /\ CreditInv
  /\ ~BoardFull => PlayInv /\ FrameInv
-----------------------------------------------------------------------------
\* Init establishes PacedInv.
LEMMA InitPacedInv == Init => PacedInv
<1> SUFFICES ASSUME Init PROVE PacedInv
  OBVIOUS
<1>1. BingoInv
  BY InitBingoInv
<1>2. LoopInit
  BY DEF Init
<1>3. ArgWaits /\ ArgsIntact
  BY <1>2, ArgsAtFirst
<1>4. CreditInv
  BY <1>2, <1>3 DEF CreditInv, CreditNamed, Init, LoopInit
<1>5. Len(<<>>) = 0
  BY EmptySeq
<1>6. PlayInv
  BY <1>2, <1>5 DEF Init, LoopInit, PlayInv, Active
<1>7. FrameInv
  BY <1>2, <1>5 DEF Init, LoopInit, FrameInv, Framed
<1> QED
  BY <1>1, <1>4, <1>6, <1>7 DEF PacedInv

\* A handler that is at work is alone, and no request waits.
LEMMA Alone ==
  ASSUME PlayInv, NEW t \in Conn, Active(t)
  PROVE  /\ mpc = "accept"
         /\ \A c \in Conn : inbox[c] = <<>>
         /\ \A u \in Conn : u # t => pc[u] \in {"none", "blocked", "done"}
BY DEF PlayInv, Active

\* A handler that has not left has its own descriptor.
LEMMA OwnFd ==
  ASSUME Loop, ArgsIntact, NEW t \in Conn, pc[t] \notin {"none", "start", "done"}
  PROVE  own[t] \in Fds /\ sock[t] = own[t] /\ fdtab[own[t]] = t
BY DEF Loop, LoopInv, LoopTypeOK, Bookkeeping, Started, ArgsIntact, FdsKept, Past

\* The handler at work goes on.
LEMMA ActiveStep ==
  ASSUME LoopTypeOK(PC), PlayInv, NEW t \in Conn, Active(t),
         NEW next \in PC \ {"none", "end", "endpacket", "endtable", "remove", "done"},
         Goto(t, next),
         UNCHANGED <<mpc, inbox, rpc, named>>,
         \A c \in Conn : peer'[c] = "open",
         \A u \in Conn : u # t => file'[u] = file[u],
         next = "blocked" => file'[t] = t,
         next \in {"check", "scan", "response", "claim"} => qnum' \in named[t],
         next = "table" => idx'[t] < clnt_cnt'
  PROVE  PlayInv'
<1>1. /\ mpc = "accept"
      /\ \A c \in Conn : inbox[c] = <<>>
      /\ \A u \in Conn : u # t => pc[u] \in {"none", "blocked", "done"}
  BY Alone
<1>2. pc'[t] = next /\ \A u \in Conn : u # t => pc'[u] = pc[u]
  BY DEF LoopTypeOK, Goto
<1>3. \A c \in Conn : rpc[c] # "over"
  BY DEF PlayInv
<1>4. \A u \in Conn : pc[u] = "blocked" => file[u] = u
  BY DEF PlayInv
<1>5. \A u \in Conn : pc[u] # "done"
  BY DEF PlayInv
<1> QED
  BY <1>1, <1>2, <1>3, <1>4, <1>5 DEF PlayInv, Active

\* A step that sends and reads nothing.
LEMMA FrameKept ==
  ASSUME FrameInv, UNCHANGED <<stream, rpc>>,
         \A c \in Conn : /\ MidTable(c)' <=> MidTable(c)
                         /\ pc'[c] \in {"none", "start", "ready", "greet"} <=>
                              pc[c] \in {"none", "start", "ready", "greet"}
  PROVE  FrameInv'
<1>1. \A c \in Conn : Offset(c)' = Offset(c)
  BY DEF Offset
<1>2. \A c \in Conn : Framed(c)' <=> Framed(c)
  BY <1>1 DEF Framed
<1> QED
  BY <1>1, <1>2 DEF FrameInv

\* The handler at work is not between a packet and its table, before or after.
LEMMA NoTable ==
  ASSUME LoopTypeOK(PC), PlayInv, NEW t \in Conn, Active(t), pc[t] # "table",
         NEW next, next # "table", Goto(t, next)
  PROVE  \A c \in Conn : ~MidTable(c) /\ ~MidTable(c)'
<1>1. \A u \in Conn : pc[u] # "table"
  BY Alone
<1>2. \A u \in Conn : pc'[u] # "table"
  BY <1>1 DEF LoopTypeOK, Goto
<1> QED
  BY <1>1, <1>2 DEF MidTable

\* What one more write adds to a client's stream.
LEMMA FramedWrite ==
  ASSUME NetTypeOK, NEW d \in Conn, rpc' = rpc, NEW units \in Seq(Units),
         stream'[d] = stream[d] \o units, Framed(d),
         \A k \in 1 .. Len(units) :
           LET at == Len(stream[d]) + Offset(d) + k
           IN  units[k] \in Packets <=> at = 1 \/ at % 3 = 2
  PROVE  Framed(d)' /\ Len(stream'[d]) = Len(stream[d]) + Len(units)
<1> DEFINE q == stream[d]
           r == stream'[d]
<1>1. q \in Seq(Units) /\ Len(q) \in Nat /\ Len(units) \in Nat /\ Offset(d) \in 0 .. 2
      /\ Offset(d)' = Offset(d)
  BY LenProperties DEF NetTypeOK, Offset
<1>2. /\ Len(r) = Len(q) + Len(units)
      /\ \A k \in 1 .. Len(q) + Len(units) :
           r[k] = IF k <= Len(q) THEN q[k] ELSE units[k - Len(q)]
  BY <1>1, ConcatProperties
<1>3. \A i \in 1 .. Len(q) : q[i] \in Packets <=> i + Offset(d) = 1 \/ (i + Offset(d)) % 3 = 2
  BY DEF Framed
<1> HIDE DEF q, r
<1>4. ASSUME NEW i \in 1 .. Len(r)
      PROVE  r[i] \in Packets <=> i + Offset(d) = 1 \/ (i + Offset(d)) % 3 = 2
  <2>1. CASE i <= Len(q)
    <3>1. i \in 1 .. Len(q) /\ r[i] = q[i]
      BY <1>1, <1>2, <2>1
    <3> QED
      BY <1>3, <3>1, Zenon
  <2>2. CASE ~(i <= Len(q))
    <3>1. i - Len(q) \in 1 .. Len(units) /\ r[i] = units[i - Len(q)]
          /\ Len(q) + Offset(d) + (i - Len(q)) = i + Offset(d)
      BY <1>1, <1>2, <2>2
    <3>2. units[i - Len(q)] \in Packets <=>
            \/ Len(q) + Offset(d) + (i - Len(q)) = 1
            \/ (Len(q) + Offset(d) + (i - Len(q))) % 3 = 2
      BY <3>1 DEF q
    <3> QED
      BY <3>1, <3>2
  <2> QED
    BY <2>1, <2>2
<1> QED
  BY <1>1, <1>2, <1>4 DEF Framed, q, r-----------------------------------------------------------------------------
\* main fills the board, and connects a client while all is quiet.
LEMMA MainFrame ==
  ASSUME Loop, Rest, PlayInv, FrameInv, Paced, Main
  PROVE  PlayInv' /\ FrameInv'
<1>1. LoopTypeOK(PC) /\ Bookkeeping
  BY DEF Loop, LoopInv
<1>2. UNCHANGED <<peer, inbox, stream, qnum, file, idx, rpc, named>>
  BY DEF Main, Draw, MainAccept, MainAppend, MainCreate, netVars, pktVars, hdlVars, clntVars
<1>3. CASE \E n \in Numbers : Draw(n)
  <2>1. UNCHANGED <<pc, mpc, clnt_cnt, clnt_socks, own>>
    BY <1>3 DEF Draw, loopVars
  <2>2. \A c \in Conn : MidTable(c)' <=> MidTable(c)
    BY <1>2, <2>1 DEF MidTable
  <2> QED
    BY <1>2, <2>1, <2>2, FrameKept DEF PlayInv, Active
<1>4. CASE \E c \in Conn : MainAccept(c)
  <2>1. PICK c \in Conn : Accept(c)
    BY <1>4 DEF MainAccept
  <2>2. own' # own
    BY <1>1, <2>1 DEF Accept, LoopTypeOK, NoFd, Fds
  <2>3. Quiet
    BY <2>2 DEF Paced
  <2>4. UNCHANGED <<pc, clnt_cnt>> /\ \A t \in Conn : pc[t] # "table" /\ ~Active(t)
    BY <2>1, <2>3 DEF Accept, Quiet, Active
  <2>5. \A d \in Conn : ~MidTable(d) /\ ~MidTable(d)'
    BY <2>4 DEF MidTable
  <2>6. FrameInv'
    BY <1>2, <2>4, <2>5, FrameKept
  <2>7. PlayInv'
    BY <1>2, <2>3, <2>4 DEF PlayInv, Active, Quiet
  <2> QED
    BY <2>6, <2>7
<1>5. CASE MainAppend
  <2>1. UNCHANGED pc /\ mpc = "append" /\ mpc' = "create"
    BY <1>5 DEF MainAppend, Enlist
  <2>2. \A t \in Conn : ~Active(t) /\ inbox[t] = <<>>
    BY <2>1 DEF PlayInv
  <2>3. \A t \in Conn : pc[t] # "table"
    BY <2>2 DEF Active
  <2>4. \A d \in Conn : ~MidTable(d) /\ ~MidTable(d)'
    BY <2>1, <2>3 DEF MidTable
  <2>5. FrameInv'
    BY <1>2, <2>1, <2>4, FrameKept
  <2>6. PlayInv'
    BY <1>2, <2>1, <2>2, <2>3 DEF PlayInv, Active
  <2> QED
    BY <2>5, <2>6
<1>6. CASE MainCreate
  <2>1. /\ cur \in Conn /\ pc[cur] = "none" /\ mpc = "create" /\ mpc' = "accept"
        /\ pc' = [pc EXCEPT ![cur] = "start"]
    BY <1>1, <1>6 DEF MainCreate, Create, Bookkeeping
  <2>2. \A t \in Conn : ~Active(t) /\ inbox[t] = <<>>
    BY <2>1 DEF PlayInv
  <2>3. pc'[cur] = "start" /\ \A t \in Conn : t # cur => pc'[t] = pc[t]
    BY <1>1, <2>1 DEF LoopTypeOK
  <2>4. \A t \in Conn : pc[t] # "table" /\ pc'[t] # "table"
    BY <2>2, <2>3 DEF Active
  <2>5. \A d \in Conn : ~MidTable(d) /\ ~MidTable(d)'
    BY <2>4 DEF MidTable
  <2>6. \A c \in Conn : pc'[c] \in {"none", "start", "ready", "greet"} <=>
                          pc[c] \in {"none", "start", "ready", "greet"}
    BY <2>1, <2>3
  <2>7. FrameInv'
    BY <1>2, <2>5, <2>6, FrameKept
  <2>8. \A t \in Conn : Active(t)' => t = cur
    BY <2>2, <2>3 DEF Active
  <2>9. /\ \A t \in Conn : peer[t] = "open" /\ rpc[t] # "over"
        /\ \A t \in Conn : pc[t] \notin {"end", "endpacket", "endtable", "remove", "done"}
        /\ \A t \in Conn : pc[t] = "blocked" => file[t] = t
    BY DEF PlayInv
  <2>10. \A t \in Conn :
           /\ pc'[t] \notin {"end", "endpacket", "endtable", "remove", "done"}
           /\ pc'[t] \notin {"check", "scan", "response", "claim", "table"}
           /\ pc'[t] = "blocked" => file'[t] = t
    BY <1>2, <2>2, <2>3, <2>9 DEF Active
  <2>11. PlayInv'
    BY <1>2, <2>1, <2>2, <2>8, <2>9, <2>10 DEF PlayInv
  <2> QED
    BY <2>7, <2>11
<1> QED
  BY <1>3, <1>4, <1>5, <1>6 DEF Main

\* A client asks, when all is quiet; nobody leaves.
LEMMA AskFrame ==
  ASSUME Loop, Rest, CreditInv, PlayInv, FrameInv, ~BoardFull, Paced,
         NEW c \in Conn, Ask(c) \/ Leave(c) \/ Die(c)
  PROVE  PlayInv' /\ FrameInv'
<1>1. ~(Leave(c) \/ Die(c))
  <2>1. Leave(c) \/ Die(c) => \E p \in {"fin", "err"} : peer' = [peer EXCEPT ![c] = p]
    BY DEF Leave, Die, AfterClose
  <2>2. rpc[c] # "over" /\ peer[c] = "open"
    BY DEF PlayInv
  <2> QED
    BY <2>1, <2>2 DEF Paced, Rest, NetTypeOK
<1>2. PICK n \in Numbers :
        /\ Ask(c)
        /\ inbox' = [inbox EXCEPT ![c] = Append(@, n)]
        /\ named' = [named EXCEPT ![c] = @ \cup {n}]
  BY <1>1 DEF Ask
<1>3. /\ UNCHANGED <<up, peer, stream, qnum, file, idx, rpc>>
      /\ UNCHANGED <<mpc, pc, clnt_cnt, clnt_socks, own>>
  BY <1>2 DEF Ask, loopVars, pktVars, hdlVars
<1>4. inbox[c] \in Seq(Numbers) /\ Len(inbox[c]) \in Nat
  BY LenProperties DEF Rest, NetTypeOK
<1>5. inbox'[c] = Append(inbox[c], n) /\ \A d \in Conn : d # c => inbox'[d] = inbox[d]
  BY <1>2 DEF Rest, NetTypeOK
<1>6. Len(inbox'[c]) = Len(inbox[c]) + 1 /\ inbox'[c][Len(inbox[c]) + 1] = n
  BY <1>4, <1>5, AppendProperties
<1>7. Quiet
  BY <1>4, <1>6 DEF Paced
<1>8. Len(inbox[c]) = 0
  BY <1>7, EmptySeq DEF Quiet
<1>9. \A d \in Conn : MidTable(d)' <=> MidTable(d)
  BY <1>3 DEF MidTable
<1>10. FrameInv'
  BY <1>3, <1>9, FrameKept
<1>11. mpc = "accept" /\ \A t \in Conn : ~Active(t) /\ inbox[t] = <<>>
  BY <1>7 DEF Quiet, Active
<1>12. n \in named'[c]
  BY <1>2 DEF Rest, OwnTypeOK
<1>13. PlayInv'
  <2>1. \A d \in Conn : inbox'[d] # <<>> =>
          /\ \A t \in Conn : ~Active(t)'
          /\ Len(inbox'[d]) = 1 /\ inbox'[d][1] \in named'[d]
          /\ \A e \in Conn : inbox'[e] # <<>> => e = d
    <3>1. Len(inbox'[c]) = 1 /\ inbox'[c][1] = n
      BY <1>6, <1>8
    <3>2. \A d \in Conn : inbox'[d] # <<>> => d = c
      BY <1>5, <1>11
    <3>3. \A t \in Conn : ~Active(t)'
      BY <1>3, <1>11 DEF Active
    <3> QED
      BY <1>12, <3>1, <3>2, <3>3
  <2>2. \A t \in Conn : pc[t] \notin {"check", "scan", "response", "claim", "table"}
    BY <1>11 DEF Active
  <2> QED
    BY <1>3, <1>11, <2>1, <2>2 DEF PlayInv, Active
<1> QED
  BY <1>10, <1>13
\* A client reads a packet or a table, and keeps its place.
LEMMA ReceiveFrame ==
  ASSUME Loop, Rest, PlayInv, FrameInv, ~BoardFull, NEW c \in Conn, Receiver(c)
  PROVE  PlayInv' /\ FrameInv'
<1>1. /\ UNCHANGED <<peer, inbox, qnum, file, idx, named>>
      /\ UNCHANGED <<mpc, pc, clnt_cnt, clnt_socks, own>> /\ stream[c] # <<>>
  BY DEF Receiver, ReadHello, ReadPacket, ReadTable, loopVars, pktVars, hdlVars
<1>2. \A d \in Conn : MidTable(d)' <=> MidTable(d)
  BY <1>1 DEF MidTable
<1> DEFINE q == stream[c]
           r == stream'[c]
<1>3. q \in Seq(Units)
  BY DEF Rest, NetTypeOK
<1>4. /\ Len(q) \in Nat /\ Len(q) >= 1 /\ Len(Tail(q)) = Len(q) - 1
      /\ \A i \in 1 .. Len(q) - 1 : Tail(q)[i] = q[i + 1]
  BY <1>1, <1>3, Behind
<1>5. /\ \A i \in 1 .. Len(q) : q[i] \in Packets <=>
                                  i + Offset(c) = 1 \/ (i + Offset(c)) % 3 = 2
      /\ (Len(q) + Offset(c)) % 3 \in {1, 2}
      /\ pc[c] \notin {"none", "start", "ready", "greet"}
  BY <1>1 DEF FrameInv, Framed
<1>6. \A d \in Conn : d # c => stream'[d] = stream[d] /\ rpc'[d] = rpc[d]
  BY DEF Receiver, ReadHello, ReadPacket, ReadTable, Rest, NetTypeOK, OwnTypeOK
\* The new place is the old one, but for whole turns.
<1>7. /\ rpc'[c] # "over"
      /\ \A i \in 1 .. Len(r) : r[i] \in Packets <=>
                                  i + Offset(c)' = 1 \/ (i + Offset(c)') % 3 = 2
      /\ (Len(r) + Offset(c)') % 3 = (Len(q) + Offset(c)) % 3
  <2>1. CASE ReadHello(c)
    <3>1. r = Tail(q) /\ Offset(c) = 0 /\ Offset(c)' = 1 /\ rpc'[c] = "packet"
      BY <2>1 DEF ReadHello, Offset, Rest, NetTypeOK, OwnTypeOK
    <3> HIDE DEF q, r
    <3>2. /\ Len(r) + 1 = Len(q) + 0
          /\ \A i \in 1 .. Len(r) : /\ i + 1 \in 1 .. Len(q) /\ r[i] = q[i + 1]
                                   /\ (i + 1) + 0 = i + 1
      BY <1>4, <3>1
    <3>3. \A i \in 1 .. Len(r) : r[i] \in Packets <=> i + 1 = 1 \/ (i + 1) % 3 = 2
      BY <1>5, <3>1, <3>2
    <3>4. (Len(r) + 1) % 3 = (Len(q) + 0) % 3
      BY <3>2
    <3> QED
      BY <3>1, <3>3, <3>4
  <2>2. CASE ReadPacket(c)
    <3>1. r = Tail(q) /\ Offset(c) = 1 /\ Offset(c)' = 2 /\ rpc'[c] = "table"
      BY <2>2 DEF ReadPacket, Offset, Rest, NetTypeOK, OwnTypeOK
    <3> HIDE DEF q, r
    <3>2. \A i \in 1 .. Len(r) : /\ i + 1 \in 1 .. Len(q) /\ r[i] = q[i + 1]
                                 /\ (i + 1) + 1 = i + 2 /\ i + 2 # 1
      BY <1>4, <3>1
    <3>3. \A i \in 1 .. Len(r) : r[i] \in Packets <=> (i + 2) % 3 = 2
      BY <1>5, <3>1, <3>2
    <3>4. Len(r) + 2 = Len(q) + 1
      BY <1>4, <3>1
    <3>5. (Len(r) + 2) % 3 = (Len(q) + 1) % 3
      BY <3>4
    <3> QED
      BY <3>1, <3>2, <3>3, <3>5
  <2>3. CASE ReadTable(c)
    <3>1. ~isEnd[c]
      BY DEF Rest, EndInv
    <3>2. /\ r = IF Len(q) = 1 THEN <<>> ELSE SubSeq(q, 3, Len(q))
          /\ Offset(c) = 2 /\ Offset(c)' = 1 /\ rpc'[c] = "packet"
      BY <2>3, <3>1 DEF ReadTable, Offset, Rest, NetTypeOK, OwnTypeOK
    <3>3. Len(q) # 1
      <4> HIDE DEF q, r
      <4>1. PICK n \in Nat : n = Len(q)
        BY <1>4
      <4>2. (n + 2) % 3 \in {1, 2}
        BY <1>5, <3>2, <4>1
      <4>3. n # 1
        BY <4>2
      <4> QED
        BY <4>1, <4>3
    <3>4. /\ Len(r) = Len(q) - 2
          /\ \A i \in 1 .. Len(r) : r[i] = q[i + 2] /\ i + 2 \in 1 .. Len(q)
      <4>1. \A i \in 3 .. Len(q) : q[i] \in Units
        BY <1>3, <1>4, ElementOfSeq
      <4>2. /\ Len(SubSeq(q, 3, Len(q))) = IF 3 <= Len(q) THEN Len(q) - 3 + 1 ELSE 0
            /\ \A i \in 1 .. Len(q) - 3 + 1 : SubSeq(q, 3, Len(q))[i] = q[3 + i - 1]
        BY <1>4, <4>1, SubSeqProperties
      <4>3. Len(r) = Len(q) - 2 /\ \A i \in 1 .. Len(q) - 2 : r[i] = q[3 + i - 1]
        <5> DEFINE s == SubSeq(q, 3, Len(q))
        <5>1. r = s
          BY <3>2, <3>3
        <5> HIDE DEF q, r, s
        <5>2. /\ Len(s) = IF 3 <= Len(q) THEN Len(q) - 3 + 1 ELSE 0
              /\ \A i \in 1 .. Len(q) - 3 + 1 : s[i] = q[3 + i - 1]
          BY <4>2 DEF s
        <5>3. PICK n \in Nat : n = Len(q) /\ n >= 1 /\ n # 1
          BY <1>4, <3>3
        <5>4. Len(s) = IF 3 <= n THEN n - 3 + 1 ELSE 0
          BY <5>2, <5>3
        <5>5. Len(s) = n - 2 /\ n - 3 + 1 = n - 2
          BY <5>3, <5>4
        <5> QED
          BY <5>1, <5>2, <5>3, <5>5
      <4> HIDE DEF q, r
      <4>4. \A i \in 1 .. Len(q) - 2 : 3 + i - 1 = i + 2 /\ i + 2 \in 1 .. Len(q)
        BY <1>4
      <4> QED
        BY <4>3, <4>4
    <3> HIDE DEF q, r
    <3>5. \A i \in 1 .. Len(r) : /\ (i + 2) + 2 # 1 /\ i + 1 # 1
                                 /\ ((i + 2) + 2) % 3 = (i + 1) % 3
      BY <1>4, <3>4
    <3>6. \A i \in 1 .. Len(r) : q[i + 2] \in Packets <=> ((i + 2) + 2) % 3 = 2
      BY <1>5, <3>2, <3>4, <3>5
    <3>7. (Len(q) - 2 + 1) % 3 = (Len(q) + 2) % 3
      BY <1>4
    <3> QED
      BY <3>2, <3>4, <3>5, <3>6, <3>7
  <2> QED
    BY <2>1, <2>2, <2>3 DEF Receiver
<1>8. PlayInv'
  BY <1>1, <1>6, <1>7 DEF PlayInv, Active
<1>9. Framed(c)' /\ (Len(r) + Offset(c)') % 3 = IF MidTable(c)' THEN 2 ELSE 1
  BY <1>1, <1>2, <1>5, <1>7 DEF Framed, FrameInv
<1>10. ASSUME NEW d \in Conn, d # c
       PROVE  /\ Framed(d)' /\ Offset(d)' = Offset(d)
  BY <1>6, <1>10 DEF FrameInv, Framed, Offset
<1>11. FrameInv'
  BY <1>1, <1>2, <1>5, <1>6, <1>9, <1>10 DEF FrameInv
<1> QED
  BY <1>8, <1>11
\* A handler goes on without writing.
LEMMA WorkFrame ==
  ASSUME Loop, Rest, ScanInv, CreditInv, PlayInv, FrameInv, ~BoardFull, NEW t \in Conn,
         \/ HandlerStart(t) \/ SetReady(t) \/ ReadCall(t) \/ Check(t) \/ Scan(t)
         \/ SetResponse(t) \/ Claim(t) \/ Unlock(t) \/ (SendPacket(t) /\ ~(idx[t] < clnt_cnt))
  PROVE  PlayInv' /\ FrameInv'
<1>1. LoopTypeOK(PC) /\ Bookkeeping /\ ArgsIntact
  BY DEF Loop, LoopInv, CreditInv
<1>2. /\ UNCHANGED <<peer, inbox, stream, rpc, named>> /\ UNCHANGED <<mpc, qnum>>
      /\ \A u \in Conn : u # t => file'[u] = file[u]
  <2>1. UNCHANGED <<peer, inbox, stream, rpc, named>> /\ UNCHANGED <<mpc, qnum>>
    BY DEF HandlerStart, TakeArg, SetReady, SetResponse, SetCommand, ReadCall, Check, Scan,
           Claim, Unlock, SendPacket, netVars, clntVars, mainVars, pktVars
  <2>2. UNCHANGED file \/ file' = [file EXCEPT ![t] = fdtab[sock[t]]]
    BY DEF HandlerStart, TakeArg, SetReady, SetResponse, SetCommand, ReadCall, Check, Scan,
           Claim, Unlock, SendPacket, hdlVars
  <2> QED
    BY <2>1, <2>2 DEF Rest, OwnTypeOK
<1>3. Active(t) /\ pc[t] # "table"
  BY DEF HandlerStart, TakeArg, SetReady, SetResponse, SetCommand, ReadCall, Check, Scan,
         Claim, Unlock, SendPacket, Active
<1>4. \E next \in PC \ {"none", "end", "endpacket", "endtable", "remove", "done", "table"} :
        /\ Goto(t, next)
        /\ next = "blocked" => file'[t] = t
        /\ next \in {"check", "scan", "response", "claim"} => qnum \in named[t]
        /\ next \in {"none", "start", "ready", "greet"} <=>
             pc[t] \in {"none", "start", "ready", "greet"}
  <2>1. CASE HandlerStart(t)
    <3>1. Goto(t, "ready") /\ pc[t] = "start"
      BY <2>1 DEF HandlerStart, TakeArg, Goto
    <3> QED
      BY <3>1 DEF PC
  <2>2. CASE SetReady(t)
    <3>1. Goto(t, "greet") /\ pc[t] = "ready"
      BY <2>2 DEF SetReady, SetCommand
    <3> QED
      BY <3>1 DEF PC
  <2>3. CASE ReadCall(t)
    <3>1. /\ pc[t] = "read" /\ file' = [file EXCEPT ![t] = fdtab[sock[t]]]
          /\ Goto(t, IF file'[t] = NoConn THEN "check" ELSE "blocked")
      BY <2>3 DEF ReadCall
    <3>2. fdtab[sock[t]] = t
      BY <1>1, <3>1, OwnFd
    <3>3. file'[t] = t
      BY <3>1, <3>2 DEF Rest, OwnTypeOK
    <3>4. Goto(t, "blocked")
      BY <3>1, <3>3, ConnAssumption
    <3> QED
      BY <3>1, <3>3, <3>4 DEF PC
  <2>4. CASE Check(t)
    <3>1. pc[t] = "check" /\ Goto(t, IF qnum = 0 THEN "read" ELSE "scan")
      BY <2>4 DEF Check
    <3>2. qnum \in named[t]
      BY <3>1 DEF PlayInv
    <3> QED
      BY <3>1, <3>2 DEF PC
  <2>5. CASE SetResponse(t)
    <3>1. pc[t] = "response" /\ Goto(t, "claim")
      BY <2>5 DEF SetResponse, SetCommand
    <3>2. qnum \in named[t]
      BY <3>1 DEF PlayInv
    <3> QED
      BY <3>1, <3>2 DEF PC
  <2>6. CASE Claim(t)
    <3>1. pc[t] = "claim" /\ Goto(t, "packet")
      BY <2>6 DEF Claim
    <3> QED
      BY <3>1 DEF PC
  <2>7. CASE Unlock(t)
    <3>1. pc[t] = "unlock" /\ Goto(t, "read")
      BY <2>7 DEF Unlock
    <3> QED
      BY <3>1 DEF PC
  <2>8. CASE SendPacket(t) /\ ~(idx[t] < clnt_cnt)
    <3>1. pc[t] = "packet" /\ Goto(t, "unlock")
      BY <2>8 DEF SendPacket
    <3> QED
      BY <3>1 DEF PC
  <2>9. CASE Scan(t)
    <3>1. pc[t] = "scan" /\ pc \in [Conn -> PC]
      BY <1>1, <2>9 DEF Scan, LoopTypeOK
    <3>2. qnum \in named[t]
      BY <3>1 DEF PlayInv
    <3>3. pc'[t] = "end" => BoardFull'
      BY <2>9, QuietHandlerStep DEF Rest, EndInv
    <3>4. BoardFull' <=> BoardFull
      BY <2>9 DEF Scan, pktVars, BoardFull
    <3>5. CASE UNCHANGED pc
      <4>1. Goto(t, "scan")
        BY <3>1, <3>5 DEF Goto
      <4> QED
        BY <3>1, <3>2, <4>1 DEF PC
    <3>6. CASE \E next \in {"end", "response"} : Goto(t, next)
      <4>1. Goto(t, "response")
        BY <3>1, <3>3, <3>4, <3>6 DEF Goto
      <4> QED
        BY <3>1, <3>2, <4>1 DEF PC
    <3> QED
      BY <2>9, <3>5, <3>6 DEF Scan
  <2> QED
    BY <2>1, <2>2, <2>3, <2>4, <2>5, <2>6, <2>7, <2>8, <2>9
<1>5. PICK next \in PC \ {"none", "end", "endpacket", "endtable", "remove", "done", "table"} :
        /\ Goto(t, next)
        /\ next = "blocked" => file'[t] = t
        /\ next \in {"check", "scan", "response", "claim"} => qnum \in named[t]
        /\ next \in {"none", "start", "ready", "greet"} <=>
             pc[t] \in {"none", "start", "ready", "greet"}
  BY <1>4
<1>6. \A c \in Conn : peer'[c] = "open"
  BY <1>2 DEF PlayInv
<1>7. PlayInv'
  BY <1>1, <1>2, <1>3, <1>5, <1>6, ActiveStep
<1>8. \A c \in Conn : ~MidTable(c) /\ ~MidTable(c)'
  BY <1>1, <1>3, <1>5, NoTable
<1>9. \A c \in Conn : pc'[c] \in {"none", "start", "ready", "greet"} <=>
                        pc[c] \in {"none", "start", "ready", "greet"}
  BY <1>1, <1>5 DEF LoopTypeOK, Goto
<1>10. FrameInv'
  BY <1>2, <1>8, <1>9, FrameKept
<1> QED
  BY <1>7, <1>10

\* A handler reads the request that its own client sent.
LEMMA RequestFrame ==
  ASSUME Loop, Rest, PlayInv, FrameInv, NEW t \in Conn, Receive(t)
  PROVE  PlayInv' /\ FrameInv'
<1>1. LoopTypeOK(PC) /\ pc[t] = "blocked" /\ file[t] = t /\ peer[t] = "open"
  BY DEF Loop, LoopInv, Receive, PlayInv
<1>2. /\ inbox[t] # <<>>
      /\ qnum' = Head(inbox[t])
      /\ inbox' = [inbox EXCEPT ![t] = Tail(@)]
      /\ Goto(t, "check")
      /\ UNCHANGED <<peer, stream, rpc, named, mpc>>
      /\ file' = [file EXCEPT ![t] = NoConn]
  BY <1>1 DEF Receive, clntVars, mainVars
<1>3. inbox[t] \in Seq(Numbers)
  BY DEF Rest, NetTypeOK
<1>4. /\ \A u \in Conn : ~Active(u)
      /\ Len(inbox[t]) = 1 /\ inbox[t][1] \in named[t]
      /\ \A d \in Conn : inbox[d] # <<>> => d = t
  BY <1>2 DEF PlayInv
<1>5. Head(inbox[t]) = inbox[t][1] /\ Tail(inbox[t]) = <<>>
  BY <1>2, <1>3, <1>4, Behind
<1>6. qnum' \in named'[t] /\ \A d \in Conn : inbox'[d] = <<>>
  BY <1>2, <1>4, <1>5 DEF Rest, NetTypeOK
<1>7. /\ pc'[t] = "check" /\ \A u \in Conn : u # t => pc'[u] = pc[u] /\ file'[u] = file[u]
      /\ mpc = "accept"
  BY <1>1, <1>2 DEF Goto, LoopTypeOK, Rest, OwnTypeOK, PlayInv
<1>8. \A u \in Conn : pc'[u] \in {"none", "blocked", "done"} \/ u = t
  BY <1>4, <1>7 DEF Active
<1>9. PlayInv'
  <2>1. /\ \A c \in Conn : peer[c] = "open" /\ rpc[c] # "over"
        /\ \A u \in Conn : pc[u] # "done" /\ (pc[u] = "blocked" => file[u] = u)
    BY DEF PlayInv
  <2> QED
    BY <1>2, <1>6, <1>7, <1>8, <2>1 DEF PlayInv, Active
<1>10. \A c \in Conn : ~MidTable(c) /\ ~MidTable(c)'
  <2>1. \A u \in Conn : pc[u] # "table" /\ pc'[u] # "table"
    BY <1>4, <1>7 DEF Active
  <2> QED
    BY <2>1 DEF MidTable
<1>11. FrameInv'
  BY <1>1, <1>2, <1>7, <1>10, FrameKept
<1> QED
  BY <1>9, <1>11

\* READY is the first thing a client is sent.
LEMMA GreetFrame ==
  ASSUME Loop, Rest, CreditInv, PlayInv, FrameInv, NEW t \in Conn, Greet(t)
  PROVE  PlayInv' /\ FrameInv'
<1>1. LoopTypeOK(PC) /\ NetTypeOK /\ pc[t] = "greet" /\ Active(t) /\ pc[t] # "table"
  BY DEF Loop, LoopInv, Greet, Rest, Active
<1>2. own[t] \in Fds /\ sock[t] = own[t] /\ fdtab[own[t]] = t
  BY <1>1, OwnFd DEF CreditInv
<1>3. /\ UNCHANGED <<inbox, rpc, named, mpc, file, qnum, idx, clnt_cnt>> /\ Goto(t, "read")
      /\ Write(own[t], SPacket)
  BY <1>2 DEF Greet, SendSPacket, clntVars, mainVars, regVars, pktVars
<1>4. SPacket \in Seq(Units) /\ Len(SPacket) = 1 /\ SPacket[1] \in Packets
  BY PacketUnits DEF Rest
<1>5. \A c \in Conn : peer'[c] = "open" /\ peer[c] = "open"
  BY <1>1, <1>2, <1>3, <1>4, WriteEffect DEF PlayInv
<1>6. \A c \in Conn : stream'[c] = IF c = t THEN stream[c] \o SPacket ELSE stream[c]
  <2>1. \A c \in Conn : stream'[c] = IF own[t] # NoFd /\ fdtab[own[t]] = c /\ peer[c] = "open"
                                       THEN stream[c] \o SPacket ELSE stream[c]
    BY <1>1, <1>2, <1>3, <1>4, WriteEffect
  <2>2. own[t] # NoFd
    BY <1>2, ConnAssumption DEF Fds, NoFd
  <2> QED
    BY <1>2, <1>5, <2>1, <2>2
<1>7. PlayInv'
  <2>1. "read" \in PC \ {"none", "end", "endpacket", "endtable", "remove", "done"}
    BY DEF PC
  <2> QED
    BY <1>1, <1>3, <1>5, <2>1, ActiveStep
<1>8. \A c \in Conn : ~MidTable(c) /\ ~MidTable(c)'
  BY <1>1, <1>3, NoTable
<1>9. pc'[t] = "read" /\ \A c \in Conn : c # t => pc'[c] = pc[c]
  BY <1>1, <1>3 DEF LoopTypeOK, Goto
<1>10. \A c \in Conn : Offset(c)' = Offset(c)
  BY <1>3 DEF Offset
<1>11. Framed(t)' /\ (Len(stream'[t]) + Offset(t)') % 3 = 1
  <2>1. Len(stream[t]) = 0 /\ Offset(t) = 0 /\ Framed(t)
    <3>1. Len(<<>>) = 0
      BY EmptySeq
    <3> QED
      BY <1>1, <3>1 DEF FrameInv, Offset
  <2>2. Framed(t)' /\ Len(stream'[t]) = Len(stream[t]) + Len(SPacket)
    <3>1. ASSUME NEW k \in 1 .. Len(SPacket)
          PROVE  LET at == Len(stream[t]) + Offset(t) + k
                 IN  SPacket[k] \in Packets <=> at = 1 \/ at % 3 = 2
      <4>1. k = 1 /\ Len(stream[t]) + Offset(t) + k = 1
        BY <1>4, <2>1
      <4> QED
        BY <1>4, <4>1
    <3>2. stream'[t] = stream[t] \o SPacket
      BY <1>6
    <3> QED
      BY <1>1, <1>3, <1>4, <2>1, <3>1, <3>2, FramedWrite
  <2>3. Len(stream'[t]) = 1 /\ Offset(t)' = 0
    BY <1>4, <1>10, <2>1, <2>2
  <2>4. (1 + 0) % 3 = 1
    OBVIOUS
  <2> QED
    BY <2>2, <2>3, <2>4
<1>12. ASSUME NEW c \in Conn, c # t
       PROVE  Framed(c)' /\ stream'[c] = stream[c]
  BY <1>6, <1>10, <1>12 DEF FrameInv, Framed
<1>13. FrameInv'
  BY <1>3, <1>8, <1>9, <1>10, <1>11, <1>12 DEF FrameInv
<1> QED
  BY <1>7, <1>13
\* The client whose descriptor a broadcast has come to is greeted, and nobody
\* else has that descriptor.
LEMMA Listed ==
  ASSUME Loop, CreditInv, PlayInv, NEW t \in Conn, Active(t),
         NEW i \in Nat, i < clnt_cnt
  PROVE  \E d \in Conn :
           /\ clnt_socks[i] = own[d] /\ own[d] \in Fds /\ fdtab[own[d]] = d
           /\ d = t \/ pc[d] = "blocked"
           /\ \A e \in Conn : own[e] = own[d] => e = d
<1>1. /\ LoopTypeOK(PC) /\ Bookkeeping /\ TableIs(Past) /\ FdsKept(Past)
      /\ clnt_cnt \in 0 .. Cardinality(Conn) /\ Cardinality(Conn) \in Nat
  BY ConnAssumption, FS_CardinalityType DEF Loop, LoopInv, CreditInv, LoopTypeOK
<1>2. i \in 0 .. clnt_cnt - 1
  BY <1>1
<1>3. PICK d \in Registered(Past) : clnt_socks[i] = own[d]
  BY <1>1, <1>2 DEF TableIs, ListedFds
<1>4. d \in Conn /\ own[d] # NoFd /\ pc[d] # "done"
  BY <1>3 DEF Registered, Past
<1>5. own[d] \in Fds
  BY <1>1, <1>4 DEF LoopTypeOK
<1>6. mpc = "accept" /\ (d = t \/ pc[d] \in {"none", "blocked", "done"})
  BY <1>4, Alone
<1>7. pc[d] # "none"
  BY <1>1, <1>4, <1>6 DEF Bookkeeping
<1>8. \A e \in Conn : own[e] # NoFd => fdtab[own[e]] = e
  BY <1>1 DEF FdsKept, Past, PlayInv
<1> QED
  BY <1>3, <1>4, <1>5, <1>6, <1>7, <1>8

\* A broadcast writes the packet to the next client, and then the table.
LEMMA BroadcastFrame ==
  ASSUME Loop, Rest, CreditInv, PlayInv, FrameInv, NEW t \in Conn,
         (SendPacket(t) /\ idx[t] < clnt_cnt) \/ SendTable(t)
  PROVE  PlayInv' /\ FrameInv'
<1>1. /\ LoopTypeOK(PC) /\ NetTypeOK /\ Active(t) /\ pc[t] \in {"packet", "table"}
      /\ idx[t] \in Nat /\ idx[t] < clnt_cnt
  BY ConnAssumption, FS_CardinalityType
    DEF Loop, LoopInv, SendPacket, SendTable, Rest, Active, OwnTypeOK, PlayInv
<1>2. PICK d \in Conn :
        /\ clnt_socks[idx[t]] = own[d] /\ own[d] \in Fds /\ fdtab[own[d]] = d
        /\ d = t \/ pc[d] = "blocked"
        /\ \A e \in Conn : own[e] = own[d] => e = d
  BY <1>1, Listed
<1>3. UNCHANGED <<inbox, rpc, named, mpc, file, qnum, clnt_cnt, clnt_socks, own>>
  BY DEF SendPacket, SendTable, clntVars, mainVars, regVars, pktVars
<1>4. /\ SPacket \in Seq(Units) /\ Len(SPacket) = 1 /\ SPacket[1] \in Packets
      /\ Table \in Seq(Units) /\ Len(Table) = 2
      /\ \A i \in 1 .. 2 : Table[i] \notin Packets
  BY PacketUnits, TableUnits DEF Rest
<1>5. PICK units \in {SPacket, Table} :
        /\ Write(own[d], units)
        /\ units = SPacket => pc[t] = "packet" /\ Goto(t, "table") /\ idx' = idx
        /\ units = Table => pc[t] = "table" /\ Goto(t, "packet")
  <2>1. SPacket # Table
    BY <1>4
  <2>2. CASE SendPacket(t) /\ idx[t] < clnt_cnt
    BY <1>2, <2>1, <2>2 DEF SendPacket, SendSPacket
  <2>3. CASE SendTable(t)
    BY <1>2, <2>1, <2>3 DEF SendTable
  <2> QED
    BY <2>2, <2>3
<1>6. units \in Seq(Units)
  BY <1>4
<1>7. \A c \in Conn : peer'[c] = "open" /\ peer[c] = "open"
  BY <1>1, <1>2, <1>5, <1>6, WriteEffect DEF PlayInv
<1>8. \A c \in Conn : stream'[c] = IF c = d THEN stream[c] \o units ELSE stream[c]
  <2>1. \A c \in Conn : stream'[c] = IF own[d] # NoFd /\ fdtab[own[d]] = c /\ peer[c] = "open"
                                       THEN stream[c] \o units ELSE stream[c]
    BY <1>1, <1>2, <1>5, <1>6, WriteEffect
  <2>2. own[d] # NoFd
    BY <1>2, ConnAssumption DEF Fds, NoFd
  <2> QED
    BY <1>2, <1>7, <2>1, <2>2
<1>9. PlayInv'
  <2>1. {"table", "packet"} \subseteq PC \ {"none", "end", "endpacket", "endtable", "remove", "done"}
    BY DEF PC
  <2>2. \E next \in {"table", "packet"} : Goto(t, next) /\ (next = "table" => idx'[t] < clnt_cnt')
    BY <1>1, <1>3, <1>5
  <2> QED
    BY <1>1, <1>3, <1>7, <2>1, <2>2, ActiveStep
<1>10. \A u \in Conn : u # t => pc[u] \in {"none", "blocked", "done"} /\ pc'[u] = pc[u]
  BY <1>1, <1>5, Alone DEF LoopTypeOK, Goto
<1>11. /\ pc'[t] = IF units = SPacket THEN "table" ELSE "packet"
       /\ pc[t] = IF units = SPacket THEN "packet" ELSE "table"
  BY <1>1, <1>5 DEF LoopTypeOK, Goto
<1>12. \A c \in Conn : /\ MidTable(c) <=> c = d /\ units = Table
                       /\ MidTable(c)' <=> c = d /\ units = SPacket
  <2>1. SPacket # Table
    BY <1>4
  <2>2. \A u \in Conn : pc[u] = "table" <=> u = t /\ units = Table
    BY <1>5, <1>10, <1>11, <2>1
  <2>3. \A u \in Conn : pc'[u] = "table" <=> u = t /\ units = SPacket
    BY <1>5, <1>10, <1>11, <2>1
  <2>4. \A c \in Conn : MidTable(c) <=> c = d /\ units = Table
    BY <1>2, <2>2 DEF MidTable
  <2>5. \A c \in Conn : MidTable(c)' <=> c = d /\ units = SPacket
    BY <1>2, <1>3, <1>5, <2>3 DEF MidTable
  <2> QED
    BY <2>4, <2>5
<1>13. \A c \in Conn : Offset(c)' = Offset(c) /\ Offset(c) \in 0 .. 2
  BY <1>3 DEF Offset
<1>14. /\ Framed(d) /\ Len(stream[d]) \in Nat
       /\ (Len(stream[d]) + Offset(d)) % 3 = IF units = Table THEN 2 ELSE 1
       /\ pc[d] \notin {"none", "start", "ready", "greet"}
  <2>1. pc[d] \notin {"none", "start", "ready", "greet"}
    BY <1>1, <1>2
  <2>2. Len(stream[d]) \in Nat
    BY <1>1, LenProperties DEF NetTypeOK
  <2>3. MidTable(d) <=> units = Table
    BY <1>12
  <2> QED
    BY <2>1, <2>2, <2>3 DEF FrameInv
<1>15. /\ Framed(d)'
       /\ (Len(stream'[d]) + Offset(d)') % 3 = IF units = SPacket THEN 2 ELSE 1
  <2>1. PICK n \in Nat : n = Len(stream[d]) + Offset(d) /\ n >= 0
    BY <1>13, <1>14
  <2>2. n % 3 = IF units = Table THEN 2 ELSE 1
    BY <1>14, <2>1
  <2>3. CASE units = SPacket
    <3>1. n % 3 = 1
      BY <1>4, <2>2, <2>3
    <3>2. (n + 1) % 3 = 2
      BY <3>1
    <3>3. ASSUME NEW k \in 1 .. Len(units)
          PROVE  LET at == Len(stream[d]) + Offset(d) + k
                 IN  units[k] \in Packets <=> at = 1 \/ at % 3 = 2
      <4>1. Len(units) = 1
        BY <1>4, <2>3
      <4>2. k = 1
        BY <4>1
      <4>3. units[k] \in Packets
        BY <1>4, <2>3, <4>2
      <4>4. Len(stream[d]) + Offset(d) + k = n + 1
        BY <1>13, <1>14, <2>1, <4>2
      <4>5. units[k] \in Packets <=> (n + 1 = 1 \/ (n + 1) % 3 = 2)
        BY <3>2, <4>3, Zenon
      <4> QED
        BY <4>4, <4>5, Zenon
    <3>4. Framed(d)' /\ Len(stream'[d]) = Len(stream[d]) + Len(units)
      BY <1>1, <1>3, <1>6, <1>8, <1>14, <3>3, FramedWrite
    <3>5. Len(stream'[d]) + Offset(d)' = n + 1
      <4>1. Len(units) = 1 /\ Offset(d)' = Offset(d) /\ Offset(d) \in 0 .. 2
        BY <1>1, <1>4, <1>13, <2>3
      <4>2. Len(stream'[d]) = Len(stream[d]) + 1
        BY <3>4, <4>1
      <4>3. PICK s \in Nat : s = Len(stream[d])
        BY <1>14
      <4>4. PICK o \in 0 .. 2 : o = Offset(d)
        BY <4>1
      <4>5. n = s + o /\ Len(stream'[d]) = s + 1 /\ Offset(d)' = o
        BY <2>1, <4>1, <4>2, <4>3, <4>4
      <4>6. (s + 1) + o = (s + o) + 1
        OBVIOUS
      <4> QED
        BY <4>5, <4>6, Zenon
    <3> QED
      BY <2>3, <3>2, <3>4, <3>5
  <2>4. CASE units = Table
    <3>1. n % 3 = 2 /\ units # SPacket
      BY <1>4, <2>2, <2>4
    <3>2. (n + 1) % 3 = 0 /\ (n + 2) % 3 = 1 /\ n + 1 # 1 /\ n + 2 # 1
      BY <3>1
    <3>3. ASSUME NEW k \in 1 .. Len(units)
          PROVE  LET at == Len(stream[d]) + Offset(d) + k
                 IN  units[k] \in Packets <=> at = 1 \/ at % 3 = 2
      <4>1. Len(units) = 2
        BY <1>4, <2>4
      <4>2. k \in {1, 2}
        BY <4>1
      <4>3. units[k] \notin Packets
        BY <1>4, <2>4, <4>2
      <4>4. Len(stream[d]) + Offset(d) + k = n + k
        BY <1>13, <1>14, <2>1, <4>2
      <4> QED
        BY <3>2, <4>2, <4>3, <4>4
    <3>4. Framed(d)' /\ Len(stream'[d]) = Len(stream[d]) + Len(units)
      BY <1>1, <1>3, <1>6, <1>8, <1>14, <3>3, FramedWrite
    <3>5. Len(stream'[d]) + Offset(d)' = n + 2
      BY <1>4, <1>13, <1>14, <2>1, <2>4, <3>4
    <3> QED
      BY <3>1, <3>2, <3>4, <3>5
  <2> QED
    BY <1>5, <2>3, <2>4
<1>16. ASSUME NEW c \in Conn, c # d
       PROVE  Framed(c)' /\ stream'[c] = stream[c]
  BY <1>8, <1>13, <1>16 DEF FrameInv, Framed
<1>17. \A c \in Conn : /\ pc'[c] \in {"none", "start", "ready", "greet"} <=>
                            pc[c] \in {"none", "start", "ready", "greet"}
                       /\ c # d => ~MidTable(c) /\ ~MidTable(c)'
  BY <1>10, <1>11, <1>12
<1>18. FrameInv'
  BY <1>3, <1>12, <1>13, <1>14, <1>15, <1>16, <1>17 DEF FrameInv
<1> QED
  BY <1>9, <1>18-----------------------------------------------------------------------------
\* Who changes what CreditInv speaks of.
LEMMA CreditFrame ==
  ASSUME Loop, Rest, [Next]_vars
  PROVE  /\ own' = own \/ \E c \in Conn : MainAccept(c)
         /\ numbers' = numbers \/ \E n \in Numbers : Draw(n)
         /\ board' = board \/ \E t \in Conn : Claim(t)
         /\ rpc' = rpc \/ \E c \in Conn : Receiver(c)
         /\ \A c \in Conn : named[c] \subseteq named'[c]
<1>1. CASE UNCHANGED vars
  BY <1>1 DEF vars, loopVars, pktVars, clntVars
<1>2. CASE Main
  BY <1>2 DEF Main, Draw, MainAccept, MainAppend, Enlist, MainCreate, Create, loopVars,
     pktVars, clntVars
<1>3. CASE \E c \in Conn : Receiver(c)
  BY <1>3 DEF Receiver, ReadHello, ReadPacket, ReadTable, loopVars, pktVars
<1>4. ASSUME NEW c \in Conn, Ask(c) \/ Leave(c) \/ Die(c)
      PROVE  /\ UNCHANGED <<own, numbers, board, rpc>>
             /\ \A d \in Conn : named[d] \subseteq named'[d]
  BY <1>4 DEF Ask, Leave, Die, loopVars, pktVars, clntVars, Rest, OwnTypeOK
<1>5. ASSUME NEW t \in Conn, Handler(t)
      PROVE  UNCHANGED <<own, numbers, rpc, named>> /\ (board' = board \/ Claim(t))
  <2>1. CASE HandlerStart(t) \/ ReadCall(t) \/ Receive(t) \/ Check(t) \/ Scan(t) \/ Unlock(t)
             \/ Remove(t)
    BY <2>1 DEF HandlerStart, TakeArg, ReadCall, Receive, Check, Scan, Unlock, Remove, mainVars,
       pktVars, clntVars
  <2>2. CASE \/ SetReady(t) \/ SetEnd(t) \/ SetResponse(t) \/ Claim(t)
             \/ Greet(t) \/ EndPacket(t) \/ EndTable(t) \/ SendPacket(t) \/ SendTable(t)
    BY <2>2 DEF SetReady, SetEnd, SetResponse, SetCommand, Claim, Greet, EndPacket, EndTable,
       SendPacket, SendTable, mainVars, pktVars, clntVars
  <2> QED
    BY <1>5, <2>1, <2>2 DEF Handler
<1> QED
  BY <1>1, <1>2, <1>3, <1>4, <1>5 DEF Next

\* While connections are spaced, no thread takes another's descriptor.
LEMMA PacedArgs ==
  ASSUME Loop, Rest, ArgsIntact, ArgWaits, [Next /\ Paced]_vars
  PROVE  ArgWaits' /\ ArgsIntact'
<1>1. LoopInv(PC, Past, Past)
  BY DEF Loop
\* The accept loop is the only one that lists or creates.
<1>2. ASSUME UNCHANGED <<clnt_sock, own, sock>>,
             UNCHANGED pc \/ \E t \in Conn, next \in PC \ {"start"} : Goto(t, next)
      PROVE  ArgWaits' /\ ArgsIntact'
  BY <1>1, <1>2, SpacedOther
<1>3. CASE \/ UNCHANGED vars \/ \E n \in Numbers : Draw(n)
           \/ \E c \in Conn : Receiver(c) \/ Ask(c) \/ Leave(c) \/ Die(c)
  <2>1. UNCHANGED loopVars
    BY <1>3 DEF vars, Draw, Receiver, ReadHello, ReadPacket, ReadTable, Ask, Leave, Die
  <2> QED
    BY <1>2, <2>1 DEF loopVars
<1>4. ASSUME NEW c \in Conn, MainAccept(c), Paced PROVE ArgWaits' /\ ArgsIntact'
  <2>1. Accept(c) /\ (own' # own => \A t \in Conn : pc[t] # "start")
    BY <1>4 DEF MainAccept, Paced, Quiet
  <2> QED
    BY <1>1, <2>1, SpacedAccept
<1>5. CASE MainAppend
  BY <1>2, <1>5 DEF MainAppend, Enlist
<1>6. CASE MainCreate \/ \E t \in Conn : HandlerStart(t)
  <2>1. Create \/ \E t \in Conn, next \in PC \ {"start"} : TakeArg(t, next)
    BY <1>6 DEF MainCreate, HandlerStart, PC
  <2> QED
    BY <1>1, <2>1, SpacedStart
<1>7. ASSUME NEW t \in Conn, Handler(t), ~HandlerStart(t) PROVE ArgWaits' /\ ArgsIntact'
  <2>1. UNCHANGED <<clnt_sock, own, sock>>
    BY <1>7 DEF Handler, SetReady, Greet, ReadCall, Receive, Check, Scan, SetEnd, EndPacket,
       EndTable, SetResponse, SetCommand, SendPacket, SendTable, Claim, Unlock, Remove, mainVars
  <2>2. UNCHANGED pc \/ \E next \in PC \ {"start"} : Goto(t, next)
    BY <1>7 DEF Handler, SetReady, Greet, ReadCall, Receive, Check, Scan, SetEnd, EndPacket,
       EndTable, SetResponse, SetCommand, SendPacket, SendTable, Claim, Unlock, Remove, PC
  <2> QED
    BY <1>2, <2>1, <2>2
<1> QED
  BY <1>3, <1>4, <1>5, <1>6, <1>7 DEF Next, Main

\* The number of a cell that is taken was named by the client that has it.
LEMMA CreditStep ==
  ASSUME PacedInv, [Next /\ Paced]_vars, BoardKept
  PROVE  CreditInv'
<1>1. /\ Loop /\ Rest /\ LoopTypeOK(PC) /\ CreditInv
      /\ ~BoardFull => PlayInv /\ FrameInv
  BY DEF PacedInv, BingoInv, Rest, Loop, LoopInv
<1>2. /\ own' = own \/ \E c \in Conn : MainAccept(c)
      /\ numbers' = numbers \/ \E n \in Numbers : Draw(n)
      /\ board' = board \/ \E t \in Conn : Claim(t)
      /\ rpc' = rpc \/ \E c \in Conn : Receiver(c)
      /\ \A c \in Conn : named[c] \subseteq named'[c]
  BY <1>1, CreditFrame
<1>3. ArgWaits' /\ ArgsIntact'
  BY <1>1, PacedArgs DEF CreditInv
<1>4. ASSUME NEW c \in Conn, rpc'[c] = "over" PROVE BoardFull'
  <2>1. BoardFull
    <3>1. CASE rpc' = rpc
      BY <1>1, <1>4, <3>1 DEF CreditInv
    <3>2. ASSUME NEW d \in Conn, Receiver(d) PROVE BoardFull
      BY <1>1, <1>4, <3>2 DEF Receiver, ReadHello, ReadPacket, ReadTable, CreditInv, Rest,
         EndInv, OwnTypeOK
    <3> QED
      BY <1>2, <3>1, <3>2
  <2> QED
    BY <2>1 DEF BoardKept, BoardFull
<1>5. ASSUME NEW c \in Conn, own'[c] # NoFd PROVE AllNumbered'
  <2>1. AllNumbered
    BY <1>1, <1>2, <1>5 DEF CreditInv, MainAccept
  <2>2. numbers' = numbers
    BY <1>2, <2>1 DEF Draw
  <2> QED
    BY <2>1, <2>2 DEF AllNumbered
\* A cell that is claimed now was free, so the game is on.
<1>6. ASSUME NEW t \in Conn, Claim(t), NEW x \in Cells, board'[x] # board[x]
      PROVE  /\ board[x] = 0 /\ numbers[x] = qnum /\ board'[x] = sock[t]
             /\ PlayInv /\ pc[t] = "claim" /\ qnum \in named[t]
  <2>1. board[x] = 0 /\ numbers[x] = qnum /\ board'[x] = sock[t] /\ pc[t] = "claim"
    BY <1>1, <1>6 DEF Claim, Rest, PktTypeOK
  <2>2. PlayInv
    BY <1>1, <2>1 DEF BoardFull
  <2> QED
    BY <2>1, <2>2 DEF PlayInv
<1>7. ASSUME NEW x \in Cells, board'[x] # 0 PROVE \E c \in Conn : named'[c] # {}
  <2>1. CASE board'[x] = board[x]
    BY <1>1, <1>2, <1>7, <2>1 DEF CreditInv
  <2>2. CASE board'[x] # board[x]
    BY <1>2, <1>6, <2>2
  <2> QED
    BY <2>1, <2>2
<1>8. ASSUME NEW x \in Cells, NEW c \in Conn, board'[x] = own'[c], own'[c] # NoFd
      PROVE  numbers'[x] \in named'[c]
  <2>1. CASE own' # own
    <3>1. \E d \in Conn : MainAccept(d)
      BY <1>2, <2>1
    <3>2. Paced /\ board' = board
      BY <2>1, <3>1 DEF MainAccept, pktVars, vars, loopVars
    <3>3. \A d \in Conn : named[d] = {}
      BY <2>1, <3>2 DEF Paced
    <3>4. board[x] = 0
      BY <1>1, <3>3 DEF CreditInv
    <3> QED
      BY <1>8, <3>2, <3>4 DEF NoFd
  <2>2. CASE own' = own
    <3>1. numbers' = numbers
      <4>1. AllNumbered
        BY <1>1, <1>8, <2>2 DEF CreditInv
      <4> QED
        BY <1>2, <4>1 DEF Draw
    <3>2. CASE board'[x] = board[x]
      <4>1. numbers[x] \in named[c]
        BY <1>1, <1>8, <2>2, <3>2 DEF CreditInv, CreditNamed
      <4> QED
        BY <1>2, <3>1, <4>1
    <3>3. CASE board'[x] # board[x]
      <4>1. PICK t \in Conn : Claim(t)
        BY <1>2, <3>3
      <4>2. /\ numbers[x] = qnum /\ board'[x] = sock[t]
            /\ PlayInv /\ pc[t] = "claim" /\ qnum \in named[t]
        BY <1>6, <3>3, <4>1
      <4>3. sock[t] = own[t] /\ fdtab[own[t]] = t
        BY <1>1, <4>2, OwnFd DEF CreditInv
      <4>4. fdtab[own[c]] = c
        BY <1>1, <1>8, <2>2, <4>2 DEF Loop, LoopInv, CreditInv, FdsKept, Past, PlayInv
      <4>5. c = t
        BY <1>8, <2>2, <4>2, <4>3, <4>4
      <4> QED
        BY <1>2, <3>1, <4>2, <4>5
    <3> QED
      BY <3>2, <3>3
  <2> QED
    BY <2>1, <2>2
<1> QED
  BY <1>3, <1>4, <1>5, <1>7, <1>8 DEF CreditInv, CreditNamed
-----------------------------------------------------------------------------
\* Every step of a paced game keeps PacedInv.
LEMMA NextPacedInv == PacedInv /\ [Next /\ Paced]_vars => PacedInv'
<1> SUFFICES ASSUME PacedInv, [Next /\ Paced]_vars PROVE PacedInv'
  OBVIOUS
<1>1. BingoInv' /\ BoardKept
  BY NextBingoInv DEF PacedInv
<1>2. CreditInv'
  BY <1>1, CreditStep
<1>3. ASSUME ~BoardFull' PROVE PlayInv' /\ FrameInv'
  <2>1. ~BoardFull
    BY <1>1, <1>3 DEF BoardFull, BoardKept
  <2>2. Loop /\ Rest /\ ScanInv /\ CreditInv /\ PlayInv /\ FrameInv
    BY <2>1 DEF PacedInv, BingoInv, Rest
  <2>3. CASE UNCHANGED vars
    <3>1. /\ UNCHANGED <<peer, inbox, stream, qnum, file, idx, rpc, named>>
          /\ UNCHANGED <<pc, mpc, clnt_cnt, clnt_socks, own>>
      BY <2>3 DEF vars, loopVars, netVars, pktVars, hdlVars, clntVars
    <3>2. \A c \in Conn : MidTable(c)' <=> MidTable(c)
      BY <3>1 DEF MidTable
    <3> QED
      BY <2>2, <3>1, <3>2, FrameKept DEF PlayInv, Active
  <2>4. CASE Main /\ Paced
    BY <2>2, <2>4, MainFrame
  <2>5. ASSUME NEW c \in Conn, Paced, Ask(c) \/ Leave(c) \/ Die(c) PROVE PlayInv' /\ FrameInv'
    BY <2>1, <2>2, <2>5, AskFrame
  <2>6. ASSUME NEW c \in Conn, Receiver(c) PROVE PlayInv' /\ FrameInv'
    BY <2>1, <2>2, <2>6, ReceiveFrame
  <2>7. ASSUME NEW t \in Conn, Handler(t) PROVE PlayInv' /\ FrameInv'
    <3>1. pc[t] \notin {"end", "endpacket", "endtable", "remove"}
      BY <2>2 DEF PlayInv
    <3>2. ~SetEnd(t) /\ ~EndPacket(t) /\ ~EndTable(t) /\ ~Remove(t)
      BY <3>1 DEF SetEnd, SetCommand, EndPacket, EndTable, Remove
    <3>3. CASE Receive(t)
      BY <2>2, <3>3, RequestFrame
    <3>4. CASE Greet(t)
      BY <2>2, <3>4, GreetFrame
    <3>5. CASE (SendPacket(t) /\ idx[t] < clnt_cnt) \/ SendTable(t)
      BY <2>2, <3>5, BroadcastFrame
    <3>6. CASE \/ HandlerStart(t) \/ SetReady(t) \/ ReadCall(t) \/ Check(t) \/ Scan(t)
               \/ SetResponse(t) \/ Claim(t) \/ Unlock(t) \/ (SendPacket(t) /\ ~(idx[t] < clnt_cnt))
      BY <2>1, <2>2, <3>6, WorkFrame
    <3> QED
      BY <2>7, <3>2, <3>3, <3>4, <3>5, <3>6 DEF Handler
  <2> QED
    BY <2>3, <2>4, <2>5, <2>6, <2>7 DEF Next
<1> QED
  BY <1>1, <1>2, <1>3 DEF PacedInv

\* Used one request at a time, a cell goes to a client that named its number, for
\* any number of clients and any board (handle_clnt).
THEOREM BingoCredit == PacedSpec => []CreditNamed
<1>1. PacedInv => CreditNamed
  BY DEF PacedInv, CreditInv
<1> QED
  BY <1>1, InitPacedInv, NextPacedInv, PTL DEF PacedSpec

\* Used one request at a time, no client loses its place among the packets and
\* tables it is sent as long as the game lasts (recv_msg).
THEOREM BingoInFrame == PacedSpec => []InFrame
<1>1. ASSUME PacedInv PROVE InFrame
  <2> SUFFICES ASSUME ~BoardFull, NEW c \in Conn, NEW i \in 1 .. Len(stream[c])
               PROVE  LET at == CASE rpc[c] = "hello" -> i
                                  [] rpc[c] = "table" -> i + 2
                                  [] OTHER            -> i + 1
                      IN  stream[c][i] \in Packets <=> at = 1 \/ at % 3 = 2
    BY DEF InFrame
  <2>1. stream[c][i] \in Packets <=> i + Offset(c) = 1 \/ (i + Offset(c)) % 3 = 2
    BY <1>1 DEF PacedInv, FrameInv, Framed
  <2>2. i \in Int
    <3>1. Len(stream[c]) \in Nat
      BY <1>1, LenProperties DEF PacedInv, BingoInv, NetTypeOK
    <3> QED
      BY <3>1
  <2>3. i + Offset(c) = CASE rpc[c] = "hello" -> i
                          [] rpc[c] = "table" -> i + 2
                          [] OTHER            -> i + 1
    BY <2>2 DEF Offset
  <2> QED
    BY <2>1, <2>3
<1> QED
  BY <1>1, InitPacedInv, NextPacedInv, PTL DEF PacedSpec
=============================================================================

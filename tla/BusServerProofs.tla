-------------------------- MODULE BusServerProofs --------------------------
(***************************************************************************)
(* BusInv is an inductive invariant of the bus server: the types and an    *)
(* exact clnt_cnt follow from it whatever numbers clients send and what-   *)
(* ever the handlers read in each other's requests, and with PacketInv     *)
(* that an index leaves the response packet only on account of a wrong     *)
(* number.  OrderlyInv is an inductive invariant of the program used as    *)
(* intended.                                                               *)
(***************************************************************************)
EXTENDS BusServer, AcceptLoopProofs, SequenceTheorems

\* TypeOK without the loop's variables: the packets and the handlers' copies,
\* and the clients with the connections to them.
ServerTypeOK ==
  /\ up \in BOOLEAN
  /\ qpacket \in [command : 0 .. Quit, seatno : Numbers \cup {0}]
  /\ spacket \in [Words -> Int]
  /\ file \in [Conn -> Conn \cup {NoConn}]
  /\ row \in [Conn -> Int]
  /\ word \in [Conn -> Int]
  /\ seat \in [Conn -> Int]
  /\ {clean, wild, stray} \subseteq BOOLEAN

ClientTypeOK ==
  /\ peer \in [Conn -> PeerState]
  /\ inbox \in [Conn -> Seq(Request)]
  /\ replies \in [Conn -> Seq(Int)]
  /\ left \subseteq Conn
  /\ sem_one \in [Conn -> 0 .. 1]
  /\ sem_two \in [Conn -> 0 .. 1]
  /\ last \in [Conn -> Request]
  /\ asked \in [Conn -> 0 .. MaxAsk + 1]
  /\ holds \in [Conn -> SUBSET Numbers]

HandlerInv ==
  \A t \in Conn : pc[t] = "blocked" => file[t] \in Conn

\* The two semaphores of a client pass one token to and fro, and a request may
\* go over the bound only if it is a quit.
ClientInv ==
  \A c \in Conn : /\ sem_one[c] + sem_two[c] = 1
                  /\ c \notin left => asked[c] <= MaxAsk

Loop == LoopInv(PC, Past, Past)

BusInv == ServerTypeOK /\ ClientTypeOK /\ Loop /\ HandlerInv /\ ClientInv

\* The bus handler's labels fit the loop's lemmas.
LEMMA PCLabels == LabelsOK(PC, Past, Past)
BY DEF LabelsOK, PC, Past

-----------------------------------------------------------------------------
\* The numbers are integers, and so are C's / and % of them.
LEMMA NumbersInt ==
  /\ ROWS \in Nat /\ COLS \in Nat /\ ROWS >= 1 /\ COLS >= 1 /\ ROWS * COLS \in Nat
  /\ Numbers \cup {0} \subseteq Int
  /\ \A n \in Int : Quot(n - 1, COLS) \in Int /\ Rem(n - 1, COLS) \in Int
<1>1. ROWS \in Nat /\ COLS \in Nat /\ ROWS >= 1 /\ COLS >= 1
  BY SeatAssumption
<1>2. Numbers \cup {0} \subseteq Int
  BY SeatAssumption DEF Numbers
<1>3. ASSUME NEW n \in Int PROVE Quot(n - 1, COLS) \in Int /\ Rem(n - 1, COLS) \in Int
  <2>1. Quot(n - 1, COLS) \in Int
    BY <1>1 DEF Quot
  <2>2. COLS * Quot(n - 1, COLS) \in Int
    BY <1>1, <2>1
  <2> QED
    BY <2>1, <2>2 DEF Rem
<1> QED
  BY <1>1, <1>2, <1>3
-----------------------------------------------------------------------------
\* Init establishes BusInv.
LEMMA InitBusInv == Init => BusInv
<1> SUFFICES ASSUME Init PROVE BusInv
  OBVIOUS
<1> USE DEF Init, LoopInit
<1>1. /\ Cardinality(Conn) \in Nat /\ MAX_CLNT \in Nat /\ NoConn \notin Conn
      /\ MaxAsk \in Nat /\ 0 \in Words
  BY ConnAssumption, SeatAssumption, FS_CardinalityType DEF Words, ResultW
<1>2. Registered(Past) = {}
  BY DEF Registered
<1>3. CountIsExact(Past)
  BY <1>2, FS_EmptySet DEF CountIsExact
<1>4. LoopTypeOK(PC)
  BY <1>1 DEF LoopTypeOK, PC, Fds, Slots
<1>5. Bookkeeping
  BY DEF Bookkeeping, Started
<1>6. TableIs(Past) /\ FdsKept(Past)
  <2>1. 0 .. clnt_cnt - 1 = {}
    OBVIOUS
  <2>2. ListedFds = {} /\ {own[c] : c \in Registered(Past)} = {}
    BY <1>2, <2>1 DEF ListedFds
  <2> QED
    BY <2>1, <2>2 DEF TableIs, FdsKept
<1>7. Loop
  BY <1>3, <1>4, <1>5, <1>6 DEF Loop, LoopInv
<1>8. ServerTypeOK
  <2>1. {clean, wild, stray} \subseteq BOOLEAN /\ up \in BOOLEAN
    OBVIOUS
  <2>2. qpacket \in [command : 0 .. Quit, seatno : Numbers \cup {0}]
    BY DEF Quit
  <2> QED
    BY <2>1, <2>2 DEF ServerTypeOK
<1>9. ClientTypeOK
  <2>1. <<>> \in Seq(Request) /\ <<>> \in Seq(Int)
    BY EmptySeq
  <2>2. last \in [Conn -> Request]
    BY DEF Request, Numbers, Inquiry, Quit
  <2> QED
    BY <1>1, <2>1, <2>2 DEF ClientTypeOK, PeerState
<1>10. HandlerInv /\ ClientInv
  BY <1>1 DEF HandlerInv, ClientInv
<1> QED
  BY <1>7, <1>8, <1>9, <1>10 DEF BusInv

\* A handler's steps within its loop, and the labels they lead from and to.
Step(t) ==
  \/ ReadCall(t) \/ Receive(t) \/ LocateRow(t) \/ LocateCol(t) \/ LookUp(t)
  \/ Dispatch(t) \/ Inquire(t) \/ NoteSeat(t)
  \/ CheckNumber(t) \/ RefuseSeat(t) \/ ReserveSeat(t) \/ TakeSeat(t)
  \/ CancelSeat(t) \/ FreeSeat(t) \/ Reply(t)

LEMMA StepLabels ==
  ASSUME NEW t, Step(t)
  PROVE  /\ pc[t] \in PC \ {"none", "start", "done", "quit"}
         /\ \E l \in PC \ {"none", "start", "done"} : pc' = [pc EXCEPT ![t] = l]
<1>1. CASE \/ ReadCall(t) \/ Receive(t) \/ LocateRow(t) \/ LocateCol(t) \/ LookUp(t)
  BY <1>1 DEF ReadCall, Receive, LocateRow, LocateCol, LookUp, PC, Goto
<1>2. CASE Dispatch(t)
  BY <1>2 DEF Dispatch, Test, PC, Goto
<1>3. CASE \/ Inquire(t) \/ NoteSeat(t) \/ CheckNumber(t) \/ RefuseSeat(t)
           \/ ReserveSeat(t)
  BY <1>3 DEF Inquire, NoteSeat, CheckNumber, RefuseSeat, ReserveSeat, PC, Goto
<1>4. CASE TakeSeat(t) \/ CancelSeat(t) \/ FreeSeat(t) \/ Reply(t)
  BY <1>4 DEF TakeSeat, CancelSeat, FreeSeat, Reply, PC, Goto
<1> QED
  BY <1>1, <1>2, <1>3, <1>4 DEF Step

\* Every step keeps the loop's invariant.
LEMMA NextLoop ==
  ASSUME Loop, [Next]_vars
  PROVE  Loop'
<1>1. LoopInv(PC, Past, Past) /\ LoopTypeOK(PC)
  BY DEF Loop, LoopInv
<1>2. ASSUME UNCHANGED loopVars PROVE Loop'
  BY <1>1, <1>2, StutterKeeps DEF Loop
<1>3. UNCHANGED vars \/ Idle => Loop'
  BY <1>2 DEF Idle, vars
<1>4. ASSUME NEW c \in Conn, Client(c) PROVE Loop'
  BY <1>2, <1>4 DEF Client, ClientAsk, ClientShow, ClientDie
<1>5. ASSUME Main PROVE Loop'
  BY <1>1, <1>5, PCLabels, AcceptKeeps, EnlistKeeps, CreateKeeps
    DEF Main, MainAccept, MainAppend, MainCreate, Loop
<1>6. ASSUME NEW t \in Conn, HandlerStart(t) PROVE Loop'
  BY <1>1, <1>6, PCLabels, TakeArgKeeps DEF HandlerStart, PC, Past, Loop
\* A handler's step from one label of its loop to another.
<1>7. ASSUME NEW t \in Conn, NEW next \in PC \ {"none", "start", "done"},
             pc[t] \in PC \ {"none", "start", "done"}, Goto(t, next),
             LoopKept, mutx' \in {mutx, t, NoConn}
      PROVE  Loop'
  BY <1>1, <1>7, PCLabels, MoveKeeps DEF Past, Loop, LoopTypeOK, LoopKept
<1>8. ASSUME NEW t \in Conn, Step(t) PROVE Loop'
  <2>1. LoopKept /\ mutx' \in {mutx, t, NoConn}
    BY <1>8 DEF Step, ReadCall, Receive, LocateRow, LocateCol, LookUp, Dispatch, Test,
         Inquire, NoteSeat, CheckNumber, RefuseSeat, ReserveSeat, TakeSeat, CancelSeat,
         FreeSeat, Reply, OthersKept
  <2>2. /\ pc[t] \in PC \ {"none", "start", "done"}
        /\ \E next \in PC \ {"none", "start", "done"} : Goto(t, next)
    BY <1>8, StepLabels DEF PC, Goto
  <2> QED
    BY <1>7, <2>1, <2>2
<1>9. ASSUME NEW t \in Conn, QuitClient(t) PROVE Loop'
  <2>1. /\ pc[t] = "quit" /\ Goto(t, "done") /\ RemoveSelf(t)
        /\ fdtab' = [fdtab EXCEPT ![sock[t]] = NoConn]
        /\ UNCHANGED <<mainVars, sock>> /\ mutx' \in Conn \cup {NoConn}
    BY <1>9, <1>1 DEF QuitClient, LoopTypeOK
  <2> QED
    BY <1>1, <2>1, PCLabels, LeaveKeeps DEF Past, Loop
<1> QED
  BY <1>3, <1>4, <1>5, <1>6, <1>8, <1>9 DEF Next, Handler, Step
\* What the loop's steps leave alone is the rest of BusInv.
LEMMA RestKept ==
  ASSUME BusInv, UNCHANGED <<up, netVars, pktVars, hdlVars, clntVars, histVars>>,
         \A t \in Conn : pc'[t] = "blocked" => pc[t] = "blocked"
  PROVE  ServerTypeOK' /\ ClientTypeOK' /\ HandlerInv' /\ ClientInv'
BY DEF BusInv, ServerTypeOK, ClientTypeOK, HandlerInv, ClientInv,
       netVars, pktVars, hdlVars, clntVars, histVars

\* A client's steps keep the rest of BusInv.
LEMMA ClientKeeps ==
  ASSUME BusInv, NEW c \in Conn, Client(c)
  PROVE  ServerTypeOK' /\ ClientTypeOK' /\ HandlerInv' /\ ClientInv'
<1> USE DEF BusInv
<1>1. MaxAsk \in Nat
  BY SeatAssumption
<1>2. ServerTypeOK'
  BY DEF Client, ClientAsk, ClientShow, ClientDie, ServerTypeOK, pktVars, hdlVars,
         histVars
<1>3. HandlerInv'
  BY DEF Client, ClientAsk, ClientShow, ClientDie, HandlerInv, pktVars, hdlVars,
         loopVars
<1>4. CASE ClientAsk(c)
  <2>1. PICK r \in Request :
          /\ r.command # Quit => asked[c] < MaxAsk
          /\ last' = [last EXCEPT ![c] = r]
          /\ inbox' = [inbox EXCEPT ![c] = Append(@, r)]
          /\ left' = IF r.command = Quit THEN left \cup {c} ELSE left
    BY <1>4 DEF ClientAsk
  <2>2. /\ c \notin left
        /\ asked' = [asked EXCEPT ![c] = @ + 1]
        /\ sem_two[c] > 0
        /\ sem_two' = [sem_two EXCEPT ![c] = @ - 1]
        /\ sem_one' = [sem_one EXCEPT ![c] = @ + 1]
        /\ UNCHANGED <<peer, replies, holds>>
    BY <1>4 DEF ClientAsk
  <2>3. Append(inbox[c], r) \in Seq(Request)
    BY AppendProperties DEF ClientTypeOK
  <2>4. inbox' \in [Conn -> Seq(Request)]
    BY <2>1, <2>3 DEF ClientTypeOK
  <2>5. asked[c] \in 0 .. MaxAsk
    BY <1>1, <2>2 DEF ClientInv, ClientTypeOK
  <2>6. sem_two[c] = 1 /\ sem_one[c] = 0
    BY <2>2 DEF ClientInv, ClientTypeOK
  <2>7. ClientTypeOK'
    BY <1>1, <2>1, <2>2, <2>4, <2>5, <2>6 DEF ClientTypeOK
  <2>8. ClientInv'
    BY <1>1, <2>1, <2>2, <2>5, <2>6 DEF ClientInv, ClientTypeOK
  <2> QED
    BY <1>2, <1>3, <2>7, <2>8
<1>5. CASE ClientShow(c)
  <2>1. /\ sem_one[c] > 0
        /\ sem_one' = [sem_one EXCEPT ![c] = @ - 1]
        /\ sem_two' = [sem_two EXCEPT ![c] = @ + 1]
        /\ UNCHANGED <<peer, inbox, left, last, asked>>
    BY <1>5 DEF ClientShow
  <2>2. sem_two[c] = 0 /\ sem_one[c] = 1
    BY <2>1 DEF ClientInv, ClientTypeOK
  <2>3. ASSUME UNCHANGED <<replies, holds>>
        PROVE  ClientTypeOK'
    BY <2>1, <2>2, <2>3 DEF ClientTypeOK
  <2>4. ASSUME /\ replies[c] # <<>>
               /\ replies' = [replies EXCEPT ![c] = Tail(@)]
               /\ holds' = [holds EXCEPT ![c] = HoldsAfter(c, Head(replies[c]))]
        PROVE  ClientTypeOK'
    <3>1. replies[c] \in Seq(Int)
      BY DEF ClientTypeOK
    <3>2. Tail(replies[c]) \in Seq(Int)
      BY <2>4, <3>1, HeadTailProperties
    <3>3. last[c].seatno \in Numbers /\ holds[c] \subseteq Numbers
      BY DEF ClientTypeOK, Request
    <3>4. HoldsAfter(c, Head(replies[c])) \subseteq Numbers
      BY <3>3 DEF HoldsAfter
    <3>5. replies' \in [Conn -> Seq(Int)] /\ holds' \in [Conn -> SUBSET Numbers]
      BY <2>4, <3>2, <3>4 DEF ClientTypeOK
    <3>6. sem_one' \in [Conn -> 0 .. 1] /\ sem_two' \in [Conn -> 0 .. 1]
      BY <2>1, <2>2 DEF ClientTypeOK
    <3> QED
      BY <2>1, <3>5, <3>6 DEF ClientTypeOK
  <2>5. ClientTypeOK'
    BY <1>5, <2>3, <2>4 DEF ClientShow
  <2>6. ClientInv'
    BY <2>1, <2>2 DEF ClientInv, ClientTypeOK
  <2> QED
    BY <1>2, <1>3, <2>5, <2>6
<1>6. CASE ClientDie(c)
  <2>1. PICK p \in {"fin", "err"} : peer' = [peer EXCEPT ![c] = p]
    BY <1>6 DEF ClientDie, AfterClose
  <2>2. UNCHANGED <<inbox, replies, clntVars>>
    BY <1>6 DEF ClientDie
  <2> QED
    BY <1>2, <1>3, <2>1, <2>2 DEF ClientTypeOK, ClientInv, clntVars, PeerState
<1> QED
  BY <1>4, <1>5, <1>6 DEF Client

\* So do a handler's.
LEMMA HandlerKeeps ==
  ASSUME BusInv, NEW t \in Conn, Handler(t)
  PROVE  ServerTypeOK' /\ ClientTypeOK' /\ HandlerInv' /\ ClientInv'
<1> USE DEF BusInv
<1>1. LoopTypeOK(PC)
  BY DEF Loop, LoopInv
<1>2. ClientInv'
  <2>1. UNCHANGED clntVars
    BY DEF Handler, HandlerStart, ReadCall, Receive, LocateRow, LocateCol, LookUp,
         Dispatch, Test, Inquire, NoteSeat, CheckNumber, RefuseSeat, ReserveSeat,
         TakeSeat, CancelSeat, FreeSeat, Reply, QuitClient, OthersKept
  <2> QED
    BY <2>1 DEF ClientInv, clntVars
<1>3. CASE HandlerStart(t)
  BY <1>1, <1>3, RestKept DEF HandlerStart, TakeArg, LoopTypeOK
<1>4. CASE ReadCall(t)
  <2>1. sock[t] \in Fds
    BY <1>1, <1>4 DEF ReadCall, Loop, LoopInv, Bookkeeping, Started, LoopTypeOK
  <2>2. fdtab[sock[t]] \in Conn \cup {NoConn}
    BY <1>1, <2>1 DEF LoopTypeOK
  <2>3. /\ file' = [file EXCEPT ![t] = fdtab[sock[t]]]
        /\ pc' = [pc EXCEPT ![t] = IF file'[t] = NoConn THEN "row" ELSE "blocked"]
        /\ clean' \in BOOLEAN
        /\ UNCHANGED <<up, netVars, pktVars, row, word, seat, clntVars, wild, stray>>
    BY <1>4 DEF ReadCall, Goto
  <2>4. ServerTypeOK' /\ ClientTypeOK'
    BY <2>2, <2>3 DEF ServerTypeOK, ClientTypeOK, netVars, pktVars, clntVars
  <2>5. HandlerInv'
    BY <1>1, <2>2, <2>3 DEF ServerTypeOK, HandlerInv, LoopTypeOK
  <2> QED
    BY <1>2, <2>4, <2>5
<1>5. CASE Receive(t)
  <2> DEFINE c == file[t]
  <2>1. /\ pc[t] = "blocked"
        /\ file' = [file EXCEPT ![t] = NoConn]
        /\ pc' = [pc EXCEPT ![t] = "row"]
        /\ clean' = (clean /\ \A u \in Conn \ {t} : ~Busy(u))
        /\ UNCHANGED <<up, replies, spacket, row, word, seat, clntVars, wild, stray>>
    BY <1>5 DEF Receive, Goto
  <2>2. c \in Conn
    BY <2>1 DEF HandlerInv
  <2>3. inbox[c] \in Seq(Request)
    BY <2>2 DEF ClientTypeOK
  <2>4. /\ qpacket' \in [command : 0 .. Quit, seatno : Numbers \cup {0}]
        /\ inbox' \in [Conn -> Seq(Request)]
        /\ peer' \in [Conn -> PeerState]
    <3>1. CASE /\ inbox[c] # <<>>
               /\ qpacket' = Head(inbox[c])
               /\ inbox' = [inbox EXCEPT ![c] = Tail(@)]
               /\ UNCHANGED peer
      <4>1. Head(inbox[c]) \in Request /\ Tail(inbox[c]) \in Seq(Request)
        BY <2>3, <3>1, HeadTailProperties
      <4>2. Request \subseteq [command : 0 .. Quit, seatno : Numbers \cup {0}]
        BY DEF Request, Inquiry, Quit
      <4> QED
        BY <3>1, <4>1, <4>2 DEF ClientTypeOK
    <3>2. CASE /\ peer' = [peer EXCEPT ![c] = IF @ = "err" THEN "rst" ELSE @]
               /\ UNCHANGED <<qpacket, inbox>>
      BY <3>2 DEF ServerTypeOK, ClientTypeOK, PeerState
    <3> QED
      BY <1>5, <3>1, <3>2 DEF Receive
  <2>5. clean' \in BOOLEAN
    BY <2>1 DEF ServerTypeOK
  <2>6. ServerTypeOK'
    BY <2>1, <2>4, <2>5 DEF ServerTypeOK
  <2>7. ClientTypeOK'
    BY <2>1, <2>4 DEF ClientTypeOK, clntVars
  <2>8. HandlerInv'
    BY <1>1, <2>1 DEF ServerTypeOK, HandlerInv, LoopTypeOK
  <2> QED
    BY <1>2, <2>6, <2>7, <2>8
\* The steps in between change the packets, the locals, and up and stray.
<1>6. CASE \/ LocateRow(t) \/ LocateCol(t) \/ LookUp(t)
           \/ Dispatch(t) \/ Inquire(t) \/ NoteSeat(t)
           \/ CheckNumber(t) \/ RefuseSeat(t) \/ ReserveSeat(t) \/ TakeSeat(t)
           \/ CancelSeat(t) \/ FreeSeat(t)
  <2>1. /\ OthersKept /\ UNCHANGED qpacket
        /\ \E l \in PC \ {"blocked"} : pc' = [pc EXCEPT ![t] = l]
    BY <1>6 DEF LocateRow, LocateCol, LookUp, Dispatch, Test, Inquire, NoteSeat,
         CheckNumber, RefuseSeat, ReserveSeat, TakeSeat, CancelSeat, FreeSeat, pktVars,
         Goto, PC
  <2>2. /\ ResultW \in Words /\ SeatnoW \in Words
        /\ sock[t] \in Int /\ word[t] \in Int /\ row[t] \in Int
        /\ qpacket.seatno \in Int /\ SeatW(1) = 1
    <3>1. sock[t] \in Int
      BY <1>1, ConnAssumption DEF LoopTypeOK, Fds, NoFd
    <3>2. qpacket.seatno \in Int
      BY NumbersInt DEF ServerTypeOK
    <3>3. ResultW \in Words /\ SeatnoW \in Words /\ SeatW(1) = 1
      BY NumbersInt DEF Words, ResultW, SeatnoW, SeatW
    <3>4. word[t] \in Int /\ row[t] \in Int
      BY DEF ServerTypeOK
    <3> QED
      BY <3>1, <3>2, <3>3, <3>4
  <2>3. /\ row' \in [Conn -> Int] /\ word' \in [Conn -> Int] /\ seat' \in [Conn -> Int]
    <3>1. CASE LocateRow(t)
      <4>1. Quot(qpacket.seatno - 1, COLS) \in Int
        BY <2>2, NumbersInt
      <4>2. /\ row' = [row EXCEPT ![t] = Quot(qpacket.seatno - 1, COLS)]
            /\ UNCHANGED <<word, seat>>
        BY <3>1 DEF LocateRow
      <4> QED
        BY <4>1, <4>2 DEF ServerTypeOK
    <3>2. CASE LocateCol(t)
      <4> DEFINE w == SeatW(1) + row[t] * COLS + Rem(qpacket.seatno - 1, COLS)
      <4>1. row[t] * COLS \in Int /\ Rem(qpacket.seatno - 1, COLS) \in Int
        BY <2>2, NumbersInt
      <4>2. w \in Int
        BY <2>2, <4>1
      <4>3. /\ word' = [word EXCEPT ![t] = w] /\ row' = [row EXCEPT ![t] = 0]
            /\ UNCHANGED seat
        BY <3>2 DEF LocateCol
      <4> HIDE DEF w
      <4> QED
        BY <4>2, <4>3 DEF ServerTypeOK
    <3>3. CASE LookUp(t)
      <4>1. PICK s \in IF word[t] \in Words THEN {spacket[word[t]]} ELSE Garbage :
              seat' = [seat EXCEPT ![t] = s]
        BY <3>3 DEF LookUp
      <4>2. s \in Int
        BY <4>1, SeatAssumption DEF ServerTypeOK
      <4>3. UNCHANGED <<row, word>>
        BY <3>3 DEF LookUp
      <4> QED
        BY <4>1, <4>2, <4>3 DEF ServerTypeOK
    <3> QED
      BY <1>6, <3>1, <3>2, <3>3 DEF ServerTypeOK, Dispatch, Test, Inquire, NoteSeat,
         CheckNumber, RefuseSeat, ReserveSeat, TakeSeat, CancelSeat, FreeSeat
  <2>4. spacket' \in [Words -> Int]
    <3>1. \/ spacket' = spacket
          \/ \E w \in Words, v \in Int : spacket' = [spacket EXCEPT ![w] = v]
      <4>1. CASE \/ LocateRow(t) \/ LocateCol(t) \/ LookUp(t) \/ Dispatch(t)
                 \/ CheckNumber(t)
        BY <4>1 DEF LocateRow, LocateCol, LookUp, Dispatch, Test, CheckNumber, pktVars
      <4>2. CASE Inquire(t) \/ NoteSeat(t) \/ RefuseSeat(t)
        <5>1. \/ spacket' = [spacket EXCEPT ![ResultW] = 0]
              \/ spacket' = [spacket EXCEPT ![ResultW] = -1]
              \/ spacket' = [spacket EXCEPT ![SeatnoW] = qpacket.seatno]
          BY <4>2 DEF Inquire, NoteSeat, RefuseSeat
        <5> QED
          BY <2>2, <5>1
      <4>3. CASE ReserveSeat(t) \/ CancelSeat(t)
        <5>1. PICK v \in {0, -2, -3, -4} : spacket' = [spacket EXCEPT ![ResultW] = v]
          BY <4>3 DEF ReserveSeat, CancelSeat
        <5>2. v \in Int
          OBVIOUS
        <5> QED
          BY <2>2, <5>1, <5>2
      <4>4. CASE TakeSeat(t) \/ FreeSeat(t)
        <5>1. \/ spacket' = spacket
              \/ /\ word[t] \in Words
                 /\ \/ spacket' = [spacket EXCEPT ![word[t]] = sock[t]]
                    \/ spacket' = [spacket EXCEPT ![word[t]] = 0]
          BY <4>4 DEF TakeSeat, FreeSeat, WriteSeat
        <5> QED
          BY <2>2, <5>1
      <4> QED
        BY <1>6, <4>1, <4>2, <4>3, <4>4
    <3> QED
      BY <3>1 DEF ServerTypeOK
  <2>5. up' \in BOOLEAN /\ {clean', wild', stray'} \subseteq BOOLEAN
    BY <1>6, <2>1 DEF ServerTypeOK, OthersKept, LocateRow, LocateCol, LookUp, Dispatch,
       Test, Inquire, NoteSeat, CheckNumber, RefuseSeat, ReserveSeat, TakeSeat,
       CancelSeat, FreeSeat, WriteSeat
  <2>6. ServerTypeOK' /\ ClientTypeOK'
    BY <2>1, <2>3, <2>4, <2>5 DEF ServerTypeOK, ClientTypeOK, OthersKept, netVars,
       clntVars
  <2>7. HandlerInv'
    BY <1>1, <2>1 DEF HandlerInv, LoopTypeOK, OthersKept
  <2> QED
    BY <1>2, <2>6, <2>7
<1>9. CASE Reply(t)
  <2> DEFINE c == fdtab[sock[t]]
  <2>1. sock[t] \in Fds
    BY <1>1, <1>9 DEF Reply, Loop, LoopInv, Bookkeeping, Started, LoopTypeOK
  <2>2. c \in Conn \cup {NoConn}
    BY <1>1, <2>1 DEF LoopTypeOK
  <2>3. /\ up' \in BOOLEAN
        /\ peer' \in [Conn -> PeerState]
        /\ replies' \in [Conn -> Seq(Int)]
    <3>1. CASE c = NoConn
      BY <1>9, <3>1 DEF Reply, ServerTypeOK, ClientTypeOK
    <3>2. CASE c # NoConn
      <4>1. /\ up' = ~WriteKills(peer[c])
            /\ \E p \in AfterWrite(peer[c]) : peer' = [peer EXCEPT ![c] = p]
            /\ replies' = IF peer[c] = "open"
                            THEN [replies EXCEPT ![c] = Append(@, spacket[ResultW])]
                            ELSE replies
        BY <1>9, <3>2 DEF Reply
      <4>2. c \in Conn /\ spacket[ResultW] \in Int
        BY <2>2, <3>2, NumbersInt DEF ServerTypeOK, Words, ResultW
      <4>3. Append(replies[c], spacket[ResultW]) \in Seq(Int)
        BY <4>2, AppendProperties DEF ClientTypeOK
      <4> HIDE DEF c
      <4>4. replies' \in [Conn -> Seq(Int)]
        BY <4>1, <4>2, <4>3 DEF ClientTypeOK
      <4>5. up' \in BOOLEAN /\ peer' \in [Conn -> PeerState]
        BY <4>1, <4>2 DEF ClientTypeOK, WriteKills, AfterWrite, PeerState
      <4> QED
        BY <4>4, <4>5
    <3> QED
      BY <3>1, <3>2
  <2>4. /\ word' = [word EXCEPT ![t] = 0] /\ seat' = [seat EXCEPT ![t] = 0]
        /\ pc' = [pc EXCEPT ![t] = "read"]
        /\ UNCHANGED <<inbox, pktVars, file, row, clntVars, histVars>>
    BY <1>9 DEF Reply, Forget, Goto
  <2>6. ServerTypeOK' /\ ClientTypeOK'
    BY <2>3, <2>4 DEF ServerTypeOK, ClientTypeOK, pktVars, clntVars, histVars
  <2>7. HandlerInv'
    BY <1>1, <2>4 DEF HandlerInv, LoopTypeOK
  <2> QED
    BY <1>2, <2>6, <2>7
<1>10. CASE QuitClient(t)
  <2>1. /\ word' = [word EXCEPT ![t] = 0] /\ seat' = [seat EXCEPT ![t] = 0]
        /\ pc' = [pc EXCEPT ![t] = "done"]
        /\ UNCHANGED <<up, netVars, pktVars, file, row, clntVars, histVars>>
    BY <1>10 DEF QuitClient, Forget, Goto
  <2>3. ServerTypeOK' /\ ClientTypeOK'
    BY <2>1 DEF ServerTypeOK, ClientTypeOK, netVars, pktVars, clntVars, histVars
  <2>4. HandlerInv'
    BY <1>1, <2>1 DEF HandlerInv, LoopTypeOK
  <2> QED
    BY <1>2, <2>3, <2>4
<1> QED
  BY <1>3, <1>4, <1>5, <1>6, <1>9, <1>10 DEF Handler

\* Every step keeps BusInv.
LEMMA NextBusInv == BusInv /\ [Next]_vars => BusInv'
<1> SUFFICES ASSUME BusInv, [Next]_vars PROVE BusInv'
  OBVIOUS
<1>1. Loop' /\ LoopTypeOK(PC)
  BY NextLoop DEF BusInv, Loop, LoopInv
<1>2. CASE Idle \/ UNCHANGED vars
  BY <1>1, <1>2, RestKept DEF Idle, vars, loopVars, BusInv
<1>3. CASE Main
  <2>1. UNCHANGED <<up, netVars, pktVars, hdlVars, clntVars, histVars>>
    BY <1>3 DEF Main, MainAccept, MainAppend, MainCreate
  <2>2. UNCHANGED pc \/ pc' = [pc EXCEPT ![cur] = "start"]
    BY <1>3 DEF Main, MainAccept, Accept, MainAppend, Enlist, MainCreate, Create
  <2> QED
    BY <1>1, <2>1, <2>2, RestKept DEF BusInv, LoopTypeOK
<1>4. ASSUME NEW c \in Conn, Client(c) \/ Handler(c) PROVE BusInv'
  BY <1>1, <1>4, ClientKeeps, HandlerKeeps DEF BusInv
<1> QED
  BY <1>2, <1>3, <1>4 DEF Next

\* BusInv holds in every reachable state.
LEMMA BusInvariance == Spec => []BusInv
BY InitBusInv, NextBusInv, PTL DEF Spec

\* The variables always have their types, whatever numbers the clients send:
\* clnt_cnt stays inside clnt_socks, and the handlers' quotients, remainders and
\* copies are numbers.
THEOREM BusTypes == Spec => []TypeOK
<1>1. BusInv => TypeOK
  BY DEF BusInv, TypeOK, ServerTypeOK, ClientTypeOK, Loop, LoopInv
<1> QED
  BY <1>1, BusInvariance, PTL

\* clnt_cnt counts the listed connections that are still served, in spite of
\* mixed-up arguments and quits served twice from a stale request packet.
THEOREM BusCount == Spec => []CountExact
<1>1. BusInv => CountExact
  BY DEF BusInv, Loop, LoopInv, CountExact
<1> QED
  BY <1>1, BusInvariance, PTL
-----------------------------------------------------------------------------
(***************************************************************************)
(* Where the indices lie.                                                  *)
(***************************************************************************)

\* The numbers that lead to a seat's word or to the seatno field.
Near == Seats \cup {0}
NearRequest == [command : Inquiry .. Quit, seatno : Near]

\* Their rows, and their columns.
RowRange == IF COLS = 1 THEN -1 .. ROWS - 1 ELSE 0 .. ROWS - 1
ColRange == IF COLS = 1 THEN {0} ELSE -1 .. COLS - 1

\* As long as nobody sends another number, the one in the shared packet, those
\* on their way and what the handlers made of them are near.
PacketInv ==
  ~wild => /\ ~stray
           /\ qpacket.seatno \in Near
           /\ inbox \in [Conn -> Seq(NearRequest)]
           /\ \A t \in Conn : /\ pc[t] = "col" => row[t] \in RowRange
                              /\ word[t] \in Words

LEMMA RowOf ==
  ASSUME NEW s \in Near
  PROVE  Quot(s - 1, COLS) \in RowRange
<1>1. /\ ROWS \in Nat /\ COLS \in Nat /\ ROWS >= 1 /\ COLS >= 1
      /\ s \in 0 .. ROWS * COLS
  BY SeatAssumption DEF Near, Seats
<1>2. CASE COLS = 1
  BY <1>1, <1>2 DEF Quot, RowRange
<1>3. CASE COLS # 1 /\ s = 0
  BY <1>1, <1>3 DEF Quot, RowRange
<1>4. CASE COLS # 1 /\ s # 0
  <2>1. s - 1 >= 0 /\ s - 1 < ROWS * COLS
    BY <1>1, <1>4
  <2>2. (s - 1) \div COLS \in 0 .. ROWS - 1
    BY <1>1, <2>1
  <2> QED
    BY <1>4, <2>1, <2>2 DEF Quot, RowRange
<1> QED
  BY <1>2, <1>3, <1>4

LEMMA ColOf ==
  ASSUME NEW s \in Near
  PROVE  Rem(s - 1, COLS) \in ColRange
<1>1. /\ COLS \in Nat /\ COLS >= 1 /\ s \in Nat
  BY SeatAssumption DEF Near, Seats
<1>2. CASE COLS = 1
  BY <1>1, <1>2 DEF Rem, Quot, ColRange
<1>3. CASE COLS # 1 /\ s = 0
  BY <1>1, <1>3 DEF Rem, Quot, ColRange
<1>4. CASE COLS # 1 /\ s # 0
  <2>1. (s - 1) - COLS * ((s - 1) \div COLS) \in 0 .. COLS - 1
    BY <1>1, <1>4
  <2> QED
    BY <1>1, <1>4, <2>1 DEF Rem, Quot, ColRange
<1> QED
  BY <1>2, <1>3, <1>4

\* The row of one number with the column of another is still in the packet.
LEMMA WordInPacket ==
  ASSUME NEW r \in RowRange, NEW k \in ColRange
  PROVE  SeatW(1) + r * COLS + k \in Words
<1>1. /\ ROWS \in Nat /\ COLS \in Nat /\ ROWS >= 1 /\ COLS >= 1
  BY SeatAssumption
<1>2. CASE COLS = 1
  BY <1>1, <1>2 DEF RowRange, ColRange, SeatW, Words, ResultW
<1>3. CASE COLS # 1
  <2>1. /\ r \in 0 .. ROWS - 1 /\ k \in -1 .. COLS - 1
    BY <1>3 DEF RowRange, ColRange
  <2>2. r * COLS >= 0 /\ r * COLS <= (ROWS - 1) * COLS
    BY <1>1, <2>1
  <2>3. (ROWS - 1) * COLS = ROWS * COLS - COLS
    BY <1>1
  <2>4. r * COLS \in Int /\ ROWS * COLS \in Int
    BY <1>1, <2>1
  <2> QED
    BY <1>1, <2>1, <2>2, <2>3, <2>4 DEF SeatW, Words, ResultW
<1> QED
  BY <1>2, <1>3

LEMMA InitPacketInv == Init => PacketInv
<1> SUFFICES ASSUME Init PROVE PacketInv
  OBVIOUS
<1>1. 0 \in Words
  BY NumbersInt DEF Words, ResultW
<1>2. <<>> \in Seq(NearRequest)
  BY EmptySeq
<1> QED
  BY <1>1, <1>2 DEF Init, LoopInit, PacketInv, Near

\* Steps that take no request and work out no index.
LEMMA PacketKept ==
  ASSUME PacketInv, UNCHANGED <<inbox, row, word, wild, stray>>,
         qpacket'.seatno = qpacket.seatno,
         \A t \in Conn : pc'[t] = "col" => pc[t] = "col"
  PROVE  PacketInv'
BY DEF PacketInv

LEMMA NextPacketInv ==
  ASSUME BusInv, PacketInv, [Next]_vars
  PROVE  PacketInv'
<1> USE DEF BusInv
<1>1. LoopTypeOK(PC)
  BY DEF Loop, LoopInv
<1>2. CASE UNCHANGED vars \/ Idle
  BY <1>2, PacketKept DEF Idle, vars, loopVars, netVars, pktVars, hdlVars, histVars
<1>3. CASE Main
  <2>1. UNCHANGED <<netVars, pktVars, hdlVars, histVars>>
    BY <1>3 DEF Main, MainAccept, MainAppend, MainCreate
  <2>2. UNCHANGED pc \/ pc' = [pc EXCEPT ![cur] = "start"]
    BY <1>3 DEF Main, MainAccept, Accept, MainAppend, Enlist, MainCreate, Create
  <2> QED
    BY <1>1, <2>1, <2>2, PacketKept DEF LoopTypeOK, netVars, pktVars, hdlVars, histVars
<1>4. ASSUME NEW c \in Conn, Client(c) PROVE PacketInv'
  <2>1. CASE ClientShow(c) \/ ClientDie(c)
    BY <2>1, PacketKept DEF ClientShow, ClientDie, loopVars, pktVars, hdlVars, histVars
  <2>2. CASE ClientAsk(c)
    <3>1. PICK r \in Request :
            /\ inbox' = [inbox EXCEPT ![c] = Append(@, r)]
            /\ wild' = (wild \/ r.seatno \notin Seats \cup {0})
      BY <2>2 DEF ClientAsk
    <3>2. UNCHANGED <<loopVars, pktVars, hdlVars, stray>>
      BY <2>2 DEF ClientAsk
    <3>3. SUFFICES ASSUME ~wild' PROVE PacketInv'
      BY DEF PacketInv
    <3>4. ~wild /\ r \in NearRequest
      BY <3>1, <3>3 DEF Request, NearRequest, Near
    <3>5. inbox \in [Conn -> Seq(NearRequest)]
      BY <3>4 DEF PacketInv
    <3>6. Append(inbox[c], r) \in Seq(NearRequest)
      BY <3>4, <3>5, AppendProperties
    <3>7. inbox' \in [Conn -> Seq(NearRequest)]
      BY <3>1, <3>5, <3>6
    <3> QED
      BY <3>2, <3>4, <3>7 DEF PacketInv, loopVars, pktVars, hdlVars
  <2> QED
    BY <1>4, <2>1, <2>2 DEF Client
<1>5. ASSUME NEW t \in Conn, Handler(t) PROVE PacketInv'
  <2> SUFFICES ASSUME ~wild PROVE PacketInv'
    <3>1. UNCHANGED wild
      BY <1>5 DEF Handler, HandlerStart, ReadCall, Receive, LocateRow, LocateCol, LookUp,
         Dispatch, Test, Inquire, NoteSeat, CheckNumber, RefuseSeat, ReserveSeat,
         TakeSeat, CancelSeat, FreeSeat, Reply, QuitClient, OthersKept, histVars
    <3> QED
      BY <3>1 DEF PacketInv
  <2>0. /\ ~stray /\ qpacket.seatno \in Near
        /\ inbox \in [Conn -> Seq(NearRequest)]
        /\ \A u \in Conn : word[u] \in Words
        /\ 0 \in Words
    BY NumbersInt DEF PacketInv, Words, ResultW
  <2>1. CASE Receive(t)
    <3>1. /\ pc[t] = "blocked" /\ pc' = [pc EXCEPT ![t] = "row"]
          /\ UNCHANGED <<row, word, wild, stray>>
      BY <2>1 DEF Receive, Goto
    <3>2. CASE inbox[file[t]] # <<>> /\ qpacket' = Head(inbox[file[t]])
               /\ inbox' = [inbox EXCEPT ![file[t]] = Tail(@)]
      <4>1. file[t] \in Conn
        BY <3>1 DEF HandlerInv
      <4>2. inbox[file[t]] \in Seq(NearRequest)
        BY <2>0, <4>1
      <4>3. Head(inbox[file[t]]) \in NearRequest /\ Tail(inbox[file[t]]) \in Seq(NearRequest)
        BY <3>2, <4>2, HeadTailProperties
      <4>4. qpacket'.seatno \in Near /\ inbox' \in [Conn -> Seq(NearRequest)]
        BY <2>0, <3>2, <4>3 DEF NearRequest
      <4> QED
        BY <1>1, <2>0, <3>1, <4>4 DEF PacketInv, LoopTypeOK
    <3>3. CASE UNCHANGED <<qpacket, inbox>>
      BY <1>1, <3>1, <3>3, PacketKept DEF LoopTypeOK
    <3> QED
      BY <2>1, <3>2, <3>3 DEF Receive
  <2>2. CASE LocateRow(t)
    <3>1. /\ row' = [row EXCEPT ![t] = Quot(qpacket.seatno - 1, COLS)]
          /\ pc' = [pc EXCEPT ![t] = "col"]
          /\ UNCHANGED <<inbox, qpacket, word, wild, stray>>
      BY <2>2 DEF LocateRow, OthersKept, netVars, pktVars, Goto
    <3>2. Quot(qpacket.seatno - 1, COLS) \in RowRange
      BY <2>0, RowOf
    <3> QED
      BY <1>1, <2>0, <3>1, <3>2 DEF PacketInv, ServerTypeOK, LoopTypeOK
  <2>3. CASE LocateCol(t)
    <3> DEFINE w == SeatW(1) + row[t] * COLS + Rem(qpacket.seatno - 1, COLS)
    <3>1. /\ pc[t] = "col" /\ pc' = [pc EXCEPT ![t] = "look"]
          /\ word' = [word EXCEPT ![t] = w]
          /\ row' = [row EXCEPT ![t] = 0]
          /\ UNCHANGED <<inbox, qpacket, wild, stray>>
      BY <2>3 DEF LocateCol, OthersKept, netVars, pktVars, Goto
    <3>2. row[t] \in RowRange /\ Rem(qpacket.seatno - 1, COLS) \in ColRange
      BY <2>0, <3>1, ColOf DEF PacketInv
    <3>3. w \in Words
      BY <3>2, WordInPacket
    <3> HIDE DEF w
    <3>4. \A u \in Conn : word'[u] \in Words
      BY <2>0, <3>1, <3>3 DEF ServerTypeOK
    <3>5. \A u \in Conn : pc'[u] = "col" => row'[u] \in RowRange
      BY <1>1, <3>1 DEF PacketInv, ServerTypeOK, LoopTypeOK
    <3> QED
      BY <2>0, <3>1, <3>4, <3>5 DEF PacketInv
  <2>4. CASE Reply(t) \/ QuitClient(t)
    <3>1. /\ word' = [word EXCEPT ![t] = 0]
          /\ \E l \in {"read", "done"} : pc' = [pc EXCEPT ![t] = l]
          /\ UNCHANGED <<inbox, qpacket, row, wild, stray>>
      BY <2>4 DEF Reply, QuitClient, Forget, netVars, pktVars, histVars, Goto
    <3>2. \A u \in Conn : word'[u] \in Words
      BY <2>0, <3>1 DEF ServerTypeOK
    <3> QED
      BY <1>1, <2>0, <3>1, <3>2 DEF PacketInv, LoopTypeOK
  <2>5. CASE HandlerStart(t) \/ ReadCall(t)
    <3>1. /\ UNCHANGED <<inbox, qpacket, row, word, wild, stray>>
          /\ \E l \in {"read", "row", "blocked"} : pc' = [pc EXCEPT ![t] = l]
      BY <2>5 DEF HandlerStart, TakeArg, ReadCall, netVars, pktVars, hdlVars, histVars,
         Goto
    <3> QED
      BY <1>1, <3>1, PacketKept DEF LoopTypeOK
  <2>6. CASE \/ LookUp(t) \/ Dispatch(t) \/ Inquire(t) \/ NoteSeat(t)
             \/ CheckNumber(t) \/ RefuseSeat(t) \/ ReserveSeat(t) \/ TakeSeat(t)
             \/ CancelSeat(t) \/ FreeSeat(t)
    <3>1. /\ UNCHANGED <<inbox, qpacket, row, word, wild>>
          /\ \E l \in PC \ {"col"} : pc' = [pc EXCEPT ![t] = l]
      BY <2>6 DEF LookUp, Dispatch, Test, Inquire, NoteSeat, CheckNumber, RefuseSeat,
         ReserveSeat, TakeSeat, CancelSeat, FreeSeat, OthersKept, netVars, pktVars, Goto,
         PC
    <3>2. UNCHANGED stray
      BY <2>0, <2>6 DEF LookUp, Dispatch, Test, Inquire, NoteSeat, CheckNumber,
         RefuseSeat, ReserveSeat, TakeSeat, CancelSeat, FreeSeat, WriteSeat
    <3> QED
      BY <1>1, <3>1, <3>2, PacketKept DEF LoopTypeOK
  <2> QED
    BY <1>5, <2>1, <2>2, <2>3, <2>4, <2>5, <2>6 DEF Handler
<1> QED
  BY <1>2, <1>3, <1>4, <1>5 DEF Next

\* A wrong or uninitialised number is the only way out of the response packet:
\* as long as all numbers sent are seats' or 0, no handler writes outside it,
\* although none of them is checked before it is used as an index and the row of
\* one request may meet the column of another (bus_server.c:96-98, 116, 131).
THEOREM BusInPacket == Spec => []InPacket
<1>1. Init => BusInv /\ PacketInv
  BY InitBusInv, InitPacketInv
<1>2. BusInv /\ PacketInv /\ [Next]_vars => BusInv' /\ PacketInv'
  BY NextBusInv, NextPacketInv
<1>3. PacketInv => InPacket
  BY DEF PacketInv, InPacket
<1> QED
  BY <1>1, <1>2, <1>3, PTL DEF Spec
-----------------------------------------------------------------------------
(***************************************************************************)
(* The program used as intended.                                           *)
(***************************************************************************)

\* No client was killed and nobody has another's argument.
Intact ==
  /\ clean
  /\ \A c \in Conn : peer[c] = "open"
  /\ ArgWaits
  /\ ArgsIntact

\* Where a client's request is: on its way, with the handler, or answered; after
\* a quit the handler has gone.  At the prompt there is none.
RequestInv ==
  \A c \in Conn :
    /\ last[c].command = Quit \/ pc[c] = "done" => c \in left
    /\ sem_two[c] = 1 => inbox[c] = <<>> /\ replies[c] = <<>> /\ ~Busy(c)
    /\ sem_two[c] = 0 =>
         /\ last[c].command \in {Reserve, Cancel} => last[c].seatno \in Seats
         /\ \/ /\ inbox[c] = <<last[c]>> /\ replies[c] = <<>>
               /\ ~Busy(c) /\ pc[c] # "done"
            \/ /\ inbox[c] = <<>> /\ replies[c] = <<>>
               /\ Busy(c) \/ pc[c] = "done"
            \/ /\ inbox[c] = <<>> /\ Len(replies[c]) = 1
               /\ ~Busy(c) /\ pc[c] # "done"

\* The labels after LocateCol, and those after LookUp, until the seat is written.
Looked  == {"inquiry?", "reserve?", "cancel?", "quit?", "inquiry", "reserve", "lock",
            "judge", "take", "cancel", "decide", "free"}
Located == Looked \cup {"look"}

\* The commands a handler at a label of the if chain may have in work.
Commands(l) ==
  IF l = "inquiry" THEN {Inquiry}
  ELSE IF l \in {"reserve", "lock", "judge", "take"} THEN {Reserve}
  ELSE IF l \in {"cancel", "decide", "free"} THEN {Cancel}
  ELSE IF l \in {"quit?", "quit"} THEN {Quit}
  ELSE IF l = "cancel?" THEN {Cancel, Quit}
  ELSE IF l = "reserve?" THEN {Reserve, Cancel, Quit}
  ELSE {Inquiry, Reserve, Cancel, Quit}

\* What a handler has worked out of the request in qpacket still holds.
AtLabel(t) ==
  LET n == qpacket.seatno
  IN  /\ pc[t] # "refuse"
      /\ qpacket.command \in Commands(pc[t])
      /\ pc[t] = "col" => row[t] = Quot(n - 1, COLS)
      /\ pc[t] \in Located => word[t] = SeatW(n)
      /\ pc[t] \in Looked /\ n \in Seats => seat[t] = spacket[SeatW(n)]
      /\ pc[t] = "take" => seat[t] = 0 /\ spacket[ResultW] = 0
      /\ pc[t] = "free" => seat[t] = sock[t] /\ spacket[ResultW] = 0

\* The request a handler works on is its client's, nobody else's.
WorkInv ==
  \A t \in Conn :
    /\ pc[t] = "blocked" => file[t] = t
    /\ Busy(t) => /\ qpacket = last[t]
                  /\ \A u \in Conn : Busy(u) => u = t
                  /\ AtLabel(t)

\* The server has decided in favour of a client's request, and the client is
\* still to be shown that.
Granted(c) ==
  /\ sem_two[c] = 0
  /\ \/ pc[c] = "reply" /\ spacket[ResultW] = 0
     \/ replies[c] = <<0>>

\* The seats a client has once it has seen every reply.
Due(c) == IF Granted(c) THEN HoldsAfter(c, 0) ELSE holds[c]

SeatInv ==
  \A c \in Conn :
    pc[c] # "done" =>
      \A s \in Due(c) : /\ s \in Seats
                        /\ own[c] # NoFd
                        /\ spacket[SeatW(s)] = own[c]

Serving == BusInv /\ Intact /\ RequestInv /\ WorkInv /\ SeatInv

\* The server may crash on looking up an uninitialised number.
OrderlyInv == BusInv /\ Intact /\ (up => Serving)
-----------------------------------------------------------------------------
\* The word of a number is the number's, and that of a seat is in the packet.
LEMMA SeatWord ==
  ASSUME NEW s \in Int
  PROVE  /\ SeatW(1) + Quot(s - 1, COLS) * COLS + Rem(s - 1, COLS) = SeatW(s)
         /\ s \in Seats => SeatW(s) \in Words \ {SeatnoW, ResultW}
<1>1. /\ ROWS \in Nat /\ COLS \in Nat /\ ROWS >= 1 /\ COLS >= 1 /\ ROWS * COLS \in Nat
  BY NumbersInt
<1>2. Quot(s - 1, COLS) \in Int
  BY NumbersInt
<1>3. Quot(s - 1, COLS) * COLS = COLS * Quot(s - 1, COLS)
      /\ COLS * Quot(s - 1, COLS) \in Int
  BY <1>1, <1>2
<1>4. SeatW(1) + Quot(s - 1, COLS) * COLS + Rem(s - 1, COLS) = SeatW(s)
  BY <1>1, <1>3 DEF SeatW, Rem
<1>5. s \in Seats => SeatW(s) \in Words \ {SeatnoW, ResultW}
  BY <1>1 DEF SeatW, Words, SeatnoW, ResultW, Seats
<1> QED
  BY <1>4, <1>5

\* The words other than the seats'.
LEMMA OtherWords ==
  /\ ResultW \in Words /\ SeatnoW \in Words /\ SeatnoW # ResultW
  /\ \A s \in Seats : SeatW(s) \in Words \ {SeatnoW, ResultW} /\ SeatW(s) = s
<1>1. ResultW \in Words /\ SeatnoW \in Words /\ SeatnoW # ResultW
  BY NumbersInt DEF Words, ResultW, SeatnoW
<1>2. \A s \in Seats : s \in Int /\ SeatW(s) = s
  BY NumbersInt DEF Seats, SeatW
<1> QED
  BY <1>1, <1>2, SeatWord

\* Queues of one.
LEMMA OneIn ==
  ASSUME NEW x
  PROVE  /\ Append(<<>>, x) = <<x>> /\ Head(<<x>>) = x /\ Tail(<<x>>) = <<>>
         /\ <<x>> # <<>> /\ Len(<<x>>) = 1
OBVIOUS

LEMMA OneOut ==
  ASSUME NEW S, NEW q \in Seq(S), Len(q) = 1
  PROVE  q = <<Head(q)>> /\ q # <<>> /\ Tail(q) = <<>> /\ Head(q) \in S
<1>1. q # <<>> /\ q[1] \in S /\ Head(q) = q[1]
  BY EmptySeq, ElementOfSeq
<1>2. Tail(q) \in Seq(S) /\ Len(Tail(q)) = 0
  BY <1>1, HeadTailProperties
<1>3. Tail(q) = <<>>
  BY <1>2, EmptySeq
<1> QED
  BY <1>1, <1>3

\* A handler that has taken its argument works on its own connection, and two
\* connections being served have different descriptors.
LEMMA OwnDescriptor ==
  ASSUME Loop, ArgsIntact, NEW t \in Conn
  PROVE  /\ pc[t] \notin {"none", "start"} => sock[t] = own[t] /\ own[t] # NoFd
         /\ own[t] # NoFd /\ pc[t] # "done" => own[t] \in Fds /\ fdtab[own[t]] = t
BY DEF Loop, LoopInv, LoopTypeOK, Bookkeeping, FdsKept, ArgsIntact, Started, Past

\* What is known while a handler has a request in work.
LEMMA InWork ==
  ASSUME Serving, NEW t \in Conn, Busy(t)
  PROVE  /\ sem_two[t] = 0 /\ inbox[t] = <<>> /\ replies[t] = <<>>
         /\ last[t].command \in {Reserve, Cancel} => last[t].seatno \in Seats
         /\ last[t] \in Request /\ qpacket = last[t] /\ qpacket.seatno \in Int
         /\ \A u \in Conn : Busy(u) => u = t
         /\ AtLabel(t)
         /\ sock[t] = own[t] /\ own[t] \in Fds /\ fdtab[own[t]] = t
<1>1. sem_two[t] \in 0 .. 1
  BY DEF Serving, BusInv, ClientTypeOK
<1>2. sem_two[t] = 0
  BY <1>1 DEF Serving, RequestInv
<1>3. pc[t] \notin {"none", "start", "done"}
  BY DEF Busy
<1>4. sock[t] = own[t] /\ own[t] \in Fds /\ fdtab[own[t]] = t
  BY <1>3, OwnDescriptor DEF Serving, BusInv, Intact
<1>5. /\ inbox[t] = <<>> /\ replies[t] = <<>>
      /\ last[t].command \in {Reserve, Cancel} => last[t].seatno \in Seats
  BY <1>2, <1>3, OneIn DEF Serving, RequestInv
<1>6. last[t] \in Request /\ last[t].seatno \in Int
  <2>1. last[t] \in Request
    BY DEF Serving, BusInv, ClientTypeOK
  <2> QED
    BY <2>1, NumbersInt DEF Request
<1> QED
  BY <1>2, <1>4, <1>5, <1>6 DEF Serving, WorkInv

\* Nobody is killed, and no argument is mixed up; a server that has crashed does
\* nothing more.
LEMMA NextIntact ==
  ASSUME OrderlyInv, Next, Orderly
  PROVE  Intact' /\ (up' => up)
<1> USE DEF OrderlyInv
<1>1. LoopInv(PC, Past, Past) /\ ArgsIntact /\ ArgWaits /\ LoopTypeOK(PC)
  BY DEF BusInv, Loop, LoopInv, Intact
<1>2. clean' /\ clean /\ \A c \in Conn : peer[c] = "open"
  BY DEF Orderly, Intact
<1>3. (\A c \in Conn : peer'[c] = "open") /\ (up' => up)
  <2>1. peer \in [Conn -> PeerState]
    BY DEF BusInv, ClientTypeOK
  <2>2. ASSUME NEW t \in Conn, Reply(t) PROVE up /\ \A c \in Conn : peer'[c] = "open"
    <3>1. up /\ Serving /\ Busy(t)
      BY <2>2 DEF Reply, Busy, PC
    <3>2. fdtab[sock[t]] = t
      BY <3>1, InWork
    <3>3. \E p \in AfterWrite(peer[t]) : peer' = [peer EXCEPT ![t] = p]
      BY <2>2, <3>2, ConnAssumption DEF Reply
    <3> QED
      BY <1>2, <2>1, <3>1, <3>3 DEF AfterWrite
  <2>3. ASSUME NEW t \in Conn, Receive(t) PROVE up /\ UNCHANGED peer
    BY <1>2, <2>3 DEF Receive, BusInv, HandlerInv
  <2>4. ASSUME NEW t \in Conn,
               \/ HandlerStart(t) \/ ReadCall(t)
               \/ LocateRow(t) \/ LocateCol(t) \/ LookUp(t) \/ Dispatch(t)
               \/ Inquire(t) \/ NoteSeat(t) \/ CheckNumber(t) \/ RefuseSeat(t)
               \/ ReserveSeat(t) \/ TakeSeat(t) \/ CancelSeat(t) \/ FreeSeat(t)
               \/ QuitClient(t)
        PROVE  up /\ UNCHANGED peer
    BY <2>4 DEF HandlerStart, ReadCall, LocateRow, LocateCol, LookUp, Dispatch, Test,
         Inquire, NoteSeat, CheckNumber, RefuseSeat, ReserveSeat, TakeSeat, CancelSeat,
         FreeSeat, QuitClient, OthersKept, netVars
  <2>5. ASSUME NEW c \in Conn, ClientAsk(c) \/ ClientShow(c) PROVE UNCHANGED <<up, peer>>
    BY <2>5 DEF ClientAsk, ClientShow
  <2>6. Main \/ Idle => UNCHANGED <<up, peer>>
    BY DEF Main, MainAccept, MainAppend, MainCreate, Idle, vars, netVars
  <2>7. \A c \in Conn : ~ClientDie(c)
    BY <1>2 DEF ClientDie
  <2> QED
    BY <1>2, <2>2, <2>3, <2>4, <2>5, <2>6, <2>7 DEF Next, Client, Handler
<1>4. ArgWaits' /\ ArgsIntact'
  <2>1. ASSUME NEW c \in Conn, MainAccept(c)
        PROVE  ArgWaits' /\ ArgsIntact'
    BY <1>1, <2>1, SpacedAccept DEF MainAccept, Orderly
  <2>2. ASSUME MainCreate \/ \E t \in Conn : HandlerStart(t)
        PROVE  ArgWaits' /\ ArgsIntact'
    <3>1. "read" \in PC \ {"start"}
      BY DEF PC
    <3> QED
      BY <1>1, <2>2, <3>1, SpacedStart DEF MainCreate, HandlerStart
  <2>3. ASSUME MainAppend \/ Idle \/ \E c \in Conn : Client(c)
        PROVE  ArgWaits' /\ ArgsIntact'
    BY <1>1, <2>3, SpacedOther DEF MainAppend, Enlist, Idle, vars, loopVars,
         Client, ClientAsk, ClientShow, ClientDie
  <2>4. ASSUME NEW t \in Conn, Step(t) \/ QuitClient(t)
        PROVE  ArgWaits' /\ ArgsIntact'
    <3>1. UNCHANGED <<clnt_sock, own, sock>>
      BY <2>4 DEF mainVars, Step, ReadCall, Receive, LocateRow, LocateCol, LookUp,
           Dispatch, Test, Inquire, NoteSeat, CheckNumber, RefuseSeat, ReserveSeat,
           TakeSeat, CancelSeat, FreeSeat, Reply, QuitClient, OthersKept, LoopKept
    <3>2. \E l \in PC \ {"start"} : Goto(t, l)
      <4>1. CASE Step(t)
        BY <4>1, StepLabels DEF Goto
      <4>2. CASE QuitClient(t)
        BY <4>2 DEF QuitClient, PC
      <4> QED
        BY <2>4, <4>1, <4>2
    <3> QED
      BY <1>1, <3>1, <3>2, SpacedOther
  <2> QED
    BY <2>1, <2>2, <2>3, <2>4 DEF Next, Main, Handler, Step
<1> QED
  BY <1>2, <1>3, <1>4 DEF Intact
\* Seats are due to the same clients as before: no seat changes hands and no
\* request is decided or shown.
LEMMA DueKept ==
  ASSUME SeatInv, UNCHANGED <<sem_two, last, holds>>,
         \A s \in Seats : spacket'[SeatW(s)] = spacket[SeatW(s)],
         \A c \in Conn : /\ own[c] # NoFd => own'[c] = own[c]
                         /\ pc[c] = "done" => pc'[c] = "done"
                         /\ pc'[c] # "done" => (Granted(c)' <=> Granted(c))
  PROVE  SeatInv'
<1> SUFFICES ASSUME NEW c \in Conn, pc'[c] # "done", NEW s \in Due(c)'
             PROVE  s \in Seats /\ own'[c] # NoFd /\ spacket'[SeatW(s)] = own'[c]
  BY DEF SeatInv
<1>1. HoldsAfter(c, 0)' = HoldsAfter(c, 0)
  BY DEF HoldsAfter
<1>2. Due(c)' = Due(c)
  BY <1>1 DEF Due
<1> QED
  BY <1>2 DEF SeatInv

\* main's steps, a handler's first one and idling touch no request.
LEMMA LoopStep ==
  ASSUME Serving, Main \/ Idle \/ UNCHANGED vars \/ \E t \in Conn : HandlerStart(t)
  PROVE  RequestInv' /\ WorkInv' /\ SeatInv'
<1> USE DEF Serving
<1>1. LoopTypeOK(PC) /\ Bookkeeping
  BY DEF BusInv, Loop, LoopInv
<1>2. UNCHANGED <<up, netVars, pktVars, hdlVars, clntVars, histVars>>
  BY DEF Main, MainAccept, MainAppend, MainCreate, Idle, vars, HandlerStart
<1>3. /\ \A c \in Conn : \/ pc'[c] = pc[c]
                         \/ {pc[c], pc'[c]} \subseteq {"none", "start", "read"}
      /\ \A c \in Conn : own[c] # NoFd => own'[c] = own[c]
  <2>1. CASE Main
    BY <1>1, <2>1 DEF Main, MainAccept, Accept, MainAppend, Enlist, MainCreate, Create,
         LoopTypeOK, Bookkeeping
  <2>2. CASE Idle \/ UNCHANGED vars
    BY <2>2 DEF Idle, vars, loopVars
  <2>3. ASSUME NEW t \in Conn, HandlerStart(t)
        PROVE  /\ pc[t] = "start" /\ pc' = [pc EXCEPT ![t] = "read"] /\ UNCHANGED own
    BY <2>3 DEF HandlerStart, TakeArg
  <2> QED
    BY <1>1, <2>1, <2>2, <2>3 DEF LoopTypeOK
<1>4. \A c \in Conn : Busy(c)' <=> Busy(c)
  BY <1>1, <1>3 DEF Busy, PC, LoopTypeOK
<1>5. RequestInv'
  BY <1>2, <1>3, <1>4 DEF RequestInv, netVars, clntVars
<1>6. WorkInv'
  <2>1. \A c \in Conn : Busy(c) => pc'[c] = pc[c] /\ sock'[c] = sock[c]
    <3>1. \A c \in Conn : Busy(c) => pc'[c] = pc[c]
      BY <1>3 DEF Busy
    <3>2. UNCHANGED sock \/ \E u \in Conn : pc[u] = "start" /\ sock' = [sock EXCEPT ![u] = clnt_sock]
      BY DEF Main, MainAccept, Accept, MainAppend, Enlist, MainCreate, Create, Idle, vars,
         loopVars, HandlerStart, TakeArg
    <3> QED
      BY <1>1, <3>1, <3>2 DEF Busy, LoopTypeOK
  <2>2. \A c \in Conn : Busy(c) => (AtLabel(c)' <=> AtLabel(c))
    BY <1>2, <2>1 DEF AtLabel, pktVars, hdlVars
  <2> QED
    BY <1>2, <1>3, <1>4, <2>2 DEF WorkInv, pktVars, hdlVars, clntVars
<1>7. \A c \in Conn : Granted(c)' <=> Granted(c)
  BY <1>2, <1>3 DEF Granted, netVars, pktVars, clntVars
<1>8. SeatInv'
  BY <1>2, <1>3, <1>7, DueKept DEF pktVars, clntVars
<1> QED
  BY <1>5, <1>6, <1>8

\* A client's next request, and the answer it is shown.
LEMMA AskStep ==
  ASSUME Serving, NEW c \in Conn, ClientAsk(c), clean'
  PROVE  RequestInv' /\ WorkInv' /\ SeatInv'
<1> USE DEF Serving
<1>1. PICK r \in Request :
        /\ last' = [last EXCEPT ![c] = r]
        /\ inbox' = [inbox EXCEPT ![c] = Append(@, r)]
        /\ left' = IF r.command = Quit THEN left \cup {c} ELSE left
        /\ r.command \in {Reserve, Cancel} => r.seatno \in Seats
  BY DEF ClientAsk
<1>2. /\ c \notin left /\ sem_two[c] > 0
      /\ sem_two' = [sem_two EXCEPT ![c] = @ - 1]
      /\ UNCHANGED <<loopVars, replies, pktVars, hdlVars, holds>>
  BY DEF ClientAsk
<1>3. /\ ClientTypeOK /\ sem_two \in [Conn -> 0 .. 1]
      /\ last \in [Conn -> Request] /\ inbox \in [Conn -> Seq(Request)]
  BY DEF BusInv, ClientTypeOK
<1>4. sem_two[c] = 1 /\ sem_two' = [sem_two EXCEPT ![c] = 0]
  <2>1. sem_two[c] \in 0 .. 1
    BY <1>3
  <2>2. sem_two[c] = 1
    BY <1>2, <2>1
  <2>3. sem_two[c] - 1 = 0
    BY <2>2
  <2> QED
    BY <1>2, <2>2, <2>3
<1>5. inbox[c] = <<>> /\ replies[c] = <<>> /\ ~Busy(c) /\ pc[c] # "done"
  BY <1>2, <1>4 DEF RequestInv
<1>6. inbox' = [inbox EXCEPT ![c] = <<r>>]
  BY <1>1, <1>5, OneIn
<1>7. pc' = pc /\ (\A d \in Conn : Busy(d)' <=> Busy(d)) /\ own' = own
      /\ qpacket' = qpacket /\ spacket' = spacket /\ replies' = replies
  BY <1>2 DEF loopVars, pktVars, Busy
<1>8. RequestInv'
  BY <1>1, <1>3, <1>4, <1>5, <1>6, <1>7 DEF RequestInv
<1>9. WorkInv'
  <2>1. \A t \in Conn : Busy(t) => last'[t] = last[t]
    BY <1>1, <1>3, <1>5
  <2>2. UNCHANGED <<file, row, word, seat, sock>>
    BY <1>2 DEF hdlVars, loopVars
  <2>3. \A t \in Conn : AtLabel(t)' <=> AtLabel(t)
    BY <1>7, <2>2 DEF AtLabel
  <2> QED
    BY <1>7, <2>1, <2>2, <2>3 DEF WorkInv
<1>10. ASSUME NEW d \in Conn
       PROVE  Due(d)' = Due(d)
  <2>1. CASE d = c
    <3>1. ~Granted(c) /\ ~Granted(c)'
      BY <1>4, <1>5, <1>7, OneIn DEF Granted, Busy, PC
    <3> QED
      BY <1>2, <2>1, <3>1 DEF Due
  <2>2. CASE d # c
    <3>1. last'[d] = last[d] /\ sem_two'[d] = sem_two[d] /\ holds' = holds
      BY <1>1, <1>2, <1>3, <1>4, <2>2
    <3>2. HoldsAfter(d, 0)' = HoldsAfter(d, 0) /\ (Granted(d)' <=> Granted(d))
      BY <1>7, <3>1 DEF HoldsAfter, Granted
    <3> QED
      BY <3>1, <3>2 DEF Due
  <2> QED
    BY <2>1, <2>2
<1>11. SeatInv'
  BY <1>7, <1>10 DEF SeatInv
<1> QED
  BY <1>8, <1>9, <1>11

LEMMA ShowStep ==
  ASSUME Serving, up, NEW c \in Conn, ClientShow(c)
  PROVE  RequestInv' /\ WorkInv' /\ SeatInv'
<1> USE DEF Serving
<1>1. /\ sem_one[c] > 0
      /\ sem_two' = [sem_two EXCEPT ![c] = @ + 1]
      /\ UNCHANGED <<loopVars, inbox, pktVars, hdlVars, left, last>>
  BY DEF ClientShow
<1>2. /\ sem_two \in [Conn -> 0 .. 1] /\ sem_one \in [Conn -> 0 .. 1]
      /\ replies \in [Conn -> Seq(Int)] /\ holds \in [Conn -> SUBSET Numbers]
      /\ sem_one[c] + sem_two[c] = 1
  BY DEF BusInv, ClientTypeOK, ClientInv
<1>3. sem_two[c] = 0 /\ sem_two' = [sem_two EXCEPT ![c] = 1]
  <2>1. sem_two[c] \in 0 .. 1 /\ sem_one[c] \in 0 .. 1
    BY <1>2
  <2>2. sem_two[c] = 0
    BY <1>1, <1>2, <2>1
  <2>3. sem_two[c] + 1 = 1
    BY <2>2
  <2> QED
    BY <1>1, <2>2, <2>3
<1>4. pc' = pc /\ (\A d \in Conn : Busy(d)' <=> Busy(d)) /\ own' = own
      /\ qpacket' = qpacket /\ spacket' = spacket
  BY <1>1 DEF loopVars, pktVars, Busy
<1>5. \/ /\ Len(replies[c]) = 1
         /\ replies' = [replies EXCEPT ![c] = <<>>]
         /\ holds' = [holds EXCEPT ![c] = HoldsAfter(c, Head(replies[c]))]
         /\ ~Busy(c) /\ inbox[c] = <<>>
      \/ /\ pc[c] = "done" /\ replies[c] = <<>> /\ inbox[c] = <<>>
         /\ UNCHANGED <<replies, holds>>
  <2>1. CASE /\ replies[c] # <<>>
             /\ replies' = [replies EXCEPT ![c] = Tail(@)]
             /\ holds' = [holds EXCEPT ![c] = HoldsAfter(c, Head(replies[c]))]
    <3>1. Len(replies[c]) = 1 /\ ~Busy(c) /\ inbox[c] = <<>>
      BY <1>3, <2>1 DEF RequestInv
    <3>2. Tail(replies[c]) = <<>>
      BY <1>2, <3>1, OneOut
    <3> QED
      BY <2>1, <3>1, <3>2
  <2>2. CASE /\ replies[c] = <<>> /\ ServerClosed(c) /\ UNCHANGED <<replies, holds>>
    <3>1. own[c] # NoFd /\ \A f \in Fds : fdtab[f] # c
      BY <2>2 DEF ServerClosed, Intact
    <3>2. pc[c] = "done"
      BY <3>1, OwnDescriptor DEF BusInv, Intact
    <3>3. inbox[c] = <<>>
      <4>1. Len(<<>>) = 0
        OBVIOUS
      <4> QED
        BY <1>3, <2>2, <3>2, <4>1 DEF RequestInv
    <3> QED
      BY <2>2, <3>2, <3>3
  <2> QED
    BY <2>1, <2>2 DEF ClientShow
<1>6. ~Busy(c)
  BY <1>5 DEF Busy, PC
<1>7. RequestInv'
  <2>1. \A d \in Conn : d # c => replies'[d] = replies[d] /\ sem_two'[d] = sem_two[d]
    BY <1>2, <1>3, <1>5
  <2>2. replies'[c] = <<>> /\ inbox'[c] = <<>> /\ sem_two'[c] = 1
    BY <1>1, <1>2, <1>3, <1>5
  <2> QED
    BY <1>1, <1>4, <1>6, <2>1, <2>2 DEF RequestInv
<1>8. WorkInv'
  <2>1. \A t \in Conn : AtLabel(t)' <=> AtLabel(t)
    BY <1>1, <1>4 DEF AtLabel, hdlVars, loopVars
  <2> QED
    BY <1>1, <1>4, <2>1 DEF WorkInv, hdlVars
<1>9. ASSUME NEW d \in Conn, pc[d] # "done"
      PROVE  Due(d)' = Due(d)
  <2>1. CASE d = c
    <3> DEFINE v == Head(replies[c])
    <3>1. /\ replies[c] = <<v>> /\ holds'[c] = HoldsAfter(c, v)
      BY <1>2, <1>5, <1>9, <2>1, OneOut
    <3>2. ~Granted(c)'
      BY <1>2, <1>3 DEF Granted
    <3>3. Granted(c) <=> v = 0
      BY <1>3, <1>6, <3>1 DEF Granted, Busy, PC
    <3>4. v # 0 => HoldsAfter(c, v) = holds[c]
      BY DEF HoldsAfter
    <3> QED
      BY <2>1, <3>1, <3>2, <3>3, <3>4 DEF Due
  <2>2. CASE d # c
    <3>1. /\ last' = last /\ sem_two'[d] = sem_two[d] /\ holds'[d] = holds[d]
          /\ replies'[d] = replies[d]
      BY <1>1, <1>2, <1>3, <1>5, <2>2
    <3>2. HoldsAfter(d, 0)' = HoldsAfter(d, 0) /\ (Granted(d)' <=> Granted(d))
      BY <1>4, <3>1 DEF HoldsAfter, Granted
    <3> QED
      BY <3>1, <3>2 DEF Due
  <2> QED
    BY <2>1, <2>2
<1>10. SeatInv'
  BY <1>4, <1>9 DEF SeatInv
<1> QED
  BY <1>7, <1>8, <1>10
\* A handler's read(), called and returned.
LEMMA ReadStep ==
  ASSUME Serving, NEW t \in Conn, ReadCall(t)
  PROVE  RequestInv' /\ WorkInv' /\ SeatInv'
<1> USE DEF Serving
<1>1. LoopTypeOK(PC) /\ file \in [Conn -> Conn \cup {NoConn}]
  BY DEF BusInv, Loop, LoopInv, ServerTypeOK
<1>2. /\ pc[t] = "read"
      /\ file' = [file EXCEPT ![t] = fdtab[sock[t]]]
      /\ pc' = [pc EXCEPT ![t] = IF file'[t] = NoConn THEN "row" ELSE "blocked"]
      /\ UNCHANGED <<mainVars, sock, netVars, pktVars, row, word, seat, clntVars>>
  BY DEF ReadCall, Goto, LoopKept
<1>3. fdtab[sock[t]] = t
  BY <1>2, OwnDescriptor DEF BusInv, Intact
<1>4. file' = [file EXCEPT ![t] = t] /\ pc' = [pc EXCEPT ![t] = "blocked"]
  BY <1>1, <1>2, <1>3, ConnAssumption
<1>5. \A c \in Conn : /\ Busy(c)' <=> Busy(c)
                      /\ pc'[c] = "done" <=> pc[c] = "done"
                      /\ Granted(c)' <=> Granted(c)
  BY <1>1, <1>2, <1>4 DEF Busy, PC, LoopTypeOK, Granted, netVars, pktVars, clntVars
<1>6. RequestInv'
  BY <1>2, <1>5 DEF RequestInv, netVars, clntVars
<1>7. WorkInv'
  <2>1. \A c \in Conn : Busy(c) => pc'[c] = pc[c]
    BY <1>1, <1>2, <1>4 DEF Busy, PC, LoopTypeOK
  <2>2. \A c \in Conn : Busy(c) => (AtLabel(c)' <=> AtLabel(c))
    BY <1>2, <2>1 DEF AtLabel, pktVars
  <2> QED
    BY <1>1, <1>2, <1>4, <1>5, <2>2 DEF WorkInv, LoopTypeOK, pktVars, clntVars
<1>8. SeatInv'
  BY <1>2, <1>5, DueKept DEF mainVars, pktVars, clntVars
<1> QED
  BY <1>6, <1>7, <1>8

LEMMA ReceiveStep ==
  ASSUME Serving, NEW t \in Conn, Receive(t), clean'
  PROVE  RequestInv' /\ WorkInv' /\ SeatInv'
<1> USE DEF Serving
<1>1. LoopTypeOK(PC) /\ file \in [Conn -> Conn \cup {NoConn}]
      /\ inbox \in [Conn -> Seq(Request)] /\ sem_two[t] \in 0 .. 1
  BY DEF BusInv, Loop, LoopInv, ServerTypeOK, ClientTypeOK
<1>2. /\ pc[t] = "blocked" /\ file[t] = t /\ peer[t] = "open"
  BY DEF Receive, WorkInv, Intact
<1>3. /\ inbox[t] # <<>>
      /\ qpacket' = Head(inbox[t])
      /\ inbox' = [inbox EXCEPT ![t] = Tail(@)]
      /\ file' = [file EXCEPT ![t] = NoConn]
      /\ pc' = [pc EXCEPT ![t] = "row"]
      /\ \A u \in Conn \ {t} : ~Busy(u)
      /\ UNCHANGED <<mainVars, replies, spacket, row, word, seat, clntVars>>
  BY <1>2 DEF Receive, Goto, LoopKept
<1>4. ~Busy(t)
  BY <1>2 DEF Busy, PC
<1>5. /\ sem_two[t] = 0 /\ inbox[t] = <<last[t]>> /\ replies[t] = <<>>
      /\ last[t].command \in {Reserve, Cancel} => last[t].seatno \in Seats
      /\ last[t] \in Request
  BY <1>1, <1>3 DEF RequestInv, BusInv, ClientTypeOK
<1>6. qpacket' = last[t] /\ inbox' = [inbox EXCEPT ![t] = <<>>]
  BY <1>3, <1>5, OneIn
<1>7. /\ Busy(t)'
      /\ \A c \in Conn : c # t => ~Busy(c)' /\ pc'[c] = pc[c]
  BY <1>1, <1>3 DEF Busy, PC, LoopTypeOK
<1>8. RequestInv'
  <2>1. UNCHANGED <<left, sem_two, last, replies>> /\ pc'[t] = "row"
    BY <1>1, <1>3 DEF clntVars, LoopTypeOK
  <2>2. \A c \in Conn : c # t => inbox'[c] = inbox[c] /\ ~Busy(c)
    BY <1>1, <1>3, <1>6
  <2>3. inbox'[t] = <<>>
    BY <1>1, <1>6
  <2> QED
    BY <1>2, <1>5, <1>7, <2>1, <2>2, <2>3 DEF RequestInv
<1>9. WorkInv'
  <2>1. last' = last /\ pc'[t] = "row"
    BY <1>1, <1>3 DEF clntVars, LoopTypeOK
  <2>2. \A c \in Conn : c # t => /\ file'[c] = file[c]
                                 /\ pc'[c] = "blocked" => pc[c] = "blocked"
    BY <1>1, <1>3, <1>7 DEF Busy, PC
  <2>3. qpacket'.command \in {Inquiry, Reserve, Cancel, Quit}
    BY <1>5, <1>6 DEF Request, Inquiry, Reserve, Cancel, Quit
  <2>4. AtLabel(t)'
    BY <2>1, <2>3 DEF AtLabel, Commands, Located, Looked
  <2> QED
    BY <1>6, <1>7, <2>1, <2>2, <2>4 DEF WorkInv
<1>10. SeatInv'
  <2>1. \A c \in Conn : pc'[c] = "reply" <=> pc[c] = "reply"
    BY <1>1, <1>2, <1>3 DEF LoopTypeOK
  <2>2. \A c \in Conn : Granted(c)' <=> Granted(c)
    BY <1>3, <2>1 DEF Granted, clntVars
  <2>3. \A c \in Conn : pc[c] = "done" => pc'[c] = "done"
    BY <1>2, <1>7
  <2> QED
    BY <1>3, <2>2, <2>3, DueKept DEF mainVars, clntVars
<1> QED
  BY <1>8, <1>9, <1>10

\* A step of a handler from one label at which it is busy to another: nobody
\* else is busy, and no request moves.
LEMMA BusyStep ==
  ASSUME Serving, NEW t \in Conn, Busy(t),
         NEW l \in PC \ {"none", "start", "read", "blocked", "done"},
         pc' = [pc EXCEPT ![t] = l],
         UNCHANGED <<netVars, qpacket, file, clntVars>>,
         AtLabel(t)'
  PROVE  /\ RequestInv' /\ WorkInv'
         /\ \A c \in Conn : c # t => ~Busy(c) /\ pc'[c] = pc[c]
<1> USE DEF Serving
<1>1. LoopTypeOK(PC)
  BY DEF BusInv, Loop, LoopInv
<1>2. pc[t] # "done" /\ pc[t] # "blocked" /\ \A u \in Conn : Busy(u) => u = t
  BY InWork DEF Busy, PC
<1>3. \A c \in Conn : /\ Busy(c)' <=> c = t
                      /\ c # t => ~Busy(c) /\ pc'[c] = pc[c]
  BY <1>1, <1>2 DEF Busy, PC, LoopTypeOK
<1>4. pc'[t] = l
  BY <1>1 DEF LoopTypeOK
<1>5. RequestInv'
  BY <1>2, <1>3, <1>4 DEF RequestInv, netVars, clntVars
<1>6. WorkInv'
  <2>1. qpacket' = qpacket /\ file' = file /\ last' = last /\ qpacket = last[t]
    BY InWork DEF clntVars
  <2> QED
    BY <1>3, <1>4, <2>1 DEF WorkInv
<1> QED
  BY <1>3, <1>5, <1>6

\* A step that neither decides nor replies: the seats stay due to whom they were.
LEMMA QuietStep ==
  ASSUME Serving, NEW t \in Conn, Busy(t), pc[t] # "reply",
         NEW l \in PC \ {"none", "start", "read", "blocked", "done", "reply"},
         pc' = [pc EXCEPT ![t] = l],
         UNCHANGED <<mainVars, netVars, qpacket, file, clntVars>>,
         \A s \in Seats : spacket'[SeatW(s)] = spacket[SeatW(s)],
         AtLabel(t)'
  PROVE  RequestInv' /\ WorkInv' /\ SeatInv'
<1> USE DEF Serving
<1>1. RequestInv' /\ WorkInv' /\ \A c \in Conn : c # t => ~Busy(c) /\ pc'[c] = pc[c]
  BY BusyStep
<1>2. pc'[t] = l /\ pc[t] # "done"
  BY DEF BusInv, Loop, LoopInv, LoopTypeOK, Busy
<1>3. \A c \in Conn : pc[c] # "reply" /\ pc'[c] # "reply"
  BY <1>1, <1>2 DEF Busy, PC
<1>4. \A c \in Conn : Granted(c)' <=> Granted(c)
  BY <1>3 DEF Granted, netVars, clntVars
<1>5. SeatInv'
  BY <1>1, <1>2, <1>4, DueKept DEF mainVars, clntVars
<1> QED
  BY <1>1, <1>5

\* A reply is ready that takes no seat from its client and gives it none.
LEMMA AnswerStep ==
  ASSUME Serving, NEW t \in Conn, Busy(t), pc[t] # "reply",
         pc' = [pc EXCEPT ![t] = "reply"],
         UNCHANGED <<mainVars, netVars, qpacket, file, clntVars>>,
         \A s \in Seats : spacket'[SeatW(s)] = spacket[SeatW(s)],
         last[t].command = Inquiry \/ spacket'[ResultW] # 0
  PROVE  RequestInv' /\ WorkInv' /\ SeatInv'
<1> USE DEF Serving
<1>1. LoopTypeOK(PC)
  BY DEF BusInv, Loop, LoopInv
<1>2. /\ last[t] \in Request /\ qpacket = last[t] /\ replies[t] = <<>>
  BY InWork
<1>3. pc'[t] = "reply" /\ pc[t] # "done"
  BY <1>1 DEF LoopTypeOK, Busy
<1>4. AtLabel(t)'
  <2>1. qpacket'.command \in {Inquiry, Reserve, Cancel, Quit}
    BY <1>2 DEF Request, Inquiry, Reserve, Cancel, Quit
  <2> QED
    BY <1>3, <2>1 DEF AtLabel, Commands, Located, Looked
<1>5. RequestInv' /\ WorkInv' /\ \A c \in Conn : c # t => ~Busy(c) /\ pc'[c] = pc[c]
  <2>1. "reply" \in PC \ {"none", "start", "read", "blocked", "done"}
    BY DEF PC
  <2> QED
    BY <1>4, <2>1, BusyStep
<1>6. UNCHANGED <<replies, sem_two, last, holds, own>>
  BY DEF netVars, clntVars, mainVars
<1>7. ASSUME NEW c \in Conn PROVE Due(c)' = Due(c)
  <2>1. HoldsAfter(c, 0)' = HoldsAfter(c, 0)
    BY <1>6 DEF HoldsAfter
  <2>2. CASE c = t
    <3>1. last[t].command = Inquiry => HoldsAfter(t, 0) = holds[t]
      BY DEF HoldsAfter, Inquiry, Reserve, Cancel
    <3>2. last[t].command # Inquiry => ~Granted(t) /\ ~Granted(t)'
      <4>1. <<>> # <<0>>
        BY OneIn
      <4> QED
        BY <1>2, <1>6, <4>1 DEF Granted
    <3> QED
      BY <1>6, <2>1, <2>2, <3>1, <3>2 DEF Due
  <2>3. CASE c # t
    <3>1. pc[c] # "reply" /\ pc'[c] # "reply"
      BY <1>5, <2>3 DEF Busy, PC
    <3>2. Granted(c)' <=> Granted(c)
      BY <1>6, <3>1 DEF Granted
    <3> QED
      BY <1>6, <2>1, <3>2 DEF Due
  <2> QED
    BY <2>2, <2>3
<1>8. SeatInv'
  <2>1. \A c \in Conn : pc'[c] # "done" => pc[c] # "done"
    BY <1>3, <1>5
  <2> QED
    BY <1>6, <1>7, <2>1 DEF SeatInv
<1> QED
  BY <1>5, <1>8

\* A handler works out the word of the seat and looks at it.
LEMMA LocateStep ==
  ASSUME Serving, NEW t \in Conn, LocateRow(t) \/ LocateCol(t) \/ LookUp(t)
  PROVE  RequestInv' /\ WorkInv' /\ SeatInv'
<1> USE DEF Serving
<1>1. /\ Busy(t) /\ pc[t] # "reply"
      /\ UNCHANGED <<mainVars, netVars, pktVars, qpacket, spacket, file, clntVars, sock>>
  BY DEF LocateRow, LocateCol, LookUp, Busy, PC, pktVars, OthersKept, LoopKept
<1>2. /\ LoopTypeOK(PC) /\ row \in [Conn -> Int] /\ word \in [Conn -> Int]
      /\ seat \in [Conn -> Int]
  BY DEF BusInv, Loop, LoopInv, ServerTypeOK
<1>3. qpacket.command \in Commands(pc[t]) /\ qpacket.seatno \in Int /\ AtLabel(t)
  BY <1>1, InWork DEF AtLabel
<1>4. CASE LocateRow(t)
  <2>1. /\ pc[t] = "row" /\ pc' = [pc EXCEPT ![t] = "col"]
        /\ row' = [row EXCEPT ![t] = Quot(qpacket.seatno - 1, COLS)]
    BY <1>4 DEF LocateRow, Goto
  <2>2. pc'[t] = "col" /\ row'[t] = Quot(qpacket.seatno - 1, COLS)
    BY <1>2, <2>1 DEF LoopTypeOK
  <2>3. AtLabel(t)'
    BY <1>1, <1>3, <2>1, <2>2 DEF AtLabel, Commands, Located, Looked
  <2>4. "col" \in PC \ {"none", "start", "read", "blocked", "done", "reply"}
    BY DEF PC
  <2> QED
    BY <1>1, <2>1, <2>3, <2>4, QuietStep
<1>5. CASE LocateCol(t)
  <2> DEFINE w == SeatW(1) + row[t] * COLS + Rem(qpacket.seatno - 1, COLS)
  <2>1. /\ pc[t] = "col" /\ pc' = [pc EXCEPT ![t] = "look"]
        /\ word' = [word EXCEPT ![t] = w]
    BY <1>5 DEF LocateCol, Goto
  <2>2. row[t] = Quot(qpacket.seatno - 1, COLS)
    BY <1>3, <2>1 DEF AtLabel
  <2>3. w = SeatW(qpacket.seatno)
    BY <1>3, <2>2, SeatWord
  <2> HIDE DEF w
  <2>4. pc'[t] = "look" /\ word'[t] = SeatW(qpacket.seatno)
    BY <1>2, <2>1, <2>3 DEF LoopTypeOK
  <2>5. AtLabel(t)'
    BY <1>1, <1>3, <2>1, <2>4 DEF AtLabel, Commands, Located, Looked
  <2>6. "look" \in PC \ {"none", "start", "read", "blocked", "done", "reply"}
    BY DEF PC
  <2> QED
    BY <1>1, <2>1, <2>5, <2>6, QuietStep
<1>6. CASE LookUp(t)
  <2>1. PICK s \in IF word[t] \in Words THEN {spacket[word[t]]} ELSE Garbage :
          seat' = [seat EXCEPT ![t] = s]
    BY <1>6 DEF LookUp
  <2>2. /\ pc[t] = "look" /\ pc' = [pc EXCEPT ![t] = "inquiry?"] /\ UNCHANGED word
    BY <1>6 DEF LookUp, Goto
  <2>3. word[t] = SeatW(qpacket.seatno)
    BY <1>3, <2>2 DEF AtLabel, Located
  <2>4. qpacket.seatno \in Seats => seat'[t] = spacket[SeatW(qpacket.seatno)]
    BY <1>2, <2>1, <2>3, OtherWords
  <2>5. pc'[t] = "inquiry?"
    BY <1>2, <2>2 DEF LoopTypeOK
  <2>6. AtLabel(t)'
    BY <1>1, <1>3, <2>2, <2>3, <2>4, <2>5 DEF AtLabel, Commands, Located, Looked
  <2>7. "inquiry?" \in PC \ {"none", "start", "read", "blocked", "done", "reply"}
    BY DEF PC
  <2> QED
    BY <1>1, <2>2, <2>6, <2>7, QuietStep
<1> QED
  BY <1>4, <1>5, <1>6

\* The request is told from its command, which is one of the four.
LEMMA DispatchStep ==
  ASSUME Serving, NEW t \in Conn, Dispatch(t)
  PROVE  RequestInv' /\ WorkInv' /\ SeatInv'
<1> USE DEF Serving
<1>1. /\ Busy(t) /\ pc[t] # "reply"
      /\ UNCHANGED <<mainVars, netVars, pktVars, qpacket, spacket, file, row, word, seat,
                     clntVars, sock>>
  BY DEF Dispatch, Test, Busy, PC, pktVars, OthersKept, LoopKept
<1>2. LoopTypeOK(PC)
  BY DEF BusInv, Loop, LoopInv
<1>3. AtLabel(t)
  BY <1>1, InWork
<1>4. PICK l \in {"inquiry", "reserve?", "reserve", "cancel?", "cancel", "quit?", "quit"} :
        /\ pc' = [pc EXCEPT ![t] = l] /\ qpacket.command \in Commands(l)
        /\ pc[t] \in {"inquiry?", "reserve?", "cancel?", "quit?"}
  BY <1>3 DEF Dispatch, Test, Goto, AtLabel, Commands, Inquiry, Reserve, Cancel, Quit
<1>5. pc'[t] = l
  BY <1>2, <1>4 DEF LoopTypeOK
<1>6. AtLabel(t)'
  BY <1>1, <1>3, <1>4, <1>5 DEF AtLabel, Located, Looked
<1>7. l \in PC \ {"none", "start", "read", "blocked", "done", "reply"}
  BY DEF PC
<1> QED
  BY <1>1, <1>4, <1>6, <1>7, QuietStep

\* An inquiry is answered at once, and the seat asked for is noted.
LEMMA NoteStep ==
  ASSUME Serving, NEW t \in Conn, Inquire(t) \/ NoteSeat(t) \/ CheckNumber(t)
  PROVE  RequestInv' /\ WorkInv' /\ SeatInv'
<1> USE DEF Serving
<1>1. /\ Busy(t) /\ pc[t] # "reply"
      /\ UNCHANGED <<mainVars, netVars, qpacket, file, row, word, seat, clntVars, sock>>
  BY DEF Inquire, NoteSeat, CheckNumber, Busy, PC, pktVars, OthersKept, LoopKept
<1>2. LoopTypeOK(PC) /\ spacket \in [Words -> Int]
  BY DEF BusInv, Loop, LoopInv, ServerTypeOK
<1>3. AtLabel(t) /\ qpacket = last[t]
      /\ (last[t].command \in {Reserve, Cancel} => last[t].seatno \in Seats)
  BY <1>1, InWork
<1>4. CASE Inquire(t)
  <2>1. /\ pc[t] = "inquiry" /\ pc' = [pc EXCEPT ![t] = "reply"]
        /\ spacket' = [spacket EXCEPT ![ResultW] = 0]
    BY <1>4 DEF Inquire, Goto
  <2>2. last[t].command = Inquiry
    BY <1>3, <2>1 DEF AtLabel, Commands
  <2>3. \A s \in Seats : spacket'[SeatW(s)] = spacket[SeatW(s)]
    BY <1>2, <2>1, OtherWords
  <2> QED
    BY <1>1, <2>1, <2>2, <2>3, AnswerStep
<1>5. CASE NoteSeat(t)
  <2>1. PICK l \in {"lock", "decide"} :
          /\ pc' = [pc EXCEPT ![t] = l]
          /\ (l = "lock" /\ pc[t] = "reserve") \/ (l = "decide" /\ pc[t] = "cancel")
    BY <1>5 DEF NoteSeat, Goto
  <2>2. spacket' = [spacket EXCEPT ![SeatnoW] = qpacket.seatno]
    BY <1>5 DEF NoteSeat
  <2>3. \A s \in Seats : spacket'[SeatW(s)] = spacket[SeatW(s)]
    BY <1>2, <2>2, OtherWords
  <2>4. pc'[t] = l
    BY <1>2, <2>1 DEF LoopTypeOK
  <2>5. AtLabel(t)'
    BY <1>1, <1>3, <2>1, <2>3, <2>4 DEF AtLabel, Commands, Located, Looked
  <2>6. l \in PC \ {"none", "start", "read", "blocked", "done", "reply"}
    BY DEF PC
  <2> QED
    BY <1>1, <2>1, <2>3, <2>5, <2>6, QuietStep
<1>6. CASE CheckNumber(t)
  <2>1. /\ pc[t] = "lock" /\ UNCHANGED spacket
        /\ pc' = [pc EXCEPT ![t] = IF qpacket.seatno > ROWS * COLS THEN "refuse" ELSE "judge"]
    BY <1>6 DEF CheckNumber, pktVars, Goto
  <2>2. qpacket.seatno \in Seats
    BY <1>3, <2>1 DEF AtLabel, Commands
  <2>3. ~(qpacket.seatno > ROWS * COLS)
    BY <2>2, NumbersInt DEF Seats
  <2>4. pc' = [pc EXCEPT ![t] = "judge"] /\ pc'[t] = "judge"
    BY <1>2, <2>1, <2>3 DEF LoopTypeOK
  <2>5. AtLabel(t)'
    BY <1>1, <1>3, <2>1, <2>4 DEF AtLabel, Commands, Located, Looked
  <2>6. "judge" \in PC \ {"none", "start", "read", "blocked", "done", "reply"}
    BY DEF PC
  <2> QED
    BY <1>1, <2>1, <2>4, <2>5, <2>6, QuietStep
<1> QED
  BY <1>4, <1>5, <1>6
\* A decision is made on the seat as it is, though it was looked at before the
\* lock, and writes the result only.
LEMMA Decides ==
  ASSUME Serving, NEW t \in Conn, ReserveSeat(t) \/ CancelSeat(t)
  PROVE  LET n == qpacket.seatno
         IN  /\ n \in Seats /\ sock[t] = own[t] /\ Busy(t) /\ pc[t] # "reply"
             /\ \/ /\ ReserveSeat(t) /\ spacket[SeatW(n)] # 0
                   /\ spacket' = [spacket EXCEPT ![ResultW] = -2]
                   /\ pc' = [pc EXCEPT ![t] = "reply"]
                \/ /\ ReserveSeat(t) /\ spacket[SeatW(n)] = 0
                   /\ spacket' = [spacket EXCEPT ![ResultW] = 0]
                   /\ pc' = [pc EXCEPT ![t] = "take"]
                \/ /\ CancelSeat(t) /\ spacket[SeatW(n)] = 0
                   /\ spacket' = [spacket EXCEPT ![ResultW] = -3]
                   /\ pc' = [pc EXCEPT ![t] = "reply"]
                \/ /\ CancelSeat(t) /\ spacket[SeatW(n)] \notin {0, own[t]}
                   /\ spacket' = [spacket EXCEPT ![ResultW] = -4]
                   /\ pc' = [pc EXCEPT ![t] = "reply"]
                \/ /\ CancelSeat(t) /\ spacket[SeatW(n)] = own[t]
                   /\ own[t] # 0
                   /\ spacket' = [spacket EXCEPT ![ResultW] = 0]
                   /\ pc' = [pc EXCEPT ![t] = "free"]
<1>1. Busy(t) /\ pc[t] \in {"judge", "decide"}
  BY DEF ReserveSeat, CancelSeat, Busy, PC
<1>2. sock[t] = own[t] /\ AtLabel(t) /\ own[t] \in Fds /\ qpacket = last[t]
      /\ (last[t].command \in {Reserve, Cancel} => last[t].seatno \in Seats)
  BY <1>1, InWork
<1>3. qpacket.seatno \in Seats
  BY <1>1, <1>2 DEF AtLabel, Commands
<1>4. seat[t] = spacket[SeatW(qpacket.seatno)]
  BY <1>1, <1>2, <1>3 DEF AtLabel, Looked
<1>5. own[t] # 0
  BY <1>2, ConnAssumption DEF Fds
<1>6. CASE ReserveSeat(t)
  BY <1>1, <1>2, <1>3, <1>4, <1>6 DEF ReserveSeat, Goto
<1>7. CASE CancelSeat(t)
  <2>1. CASE seat[t] = 0
    BY <1>1, <1>2, <1>3, <1>4, <1>7, <2>1 DEF CancelSeat, Goto
  <2>2. CASE seat[t] # 0 /\ seat[t] # sock[t]
    BY <1>1, <1>2, <1>3, <1>4, <1>7, <2>2 DEF CancelSeat, Goto
  <2>3. CASE seat[t] = sock[t]
    BY <1>1, <1>2, <1>3, <1>4, <1>5, <1>7, <2>3 DEF CancelSeat, Goto
  <2> QED
    BY <2>1, <2>2, <2>3
<1> QED
  BY <1>6, <1>7

LEMMA DecideStep ==
  ASSUME Serving, NEW t \in Conn, ReserveSeat(t) \/ CancelSeat(t)
  PROVE  RequestInv' /\ WorkInv' /\ SeatInv'
<1> USE DEF Serving
<1> DEFINE n == qpacket.seatno
<1>1. UNCHANGED <<mainVars, netVars, qpacket, file, row, word, seat, clntVars, sock>>
  BY DEF ReserveSeat, CancelSeat, OthersKept, LoopKept
<1>2. LoopTypeOK(PC) /\ spacket \in [Words -> Int]
  BY DEF BusInv, Loop, LoopInv, ServerTypeOK
<1>3. Busy(t) /\ pc[t] # "reply" /\ n \in Seats
  BY Decides
<1>5. CASE \E v \in {-2, -3, -4} : /\ spacket' = [spacket EXCEPT ![ResultW] = v]
                                   /\ pc' = [pc EXCEPT ![t] = "reply"]
  <2>1. PICK v \in {-2, -3, -4} : /\ spacket' = [spacket EXCEPT ![ResultW] = v]
                                  /\ pc' = [pc EXCEPT ![t] = "reply"]
    BY <1>5
  <2>2. v \in Int /\ v # 0
    OBVIOUS
  <2>3. spacket'[ResultW] = v /\ \A s \in Seats : spacket'[SeatW(s)] = spacket[SeatW(s)]
    BY <1>2, <2>1, <2>2, OtherWords
  <2> QED
    BY <1>1, <1>3, <2>1, <2>2, <2>3, AnswerStep
<1>6. CASE \E l \in {"take", "free"} :
             /\ spacket' = [spacket EXCEPT ![ResultW] = 0]
             /\ pc' = [pc EXCEPT ![t] = l]
             /\ l = "take" => ReserveSeat(t) /\ spacket[SeatW(n)] = 0
             /\ l = "free" => CancelSeat(t) /\ spacket[SeatW(n)] = own[t] /\ sock[t] = own[t]
  <2>1. PICK l \in {"take", "free"} :
             /\ spacket' = [spacket EXCEPT ![ResultW] = 0]
             /\ pc' = [pc EXCEPT ![t] = l]
             /\ l = "take" => ReserveSeat(t) /\ spacket[SeatW(n)] = 0
             /\ l = "free" => CancelSeat(t) /\ spacket[SeatW(n)] = own[t] /\ sock[t] = own[t]
    BY <1>6
  <2>2. spacket'[ResultW] = 0 /\ \A s \in Seats : spacket'[SeatW(s)] = spacket[SeatW(s)]
    BY <1>2, <2>1, OtherWords
  <2>3. pc'[t] = l
    BY <1>2, <2>1 DEF LoopTypeOK
  <2>4. AtLabel(t) /\ /\ l = "take" => pc[t] = "judge"
                      /\ l = "free" => pc[t] = "decide"
    BY <1>3, <2>1, InWork DEF ReserveSeat, CancelSeat
  <2>5. qpacket.command \in Commands(l) /\ word[t] = SeatW(n) /\ seat[t] = spacket[SeatW(n)]
    BY <1>3, <2>4 DEF AtLabel, Commands, Located, Looked
  <2>6. AtLabel(t)'
    BY <1>1, <1>3, <2>1, <2>2, <2>3, <2>5 DEF AtLabel
  <2>7. l \in PC \ {"none", "start", "read", "blocked", "done", "reply"}
    BY DEF PC
  <2> QED
    BY <1>1, <1>3, <2>1, <2>2, <2>6, <2>7, QuietStep
<1> QED
  BY <1>5, <1>6, Decides

\* The seat is written as decided: nobody else had it.
LEMMA Writes ==
  ASSUME Serving, NEW t \in Conn, TakeSeat(t) \/ FreeSeat(t)
  PROVE  LET n == qpacket.seatno
         IN  /\ n \in Seats /\ Busy(t) /\ UNCHANGED up
             /\ pc' = [pc EXCEPT ![t] = "reply"]
             /\ spacket[ResultW] = 0
             /\ \/ /\ pc[t] = "take" /\ last[t].command = Reserve
                   /\ spacket[SeatW(n)] = 0
                   /\ spacket' = [spacket EXCEPT ![SeatW(n)] = own[t]]
                \/ /\ pc[t] = "free" /\ last[t].command = Cancel
                   /\ spacket[SeatW(n)] = own[t]
                   /\ spacket' = [spacket EXCEPT ![SeatW(n)] = 0]
<1>1. Busy(t) /\ pc[t] \in {"take", "free"} /\ pc' = [pc EXCEPT ![t] = "reply"]
      /\ (TakeSeat(t) <=> pc[t] = "take") /\ (FreeSeat(t) <=> pc[t] = "free")
  BY DEF TakeSeat, FreeSeat, Busy, PC, Goto
<1>2. sock[t] = own[t] /\ AtLabel(t) /\ qpacket = last[t]
      /\ (last[t].command \in {Reserve, Cancel} => last[t].seatno \in Seats)
  BY <1>1, InWork
<1>3. /\ last[t].command = IF pc[t] = "take" THEN Reserve ELSE Cancel
      /\ spacket[ResultW] = 0 /\ word[t] = SeatW(qpacket.seatno)
  BY <1>1, <1>2 DEF AtLabel, Commands, Located, Looked
<1>4. qpacket.seatno \in Seats
  BY <1>2, <1>3
<1>5. /\ seat[t] = spacket[SeatW(qpacket.seatno)]
      /\ seat[t] = IF pc[t] = "take" THEN 0 ELSE sock[t]
  BY <1>1, <1>2, <1>4 DEF AtLabel, Looked
<1>6. word[t] \in Words
  BY <1>3, <1>4, OtherWords
<1>7. /\ spacket' = [spacket EXCEPT ![word[t]] = IF pc[t] = "take" THEN sock[t] ELSE 0]
      /\ UNCHANGED up
  BY <1>1, <1>6 DEF TakeSeat, FreeSeat, WriteSeat
<1> QED
  BY <1>1, <1>2, <1>3, <1>4, <1>5, <1>7

LEMMA WriteStep ==
  ASSUME Serving, NEW t \in Conn, TakeSeat(t) \/ FreeSeat(t)
  PROVE  RequestInv' /\ WorkInv' /\ SeatInv'
<1> USE DEF Serving
<1> DEFINE n == qpacket.seatno
<1>1. UNCHANGED <<mainVars, netVars, qpacket, file, clntVars, sock>>
  BY DEF TakeSeat, FreeSeat, OthersKept, LoopKept
<1>2. LoopTypeOK(PC) /\ spacket \in [Words -> Int]
  BY DEF BusInv, Loop, LoopInv, ServerTypeOK
<1>3. /\ n \in Seats /\ Busy(t) /\ pc[t] \in {"take", "free"}
      /\ pc' = [pc EXCEPT ![t] = "reply"] /\ spacket[ResultW] = 0
  BY Writes
<1>4. /\ qpacket = last[t] /\ last[t] \in Request /\ sem_two[t] = 0 /\ replies[t] = <<>>
      /\ own[t] \in Fds /\ fdtab[own[t]] = t
  BY <1>3, InWork
<1>5. RequestInv' /\ WorkInv' /\ \A c \in Conn : c # t => ~Busy(c) /\ pc'[c] = pc[c]
  <2>1. pc'[t] = "reply"
    BY <1>2, <1>3 DEF LoopTypeOK
  <2>2. qpacket'.command \in {Inquiry, Reserve, Cancel, Quit}
    BY <1>1, <1>4 DEF Request, Inquiry, Reserve, Cancel, Quit
  <2>3. AtLabel(t)'
    BY <2>1, <2>2 DEF AtLabel, Commands, Located, Looked
  <2>4. "reply" \in PC \ {"none", "start", "read", "blocked", "done"}
    BY DEF PC
  <2> QED
    BY <1>1, <1>3, <2>3, <2>4, BusyStep
<1>6. UNCHANGED <<replies, sem_two, last, holds, own>>
  BY <1>1 DEF netVars, clntVars, mainVars
<1>7. ~Granted(t) /\ (Granted(t)' <=> spacket'[ResultW] = 0)
  <2>1. <<>> # <<0>>
    BY OneIn
  <2> QED
    BY <1>2, <1>3, <1>4, <1>6, <2>1 DEF Granted, LoopTypeOK
<1>8. \A c \in Conn : c # t => (Granted(c)' <=> Granted(c))
  <2>1. \A c \in Conn : c # t => pc[c] # "reply" /\ pc'[c] # "reply"
    BY <1>5 DEF Busy, PC
  <2> QED
    BY <1>6, <2>1 DEF Granted
<1>9. \A c \in Conn : HoldsAfter(c, 0)' = HoldsAfter(c, 0) /\ (pc[c] = "done" <=> pc'[c] = "done")
  BY <1>2, <1>3, <1>5, <1>6 DEF HoldsAfter, LoopTypeOK
<1>10. ASSUME NEW f \in {0, own[t]},
              spacket' = [spacket EXCEPT ![SeatW(n)] = f],
              \A c \in Conn : c # t /\ pc[c] # "done" /\ own[c] # NoFd => spacket[SeatW(n)] # own[c],
              \A s \in HoldsAfter(t, 0) : s \in holds[t] \/ s = n,
              n \in HoldsAfter(t, 0) => f = own[t]
       PROVE  SeatInv'
  <2>1. \A s \in Seats : s # n => spacket'[SeatW(s)] = spacket[SeatW(s)]
    BY <1>2, <1>3, <1>10, OtherWords
  <2>2. spacket'[SeatW(n)] = f /\ spacket'[ResultW] = 0
    BY <1>2, <1>3, <1>10, OtherWords
  <2>3. own[t] # NoFd
    BY <1>4, ConnAssumption DEF Fds, NoFd
  <2>4. Due(t) = holds[t] /\ Due(t)' = HoldsAfter(t, 0)
    BY <1>7, <1>9, <2>2 DEF Due
  <2>5. pc[t] # "done"
    BY <1>3
  <2>6. ASSUME NEW s \in Due(t)'
        PROVE  s \in Seats /\ own'[t] # NoFd /\ spacket'[SeatW(s)] = own'[t]
    <3>1. CASE s = n
      BY <1>3, <1>6, <1>10, <2>2, <2>3, <2>4, <2>6, <3>1
    <3>2. CASE s # n
      <4>1. s \in Due(t)
        BY <1>10, <2>4, <2>6, <3>2
      <4>2. s \in Seats /\ spacket[SeatW(s)] = own[t]
        BY <2>5, <4>1 DEF SeatInv
      <4> QED
        BY <1>6, <2>1, <2>3, <3>2, <4>2
    <3> QED
      BY <3>1, <3>2
  <2>7. ASSUME NEW c \in Conn, c # t, pc'[c] # "done", NEW s \in Due(c)'
        PROVE  s \in Seats /\ own'[c] # NoFd /\ spacket'[SeatW(s)] = own'[c]
    <3>1. s \in Due(c) /\ pc[c] # "done"
      BY <1>6, <1>8, <1>9, <2>7 DEF Due
    <3>2. s \in Seats /\ own[c] # NoFd /\ spacket[SeatW(s)] = own[c]
      BY <3>1 DEF SeatInv
    <3>3. s # n
      BY <1>10, <2>7, <3>1, <3>2
    <3> QED
      BY <1>6, <2>1, <3>2, <3>3
  <2> QED
    BY <2>6, <2>7 DEF SeatInv
<1>11. CASE /\ last[t].command = Reserve /\ spacket[SeatW(n)] = 0
            /\ spacket' = [spacket EXCEPT ![SeatW(n)] = own[t]]
  <2>1. HoldsAfter(t, 0) = holds[t] \cup {n}
    BY <1>4, <1>11 DEF HoldsAfter, Reserve, Cancel
  <2>2. SeatInv'
    BY <1>10, <1>11, <2>1 DEF NoFd
  <2> QED
    BY <1>5, <2>2
<1>12. CASE /\ last[t].command = Cancel /\ spacket[SeatW(n)] = own[t]
            /\ spacket' = [spacket EXCEPT ![SeatW(n)] = 0]
  <2>1. HoldsAfter(t, 0) = holds[t] \ {n}
    BY <1>4, <1>12 DEF HoldsAfter, Reserve, Cancel
  <2>2. \A c \in Conn : c # t /\ pc[c] # "done" /\ own[c] # NoFd => own[t] # own[c]
    BY <1>4, OwnDescriptor DEF BusInv, Intact
  <2>3. SeatInv'
    BY <1>10, <1>12, <2>1, <2>2
  <2> QED
    BY <1>5, <2>3
<1> QED
  BY <1>11, <1>12, Writes

\* The reply carries the result of the request in work.
LEMMA ReplyStep ==
  ASSUME Serving, NEW t \in Conn, Reply(t)
  PROVE  RequestInv' /\ WorkInv' /\ SeatInv'
<1> USE DEF Serving
<1>1. Busy(t) /\ pc[t] = "reply"
  BY DEF Reply, Busy, PC
<1>2. /\ LoopTypeOK(PC) /\ spacket \in [Words -> Int] /\ replies \in [Conn -> Seq(Int)]
      /\ peer[t] = "open"
  BY DEF BusInv, Loop, LoopInv, ServerTypeOK, ClientTypeOK, Intact
<1>3. /\ sem_two[t] = 0 /\ inbox[t] = <<>> /\ replies[t] = <<>>
      /\ last[t].command \in {Reserve, Cancel} => last[t].seatno \in Seats
      /\ \A u \in Conn : Busy(u) => u = t
      /\ fdtab[sock[t]] = t
  BY <1>1, InWork
<1>4. /\ pc' = [pc EXCEPT ![t] = "read"]
      /\ replies' = [replies EXCEPT ![t] = Append(@, spacket[ResultW])]
      /\ UNCHANGED <<mainVars, inbox, pktVars, file, row, clntVars>>
  BY <1>2, <1>3, ConnAssumption DEF Reply, Goto, LoopKept
<1>5. replies' = [replies EXCEPT ![t] = <<spacket[ResultW]>>]
  BY <1>3, <1>4, OneIn
<1>6. \A c \in Conn : ~Busy(c)' /\ (c # t => pc'[c] = pc[c])
  BY <1>2, <1>3, <1>4 DEF Busy, PC, LoopTypeOK
<1>7. RequestInv'
  <2>1. UNCHANGED <<left, sem_two, last, inbox>> /\ pc'[t] = "read"
    BY <1>2, <1>4 DEF clntVars, LoopTypeOK
  <2>2. \A c \in Conn : c # t => replies'[c] = replies[c] /\ ~Busy(c)
    BY <1>2, <1>3, <1>5
  <2>3. Len(replies'[t]) = 1
    BY <1>2, <1>5, OneIn
  <2> QED
    BY <1>1, <1>3, <1>6, <2>1, <2>2, <2>3 DEF RequestInv
<1>8. WorkInv'
  <2>1. \A c \in Conn : /\ file'[c] = file[c]
                        /\ pc'[c] = "blocked" => pc[c] = "blocked"
    BY <1>2, <1>4, <1>6 DEF Busy, PC, LoopTypeOK
  <2> QED
    BY <1>6, <2>1 DEF WorkInv
<1>9. \A c \in Conn : Granted(c)' <=> Granted(c)
  <2>1. UNCHANGED <<sem_two, spacket>>
    BY <1>4 DEF clntVars, pktVars
  <2>2. Granted(t)' <=> Granted(t)
    <3>1. <<spacket[ResultW]>> = <<0>> <=> spacket[ResultW] = 0
      BY OneIn
    <3>2. <<>> # <<0>> /\ pc'[t] # "reply" /\ replies'[t] = <<spacket[ResultW]>>
      BY <1>2, <1>4, <1>5, OneIn DEF LoopTypeOK
    <3> QED
      BY <1>1, <1>3, <2>1, <3>1, <3>2 DEF Granted
  <2>3. \A c \in Conn : c # t => replies'[c] = replies[c]
    BY <1>2, <1>5
  <2> QED
    BY <1>6, <2>1, <2>2, <2>3 DEF Granted
<1>10. SeatInv'
  <2>1. \A c \in Conn : pc[c] = "done" => pc'[c] = "done"
    BY <1>1, <1>6
  <2> QED
    BY <1>4, <1>9, <2>1, DueKept DEF mainVars, pktVars, clntVars
<1> QED
  BY <1>7, <1>8, <1>10

\* A client that quits is not asked for anything any more.
LEMMA QuitStep ==
  ASSUME Serving, NEW t \in Conn, QuitClient(t)
  PROVE  RequestInv' /\ WorkInv' /\ SeatInv'
<1> USE DEF Serving
<1>1. Busy(t) /\ pc[t] = "quit" /\ LoopTypeOK(PC)
  BY DEF QuitClient, Busy, PC, BusInv, Loop, LoopInv
<1>2. /\ sem_two[t] = 0 /\ inbox[t] = <<>> /\ replies[t] = <<>>
      /\ last[t].command \in {Reserve, Cancel} => last[t].seatno \in Seats
      /\ qpacket = last[t] /\ AtLabel(t)
      /\ \A u \in Conn : Busy(u) => u = t
  BY <1>1, InWork
<1>3. /\ pc' = [pc EXCEPT ![t] = "done"]
      /\ UNCHANGED <<mainVars, netVars, pktVars, file, row, clntVars>>
  BY DEF QuitClient, Goto
<1>4. t \in left
  BY <1>1, <1>2 DEF AtLabel, Commands, RequestInv
<1>5. \A c \in Conn : ~Busy(c)' /\ (c # t => pc'[c] = pc[c] /\ ~Busy(c))
  BY <1>1, <1>2, <1>3 DEF Busy, PC, LoopTypeOK
<1>6. pc'[t] = "done"
  BY <1>1, <1>3 DEF LoopTypeOK
<1>7. RequestInv'
  BY <1>2, <1>3, <1>4, <1>5, <1>6 DEF RequestInv, netVars, clntVars
<1>8. WorkInv'
  <2>1. \A c \in Conn : /\ file'[c] = file[c]
                        /\ pc'[c] = "blocked" => pc[c] = "blocked"
    BY <1>3, <1>5, <1>6 DEF Busy, PC
  <2> QED
    BY <1>5, <2>1 DEF WorkInv
<1>9. SeatInv'
  <2>1. \A c \in Conn : /\ pc[c] = "done" => pc'[c] = "done"
                        /\ pc'[c] # "done" => (Granted(c)' <=> Granted(c))
    BY <1>3, <1>5, <1>6 DEF Granted, netVars, pktVars, clntVars
  <2> QED
    BY <1>3, <2>1, DueKept DEF mainVars, pktVars, clntVars
<1> QED
  BY <1>7, <1>8, <1>9
-----------------------------------------------------------------------------
LEMMA OrderlyInit == Init => OrderlyInv
<1> SUFFICES ASSUME Init PROVE OrderlyInv
  OBVIOUS
<1>1. BusInv
  BY InitBusInv
<1>2. Intact
  BY ArgsAtFirst DEF Init, Intact
<1>3. /\ \A c \in Conn : ~Busy(c) /\ pc[c] = "none"
      /\ last \in [Conn -> [command : {Inquiry}, seatno : Garbage]]
      /\ inbox = [c \in Conn |-> <<>>] /\ replies = [c \in Conn |-> <<>>]
      /\ sem_two = [c \in Conn |-> 1] /\ holds = [c \in Conn |-> {}]
  BY DEF Init, LoopInit, Busy, PC
<1>4. RequestInv
  BY <1>3 DEF RequestInv, Inquiry, Quit
<1>5. WorkInv
  BY <1>3 DEF WorkInv
<1>6. SeatInv
  BY <1>3 DEF SeatInv, Due, Granted
<1> QED
  BY <1>1, <1>2, <1>4, <1>5, <1>6 DEF OrderlyInv, Serving

\* While the server runs, every step keeps what it relies on.
LEMMA ServingStep ==
  ASSUME Serving, up, clean', Next
  PROVE  RequestInv' /\ WorkInv' /\ SeatInv'
<1>1. clean
  BY DEF Serving, Intact
<1>2. ASSUME NEW c \in Conn, Client(c)
      PROVE  RequestInv' /\ WorkInv' /\ SeatInv'
  <2>1. ~ClientDie(c)
    BY <1>1 DEF ClientDie
  <2> QED
    BY <1>2, <2>1, AskStep, ShowStep DEF Client
<1>3. ASSUME NEW t \in Conn, Handler(t)
      PROVE  RequestInv' /\ WorkInv' /\ SeatInv'
  <2>1. ~RefuseSeat(t)
    <3>1. pc[t] = "refuse" => Busy(t)
      BY DEF Busy, PC
    <3> QED
      BY <3>1, InWork DEF RefuseSeat, AtLabel
  <2> QED
    BY <1>3, <2>1, LoopStep, ReadStep, ReceiveStep, LocateStep, DispatchStep, NoteStep,
       DecideStep, WriteStep, ReplyStep, QuitStep DEF Handler
<1>4. CASE Main \/ Idle
  BY <1>4, LoopStep
<1> QED
  BY <1>2, <1>3, <1>4 DEF Next

LEMMA OrderlyNext == OrderlyInv /\ [Next /\ Orderly]_vars => OrderlyInv'
<1> SUFFICES ASSUME OrderlyInv, [Next /\ Orderly]_vars PROVE OrderlyInv'
  OBVIOUS
<1>1. BusInv'
  BY NextBusInv DEF OrderlyInv
<1>2. CASE UNCHANGED vars
  <2>1. up => RequestInv' /\ WorkInv' /\ SeatInv'
    BY <1>2, LoopStep DEF OrderlyInv
  <2>2. UNCHANGED <<up, peer, clean>> /\ UNCHANGED loopVars
    BY <1>2 DEF vars, netVars, histVars
  <2>3. Intact'
    BY <2>2 DEF OrderlyInv, Intact, ArgWaits, ArgsIntact, Started, loopVars
  <2> QED
    BY <1>1, <2>1, <2>2, <2>3 DEF OrderlyInv, Serving
<1>3. CASE Next /\ Orderly
  <2>1. Intact' /\ (up' => up)
    BY <1>3, NextIntact
  <2>2. clean'
    BY <1>3 DEF Orderly
  <2>3. up => RequestInv' /\ WorkInv' /\ SeatInv'
    BY <1>3, <2>2, ServingStep DEF OrderlyInv
  <2> QED
    BY <1>1, <2>1, <2>3 DEF OrderlyInv, Serving
<1> QED
  BY <1>2, <1>3

LEMMA OrderlyInvariance == OrderlySpec => []OrderlyInv
BY OrderlyInit, OrderlyNext, PTL DEF OrderlySpec

\* Used as intended, a client at its prompt has every seat it was told it
\* reserved, although bus_server.c looks at the seat before it takes mutx
\* (bus_server.c:98) and cancels without it.
THEOREM BusTickets == OrderlySpec => []TicketsHonoured
<1>1. OrderlyInv => TicketsHonoured
  BY DEF OrderlyInv, Serving, SeatInv, Due, Granted, TicketsHonoured
<1> QED
  BY <1>1, OrderlyInvariance, PTL

\* Used as intended, no handler has another's descriptor.
THEOREM BusArgs == OrderlySpec => []ArgsIntact
<1>1. OrderlyInv => ArgsIntact
  BY DEF OrderlyInv, Intact
<1> QED
  BY <1>1, OrderlyInvariance, PTL
-----------------------------------------------------------------------------
(***************************************************************************)
(* The booking office.                                                     *)
(***************************************************************************)

\* The handlers that have decided about a seat and are yet to write it.
Deciding(s) == {t \in Conn : pc[t] \in {"take", "free"} /\ word[t] = SeatW(s)}

HolderOnceDecided ==
  \A t \in Conn, s \in Seats : Serving /\ pc[t] \in {"take", "free"} =>
    Holder(s) = IF s # qpacket.seatno THEN spacket[SeatW(s)]
                ELSE IF pc[t] = "take" THEN own[t] ELSE 0

\* Nobody but the handler in work decides.
LEMMA HolderDecided == HolderOnceDecided
<1> SUFFICES ASSUME NEW t \in Conn, NEW s \in Seats, Serving, pc[t] \in {"take", "free"}
             PROVE  Holder(s) = IF s # qpacket.seatno THEN spacket[SeatW(s)]
                                ELSE IF pc[t] = "take" THEN own[t] ELSE 0
  BY DEF HolderOnceDecided
<1>1. Busy(t)
  BY DEF Busy, PC
<1>2. /\ AtLabel(t) /\ sock[t] = own[t] /\ qpacket.seatno \in Int
      /\ \A u \in Conn : Busy(u) => u = t
  BY <1>1, InWork
<1>3. word[t] = SeatW(qpacket.seatno)
  BY <1>2 DEF AtLabel, Located, Looked
<1>4. word[t] = SeatW(s) <=> s = qpacket.seatno
  BY <1>2, <1>3 DEF SeatW
<1>5. \A u \in Conn : pc[u] \in {"take", "free"} => u = t
  BY <1>2 DEF Busy, PC
<1>6. Deciding(s) = IF s = qpacket.seatno THEN {t} ELSE {}
  BY <1>4, <1>5 DEF Deciding
<1>7. CASE s = qpacket.seatno
  <2>1. Deciding(s) = {t} /\ (CHOOSE u \in Deciding(s) : TRUE) = t
    BY <1>6, <1>7
  <2> QED
    BY <1>2, <1>7, <2>1 DEF Holder, Deciding
<1>8. CASE s # qpacket.seatno
  BY <1>6, <1>8 DEF Holder, Deciding
<1> QED
  BY <1>7, <1>8

HolderOnceWritten ==
  \A s \in Seats : (\A t \in Conn : pc[t] \notin {"take", "free"}) =>
    Holder(s) = spacket[SeatW(s)]

LEMMA HolderWritten == HolderOnceWritten
<1> SUFFICES ASSUME NEW s \in Seats, \A t \in Conn : pc[t] \notin {"take", "free"}
             PROVE  Holder(s) = spacket[SeatW(s)]
  BY DEF HolderOnceWritten
<1>1. Deciding(s) = {}
  BY DEF Deciding
<1> QED
  BY <1>1 DEF Holder, Deciding

\* Both hold after a step as they hold before it.
LEMMA HolderNext == HolderOnceDecided' /\ HolderOnceWritten'
  BY HolderDecided, HolderWritten, PTL

\* Steps that leave the seats, and the handlers that have decided, alone.
LEMMA HolderKept ==
  ASSUME \A s \in Seats : spacket'[SeatW(s)] = spacket[SeatW(s)],
         \A t \in Conn : \/ /\ pc'[t] = pc[t] /\ word'[t] = word[t] /\ sock'[t] = sock[t]
                         \/ {pc[t], pc'[t]} \cap {"take", "free"} = {},
         NEW s \in Seats
  PROVE  Holder(s)' = Holder(s)
<1>1. Deciding(s)' = Deciding(s)
  BY DEF Deciding
<1>2. CASE Deciding(s) = {}
  BY <1>1, <1>2 DEF Holder, Deciding
<1>3. CASE Deciding(s) # {}
  <2> DEFINE t == CHOOSE u \in Deciding(s) : TRUE
  <2>1. t \in Deciding(s)
    BY <1>3
  <2>2. t \in Conn /\ pc'[t] = pc[t] /\ sock'[t] = sock[t]
    BY <2>1 DEF Deciding
  <2> HIDE DEF t
  <2>3. Holder(s) = IF pc[t] = "take" THEN sock[t] ELSE 0
    BY <1>3 DEF Holder, Deciding, t
  <2>4. Holder(s)' = IF pc'[t] = "take" THEN sock'[t] ELSE 0
    BY <1>1, <1>3 DEF Holder, Deciding, t
  <2> QED
    BY <2>2, <2>3, <2>4
<1> QED
  BY <1>2, <1>3

\* Every step of the server used as intended is a step of the abstract booking
\* office, which decides one request on the seat map of the moment, or changes
\* neither a seat nor the result.
LEMMA BookingStep ==
  ASSUME OrderlyInv, [Next /\ Orderly]_vars
  PROVE  [Booking!BookingNext]_(Booking!booking)
<1> DEFINE taken == [s \in Seats |-> Holder(s)]
<1>1. /\ spacket \in [Words -> Int] /\ LoopTypeOK(PC)
      /\ word \in [Conn -> Int] /\ OrderlyInv'
  BY OrderlyNext DEF OrderlyInv, BusInv, Loop, LoopInv, ServerTypeOK
<1>2. ASSUME \A s \in Seats : Holder(s)' = Holder(s),
             \/ spacket'[ResultW] = spacket[ResultW]
             \/ spacket'[ResultW] = 0
      PROVE  [Booking!BookingNext]_(Booking!booking)
  BY <1>2 DEF Booking!BookingNext, Booking!Inquire, Booking!booking
<1>3. CASE UNCHANGED vars \/ Idle \/ Main \/ \E t \in Conn : Client(t) \/ HandlerStart(t)
  <2>1. UNCHANGED <<spacket, word>>
    BY <1>3 DEF vars, Idle, Main, MainAccept, MainAppend, MainCreate, Client, ClientAsk,
       ClientShow, ClientDie, HandlerStart, pktVars, hdlVars
  <2>2. \A t \in Conn : \/ pc'[t] = pc[t] /\ sock'[t] = sock[t]
                        \/ {pc[t], pc'[t]} \subseteq {"none", "start", "read"}
    <3>1. CASE UNCHANGED vars \/ Idle \/ \E t \in Conn : Client(t)
      BY <3>1 DEF vars, loopVars, Idle, Client, ClientAsk, ClientShow, ClientDie
    <3>2. CASE Main
      BY <1>1, <3>2 DEF Main, MainAccept, Accept, MainAppend, Enlist, MainCreate, Create,
         LoopTypeOK, OrderlyInv, BusInv, Loop, LoopInv, Bookkeeping
    <3>3. ASSUME NEW u \in Conn, HandlerStart(u)
          PROVE  \A t \in Conn : \/ pc'[t] = pc[t] /\ sock'[t] = sock[t]
                                 \/ {pc[t], pc'[t]} \subseteq {"none", "start", "read"}
      BY <1>1, <3>3 DEF HandlerStart, TakeArg, LoopTypeOK
    <3> QED
      BY <1>3, <3>1, <3>2, <3>3
  <2>3. \A s \in Seats : Holder(s)' = Holder(s)
    BY <2>1, <2>2, HolderKept
  <2> QED
    BY <1>2, <2>1, <2>3
<1>4. ASSUME NEW t \in Conn, Handler(t), ~HandlerStart(t)
      PROVE  [Booking!BookingNext]_(Booking!booking)
  <2>1. up /\ Serving /\ UNCHANGED sock
    BY <1>4 DEF OrderlyInv, Handler, ReadCall, Receive, LocateRow, LocateCol, LookUp,
       Dispatch, Test, Inquire, NoteSeat, CheckNumber, RefuseSeat, ReserveSeat,
       TakeSeat, CancelSeat, FreeSeat, Reply, QuitClient, OthersKept, LoopKept
  <2>2. ASSUME NEW l, pc' = [pc EXCEPT ![t] = l], pc[t] \notin {"take", "free"},
               l \notin {"take", "free"},
               UNCHANGED word \/ \E w : word' = [word EXCEPT ![t] = w],
               \A s \in Seats : spacket'[SeatW(s)] = spacket[SeatW(s)]
        PROVE  \A s \in Seats : Holder(s)' = Holder(s)
    <3>1. \A u \in Conn : \/ pc'[u] = pc[u] /\ word'[u] = word[u]
                          \/ {pc[u], pc'[u]} \cap {"take", "free"} = {}
      BY <1>1, <2>2 DEF LoopTypeOK
    <3> QED
      BY <2>1, <2>2, <3>1, HolderKept
  <2>3. CASE ReadCall(t) \/ Receive(t) \/ LocateRow(t) \/ LocateCol(t) \/ LookUp(t)
             \/ Dispatch(t) \/ CheckNumber(t) \/ Reply(t) \/ QuitClient(t)
    <3>1. UNCHANGED spacket
      BY <2>3 DEF ReadCall, Receive, LocateRow, LocateCol, LookUp, Dispatch, Test,
         CheckNumber, Reply, QuitClient, pktVars
    <3>2. /\ pc[t] \notin {"take", "free"}
          /\ \E l : l \notin {"take", "free"} /\ pc' = [pc EXCEPT ![t] = l]
          /\ UNCHANGED word \/ \E w : word' = [word EXCEPT ![t] = w]
      BY <2>3 DEF ReadCall, Receive, LocateRow, LocateCol, LookUp, Dispatch, Test,
         CheckNumber, Reply, QuitClient, Forget, Goto
    <3>3. \A s \in Seats : Holder(s)' = Holder(s)
      BY <2>2, <3>1, <3>2
    <3> QED
      BY <1>2, <3>1, <3>3
  <2>4. CASE Inquire(t) \/ NoteSeat(t)
    <3>1. /\ pc[t] \notin {"take", "free"} /\ UNCHANGED word
          /\ \E l : l \notin {"take", "free"} /\ pc' = [pc EXCEPT ![t] = l]
      BY <2>4 DEF Inquire, NoteSeat, Goto
    <3>2. \/ spacket' = [spacket EXCEPT ![ResultW] = 0]
          \/ spacket' = [spacket EXCEPT ![SeatnoW] = qpacket.seatno]
      BY <2>4 DEF Inquire, NoteSeat
    <3>3. /\ \A s \in Seats : spacket'[SeatW(s)] = spacket[SeatW(s)]
          /\ spacket'[ResultW] = spacket[ResultW] \/ spacket'[ResultW] = 0
      BY <1>1, <3>2, OtherWords
    <3>4. \A s \in Seats : Holder(s)' = Holder(s)
      BY <2>2, <3>1, <3>3
    <3> QED
      BY <1>2, <3>3, <3>4
  <2>5. ~RefuseSeat(t)
    <3>1. pc[t] = "refuse" => Busy(t)
      BY DEF Busy, PC
    <3> QED
      BY <2>1, <3>1, InWork DEF RefuseSeat, AtLabel
  <2>6. CASE ReserveSeat(t) \/ CancelSeat(t)
    <3> DEFINE n == qpacket.seatno
    <3>1. /\ n \in Seats /\ own[t] \in Fds /\ pc[t] \notin {"take", "free"}
          /\ \A u \in Conn : pc[u] \notin {"take", "free"}
          /\ UNCHANGED <<word, qpacket, own, up>>
      <4>1. Busy(t) /\ n \in Seats
        BY <2>1, <2>6, Decides
      <4>2. \A u \in Conn : pc[u] \in {"take", "free"} => u = t
        BY <2>1, <4>1, InWork DEF Busy, PC
      <4> QED
        BY <2>1, <2>6, <4>1, <4>2, InWork DEF ReserveSeat, CancelSeat, OthersKept,
           LoopKept, mainVars
    <3>2. \A s \in Seats : Holder(s) = spacket[SeatW(s)]
      BY <3>1, HolderWritten DEF HolderOnceWritten
    <3>4. ASSUME NEW v \in {-2, -3, -4}, spacket' = [spacket EXCEPT ![ResultW] = v],
                 pc' = [pc EXCEPT ![t] = "reply"]
          PROVE  taken' = taken /\ spacket'[ResultW] = v
      <4>1. spacket'[ResultW] = v /\ \A s \in Seats : spacket'[SeatW(s)] = spacket[SeatW(s)]
        <5>1. v \in Int
          OBVIOUS
        <5> QED
          BY <1>1, <3>4, <5>1, OtherWords
      <4>2. \A s \in Seats : Holder(s)' = Holder(s)
        <5>1. \E l : l \notin {"take", "free"} /\ pc' = [pc EXCEPT ![t] = l]
          BY <3>4
        <5>2. UNCHANGED word
          BY <3>1
        <5> QED
          BY <2>2, <3>1, <4>1, <5>1, <5>2
      <4> QED
        BY <4>1, <4>2
    <3>5. ASSUME NEW l \in {"take", "free"}, spacket' = [spacket EXCEPT ![ResultW] = 0],
                 pc' = [pc EXCEPT ![t] = l]
          PROVE  /\ taken' = [taken EXCEPT ![n] = IF l = "take" THEN own[t] ELSE 0]
                 /\ spacket'[ResultW] = 0
      <4>1. spacket'[ResultW] = 0 /\ \A s \in Seats : spacket'[SeatW(s)] = spacket[SeatW(s)]
        BY <1>1, <3>5, OtherWords
      <4>2. Serving' /\ pc'[t] = l
        BY <1>1, <2>1, <3>1, <3>5 DEF OrderlyInv, LoopTypeOK
      <4>3. \A s \in Seats : Holder(s)' = IF s # n THEN spacket'[SeatW(s)]
                                          ELSE IF l = "take" THEN own[t] ELSE 0
        BY <3>1, <4>2, HolderNext DEF HolderOnceDecided
      <4>4. \A s \in Seats : Holder(s)' = IF s = n THEN IF l = "take" THEN own[t] ELSE 0
                                          ELSE Holder(s)
        BY <3>2, <4>1, <4>3
      <4> QED
        BY <3>1, <4>1, <4>4
    <3>6. taken[n] = spacket[SeatW(n)]
      BY <3>1, <3>2
    <3> HIDE DEF taken
    <3>7. CASE ReserveSeat(t)
      <4>1. \/ taken[n] # 0 /\ taken' = taken /\ spacket'[ResultW] = -2
            \/ taken[n] = 0 /\ taken' = [taken EXCEPT ![n] = own[t]] /\ spacket'[ResultW] = 0
        BY <2>1, <3>4, <3>5, <3>6, <3>7, Decides DEF ReserveSeat, CancelSeat
      <4>2. Booking!Book(own[t], n)
        BY <4>1 DEF Booking!Book, taken
      <4> QED
        BY <3>1, <4>2 DEF Booking!BookingNext
    <3>8. CASE CancelSeat(t)
      <4>1. \/ taken[n] = 0 /\ taken' = taken /\ spacket'[ResultW] = -3
            \/ taken[n] \notin {0, own[t]} /\ taken' = taken /\ spacket'[ResultW] = -4
            \/ taken[n] = own[t] /\ taken' = [taken EXCEPT ![n] = 0] /\ spacket'[ResultW] = 0
        BY <2>1, <3>4, <3>5, <3>6, <3>8, Decides DEF ReserveSeat, CancelSeat
      <4>2. Booking!Release(own[t], n)
        BY <4>1 DEF Booking!Release, taken
      <4> QED
        BY <3>1, <4>2 DEF Booking!BookingNext
    <3> QED
      BY <2>6, <3>7, <3>8
  <2>7. CASE TakeSeat(t) \/ FreeSeat(t)
    <3> DEFINE n == qpacket.seatno
    <3>1. /\ n \in Seats /\ pc[t] \in {"take", "free"} /\ UNCHANGED own
          /\ pc' = [pc EXCEPT ![t] = "reply"]
          /\ spacket' = [spacket EXCEPT ![SeatW(n)] = IF pc[t] = "take" THEN own[t] ELSE 0]
      BY <2>1, <2>7, Writes DEF TakeSeat, FreeSeat, OthersKept, LoopKept, mainVars
    <3>2. \A u \in Conn : pc'[u] \notin {"take", "free"}
      <4>1. Busy(t)
        BY <3>1 DEF Busy, PC
      <4>2. \A u \in Conn : Busy(u) => u = t
        BY <2>1, <4>1, InWork
      <4> QED
        BY <1>1, <3>1, <4>2 DEF Busy, PC, LoopTypeOK
    <3>3. \A s \in Seats : Holder(s)' = spacket'[SeatW(s)]
      BY <3>2, HolderNext DEF HolderOnceWritten
    <3>4. \A s \in Seats : Holder(s) = IF s # n THEN spacket[SeatW(s)]
                                       ELSE IF pc[t] = "take" THEN own[t] ELSE 0
      BY <2>1, <3>1, HolderDecided DEF HolderOnceDecided
    <3>5. spacket'[ResultW] = spacket[ResultW]
      BY <1>1, <3>1, OtherWords
    <3>6. \A s \in Seats : spacket'[SeatW(s)] = IF s # n THEN spacket[SeatW(s)]
                                       ELSE IF pc[t] = "take" THEN own[t] ELSE 0
      BY <1>1, <3>1, OtherWords
    <3> QED
      BY <1>2, <3>3, <3>4, <3>5, <3>6
  <2> QED
    BY <1>4, <2>3, <2>4, <2>5, <2>6, <2>7 DEF Handler
<1> QED
  BY <1>3, <1>4 DEF Next

\* Used as intended, the handlers' looking, locking and writing implements the
\* booking office.
THEOREM BusBooks == OrderlySpec => ImplementsBooking
<1>1. Init => Booking!BookingInit
  <2> SUFFICES ASSUME Init PROVE Booking!BookingInit
    OBVIOUS
  <2>1. /\ spacket = [w \in Words |-> 0] /\ ResultW \in Words
        /\ \A s \in Seats : SeatW(s) \in Words
    BY OtherWords DEF Init
  <2>2. \A t \in Conn : pc[t] \notin {"take", "free"}
    BY DEF Init, LoopInit
  <2>3. \A s \in Seats : Holder(s) = 0
    BY <2>1, <2>2, HolderWritten DEF HolderOnceWritten
  <2> QED
    BY <2>1, <2>3 DEF Booking!BookingInit
<1>2. OrderlyInv /\ [Next /\ Orderly]_vars => [Booking!BookingNext]_(Booking!booking)
  BY BookingStep
<1> QED
  BY <1>1, <1>2, OrderlyInvariance, PTL DEF OrderlySpec, ImplementsBooking, Booking!BookingSpec
=============================================================================

-------------------------- MODULE OttServerProofs --------------------------
(***************************************************************************)
(* OttInv is an inductive invariant of the file server: the types, the     *)
(* whole file for every client while each handler has its own descriptor,  *)
(* and, whatever descriptors the handlers took, that a descriptor is       *)
(* closed only once its client has acknowledged the end.                   *)
(***************************************************************************)
EXTENDS OttServer, AcceptLoopProofs

Past == {"removed"}

\* TypeOK without the loop's variables.
NetTypeOK ==
  /\ up \in BOOLEAN
  /\ peer \in [Conn -> PeerState]
  /\ inbox \in [Conn -> Seq(Requests)]
  /\ stream \in [Conn -> Seq(Blocks)]

OwnTypeOK ==
  /\ file \in [Conn -> Conn \cup {NoConn}]
  /\ num \in [Conn -> Sizes \cup {0, -1}]
  /\ pos \in [Conn -> 0 .. FILE]
  /\ rc \in [Conn -> {"menu", "reading", "over"}]
  /\ wanted \in [Conn -> Types]
  /\ got \in [Conn -> Int]
  /\ off \in [Conn -> 0 .. PACKET - 1]
  /\ whole \in [Conn -> BOOLEAN]

Loop == LoopInv(PC, Past, Past)

\* A client sends its request and, after the last block, the acknowledgement.
HasAck(c) ==
  /\ inbox[c] # <<>>
  /\ inbox[c][Len(inbox[c])].command = "FILE_END_ACK"

InboxInv ==
  \A c \in Conn :
    /\ HasAck(c) => rc[c] = "over"
    /\ \A i \in 1 .. Len(inbox[c]) - 1 : inbox[c][i].command # "FILE_END_ACK"

\* The acknowledgement is read by one handler, and the descriptor it came from
\* is not reused before that handler closes it: whoever is still reading from
\* that connection finds nothing more.
AckInv ==
  \A t \in Conn :
    /\ pc[t] = "waiting" /\ file[t] # NoConn =>
         \/ fdtab[sock[t]] = file[t]
         \/ rc[file[t]] = "over" /\ ~HasAck(file[t])
    /\ pc[t] = "remove" =>
         /\ fdtab[sock[t]] \in Conn
         /\ rc[fdtab[sock[t]]] = "over" /\ ~HasAck(fdtab[sock[t]])
         /\ \A u \in Conn : pc[u] = "remove" /\ fdtab[sock[u]] = fdtab[sock[t]] => u = t

\* Blocks that follow each other in the file, of which only the file's last is
\* marked.
Ends(q) == q[Len(q)].at + q[Len(q)].len

Film(q) ==
  \A i \in 1 .. Len(q) :
    /\ i # 1 => q[i].at = q[i - 1].at + q[i - 1].len
    /\ q[i].at + q[i].len <= FILE
    /\ q[i].command = "FILE_END" => q[i].at + q[i].len = FILE

\* The handler goes on where the blocks on their way end; and they continue what
\* the client has, as long as its read()s fall in with the packets.
StreamInv ==
  \A c \in Conn :
    /\ Film(stream[c])
    /\ rc[c] = "over" => peer[c] # "open"
    /\ peer[c] = "open" /\ stream[c] # <<>> => Ends(stream[c]) = pos[c]
    /\ whole[c] =>
         /\ off[c] = 0 /\ got[c] <= FILE
         /\ rc[c] = "over" => got[c] = FILE
         /\ stream[c] # <<>> => Head(stream[c]).at = got[c]
         /\ stream[c] = <<>> /\ peer[c] = "open" => got[c] = pos[c]

OttInv ==
  /\ Loop
  /\ NetTypeOK
  /\ OwnTypeOK
  /\ InboxInv
  /\ AckInv
  /\ ArgsIntact => StreamInv
-----------------------------------------------------------------------------
\* The file handler's labels fit the loop's lemmas.
LEMMA PCLabels == LabelsOK(PC, Past, Past)
BY DEF LabelsOK, PC, Past

\* Init establishes OttInv.
LEMMA InitOttInv == Init => OttInv
<1> SUFFICES ASSUME Init PROVE OttInv
  OBVIOUS
<1> USE DEF Init, LoopInit
<1>1. /\ Cardinality(Conn) \in Nat /\ MAX_CLNT \in Nat /\ NoConn \notin Conn
      /\ FILE \in Nat /\ PACKET \in Nat \ {0}
  BY ConnAssumption, FileAssumption, FS_CardinalityType
<1>2. Registered(Past) = {}
  BY DEF Registered
<1>3. CountIsExact(Past)
  BY <1>2, FS_EmptySet DEF CountIsExact
<1>4. LoopTypeOK(PC)
  BY <1>1 DEF LoopTypeOK, PC, Fds, Slots
<1>5. Bookkeeping
  BY DEF Bookkeeping, Started
<1>6. TableIs(Past) /\ FdsKept(Past)
  <2>1. 0 .. clnt_cnt - 1 = {}
    OBVIOUS
  <2>2. ListedFds = {} /\ {own[c] : c \in Registered(Past)} = {}
    BY <1>2, <2>1 DEF ListedFds
  <2> QED
    BY <2>1, <2>2 DEF TableIs, FdsKept
<1>7. Loop
  BY <1>3, <1>4, <1>5, <1>6 DEF Loop, LoopInv
<1>8. <<>> \in Seq(Requests) /\ <<>> \in Seq(Blocks) /\ Len(<<>>) = 0
  BY EmptySeq
<1>9. NetTypeOK /\ OwnTypeOK
  BY <1>1, <1>8 DEF NetTypeOK, OwnTypeOK, PeerState, Types
<1>10. InboxInv /\ AckInv
  BY <1>8 DEF InboxInv, HasAck, AckInv
<1>11. StreamInv
  BY <1>1, <1>8 DEF StreamInv, Film
<1> QED
  BY <1>7, <1>9, <1>10, <1>11 DEF OttInv

\* Every step keeps the loop's invariant, and mixed-up arguments mixed up.
LEMMA NextLoop ==
  ASSUME Loop, [Next]_vars
  PROVE  Loop' /\ (ArgsIntact' => ArgsIntact)
<1>1. LoopInv(PC, Past, Past) /\ LoopTypeOK(PC) /\ Bookkeeping
  BY DEF Loop, LoopInv
<1>2. ASSUME UNCHANGED loopVars PROVE Loop' /\ (ArgsIntact' => ArgsIntact)
  BY <1>1, <1>2, StutterKeeps DEF Loop
<1>3. CASE UNCHANGED vars
  BY <1>2, <1>3 DEF vars
<1>4. ASSUME NEW c \in Conn, Request(c) \/ Quit(c) \/ Receiver(c) \/ SendFull(c)
      PROVE  Loop' /\ (ArgsIntact' => ArgsIntact)
  BY <1>2, <1>4 DEF Request, Quit, Receiver, GetBlock, GetEnd, SendFull
<1>5. ASSUME Main PROVE Loop'
  BY <1>1, <1>5, PCLabels, AcceptKeeps, EnlistKeeps, CreateKeeps
    DEF Main, MainAccept, MainAppend, MainCreate, Loop
<1>6. ASSUME NEW t \in Conn, HandlerStart(t) PROVE Loop'
  BY <1>1, <1>6, PCLabels, TakeArgKeeps DEF HandlerStart, PC, Past, Loop
<1>7. ASSUME Main \/ \E t \in Conn : HandlerStart(t)
      PROVE  ArgsIntact' => ArgsIntact
  <2>1. \A c \in Conn : Started(c) => Started(c)' /\ own'[c] = own[c] /\ sock'[c] = sock[c]
    BY <1>1, <1>7 DEF Main, MainAccept, Accept, MainAppend, Enlist, MainCreate, Create,
         HandlerStart, TakeArg, LoopTypeOK, Bookkeeping, Started
  <2> QED
    BY <2>1 DEF ArgsIntact
\* A handler's step from one label of its loop to another.
<1>8. ASSUME NEW t \in Conn, NEW next \in PC \ {"none", "start", "removed"},
             pc[t] \in PC \ {"none", "start", "removed"}, Goto(t, next),
             UNCHANGED <<mainVars, regVars, mutx, fdtab, sock>>
      PROVE  Loop' /\ (ArgsIntact' => ArgsIntact)
  BY <1>1, <1>8, PCLabels, MoveKeeps DEF Past, Loop, LoopTypeOK
<1>9. ASSUME NEW t \in Conn, CallRequest(t) \/ CallAck(t) \/ SendLast(t) \/ SendNone(t) \/ GetAck(t)
      PROVE  Loop' /\ (ArgsIntact' => ArgsIntact)
  <2>1. UNCHANGED <<mainVars, regVars, mutx, fdtab, sock>>
    BY <1>9 DEF CallRequest, CallAck, ReadCall, SendLast, SendNone, GetAck
  <2>2. /\ pc[t] \in PC \ {"none", "start", "removed"}
        /\ \E next \in PC \ {"none", "start", "removed"} : Goto(t, next)
    BY <1>9 DEF CallRequest, CallAck, ReadCall, SendLast, SendNone, GetAck, PC
  <2> QED
    BY <1>8, <2>1, <2>2
<1>10. ASSUME NEW t \in Conn, GetRequest(t) PROVE Loop' /\ (ArgsIntact' => ArgsIntact)
  <2>1. UNCHANGED <<mainVars, regVars, mutx, fdtab, sock>> /\ pc[t] = "blocked"
    BY <1>10 DEF GetRequest
  <2>2. UNCHANGED pc \/ Goto(t, "send") \/ Goto(t, "left")
    BY <1>10 DEF GetRequest
  <2>3. {"blocked", "send", "left"} \subseteq PC \ {"none", "start", "removed"}
    BY DEF PC
  <2>4. CASE UNCHANGED pc
    BY <1>2, <2>1, <2>4 DEF loopVars, mainVars, regVars
  <2> QED
    BY <1>8, <2>1, <2>2, <2>3, <2>4
<1>11. ASSUME NEW t \in Conn, Remove(t) PROVE Loop' /\ (ArgsIntact' => ArgsIntact)
  <2>1. /\ pc[t] = "remove" /\ Goto(t, "removed") /\ RemoveSelf(t)
        /\ fdtab' = [fdtab EXCEPT ![sock[t]] = NoConn]
        /\ UNCHANGED <<mainVars, sock>> /\ mutx' \in Conn \cup {NoConn}
    BY <1>11, <1>1 DEF Remove, LoopTypeOK
  <2> QED
    BY <1>1, <2>1, PCLabels, LeaveKeeps DEF Past, Loop
<1> QED
  BY <1>3, <1>4, <1>5, <1>6, <1>7, <1>9, <1>10, <1>11 DEF Next, Handler
-----------------------------------------------------------------------------
\* What write() of a block changes.
LEMMA WriteEffect ==
  ASSUME Loop, NetTypeOK, NEW t \in Conn, pc[t] \notin {"none", "start"},
         NEW packet \in Blocks, Write(sock[t], packet)
  PROVE  /\ up' \in BOOLEAN /\ peer' \in [Conn -> PeerState]
         /\ stream' \in [Conn -> Seq(Blocks)]
         /\ \A c \in Conn :
              /\ peer'[c] = "open" => peer[c] = "open"
              /\ c # fdtab[sock[t]] => stream'[c] = stream[c]
              /\ c = fdtab[sock[t]] =>
                   IF peer[c] = "open" THEN stream'[c] = Append(stream[c], packet)
                                       ELSE stream'[c] = stream[c]
<1> DEFINE d == fdtab[sock[t]]
<1>1. sock[t] \in Fds /\ fdtab[sock[t]] \in Conn \cup {NoConn}
  BY DEF Loop, LoopInv, LoopTypeOK, Bookkeeping, Started
<1>2. CASE d = NoConn
  BY <1>1, <1>2, ConnAssumption DEF Write, NetTypeOK
<1>3. CASE d # NoConn
  <2>1. d \in Conn
    BY <1>1, <1>3
  <2>2. /\ up' = ~WriteKills(peer[d])
        /\ \E p \in AfterWrite(peer[d]) : peer' = [peer EXCEPT ![d] = p]
        /\ stream' = IF peer[d] = "open"
                       THEN [stream EXCEPT ![d] = Append(@, packet)] ELSE stream
    BY <1>3 DEF Write
  <2> HIDE DEF d
  <2>3. Append(stream[d], packet) \in Seq(Blocks)
    BY <2>1, AppendProperties DEF NetTypeOK
  <2>4. stream' \in [Conn -> Seq(Blocks)]
    BY <2>1, <2>2, <2>3 DEF NetTypeOK
  <2>5. up' \in BOOLEAN /\ peer' \in [Conn -> PeerState]
        /\ \A c \in Conn : peer'[c] = "open" => peer[c] = "open"
    BY <2>1, <2>2 DEF NetTypeOK, PeerState, AfterWrite, WriteKills
  <2>6. \A c \in Conn :
              /\ c # d => stream'[c] = stream[c]
              /\ c = d => IF peer[c] = "open" THEN stream'[c] = Append(stream[c], packet)
                                              ELSE stream'[c] = stream[c]
    BY <2>1, <2>2 DEF NetTypeOK
  <2> QED
    BY <2>4, <2>5, <2>6 DEF d
<1> QED
  BY <1>2, <1>3

\* What read() of a packet changes: nothing is acknowledged twice.
LEMMA ReadEffect ==
  ASSUME NetTypeOK, InboxInv, NEW t \in Conn, file[t] \in Conn \cup {NoConn},
         NEW packet \in Requests, Read(t, packet)
  PROVE  /\ peer' \in [Conn -> PeerState]
         /\ inbox' \in [Conn -> Seq(Requests)]
         /\ file' = [file EXCEPT ![t] = NoConn]
         /\ \A c \in Conn : /\ peer'[c] = "open" => peer[c] = "open"
                            /\ HasAck(c)' => HasAck(c)
                            /\ \A i \in 1 .. Len(inbox'[c]) - 1 :
                                 inbox'[c][i].command # "FILE_END_ACK"
         /\ packet.command = "FILE_END_ACK" =>
              \E c \in Conn : c = file[t] /\ HasAck(c) /\ ~HasAck(c)'
<1> DEFINE d == file[t]
<1>1. CASE /\ packet = Empty
           /\ peer' = [x \in Conn |-> IF x = d /\ peer[x] = "err" THEN "rst" ELSE peer[x]]
           /\ UNCHANGED inbox
           /\ file' = [file EXCEPT ![t] = NoConn]
  <2>1. \A c \in Conn : HasAck(c)' <=> HasAck(c)
    BY <1>1 DEF HasAck
  <2> QED
    BY <1>1, <2>1 DEF NetTypeOK, InboxInv, PeerState, Empty
<1>2. CASE /\ d # NoConn /\ inbox[d] # <<>>
           /\ packet = Head(inbox[d])
           /\ inbox' = [inbox EXCEPT ![d] = Tail(@)]
           /\ UNCHANGED peer
           /\ file' = [file EXCEPT ![t] = NoConn]
  <2>0. PICK x \in Conn : x = d
    BY <1>2
  <2> DEFINE q == inbox[x]
  <2>1. q \in Seq(Requests) /\ q # <<>>
    BY <1>2, <2>0 DEF NetTypeOK
  <2>2. inbox'[x] = Tail(q) /\ \A c \in Conn : c # x => inbox'[c] = inbox[c]
    BY <1>2, <2>0, <2>1 DEF NetTypeOK
  <2>3. /\ Head(q) = q[1] /\ Len(q) \in Nat /\ Len(q) >= 1
        /\ Tail(q) \in Seq(Requests) /\ Len(Tail(q)) = Len(q) - 1
        /\ Tail(q) = <<>> <=> Len(q) = 1
        /\ \A i \in 1 .. Len(q) - 1 : Tail(q)[i] = q[i + 1]
    BY <2>1, Behind
  <2>4. \A i \in 1 .. Len(q) - 1 : q[i].command # "FILE_END_ACK"
    BY <2>1 DEF InboxInv
  <2>5. inbox' \in [Conn -> Seq(Requests)]
    BY <1>2, <2>0, <2>1, <2>3 DEF NetTypeOK
  <2>6. HasAck(x)' => HasAck(x)
    <3>1. ASSUME Tail(q) # <<>>, Tail(q)[Len(Tail(q))].command = "FILE_END_ACK"
          PROVE  q[Len(q)].command = "FILE_END_ACK"
      <4>1. Len(q) - 1 \in 1 .. Len(q) - 1 /\ (Len(q) - 1) + 1 = Len(q)
        BY <2>3, <3>1
      <4>2. Tail(q)[Len(Tail(q))] = q[Len(q)]
        BY <2>3, <4>1
      <4> QED
        BY <3>1, <4>2
    <3> QED
      BY <2>1, <2>2, <3>1 DEF HasAck
  <2>7. \A c \in Conn : c # x => (HasAck(c)' <=> HasAck(c))
    BY <2>2 DEF HasAck
  <2>8. ASSUME NEW i \in 1 .. Len(Tail(q)) - 1 PROVE Tail(q)[i].command # "FILE_END_ACK"
    <3>1. i \in 1 .. Len(q) - 1 /\ i + 1 \in 1 .. Len(q) - 1
      BY <2>3
    <3> QED
      BY <2>3, <2>4, <3>1
  <2>9. packet.command = "FILE_END_ACK" => HasAck(x) /\ ~HasAck(x)'
    <3>1. ASSUME q[1].command = "FILE_END_ACK" PROVE Len(q) = 1
      BY <2>3, <2>4, <3>1
    <3> QED
      BY <1>2, <2>0, <2>1, <2>2, <2>3, <3>1 DEF HasAck
  <2>10. \A c \in Conn : c # x => \A i \in 1 .. Len(inbox'[c]) - 1 :
                                 inbox'[c][i].command # "FILE_END_ACK"
    BY <2>2 DEF InboxInv
  <2>11. peer' \in [Conn -> PeerState]
    BY <1>2 DEF NetTypeOK
  <2> QED
    BY <1>2, <2>0, <2>1, <2>2, <2>3, <2>5, <2>6, <2>7, <2>8, <2>9, <2>10, <2>11
<1> QED
  BY <1>1, <1>2 DEF Read
-----------------------------------------------------------------------------
\* What the loop's invariant does not cover.
Rest ==
  /\ NetTypeOK
  /\ OwnTypeOK
  /\ InboxInv
  /\ AckInv
  /\ ArgsIntact => StreamInv

\* A step that acknowledges nothing, after which no handler is waiting or
\* leaving that was not before, except on a descriptor that was free.
LEMMA AckKept ==
  ASSUME AckInv,
         \A c \in Conn : /\ HasAck(c)' => HasAck(c)
                         /\ rc[c] = "over" => rc'[c] = "over",
         \A t \in Conn :
           /\ pc'[t] = "remove" => pc[t] = "remove"
           /\ pc'[t] = "waiting" /\ file'[t] # NoConn =>
                pc[t] = "waiting" /\ file'[t] = file[t] /\ file[t] \in Conn
           /\ pc'[t] \in {"waiting", "remove"} =>
                \/ fdtab'[sock'[t]] = fdtab[sock[t]]
                \/ fdtab[sock[t]] = NoConn
  PROVE  AckInv'
<1>1. ASSUME NEW t \in Conn, pc'[t] = "waiting", file'[t] # NoConn
      PROVE  \/ fdtab'[sock'[t]] = file'[t]
             \/ rc'[file'[t]] = "over" /\ ~HasAck(file[t])'
  <2>1. PICK x \in Conn : x = file[t] /\ file'[t] = x
    BY <1>1
  <2>2. fdtab[sock[t]] = x \/ (rc[x] = "over" /\ ~HasAck(x))
    BY <1>1, <2>1 DEF AckInv
  <2>3. fdtab'[sock'[t]] = x \/ (rc'[x] = "over" /\ ~HasAck(x)')
    BY <1>1, <2>1, <2>2, ConnAssumption
  <2>4. HasAck(x)' <=> HasAck(file[t])'
    BY <2>1 DEF HasAck
  <2> QED
    BY <2>1, <2>3, <2>4
<1>2. ASSUME NEW t \in Conn, pc'[t] = "remove"
      PROVE  /\ fdtab'[sock'[t]] = fdtab[sock[t]]
             /\ \E x \in Conn : /\ x = fdtab[sock[t]]
                                /\ rc'[x] = "over" /\ ~HasAck(x)'
  BY <1>2, ConnAssumption DEF AckInv
<1>3. ASSUME NEW t \in Conn, pc'[t] = "remove"
      PROVE  /\ fdtab'[sock'[t]] \in Conn
             /\ rc'[fdtab'[sock'[t]]] = "over" /\ ~HasAck(fdtab[sock[t]])'
             /\ \A u \in Conn : pc'[u] = "remove" /\ fdtab'[sock'[u]] = fdtab'[sock'[t]] => u = t
  <2>1. PICK x \in Conn : x = fdtab[sock[t]] /\ rc'[x] = "over" /\ ~HasAck(x)'
                          /\ fdtab'[sock'[t]] = x
    BY <1>2, <1>3
  <2>2. HasAck(x)' <=> HasAck(fdtab[sock[t]])'
    BY <2>1 DEF HasAck
  <2>3. \A u \in Conn : pc'[u] = "remove" /\ fdtab'[sock'[u]] = x => u = t
    BY <1>2, <1>3, <2>1 DEF AckInv
  <2> QED
    BY <2>1, <2>2, <2>3
<1> QED
  BY <1>1, <1>3 DEF AckInv

\* A step that sends and takes no block.
LEMMA StreamKept ==
  ASSUME StreamInv, UNCHANGED <<stream, pos, got, rc, off, whole>>,
         \A c \in Conn : peer'[c] = "open" => peer[c] = "open"
  PROVE  StreamInv'
BY DEF StreamInv

\* main's steps and a handler's first.
LEMMA LoopStep ==
  ASSUME Rest, Loop, Main \/ UNCHANGED vars \/ \E t \in Conn : HandlerStart(t)
  PROVE  NetTypeOK' /\ OwnTypeOK' /\ InboxInv' /\ AckInv' /\ (ArgsIntact => StreamInv')
<1> USE DEF Rest
<1>1. LoopTypeOK(PC) /\ Bookkeeping
  BY DEF Loop, LoopInv
<1>2. UNCHANGED <<up, peer, inbox, stream, file, num, pos, rc, wanted, got, off, whole>>
  BY DEF Main, MainAccept, MainAppend, MainCreate, vars, HandlerStart, netVars,
         hdlVars, clntVars, cutVars
<1>3. NetTypeOK' /\ OwnTypeOK' /\ (\A c \in Conn : HasAck(c)' <=> HasAck(c))
  BY <1>2 DEF NetTypeOK, OwnTypeOK, HasAck
<1>4. InboxInv'
  BY <1>2, <1>3 DEF InboxInv
<1>5. \A t \in Conn :
        pc'[t] \in {"waiting", "remove"} =>
          /\ pc'[t] = pc[t]
          /\ \/ fdtab'[sock'[t]] = fdtab[sock[t]]
             \/ fdtab[sock[t]] = NoConn
  <2>1. ASSUME NEW c \in Conn, MainAccept(c)
        PROVE  /\ UNCHANGED <<pc, sock>>
               /\ \E f \in Fds : fdtab[f] = NoConn /\ fdtab' = [fdtab EXCEPT ![f] = c]
    BY <2>1 DEF MainAccept, Accept
  <2>2. MainAppend \/ UNCHANGED vars => UNCHANGED <<pc, sock, fdtab>>
    BY DEF MainAppend, Enlist, vars, loopVars
  <2>3. MainCreate => UNCHANGED <<sock, fdtab>> /\ pc' = [pc EXCEPT ![cur] = "start"]
    BY DEF MainCreate, Create
  <2>4. ASSUME NEW t \in Conn, HandlerStart(t)
        PROVE  /\ UNCHANGED fdtab /\ pc' = [pc EXCEPT ![t] = "request"]
               /\ \A u \in Conn : u # t => sock'[u] = sock[u]
    BY <1>1, <2>4 DEF HandlerStart, TakeArg, LoopTypeOK
  <2>5. \A t \in Conn : pc[t] \in {"waiting", "remove"} => sock[t] \in Fds
    BY <1>1 DEF LoopTypeOK, Bookkeeping, Started
  <2> QED
    BY <1>1, <2>1, <2>2, <2>3, <2>4, <2>5 DEF Main, LoopTypeOK
<1>6. \A t \in Conn : file[t] \in Conn \cup {NoConn}
  BY DEF OwnTypeOK
<1>7. AckInv'
  BY <1>2, <1>3, <1>5, <1>6, AckKept
<1>8. StreamInv => StreamInv'
  BY <1>2, StreamKept
<1> QED
  BY <1>3, <1>4, <1>7, <1>8

\* A client's steps.
LEMMA RequestStep ==
  ASSUME Rest, NEW c \in Conn, Request(c) \/ Quit(c)
  PROVE  NetTypeOK' /\ OwnTypeOK' /\ InboxInv' /\ AckInv' /\ (ArgsIntact => StreamInv')
<1> USE DEF Rest
<1>1. UNCHANGED <<loopVars, up, stream, file, num, pos, got, off, whole>>
      /\ UNCHANGED <<pc, sock, fdtab>>
  BY DEF Request, Quit, hdlVars, clntVars, cutVars, loopVars
<1>2. /\ inbox' \in [Conn -> Seq(Requests)] /\ peer' \in [Conn -> PeerState]
      /\ rc' \in [Conn -> {"menu", "reading", "over"}] /\ wanted' \in [Conn -> Types]
      /\ \A d \in Conn : /\ HasAck(d)' => HasAck(d)
                         /\ peer'[d] = "open" => peer[d] = "open"
                         /\ rc'[d] = "over" <=> rc[d] = "over"
                         /\ \A i \in 1 .. Len(inbox'[d]) - 1 :
                              inbox'[d][i].command # "FILE_END_ACK"
  <2>1. CASE Quit(c)
    <3>1. /\ UNCHANGED <<inbox, rc, wanted>>
          /\ \E p \in {"fin", "err"} : peer' = [peer EXCEPT ![c] = p]
      BY <2>1 DEF Quit, clntVars, cutVars, AfterClose
    <3>2. \A d \in Conn : HasAck(d)' <=> HasAck(d)
      BY <3>1 DEF HasAck
    <3> QED
      BY <3>1, <3>2 DEF NetTypeOK, OwnTypeOK, PeerState, InboxInv
  <2>2. CASE Request(c)
    <3>1. PICK type \in Types :
            /\ inbox' = [inbox EXCEPT ![c] = Append(@, [command |-> "FILE_REQ", type |-> type])]
            /\ wanted' = [wanted EXCEPT ![c] = type]
      BY <2>2, FileAssumption DEF Request, Types
    <3>2. rc[c] = "menu" /\ rc' = [rc EXCEPT ![c] = "reading"] /\ peer' = peer
      BY <2>2 DEF Request
    <3> DEFINE x == [command |-> "FILE_REQ", type |-> type]
    <3>3. x \in Requests /\ x.command = "FILE_REQ"
      BY DEF Requests
    <3> HIDE DEF x
    <3>4. inbox[c] \in Seq(Requests) /\ Len(inbox[c]) \in Nat
      BY LenProperties DEF NetTypeOK
    <3>5. inbox'[c] = Append(inbox[c], x) /\ \A d \in Conn : d # c => inbox'[d] = inbox[d]
      BY <3>1 DEF NetTypeOK, x
    <3>6. /\ inbox'[c] \in Seq(Requests) /\ Len(inbox'[c]) = Len(inbox[c]) + 1
          /\ inbox'[c][Len(inbox[c]) + 1] = x
          /\ \A i \in 1 .. Len(inbox[c]) : inbox'[c][i] = inbox[c][i]
      BY <3>3, <3>4, <3>5, AppendProperties
    <3>7. ~HasAck(c)'
      BY <3>3, <3>6 DEF HasAck
    <3>8. \A d \in Conn : d # c => (HasAck(d)' <=> HasAck(d))
      BY <3>5 DEF HasAck
    <3>9. \A i \in 1 .. Len(inbox[c]) : inbox[c][i].command # "FILE_END_ACK"
      <4>1. ~HasAck(c)
        BY <3>2 DEF InboxInv
      <4>2. \A i \in 1 .. Len(inbox[c]) : i = Len(inbox[c]) \/ i \in 1 .. Len(inbox[c]) - 1
        BY <3>4
      <4>3. \A i \in 1 .. Len(inbox[c]) : inbox[c] # <<>>
        BY <3>4, EmptySeq
      <4> QED
        BY <4>1, <4>2, <4>3 DEF HasAck, InboxInv
    <3>10. \A i \in 1 .. Len(inbox'[c]) - 1 : inbox'[c][i].command # "FILE_END_ACK"
      BY <3>4, <3>6, <3>9
    <3>11. inbox' \in [Conn -> Seq(Requests)]
      BY <3>1, <3>5, <3>6 DEF NetTypeOK, x
    <3>12. /\ rc' \in [Conn -> {"menu", "reading", "over"}] /\ wanted' \in [Conn -> Types]
           /\ \A d \in Conn : rc'[d] = "over" <=> rc[d] = "over"
      BY <3>1, <3>2 DEF OwnTypeOK
    <3>13. \A d \in Conn : d # c => \A i \in 1 .. Len(inbox'[d]) - 1 :
                              inbox'[d][i].command # "FILE_END_ACK"
      BY <3>5 DEF InboxInv
    <3> QED
      BY <3>2, <3>7, <3>8, <3>10, <3>11, <3>12, <3>13 DEF NetTypeOK
  <2> QED
    BY <2>1, <2>2
<1>3. NetTypeOK' /\ OwnTypeOK' /\ InboxInv'
  BY <1>1, <1>2 DEF NetTypeOK, OwnTypeOK, InboxInv
<1>4. AckInv'
  <2>1. \A t \in Conn : file[t] \in Conn \cup {NoConn}
    BY DEF OwnTypeOK
  <2> QED
    BY <1>1, <1>2, <2>1, AckKept
<1>5. StreamInv => StreamInv'
  BY <1>1, <1>2 DEF StreamInv
<1> QED
  BY <1>3, <1>4, <1>5
\* A stretch of the film without its first block, and with another one.
LEMMA FilmTail ==
  ASSUME NEW q \in Seq(Blocks), q # <<>>, Film(q)
  PROVE  /\ Head(q) \in Blocks /\ Tail(q) \in Seq(Blocks) /\ Film(Tail(q))
         /\ Head(q).at + Head(q).len <= FILE
         /\ Head(q).command = "FILE_END" => Head(q).at + Head(q).len = FILE
         /\ IF Tail(q) = <<>> THEN Ends(q) = Head(q).at + Head(q).len
            ELSE /\ Ends(Tail(q)) = Ends(q)
                 /\ Head(Tail(q)).at = Head(q).at + Head(q).len
<1>1. /\ Head(q) = q[1] /\ Head(q) \in Blocks /\ Len(q) \in Nat /\ Len(q) >= 1
      /\ Tail(q) \in Seq(Blocks) /\ Len(Tail(q)) = Len(q) - 1
      /\ Tail(q) = <<>> <=> Len(q) = 1
      /\ \A i \in 1 .. Len(q) - 1 : Tail(q)[i] = q[i + 1]
  BY Behind
<1>2. 1 \in 1 .. Len(q)
  BY <1>1
<1>3. ASSUME NEW i \in 1 .. Len(q) - 1
      PROVE  /\ i # 1 => Tail(q)[i].at = Tail(q)[i - 1].at + Tail(q)[i - 1].len
             /\ Tail(q)[i].at + Tail(q)[i].len <= FILE
             /\ Tail(q)[i].command = "FILE_END" => Tail(q)[i].at + Tail(q)[i].len = FILE
  <2>1. i + 1 \in 1 .. Len(q) /\ Tail(q)[i] = q[i + 1] /\ (i + 1) - 1 = i /\ i + 1 # 1
    BY <1>1
  <2>2. i # 1 => i - 1 \in 1 .. Len(q) - 1 /\ Tail(q)[i - 1] = q[i]
    <3>1. i # 1 => i - 1 \in 1 .. Len(q) - 1 /\ (i - 1) + 1 = i
      BY <1>1
    <3> QED
      BY <1>1, <3>1
  <2> QED
    BY <2>1, <2>2 DEF Film
<1>4. Film(Tail(q))
  BY <1>1, <1>3 DEF Film
<1>5. CASE Len(q) = 1
  BY <1>1, <1>2, <1>4, <1>5 DEF Film, Ends
<1>6. CASE Len(q) # 1
  <2>1. Len(q) - 1 \in 1 .. Len(q) - 1 /\ (Len(q) - 1) + 1 = Len(q)
    BY <1>1, <1>6
  <2>2. Ends(Tail(q)) = Ends(q)
    BY <1>1, <2>1 DEF Ends
  <2>3. Head(Tail(q)) = q[2]
    <3>1. Tail(q) # <<>> /\ 1 \in 1 .. Len(q) - 1
      BY <1>1, <1>6
    <3>2. Head(Tail(q)) = Tail(q)[1]
      BY <1>1, <3>1, Behind
    <3> QED
      BY <1>1, <3>1, <3>2
  <2>4. 2 \in 1 .. Len(q) /\ q[2].at = q[1].at + q[1].len
    BY <1>1, <1>6 DEF Film
  <2> QED
    BY <1>1, <1>2, <1>4, <1>6, <2>2, <2>3, <2>4 DEF Film
<1> QED
  BY <1>5, <1>6

LEMMA FilmAppend ==
  ASSUME NEW q \in Seq(Blocks), NEW b \in Blocks, Film(q),
         q # <<>> => b.at = Ends(q),
         b.at + b.len <= FILE,
         b.command = "FILE_END" => b.at + b.len = FILE
  PROVE  /\ Film(Append(q, b)) /\ Append(q, b) # <<>>
         /\ Ends(Append(q, b)) = b.at + b.len
         /\ Head(Append(q, b)) = IF q = <<>> THEN b ELSE Head(q)
<1> DEFINE r == Append(q, b)
<1>1. /\ Len(q) \in Nat /\ r \in Seq(Blocks) /\ Len(r) = Len(q) + 1
      /\ r[Len(q) + 1] = b /\ \A i \in 1 .. Len(q) : r[i] = q[i]
      /\ q = <<>> <=> Len(q) = 0
  BY LenProperties, AppendProperties, EmptySeq
<1>2. r # <<>>
  BY <1>1, EmptySeq
<1> HIDE DEF r
<1>3. Head(r) = r[1] /\ (q # <<>> => Head(q) = q[1])
  BY <1>1, <1>2, Behind
<1>4. ASSUME NEW i \in 1 .. Len(r)
      PROVE  /\ i # 1 => r[i].at = r[i - 1].at + r[i - 1].len
             /\ r[i].at + r[i].len <= FILE
             /\ r[i].command = "FILE_END" => r[i].at + r[i].len = FILE
  <2>1. CASE i = Len(q) + 1
    <3>1. r[i] = b /\ (i # 1 => i - 1 = Len(q) /\ q # <<>> /\ r[i - 1] = q[Len(q)])
      BY <1>1, <2>1
    <3> QED
      BY <3>1 DEF Ends
  <2>2. CASE i # Len(q) + 1
    <3>1. i \in 1 .. Len(q) /\ (i # 1 => i - 1 \in 1 .. Len(q))
      BY <1>1, <2>2
    <3> QED
      BY <1>1, <3>1 DEF Film
  <2> QED
    BY <2>1, <2>2
<1>5. Film(r) /\ Ends(r) = b.at + b.len
  BY <1>1, <1>4 DEF Film, Ends
<1>6. Head(r) = IF q = <<>> THEN b ELSE Head(q)
  <2>1. q # <<>> => 1 \in 1 .. Len(q)
    BY <1>1
  <2> QED
    BY <1>1, <1>3, <2>1
<1> QED
  BY <1>2, <1>5, <1>6 DEF r

\* A client takes the next packet, or reads other bytes of its stream.
LEMMA TakeBlock ==
  ASSUME NetTypeOK, OwnTypeOK, NEW c \in Conn, stream[c] # <<>>, StreamInv,
         rc[c] # "over", peer[c] = "open",
         stream' = stream \/ stream' = [stream EXCEPT ![c] = Tail(@)],
         \A d \in Conn : d # c =>
           UNCHANGED <<got[d], off[d], whole[d], rc[d]>>,
         whole'[c] => /\ whole[c] /\ off'[c] = 0
                      /\ stream' = [stream EXCEPT ![c] = Tail(@)]
                      /\ got'[c] = got[c] + Head(stream[c]).len,
         pos' = pos,
         \A d \in Conn : peer'[d] = "open" => peer[d] = "open",
         rc'[c] = "over" => /\ peer'[c] # "open"
                            /\ whole'[c] => Head(stream[c]).command = "FILE_END"
  PROVE  StreamInv'
<1>1. stream[c] \in Seq(Blocks) /\ got[c] \in Int /\ FILE \in Nat
  BY FileAssumption DEF NetTypeOK, OwnTypeOK
<1>2. /\ Film(stream[c]) /\ Ends(stream[c]) = pos[c]
      /\ whole[c] => Head(stream[c]).at = got[c]
  BY DEF StreamInv
<1> DEFINE q == stream[c]
           h == Head(stream[c])
<1>3. /\ h \in Blocks /\ Tail(q) \in Seq(Blocks) /\ Film(Tail(q))
      /\ h.at + h.len <= FILE
      /\ h.command = "FILE_END" => h.at + h.len = FILE
      /\ IF Tail(q) = <<>> THEN Ends(q) = h.at + h.len
         ELSE Ends(Tail(q)) = Ends(q) /\ Head(Tail(q)).at = h.at + h.len
  BY <1>1, <1>2, FilmTail
<1> HIDE DEF h
<1>4. stream'[c] \in {q, Tail(q)} /\ \A d \in Conn : d # c => stream'[d] = stream[d]
  BY DEF NetTypeOK
<1>5. /\ Film(stream'[c])
      /\ stream'[c] # <<>> => Ends(stream'[c]) = pos[c]
  BY <1>2, <1>3, <1>4
<1>6. whole'[c] => stream'[c] = Tail(q) /\ got'[c] = h.at + h.len /\ off'[c] = 0
  BY <1>2, <1>4 DEF NetTypeOK, h
<1> DEFINE Parts(d) ==
      /\ Film(stream'[d])
      /\ rc'[d] = "over" => peer'[d] # "open"
      /\ peer'[d] = "open" /\ stream'[d] # <<>> => Ends(stream'[d]) = pos'[d]
      /\ whole'[d] =>
           /\ off'[d] = 0 /\ got'[d] <= FILE
           /\ rc'[d] = "over" => got'[d] = FILE
           /\ stream'[d] # <<>> => Head(stream'[d]).at = got'[d]
           /\ stream'[d] = <<>> /\ peer'[d] = "open" => got'[d] = pos'[d]
<1>7. Parts(c)
  <2>1. rc'[c] = "over" => peer'[c] # "open" /\ (whole'[c] => h.command = "FILE_END")
    BY DEF h
  <2> QED
    BY <1>2, <1>3, <1>5, <1>6, <2>1
<1>8. ASSUME NEW d \in Conn, d # c PROVE Parts(d)
  <2>1. /\ UNCHANGED <<got[d], off[d], whole[d], rc[d], stream[d], pos[d]>>
        /\ peer'[d] = "open" => peer[d] = "open"
    BY <1>4, <1>8
  <2> QED
    BY <2>1 DEF StreamInv
<1>9. \A d \in Conn : Parts(d)
  BY <1>7, <1>8
<1>10. (\A d \in Conn : Parts(d)) => StreamInv'
  BY Zenon DEF StreamInv, Film, Ends
<1> HIDE DEF Parts
<1> QED
  BY <1>9, <1>10

\* What a read() of a client changes: it takes the packet at the head of the
\* stream, or it is cut, or it is out of step.
LEMMA ReadPacketEffect ==
  ASSUME NetTypeOK, OwnTypeOK, NEW c \in Conn, NEW isEnd \in BOOLEAN,
         ReadPacket(c, isEnd)
  PROVE  /\ rc[c] = "reading" /\ peer[c] = "open" /\ stream[c] # <<>>
         /\ got' \in [Conn -> Int] /\ off' \in [Conn -> 0 .. PACKET - 1]
         /\ whole' \in [Conn -> BOOLEAN] /\ stream' \in [Conn -> Seq(Blocks)]
         /\ stream' = stream \/ stream' = [stream EXCEPT ![c] = Tail(@)]
         /\ \A d \in Conn : d # c => UNCHANGED <<got[d], off[d], whole[d]>>
         /\ whole'[c] /\ off[c] = 0 =>
              /\ whole[c] /\ off'[c] = 0
              /\ stream' = [stream EXCEPT ![c] = Tail(@)]
              /\ got'[c] = got[c] + Head(stream[c]).len
              /\ (Head(stream[c]).command = "FILE_END") = isEnd
<1>1. /\ rc[c] = "reading" /\ peer[c] = "open" /\ stream[c] # <<>>
  BY DEF ReadPacket
<1> DEFINE Reads(n, packet) ==
        /\ (packet.command = "FILE_END") = isEnd
        /\ got' = [got EXCEPT ![c] = @ + packet.len]
        /\ whole' = [whole EXCEPT ![c] = @ /\ n = PACKET]
        /\ IF off[c] + n < PACKET
             THEN /\ off' = [off EXCEPT ![c] = @ + n]
                  /\ UNCHANGED stream
             ELSE /\ off' = [off EXCEPT ![c] = @ + n - PACKET]
                  /\ stream' = [stream EXCEPT ![c] = Tail(@)]
<1>0. PICK n \in 1 .. PACKET : \E packet \in Parsed(c, n) : Reads(n, packet)
  BY DEF ReadPacket
<1>2. PICK packet \in Parsed(c, n) : Reads(n, packet)
  BY <1>0
<1>3. /\ PACKET \in Nat \ {0} /\ Garbage \subseteq Int /\ off[c] \in 0 .. PACKET - 1
      /\ stream[c] \in Seq(Blocks) /\ got[c] \in Int /\ whole[c] \in BOOLEAN
  BY FileAssumption DEF OwnTypeOK, NetTypeOK
<1>4. Head(stream[c]) \in Blocks /\ Tail(stream[c]) \in Seq(Blocks)
  BY <1>1, <1>3, Behind
<1>5. packet.len \in Int
  <2>1. Head(stream[c]).len \in Int
    BY <1>4, FileAssumption DEF Blocks
  <2>2. Head(stream[c]).len % 256 \in Int
    BY <2>1
  <2> QED
    <3>1. packet \in Parsed(c, n)
      OBVIOUS
    <3>2. CASE off[c] # 0
      BY <1>3, <3>1, <3>2 DEF Parsed
    <3>3. CASE off[c] = 0
      <4>1. packet.len \in {0, Head(stream[c]).len % 256, Head(stream[c]).len}
        BY <3>1, <3>3 DEF Parsed
      <4> QED
        BY <2>1, <2>2, <4>1
    <3> QED
      BY <3>2, <3>3
<1>6. got' \in [Conn -> Int] /\ whole' \in [Conn -> BOOLEAN]
      /\ \A d \in Conn : d # c => UNCHANGED <<got[d], off[d], whole[d]>>
  BY <1>2, <1>5 DEF OwnTypeOK
<1>7. off' \in [Conn -> 0 .. PACKET - 1] /\ stream' \in [Conn -> Seq(Blocks)]
      /\ (stream' = stream \/ stream' = [stream EXCEPT ![c] = Tail(@)])
  <2>1. CASE off[c] + n < PACKET
    <3>1. off' = [off EXCEPT ![c] = off[c] + n] /\ stream' = stream
      BY <1>2, <2>1
    <3>2. off[c] + n \in 0 .. PACKET - 1
      BY <1>3, <2>1
    <3> QED
      BY <3>1, <3>2 DEF OwnTypeOK, NetTypeOK
  <2>2. CASE ~(off[c] + n < PACKET)
    <3>1. /\ off' = [off EXCEPT ![c] = off[c] + n - PACKET]
          /\ stream' = [stream EXCEPT ![c] = Tail(@)]
      BY <1>2, <2>2
    <3>2. off[c] + n - PACKET \in 0 .. PACKET - 1
      BY <1>3, <2>2
    <3> QED
      BY <1>4, <3>1, <3>2 DEF OwnTypeOK, NetTypeOK
  <2> QED
    BY <2>1, <2>2
<1>8. ASSUME whole'[c], off[c] = 0
      PROVE  /\ whole[c] /\ off'[c] = 0
             /\ stream' = [stream EXCEPT ![c] = Tail(@)]
             /\ got'[c] = got[c] + Head(stream[c]).len
             /\ (Head(stream[c]).command = "FILE_END") = isEnd
  <2>1. n = PACKET /\ whole[c]
    BY <1>2, <1>8 DEF OwnTypeOK
  <2>2. packet.command = Head(stream[c]).command /\ packet.len = Head(stream[c]).len
    BY <1>2, <1>8, <2>1 DEF Parsed
  <2> QED
    BY <1>2, <1>3, <1>8, <2>1, <2>2 DEF OwnTypeOK
<1> QED
  BY <1>1, <1>6, <1>7, <1>8

\* A client reads a block, the last one or another.
LEMMA ReceiveStep ==
  ASSUME Rest, NEW c \in Conn, Receiver(c)
  PROVE  NetTypeOK' /\ OwnTypeOK' /\ InboxInv' /\ AckInv' /\ (ArgsIntact => StreamInv')
<1> USE DEF Rest
<1>1. /\ UNCHANGED <<up, file, num, pos, wanted>> /\ UNCHANGED <<pc, sock, fdtab>>
  BY DEF Receiver, GetBlock, GetEnd, hdlVars, loopVars
<1>2. PICK isEnd \in BOOLEAN : ReadPacket(c, isEnd) /\ (GetEnd(c) => isEnd)
  BY DEF Receiver, GetBlock, GetEnd
<1>3. /\ rc[c] = "reading" /\ peer[c] = "open" /\ stream[c] # <<>>
      /\ got' \in [Conn -> Int] /\ off' \in [Conn -> 0 .. PACKET - 1]
      /\ whole' \in [Conn -> BOOLEAN] /\ stream' \in [Conn -> Seq(Blocks)]
      /\ stream' = stream \/ stream' = [stream EXCEPT ![c] = Tail(@)]
      /\ \A d \in Conn : d # c => UNCHANGED <<got[d], off[d], whole[d]>>
      /\ whole'[c] /\ off[c] = 0 =>
           /\ whole[c] /\ off'[c] = 0
           /\ stream' = [stream EXCEPT ![c] = Tail(@)]
           /\ got'[c] = got[c] + Head(stream[c]).len
           /\ (Head(stream[c]).command = "FILE_END") = isEnd
  BY <1>2, ReadPacketEffect
<1>4. /\ inbox' \in [Conn -> Seq(Requests)] /\ peer' \in [Conn -> PeerState]
      /\ rc' \in [Conn -> {"menu", "reading", "over"}]
      /\ \A d \in Conn :
           /\ peer'[d] = "open" => peer[d] = "open"
           /\ HasAck(d)' => HasAck(d) \/ (d = c /\ rc'[c] = "over")
           /\ rc[d] = "over" => rc'[d] = "over"
           /\ d # c => rc'[d] = rc[d]
           /\ \A i \in 1 .. Len(inbox'[d]) - 1 : inbox'[d][i].command # "FILE_END_ACK"
      /\ rc'[c] = "over" => isEnd /\ peer'[c] # "open"
  <2>1. CASE GetBlock(c)
    <3>1. UNCHANGED <<peer, inbox, rc>>
      BY <2>1 DEF GetBlock
    <3>2. \A d \in Conn : HasAck(d)' <=> HasAck(d)
      BY <3>1 DEF HasAck
    <3>3. /\ inbox' \in [Conn -> Seq(Requests)] /\ peer' \in [Conn -> PeerState]
          /\ rc' \in [Conn -> {"menu", "reading", "over"}]
      BY <3>1 DEF NetTypeOK, OwnTypeOK
    <3>4. \A d \in Conn : \A i \in 1 .. Len(inbox'[d]) - 1 :
                            inbox'[d][i].command # "FILE_END_ACK"
      BY <3>1 DEF InboxInv
    <3> QED
      BY <1>3, <3>1, <3>2, <3>3, <3>4
  <2>2. CASE GetEnd(c)
    <3> DEFINE x == [command |-> "FILE_END_ACK", type |-> 0]
    <3>1. /\ isEnd
          /\ inbox' = [inbox EXCEPT ![c] = Append(@, x)]
          /\ \E p \in {"fin", "err"} : peer' = [peer EXCEPT ![c] = p]
          /\ rc' = [rc EXCEPT ![c] = "over"]
      BY <1>2, <2>2 DEF GetEnd, AfterClose
    <3>2. x \in Requests
      BY DEF Requests, Types
    <3> HIDE DEF x
    <3>3. inbox[c] \in Seq(Requests) /\ Len(inbox[c]) \in Nat
      BY LenProperties DEF NetTypeOK
    <3>4. inbox'[c] = Append(inbox[c], x) /\ \A d \in Conn : d # c => inbox'[d] = inbox[d]
      BY <3>1 DEF NetTypeOK
    <3>5. /\ inbox'[c] \in Seq(Requests) /\ Len(inbox'[c]) = Len(inbox[c]) + 1
          /\ \A i \in 1 .. Len(inbox[c]) : inbox'[c][i] = inbox[c][i]
      BY <3>2, <3>3, <3>4, AppendProperties
    <3>6. \A i \in 1 .. Len(inbox[c]) : inbox[c][i].command # "FILE_END_ACK"
      <4>1. ~HasAck(c)
        BY <1>3 DEF InboxInv
      <4>2. \A i \in 1 .. Len(inbox[c]) : i = Len(inbox[c]) \/ i \in 1 .. Len(inbox[c]) - 1
        BY <3>3
      <4>3. \A i \in 1 .. Len(inbox[c]) : inbox[c] # <<>>
        BY <3>3, EmptySeq
      <4> QED
        BY <4>1, <4>2, <4>3 DEF HasAck, InboxInv
    <3>7. \A i \in 1 .. Len(inbox'[c]) - 1 : inbox'[c][i].command # "FILE_END_ACK"
      BY <3>3, <3>5, <3>6
    <3>8. \A d \in Conn : d # c => /\ HasAck(d)' <=> HasAck(d)
                                   /\ \A i \in 1 .. Len(inbox'[d]) - 1 :
                                        inbox'[d][i].command # "FILE_END_ACK"
      BY <3>4 DEF HasAck, InboxInv
    <3>9. /\ rc'[c] = "over" /\ \A d \in Conn : d # c => rc'[d] = rc[d]
          /\ peer'[c] # "open" /\ \A d \in Conn : d # c => peer'[d] = peer[d]
          /\ peer' \in [Conn -> PeerState]
          /\ rc' \in [Conn -> {"menu", "reading", "over"}]
      BY <3>1 DEF NetTypeOK, OwnTypeOK, PeerState
    <3>10. inbox' \in [Conn -> Seq(Requests)]
      BY <3>1, <3>4, <3>5 DEF NetTypeOK
    <3> QED
      BY <3>1, <3>7, <3>8, <3>9, <3>10
  <2> QED
    BY <2>1, <2>2 DEF Receiver
<1>5. NetTypeOK' /\ OwnTypeOK'
  BY <1>1, <1>3, <1>4 DEF NetTypeOK, OwnTypeOK
<1>6. InboxInv'
  BY <1>4 DEF InboxInv
<1>7. AckInv'
  <2>1. \A t \in Conn : file[t] \in Conn \cup {NoConn}
    BY DEF OwnTypeOK
  <2>2. ASSUME NEW t \in Conn, pc[t] = "waiting", file[t] # NoConn,
               fdtab[sock[t]] # file[t]
        PROVE  rc[file[t]] = "over" /\ ~HasAck(file[t])' /\ rc'[file[t]] = "over"
    <3>1. PICK x \in Conn : x = file[t]
      BY <2>1, <2>2
    <3>2. rc[x] = "over" /\ ~HasAck(x)
      BY <2>2, <3>1 DEF AckInv
    <3>3. x # c /\ rc'[x] = "over" /\ ~HasAck(x)'
      BY <1>1, <1>3, <1>4, <3>2
    <3>4. HasAck(x)' <=> HasAck(file[t])'
      BY <1>1, <3>1 DEF HasAck
    <3> QED
      BY <3>1, <3>2, <3>3, <3>4
  <2>3. ASSUME NEW t \in Conn, pc[t] = "remove"
        PROVE  rc'[fdtab[sock[t]]] = "over" /\ ~HasAck(fdtab[sock[t]])'
    <3>1. PICK x \in Conn : x = fdtab[sock[t]]
      BY <2>3 DEF AckInv
    <3>2. rc[x] = "over" /\ ~HasAck(x)
      BY <2>3, <3>1 DEF AckInv
    <3>3. x # c /\ rc'[x] = "over" /\ ~HasAck(x)'
      BY <1>1, <1>3, <1>4, <3>2
    <3>4. HasAck(x)' <=> HasAck(fdtab[sock[t]])'
      BY <1>1, <3>1 DEF HasAck
    <3> QED
      BY <3>1, <3>3, <3>4
  <2>4. UNCHANGED <<pc, sock, fdtab, file>>
    BY <1>1
  <2> QED
    BY <2>2, <2>3, <2>4 DEF AckInv, HasAck
<1>8. StreamInv => StreamInv'
  <2> SUFFICES ASSUME StreamInv PROVE StreamInv'
    OBVIOUS
  <2>1. whole[c] => off[c] = 0
    BY DEF StreamInv
  <2>2. whole'[c] => whole[c]
    BY <1>2 DEF ReadPacket, OwnTypeOK
  <2> QED
    BY <1>1, <1>3, <1>4, <2>1, <2>2, TakeBlock
<1> QED
  BY <1>5, <1>6, <1>7, <1>8
-----------------------------------------------------------------------------
\* A handler calls read() on its descriptor.
LEMMA CallStep ==
  ASSUME Rest, Loop, NEW t \in Conn, CallRequest(t) \/ CallAck(t)
  PROVE  NetTypeOK' /\ OwnTypeOK' /\ InboxInv' /\ AckInv' /\ (ArgsIntact => StreamInv')
<1> USE DEF Rest
<1>1. LoopTypeOK(PC) /\ Bookkeeping
  BY DEF Loop, LoopInv
<1>2. PICK next \in {"blocked", "waiting"} :
        /\ pc[t] \notin {"none", "start", "remove"}
        /\ pc' = [pc EXCEPT ![t] = next]
  BY DEF CallRequest, CallAck, ReadCall, Goto
<1>3. /\ file' = [file EXCEPT ![t] = fdtab[sock[t]]]
      /\ UNCHANGED <<fdtab, sock, up, peer, inbox, stream, num, pos, rc, wanted, got, off, whole>>
  BY DEF CallRequest, CallAck, ReadCall, netVars, clntVars, cutVars
<1>4. fdtab[sock[t]] \in Conn \cup {NoConn}
  BY <1>1, <1>2 DEF LoopTypeOK, Bookkeeping, Started
<1>5. NetTypeOK' /\ OwnTypeOK' /\ InboxInv'
  BY <1>3, <1>4 DEF NetTypeOK, OwnTypeOK, InboxInv, HasAck
<1>6. AckInv'
  <2>1. /\ file'[t] = fdtab[sock[t]] /\ pc'[t] # "remove"
        /\ \A u \in Conn : u # t => file'[u] = file[u] /\ pc'[u] = pc[u]
    BY <1>1, <1>2, <1>3 DEF OwnTypeOK, LoopTypeOK
  <2>2. ASSUME NEW u \in Conn, pc'[u] = "waiting", file'[u] # NoConn
        PROVE  \/ fdtab[sock[u]] = file'[u]
               \/ rc[file'[u]] = "over" /\ ~HasAck(file[u])'
    BY <1>3, <2>1, <2>2 DEF AckInv, HasAck
  <2>3. ASSUME NEW u \in Conn, pc'[u] = "remove"
        PROVE  /\ fdtab[sock[u]] \in Conn
               /\ rc[fdtab[sock[u]]] = "over" /\ ~HasAck(fdtab[sock[u]])'
               /\ \A v \in Conn : pc'[v] = "remove" /\ fdtab[sock[v]] = fdtab[sock[u]] => v = u
    BY <1>3, <2>1, <2>3 DEF AckInv, HasAck
  <2> QED
    BY <1>3, <2>2, <2>3 DEF AckInv
<1>7. StreamInv => StreamInv'
  BY <1>3, StreamKept
<1> QED
  BY <1>5, <1>6, <1>7

\* A handler reads its request, or what it takes for one.
LEMMA GetRequestStep ==
  ASSUME Rest, Loop, NEW t \in Conn, GetRequest(t)
  PROVE  NetTypeOK' /\ OwnTypeOK' /\ InboxInv' /\ AckInv' /\ (ArgsIntact => StreamInv')
<1> USE DEF Rest
<1>1. LoopTypeOK(PC) /\ file[t] \in Conn \cup {NoConn} /\ pc[t] = "blocked"
  BY DEF Loop, LoopInv, OwnTypeOK, GetRequest
<1>2. PICK packet \in Requests : Read(t, packet) /\ packet.type \in Types
  BY DEF GetRequest, Requests
<1>3. /\ peer' \in [Conn -> PeerState]
      /\ inbox' \in [Conn -> Seq(Requests)]
      /\ file' = [file EXCEPT ![t] = NoConn]
      /\ \A c \in Conn : /\ peer'[c] = "open" => peer[c] = "open"
                         /\ HasAck(c)' => HasAck(c)
                         /\ \A i \in 1 .. Len(inbox'[c]) - 1 :
                              inbox'[c][i].command # "FILE_END_ACK"
  BY <1>1, <1>2, ReadEffect
<1>4. /\ UNCHANGED <<fdtab, sock, stream, pos, rc, wanted, got, off, whole>>
      /\ up' \in BOOLEAN
      /\ \/ num' = num
         \/ \E type \in Types : num' \in {[num EXCEPT ![t] = n] : n \in NumOf(type)}
      /\ \/ pc' = pc
         \/ \E label \in {"send", "left"} : pc' = [pc EXCEPT ![t] = label]
  <2>1. /\ UNCHANGED <<fdtab, sock, stream, pos, rc, wanted, got, off, whole>>
        /\ up' \in BOOLEAN
        /\ \/ pc' = pc
           \/ \E label \in {"send", "left"} : pc' = [pc EXCEPT ![t] = label]
    BY DEF GetRequest, clntVars, cutVars, Goto, NetTypeOK
  <2>2. \A p \in Requests : p.type \in Types
    BY DEF Requests
  <2>3. \/ num' = num
        \/ \E type \in Types : num' \in {[num EXCEPT ![t] = n] : n \in NumOf(type)}
    BY <2>2 DEF GetRequest
  <2> QED
    BY <2>1, <2>3
<1>5. num' \in [Conn -> Sizes \cup {0, -1}]
  <2>1. \A type \in Types : NumOf(type) \subseteq Sizes \cup {0, -1}
    BY DEF NumOf, Types, Sizes
  <2> QED
    BY <1>4, <2>1 DEF OwnTypeOK
<1>6. NetTypeOK' /\ OwnTypeOK' /\ InboxInv'
  BY <1>3, <1>4, <1>5 DEF NetTypeOK, OwnTypeOK, InboxInv
<1>7. AckInv'
  <2>1. \A u \in Conn : /\ file[u] \in Conn \cup {NoConn}
                        /\ file'[u] = file[u] \/ u = t
                        /\ pc'[u] = pc[u] \/ pc'[u] \in {"send", "left"}
                        /\ pc'[u] = "waiting" => u # t
    BY <1>1, <1>3, <1>4 DEF OwnTypeOK, LoopTypeOK
  <2> QED
    BY <1>3, <1>4, <2>1, AckKept
<1>8. StreamInv => StreamInv'
  BY <1>3, <1>4, StreamKept
<1> QED
  BY <1>6, <1>7, <1>8

\* The block that follows what a connection was sent.
LEMMA BlockSent ==
  ASSUME NetTypeOK, OwnTypeOK, StreamInv, NEW t \in Conn,
         NEW packet \in Blocks, packet.at = pos[t],
         packet.at + packet.len <= FILE,
         packet.command = "FILE_END" => packet.at + packet.len = FILE,
         UNCHANGED <<got, rc, off, whole>>,
         \A c \in Conn :
           /\ peer'[c] = "open" => peer[c] = "open"
           /\ c # t => stream'[c] = stream[c] /\ pos'[c] = pos[c]
           /\ c = t => /\ pos'[c] = packet.at + packet.len
                       /\ stream'[c] = IF peer[c] = "open" THEN Append(stream[c], packet)
                                                           ELSE stream[c]
  PROVE  StreamInv'
<1> DEFINE Parts(d) ==
      /\ Film(stream'[d])
      /\ rc'[d] = "over" => peer'[d] # "open"
      /\ peer'[d] = "open" /\ stream'[d] # <<>> => Ends(stream'[d]) = pos'[d]
      /\ whole'[d] =>
           /\ off'[d] = 0 /\ got'[d] <= FILE
           /\ rc'[d] = "over" => got'[d] = FILE
           /\ stream'[d] # <<>> => Head(stream'[d]).at = got'[d]
           /\ stream'[d] = <<>> /\ peer'[d] = "open" => got'[d] = pos'[d]
<1>1. ASSUME NEW d \in Conn, d # t \/ peer[d] # "open" PROVE Parts(d)
  <2>1. /\ UNCHANGED <<got[d], off[d], whole[d], rc[d], stream[d]>>
        /\ peer'[d] = "open" => peer[d] = "open" /\ pos'[d] = pos[d]
    BY <1>1
  <2> QED
    BY <2>1 DEF StreamInv
<1>2. ASSUME peer[t] = "open" PROVE Parts(t)
  <2>1. /\ stream[t] \in Seq(Blocks) /\ Film(stream[t])
        /\ stream[t] # <<>> => packet.at = Ends(stream[t])
        /\ whole[t] => /\ off[t] = 0 /\ got[t] <= FILE /\ rc[t] # "over"
                       /\ stream[t] # <<>> => Head(stream[t]).at = got[t]
                       /\ stream[t] = <<>> => got[t] = packet.at
    BY <1>2 DEF StreamInv, NetTypeOK
  <2>2. stream'[t] = Append(stream[t], packet) /\ pos'[t] = packet.at + packet.len
    BY <1>2
  <2>3. /\ Film(stream'[t]) /\ stream'[t] # <<>> /\ Ends(stream'[t]) = pos'[t]
        /\ Head(stream'[t]) = IF stream[t] = <<>> THEN packet ELSE Head(stream[t])
    BY <2>1, <2>2, FilmAppend
  <2>4. rc[t] # "over" /\ UNCHANGED <<got[t], off[t], whole[t], rc[t]>>
    BY <1>2 DEF StreamInv
  <2>5. /\ whole[t] /\ stream[t] # <<>> => Head(stream'[t]).at = got[t]
        /\ whole[t] /\ stream[t] = <<>> => Head(stream'[t]).at = got[t]
    BY <2>1, <2>3
  <2>6. whole'[t] => /\ off'[t] = 0 /\ got'[t] <= FILE
                     /\ Head(stream'[t]).at = got'[t]
    BY <2>1, <2>4, <2>5
  <2>7. Parts(t)
    BY <2>3, <2>4, <2>6
  <2> HIDE DEF Parts
  <2> QED
    BY <2>7
<1>3. \A d \in Conn : Parts(d)
  <2> HIDE DEF Parts
  <2>1. CASE peer[t] = "open"
    BY <1>1, <1>2, <2>1
  <2>2. CASE peer[t] # "open"
    BY <1>1, <2>2
  <2> QED
    BY <2>1, <2>2
<1>4. (\A d \in Conn : Parts(d)) => StreamInv'
  BY Zenon DEF StreamInv, Film, Ends
<1> HIDE DEF Parts
<1> QED
  BY <1>3, <1>4

\* A handler reads a block of the file and writes it.
LEMMA SendStep ==
  ASSUME Rest, Loop, NEW t \in Conn, SendFull(t) \/ SendLast(t)
  PROVE  NetTypeOK' /\ OwnTypeOK' /\ InboxInv' /\ AckInv' /\ (ArgsIntact => StreamInv')
<1> USE DEF Rest
<1>1. /\ LoopTypeOK(PC) /\ Bookkeeping /\ FILE \in Nat
      /\ pos[t] \in 0 .. FILE /\ num[t] \in Sizes \cup {0, -1}
      /\ pc[t] = "send" /\ sock[t] \in Fds
  BY FileAssumption DEF Loop, LoopInv, OwnTypeOK, SendFull, SendLast, LoopTypeOK,
     Bookkeeping, Started
<1>2. PICK packet \in Blocks :
        /\ Write(sock[t], packet)
        /\ packet.at = pos[t] /\ packet.at + packet.len <= FILE
        /\ packet.command = "FILE_END" => packet.at + packet.len = FILE
        /\ pos' = [pos EXCEPT ![t] = packet.at + packet.len]
  <2> DEFINE n == ReadLen(t)
             full == [command |-> "FILE_SENDING", at |-> pos[t], len |-> num[t]]
             last == [command |-> "FILE_END", at |-> pos[t], len |-> ReadLen(t)]
  <2>1. num[t] \in Int
    BY <1>1, FileAssumption DEF Sizes
  <2>2. ReadLen(t) \in Int /\ ReadLen(t) <= FILE - pos[t]
        /\ (ReadLen(t) < num[t] => ReadLen(t) = FILE - pos[t])
    BY <1>1, <2>1 DEF ReadLen
  <2>3. CASE SendFull(t)
    <3>1. num[t] \in 1 .. FILE /\ pos[t] + num[t] <= FILE
      BY <1>1, <2>1, <2>2, <2>3 DEF SendFull
    <3>2. full \in Blocks /\ full.at = pos[t] /\ full.len = num[t] /\ full.command = "FILE_SENDING"
      BY <1>1, <3>1 DEF Blocks
    <3>3. Write(sock[t], full) /\ pos' = [pos EXCEPT ![t] = pos[t] + num[t]]
      BY <2>3 DEF SendFull
    <3> HIDE DEF full
    <3> QED
      BY <3>1, <3>2, <3>3
  <2>4. CASE SendLast(t)
    <3>1. ReadLen(t) \in 1 .. FILE /\ pos[t] + ReadLen(t) = FILE
      BY <1>1, <2>1, <2>2, <2>4 DEF SendLast
    <3>2. last \in Blocks /\ last.at = pos[t] /\ last.len = ReadLen(t) /\ last.command = "FILE_END"
      BY <1>1, <3>1 DEF Blocks
    <3>3. Write(sock[t], last) /\ pos' = [pos EXCEPT ![t] = pos[t] + ReadLen(t)]
      BY <2>4 DEF SendLast
    <3>4. last.at + last.len = FILE /\ last.at + last.len <= FILE
          /\ pos' = [pos EXCEPT ![t] = last.at + last.len]
      BY <1>1, <3>1, <3>2, <3>3
    <3> HIDE DEF last
    <3> QED
      BY <3>2, <3>3, <3>4
  <2> QED
    BY <2>3, <2>4
<1>3. /\ UNCHANGED <<fdtab, sock, inbox, file, num, rc, wanted, got, off, whole>>
      /\ pc' = pc \/ pc' = [pc EXCEPT ![t] = "ack"]
  BY DEF SendFull, SendLast, clntVars, cutVars, loopVars, Goto
<1>4. /\ up' \in BOOLEAN /\ peer' \in [Conn -> PeerState]
      /\ stream' \in [Conn -> Seq(Blocks)]
      /\ \A c \in Conn :
           /\ peer'[c] = "open" => peer[c] = "open"
           /\ c # fdtab[sock[t]] => stream'[c] = stream[c]
           /\ c = fdtab[sock[t]] =>
                IF peer[c] = "open" THEN stream'[c] = Append(stream[c], packet)
                                    ELSE stream'[c] = stream[c]
  BY <1>1, <1>2, WriteEffect
<1>5. packet.at + packet.len \in 0 .. FILE
  BY <1>1, <1>2 DEF Blocks
<1>6. NetTypeOK' /\ OwnTypeOK' /\ InboxInv'
  BY <1>2, <1>3, <1>4, <1>5 DEF NetTypeOK, OwnTypeOK, InboxInv, HasAck
<1>7. AckInv'
  <2>1. \A u \in Conn : /\ file[u] \in Conn \cup {NoConn}
                        /\ HasAck(u)' <=> HasAck(u)
                        /\ pc'[u] \in {"waiting", "remove"} => pc'[u] = pc[u]
    BY <1>1, <1>3 DEF OwnTypeOK, LoopTypeOK, HasAck
  <2> QED
    BY <1>3, <2>1, AckKept
<1>8. ASSUME ArgsIntact PROVE StreamInv'
  <2>1. sock[t] = own[t] /\ own[t] # NoFd /\ fdtab[own[t]] = t
    BY <1>1, <1>8 DEF ArgsIntact, Started, Bookkeeping, Loop, LoopInv, FdsKept, Past
  <2>2. \A c \in Conn :
           /\ c # t => stream'[c] = stream[c] /\ pos'[c] = pos[c]
           /\ c = t => /\ pos'[c] = packet.at + packet.len
                       /\ stream'[c] = IF peer[c] = "open" THEN Append(stream[c], packet)
                                                           ELSE stream[c]
    BY <1>2, <1>4, <2>1 DEF OwnTypeOK
  <2> QED
    BY <1>2, <1>3, <1>4, <1>8, <2>2, BlockSent
<1> QED
  BY <1>6, <1>7, <1>8

\* read() of the file returns nothing.
LEMMA SendNoneStep ==
  ASSUME Rest, Loop, NEW t \in Conn, SendNone(t)
  PROVE  NetTypeOK' /\ OwnTypeOK' /\ InboxInv' /\ AckInv' /\ (ArgsIntact => StreamInv')
<1> USE DEF Rest
<1>1. /\ UNCHANGED <<fdtab, sock, up, peer, inbox, stream, file, num, pos, rc, wanted, got, off, whole>>
      /\ \E label \in {"ack", "left"} : pc' = [pc EXCEPT ![t] = label]
  BY DEF SendNone, netVars, hdlVars, clntVars, cutVars, Goto
<1>2. NetTypeOK' /\ OwnTypeOK' /\ InboxInv' /\ \A c \in Conn : HasAck(c)' <=> HasAck(c)
  BY <1>1 DEF NetTypeOK, OwnTypeOK, InboxInv, HasAck
<1>3. AckInv'
  <2>1. \A u \in Conn : /\ file[u] \in Conn \cup {NoConn}
                        /\ pc'[u] \in {"waiting", "remove"} => pc'[u] = pc[u]
    BY <1>1 DEF OwnTypeOK, Loop, LoopInv, LoopTypeOK
  <2> QED
    BY <1>1, <1>2, <2>1, AckKept
<1>4. StreamInv => StreamInv'
  BY <1>1, StreamKept
<1> QED
  BY <1>2, <1>3, <1>4

\* A handler reads the acknowledgement, or something else.
LEMMA GetAckStep ==
  ASSUME Rest, Loop, NEW t \in Conn, GetAck(t)
  PROVE  NetTypeOK' /\ OwnTypeOK' /\ InboxInv' /\ AckInv' /\ (ArgsIntact => StreamInv')
<1> USE DEF Rest
<1>1. LoopTypeOK(PC) /\ file[t] \in Conn \cup {NoConn} /\ pc[t] = "waiting"
  BY DEF Loop, LoopInv, OwnTypeOK, GetAck
<1>2. PICK packet \in Requests :
        /\ Read(t, packet)
        /\ pc' = [pc EXCEPT ![t] = IF packet.command = "FILE_END_ACK" THEN "remove" ELSE "left"]
  BY DEF GetAck, Goto
<1>3. /\ peer' \in [Conn -> PeerState]
      /\ inbox' \in [Conn -> Seq(Requests)]
      /\ file' = [file EXCEPT ![t] = NoConn]
      /\ \A c \in Conn : /\ peer'[c] = "open" => peer[c] = "open"
                         /\ HasAck(c)' => HasAck(c)
                         /\ \A i \in 1 .. Len(inbox'[c]) - 1 :
                              inbox'[c][i].command # "FILE_END_ACK"
      /\ packet.command = "FILE_END_ACK" =>
           \E c \in Conn : c = file[t] /\ HasAck(c) /\ ~HasAck(c)'
  BY <1>1, <1>2, ReadEffect
<1>4. UNCHANGED <<fdtab, sock, up, stream, num, pos, rc, wanted, got, off, whole>>
  BY DEF GetAck, clntVars, cutVars
<1>5. NetTypeOK' /\ OwnTypeOK' /\ InboxInv'
  BY <1>3, <1>4 DEF NetTypeOK, OwnTypeOK, InboxInv
<1>6. \A u \in Conn : /\ file[u] \in Conn \cup {NoConn}
                      /\ u # t => file'[u] = file[u] /\ pc'[u] = pc[u]
  BY <1>1, <1>2, <1>3 DEF OwnTypeOK, LoopTypeOK
<1>7. CASE packet.command # "FILE_END_ACK"
  <2>1. pc'[t] = "left"
    BY <1>1, <1>2, <1>7 DEF LoopTypeOK
  <2>2. AckInv'
    BY <1>3, <1>4, <1>6, <2>1, AckKept
  <2> QED
    BY <1>3, <1>4, <1>5, <2>2, StreamKept
<1>8. CASE packet.command = "FILE_END_ACK"
  <2>1. PICK c \in Conn : c = file[t] /\ HasAck(c) /\ ~HasAck(c)'
    BY <1>3, <1>8
  <2>2. pc'[t] = "remove" /\ file'[t] = NoConn
    BY <1>1, <1>2, <1>3, <1>8 DEF LoopTypeOK, OwnTypeOK
  <2>3. fdtab[sock[t]] = c /\ rc[c] = "over"
    BY <1>1, <2>1, ConnAssumption DEF AckInv, InboxInv
\* No other handler has read it.
  <2>4. \A u \in Conn : pc[u] = "remove" => fdtab[sock[u]] # c
    <3>1. ASSUME NEW u \in Conn, pc[u] = "remove", fdtab[sock[u]] = c PROVE FALSE
      <4>1. PICK x \in Conn : x = fdtab[sock[u]] /\ ~HasAck(x)
        BY <3>1 DEF AckInv
      <4> QED
        BY <2>1, <3>1, <4>1
    <3> QED
      BY <3>1
  <2>5. ASSUME NEW u \in Conn, pc'[u] = "waiting", file'[u] # NoConn
        PROVE  \/ fdtab[sock[u]] = file'[u]
               \/ rc[file'[u]] = "over" /\ ~HasAck(file[u])'
    <3>1. u # t /\ pc[u] = "waiting" /\ file'[u] = file[u]
      BY <1>6, <2>2, <2>5
    <3>2. PICK x \in Conn : x = file[u]
      BY <1>6, <2>5, <3>1
    <3>3. fdtab[sock[u]] = x \/ (rc[x] = "over" /\ ~HasAck(x))
      BY <2>5, <3>1, <3>2 DEF AckInv
    <3>4. HasAck(x)' => HasAck(x)
      BY <1>3
    <3>5. HasAck(x)' <=> HasAck(file[u])'
      BY <3>1, <3>2 DEF HasAck
    <3> QED
      BY <3>1, <3>2, <3>3, <3>4, <3>5
  <2>6. ASSUME NEW u \in Conn, pc'[u] = "remove"
        PROVE  /\ fdtab[sock[u]] \in Conn
               /\ rc[fdtab[sock[u]]] = "over" /\ ~HasAck(fdtab[sock[u]])'
               /\ \A v \in Conn : pc'[v] = "remove" /\ fdtab[sock[v]] = fdtab[sock[u]] => v = u
    <3>1. PICK x \in Conn : x = fdtab[sock[u]] /\ rc[x] = "over" /\ ~HasAck(x)'
      <4>1. CASE u = t
        BY <2>1, <2>3, <4>1
      <4>2. CASE u # t
        <5>1. PICK x \in Conn : x = fdtab[sock[u]] /\ rc[x] = "over" /\ ~HasAck(x)
          BY <1>6, <2>6, <4>2 DEF AckInv
        <5> QED
          BY <1>3, <5>1
      <4> QED
        BY <4>1, <4>2
    <3>2. HasAck(x)' <=> HasAck(fdtab[sock[u]])'
      BY <1>4, <3>1 DEF HasAck
    <3>3. \A v \in Conn : pc'[v] = "remove" /\ fdtab[sock[v]] = fdtab[sock[u]] => v = u
      BY <1>6, <2>3, <2>4, <2>6 DEF AckInv
    <3> QED
      BY <3>1, <3>2, <3>3
  <2>7. AckInv'
    BY <1>4, <2>5, <2>6 DEF AckInv, HasAck
  <2> QED
    BY <1>3, <1>4, <1>5, <2>7, StreamKept
<1> QED
  BY <1>7, <1>8

\* A handler leaves the table and closes its descriptor.
LEMMA RemoveStep ==
  ASSUME Rest, Loop, NEW t \in Conn, Remove(t)
  PROVE  NetTypeOK' /\ OwnTypeOK' /\ InboxInv' /\ AckInv' /\ (ArgsIntact => StreamInv')
<1> USE DEF Rest
<1>1. /\ LoopTypeOK(PC) /\ pc[t] = "remove" /\ sock[t] \in Fds
      /\ pc' = [pc EXCEPT ![t] = "removed"]
      /\ fdtab' = [fdtab EXCEPT ![sock[t]] = NoConn]
      /\ UNCHANGED <<sock, up, peer, inbox, stream, file, num, pos, rc, wanted, got, off, whole>>
  BY DEF Remove, Loop, LoopInv, LoopTypeOK, Bookkeeping, Started, Goto, netVars, hdlVars,
     clntVars, cutVars
<1>2. NetTypeOK' /\ OwnTypeOK' /\ InboxInv' /\ \A c \in Conn : HasAck(c)' <=> HasAck(c)
  BY <1>1 DEF NetTypeOK, OwnTypeOK, InboxInv, HasAck
<1>3. pc'[t] = "removed" /\ \A u \in Conn : u # t => pc'[u] = pc[u]
  BY <1>1 DEF LoopTypeOK
<1>4. \A u \in Conn :
        pc'[u] \in {"waiting", "remove"} =>
          /\ sock[u] \in Fds
          /\ fdtab'[sock[u]] = IF sock[u] = sock[t] THEN NoConn ELSE fdtab[sock[u]]
  <2>1. \A u \in Conn : pc'[u] \in {"waiting", "remove"} => sock[u] \in Fds
    BY <1>1, <1>3 DEF Loop, LoopInv, LoopTypeOK, Bookkeeping, Started
  <2> QED
    BY <1>1, <2>1 DEF LoopTypeOK
<1>5. PICK d \in Conn : d = fdtab[sock[t]] /\ rc[d] = "over" /\ ~HasAck(d)
  BY <1>1 DEF AckInv
<1>6. ASSUME NEW u \in Conn, pc'[u] = "waiting", file[u] # NoConn
      PROVE  \/ fdtab'[sock[u]] = file[u]
             \/ rc[file[u]] = "over" /\ ~HasAck(file[u])
  <2>1. u # t /\ pc[u] = "waiting"
    BY <1>3, <1>6
  <2>2. CASE sock[u] = sock[t] /\ fdtab[sock[u]] = file[u]
    BY <1>5, <2>2
  <2>3. CASE sock[u] # sock[t] /\ fdtab[sock[u]] = file[u]
    BY <1>4, <1>6, <2>3
  <2>4. CASE fdtab[sock[u]] # file[u]
    BY <1>6, <2>1, <2>4 DEF AckInv
  <2> QED
    BY <2>2, <2>3, <2>4
<1>7. ASSUME NEW u \in Conn, pc'[u] = "remove"
      PROVE  u # t /\ pc[u] = "remove" /\ fdtab'[sock[u]] = fdtab[sock[u]]
  <2>1. u # t /\ pc[u] = "remove"
    BY <1>3, <1>7
  <2>2. sock[u] # sock[t]
    BY <1>1, <2>1 DEF AckInv
  <2> QED
    BY <1>4, <1>7, <2>1, <2>2
<1>8. \A u \in Conn : HasAck(file[u])' <=> HasAck(file[u])
  BY <1>1 DEF HasAck
<1>9. ASSUME NEW u \in Conn, pc'[u] = "remove"
      PROVE  /\ fdtab'[sock'[u]] \in Conn
             /\ rc'[fdtab'[sock'[u]]] = "over" /\ ~HasAck(fdtab[sock[u]])'
             /\ \A v \in Conn : pc'[v] = "remove" /\ fdtab'[sock'[v]] = fdtab'[sock'[u]] => v = u
  <2>1. PICK x \in Conn : x = fdtab[sock[u]] /\ rc[x] = "over" /\ ~HasAck(x)
    BY <1>7, <1>9 DEF AckInv
  <2>2. ~HasAck(fdtab[sock[u]])' /\ sock' = sock /\ rc' = rc
    BY <1>1, <2>1, <1>7, <1>9 DEF HasAck
  <2>3. \A v \in Conn : pc'[v] = "remove" /\ fdtab'[sock[v]] = fdtab'[sock[u]] => v = u
    BY <1>7, <1>9 DEF AckInv
  <2> QED
    BY <1>7, <1>9, <2>1, <2>2, <2>3
<1>10. AckInv'
  BY <1>1, <1>6, <1>8, <1>9 DEF AckInv, HasAck
<1>11. StreamInv => StreamInv'
  BY <1>1, StreamKept
<1> QED
  BY <1>2, <1>10, <1>11
-----------------------------------------------------------------------------
\* Every step keeps OttInv.
LEMMA NextOttInv == OttInv /\ [Next]_vars => OttInv'
<1> SUFFICES ASSUME OttInv, [Next]_vars PROVE OttInv'
  OBVIOUS
<1>1. Rest /\ Loop
  BY DEF OttInv, Rest
<1>2. Loop' /\ (ArgsIntact' => ArgsIntact)
  BY <1>1, NextLoop
<1>3. NetTypeOK' /\ OwnTypeOK' /\ InboxInv' /\ AckInv' /\ (ArgsIntact => StreamInv')
  <2>1. CASE Main \/ UNCHANGED vars \/ \E t \in Conn : HandlerStart(t)
    BY <1>1, <2>1, LoopStep
  <2>2. CASE \E c \in Conn : Request(c) \/ Quit(c)
    BY <1>1, <2>2, RequestStep
  <2>3. CASE \E c \in Conn : Receiver(c)
    BY <1>1, <2>3, ReceiveStep
  <2>4. CASE \E t \in Conn : CallRequest(t) \/ CallAck(t)
    BY <1>1, <2>4, CallStep
  <2>5. CASE \E t \in Conn : GetRequest(t)
    BY <1>1, <2>5, GetRequestStep
  <2>6. CASE \E t \in Conn : SendFull(t) \/ SendLast(t)
    BY <1>1, <2>6, SendStep
  <2>7. CASE \E t \in Conn : SendNone(t)
    BY <1>1, <2>7, SendNoneStep
  <2>8. CASE \E t \in Conn : GetAck(t)
    BY <1>1, <2>8, GetAckStep
  <2>9. CASE \E t \in Conn : Remove(t)
    BY <1>1, <2>9, RemoveStep
  <2> QED
    BY <2>1, <2>2, <2>3, <2>4, <2>5, <2>6, <2>7, <2>8, <2>9 DEF Next, Handler
<1> QED
  BY <1>2, <1>3 DEF OttInv

\* OttInv is what the properties below need.
LEMMA OttInvImplies == OttInv => TypeOK /\ WholeFile
<1> SUFFICES ASSUME OttInv PROVE TypeOK /\ WholeFile
  OBVIOUS
<1>1. TypeOK
  BY DEF OttInv, Loop, LoopInv, NetTypeOK, OwnTypeOK, TypeOK
<1>2. WholeFile
  <2>1. \A n \in Nat : 2 .. n \subseteq 1 .. n /\ \A i \in 2 .. n : i # 1
    OBVIOUS
  <2>2. \A c \in Conn : Len(stream[c]) \in Nat
    BY LenProperties DEF OttInv, NetTypeOK
  <2> QED
    BY <2>1, <2>2 DEF OttInv, StreamInv, Film, WholeFile
<1> QED
  BY <1>1, <1>2

\* Every variable keeps its type, for any number of clients, any file and any
\* block sizes.
THEOREM OttTypes == Spec => []TypeOK
<1>1. OttInv => TypeOK
  BY OttInvImplies
<1> QED
  BY <1>1, InitOttInv, NextOttInv, PTL DEF Spec

\* While every handler has its own descriptor, the blocks of a film reach its
\* client whole and in order, and one that was shown the end has all of it
\* (handle_clnt and recv_msg).
THEOREM OttWhole == Spec => []WholeFile
<1>1. OttInv => WholeFile
  BY OttInvImplies
<1> QED
  BY <1>1, InitOttInv, NextOttInv, PTL DEF Spec

\* Only the handler that read the acknowledgement of a connection closes that
\* connection's descriptor, even when it runs on another's (handle_clnt).
THEOREM OttClosed == Spec => ClosedWhenOver
<1>1. ASSUME OttInv, [Next]_vars
      PROVE  [\A f \in Fds : fdtab[f] # NoConn /\ fdtab'[f] = NoConn
                               => rc[fdtab[f]] = "over"]_vars
  <2>1. LoopTypeOK(PC)
    BY <1>1 DEF OttInv, Loop, LoopInv
  <2>2. CASE \E t \in Conn : Remove(t)
    <3>1. PICK t \in Conn : pc[t] = "remove" /\ fdtab' = [fdtab EXCEPT ![sock[t]] = NoConn]
      BY <2>2 DEF Remove
    <3>2. rc[fdtab[sock[t]]] = "over"
      BY <1>1, <3>1 DEF OttInv, AckInv
    <3> QED
      BY <2>1, <3>1, <3>2 DEF LoopTypeOK
  <2>3. CASE \E c \in Conn : MainAccept(c)
    BY <2>1, <2>3, ConnAssumption DEF MainAccept, Accept, LoopTypeOK
  <2>4. CASE UNCHANGED fdtab
    BY <2>4
  <2>5. MainAppend \/ MainCreate => UNCHANGED fdtab
    BY DEF MainAppend, Enlist, MainCreate, Create
  <2>6. \A c \in Conn : Request(c) \/ Quit(c) \/ Receiver(c) => UNCHANGED fdtab
    BY DEF Request, Quit, Receiver, GetBlock, GetEnd, loopVars
  <2>7. \A t \in Conn : Handler(t) => UNCHANGED fdtab \/ Remove(t)
    BY DEF Handler, HandlerStart, TakeArg, CallRequest, CallAck, ReadCall, GetRequest,
           SendFull, SendLast, SendNone, GetAck, loopVars
  <2>8. UNCHANGED vars => UNCHANGED fdtab
    BY DEF vars, loopVars
  <2> QED
    BY <1>1, <2>2, <2>3, <2>4, <2>5, <2>6, <2>7, <2>8 DEF Next, Main
<1> QED
  BY <1>1, InitOttInv, NextOttInv, PTL DEF Spec, ClosedWhenOver
=============================================================================

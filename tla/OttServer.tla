----------------------------- MODULE OttServer -----------------------------
(***************************************************************************)
(* lab9/ott_server.c with the clients of lab9/ott_client.c: a client asks  *)
(* for the film at one of three speeds, that is, block sizes; its handler  *)
(* sends it block by block, marks the last block, and drops the client     *)
(* when it acknowledges the mark.                                          *)
(*                                                                         *)
(* Only a block shorter than the size is marked.  A request is a packet    *)
(* whose command is 0, and so is the packet of a read() that returned      *)
(* nothing, for neither the result of the first read() nor the type is     *)
(* looked at.                                                              *)
(*                                                                         *)
(* The packets of a film follow each other at once, and the client does    *)
(* not look at how much a read() returned: one that stops in the middle of *)
(* a packet puts the client out of step with all that follow.  A request   *)
(* and an acknowledgement each go alone over an idle connection, and the   *)
(* server's read() takes them whole.                                       *)
(***************************************************************************)
EXTENDS AcceptLoop, TcpPeer, Sequences

CONSTANTS FILE,          \* length of hw06.mp4
          BASIC_BUF, STANDARD_BUF, PREMIUM_BUF,   \* 10, 100, 1000 in the code
          PACKET,        \* the pieces a packet may come in (1012 bytes)
          Garbage,       \* bound: what the bytes at len say out of step
          Asked,         \* bound: the types users ask for
          BUFFER         \* bound: packets a connection holds until they are read

ASSUME FileAssumption == /\ FILE \in Nat
                         /\ {BASIC_BUF, STANDARD_BUF, PREMIUM_BUF} \subseteq Nat \ {0}
                         /\ {PACKET, BUFFER} \subseteq Nat \ {0}
                         /\ Garbage \subseteq Int
                         /\ Asked \subseteq 0 .. 3

\* 1, 2 and 3; 0 stands for any other number, which the client sends as well.
Types == 0 .. 3
Sizes == {BASIC_BUF, STANDARD_BUF, PREMIUM_BUF}

\* What num is for a type: for an unknown one it is never set.  It is then
\* whatever the thread's stack holds: a size left by an earlier thread, 0, or a
\* number that read() refuses (-1).
NumOf(type) == CASE type = 1 -> {BASIC_BUF}
                 [] type = 2 -> {STANDARD_BUF}
                 [] type = 3 -> {PREMIUM_BUF}
                 [] OTHER    -> Sizes \cup {0, -1}

Requests == [command : {"FILE_REQ", "FILE_END_ACK"}, type : Types]
Empty    == [command |-> "FILE_REQ", type |-> 0]   \* memset(&packet, 0, ...)
Blocks   == [command : {"FILE_SENDING", "FILE_END"}, at : 0 .. FILE, len : 1 .. FILE]

VARIABLES
  up,       \* the server process exists
  peer,     \* what the server's kernel knows of each client's end
  inbox,    \* packets sent to the server and not yet read
  stream,   \* packets sent to a client and not yet read
  file,     \* the connection a handler's read() is blocked on
  num,      \* each handler's block size
  pos,      \* write_len, and the position in the open file
  rc,       \* where a client is: "menu", "reading" or "over"
  wanted,   \* the type it asked for
  got,      \* its read_len
  off,      \* how much of the packet at the head of its stream it has read
  whole     \* history: each of its read()s returned one whole packet

netVars  == <<peer, inbox, stream>>
hdlVars  == <<file, num, pos>>
cutVars  == <<off, whole>>
clntVars == <<rc, wanted, got, cutVars>>
vars     == <<loopVars, up, netVars, hdlVars, clntVars>>

\* "left" is a handler that returned without the removal block.
PC   == {"none", "start", "request", "blocked", "send", "ack", "waiting",
         "remove", "left", "removed"}

Init ==
  /\ LoopInit
  /\ up = TRUE
  /\ peer = [c \in Conn |-> "open"]
  /\ inbox = [c \in Conn |-> <<>>]
  /\ stream = [c \in Conn |-> <<>>]
  /\ file = [c \in Conn |-> NoConn]
  /\ num = [c \in Conn |-> 0]
  /\ pos = [c \in Conn |-> 0]
  /\ rc = [c \in Conn |-> "menu"]
  /\ wanted = [c \in Conn |-> 0]
  /\ got = [c \in Conn |-> 0]
  /\ off = [c \in Conn |-> 0]
  /\ whole = [c \in Conn |-> TRUE]

-----------------------------------------------------------------------------
\* A client.

\* A type, then 1 for download.
Request(c) ==
  /\ up
  /\ rc[c] = "menu" /\ peer[c] = "open"
  /\ \E type \in Asked :
       /\ inbox' = [inbox EXCEPT ![c] = Append(@, [command |-> "FILE_REQ", type |-> type])]
       /\ wanted' = [wanted EXCEPT ![c] = type]
  /\ rc' = [rc EXCEPT ![c] = "reading"]
  /\ UNCHANGED <<loopVars, up, peer, stream, hdlVars, got, cutVars>>

\* 4 in the menu, or the process is killed
Quit(c) ==
  /\ peer[c] = "open"
  /\ \E p \in AfterClose(stream[c] # <<>>) : peer' = [peer EXCEPT ![c] = p]
  /\ UNCHANGED <<loopVars, up, inbox, stream, hdlVars, clntVars>>

\* What a read() of n pieces leaves in the client's packet: the packet that was
\* sent; of the front of one, the command, for a single byte holds it, and a len
\* that is still 0 or lacks its higher bytes; out of step, other bytes.
Parsed(c, n) ==
  LET sent == Head(stream[c])
  IN  IF off[c] # 0 THEN [command : {"FILE_SENDING", "FILE_END", "other"}, len : Garbage]
      ELSE [command : {sent.command},
            len : IF n = PACKET THEN {sent.len} ELSE {0, sent.len % 256, sent.len}]

\* read(sock, &packet, sizeof(packet)): up to a packet's length of what has come
ReadPacket(c, isEnd) ==
  /\ rc[c] = "reading" /\ peer[c] = "open"
  /\ stream[c] # <<>>
  /\ \E n \in 1 .. PACKET : \E packet \in Parsed(c, n) :
       /\ n <= Len(stream[c]) * PACKET - off[c]
       /\ (packet.command = "FILE_END") = isEnd
       /\ got' = [got EXCEPT ![c] = @ + packet.len]
       /\ whole' = [whole EXCEPT ![c] = @ /\ n = PACKET]
       /\ IF off[c] + n < PACKET
            THEN /\ off' = [off EXCEPT ![c] = @ + n]
                 /\ UNCHANGED stream
            ELSE /\ off' = [off EXCEPT ![c] = @ + n - PACKET]
                 /\ stream' = [stream EXCEPT ![c] = Tail(@)]

\* recv_msg: a packet that is not the last
GetBlock(c) ==
  /\ ReadPacket(c, FALSE)
  /\ UNCHANGED <<loopVars, up, peer, inbox, hdlVars, rc, wanted>>

\* recv_msg: the last one; the acknowledgement; close(sock)
GetEnd(c) ==
  /\ ReadPacket(c, TRUE)
  /\ inbox' = [inbox EXCEPT ![c] = Append(@, [command |-> "FILE_END_ACK", type |-> 0])]
  /\ \E p \in AfterClose(stream'[c] # <<>>) : peer' = [peer EXCEPT ![c] = p]
  /\ rc' = [rc EXCEPT ![c] = "over"]
  /\ UNCHANGED <<loopVars, up, hdlVars, wanted>>

-----------------------------------------------------------------------------
\* main.

MainAccept(c) == up /\ Accept(c) /\ UNCHANGED <<up, netVars, hdlVars, clntVars>>
MainAppend    == up /\ Enlist /\ UNCHANGED <<up, netVars, hdlVars, clntVars>>
MainCreate    == up /\ Create /\ UNCHANGED <<up, netVars, hdlVars, clntVars>>

-----------------------------------------------------------------------------
\* handle_clnt.

HandlerStart(t) ==
  /\ up
  /\ TakeArg(t, "request")
  /\ UNCHANGED <<up, netVars, hdlVars, clntVars>>

\* read() is called.
ReadCall(t, from, to) ==
  /\ up
  /\ pc[t] = from
  /\ file' = [file EXCEPT ![t] = fdtab[sock[t]]]
  /\ Goto(t, to)
  /\ UNCHANGED <<mainVars, regVars, mutx, fdtab, sock, up, netVars, num, pos, clntVars>>

CallRequest(t) == ReadCall(t, "request", "blocked")
CallAck(t)     == ReadCall(t, "ack", "waiting")

\* read() returns: the next packet; or nothing, at the end of the stream, after
\* a reset and on a descriptor that is closed.
Read(t, packet) ==
  LET c == file[t]
  IN  /\ \/ /\ c # NoConn /\ inbox[c] # <<>>
            /\ packet = Head(inbox[c])
            /\ inbox' = [inbox EXCEPT ![c] = Tail(@)]
            /\ UNCHANGED peer
         \/ /\ c # NoConn => inbox[c] = <<>> /\ peer[c] # "open"
            /\ packet = Empty
            /\ peer' = [x \in Conn |-> IF x = c /\ peer[x] = "err" THEN "rst" ELSE peer[x]]
            /\ UNCHANGED inbox
      /\ file' = [file EXCEPT ![t] = NoConn]

\* The request; open(), or exit(1) if it fails.  Anything but a request ends the
\* thread as it is.
GetRequest(t) ==
  /\ up
  /\ pc[t] = "blocked"
  /\ \E packet \in Requests :
       /\ Read(t, packet)
       /\ \/ /\ packet.command = "FILE_REQ"
             /\ num' \in {[num EXCEPT ![t] = n] : n \in NumOf(packet.type)}
             /\ Goto(t, "send")
             /\ UNCHANGED up
          \/ /\ packet.command = "FILE_REQ"
             /\ up' = FALSE
             /\ UNCHANGED <<pc, num>>
          \/ /\ packet.command # "FILE_REQ"
             /\ Goto(t, "left")
             /\ UNCHANGED <<up, num>>
  /\ UNCHANGED <<mainVars, regVars, mutx, fdtab, sock, stream, pos, clntVars>>

\* write() of a packet: a closed descriptor takes nothing, a reset one raises
\* SIGPIPE, one whose client does not read blocks.
Write(fd, packet) ==
  LET c == fdtab[fd]
  IN  IF c = NoConn
        THEN UNCHANGED <<up, peer, stream>>
        ELSE /\ peer[c] = "open" => Len(stream[c]) < BUFFER
             /\ up' = ~WriteKills(peer[c])
             /\ \E p \in AfterWrite(peer[c]) : peer' = [peer EXCEPT ![c] = p]
             /\ stream' = IF peer[c] = "open"
                            THEN [stream EXCEPT ![c] = Append(@, packet)] ELSE stream

\* What read(fd, packet.buf, num) returns.
ReadLen(t) == IF num[t] <= FILE - pos[t] THEN num[t] ELSE FILE - pos[t]

\* One turn of the loop: read() of a block and its write().
SendFull(t) ==
  /\ up
  /\ pc[t] = "send"
  /\ ReadLen(t) = num[t] /\ num[t] > 0
  /\ Write(sock[t], [command |-> "FILE_SENDING", at |-> pos[t], len |-> num[t]])
  /\ pos' = [pos EXCEPT ![t] = @ + num[t]]
  /\ UNCHANGED <<loopVars, inbox, file, num, clntVars>>

\* Bugs: a full block is marked as the last, too; the last one is not marked.
SendLastEarly(t) ==
  /\ up
  /\ pc[t] = "send"
  /\ 0 < ReadLen(t) /\ ReadLen(t) <= num[t]
  /\ Write(sock[t], [command |-> "FILE_END", at |-> pos[t], len |-> ReadLen(t)])
  /\ pos' = [pos EXCEPT ![t] = @ + ReadLen(t)]
  /\ Goto(t, "ack")
  /\ UNCHANGED <<mainVars, regVars, mutx, fdtab, sock, inbox, file, num, clntVars>>

SendLastUnmarked(t) ==
  /\ up
  /\ pc[t] = "send"
  /\ 0 < ReadLen(t) /\ ReadLen(t) < num[t]
  /\ Write(sock[t], [command |-> "FILE_SENDING", at |-> pos[t], len |-> ReadLen(t)])
  /\ pos' = [pos EXCEPT ![t] = @ + ReadLen(t)]
  /\ Goto(t, "ack")
  /\ UNCHANGED <<mainVars, regVars, mutx, fdtab, sock, inbox, file, num, clntVars>>

SendLast(t) ==
  /\ up
  /\ pc[t] = "send"
  /\ 0 < ReadLen(t) /\ ReadLen(t) < num[t]
  /\ Write(sock[t], [command |-> "FILE_END", at |-> pos[t], len |-> ReadLen(t)])
  /\ pos' = [pos EXCEPT ![t] = @ + ReadLen(t)]
  /\ Goto(t, "ack")
  /\ UNCHANGED <<mainVars, regVars, mutx, fdtab, sock, inbox, file, num, clntVars>>

\* read() returns 0 or -1: the loop ends without the mark, or the thread does.
SendNone(t) ==
  /\ up
  /\ pc[t] = "send"
  /\ ReadLen(t) <= 0
  /\ Goto(t, IF ReadLen(t) = 0 THEN "ack" ELSE "left")
  /\ UNCHANGED <<mainVars, regVars, mutx, fdtab, sock, up, netVars, hdlVars, clntVars>>

\* A bug: any end of the wait is taken for the acknowledgement.
GetAckAny(t) ==
  /\ up
  /\ pc[t] = "waiting"
  /\ \E packet \in Requests : Read(t, packet)
  /\ Goto(t, "remove")
  /\ UNCHANGED <<mainVars, regVars, mutx, fdtab, sock, up, stream, num, pos, clntVars>>

\* The acknowledgement; without it the thread ends as it is.
GetAck(t) ==
  /\ up
  /\ pc[t] = "waiting"
  /\ \E packet \in Requests :
       /\ Read(t, packet)
       /\ Goto(t, IF packet.command = "FILE_END_ACK" THEN "remove" ELSE "left")
  /\ UNCHANGED <<mainVars, regVars, mutx, fdtab, sock, up, stream, num, pos, clntVars>>

\* lock; removal block; close(clnt_sock); unlock
Remove(t) ==
  /\ up
  /\ pc[t] = "remove"
  /\ mutx = NoConn
  /\ RemoveSelf(t)
  /\ fdtab' = [fdtab EXCEPT ![sock[t]] = NoConn]
  /\ Goto(t, "removed")
  /\ UNCHANGED <<mainVars, mutx, sock, up, netVars, hdlVars, clntVars>>

-----------------------------------------------------------------------------
Handler(t) ==
  \/ HandlerStart(t) \/ CallRequest(t) \/ GetRequest(t) \/ SendFull(t) \/ SendLast(t)
  \/ SendNone(t) \/ CallAck(t) \/ GetAck(t) \/ Remove(t)

Main == (\E c \in Conn : MainAccept(c)) \/ MainAppend \/ MainCreate

Receiver(c) == GetBlock(c) \/ GetEnd(c)

Next == Main \/ \E c \in Conn : Request(c) \/ Quit(c) \/ Receiver(c) \/ Handler(c)

Spec == Init /\ [][Next]_vars

\* The threads of the server are scheduled, and so is a client that reads.
FairSpec == /\ Spec
            /\ WF_vars(Main)
            /\ \A c \in Conn : WF_vars(Handler(c)) /\ WF_vars(Receiver(c))

-----------------------------------------------------------------------------
\* Type invariant.
TypeOK ==
  /\ LoopTypeOK(PC)
  /\ up \in BOOLEAN
  /\ peer \in [Conn -> PeerState]
  /\ inbox \in [Conn -> Seq(Requests)]
  /\ stream \in [Conn -> Seq(Blocks)]
  /\ file \in [Conn -> Conn \cup {NoConn}]
  /\ num \in [Conn -> Sizes \cup {0, -1}]
  /\ pos \in [Conn -> 0 .. FILE]
  /\ rc \in [Conn -> {"menu", "reading", "over"}]
  /\ wanted \in [Conn -> Types]
  /\ got \in [Conn -> Int]
  /\ off \in [Conn -> 0 .. PACKET - 1]
  /\ whole \in [Conn -> BOOLEAN]

\* While every handler has its own descriptor, what is on its way to a client
\* follows block after block, although blocks carry no number.  As long as the
\* read()s of a client fall in with the packets, it continues what the client
\* has, no client gets more than the file, and one that was shown "File
\* Transmission Finished" has all of it.
WholeFile ==
  ArgsIntact =>
    \A c \in Conn :
      /\ \A i \in 2 .. Len(stream[c]) :
           stream[c][i].at = stream[c][i - 1].at + stream[c][i - 1].len
      /\ whole[c] =>
           /\ stream[c] # <<>> => Head(stream[c]).at = got[c]
           /\ got[c] <= FILE
           /\ rc[c] = "over" => got[c] = FILE

\* ott_client.c:120-121 prints "File Transmission Finished" and then "Total
\* received bytes": a client that is shown the end has received the file.
FinishedHasAll ==
  ArgsIntact => \A c \in Conn : rc[c] = "over" => got[c] = FILE

\* Whatever descriptors the handlers took, a client's descriptor is closed only
\* once that client has acknowledged the end.
ClosedWhenOver ==
  [][\A f \in Fds : fdtab[f] # NoConn /\ fdtab'[f] = NoConn => rc[fdtab[f]] = "over"]_vars

\* A client that asks at a known speed whose block size does not divide the
\* length gets to the end and its descriptor is released, unless it is killed,
\* the server ends, a handler took another's descriptor, or a read() of the
\* client stopped in the middle of a packet.
Size(type) == CHOOSE n \in NumOf(type) : TRUE

Served ==
  \A c \in Conn :
    rc[c] = "reading" /\ wanted[c] # 0 /\ FILE % Size(wanted[c]) # 0
      ~> \/ rc[c] = "over" /\ pc[c] = "removed"
         \/ rc[c] # "over" /\ peer[c] # "open"
         \/ ~up \/ ~ArgsIntact \/ ~whole[c]

=============================================================================

---------------------------- MODULE SelectRelay -----------------------------
(***************************************************************************)
(* Two servers around one select() loop.  lab6/hw6_server.c relays what a  *)
(* Sender sends to a Receiver, and back what the Receiver returns          *)
(* (lab6/hw6_client.c is both); chapter12/echo_selectserv.c returns to     *)
(* every client what it sends.                                             *)
(*                                                                         *)
(* Descriptors are numbers, the smallest free one is given next, and the   *)
(* listening socket has the smallest.  A unit is what one write() of a     *)
(* client carries; a stream holds BUFFER of them, then write() waits.  The *)
(* time-outs of select() only start the loop again.                        *)
(***************************************************************************)
EXTENDS Integers, Sequences, FiniteSets, TcpPeer

CONSTANTS Guests,   \* the clients
          UNITS,    \* blocks of a Sender's file; units of an echo client
          BUFFER,   \* bound: units a stream holds
          MaxLeft   \* bound: clients that leave

ASSUME RelayAssumption == /\ IsFiniteSet(Guests)
                          /\ "nobody" \notin Guests
                          /\ UNITS \in Nat
                          /\ BUFFER \in Nat \ {0}
                          /\ MaxLeft \in Nat

serv_sock == 0
Fds    == 1 .. Cardinality(Guests)
NoSocket  == -1            \* of sender_sock and receiver_sock: no descriptor in use
Nobody == "nobody"
Roles  == {"Sender", "Receiver"}
Unit(c, n) == [from |-> c, n |-> n]    \* unit 0 tells the role

VARIABLES
  relaying,    \* the server is hw6_server
  selPc,       \* it waits in "select", "scan"s, reads a "role", "write"s; "dead"
  pending,     \* connections not accepted yet
  reads,
  cpy_reads,   \* the descriptors select() found ready that are still to be seen
  conn,        \* whose connection a descriptor is
  atSelect,    \* whose it was when select() returned
  clnt_sock, sender_sock, receiver_sock,
  buf,         \* the unit to write, and where to
  peer,        \* what the server's kernel knows of a client
  up, down,    \* what is on its way to the server, to a client
  guest,       \* a client: "start", says its "role", "select", "write", "read",
               \* "dead"
  role,        \* "Sender", "Receiver", "Echo"; "none" before it connects
  next,        \* units it has taken from its file or user
  got          \* units it has received

loopVars  == <<relaying, pending, reads, cpy_reads, conn, atSelect, clnt_sock>>
sockVars  == <<sender_sock, receiver_sock>>
guestVars == <<guest, role, next, got>>
relayVars == <<loopVars, sockVars, selPc, buf, peer, up, down, guestVars>>

RelayInit(withRoles) ==
  /\ relaying = withRoles
  /\ selPc = "select"
  /\ pending = <<>>
  /\ reads = {serv_sock}
  /\ cpy_reads = {}
  /\ conn = [f \in Fds |-> Nobody]
  /\ atSelect = conn
  /\ clnt_sock = NoSocket
  /\ sender_sock = NoSocket
  /\ receiver_sock = NoSocket
  /\ buf = <<>>
  /\ peer = [c \in Guests |-> "open"]
  /\ up = [c \in Guests |-> <<>>]
  /\ down = [c \in Guests |-> <<>>]
  /\ guest = [c \in Guests |-> "start"]
  /\ role = [c \in Guests |-> "none"]
  /\ next = [c \in Guests |-> 0]
  /\ got = [c \in Guests |-> <<>>]

-----------------------------------------------------------------------------
\* The server.

Readable(f) == IF f = serv_sock THEN pending # <<>>
               ELSE up[conn[f]] # <<>> \/ peer[conn[f]] # "open"

Select ==
  /\ selPc = "select"
  /\ cpy_reads' = {f \in reads : Readable(f)}
  /\ cpy_reads' # {}
  /\ atSelect' = conn
  /\ selPc' = "scan"
  /\ UNCHANGED <<relaying, pending, reads, conn, clnt_sock, sockVars, buf, peer, up, down,
                 guestVars>>

ScanOver ==
  /\ selPc = "scan"
  /\ cpy_reads = {}
  /\ selPc' = "select"
  /\ UNCHANGED <<loopVars, sockVars, buf, peer, up, down, guestVars>>

\* The scan is at f.
Sees(f) == selPc = "scan" /\ f \in cpy_reads /\ \A g \in cpy_reads : f <= g
Seen(f) == cpy_reads' = cpy_reads \ {f}

SmallestFree(f) == conn[f] = Nobody /\ \A g \in Fds : conn[g] = Nobody => f <= g

\* accept(); the relay goes on to read the role of the client.
AcceptGuest ==
  /\ Sees(serv_sock)
  /\ Seen(serv_sock)
  /\ \E f \in Fds :
       /\ SmallestFree(f)
       /\ clnt_sock' = f
       /\ conn' = [conn EXCEPT ![f] = Head(pending)]
       /\ reads' = reads \cup {f}
  /\ pending' = Tail(pending)
  /\ selPc' = IF relaying THEN "role" ELSE "scan"
  /\ UNCHANGED <<relaying, atSelect, sockVars, buf, peer, up, down, guestVars>>

\* A bug: the result of strcmp() is taken for a truth value.
SaysInverted(c, r) == role[c] # r

\* What client c says, unit 0, is r.
Says(c, r) == role[c] = r

\* The read() waits for the client, and everybody for it.  It takes the role
\* and what has come of the first block, which the relay never passes on: all of
\* a short block, all but the last few bytes of a long one, which stay in the
\* stream in its place.
ReadRole ==
  /\ selPc = "role"
  /\ LET c == conn[clnt_sock]
     IN  /\ up[c] # <<>>
         /\ sender_sock' = IF Says(c, "Sender") THEN clnt_sock ELSE sender_sock
         /\ receiver_sock' = IF Says(c, "Receiver") THEN clnt_sock ELSE receiver_sock
         /\ \E rest \in {2, 3} : up' = [up EXCEPT ![c] = SubSeq(@, rest, Len(@))]
  /\ selPc' = "scan"
  /\ UNCHANGED <<loopVars, buf, peer, down, guestVars>>

\* The client is gone without one: its descriptor stays in reads.
ReadNoRole ==
  /\ selPc = "role"
  /\ up[conn[clnt_sock]] = <<>>
  /\ peer[conn[clnt_sock]] # "open"
  /\ peer' = [peer EXCEPT ![conn[clnt_sock]] = IF @ = "err" THEN "rst" ELSE @]
  /\ selPc' = "scan"
  /\ UNCHANGED <<loopVars, sockVars, buf, up, down, guestVars>>

\* Neither sender_sock nor receiver_sock: ready again at the next select().
Ignores(f) == relaying /\ f \notin {sender_sock, receiver_sock}
Ignore ==
  /\ \E f \in Fds : Sees(f) /\ Ignores(f) /\ Seen(f)
  /\ UNCHANGED <<selPc, relaying, pending, reads, conn, atSelect, clnt_sock, sockVars, buf,
                 peer, up, down, guestVars>>

\* A bug: what the Receiver returns goes to the Receiver.
DestReceiver(f) == IF relaying THEN receiver_sock ELSE f

Dest(f) == IF ~relaying THEN f
           ELSE IF f = sender_sock THEN receiver_sock ELSE sender_sock

ReadUnit(f) ==
  /\ Sees(f) /\ ~Ignores(f) /\ Seen(f)
  /\ up[conn[f]] # <<>>
  /\ buf' = <<Head(up[conn[f]]), Dest(f)>>
  /\ up' = [up EXCEPT ![conn[f]] = Tail(@)]
  /\ selPc' = "write"
  /\ UNCHANGED <<relaying, pending, reads, conn, atSelect, clnt_sock, sockVars, peer, down,
                 guestVars>>

\* read() returns 0: sender_sock and receiver_sock stay.
ReadEnd(f) ==
  /\ Sees(f) /\ ~Ignores(f) /\ Seen(f)
  /\ up[conn[f]] = <<>>
  /\ peer[conn[f]] \in {"fin", "rst"}
  /\ reads' = reads \ {f}
  /\ conn' = [conn EXCEPT ![f] = Nobody]
  /\ UNCHANGED <<selPc, relaying, pending, atSelect, clnt_sock, sockVars, buf, peer, up, down,
                 guestVars>>

\* read() returns -1, and so does the write() of -1 bytes.
ReadError(f) ==
  /\ Sees(f) /\ ~Ignores(f) /\ Seen(f)
  /\ up[conn[f]] = <<>>
  /\ peer[conn[f]] = "err"
  /\ peer' = [peer EXCEPT ![conn[f]] = "rst"]
  /\ UNCHANGED <<selPc, relaying, pending, reads, conn, atSelect, clnt_sock, sockVars, buf,
                 up, down, guestVars>>

Target == IF buf[2] \in Fds THEN conn[buf[2]] ELSE Nobody

WriteUnit ==
  /\ selPc = "write"
  /\ Target # Nobody
  /\ peer[Target] = "open"
  /\ Len(down[Target]) < BUFFER
  /\ down' = [down EXCEPT ![Target] = Append(@, buf[1])]
  /\ buf' = <<>>
  /\ selPc' = "scan"
  /\ UNCHANGED <<loopVars, sockVars, peer, up, guestVars>>

\* write() to a client that is gone, or to no descriptor at all, which fails.
WriteLost ==
  /\ selPc = "write"
  /\ \/ Target = Nobody /\ UNCHANGED peer
     \/ /\ Target # Nobody
        /\ peer[Target] # "open" /\ ~WriteKills(peer[Target])
        /\ \E p \in AfterWrite(peer[Target]) : peer' = [peer EXCEPT ![Target] = p]
  /\ buf' = <<>>
  /\ selPc' = "scan"
  /\ UNCHANGED <<loopVars, sockVars, up, down, guestVars>>

\* SIGPIPE ends the server.
WriteKilled ==
  /\ selPc = "write"
  /\ Target # Nobody
  /\ WriteKills(peer[Target])
  /\ selPc' = "dead"
  /\ UNCHANGED <<loopVars, sockVars, buf, peer, up, down, guestVars>>

-----------------------------------------------------------------------------
\* The clients.

ConnectGuest(c) ==
  /\ guest[c] = "start"
  /\ pending' = Append(pending, c)
  /\ \E r \in IF relaying THEN Roles ELSE {"Echo"} : role' = [role EXCEPT ![c] = r]
  /\ guest' = [guest EXCEPT ![c] = IF relaying THEN "role" ELSE "select"]
  /\ UNCHANGED <<selPc, relaying, reads, cpy_reads, conn, atSelect, clnt_sock, sockVars, buf,
                 peer, up, down, next, got>>

Send(c, what) == up' = [up EXCEPT ![c] = Append(@, what)]

SayRole(c) ==
  /\ guest[c] = "role"
  /\ Send(c, Unit(c, 0))
  /\ guest' = [guest EXCEPT ![c] = "select"]
  /\ UNCHANGED <<selPc, loopVars, sockVars, buf, peer, down, role, next, got>>

\* A Sender's loop: a block of the file first, as long as there is one; then,
\* if select() saw it, a unit that came back.  An echo client sends the next
\* unit when it has the last one back.
TakeBlock(c) ==
  /\ guest[c] = "select"
  /\ \/ role[c] = "Sender"
     \/ role[c] = "Echo" /\ Len(got[c]) = next[c]
  /\ next[c] < UNITS
  /\ next' = [next EXCEPT ![c] = @ + 1]
  /\ guest' = [guest EXCEPT ![c] = IF down[c] # <<>> THEN "writeRead" ELSE "write"]
  /\ UNCHANGED <<selPc, loopVars, sockVars, buf, peer, up, down, role, got>>

WriteBlock(c) ==
  /\ guest[c] \in {"write", "writeRead"}
  /\ Len(up[c]) < BUFFER
  /\ Send(c, IF role[c] = "Receiver" THEN got[c][Len(got[c])] ELSE Unit(c, next[c]))
  /\ guest' = [guest EXCEPT ![c] = IF @ = "writeRead" THEN "read" ELSE "select"]
  /\ UNCHANGED <<selPc, loopVars, sockVars, buf, peer, down, role, next, got>>

\* A unit has come: a Receiver sends it back.
TakeUnit(c) ==
  /\ \/ guest[c] = "read"
     \/ guest[c] = "select" /\ (role[c] = "Sender" => next[c] = UNITS)
  /\ down[c] # <<>>
  /\ got' = [got EXCEPT ![c] = Append(@, Head(down[c]))]
  /\ down' = [down EXCEPT ![c] = Tail(@)]
  /\ guest' = [guest EXCEPT ![c] = IF role[c] = "Receiver" THEN "write" ELSE "select"]
  /\ UNCHANGED <<selPc, loopVars, sockVars, buf, peer, up, role, next>>

\* The user ends a client, whatever it is doing.
Leave(c) ==
  /\ guest[c] \notin {"start", "dead"}
  /\ Cardinality({d \in Guests : guest[d] = "dead"}) < MaxLeft
  /\ guest' = [guest EXCEPT ![c] = "dead"]
  /\ \E p \in AfterClose(down[c] # <<>>) : peer' = [peer EXCEPT ![c] = p]
  /\ UNCHANGED <<selPc, loopVars, sockVars, buf, up, down, role, next, got>>

RelayStep == \/ Select \/ ScanOver \/ AcceptGuest \/ ReadRole \/ ReadNoRole \/ Ignore
             \/ \E f \in Fds : ReadUnit(f) \/ ReadEnd(f) \/ ReadError(f)
             \/ WriteUnit \/ WriteLost \/ WriteKilled
GuestStep(c) == SayRole(c) \/ TakeBlock(c) \/ WriteBlock(c) \/ TakeUnit(c)

RelayNext == \/ RelayStep
             \/ \E c \in Guests : ConnectGuest(c) \/ GuestStep(c) \/ Leave(c)

-----------------------------------------------------------------------------
Units == [from : Guests, n : 1 .. UNITS]

RelayTypeOK ==
  /\ selPc \in {"select", "scan", "role", "write", "dead"}
  /\ pending \in Seq(Guests)
  /\ reads \subseteq {serv_sock} \cup Fds
  /\ cpy_reads \subseteq reads
  /\ conn \in [Fds -> Guests \cup {Nobody}]
  /\ {clnt_sock, sender_sock, receiver_sock} \subseteq Fds \cup {NoSocket}
  /\ buf = <<>> \/ buf \in Units \X (Fds \cup {NoSocket})
  /\ peer \in [Guests -> PeerState]
  /\ up \in [Guests -> Seq([from : Guests, n : 0 .. UNITS])]
  /\ down \in [Guests -> Seq(Units)]
  /\ guest \in [Guests -> {"start", "role", "select", "write", "writeRead", "read", "dead"}]
  /\ role \in [Guests -> Roles \cup {"Echo", "none"}]
  /\ next \in [Guests -> 0 .. UNITS]
  /\ got \in [Guests -> Seq(Units)]

\* sock is not the connection of a client of role r, though it is somebody's.
Misled(sock, r) == sock \in Fds /\ conn[sock] # Nobody /\ role[conn[sock]] # r

\* A descriptor that the scan has still to see is the connection select() found
\* ready, though connections are accepted and closed, and descriptors given
\* again, during the scan; what lasts longer than a scan goes stale: sender_sock
\* and receiver_sock name a client of the other role once one of the right role
\* has left, and only then.
SocketsCurrent ==
  /\ \A f \in cpy_reads \ {serv_sock} : conn[f] = atSelect[f] /\ conn[f] # Nobody
  /\ Misled(sender_sock, "Sender") =>
       \E c \in Guests : guest[c] = "dead" /\ role[c] = "Sender"
  /\ Misled(receiver_sock, "Receiver") =>
       \E c \in Guests : guest[c] = "dead" /\ role[c] = "Receiver"

\* The relay has had one Sender, s, and one Receiver, r, and nobody left.
Alone(s, r) ==
  /\ role[s] = "Sender"
  /\ role[r] = "Receiver"
  /\ \A c \in Guests : guest[c] # "dead" /\ (c \notin {s, r} => role[c] = "none")

Ascending(units) ==
  \A i, j \in DOMAIN units :
    i < j /\ units[i].from = units[j].from => units[i].n < units[j].n

\* Nobody ever receives a Sender's blocks in another order than they have in
\* the file, or one of them twice, whoever leaves, comes late or takes over a
\* role or a descriptor.  Between one Sender and one Receiver none is left out
\* either, from the first that is relayed, and they come back the same.  An
\* echo client receives what it sent.
RelayInOrder ==
  /\ \A c \in Guests : Ascending(got[c])
  /\ \A s, r \in Guests : Alone(s, r) =>
       /\ \A i \in DOMAIN got[r] : got[r][i].n = got[r][1].n + i - 1
       /\ Len(got[s]) <= Len(got[r])
       /\ \A i \in DOMAIN got[s] : got[s][i] = got[r][i]
  /\ ~relaying =>
       \A c \in Guests : \A i \in DOMAIN got[c] : got[c][i] = Unit(c, i)

\* c has not got back all that its Receiver has, or all that it sent.
Behind(c) ==
  \/ \E r \in Guests : Alone(c, r) /\ Len(got[c]) < Len(got[r])
  \/ role[c] = "Echo" /\ guest[c] # "dead" /\ Len(got[c]) < next[c]

\* Every client catches up: the server and both clients never all wait to write
\* to each other, while the file fits twice into a stream with a block more.
RelayFlows == \A c \in Guests : []<>~Behind(c)

RelaySpec == (\E withRoles \in BOOLEAN : RelayInit(withRoles)) /\ [][RelayNext]_relayVars
=============================================================================

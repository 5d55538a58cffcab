----------------------------- MODULE FileFetch -----------------------------
(***************************************************************************)
(* Midterm/server/udp_server.c and Midterm/client/udp_client.c: a client   *)
(* fetches a file over UDP, asking for one block at a time.  Nobody has a  *)
(* timeout and datagrams carry no block number.  The server answers the    *)
(* sender of the datagram it received last and serves one file, then ends. *)
(*                                                                         *)
(* The network loses, duplicates and reorders datagrams.  A block of the   *)
(* file stands for its bytes, which are text: printf("%s") prints a full   *)
(* block, for it is followed by the zero bytes of result.                  *)
(***************************************************************************)
EXTENDS Integers, Sequences, FiniteSets

CONSTANTS Clients,    \* the client processes
          BUF_SIZE,   \* bytes of a block (1024 in the code)
          Blocks,     \* full blocks of the file
          Rest,       \* bytes after them
          MaxFaults   \* bound: datagrams lost or delivered once more

ASSUME FileAssumption == /\ BUF_SIZE \in Nat \ {0}
                         /\ Blocks \in Nat
                         /\ Rest \in 0 .. BUF_SIZE - 1
                         /\ MaxFaults \in Nat

\* What successive reads of the file return: the blocks, the rest, then nothing.
LastBlock    == Blocks + 1
Nothing == Blocks + 2
FullBytes(b) == b * BUF_SIZE
BytesOf(b) == IF b <= Blocks THEN BUF_SIZE ELSE IF b = LastBlock THEN Rest ELSE 0

Cmd == {"NAME_REQ", "NAME_RES", "FILE_REQ", "FILE_SEND", "FILE_END", "FILE_END_ACK"}

\* A PACKET between client c and the server; blk is the content of buf, and
\* Nothing in packets whose buf is not used.
ToServer == [to : {"server"}, c : Clients, cmd : {"NAME_REQ", "FILE_REQ", "FILE_END_ACK"}]
ToClient == [to : {"client"}, c : Clients,
             cmd : {"NAME_RES", "FILE_SEND", "FILE_END"},
             found : BOOLEAN, blk : 1 .. Nothing]

Asking(c, cmd) == [to |-> "server", c |-> c, cmd |-> cmd]
Telling(c, cmd, found, blk) ==
  [to |-> "client", c |-> c, cmd |-> cmd, found |-> found, blk |-> blk]

VARIABLES
  net,       \* the datagrams on their way
  faults,    \* how many were lost or delivered once more
  dups,      \* how many were delivered once more
  exists,    \* the file can be opened
  spc,       \* the server waits for: "name", "request", "ack"; or "end"
  pos,       \* reads of the file done, up to its end
  sCount,    \* the server's count
  sSize,     \* and size
  cpc,       \* each client: "start"; waits for "name", "block"; "end"
  printed,   \* the blocks each client has printed
  cCount, cSize

srvVars  == <<exists, spc, pos, sCount, sSize>>
clntVars == <<cpc, printed, cCount, cSize>>
fileVars     == <<net, faults, dups, srvVars, clntVars>>

FileInit ==
  /\ net = {}
  /\ faults = 0
  /\ dups = 0
  /\ exists \in BOOLEAN
  /\ spc = "name"
  /\ pos = 0
  /\ sCount = 0
  /\ sSize = 0
  /\ cpc = [c \in Clients |-> "start"]
  /\ printed = [c \in Clients |-> <<>>]
  /\ cCount = [c \in Clients |-> 0]
  /\ cSize = [c \in Clients |-> 0]

-----------------------------------------------------------------------------
\* The network.

Lose ==
  /\ faults < MaxFaults
  /\ \E d \in net : net' = net \ {d}
  /\ faults' = faults + 1
  /\ UNCHANGED <<dups, srvVars, clntVars>>

\* d is received, once more later if the network duplicated it, and answered.
Answer(d, answers) ==
  \/ /\ net' = (net \ {d}) \cup answers
     /\ UNCHANGED <<faults, dups>>
  \/ /\ faults < MaxFaults
     /\ net' = net \cup answers
     /\ faults' = faults + 1
     /\ dups' = dups + 1

-----------------------------------------------------------------------------
\* The server.

\* The first datagram names the file; open()
ServeName(d) ==
  /\ d \in net /\ d.to = "server"
  /\ spc = "name"
  /\ spc' = IF exists THEN "request" ELSE "end"
  /\ Answer(d, {Telling(d.c, "NAME_RES", exists, Nothing)})
  /\ UNCHANGED <<exists, pos, sCount, sSize, clntVars>>

\* What the next read() of the file returns.
NextBlock == IF pos < LastBlock THEN pos + 1 ELSE Nothing

\* Bugs: whatever comes is taken for a request; the end of a file of whole
\* blocks is not announced; the count of reads runs past the end of the file.
ServeBlockAny(d) ==
  /\ d \in net /\ d.to = "server"
  /\ spc = "request"
  /\ pos' = IF pos < LastBlock THEN pos + 1 ELSE pos
  /\ sCount' = sCount + 1
  /\ sSize' = sSize + BytesOf(NextBlock)
  /\ IF BytesOf(NextBlock) = BUF_SIZE
       THEN /\ Answer(d, {Telling(d.c, "FILE_SEND", TRUE, NextBlock)})
            /\ UNCHANGED spc
       ELSE /\ Answer(d, {Telling(d.c, "FILE_END", TRUE, NextBlock)})
            /\ spc' = "ack"
  /\ UNCHANGED <<exists, clntVars>>

ServeBlockNoEnd(d) ==
  /\ d \in net /\ d.to = "server"
  /\ spc = "request"
  /\ d.cmd = "FILE_REQ"
  /\ BytesOf(NextBlock) > 0
  /\ pos' = IF pos < LastBlock THEN pos + 1 ELSE pos
  /\ sCount' = sCount + 1
  /\ sSize' = sSize + BytesOf(NextBlock)
  /\ IF BytesOf(NextBlock) = BUF_SIZE
       THEN /\ Answer(d, {Telling(d.c, "FILE_SEND", TRUE, NextBlock)})
            /\ UNCHANGED spc
       ELSE /\ Answer(d, {Telling(d.c, "FILE_END", TRUE, NextBlock)})
            /\ spc' = "ack"
  /\ UNCHANGED <<exists, clntVars>>

\* read(fd, packet.buf, BUF_SIZE); a full block is sent as FILE_SEND, anything
\* shorter as FILE_END.
ServeBlock(d) ==
  /\ d \in net /\ d.to = "server"
  /\ spc = "request"
  /\ d.cmd = "FILE_REQ"
  /\ pos' = IF pos < LastBlock THEN pos + 1 ELSE pos
  /\ sCount' = sCount + 1
  /\ sSize' = sSize + BytesOf(NextBlock)
  /\ IF BytesOf(NextBlock) = BUF_SIZE
       THEN /\ Answer(d, {Telling(d.c, "FILE_SEND", TRUE, NextBlock)})
            /\ UNCHANGED spc
       ELSE /\ Answer(d, {Telling(d.c, "FILE_END", TRUE, NextBlock)})
            /\ spc' = "ack"
  /\ UNCHANGED <<exists, clntVars>>

\* A bug: a second client is answered during a transfer.
ServeOtherAsName(d) ==
  /\ d \in net /\ d.to = "server"
  /\ spc = "request"
  /\ d.cmd # "FILE_REQ"
  /\ Answer(d, {Telling(d.c, "NAME_RES", TRUE, Nothing)})
  /\ UNCHANGED <<srvVars, clntVars>>

\* Anything else that comes while a request is due is dropped.
ServeOther(d) ==
  /\ d \in net /\ d.to = "server"
  /\ spc = "request"
  /\ d.cmd # "FILE_REQ"
  /\ Answer(d, {})
  /\ UNCHANGED <<srvVars, clntVars>>

\* The one datagram taken for the acknowledgement; if it is something else the
\* server goes back to waiting for requests.
ServeAck(d) ==
  /\ d \in net /\ d.to = "server"
  /\ spc = "ack"
  /\ spc' = IF d.cmd = "FILE_END_ACK" THEN "end" ELSE "request"
  /\ Answer(d, {})
  /\ UNCHANGED <<exists, pos, sCount, sSize, clntVars>>

-----------------------------------------------------------------------------
\* A client.

\* The user names the file; FILE_NAME_REQ
Start(c) ==
  /\ cpc[c] = "start"
  /\ cpc' = [cpc EXCEPT ![c] = "name"]
  /\ net' = net \cup {Asking(c, "NAME_REQ")}
  /\ UNCHANGED <<faults, dups, srvVars, printed, cCount, cSize>>

\* The first answer: the first request, or the end.
GetName(c, d) ==
  LET go == d.cmd = "NAME_RES" /\ d.found
  IN  /\ d \in net /\ d.to = "client" /\ d.c = c
      /\ cpc[c] = "name"
      /\ cpc' = [cpc EXCEPT ![c] = IF go THEN "block" ELSE "end"]
      /\ Answer(d, IF go THEN {Asking(c, "FILE_REQ")} ELSE {})
      /\ UNCHANGED <<srvVars, printed, cCount, cSize>>

\* count and size are taken whatever came.
Counted(c, d) ==
  /\ cCount' = [cCount EXCEPT ![c] = @ + 1]
  /\ cSize' = [cSize EXCEPT ![c] = @ + BytesOf(d.blk)]

PrintBlock(c, d) ==
  printed' = IF d.blk = Nothing THEN printed
             ELSE [printed EXCEPT ![c] = Append(@, d.blk)]

\* A bug: the end mark's bytes are not printed.
GetEndMark(c, d) ==
  /\ d \in net /\ d.to = "client" /\ d.c = c
  /\ cpc[c] = "block"
  /\ d.cmd = "FILE_END"
  /\ Counted(c, d)
  /\ cpc' = [cpc EXCEPT ![c] = "end"]
  /\ Answer(d, {Asking(c, "FILE_END_ACK")})
  /\ UNCHANGED <<srvVars, printed>>

\* FILE_SEND: print the block and ask for the next one.
GetBlock(c, d) ==
  /\ d \in net /\ d.to = "client" /\ d.c = c
  /\ cpc[c] = "block"
  /\ d.cmd = "FILE_SEND"
  /\ Counted(c, d)
  /\ PrintBlock(c, d)
  /\ Answer(d, {Asking(c, "FILE_REQ")})
  /\ UNCHANGED <<srvVars, cpc>>

\* FILE_END: print the rest, acknowledge, end.
GetEnd(c, d) ==
  /\ d \in net /\ d.to = "client" /\ d.c = c
  /\ cpc[c] = "block"
  /\ d.cmd = "FILE_END"
  /\ Counted(c, d)
  /\ PrintBlock(c, d)
  /\ cpc' = [cpc EXCEPT ![c] = "end"]
  /\ Answer(d, {Asking(c, "FILE_END_ACK")})
  /\ UNCHANGED srvVars

\* A NAME_RES that comes again is counted and dropped.
GetOther(c, d) ==
  /\ d \in net /\ d.to = "client" /\ d.c = c
  /\ cpc[c] = "block"
  /\ d.cmd = "NAME_RES"
  /\ Counted(c, d)
  /\ Answer(d, {})
  /\ UNCHANGED <<srvVars, cpc, printed>>

-----------------------------------------------------------------------------
Server == \E d \in net : ServeName(d) \/ ServeBlock(d) \/ ServeOther(d) \/ ServeAck(d)

Receive(c) ==
  \E d \in net : GetName(c, d) \/ GetBlock(c, d) \/ GetEnd(c, d) \/ GetOther(c, d)

FileNext ==
  \/ Lose
  \/ Server
  \/ \E c \in Clients : Start(c) \/ Receive(c)

FileSpec == FileInit /\ [][FileNext]_fileVars

-----------------------------------------------------------------------------
\* Type invariant.
FileTypeOK ==
  /\ net \subseteq ToServer \cup ToClient
  /\ faults \in 0 .. MaxFaults
  /\ dups \in 0 .. faults
  /\ exists \in BOOLEAN
  /\ spc \in {"name", "request", "ack", "end"}
  /\ pos \in 0 .. LastBlock
  /\ sCount \in Nat
  /\ sSize \in Nat
  /\ cpc \in [Clients -> {"start", "name", "block", "end"}]
  /\ printed \in [Clients -> Seq(1 .. LastBlock)]
  /\ cCount \in [Clients -> Nat]
  /\ cSize \in [Clients -> Nat]

\* The file up to its b-th block.
FileUpTo(b) == [i \in 1 .. b |-> i]

\* Whatever is lost and whoever else asks, what a client has printed is a
\* prefix of the file: nothing is skipped, repeated or swapped although blocks
\* carry no number, as long as no datagram arrives twice.
Prefix ==
  dups = 0 => \A c \in Clients : printed[c] = FileUpTo(Len(printed[c]))

\* A client that reached the end has printed the whole file, and the totals it
\* shows are the server's: the number of blocks and the bytes of the file.
TotalsAgree ==
  dups = 0 =>
    \A c \in Clients :
      cpc[c] = "end" /\ printed[c] # <<>> =>
        /\ Len(printed[c]) = LastBlock
        /\ cCount[c] = sCount
        /\ cSize[c] = sSize
        /\ sSize = FullBytes(Blocks) + Rest

\* The server has one file position, and it serves one client only: whatever
\* arrives and however often, two clients never share the file's blocks.
OneServed ==
  \A c, d \in Clients : printed[c] # <<>> /\ printed[d] # <<>> => c = d

\* Without a fault the first client served reaches the end, and the server
\* too if no second client asks while it waits for the acknowledgement.
Finishes ==
  /\ (\E c \in Clients : cpc[c] # "start")
       ~> (faults > 0 \/ \E c \in Clients : cpc[c] = "end")
  /\ \A c \in Clients :
       cpc[c] = "end"
         ~> (faults > 0 \/ spc = "end" \/ \E d \in Clients \ {c} : cpc[d] # "start")

\* The inductive invariant, in two parts.  One client at most was told the file
\* exists; every datagram but a first request is its, or says there is no file.
OfTransfer(d) == d.cmd # "NAME_REQ" /\ (d.cmd = "NAME_RES" => d.found)

Served ==
  {c \in Clients : \/ cpc[c] = "block" \/ printed[c] # <<>>
                    \/ \E d \in net : d.c = c /\ OfTransfer(d)}

OneInv ==
  /\ \A c, d \in Served : c = d
  /\ spc = "name" => Served = {}

\* Without duplicates the client and the server take turns: client c has b
\* blocks, the server has read p of them.
HasBlocks(c, b) ==
  printed[c] = FileUpTo(b) /\ cCount[c] = b /\ cSize[c] = FullBytes(b)

HasRead(p) == pos = p /\ sCount = p /\ sSize = FullBytes(p)

WholeFileRead ==
  pos = LastBlock /\ sCount = LastBlock /\ sSize = FullBytes(Blocks) + Rest

DatagramOK(d) ==
  /\ d.cmd = "NAME_REQ" => cpc[d.c] = "name"
  /\ d.cmd = "NAME_RES" =>
       cpc[d.c] = "name" /\ (d.found => spc = "request" /\ HasRead(0))
  /\ d.cmd = "FILE_REQ" =>
       /\ cpc[d.c] = "block"
       /\ spc = "request"
       /\ \E b \in 0 .. Blocks : HasBlocks(d.c, b) /\ HasRead(b)
  /\ d.cmd = "FILE_SEND" =>
       /\ cpc[d.c] = "block"
       /\ spc = "request"
       /\ d.blk \in 1 .. Blocks /\ HasBlocks(d.c, d.blk - 1) /\ HasRead(d.blk)
  /\ d.cmd = "FILE_END" =>
       /\ cpc[d.c] = "block"
       /\ d.blk = LastBlock /\ HasBlocks(d.c, Blocks) /\ WholeFileRead
  /\ d.cmd = "FILE_END_ACK" => cpc[d.c] = "end"

ClientOK(c) ==
  /\ cpc[c] \in {"start", "name"} => HasBlocks(c, 0)
  /\ cpc[c] = "start" => \A d \in net : d.c # c
  /\ cpc[c] = "block" => \E b \in 0 .. Blocks : HasBlocks(c, b)
  /\ cpc[c] = "end" /\ printed[c] # <<>> =>
       /\ printed[c] = FileUpTo(LastBlock)
       /\ cCount[c] = LastBlock /\ cSize[c] = sSize
       /\ WholeFileRead

TurnInv ==
  /\ \A d, e \in net : d.c = e.c => d = e
  /\ \A d \in net : DatagramOK(d)
  /\ \A c \in Clients : ClientOK(c)
  /\ spc = "name" => HasRead(0)

IInv == FileTypeOK /\ OneInv /\ (dups = 0 => TurnInv)

=============================================================================

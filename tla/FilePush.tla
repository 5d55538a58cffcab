------------------------------ MODULE FilePush ------------------------------
(***************************************************************************)
(* lab4-1/server/udp_server.c and lab4-1/client/udp_client.c: a server     *)
(* pushes one file, block after block on a timer of a second, to the       *)
(* sender of the first datagram it gets, then waits for any datagram and   *)
(* ends.  Blocks carry no number and only the short last one is announced  *)
(* as the last.                                                            *)
(*                                                                         *)
(* Each socket queues its datagrams in order; the network loses, doubles   *)
(* or swaps a bounded number of them.  A file is its length, a block the   *)
(* bytes it carries and how many the file has before it.                   *)
(***************************************************************************)
EXTENDS Integers, Sequences, SequencesExt

CONSTANTS Fetchers,      \* the client processes
          PUSH_BUF,      \* bytes of a full block (1024 in the code)
          MaxFile,       \* bound: bytes of the longest file
          PushFaultBound \* bound: datagrams the network mistreats

ASSUME PushAssumption == /\ PUSH_BUF \in Nat \ {0}
                         /\ MaxFile \in Nat
                         /\ PushFaultBound \in Nat

\* The length of the file that is not there.
Missing == -1

VARIABLES
  toPusher,    \* datagrams queued at the server: their sender and cmd
  toFetcher,   \* datagrams queued at each client
  pushFaults,  \* what the network has done, in order
  pushPc,      \* the server: waits for a "request", "push"es, waits for an "ack", "end"
  pushFile,    \* the length of the file that open() found
  pushPeer,    \* clnt_adr
  pushSize,    \* size: the bytes read so far
  pushCount,   \* count
  fetchPc,     \* a client: "start", "receive", "end"
  fetched,     \* the blocks it has received, as many as its count says
  fetchSize    \* its size: the bytes they carry

pushNet  == <<toPusher, toFetcher, pushFaults>>
pusher   == <<pushPc, pushFile, pushPeer, pushSize, pushCount>>
fetchers == <<fetchPc, fetched, fetchSize>>
pushVars == <<pushNet, pusher, fetchers>>

Request(c) == [from |-> c, cmd |-> "FILE_REQ"]
EndAck(c)  == [from |-> c, cmd |-> "FILE_END_ACK"]
Block(cmd, at, len) == [cmd |-> cmd, at |-> at, len |-> len]
NotFound == Block("FILE_NOT_FOUND", 0, 0)

PushInit ==
  /\ toPusher = <<>>
  /\ toFetcher = [c \in Fetchers |-> <<>>]
  /\ pushFaults = <<>>
  /\ pushPc = "request"
  /\ pushFile = Missing
  /\ pushPeer = CHOOSE c \in Fetchers : TRUE    \* read only after it is set
  /\ pushSize = 0
  /\ pushCount = 0
  /\ fetchPc = [c \in Fetchers |-> "start"]
  /\ fetched = [c \in Fetchers |-> <<>>]
  /\ fetchSize = [c \in Fetchers |-> 0]

-----------------------------------------------------------------------------
\* The server.

SendBlock(b) == toFetcher' = [toFetcher EXCEPT ![pushPeer] = Append(@, b)]

\* The first datagram names the file and its sender gets it, found or not.
ServeRequest ==
  /\ pushPc = "request"
  /\ toPusher # <<>>
  /\ pushPeer' = Head(toPusher).from
  /\ toPusher' = Tail(toPusher)
  /\ \E len \in 0 .. MaxFile :
       /\ pushFile' = len
       /\ pushPc' = "push"
       /\ UNCHANGED toFetcher
     \/ /\ pushFile' = Missing
        /\ pushPc' = "end"
        /\ toFetcher' = [toFetcher EXCEPT ![Head(toPusher).from] = Append(@, NotFound)]
  /\ UNCHANGED <<pushFaults, pushSize, pushCount, fetchers>>

\* What read() of the file returns next.
BytesLeft == pushFile - pushSize

Count(len) ==
  /\ pushSize' = pushSize + len
  /\ pushCount' = pushCount + 1

PushFull ==
  /\ pushPc = "push"
  /\ BytesLeft >= PUSH_BUF
  /\ Count(PUSH_BUF)
  /\ SendBlock(Block("FILE_RES", pushSize, PUSH_BUF))
  /\ UNCHANGED <<toPusher, pushFaults, pushPc, pushFile, pushPeer, fetchers>>

PushShort ==
  /\ pushPc = "push"
  /\ BytesLeft \in 1 .. PUSH_BUF - 1
  /\ Count(BytesLeft)
  /\ SendBlock(Block("FILE_END", pushSize, BytesLeft))
  /\ pushPc' = "ack"
  /\ UNCHANGED <<toPusher, pushFaults, pushFile, pushPeer, fetchers>>

\* read() returns 0 after whole blocks: nobody is told.
PushNothing ==
  /\ pushPc = "push"
  /\ BytesLeft = 0
  /\ pushPc' = "end"
  /\ UNCHANGED <<pushNet, pushFile, pushPeer, pushSize, pushCount, fetchers>>

\* FILE_END_ACK ends the loop, and so does read() after anything else: either
\* way the datagram is the last one and its sender is the new clnt_adr.
TakeAck ==
  /\ pushPc = "ack"
  /\ toPusher # <<>>
  /\ pushPeer' = Head(toPusher).from
  /\ toPusher' = Tail(toPusher)
  /\ pushPc' = "end"
  /\ UNCHANGED <<toFetcher, pushFaults, pushFile, pushSize, pushCount, fetchers>>

-----------------------------------------------------------------------------
\* A client.

SendRequest(c) ==
  /\ fetchPc[c] = "start"
  /\ toPusher' = Append(toPusher, Request(c))
  /\ fetchPc' = [fetchPc EXCEPT ![c] = "receive"]
  /\ UNCHANGED <<toFetcher, pushFaults, pusher, fetched, fetchSize>>

Arrived(c, cmd) ==
  /\ fetchPc[c] = "receive"
  /\ toFetcher[c] # <<>>
  /\ Head(toFetcher[c]).cmd = cmd
  /\ toFetcher' = [toFetcher EXCEPT ![c] = Tail(@)]

\* A bug: the short block is printed but not counted.
AddFull(c) == LET b == Head(toFetcher[c])
              IN  IF b.len < PUSH_BUF THEN UNCHANGED <<fetched, fetchSize>>
                  ELSE /\ fetched' = [fetched EXCEPT ![c] = Append(@, b)]
                       /\ fetchSize' = [fetchSize EXCEPT ![c] = @ + b.len]

Add(c) == LET b == Head(toFetcher[c])
          IN  /\ fetched' = [fetched EXCEPT ![c] = Append(@, b)]
              /\ fetchSize' = [fetchSize EXCEPT ![c] = @ + b.len]

FetchNotFound(c) ==
  /\ Arrived(c, "FILE_NOT_FOUND")
  /\ fetchPc' = [fetchPc EXCEPT ![c] = "end"]
  /\ UNCHANGED <<toPusher, pushFaults, pusher, fetched, fetchSize>>

FetchBlock(c) ==
  /\ Arrived(c, "FILE_RES")
  /\ Add(c)
  /\ UNCHANGED <<toPusher, pushFaults, pusher, fetchPc>>

FetchEnd(c) ==
  /\ Arrived(c, "FILE_END")
  /\ Add(c)
  /\ toPusher' = Append(toPusher, EndAck(c))
  /\ fetchPc' = [fetchPc EXCEPT ![c] = "end"]
  /\ UNCHANGED <<pushFaults, pusher>>

-----------------------------------------------------------------------------
\* The network.

\* A datagram of queue q is lost or delivered twice, or two change places.
Mistreat(q, fault) ==
  CASE fault = "loss" -> {RemoveAt(q, i) : i \in DOMAIN q}
    [] fault = "dup"  -> {InsertAt(q, i, q[i]) : i \in DOMAIN q}
    [] fault = "swap" -> {[q EXCEPT ![i] = q[i + 1], ![i + 1] = q[i]] :
                            i \in 1 .. Len(q) - 1}

PushNetwork ==
  /\ Len(pushFaults) < PushFaultBound
  /\ \E fault \in {"loss", "dup", "swap"} :
       /\ pushFaults' = Append(pushFaults, fault)
       /\ \/ /\ toPusher' \in Mistreat(toPusher, fault)
             /\ UNCHANGED toFetcher
          \/ /\ \E c \in Fetchers : \E q \in Mistreat(toFetcher[c], fault) :
                  toFetcher' = [toFetcher EXCEPT ![c] = q]
             /\ UNCHANGED toPusher
  /\ UNCHANGED <<pusher, fetchers>>

PushServer == ServeRequest \/ PushFull \/ PushShort \/ PushNothing \/ TakeAck
Fetcher(c) == SendRequest(c) \/ FetchNotFound(c) \/ FetchBlock(c) \/ FetchEnd(c)

PushNext == PushServer \/ (\E c \in Fetchers : Fetcher(c)) \/ PushNetwork

-----------------------------------------------------------------------------
Datagrams == [cmd : {"FILE_RES", "FILE_END", "FILE_NOT_FOUND"},
              at : 0 .. MaxFile, len : 0 .. PUSH_BUF]

PushTypeOK ==
  /\ toPusher \in Seq([from : Fetchers, cmd : {"FILE_REQ", "FILE_END_ACK"}])
  /\ toFetcher \in [Fetchers -> Seq(Datagrams)]
  /\ pushFaults \in Seq({"loss", "dup", "swap"})
  /\ fetched \in [Fetchers -> Seq(Datagrams)]
  /\ fetchSize \in [Fetchers -> Nat]
  /\ pushPc \in {"request", "push", "ack", "end"}
  /\ pushFile \in Missing .. MaxFile
  /\ pushPc # "request" => pushPeer \in Fetchers
  /\ pushSize \in 0 .. MaxFile
  /\ pushCount \in 0 .. MaxFile
  /\ fetchPc \in [Fetchers -> {"start", "receive", "end"}]

Suffered == ToSet(pushFaults)

\* The file is empty or made of full blocks.
FullBlocksOnly == \E n \in 0 .. MaxFile : pushFile = n * PUSH_BUF

\* The blocks of the file are never in the wrong order, nor twice, at a client
\* while the network only loses datagrams; while it does nothing wrong, what
\* a client has is the file's beginning without a gap, and a client that ends
\* has the file, with the totals the server prints.  The server takes any
\* datagram for the acknowledgment of FILE_END: that it ended after a short
\* block says its client has ended, too, only if no other client has asked and
\* no datagram was doubled.
PushInOrder ==
  \A c \in Fetchers :
    /\ Suffered \subseteq {"loss"} =>
         \A i \in 1 .. Len(fetched[c]) - 1 :
           fetched[c][i].at + fetched[c][i].len <= fetched[c][i + 1].at
    /\ Suffered = {} =>
         /\ \A i \in DOMAIN fetched[c] : fetched[c][i].at = (i - 1) * PUSH_BUF
         /\ fetchPc[c] = "end" /\ pushFile # Missing =>
              /\ fetchSize[c] = pushFile
              /\ fetchSize[c] = pushSize
              /\ Len(fetched[c]) = pushCount
    /\ /\ pushPc = "end"
       /\ pushFile # Missing
       /\ ~FullBlocksOnly
       /\ "dup" \notin Suffered
       /\ \A d \in Fetchers \ {c} : fetchPc[d] = "start"
       => fetchPc[c] = "end"

\* A client the server has taken on ends as well, if the network mistreats
\* nothing, unless the file is empty or made of full blocks, whose end the
\* server does not announce.
PushEnds ==
  \A c \in Fetchers :
    (pushPc = "push" /\ pushPeer = c)
      ~> (fetchPc[c] = "end" \/ pushFaults # <<>> \/ FullBlocksOnly)

PushSpec == PushInit /\ [][PushNext]_pushVars
=============================================================================

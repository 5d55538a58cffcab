---------------------------- MODULE SeqTransfer -----------------------------
(***************************************************************************)
(* lab4/hw4_server.c and lab4/hw4_client.c: a file goes over one TCP       *)
(* connection in packets with sequence and acknowledgment numbers.  Each   *)
(* side keeps a single Packet that it reads into and sends from.  The      *)
(* client may be killed, and it may run in the server's directory, where   *)
(* the file it creates is the one the server sends.                        *)
(*                                                                         *)
(* A file is its length, a block how many bytes the file has before it and *)
(* how many it carries.  There is never more than one packet in the        *)
(* stream, so read() returns it whole.                                     *)
(***************************************************************************)
EXTENDS Integers, Sequences

CONSTANTS SEQ_BUF,    \* bytes of a full block (100 in the code)
          SEQ_START,
          MaxSent     \* bound: bytes of the longest file

ASSUME SeqAssumption == /\ SEQ_BUF \in Nat \ {0}
                        /\ SEQ_START \in Nat
                        /\ MaxSent \in Nat

\* The length of the file that is not there, and what the packet of a program
\* that has not set its seq and ack may hold.
Absent == -1
Unset  == {0, SEQ_START}

VARIABLES
  hwFile,      \* the length of the file in the server's directory
  sameDir,     \* the client runs there too
  sender,      \* the server: "request", "send", "ack", "end", or killed, "failed"
  txPacket,    \* its packet
  txSize,      \* size: the bytes it has read from the file
  receiver,    \* the client: "ask", "open", "receive", "end"; killed, "dead"
  received,    \* the blocks it has written to its file
  toSender, toReceiver    \* the two streams

txVars  == <<sender, txPacket, txSize>>
seqVars == <<hwFile, sameDir, txVars, receiver, received, toSender, toReceiver>>

Packet(seq, ack, at, len) == [seq |-> seq, ack |-> ack, at |-> at, len |-> len]
FileNotFound == Packet(0, 0, 0, Absent)
rxSize == IF received = <<>> THEN 0
          ELSE received[Len(received)].at + received[Len(received)].len

SeqInit ==
  /\ hwFile = Absent
  /\ sameDir = FALSE
  /\ sender = "request"
  /\ txPacket = FileNotFound
  /\ txSize = 0
  /\ receiver = "ask"
  /\ received = <<>>
  /\ toSender = <<>>
  /\ toReceiver = <<>>

Gone == receiver \in {"end", "dead"}

-----------------------------------------------------------------------------
\* The server.

\* read() of what the client sent; at the end of the stream it returns 0 and
\* leaves packet p as it was.
ReadInto(p) == IF toSender # <<>> THEN Head(toSender) ELSE p
ReadClient ==
  /\ toSender # <<>> \/ Gone
  /\ toSender' = SubSeq(toSender, 2, Len(toSender))

\* write() to a client that is gone is lost.
WritePacket(p) == toReceiver' = IF Gone THEN toReceiver ELSE Append(toReceiver, p)

FindFile ==
  /\ sender = "request"
  /\ ReadClient
  /\ hwFile # Absent
  /\ \E ack \in Unset : txPacket' = [ReadInto(Packet(0, ack, 0, 0)) EXCEPT !.seq = SEQ_START]
  /\ sender' = "send"
  /\ UNCHANGED <<hwFile, sameDir, txSize, receiver, received, toReceiver>>

MissFile ==
  /\ sender = "request"
  /\ ReadClient
  /\ hwFile = Absent
  /\ WritePacket(FileNotFound)
  /\ sender' = "failed"
  /\ UNCHANGED <<hwFile, sameDir, txPacket, txSize, receiver, received>>

\* What read() of the file returns, at the server's place in it.
ReadLen == IF hwFile - txSize >= SEQ_BUF THEN SEQ_BUF
           ELSE IF hwFile > txSize THEN hwFile - txSize ELSE 0

SendPacket ==
  /\ sender = "send"
  /\ ReadLen > 0
  /\ txPacket' = [txPacket EXCEPT !.at = txSize, !.len = ReadLen]
  /\ WritePacket(txPacket')
  /\ txSize' = txSize + ReadLen
  /\ sender' = "ack"
  /\ UNCHANGED <<hwFile, sameDir, receiver, received, toSender>>

\* The file is read to its end: close().
SendOver ==
  /\ sender = "send"
  /\ ReadLen = 0
  /\ sender' = "end"
  /\ UNCHANGED <<hwFile, sameDir, txPacket, txSize, receiver, received, toSender, toReceiver>>

\* The acknowledgment's number is the next sequence number.
NextSeq(p) == [p EXCEPT !.seq = p.ack]

\* A bug: the server waits for an acknowledgment of the last block, too.
ReadAckAlways ==
  /\ sender = "ack"
  /\ toSender # <<>>
  /\ ReadClient
  /\ txPacket' = NextSeq(ReadInto(txPacket))
  /\ sender' = IF txPacket'.len = SEQ_BUF THEN "send" ELSE "end"
  /\ UNCHANGED <<hwFile, sameDir, txSize, receiver, received, toReceiver>>

\* Only the packet's length says whether to go on: the client's, or still the
\* server's own if the client is gone, at the last block or before.
ReadAck ==
  /\ sender = "ack"
  /\ ReadClient
  /\ txPacket' = NextSeq(ReadInto(txPacket))
  /\ sender' = IF txPacket'.len = SEQ_BUF THEN "send" ELSE "end"
  /\ UNCHANGED <<hwFile, sameDir, txSize, receiver, received, toReceiver>>

\* read() fails, or write() raises SIGPIPE, if the client was killed.
SenderFails ==
  /\ receiver = "dead"
  /\ sender = "ack" \/ (sender = "send" /\ ReadLen > 0)
  /\ sender' = "failed"
  /\ UNCHANGED <<hwFile, sameDir, txPacket, txSize, receiver, received, toSender, toReceiver>>

-----------------------------------------------------------------------------
\* The client.

\* It is connected; its user names a file, which the server has or not.
AskFile ==
  /\ receiver = "ask"
  /\ hwFile' \in Absent .. MaxSent
  /\ sameDir' \in BOOLEAN
  /\ \E seq \in Unset, ack \in Unset : toSender' = <<Packet(seq, ack, 0, 0)>>
  /\ receiver' = "open"
  /\ UNCHANGED <<txVars, received, toReceiver>>

\* open() creates the client's file, or empties the one that is there.
OpenFile ==
  /\ receiver = "open"
  /\ hwFile' = IF sameDir THEN 0 ELSE hwFile
  /\ receiver' = "receive"
  /\ UNCHANGED <<sameDir, txVars, received, toSender, toReceiver>>

ReceiveNotFound ==
  /\ receiver = "receive"
  /\ toReceiver # <<>>
  /\ Head(toReceiver) = FileNotFound
  /\ receiver' = "end"
  /\ UNCHANGED <<hwFile, sameDir, txVars, received, toSender, toReceiver>>

\* A packet of the file goes to the client's file.
SaveBlock ==
  /\ receiver = "receive"
  /\ toReceiver # <<>>
  /\ Head(toReceiver) # FileNotFound
  /\ toReceiver' = Tail(toReceiver)
  /\ LET p == Head(toReceiver)
     IN  /\ received' = Append(received, [at |-> p.at, len |-> p.len])
         /\ hwFile' = IF sameDir /\ hwFile < p.at + p.len THEN p.at + p.len ELSE hwFile

\* A full block is acknowledged; the number is the one after its last byte's.
Acknowledged(p) == [p EXCEPT !.ack = p.seq + p.len + 1]

ReceiveBlock ==
  /\ SaveBlock
  /\ Head(toReceiver).len = SEQ_BUF
  /\ toSender' = Append(toSender, Acknowledged(Head(toReceiver)))
  /\ UNCHANGED <<sameDir, txVars, receiver>>

\* A bug: a short block ends the loop before it is written.
DropLast ==
  /\ receiver = "receive"
  /\ toReceiver # <<>>
  /\ Head(toReceiver).len \in 1 .. SEQ_BUF - 1
  /\ toReceiver' = Tail(toReceiver)
  /\ receiver' = "end"
  /\ UNCHANGED <<hwFile, sameDir, txVars, received, toSender>>

\* A shorter one is the last, and nothing is sent back.
ReceiveLast ==
  /\ SaveBlock
  /\ Head(toReceiver).len # SEQ_BUF
  /\ receiver' = "end"
  /\ UNCHANGED <<sameDir, txVars, toSender>>

\* read() returns 0: the server is gone.
ReceiveOver ==
  /\ receiver = "receive"
  /\ toReceiver = <<>>
  /\ sender \in {"end", "failed"}
  /\ receiver' = "end"
  /\ UNCHANGED <<hwFile, sameDir, txVars, received, toSender, toReceiver>>

KillReceiver ==
  /\ ~Gone
  /\ receiver' = "dead"
  /\ UNCHANGED <<hwFile, sameDir, txVars, received, toSender, toReceiver>>

SendStep    == FindFile \/ MissFile \/ SendPacket \/ SendOver \/ ReadAck
ReceiveStep == OpenFile \/ ReceiveNotFound \/ ReceiveBlock \/ ReceiveLast \/ ReceiveOver

SeqNext == SendStep \/ SenderFails \/ AskFile \/ ReceiveStep \/ KillReceiver

-----------------------------------------------------------------------------
PacketType == [seq : Nat, ack : Nat, at : 0 .. MaxSent, len : Absent .. SEQ_BUF]

SeqTypeOK ==
  /\ hwFile \in Absent .. MaxSent
  /\ sameDir \in BOOLEAN
  /\ sender \in {"request", "send", "ack", "end", "failed"}
  /\ txPacket \in PacketType
  /\ txSize \in 0 .. MaxSent
  /\ receiver \in {"ask", "open", "receive", "end", "dead"}
  /\ received \in Seq([at : 0 .. MaxSent, len : 1 .. SEQ_BUF])
  /\ toSender \in Seq(PacketType)
  /\ toReceiver \in Seq(PacketType)

\* The number of the block that has n bytes of the file before it.
NumberAt(n) == SEQ_START + n + n \div SEQ_BUF

\* The numbers go up by the bytes sent and one per block, on both sides and in
\* both streams, though the server only ever copies the client's number; once
\* the client is killed the server goes on with a number nobody acknowledged.
\* The client's file is the server's from its beginning on, without a gap, and
\* when both end it is all of it, with the totals they print: files of whole
\* blocks, whose end no packet tells, and empty ones included.  In the server's
\* directory the client empties the file while the server reads it: then all
\* of it is what the server had read by then.
TransferWhole ==
  /\ receiver # "dead" =>
       /\ sender = "send" => txPacket.seq = NumberAt(txSize)
       /\ \A i \in DOMAIN toReceiver :
            toReceiver[i] # FileNotFound => toReceiver[i].seq = NumberAt(toReceiver[i].at)
       /\ sender = "ack" => \A i \in DOMAIN toSender : toSender[i].ack = NumberAt(txSize)
  /\ \A i \in DOMAIN received : received[i].at = (i - 1) * SEQ_BUF
  /\ sender = "end" /\ receiver = "end" => hwFile = rxSize /\ hwFile = txSize

\* After the request both sides end, also if the client is killed.
TransferEnds ==
  receiver = "open" ~> (sender \in {"end", "failed"} /\ Gone)

SeqSpec == SeqInit /\ [][SeqNext]_seqVars
=============================================================================

----------------------------- MODULE AddrConvert -----------------------------
(***************************************************************************)
(* lab2/hw2_server.c and lab2/hw2_client.c: a client asks for addresses to *)
(* be converted, one at a time, until its user types "quit".  Each side    *)
(* keeps a single PACKET that it reads into and sends from, so what one    *)
(* answer leaves in it travels with the next request.  The server takes    *)
(* the end of the stream for another request.  The client may be killed.   *)
(*                                                                         *)
(* A converted address is the address it is the conversion of.  There is   *)
(* never more than one packet to a live side in the stream, so read()      *)
(* returns it whole.                                                       *)
(***************************************************************************)
EXTENDS Integers, Sequences, TcpPeer

CONSTANTS Addrs,     \* what users type
          Dotted,    \* what inet_aton() accepts
          MaxAsks    \* bound: addresses a user asks for

ASSUME ConvertAssumption == /\ Dotted \subseteq Addrs
                            /\ MaxAsks \in Nat

\* A field of a packet that nobody has set.
Junk == "junk"

VARIABLES
  convPc,     \* the server: "read", "answer"; "closed" after quit, "failed"
              \* after an error, "killed" by SIGPIPE
  convPacket, \* its packet
  convPeer,   \* what its kernel knows of the client
  askPc,      \* the client: "type", "wait", "end" after quit, "dead"
  askPacket,  \* its packet
  lastTyped,  \* the address its user typed last
  asks,       \* how many
  toConv, toAsk    \* the two streams

convVars == <<convPc, convPacket, convPeer, askPc, askPacket, lastTyped, asks, toConv, toAsk>>

ConvPackets == [cmd : {"request", "response", "quit", Junk}, addr : Addrs \cup {Junk},
             iaddr : Dotted \cup {Junk}, result : {"error", "success", Junk}]

NewPacket(cmd) == [cmd |-> cmd, addr |-> Junk, iaddr |-> Junk, result |-> Junk]

ConvertInit ==
  /\ convPc = "read"
  /\ convPacket = NewPacket(Junk)
  /\ convPeer = "open"
  /\ askPc = "type"
  /\ askPacket = NewPacket(Junk)
  /\ lastTyped = Junk
  /\ asks = 0
  /\ toConv = <<>>
  /\ toAsk = <<>>

-----------------------------------------------------------------------------
\* The server.

\* read() of what the client sent; at the end of the stream, or once a reset
\* has been reported, it returns 0 and leaves the packet as it was; the
\* packet that nothing was ever read into may look like a quit.
ReadAsked ==
  /\ convPc = "read"
  /\ \/ /\ toConv # <<>>
        /\ convPacket' = Head(toConv)
        /\ toConv' = Tail(toConv)
     \/ /\ toConv = <<>>
        /\ convPeer \in {"fin", "rst"}
        /\ convPacket' \in IF convPacket = NewPacket(Junk)
                              THEN {NewPacket(Junk), NewPacket("quit")} ELSE {convPacket}
        /\ UNCHANGED toConv
  /\ convPc' = IF convPacket'.cmd = "quit" THEN "closed" ELSE "answer"
  /\ UNCHANGED <<convPeer, askPc, askPacket, lastTyped, asks, toAsk>>

\* read() reports the reset.
ReadFails ==
  /\ convPc = "read"
  /\ toConv = <<>>
  /\ convPeer = "err"
  /\ convPc' = "failed"
  /\ UNCHANGED <<convPacket, convPeer, askPc, askPacket, lastTyped, asks, toConv, toAsk>>

\* A bug: a failed conversion leaves the result that the packet came with.
ConvertedOnly(p) ==
  IF p.addr \in Dotted THEN [p EXCEPT !.cmd = "response", !.iaddr = p.addr, !.result = "success"]
  ELSE [p EXCEPT !.cmd = "response"]

\* inet_aton() writes only what it could convert.
Converted(p) ==
  IF p.addr \in Dotted THEN [p EXCEPT !.cmd = "response", !.iaddr = p.addr, !.result = "success"]
  ELSE [p EXCEPT !.cmd = "response", !.result = "error"]

\* The write() may be one to a client that is gone.
AnswerAsked ==
  /\ convPc = "answer"
  /\ convPacket' = Converted(convPacket)
  /\ IF convPeer = "open"
       THEN /\ toAsk' = Append(toAsk, convPacket')
            /\ UNCHANGED convPeer
       ELSE /\ convPeer' \in AfterWrite(convPeer)
            /\ UNCHANGED toAsk
  /\ convPc' = IF WriteKills(convPeer) THEN "killed" ELSE "read"
  /\ UNCHANGED <<askPc, askPacket, lastTyped, asks, toConv>>

-----------------------------------------------------------------------------
\* The client.

TypeAddress ==
  /\ askPc = "type"
  /\ asks < MaxAsks
  /\ lastTyped' \in Addrs
  /\ askPacket' = [askPacket EXCEPT !.cmd = "request", !.addr = lastTyped']
  /\ toConv' = Append(toConv, askPacket')
  /\ asks' = asks + 1
  /\ askPc' = "wait"
  /\ UNCHANGED <<convPc, convPacket, convPeer, toAsk>>

\* "quit", too, is in the packet's addr, where nobody looks at it.
TypeEnd ==
  /\ askPc = "type"
  /\ askPacket' = [askPacket EXCEPT !.cmd = "quit"]
  /\ toConv' = Append(toConv, askPacket')
  /\ askPc' = "end"
  /\ convPeer' \in AfterClose(toAsk # <<>>)
  /\ UNCHANGED <<convPc, convPacket, lastTyped, asks, toAsk>>

TakeAnswer ==
  /\ askPc = "wait"
  /\ toAsk # <<>>
  /\ askPacket' = Head(toAsk)
  /\ toAsk' = Tail(toAsk)
  /\ askPc' = "type"
  /\ UNCHANGED <<convPc, convPacket, convPeer, lastTyped, asks, toConv>>

KillUser ==
  /\ askPc \in {"type", "wait"}
  /\ askPc' = "dead"
  /\ convPeer' \in AfterClose(toAsk # <<>>)
  /\ UNCHANGED <<convPc, convPacket, askPacket, lastTyped, asks, toConv, toAsk>>

ConvertStep == ReadAsked \/ ReadFails \/ AnswerAsked
ConvertNext == ConvertStep \/ TypeAddress \/ TypeEnd \/ TakeAnswer \/ KillUser

\* The kernel of a client that is gone answers what it is sent with a RST.
ResetComes == AnswerAsked /\ convPeer = "fin" /\ convPeer' = "rst"

-----------------------------------------------------------------------------
ConvertTypeOK ==
  /\ convPc \in {"read", "answer", "closed", "failed", "killed"}
  /\ convPacket \in ConvPackets
  /\ convPeer \in PeerState
  /\ askPc \in {"type", "wait", "end", "dead"}
  /\ askPacket \in ConvPackets
  /\ lastTyped \in Addrs \cup {Junk}
  /\ asks \in 0 .. MaxAsks
  /\ toConv \in Seq(ConvPackets)
  /\ toAsk \in Seq(ConvPackets)

\* What the user is shown is the answer to what he typed last, whatever the
\* answers before it left in the packet that goes to and fro; and though the
\* server answers its own answer again once the client has gone, nobody who
\* is there ever gets an answer he has not asked for.
ShownIsAsked ==
  /\ askPc = "type" /\ asks > 0 =>
       /\ askPacket.addr = lastTyped
       /\ askPacket.result = IF lastTyped \in Dotted THEN "success" ELSE "error"
       /\ lastTyped \in Dotted => askPacket.iaddr = lastTyped
  /\ askPc = "type" => toConv = <<>> /\ toAsk = <<>> /\ convPc = "read"
  /\ askPc = "end" => convPc \in {"read", "closed"}

\* The server does not outlive its client for ever: it reads "quit", an error,
\* or SIGPIPE ends it while it answers nobody.
ConvertEnds ==
  askPc \in {"end", "dead"} ~> convPc \in {"closed", "failed", "killed"}

ConvertSpec == ConvertInit /\ [][ConvertNext]_convVars
=============================================================================

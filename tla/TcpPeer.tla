------------------------------ MODULE TcpPeer ------------------------------
(***************************************************************************)
(* What a server's kernel knows of the other end of a connection, and what *)
(* a blocking write() then does.  None of the programs sets SO_LINGER,     *)
(* MSG_NOSIGNAL or a SIGPIPE handler.                                      *)
(***************************************************************************)
EXTENDS Naturals

\* "open"; "fin": the peer closed; "err": the peer reset the connection and
\* the error is not yet reported; "rst": reset, error reported.
PeerState == {"open", "fin", "err", "rst"}

\* close() or exit at the peer: a FIN, or a RST if data was left unread.
AfterClose(unread) == IF unread THEN {"fin", "err"} ELSE {"fin"}

\* Writing to a peer that closed is accepted and may be answered by a RST.
AfterWrite(p) == IF p = "fin" THEN {"fin", "rst"}
                 ELSE IF p = "err" THEN {"rst"} ELSE {p}

\* Writing once a RST has been reported raises SIGPIPE, fatal by default.
WriteKills(p) == p = "rst"

=============================================================================

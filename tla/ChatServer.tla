----------------------------- MODULE ChatServer -----------------------------
(***************************************************************************)
(* chapter18/chat_server.c with the clients of chapter18/chat_clnt.c.      *)
(*                                                                         *)
(* A handler reads chunks from its client and, holding mutx, writes each   *)
(* to every listed descriptor.  When read returns 0 it removes its own     *)
(* descriptor from the table under mutx and closes it AFTER unlocking.     *)
(*                                                                         *)
(* The steps between lock and unlock are separate actions only where       *)
(* another thread can see the difference: a write() inside send_msg meets  *)
(* closes and client exits, which take no lock.  The append and the        *)
(* removal touch only what mutx protects and are single steps.             *)
(***************************************************************************)
EXTENDS AcceptLoop, TcpPeer, Sequences

CONSTANTS Talkers,   \* bound: the clients whose users type anything
          MaxSent    \* bound: messages each of them types

ASSUME SentAssumption == Talkers \subseteq Conn /\ MaxSent \in Nat

VARIABLES
  up,      \* the server process exists (SIGPIPE ends it)
  peer,    \* what the server's kernel knows of each client's end
  inbox,   \* bytes received from a client and not yet read: its messages
  sent,    \* how many messages a client has sent
  out,     \* history: the messages passed to write() for each connection
  file,    \* the connection a thread's read() call is blocked on
  chunk,   \* the handler's msg[0..str_len-1]; <<>> when str_len is -1
  k,       \* the loop index of send_msg
  casts    \* history: the messages in the order their broadcasts began

netVars  == <<peer, inbox, sent, out>>
hVars    == <<file, chunk, k, casts>>
vars     == <<loopVars, up, netVars, hVars>>

Message  == [from : Conn, n : 1 .. MaxSent]

PC == {"none", "start", "read", "blocked", "send", "sending", "remove",
       "close", "done"}

Past == {"close", "done"}

Init ==
  /\ LoopInit
  /\ up = TRUE
  /\ peer = [c \in Conn |-> "open"]
  /\ inbox = [c \in Conn |-> <<>>]
  /\ sent = [c \in Conn |-> 0]
  /\ out = [c \in Conn |-> <<>>]
  /\ file = [c \in Conn |-> NoConn]
  /\ chunk = [c \in Conn |-> <<>>]
  /\ k = [c \in Conn |-> 0]
  /\ casts = <<>>

-----------------------------------------------------------------------------
\* The clients.

\* One line typed by the user: write(sock, name_msg, strlen(name_msg)).
ClientSend(c) ==
  /\ c \in Talkers
  /\ peer[c] = "open"
  /\ sent[c] < MaxSent
  /\ sent' = [sent EXCEPT ![c] = @ + 1]
  /\ inbox' = [inbox EXCEPT ![c] = Append(@, [from |-> c, n |-> sent'[c]])]
  /\ UNCHANGED <<loopVars, up, peer, out, hVars>>

\* q: close(sock); exit(0).  The kernel sends a FIN, or a RST when the
\* process leaves received data unread.
ClientQuit(c) ==
  /\ peer[c] = "open"
  /\ \E p \in AfterClose(out[c] # <<>>) : peer' = [peer EXCEPT ![c] = p]
  /\ UNCHANGED <<loopVars, up, inbox, sent, out, hVars>>

-----------------------------------------------------------------------------
\* main.

MainAccept(c) == up /\ Accept(c) /\ UNCHANGED <<up, netVars, hVars>>
MainAppend    == up /\ Enlist    /\ UNCHANGED <<up, netVars, hVars>>
MainCreate    == up /\ Create    /\ UNCHANGED <<up, netVars, hVars>>

-----------------------------------------------------------------------------
\* handle_clnt.

HandlerStart(t) ==
  /\ up
  /\ TakeArg(t, "read")
  /\ UNCHANGED <<up, netVars, hVars>>

\* read() is called: the kernel looks the descriptor up once.  On a closed
\* descriptor it returns -1, which is not 0, so send_msg(msg, -1) follows.
ReadCall(t) ==
  /\ up
  /\ pc[t] = "read"
  /\ file' = [file EXCEPT ![t] = fdtab[sock[t]]]
  /\ Goto(t, IF file'[t] = NoConn THEN "send" ELSE "blocked")
  /\ UNCHANGED <<mainVars, regVars, mutx, fdtab, sock, up, netVars, chunk, k,
                 casts>>

\* A bug: only the first message of what was read is passed on.
ReadDataFirstOnly(t) ==
  /\ up
  /\ pc[t] = "blocked"
  /\ \E n \in 1 .. Len(inbox[file[t]]) :
       /\ chunk' = [chunk EXCEPT ![t] = SubSeq(inbox[file[t]], 1, 1)]
       /\ inbox' = [inbox EXCEPT ![file[t]] = SubSeq(@, n + 1, Len(@))]
  /\ Goto(t, "send")
  /\ UNCHANGED <<mainVars, regVars, mutx, fdtab, sock, up, peer, sent, out,
                 file, k, casts>>

\* read() returns some of the bytes that have arrived.
ReadData(t) ==
  /\ up
  /\ pc[t] = "blocked"
  /\ \E n \in 1 .. Len(inbox[file[t]]) :
       /\ chunk' = [chunk EXCEPT ![t] = SubSeq(inbox[file[t]], 1, n)]
       /\ inbox' = [inbox EXCEPT ![file[t]] = SubSeq(@, n + 1, Len(@))]
  /\ Goto(t, "send")
  /\ UNCHANGED <<mainVars, regVars, mutx, fdtab, sock, up, peer, sent, out,
                 file, k, casts>>

\* A bug: close(clnt_sock) comes before the removal block.
ReadEofClosing(t) ==
  /\ up
  /\ pc[t] = "blocked"
  /\ inbox[file[t]] = <<>>
  /\ peer[file[t]] \in {"fin", "rst"}
  /\ fdtab' = [fdtab EXCEPT ![sock[t]] = NoConn]
  /\ Goto(t, "remove")
  /\ UNCHANGED <<mainVars, regVars, mutx, sock, up, netVars, hVars>>

\* read() returns 0, end of stream, once everything has been read ...
ReadEof(t) ==
  /\ up
  /\ pc[t] = "blocked"
  /\ inbox[file[t]] = <<>>
  /\ peer[file[t]] \in {"fin", "rst"}
  /\ Goto(t, "remove")
  /\ UNCHANGED <<mainVars, regVars, mutx, fdtab, sock, up, netVars, hVars>>

\* ... or reports a reset, once, as -1.
ReadReset(t) ==
  /\ up
  /\ pc[t] = "blocked"
  /\ inbox[file[t]] = <<>>
  /\ peer[file[t]] = "err"
  /\ peer' = [peer EXCEPT ![file[t]] = "rst"]
  /\ Goto(t, "send")
  /\ UNCHANGED <<mainVars, regVars, mutx, fdtab, sock, up, inbox, sent, out,
                 hVars>>

\* A bug: send_msg does not take the mutex.
SendLockNot(t) ==
  /\ up
  /\ pc[t] = "send"
  /\ casts' = casts \o chunk[t]
  /\ Goto(t, "sending")
  /\ UNCHANGED <<mainVars, regVars, mutx, fdtab, sock, up, netVars, file, chunk, k>>

\* send_msg: pthread_mutex_lock, i = 0
SendLock(t) ==
  /\ up
  /\ pc[t] = "send"
  /\ mutx = NoConn
  /\ mutx' = t
  /\ casts' = casts \o chunk[t]
  /\ Goto(t, "sending")
  /\ UNCHANGED <<mainVars, regVars, fdtab, sock, up, netVars, file, chunk, k>>

\* write(clnt_socks[i], msg, len); i++.  With len = -1 the kernel rejects the
\* call.  A closed descriptor is an ignored error.  Writing to a client that
\* has closed is accepted and may be answered by a RST; writing after a RST
\* raises SIGPIPE, which the program leaves at its default action.
SendWrite(t) ==
  LET c == fdtab[clnt_socks[k[t]]]
  IN  /\ up
      /\ pc[t] = "sending"
      /\ k[t] < clnt_cnt
      /\ k' = [k EXCEPT ![t] = @ + 1]
      /\ IF chunk[t] = <<>> \/ c = NoConn
           THEN UNCHANGED <<up, peer, out>>
           ELSE /\ up' = ~WriteKills(peer[c])
                /\ out' = [out EXCEPT ![c] = @ \o chunk[t]]
                /\ \E p \in AfterWrite(peer[c]) : peer' = [peer EXCEPT ![c] = p]
      /\ UNCHANGED <<loopVars, inbox, sent, file, chunk, casts>>

\* Bugs: the loop ends one client early; the mutex stays locked.
SendUnlockEarly(t) ==
  /\ up
  /\ pc[t] = "sending"
  /\ k[t] >= clnt_cnt - 1
  /\ mutx' = NoConn
  /\ k' = [k EXCEPT ![t] = 0]
  /\ chunk' = [chunk EXCEPT ![t] = <<>>]
  /\ Goto(t, "read")
  /\ UNCHANGED <<mainVars, regVars, fdtab, sock, up, netVars, file, casts>>

SendUnlockNot(t) ==
  /\ up
  /\ pc[t] = "sending"
  /\ k[t] >= clnt_cnt
  /\ k' = [k EXCEPT ![t] = 0]
  /\ chunk' = [chunk EXCEPT ![t] = <<>>]
  /\ Goto(t, "read")
  /\ UNCHANGED <<mainVars, regVars, mutx, fdtab, sock, up, netVars, file, casts>>

\* the loop ends; pthread_mutex_unlock; back to read()
SendUnlock(t) ==
  /\ up
  /\ pc[t] = "sending"
  /\ k[t] >= clnt_cnt
  /\ mutx' = NoConn
  /\ k' = [k EXCEPT ![t] = 0]
  /\ chunk' = [chunk EXCEPT ![t] = <<>>]
  /\ Goto(t, "read")
  /\ UNCHANGED <<mainVars, regVars, fdtab, sock, up, netVars, file, casts>>

\* lock; drop the entry that holds clnt_sock, if any; clnt_cnt--; unlock
Remove(t) ==
  /\ up
  /\ pc[t] = "remove"
  /\ mutx = NoConn
  /\ RemoveSelf(t)
  /\ Goto(t, "close")
  /\ UNCHANGED <<mainVars, mutx, fdtab, sock, up, netVars, hVars>>

\* close(clnt_sock); return NULL
Close(t) ==
  /\ up
  /\ pc[t] = "close"
  /\ fdtab' = [fdtab EXCEPT ![sock[t]] = NoConn]
  /\ Goto(t, "done")
  /\ UNCHANGED <<mainVars, regVars, mutx, sock, up, netVars, hVars>>

-----------------------------------------------------------------------------
Handler(t) ==
  \/ HandlerStart(t) \/ ReadCall(t) \/ ReadData(t) \/ ReadEof(t)
  \/ ReadReset(t) \/ SendLock(t) \/ SendWrite(t) \/ SendUnlock(t)
  \/ Remove(t) \/ Close(t)

Main == (\E c \in Conn : MainAccept(c)) \/ MainAppend \/ MainCreate

\* Nothing is left to happen: the process is dead, or main waits in accept.
Idle ==
  /\ \A c \in Conn : peer[c] # "open"
  /\ ~up \/ \A c \in Conn : pc[c] = "done"
  /\ UNCHANGED vars

Next ==
  \/ Main
  \/ \E c \in Conn : ClientSend(c) \/ ClientQuit(c) \/ Handler(c)
  \/ Idle

Spec == Init /\ [][Next]_vars

\* The scheduler runs every thread; clients need not do anything.  Messages
\* are few, so weak fairness is enough for the mutex.
Fairness ==
  /\ WF_vars(Main)
  /\ \A t \in Conn : WF_vars(Handler(t))

FairSpec == Spec /\ Fairness

\* Connections far enough apart for each handler to take its argument before
\* the next accept returns.
Spaced == own' # own => \A t \in Conn : pc[t] # "start"

SpacedSpec == Init /\ [][Next /\ Spaced]_vars

SpacedFairSpec ==
  /\ SpacedSpec
  /\ WF_vars(Main /\ Spaced)
  /\ \A t \in Conn : WF_vars(Handler(t))

-----------------------------------------------------------------------------
\* Type invariant.
TypeOK ==
  /\ LoopTypeOK(PC)
  /\ up \in BOOLEAN
  /\ peer \in [Conn -> PeerState]
  /\ inbox \in [Conn -> Seq(Message)]
  /\ sent \in [Conn -> 0 .. MaxSent]
  /\ out \in [Conn -> Seq(Message)]
  /\ file \in [Conn -> Conn \cup {NoConn}]
  /\ chunk \in [Conn -> Seq(Message)]
  /\ k \in [Conn -> 0 .. Cardinality(Conn)]
  /\ casts \in Seq(Message)

\* handle_clnt decrements clnt_cnt even when its search found nothing, so the
\* count stays exact however the arguments were mixed up: one for every
\* connection listed by main whose handler has not left, never negative.
CountExact == CountIsExact(Past)

\* As long as every handler got its own descriptor, the table is exact: it
\* lists the descriptor of every connection whose handler has not left, each
\* once, and each of these descriptors is still open on that connection, so
\* send_msg never writes to a closed or a reused descriptor.
TableExact ==
  ArgsIntact =>
    /\ TableIs(Past)
    /\ \A c \in Registered(Past) : fdtab[own[c]] = c

\* The inductive invariant: the loop's, and where the chat handlers' own
\* variables are set.
IInv ==
  /\ TypeOK
  /\ LoopInv(PC, Past, {"done"})
  /\ \A t \in Conn : /\ pc[t] = "blocked" => file[t] \in Conn
                     /\ mutx = t <=> pc[t] = "sending"
  /\ ArgsIntact =>
       \A t \in Conn :
         /\ pc[t] = "blocked" => file[t] = t
         /\ pc[t] \in {"remove", "close", "done"} => peer[t] # "open"

\* The messages of c within s are 1, 2, 3, ... in this order.
InSendOrder(s, c) ==
  /\ \A i, j \in DOMAIN s : i < j /\ s[i].from = c /\ s[j].from = c => s[i].n < s[j].n
  /\ \A i \in DOMAIN s :
       s[i].from = c => \A n \in 1 .. s[i].n : \E j \in DOMAIN s : s[j] = [from |-> c, n |-> n]

\* One conversation: the broadcasts of each client begin in the order it typed
\* them, and what was written to any client is a gapless run of the broadcasts
\* in their one order, for send_msg writes to all before it unlocks.
OneConversation ==
  ArgsIntact =>
    \A c \in Conn :
      /\ InSendOrder(casts, c)
      /\ \E a, b \in 0 .. Len(casts) : out[c] = SubSeq(casts, a + 1, b)

\* The room as the mutex holder has decided it: a broadcast counts as told to
\* all from the moment the lock is taken.
ToBeTold(d) ==
  IF mutx # NoConn /\ \E i \in k[mutx] .. clnt_cnt - 1 : fdtab[clnt_socks[i]] = d
    THEN chunk[mutx] ELSE <<>>

SaidBy(c) == Cardinality({i \in DOMAIN casts : casts[i].from = c})

Room == INSTANCE ChatRoom WITH
  here <- {c \in Conn : peer[c] = "open"},
  joined <- Registered({}),
  members <- Registered(Past),
  said <- [c \in Conn |-> SaidBy(c)],
  log <- [c \in Conn |-> out[c] \o ToBeTold(c)]

\* When connections arrive far enough apart, handle_clnt and send_msg
\* implement the room: every broadcast reaches exactly the members, in one
\* order for all, and only clients that hung up leave.
ImplementsRoom == Room!RoomSpec

\* A step may shorten the table only for a client that has disconnected, and
\* a descriptor is closed only after its entry is gone.
RemoveThenClose ==
  [][ArgsIntact =>
       \A c \in Conn :
         /\ c \in Registered(Past) /\ own[c] \notin ListedFds' => peer[c] # "open"
         /\ own[c] # NoFd /\ fdtab[own[c]] = c /\ fdtab'[own[c]] # c
              => own[c] \notin ListedFds]_vars

\* A client that leaves is taken out of the table and its descriptor released,
\* unless SIGPIPE has ended the process.
LeaverReleased ==
  \A c \in Conn : peer[c] # "open" ~> (~up \/ (own[c] # NoFd /\ pc[c] = "done"))

\* What a client typed is broadcast, unless SIGPIPE has ended the process.
EverythingBroadcast ==
  \A c \in Conn :
    \A n \in 1 .. MaxSent :
      sent[c] >= n ~>
        (~up \/ \E i \in DOMAIN casts : casts[i] = [from |-> c, n |-> n])

\* chat_server.c:90 says of send_msg "send to all": a client that main listed
\* and that is still there is among the descriptors it writes to.
SendToAll ==
  \A c \in Registered({}) : peer[c] = "open" => own[c] \in ListedFds

=============================================================================

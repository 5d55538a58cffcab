-------------------------- MODULE ChatServerProofs --------------------------
(***************************************************************************)
(* IInv is an inductive invariant of the chat server; the exact count, the *)
(* exact table and the order of removal and close follow from it, and when *)
(* connections are spaced, no argument is ever mixed up.  With TalkInv,    *)
(* which follows every message, come the one conversation and, for spaced  *)
(* connections, the refinement of ChatRoom.                                *)
(***************************************************************************)
EXTENDS ChatServer, AcceptLoopProofs, SequenceTheorems

\* The handler's own part of IInv.
HandlerInv ==
  \A t \in Conn : /\ pc[t] = "blocked" => file[t] \in Conn
                  /\ mutx = t <=> pc[t] = "sending"

IntactInv ==
  \A t \in Conn : /\ pc[t] = "blocked" => file[t] = t
                  /\ pc[t] \in {"remove", "close", "done"} => peer[t] # "open"

\* The chat handler's labels fit the loop's lemmas.
LEMMA PCLabels == LabelsOK(PC, Past, {"done"})
BY DEF LabelsOK, PC, Past

\* Nothing is listed, started or held at first.
LEMMA InitIInv == Init => IInv
<1> SUFFICES ASSUME Init PROVE IInv
  OBVIOUS
<1> USE DEF Init, LoopInit
<1>1. Cardinality(Conn) \in Nat /\ MAX_CLNT \in Nat /\ NoConn \notin Conn
  BY ConnAssumption, FS_CardinalityType
<1>2. Registered(Past) = {}
  BY DEF Registered
<1>3. CountIsExact(Past)
  BY <1>2, FS_EmptySet DEF CountIsExact
<1>4. <<>> \in Seq(Message)
  BY EmptySeq
<1>5. LoopTypeOK(PC)
  BY <1>1 DEF LoopTypeOK, PC, Fds, Slots
<1>6. TypeOK
  <2>1. sent \in [Conn -> 0 .. MaxSent] /\ k \in [Conn -> 0 .. Cardinality(Conn)]
    BY <1>1, SentAssumption
  <2>2. inbox \in [Conn -> Seq(Message)] /\ out \in [Conn -> Seq(Message)]
        /\ chunk \in [Conn -> Seq(Message)] /\ casts \in Seq(Message)
    BY <1>4
  <2>3. up \in BOOLEAN
    OBVIOUS
  <2>4. peer \in [Conn -> PeerState] /\ file \in [Conn -> Conn \cup {NoConn}]
    BY DEF PeerState
  <2> QED
    BY <1>5, <2>1, <2>2, <2>3, <2>4 DEF TypeOK
<1>7. Bookkeeping
  BY DEF Bookkeeping, Started
<1>8. ListedFds = {} /\ {own[c] : c \in Registered(Past)} = {}
  BY <1>2 DEF ListedFds
<1>9. TableIs(Past) /\ FdsKept({"done"})
  <2>1. 0 .. clnt_cnt - 1 = {}
    OBVIOUS
  <2>2. TableIs(Past)
    BY <1>8, <2>1 DEF TableIs
  <2> QED
    BY <2>2 DEF FdsKept
<1> QED
  BY <1>1, <1>3, <1>5, <1>6, <1>7, <1>9 DEF IInv, LoopInv

\* TypeOK without the loop's variables.
OwnTypeOK ==
  /\ up \in BOOLEAN
  /\ peer \in [Conn -> PeerState]
  /\ inbox \in [Conn -> Seq(Message)]
  /\ sent \in [Conn -> 0 .. MaxSent]
  /\ out \in [Conn -> Seq(Message)]
  /\ file \in [Conn -> Conn \cup {NoConn}]
  /\ chunk \in [Conn -> Seq(Message)]
  /\ k \in [Conn -> 0 .. Cardinality(Conn)]
  /\ casts \in Seq(Message)

\* What IInv says that the step proofs below use, in unfolded form.
LEMMA IInvParts ==
  IInv <=> /\ OwnTypeOK
           /\ LoopInv(PC, Past, {"done"})
           /\ HandlerInv
           /\ ArgsIntact => IntactInv
BY DEF IInv, TypeOK, OwnTypeOK, HandlerInv, IntactInv, LoopInv

\* Every step keeps IInv, and keeps mixed-up arguments mixed up.
LEMMA NextIInv ==
  ASSUME IInv, [Next]_vars
  PROVE  IInv' /\ (ArgsIntact' => ArgsIntact)
<1> DEFINE LI == LoopInv(PC, Past, {"done"})
<1>1. /\ OwnTypeOK /\ LI /\ HandlerInv
      /\ ArgsIntact => IntactInv
  BY IInvParts
<1>2. LoopTypeOK(PC) /\ Bookkeeping
  BY <1>1 DEF LoopInv
<1>3. Cardinality(Conn) \in Nat /\ NoConn \notin Conn /\ MaxSent \in Nat
  BY ConnAssumption, SentAssumption, FS_CardinalityType
<1>4. SUFFICES OwnTypeOK' /\ LI' /\ HandlerInv'
               /\ (ArgsIntact' => ArgsIntact)
               /\ (ArgsIntact => IntactInv')
  <2>1. (IInv <=> /\ OwnTypeOK /\ LI /\ HandlerInv
                  /\ ArgsIntact => IntactInv)'
    BY IInvParts, PTL
  <2> QED
    BY <2>1
<1> USE DEF LoopTypeOK
\* A step that leaves the loop's variables alone.
<1>5. ASSUME UNCHANGED loopVars
      PROVE  LI' /\ (ArgsIntact' <=> ArgsIntact)
  BY <1>1, <1>5, StutterKeeps
\* A handler's step inside its loop.
<1>6. ASSUME NEW t \in Conn, NEW next \in {"read", "blocked", "send", "sending", "remove"},
             pc[t] \in {"read", "blocked", "send", "sending"},
             Goto(t, next), mutx' \in Conn \cup {NoConn},
             UNCHANGED <<mainVars, regVars, fdtab, sock>>
      PROVE  LI' /\ (ArgsIntact' <=> ArgsIntact)
  <2>1. next \in PC /\ next \notin {"none", "start"} /\ pc[t] \notin {"none", "start"}
    BY <1>6 DEF PC
  <2>2. /\ pc[t] \in Past <=> next \in Past
        /\ pc[t] \in {"done"} <=> next \in {"done"}
    BY <1>6 DEF Past
  <2> QED
    BY <1>1, <1>6, <2>1, <2>2, PCLabels, MoveKeeps
<1>7. CASE UNCHANGED vars
  <2>1. UNCHANGED loopVars /\ UNCHANGED <<up, peer, inbox, sent, out>>
        /\ UNCHANGED <<file, chunk, k, casts>>
    <3> HIDE DEF LoopTypeOK, LI
    <3> QED
      BY <1>7, Zenon DEF vars, netVars, hVars
  <2>2. LI' /\ (ArgsIntact' <=> ArgsIntact)
    BY <1>5, <2>1
  <2>3. UNCHANGED <<mutx, pc>>
    BY <2>1 DEF loopVars
  <2> QED
    BY <1>1, <2>1, <2>2, <2>3 DEF OwnTypeOK, HandlerInv, IntactInv
<1>8. ASSUME NEW c \in Conn, ClientSend(c)
      PROVE  OwnTypeOK' /\ LI' /\ HandlerInv' /\ (ArgsIntact' => ArgsIntact)
             /\ (ArgsIntact => IntactInv')
  <2>1. LI' /\ (ArgsIntact' <=> ArgsIntact)
    BY <1>5, <1>8 DEF ClientSend
  <2>2. sent' \in [Conn -> 0 .. MaxSent] /\ sent'[c] \in 1 .. MaxSent
    BY <1>1, <1>3, <1>8 DEF ClientSend, OwnTypeOK
  <2>3. [from |-> c, n |-> sent'[c]] \in Message
    BY <2>2 DEF Message
  <2>4. inbox' \in [Conn -> Seq(Message)]
    BY <1>1, <1>8, <2>3, AppendProperties DEF ClientSend, OwnTypeOK
  <2> QED
    BY <1>1, <1>8, <2>1, <2>2, <2>4
      DEF ClientSend, loopVars, hVars, OwnTypeOK, HandlerInv, IntactInv
<1>9. ASSUME NEW c \in Conn, ClientQuit(c)
      PROVE  OwnTypeOK' /\ LI' /\ HandlerInv' /\ (ArgsIntact' => ArgsIntact)
             /\ (ArgsIntact => IntactInv')
  <2>1. LI' /\ (ArgsIntact' <=> ArgsIntact)
    BY <1>5, <1>9 DEF ClientQuit
  <2>2. PICK p \in {"fin", "err"} : peer' = [peer EXCEPT ![c] = p]
    BY <1>9 DEF ClientQuit, AfterClose
  <2>3. peer' \in [Conn -> PeerState]
    BY <1>1, <2>2 DEF OwnTypeOK, PeerState
  <2>4. ArgsIntact => IntactInv'
    BY <1>1, <1>9, <2>2 DEF ClientQuit, loopVars, hVars, OwnTypeOK, IntactInv
  <2> QED
    BY <1>1, <1>9, <2>1, <2>3, <2>4 DEF ClientQuit, loopVars, hVars, OwnTypeOK, HandlerInv
<1>10. ASSUME NEW c \in Conn, MainAccept(c)
       PROVE  OwnTypeOK' /\ LI' /\ HandlerInv' /\ (ArgsIntact' => ArgsIntact)
              /\ (ArgsIntact => IntactInv')
  <2>1. LI' /\ own[c] = NoFd
    BY <1>1, <1>10, PCLabels, AcceptKeeps DEF MainAccept, Accept
  <2>2. ArgsIntact' => ArgsIntact
    <3>1. \A d \in Conn : d # c => own'[d] = own[d]
      BY <1>2, <1>10 DEF MainAccept, Accept
    <3>2. ~Started(c)
      BY <1>2, <2>1 DEF Bookkeeping
    <3> QED
      BY <1>10, <3>1, <3>2 DEF MainAccept, Accept, ArgsIntact, Started
  <2> QED
    BY <1>1, <1>10, <2>1, <2>2
      DEF MainAccept, Accept, netVars, hVars, OwnTypeOK, HandlerInv, IntactInv
<1>11. ASSUME MainAppend
       PROVE  OwnTypeOK' /\ LI' /\ HandlerInv' /\ (ArgsIntact' => ArgsIntact)
              /\ (ArgsIntact => IntactInv')
  <2>1. LI'
    BY <1>1, <1>11, PCLabels, EnlistKeeps DEF MainAppend
  <2> QED
    BY <1>1, <1>11, <2>1
      DEF MainAppend, Enlist, netVars, hVars, OwnTypeOK, HandlerInv, IntactInv, ArgsIntact, Started
<1>12. ASSUME MainCreate
       PROVE  OwnTypeOK' /\ LI' /\ HandlerInv' /\ (ArgsIntact' => ArgsIntact)
              /\ (ArgsIntact => IntactInv')
  <2>1. LI'
    BY <1>1, <1>12, PCLabels, CreateKeeps DEF MainCreate
  <2>2. cur \in Conn /\ pc[cur] = "none"
    BY <1>2, <1>12 DEF MainCreate, Create, Bookkeeping
  <2> QED
    BY <1>1, <1>2, <1>12, <2>1, <2>2
      DEF MainCreate, Create, netVars, hVars, OwnTypeOK, HandlerInv, IntactInv, ArgsIntact, Started
<1>13. ASSUME NEW t \in Conn, HandlerStart(t)
       PROVE  OwnTypeOK' /\ LI' /\ HandlerInv' /\ (ArgsIntact' => ArgsIntact)
              /\ (ArgsIntact => IntactInv')
  <2>1. LI'
    BY <1>1, <1>13, PCLabels, TakeArgKeeps DEF HandlerStart, PC, Past
  <2>2. ~Started(t)
    BY <1>2, <1>13 DEF HandlerStart, TakeArg, Bookkeeping
  <2>3. ArgsIntact' => ArgsIntact
    BY <1>2, <1>13, <2>2 DEF HandlerStart, TakeArg, ArgsIntact, Started
  <2> QED
    BY <1>1, <1>2, <1>13, <2>1, <2>3
      DEF HandlerStart, TakeArg, netVars, hVars, OwnTypeOK, HandlerInv, IntactInv
<1>14. ASSUME NEW t \in Conn, ReadCall(t)
       PROVE  OwnTypeOK' /\ LI' /\ HandlerInv' /\ (ArgsIntact' => ArgsIntact)
              /\ (ArgsIntact => IntactInv')
  <2>1. LI' /\ (ArgsIntact' <=> ArgsIntact)
    BY <1>2, <1>6, <1>14 DEF ReadCall
  <2>2. sock[t] \in Fds /\ own[t] # NoFd
    BY <1>2, <1>14 DEF ReadCall, Bookkeeping, Started
  <2>3. fdtab[sock[t]] \in Conn \cup {NoConn}
    BY <1>2, <2>2
  <2>4. ASSUME ArgsIntact PROVE fdtab[sock[t]] = t
    <3>1. FdsKept({"done"})
      BY <1>1, <2>4 DEF LoopInv
    <3>2. pc[t] = "read" /\ sock[t] # NoFd
      BY <1>2, <1>14 DEF ReadCall, Bookkeeping, Started
    <3>3. sock[t] = own[t]
      BY <2>4, <3>2 DEF ArgsIntact, Started
    <3> QED
      BY <2>2, <3>1, <3>2, <3>3 DEF FdsKept
  <2>5. pc' = [pc EXCEPT ![t] = IF file'[t] = NoConn THEN "send" ELSE "blocked"]
    BY <1>14 DEF ReadCall, Goto
  <2> QED
    BY <1>1, <1>2, <1>14, <2>1, <2>3, <2>4, <2>5
      DEF ReadCall, netVars, OwnTypeOK, HandlerInv, IntactInv
<1>15. ASSUME NEW t \in Conn, ReadData(t)
       PROVE  OwnTypeOK' /\ LI' /\ HandlerInv' /\ (ArgsIntact' => ArgsIntact)
              /\ (ArgsIntact => IntactInv')
  <2>1. LI' /\ (ArgsIntact' <=> ArgsIntact)
    BY <1>2, <1>6, <1>15 DEF ReadData
  <2>2. file[t] \in Conn
    BY <1>1, <1>15 DEF ReadData, HandlerInv
  <2>3. PICK n \in 1 .. Len(inbox[file[t]]) :
          /\ chunk' = [chunk EXCEPT ![t] = SubSeq(inbox[file[t]], 1, n)]
          /\ inbox' = [inbox EXCEPT ![file[t]] = SubSeq(@, n + 1, Len(@))]
    BY <1>15 DEF ReadData
  <2>4. inbox[file[t]] \in Seq(Message) /\ Len(inbox[file[t]]) \in Nat
    BY <1>1, <2>2, LenProperties DEF OwnTypeOK
  <2>5. /\ SubSeq(inbox[file[t]], 1, n) \in Seq(Message)
        /\ SubSeq(inbox[file[t]], n + 1, Len(inbox[file[t]])) \in Seq(Message)
    BY <2>4, SubSeqProperties
  <2>6. OwnTypeOK'
    BY <1>1, <1>15, <2>2, <2>3, <2>5 DEF ReadData, OwnTypeOK
  <2>7. pc' = [pc EXCEPT ![t] = "send"]
    BY <1>15 DEF ReadData, Goto
  <2> QED
    BY <1>1, <1>2, <1>15, <2>1, <2>6, <2>7 DEF ReadData, HandlerInv, IntactInv
<1>16. ASSUME NEW t \in Conn, ReadEof(t)
       PROVE  OwnTypeOK' /\ LI' /\ HandlerInv' /\ (ArgsIntact' => ArgsIntact)
              /\ (ArgsIntact => IntactInv')
  <2>1. LI' /\ (ArgsIntact' <=> ArgsIntact)
    BY <1>2, <1>6, <1>16 DEF ReadEof
  <2>2. pc' = [pc EXCEPT ![t] = "remove"]
    BY <1>16 DEF ReadEof, Goto
  <2>3. ArgsIntact => peer[t] # "open"
    BY <1>1, <1>16 DEF ReadEof, IntactInv
  <2> QED
    BY <1>1, <1>2, <1>16, <2>1, <2>2, <2>3
      DEF ReadEof, netVars, hVars, OwnTypeOK, HandlerInv, IntactInv
<1>17. ASSUME NEW t \in Conn, ReadReset(t)
       PROVE  OwnTypeOK' /\ LI' /\ HandlerInv' /\ (ArgsIntact' => ArgsIntact)
              /\ (ArgsIntact => IntactInv')
  <2>1. LI' /\ (ArgsIntact' <=> ArgsIntact)
    BY <1>2, <1>6, <1>17 DEF ReadReset
  <2>2. pc' = [pc EXCEPT ![t] = "send"]
    BY <1>17 DEF ReadReset, Goto
  <2> QED
    BY <1>1, <1>2, <1>17, <2>1, <2>2
      DEF ReadReset, hVars, OwnTypeOK, PeerState, HandlerInv, IntactInv
<1>18. ASSUME NEW t \in Conn, SendLock(t)
       PROVE  OwnTypeOK' /\ LI' /\ HandlerInv' /\ (ArgsIntact' => ArgsIntact)
              /\ (ArgsIntact => IntactInv')
  <2>1. LI' /\ (ArgsIntact' <=> ArgsIntact)
    BY <1>2, <1>6, <1>18 DEF SendLock
  <2>2. pc' = [pc EXCEPT ![t] = "sending"]
    BY <1>18 DEF SendLock, Goto
  <2>3. casts' \in Seq(Message)
    BY <1>1, <1>18, ConcatProperties DEF SendLock, OwnTypeOK
  <2> QED
    BY <1>1, <1>2, <1>3, <1>18, <2>1, <2>2, <2>3
      DEF SendLock, netVars, OwnTypeOK, HandlerInv, IntactInv
<1>19. ASSUME NEW t \in Conn, SendWrite(t)
       PROVE  OwnTypeOK' /\ LI' /\ HandlerInv' /\ (ArgsIntact' => ArgsIntact)
              /\ (ArgsIntact => IntactInv')
  <2> DEFINE c == fdtab[clnt_socks[k[t]]]
  <2>1. LI' /\ (ArgsIntact' <=> ArgsIntact)
    BY <1>5, <1>19 DEF SendWrite
  <2>2. k' \in [Conn -> 0 .. Cardinality(Conn)]
    BY <1>1, <1>2, <1>3, <1>19 DEF SendWrite, OwnTypeOK
  <2>3. c \in Conn \cup {NoConn}
    <3>1. clnt_socks[k[t]] \in Fds
      BY <1>1, <1>2, <1>3, <1>19 DEF SendWrite, OwnTypeOK, Bookkeeping
    <3> QED
      BY <1>2, <3>1
  <2>4. /\ up' \in BOOLEAN
        /\ out' \in [Conn -> Seq(Message)]
        /\ peer' \in [Conn -> PeerState]
        /\ \A d \in Conn : peer[d] # "open" => peer'[d] # "open"
    <3>1. CASE chunk[t] = <<>> \/ c = NoConn
      BY <1>1, <1>19, <3>1 DEF SendWrite, OwnTypeOK
    <3>2. CASE ~(chunk[t] = <<>> \/ c = NoConn)
      <4>1. /\ up' \in BOOLEAN
            /\ out' = [out EXCEPT ![c] = @ \o chunk[t]]
            /\ \E p \in AfterWrite(peer[c]) : peer' = [peer EXCEPT ![c] = p]
        BY <1>19, <3>2 DEF SendWrite, WriteKills
      <4>2. c \in Conn
        BY <2>3, <3>2
      <4>3. out[c] \o chunk[t] \in Seq(Message)
        BY <1>1, <4>2, ConcatProperties DEF OwnTypeOK
      <4>4. out' \in [Conn -> Seq(Message)]
        BY <1>1, <4>1, <4>2, <4>3 DEF OwnTypeOK
      <4>5. /\ peer' \in [Conn -> PeerState]
            /\ \A d \in Conn : peer[d] # "open" => peer'[d] # "open"
        <5> HIDE DEF c
        <5> QED
          BY <1>1, <4>1, <4>2 DEF OwnTypeOK, PeerState, AfterWrite
      <4> QED
        BY <4>1, <4>4, <4>5
    <3> QED
      BY <3>1, <3>2
  <2> QED
    BY <1>1, <1>19, <2>1, <2>2, <2>4
      DEF SendWrite, loopVars, OwnTypeOK, HandlerInv, IntactInv
<1>20. ASSUME NEW t \in Conn, SendUnlock(t)
       PROVE  OwnTypeOK' /\ LI' /\ HandlerInv' /\ (ArgsIntact' => ArgsIntact)
              /\ (ArgsIntact => IntactInv')
  <2>1. LI' /\ (ArgsIntact' <=> ArgsIntact)
    BY <1>2, <1>6, <1>20 DEF SendUnlock
  <2>2. pc' = [pc EXCEPT ![t] = "read"]
    BY <1>20 DEF SendUnlock, Goto
  <2>3. <<>> \in Seq(Message)
    BY EmptySeq
  <2> QED
    BY <1>1, <1>2, <1>3, <1>20, <2>1, <2>2, <2>3
      DEF SendUnlock, netVars, OwnTypeOK, HandlerInv, IntactInv
<1>21. ASSUME NEW t \in Conn, Remove(t)
       PROVE  OwnTypeOK' /\ LI' /\ HandlerInv' /\ (ArgsIntact' => ArgsIntact)
              /\ (ArgsIntact => IntactInv')
  <2>1. LI' /\ (ArgsIntact' <=> ArgsIntact)
    BY <1>1, <1>2, <1>21, PCLabels, LeaveKeeps DEF Remove, Past
  <2>2. pc' = [pc EXCEPT ![t] = "close"]
    BY <1>21 DEF Remove, Goto
  <2> QED
    BY <1>1, <1>2, <1>21, <2>1, <2>2
      DEF Remove, netVars, hVars, OwnTypeOK, HandlerInv, IntactInv
<1>22. ASSUME NEW t \in Conn, Close(t)
       PROVE  OwnTypeOK' /\ LI' /\ HandlerInv' /\ (ArgsIntact' => ArgsIntact)
              /\ (ArgsIntact => IntactInv')
  <2>1. LI' /\ (ArgsIntact' <=> ArgsIntact)
    <3>1. pc[t] \in Past \ {"done"} /\ Goto(t, "done")
      BY <1>22 DEF Close, Past
    <3>2. /\ fdtab' = [fdtab EXCEPT ![sock[t]] = NoConn]
          /\ UNCHANGED <<mainVars, regVars, mutx, sock>>
      BY <1>22 DEF Close
    <3> HIDE DEF LoopTypeOK
    <3> QED
      BY <1>1, <3>1, <3>2, PCLabels, CloseKeeps
  <2>2. pc' = [pc EXCEPT ![t] = "done"]
    BY <1>22 DEF Close, Goto
  <2> QED
    BY <1>1, <1>2, <1>22, <2>1, <2>2
      DEF Close, netVars, hVars, OwnTypeOK, HandlerInv, IntactInv
<1> QED
  BY <1>7, <1>8, <1>9, <1>10, <1>11, <1>12, <1>13, <1>14, <1>15, <1>16, <1>17,
     <1>18, <1>19, <1>20, <1>21, <1>22 DEF Next, Main, Handler, Idle

\* IInv holds in every reachable state of the chat server.
THEOREM Invariance == Spec => []IInv
<1>1. IInv /\ [Next]_vars => IInv'
  BY NextIInv
<1> QED
  BY <1>1, InitIInv, PTL DEF Spec

\* The variables always have their types; clnt_cnt stays within 0 and the
\* number of connections, so clnt_socks[clnt_cnt++] is inside the array.
THEOREM TypeCorrect == Spec => []TypeOK
<1>1. IInv => TypeOK
  BY DEF IInv
<1> QED
  BY <1>1, Invariance, PTL

\* clnt_cnt counts the listed connections whose handler has not left, whatever
\* descriptors the handlers took.
THEOREM CountCorrect == Spec => []CountExact
<1>1. IInv => CountExact
  BY DEF IInv, LoopInv, CountExact
<1> QED
  BY <1>1, Invariance, PTL

\* While every handler has its own descriptor, the table lists the connections
\* being served, each once, and each on an open descriptor of its own.
THEOREM TableCorrect == Spec => []TableExact
<1>1. IInv => TableExact
  BY DEF IInv, LoopInv, TableExact, FdsKept, Registered, Past
<1> QED
  BY <1>1, Invariance, PTL

\* What one step may take out of the table, and what it may close.
LEMMA StepRemoves ==
  ASSUME IInv, [Next]_vars, ArgsIntact, NEW c \in Conn
  PROVE  /\ c \in Registered(Past) /\ own[c] \notin ListedFds' => peer[c] # "open"
         /\ own[c] # NoFd /\ fdtab[own[c]] = c /\ fdtab'[own[c]] # c
              => own[c] \notin ListedFds
<1>1. /\ TableIs(Past) /\ FdsKept({"done"}) /\ Bookkeeping /\ LoopTypeOK(PC)
      /\ LoopInv(PC, Past, {"done"})
      /\ IntactInv
  BY IInvParts DEF LoopInv
<1>2. c \in Registered(Past) => own[c] \in ListedFds
  BY <1>1 DEF TableIs
<1>3. CASE UNCHANGED <<regVars, fdtab>>
  BY <1>2, <1>3 DEF regVars, ListedFds
<1>4. ASSUME NEW d \in Conn, MainAccept(d)
      PROVE  UNCHANGED regVars /\ (fdtab[own[c]] = c => fdtab'[own[c]] = c)
  BY <1>1, <1>4, ConnAssumption DEF MainAccept, Accept, regVars, LoopTypeOK
<1>5. ASSUME MainAppend PROVE UNCHANGED fdtab /\ ListedFds \subseteq ListedFds'
  <2>1. /\ clnt_socks' = [clnt_socks EXCEPT ![clnt_cnt] = clnt_sock]
        /\ clnt_cnt' = clnt_cnt + 1 /\ fdtab' = fdtab
    BY <1>5 DEF MainAppend, Enlist, Entered
  <2>2. clnt_cnt \in Nat
    BY <1>1, ConnAssumption, FS_CardinalityType DEF LoopTypeOK
  <2>3. clnt_socks \in [Slots -> Fds \cup {NoFd}] /\ clnt_cnt \in Slots
    BY <1>1, ConnAssumption, FS_CardinalityType DEF LoopTypeOK, Slots
  <2>4. \A i \in 0 .. clnt_cnt - 1 :
           i \in 0 .. clnt_cnt' - 1 /\ clnt_socks'[i] = clnt_socks[i]
    BY <2>1, <2>2, <2>3, ConnAssumption DEF Slots
  <2> QED
    BY <2>1, <2>4 DEF ListedFds
<1>6. ASSUME NEW t \in Conn, Remove(t)
      PROVE  /\ UNCHANGED fdtab
             /\ c \in Registered(Past) /\ own[c] \notin ListedFds' => peer[c] # "open"
  <2>1. /\ pc[t] = "remove" /\ Goto(t, "close") /\ RemoveSelf(t)
        /\ mutx' \in Conn \cup {NoConn} /\ UNCHANGED <<mainVars, fdtab, sock>>
    BY <1>1, <1>6 DEF Remove, LoopTypeOK
  <2>2. ListedFds' = ListedFds \ {own[t]}
    BY <1>1, <2>1, PCLabels, LeaveKeeps DEF Past
  <2>3. peer[t] # "open"
    BY <1>1, <2>1 DEF IntactInv
  <2>4. own[t] # NoFd /\ fdtab[own[t]] = t
    BY <1>1, <2>1 DEF Bookkeeping, FdsKept
  <2>5. c \in Registered(Past) => fdtab[own[c]] = c
    BY <1>1 DEF FdsKept, Registered, Past
  <2> QED
    BY <1>2, <2>1, <2>2, <2>3, <2>4, <2>5
<1>7. ASSUME NEW t \in Conn, Close(t)
      PROVE  /\ UNCHANGED regVars
             /\ own[c] # NoFd /\ fdtab[own[c]] = c /\ fdtab'[own[c]] # c
                  => own[c] \notin ListedFds
  <2>1. /\ pc[t] = "close" /\ fdtab' = [fdtab EXCEPT ![sock[t]] = NoConn]
        /\ UNCHANGED regVars
    BY <1>7 DEF Close
  <2>2. own[t] # NoFd /\ fdtab[own[t]] = t /\ sock[t] = own[t]
    BY <1>1, <2>1 DEF Bookkeeping, FdsKept, ArgsIntact, Started
  <2>3. own[t] \notin ListedFds
    <3>1. \A d \in Registered(Past) : own[d] # own[t]
      BY <1>1, <2>1, <2>2 DEF FdsKept, Registered, Past
    <3> QED
      BY <1>1, <3>1 DEF TableIs
  <2>4. fdtab'[own[c]] # c /\ fdtab[own[c]] = c /\ own[c] # NoFd => own[c] = own[t]
    BY <1>1, <2>1, <2>2 DEF LoopTypeOK
  <2> QED
    BY <2>1, <2>3, <2>4
<1>8. ASSUME \/ UNCHANGED vars \/ MainCreate \/ Idle
             \/ \E t \in Conn : \/ ClientSend(t) \/ ClientQuit(t) \/ HandlerStart(t)
                               \/ ReadCall(t) \/ ReadData(t) \/ ReadEof(t)
                               \/ ReadReset(t) \/ SendLock(t) \/ SendWrite(t)
                               \/ SendUnlock(t)
      PROVE  UNCHANGED <<regVars, fdtab>>
  BY <1>8 DEF vars, loopVars, regVars, MainCreate, Create, Idle, ClientSend,
       ClientQuit, HandlerStart, TakeArg, ReadCall, ReadData, ReadEof, ReadReset,
       SendLock, SendWrite, SendUnlock
<1>9. UNCHANGED regVars => ListedFds' = ListedFds
  BY DEF regVars, ListedFds
<1> QED
  BY <1>2, <1>3, <1>4, <1>5, <1>6, <1>7, <1>8, <1>9 DEF Next, Main, Handler

\* Only clients that disconnected are taken out of the table, and a descriptor
\* is closed only after it left the table.
THEOREM RemoveCloseOrder == Spec => RemoveThenClose
<1>1. IInv /\ [Next]_vars =>
        [ArgsIntact =>
           \A c \in Conn :
             /\ c \in Registered(Past) /\ own[c] \notin ListedFds' => peer[c] # "open"
             /\ own[c] # NoFd /\ fdtab[own[c]] = c /\ fdtab'[own[c]] # c
                  => own[c] \notin ListedFds]_vars
  BY StepRemoves
<1> QED
  BY <1>1, Invariance, PTL DEF Spec, RemoveThenClose

-----------------------------------------------------------------------------
\* No handler gets another connection's descriptor when connections are far
\* enough apart.
THEOREM SpacedArgs == SpacedSpec => []ArgsIntact
<1> DEFINE SInv == IInv /\ ArgWaits /\ ArgsIntact
<1>1. Init => SInv
  BY InitIInv, ArgsAtFirst DEF Init
<1>2. SInv /\ [Next /\ Spaced]_vars => SInv'
  <2> SUFFICES ASSUME IInv, ArgWaits, ArgsIntact, [Next /\ Spaced]_vars
               PROVE  IInv' /\ ArgWaits' /\ ArgsIntact'
    OBVIOUS
  <2>1. IInv' /\ [Next]_vars
    BY NextIInv
  <2>2. LoopInv(PC, Past, {"done"})
    BY IInvParts
  <2>3. ASSUME NEW c \in Conn, MainAccept(c), Spaced
        PROVE  ArgWaits' /\ ArgsIntact'
    BY <2>2, <2>3, SpacedAccept DEF MainAccept, Spaced
  <2>4. ASSUME MainCreate \/ \E t \in Conn : HandlerStart(t)
        PROVE  ArgWaits' /\ ArgsIntact'
    <3>1. "read" \in PC \ {"start"}
      BY DEF PC
    <3> QED
      BY <2>2, <2>4, <3>1, SpacedStart DEF MainCreate, HandlerStart
  <2>5. ASSUME \/ UNCHANGED vars \/ MainAppend \/ Idle
               \/ \E t \in Conn : ClientSend(t) \/ ClientQuit(t) \/ SendWrite(t)
        PROVE  ArgWaits' /\ ArgsIntact'
    BY <2>2, <2>5, SpacedOther DEF vars, loopVars, MainAppend, Enlist, Idle,
         ClientSend, ClientQuit, SendWrite
  <2>6. ASSUME NEW t \in Conn,
               \/ ReadCall(t) \/ ReadData(t) \/ ReadEof(t) \/ ReadReset(t)
               \/ SendLock(t) \/ SendUnlock(t) \/ Remove(t) \/ Close(t)
        PROVE  ArgWaits' /\ ArgsIntact'
    <3>1. UNCHANGED <<clnt_sock, own, sock>>
      BY <2>6 DEF mainVars, ReadCall, ReadData, ReadEof, ReadReset, SendLock,
           SendUnlock, Remove, Close
    <3>2. \E l \in PC \ {"start"} : Goto(t, l)
      BY <2>6 DEF PC, ReadCall, ReadData, ReadEof, ReadReset, SendLock,
           SendUnlock, Remove, Close
    <3> QED
      BY <2>2, <3>1, <3>2, SpacedOther
  <2> QED
    BY <2>1, <2>3, <2>4, <2>5, <2>6 DEF Next, Main, Handler
<1> QED
  BY <1>1, <1>2, PTL DEF SpacedSpec

-----------------------------------------------------------------------------
(***************************************************************************)
(* One conversation.  TalkInv says where every message is, from the user   *)
(* who typed it to the connections it was written to; it is inductive as   *)
(* long as no argument was mixed up.                                       *)
(***************************************************************************)

\* What its handler has read of client c and has still to broadcast, and how
\* many messages of c came before that.
InHand(c) == IF pc[c] = "send" THEN chunk[c] ELSE <<>>
Begun(c)  == sent[c] - Len(inbox[c]) - Len(InHand(c))

\* The messages of c in s are its first n, each once, in their order.
FirstOf(s, c, n) ==
  /\ \A i \in DOMAIN s : s[i].from = c => s[i].n \in 1 .. n
  /\ \A m \in 1 .. n : \E i \in DOMAIN s : s[i] = [from |-> c, n |-> m]
  /\ \A i, j \in DOMAIN s : i < j /\ s[i].from = c /\ s[j].from = c => s[i].n < s[j].n

\* q are the messages of c that follow its first n.
Follow(q, c, n) == \A i \in DOMAIN q : q[i] = [from |-> c, n |-> n + i]

\* What a client typed is broadcast, in its handler's hand, or on its way.
OrderInv ==
  \A c \in Conn :
    /\ Begun(c) \in Nat
    /\ FirstOf(casts, c, Begun(c))
    /\ Follow(InHand(c), c, Begun(c))
    /\ Follow(inbox[c], c, Begun(c) + Len(InHand(c)))

\* A handler has nothing in hand while it reads, and starts with the first slot.
HandInv ==
  \A t \in Conn : /\ pc[t] \notin {"send", "sending"} => chunk[t] = <<>>
                  /\ pc[t] # "sending" => k[t] = 0

\* q is the run of s after its first a.
Run(s, q, a) ==
  /\ a \in Nat /\ a + Len(q) <= Len(s)
  /\ \A i \in DOMAIN q : q[i] = s[a + i]

\* The broadcast under way has still to come to connection c, and its length.
Awaits(c) ==
  mutx # NoConn /\ \E i \in k[mutx] .. clnt_cnt - 1 : clnt_socks[i] = own[c]

Coming(c) == IF Awaits(c) THEN Len(chunk[mutx]) ELSE 0

\* What every connection was told is a run of the broadcasts, and for those
\* that are served it ends with the last once that has come to them.
ToldInv ==
  /\ mutx # NoConn => Run(casts, chunk[mutx], Len(casts) - Len(chunk[mutx]))
  /\ \A c \in Conn :
       /\ \E a \in 0 .. Len(casts) : Run(casts, out[c], a)
       /\ c \notin Registered({}) => out[c] = <<>>
       /\ c \in Registered(Past) =>
            Run(casts, out[c], Len(casts) - Len(out[c]) - Coming(c))

TalkInv == OrderInv /\ ToldInv

\* The next messages of c behind its first n.
LEMMA FirstMore ==
  ASSUME NEW s \in Seq(Message), NEW q \in Seq(Message), NEW c \in Conn,
         NEW n \in Nat, Follow(q, c, n)
  PROVE  /\ FirstOf(s, c, n) => FirstOf(s \o q, c, n + Len(q))
         /\ \A d \in Conn \ {c} : \A m \in Nat : FirstOf(s, d, m) => FirstOf(s \o q, d, m)
<1> DEFINE x == s \o q
<1>1. PICK l \in Nat : l = Len(s) /\ DOMAIN s = 1 .. l
  BY LenProperties, Zenon
<1>2. PICK h \in Nat : h = Len(q) /\ DOMAIN q = 1 .. h
  BY LenProperties, Zenon
<1>3. x \in Seq(Message) /\ Len(x) = Len(s) + Len(q)
      /\ \A i \in 1 .. Len(s) + Len(q) : x[i] = IF i <= Len(s) THEN s[i] ELSE q[i - Len(s)]
  BY ConcatProperties, Zenon
<1>4. DOMAIN x = 1 .. l + h /\ \A i \in 1 .. l + h : x[i] = IF i <= l THEN s[i] ELSE q[i - l]
  BY <1>1, <1>2, <1>3, LenProperties, Zenon
<1> HIDE DEF x
<1>5. \A i \in 1 .. l : i \in DOMAIN x /\ x[i] = s[i] /\ s[i] \in Message
  <2>1. \A i \in 1 .. l : i \in 1 .. l + h /\ i <= l
    OBVIOUS
  <2>2. \A i \in 1 .. l : s[i] \in Message
    BY <1>1, ElementOfSeq, Zenon
  <2> QED
    BY <1>4, <2>1, <2>2
<1>6. \A i \in 1 .. h : l + i \in DOMAIN x /\ x[l + i] = [from |-> c, n |-> n + i]
  <2> SUFFICES ASSUME NEW i \in 1 .. h
               PROVE  l + i \in DOMAIN x /\ x[l + i] = [from |-> c, n |-> n + i]
    OBVIOUS
  <2>1. l + i \in 1 .. l + h /\ ~(l + i <= l) /\ (l + i) - l = i
    OBVIOUS
  <2>2. q[i] = [from |-> c, n |-> n + i]
    BY <1>2 DEF Follow
  <2> QED
    BY <1>4, <2>1, <2>2
<1>7. \A i \in DOMAIN x : i \in 1 .. l \/ \E j \in 1 .. h : i = l + j
  <2> SUFFICES ASSUME NEW i \in 1 .. l + h, i \notin 1 .. l
               PROVE  \E j \in 1 .. h : i = l + j
    BY <1>4
  <2>1. i - l \in 1 .. h /\ i = l + (i - l)
    OBVIOUS
  <2> QED
    BY <2>1
<1>8. ASSUME FirstOf(s, c, n) PROVE FirstOf(x, c, n + h)
  <2>1. ASSUME NEW i \in DOMAIN x, x[i].from = c PROVE x[i].n \in 1 .. n + h
    <3>1. CASE i \in 1 .. l
      <4>1. x[i].n \in 1 .. n
        BY <1>1, <1>5, <1>8, <2>1, <3>1 DEF FirstOf
      <4> QED
        BY <4>1
    <3>2. CASE \E j \in 1 .. h : i = l + j
      <4>1. PICK j \in 1 .. h : i = l + j
        BY <3>2
      <4>2. x[i] = [from |-> c, n |-> n + j]
        BY <1>6, <4>1, Zenon
      <4>3. x[i].n = n + j
        BY <4>2
      <4> QED
        BY <4>3
    <3> QED
      BY <1>7, <3>1, <3>2
  <2>2. ASSUME NEW m \in 1 .. n + h PROVE \E i \in DOMAIN x : x[i] = [from |-> c, n |-> m]
    <3>1. CASE m \in 1 .. n
      <4>1. PICK i \in 1 .. l : s[i] = [from |-> c, n |-> m]
        BY <1>1, <1>8, <3>1 DEF FirstOf
      <4> QED
        BY <1>5, <4>1
    <3>2. CASE m \notin 1 .. n
      <4>1. m - n \in 1 .. h /\ n + (m - n) = m
        BY <3>2
      <4> QED
        BY <1>6, <4>1
    <3> QED
      BY <3>1, <3>2
  <2>3. ASSUME NEW i \in DOMAIN x, NEW j \in DOMAIN x, i < j, x[i].from = c, x[j].from = c
        PROVE  x[i].n < x[j].n
    <3>1. CASE j \in 1 .. l
      <4>1. i \in 1 .. l
        BY <1>4, <2>3, <3>1
      <4> QED
        BY <1>1, <1>5, <1>8, <2>3, <3>1, <4>1 DEF FirstOf
    <3>2. CASE \E b \in 1 .. h : j = l + b
      <4>1. PICK b \in 1 .. h : j = l + b
        BY <3>2
      <4>5. x[j] = [from |-> c, n |-> n + b]
        BY <1>6, <4>1, Zenon
      <4>2. x[j].n = n + b
        BY <4>5
      <4>3. CASE i \in 1 .. l
        <5>1. x[i].n \in 1 .. n
          BY <1>1, <1>5, <1>8, <2>3, <4>3 DEF FirstOf
        <5> QED
          BY <4>2, <5>1
      <4>4. CASE \E a \in 1 .. h : i = l + a
        <5>1. PICK a \in 1 .. h : i = l + a
          BY <4>4
        <5>3. x[i] = [from |-> c, n |-> n + a]
          BY <1>6, <5>1, Zenon
        <5>2. x[i].n = n + a
          BY <5>3
        <5> QED
          BY <2>3, <4>1, <4>2, <5>1, <5>2
      <4> QED
        BY <1>7, <4>3, <4>4
    <3> QED
      BY <1>7, <3>1, <3>2
  <2> QED
    BY <2>1, <2>2, <2>3 DEF FirstOf
<1>9. ASSUME NEW d \in Conn \ {c}, NEW m \in Nat, FirstOf(s, d, m) PROVE FirstOf(x, d, m)
  <2>1. \A i \in DOMAIN x : x[i].from = d => i \in 1 .. l
    <3> SUFFICES ASSUME NEW i \in DOMAIN x, NEW j \in 1 .. h, i = l + j
                 PROVE  x[i].from # d
      BY <1>7
    <3>1. x[i] = [from |-> c, n |-> n + j]
      BY <1>6, Zenon
    <3> QED
      BY <3>1
  <2>2. \A i \in 1 .. l : i \in DOMAIN s /\ x[i] = s[i] /\ i \in DOMAIN x
    BY <1>1, <1>5
  <2>3. ASSUME NEW e \in 1 .. m PROVE \E i \in DOMAIN x : x[i] = [from |-> d, n |-> e]
    <3>1. PICK i \in 1 .. l : s[i] = [from |-> d, n |-> e]
      BY <1>1, <1>9 DEF FirstOf
    <3> QED
      BY <2>2, <3>1
  <2> QED
    BY <1>9, <2>1, <2>2, <2>3 DEF FirstOf
<1> QED
  BY <1>2, <1>8, <1>9 DEF x

\* A run stays one when s gets longer, what is put behind is one, and one run
\* goes on with the next.
LEMMA RunMore ==
  ASSUME NEW s \in Seq(Message), NEW q \in Seq(Message)
  PROVE  /\ Run(s \o q, q, Len(s))
         /\ \A r \in Seq(Message) : \A a : Run(s, r, a) => Run(s \o q, r, a)
         /\ Len(s \o q) = Len(s) + Len(q)
<1> DEFINE x == s \o q
<1>1. PICK l \in Nat : l = Len(s)
  BY LenProperties, Zenon
<1>2. PICK h \in Nat : h = Len(q) /\ DOMAIN q = 1 .. h
  BY LenProperties, Zenon
<1>3. Len(x) = l + h /\ \A i \in 1 .. l + h : x[i] = IF i <= l THEN s[i] ELSE q[i - l]
  BY <1>1, <1>2, ConcatProperties, Zenon
<1> HIDE DEF x
<1>4. Run(x, q, Len(s))
  <2>1. \A i \in 1 .. h : l + i \in 1 .. l + h /\ ~(l + i <= l) /\ (l + i) - l = i
    OBVIOUS
  <2>2. \A i \in 1 .. h : x[l + i] = q[i]
    BY <1>3, <2>1
  <2> QED
    BY <1>1, <1>2, <1>3, <2>2 DEF Run
<1>5. ASSUME NEW r \in Seq(Message), NEW a, Run(s, r, a) PROVE Run(x, r, a)
  <2>1. PICK g \in Nat : g = Len(r) /\ DOMAIN r = 1 .. g
    BY LenProperties, Zenon
  <2>2. a \in Nat /\ a + g <= l /\ \A i \in 1 .. g : r[i] = s[a + i]
    BY <1>1, <1>5, <2>1 DEF Run
  <2>3. \A i \in 1 .. g : a + i \in 1 .. l + h /\ a + i <= l
    BY <2>2
  <2>4. \A i \in 1 .. g : r[i] = x[a + i]
    BY <1>3, <2>2, <2>3
  <2> QED
    <3>1. a + g <= l + h
      BY <2>2
    <3> QED
      BY <1>3, <2>1, <2>2, <2>4, <3>1 DEF Run
<1> QED
  BY <1>1, <1>2, <1>3, <1>4, <1>5 DEF x

LEMMA RunJoin ==
  ASSUME NEW s \in Seq(Message), NEW q \in Seq(Message), NEW r \in Seq(Message), NEW a,
         Run(s, q, a), Run(s, r, a + Len(q))
  PROVE  Run(s, q \o r, a) /\ Len(q \o r) = Len(q) + Len(r)
<1> DEFINE x == q \o r
<1>1. PICK l \in Nat : l = Len(q) /\ DOMAIN q = 1 .. l
  BY LenProperties, Zenon
<1>2. PICK h \in Nat : h = Len(r) /\ DOMAIN r = 1 .. h
  BY LenProperties, Zenon
<1>3. PICK g \in Nat : g = Len(s)
  BY LenProperties, Zenon
<1>4. x \in Seq(Message) /\ Len(x) = l + h
      /\ \A i \in 1 .. l + h : x[i] = IF i <= l THEN q[i] ELSE r[i - l]
  BY <1>1, <1>2, ConcatProperties, Zenon
<1>5. DOMAIN x = 1 .. l + h
  BY <1>4, LenProperties, Zenon
<1> HIDE DEF x
<1>6. /\ a \in Nat /\ a + l <= g /\ a + l + h <= g
      /\ \A i \in 1 .. l : q[i] = s[a + i]
      /\ \A i \in 1 .. h : r[i] = s[(a + l) + i]
  BY <1>1, <1>2, <1>3 DEF Run
<1>7. ASSUME NEW i \in 1 .. l + h PROVE x[i] = s[a + i]
  <2>1. CASE i <= l
    <3>1. i \in 1 .. l
      BY <2>1
    <3> QED
      BY <1>4, <1>6, <2>1, <3>1
  <2>2. CASE ~(i <= l)
    <3>1. i - l \in 1 .. h /\ (a + l) + (i - l) = a + i
      BY <1>6, <2>2
    <3> QED
      BY <1>4, <1>6, <2>2, <3>1
  <2> QED
    BY <2>1, <2>2
<1>8. a + (l + h) <= g
  BY <1>6
<1> QED
  BY <1>1, <1>2, <1>3, <1>4, <1>5, <1>6, <1>7, <1>8 DEF Run, x

\* A run is a part of s.
LEMMA RunIsPart ==
  ASSUME NEW s \in Seq(Message), NEW q \in Seq(Message), NEW a, Run(s, q, a)
  PROVE  /\ a \in 0 .. Len(s) /\ a + Len(q) \in 0 .. Len(s)
         /\ q = SubSeq(s, a + 1, a + Len(q))
<1>1. PICK l \in Nat : l = Len(q) /\ DOMAIN q = 1 .. l
  BY LenProperties, Zenon
<1>2. PICK g \in Nat : g = Len(s)
  BY LenProperties, Zenon
<1>3. a \in Nat /\ a + l <= g /\ \A i \in 1 .. l : q[i] = s[a + i]
  BY <1>1, <1>2 DEF Run
<1> DEFINE p == SubSeq(s, a + 1, a + l)
<1>4. \A i \in (a + 1) .. (a + l) : s[i] \in Message
  <2>1. \A i \in (a + 1) .. (a + l) : i \in 1 .. g
    BY <1>3
  <2> QED
    BY <1>2, <2>1, ElementOfSeq
<1>5. /\ p \in Seq(Message)
      /\ Len(p) = IF a + 1 <= a + l THEN (a + l) - (a + 1) + 1 ELSE 0
      /\ \A i \in 1 .. (a + l) - (a + 1) + 1 : p[i] = s[(a + 1) + i - 1]
  <2>1. a + 1 \in Int /\ a + l \in Int
    BY <1>3
  <2>2. \A m, n \in Int :
          (\A i \in m .. n : s[i] \in Message) =>
            /\ SubSeq(s, m, n) \in Seq(Message)
            /\ Len(SubSeq(s, m, n)) = IF m <= n THEN n - m + 1 ELSE 0
            /\ \A i \in 1 .. n - m + 1 : SubSeq(s, m, n)[i] = s[m + i - 1]
    <3> SUFFICES ASSUME NEW m \in Int, NEW n \in Int, \A i \in m .. n : s[i] \in Message
                 PROVE  /\ SubSeq(s, m, n) \in Seq(Message)
                        /\ Len(SubSeq(s, m, n)) = IF m <= n THEN n - m + 1 ELSE 0
                        /\ \A i \in 1 .. n - m + 1 : SubSeq(s, m, n)[i] = s[m + i - 1]
      OBVIOUS
    <3> QED
      BY SubSeqProperties
  <2> QED
    BY <1>4, <2>1, <2>2, Zenon
<1> HIDE DEF p
<1>6. Len(p) = l /\ \A i \in 1 .. l : p[i] = s[a + i]
  <2>1. (a + l) - (a + 1) + 1 = l /\ (~(a + 1 <= a + l) => l = 0)
    BY <1>3
  <2>2. \A i \in 1 .. l : (a + 1) + i - 1 = a + i
    BY <1>3
  <2> QED
    BY <1>3, <1>5, <2>1, <2>2
<1>7. p = q
  BY <1>1, <1>3, <1>5, <1>6, SeqEqual, Zenon
<1>8. a \in 0 .. g /\ a + l \in 0 .. g
  BY <1>3
<1> QED
  BY <1>1, <1>2, <1>7, <1>8 DEF p

\* What is taken from the front of a sequence, and what is left of it.
LEMMA CutParts ==
  ASSUME NEW s \in Seq(Message), NEW l \in Nat, l = Len(s), NEW n \in 1 .. l
  PROVE  /\ SubSeq(s, 1, n) \in Seq(Message) /\ Len(SubSeq(s, 1, n)) = n
         /\ \A i \in 1 .. n : SubSeq(s, 1, n)[i] = s[i]
         /\ SubSeq(s, n + 1, l) \in Seq(Message) /\ Len(SubSeq(s, n + 1, l)) = l - n
         /\ \A i \in 1 .. l - n : SubSeq(s, n + 1, l)[i] = s[n + i]
<1>1. \A i \in 1 .. l : s[i] \in Message
  BY ElementOfSeq
<1>2. \A a, b \in Int :
        (\A i \in a .. b : s[i] \in Message) =>
          /\ SubSeq(s, a, b) \in Seq(Message)
          /\ Len(SubSeq(s, a, b)) = IF a <= b THEN b - a + 1 ELSE 0
          /\ \A i \in 1 .. b - a + 1 : SubSeq(s, a, b)[i] = s[a + i - 1]
  <2> SUFFICES ASSUME NEW a \in Int, NEW b \in Int, \A i \in a .. b : s[i] \in Message
               PROVE  /\ SubSeq(s, a, b) \in Seq(Message)
                      /\ Len(SubSeq(s, a, b)) = IF a <= b THEN b - a + 1 ELSE 0
                      /\ \A i \in 1 .. b - a + 1 : SubSeq(s, a, b)[i] = s[a + i - 1]
    OBVIOUS
  <2> QED
    BY SubSeqProperties
<1>3. PICK m \in Int : m = n + 1
  OBVIOUS
<1>4. /\ \A i \in 1 .. n : s[i] \in Message
      /\ \A i \in m .. l : s[i] \in Message
  BY <1>1, <1>3
<1>5. /\ SubSeq(s, 1, n) \in Seq(Message)
      /\ Len(SubSeq(s, 1, n)) = IF 1 <= n THEN n - 1 + 1 ELSE 0
      /\ \A i \in 1 .. n - 1 + 1 : SubSeq(s, 1, n)[i] = s[1 + i - 1]
  <2>1. 1 \in Int /\ n \in Int
    OBVIOUS
  <2> QED
    BY <1>2, <1>4, <2>1, Zenon
<1>6. /\ SubSeq(s, m, l) \in Seq(Message)
      /\ Len(SubSeq(s, m, l)) = IF m <= l THEN l - m + 1 ELSE 0
      /\ \A i \in 1 .. l - m + 1 : SubSeq(s, m, l)[i] = s[m + i - 1]
  <2>1. m \in Int /\ l \in Int
    BY <1>3
  <2> QED
    BY <1>2, <1>4, <2>1, Zenon
<1>7. Len(SubSeq(s, 1, n)) = n /\ \A i \in 1 .. n : SubSeq(s, 1, n)[i] = s[i]
  BY <1>5
<1>8. l - m + 1 = l - n /\ (~(m <= l) => l - n = 0)
      /\ \A i \in 1 .. l - n : m + i - 1 = n + i
  BY <1>3
<1>9. Len(SubSeq(s, m, l)) = l - n /\ \A i \in 1 .. l - n : SubSeq(s, m, l)[i] = s[n + i]
  BY <1>6, <1>8
<1> QED
  BY <1>3, <1>5, <1>6, <1>7, <1>9

\* Nothing is in hand at first, or said.
LEMMA InitTalk == Init => HandInv /\ TalkInv
<1> SUFFICES ASSUME Init PROVE HandInv /\ TalkInv
  OBVIOUS
<1>1. /\ casts = <<>> /\ mutx = NoConn
      /\ \A c \in Conn : /\ inbox[c] = <<>> /\ out[c] = <<>> /\ chunk[c] = <<>>
                         /\ sent[c] = 0 /\ k[c] = 0 /\ pc[c] = "none" /\ own[c] = NoFd
  BY DEF Init, LoopInit
<1>2. Len(<<>>) = 0 /\ DOMAIN <<>> = {}
  OBVIOUS
<1>3. HandInv
  BY <1>1 DEF HandInv
<1>4. OrderInv
  <2> SUFFICES ASSUME NEW c \in Conn
               PROVE  /\ Begun(c) \in Nat
                      /\ FirstOf(casts, c, Begun(c))
                      /\ Follow(InHand(c), c, Begun(c))
                      /\ Follow(inbox[c], c, Begun(c) + Len(InHand(c)))
    BY DEF OrderInv
  <2>1. InHand(c) = <<>> /\ Begun(c) = 0
    BY <1>1, <1>2 DEF InHand, Begun
  <2>2. FirstOf(<<>>, c, 0)
    BY <1>2 DEF FirstOf
  <2>3. \A n : Follow(<<>>, c, n)
    BY <1>2 DEF Follow
  <2> QED
    BY <1>1, <2>1, <2>2, <2>3
<1>5. ToldInv
  <2>1. Run(casts, <<>>, 0) /\ 0 \in 0 .. Len(casts)
    BY <1>1, <1>2 DEF Run
  <2>2. \A c \in Conn : c \notin Registered(Past)
    BY <1>1 DEF Registered
  <2> QED
    BY <1>1, <2>1, <2>2 DEF ToldInv
<1> QED
  BY <1>3, <1>4, <1>5 DEF TalkInv

\* Every step keeps HandInv.
LEMMA NextHand ==
  ASSUME IInv, HandInv, [Next]_vars
  PROVE  HandInv'
<1>1. /\ pc \in [Conn -> PC] /\ chunk \in [Conn -> Seq(Message)]
      /\ k \in [Conn -> 0 .. Cardinality(Conn)]
      /\ Bookkeeping
  BY DEF IInv, TypeOK, LoopTypeOK, LoopInv
<1>2. CASE UNCHANGED <<pc, chunk, k>>
  BY <1>2 DEF HandInv
<1>3. ASSUME NEW t \in Conn, NEW at \in PC,
             Goto(t, at), UNCHANGED <<chunk, k>>,
             pc[t] # "sending" /\ (pc[t] = "send" => at = "sending")
      PROVE  HandInv'
  BY <1>1, <1>3 DEF Goto, HandInv
<1>4. ASSUME NEW t \in Conn, SendWrite(t) PROVE HandInv'
  BY <1>1, <1>4 DEF SendWrite, loopVars, HandInv
<1>5. ASSUME NEW t \in Conn, SendUnlock(t) PROVE HandInv'
  BY <1>1, <1>5 DEF SendUnlock, Goto, HandInv
<1>6. ASSUME NEW t \in Conn, ReadData(t) PROVE HandInv'
  <2>1. /\ pc[t] = "blocked" /\ pc' = [pc EXCEPT ![t] = "send"]
        /\ UNCHANGED k
        /\ \A u \in Conn \ {t} : chunk'[u] = chunk[u]
    BY <1>1, <1>6 DEF ReadData, Goto
  <2> QED
    BY <1>1, <2>1 DEF HandInv
<1>7. CASE MainCreate
  <2>1. /\ cur \in Conn /\ pc[cur] = "none" /\ Goto(cur, "start") /\ UNCHANGED <<chunk, k>>
    BY <1>1, <1>7 DEF MainCreate, Create, Bookkeeping, hVars, Goto
  <2> QED
    BY <1>3, <2>1 DEF PC
<1>8. ASSUME NEW t \in Conn, \/ HandlerStart(t) \/ ReadCall(t) \/ ReadEof(t) \/ ReadReset(t)
                              \/ SendLock(t) \/ Remove(t) \/ Close(t)
      PROVE  HandInv'
  <2>1. UNCHANGED <<chunk, k>>
    BY <1>8 DEF HandlerStart, ReadCall, ReadEof, ReadReset, SendLock, Remove, Close, hVars
  <2>2. CASE HandlerStart(t)
    BY <1>3, <2>1, <2>2 DEF HandlerStart, TakeArg, Goto, PC
  <2>3. CASE ReadCall(t)
    BY <1>3, <2>1, <2>3 DEF ReadCall, PC
  <2>4. CASE ReadEof(t) \/ ReadReset(t)
    BY <1>3, <2>1, <2>4 DEF ReadEof, ReadReset, PC
  <2>5. CASE SendLock(t) \/ Remove(t) \/ Close(t)
    BY <1>3, <2>1, <2>5 DEF SendLock, Remove, Close, PC
  <2> QED
    BY <1>8, <2>2, <2>3, <2>4, <2>5
<1>9. CASE \/ UNCHANGED vars \/ MainAppend \/ Idle
           \/ \E c \in Conn : MainAccept(c) \/ ClientSend(c) \/ ClientQuit(c)
  BY <1>2, <1>9 DEF vars, hVars, loopVars, Idle, MainAppend, Enlist, MainAccept, Accept,
       ClientSend, ClientQuit
<1> QED
  BY <1>4, <1>5, <1>6, <1>7, <1>8, <1>9 DEF Next, Main, Handler

\* Nothing of client c moves.
LEMMA OrderStays ==
  ASSUME OrderInv, UNCHANGED <<sent, inbox, casts>>, \A c \in Conn : InHand(c)' = InHand(c)
  PROVE  OrderInv'
BY DEF OrderInv, Begun

\* What has been typed stays in order until it is broadcast.
LEMMA NextOrder ==
  ASSUME IInv, HandInv, ArgsIntact, OrderInv, [Next]_vars
  PROVE  OrderInv'
<1>1. /\ pc \in [Conn -> PC] /\ chunk \in [Conn -> Seq(Message)]
      /\ inbox \in [Conn -> Seq(Message)] /\ sent \in [Conn -> 0 .. MaxSent]
      /\ casts \in Seq(Message)
      /\ Bookkeeping /\ MaxSent \in Nat
  BY SentAssumption DEF IInv, TypeOK, LoopTypeOK, LoopInv
<1>2. \A c \in Conn : InHand(c) \in Seq(Message)
  BY <1>1, EmptySeq DEF InHand
<1>3. ASSUME NEW c \in Conn, ClientSend(c) PROVE OrderInv'
  <2> DEFINE m == [from |-> c, n |-> sent'[c]]
  <2>1. /\ sent' = [sent EXCEPT ![c] = @ + 1]
        /\ inbox' = [inbox EXCEPT ![c] = Append(@, m)]
        /\ UNCHANGED <<pc, chunk, casts>>
        /\ sent[c] < MaxSent
    BY <1>3 DEF ClientSend, loopVars, hVars
  <2>2. \A d \in Conn : InHand(d)' = InHand(d)
    BY <2>1 DEF InHand
  <2>3. /\ sent'[c] = sent[c] + 1 /\ sent[c] \in Nat
        /\ \A d \in Conn \ {c} : sent'[d] = sent[d]
    BY <1>1, <2>1
  <2>4. m \in Message
    BY <1>1, <2>1, <2>3 DEF Message
  <2>5. PICK l \in Nat : l = Len(inbox[c]) /\ DOMAIN inbox[c] = 1 .. l
    BY <1>1, LenProperties, Zenon
  <2>6. PICK h \in Nat : h = Len(InHand(c))
    BY <1>2, LenProperties, Zenon
  <2>7. /\ Len(inbox'[c]) = l + 1 /\ DOMAIN inbox'[c] = 1 .. l + 1
        /\ \A i \in 1 .. l : inbox'[c][i] = inbox[c][i]
        /\ inbox'[c][l + 1] = m
    <3> HIDE DEF m
    <3>1. inbox'[c] = Append(inbox[c], m) /\ inbox[c] \in Seq(Message)
      BY <1>1, <2>1
    <3> QED
      BY <2>4, <2>5, <3>1, AppendProperties, LenProperties
  <2>8. Begun(c)' = Begun(c) /\ Begun(c) = sent[c] - l - h /\ Begun(c) \in Nat
    <3>1. Begun(c) = sent[c] - l - h /\ Begun(c) \in Nat
      BY <2>5, <2>6 DEF Begun, OrderInv
    <3>2. Begun(c)' = (sent[c] + 1) - (l + 1) - h
      BY <2>2, <2>3, <2>6, <2>7 DEF Begun
    <3> QED
      BY <2>3, <3>1, <3>2
  <2>9. Follow(inbox'[c], c, Begun(c) + h)
    <3>1. \A i \in 1 .. l : inbox[c][i] = [from |-> c, n |-> (Begun(c) + h) + i]
      BY <2>5, <2>6 DEF OrderInv, Follow
    <3>2. (Begun(c) + h) + (l + 1) = sent[c] + 1
      BY <2>3, <2>8
    <3>3. m = [from |-> c, n |-> (Begun(c) + h) + (l + 1)]
      BY <2>3, <3>2
    <3>4. \A i \in 1 .. l + 1 : i \in 1 .. l \/ i = l + 1
      OBVIOUS
    <3> QED
      BY <2>7, <3>1, <3>3, <3>4 DEF Follow
  <2>10. \A d \in Conn \ {c} : Begun(d)' = Begun(d) /\ inbox'[d] = inbox[d]
    BY <1>1, <2>1, <2>2, <2>3 DEF Begun
  <2> QED
    BY <2>1, <2>2, <2>6, <2>8, <2>9, <2>10 DEF OrderInv
<1>4. ASSUME NEW t \in Conn, ReadData(t) PROVE OrderInv'
  <2>1. pc[t] = "blocked" /\ pc' = [pc EXCEPT ![t] = "send"] /\ UNCHANGED <<sent, casts>>
    BY <1>4 DEF ReadData, Goto
  <2>2. file[t] = t
    BY <2>1 DEF IInv
  <2>3. PICK l \in Nat : l = Len(inbox[t]) /\ DOMAIN inbox[t] = 1 .. l
    BY <1>1, LenProperties, Zenon
  <2> DEFINE q == inbox[t]
             q1(n) == SubSeq(q, 1, n)
             q2(n) == SubSeq(q, n + 1, l)
  <2>4. PICK n \in 1 .. l : /\ chunk' = [chunk EXCEPT ![t] = q1(n)]
                            /\ inbox' = [inbox EXCEPT ![t] = q2(n)]
    <3>1. PICK n \in 1 .. Len(inbox[t]) :
            /\ chunk' = [chunk EXCEPT ![t] = SubSeq(inbox[t], 1, n)]
            /\ inbox' = [inbox EXCEPT ![t] = SubSeq(@, n + 1, Len(@))]
      BY <1>4, <2>2 DEF ReadData
    <3>2. inbox' = [inbox EXCEPT ![t] = SubSeq(inbox[t], n + 1, Len(inbox[t]))]
      BY <3>1
    <3> QED
      BY <2>3, <3>1, <3>2
  <2>5. /\ q1(n) \in Seq(Message) /\ Len(q1(n)) = n
        /\ \A i \in 1 .. n : q1(n)[i] = q[i]
        /\ q2(n) \in Seq(Message) /\ Len(q2(n)) = l - n
        /\ \A i \in 1 .. l - n : q2(n)[i] = q[n + i]
    <3>1. q \in Seq(Message) /\ l = Len(q)
      BY <1>1, <2>3
    <3> HIDE DEF q
    <3> QED
      BY <3>1, CutParts
  <2>6. InHand(t) = <<>> /\ Len(<<>>) = 0
    BY <2>1 DEF InHand
  <2>7. /\ Begun(t) \in Nat /\ Begun(t) = sent[t] - l
        /\ \A i \in 1 .. l : q[i] = [from |-> t, n |-> Begun(t) + i]
        /\ FirstOf(casts, t, Begun(t))
    <3>1. sent[t] \in Nat
      BY <1>1
    <3>2. /\ Begun(t) = sent[t] - l - 0 /\ Begun(t) \in Nat /\ FirstOf(casts, t, Begun(t))
          /\ Follow(q, t, Begun(t) + 0)
      BY <2>3, <2>6 DEF OrderInv, Begun
    <3>3. sent[t] - l - 0 = sent[t] - l /\ Begun(t) + 0 = Begun(t)
      BY <3>1, <3>2
    <3>4. \A i \in 1 .. l : q[i] = [from |-> t, n |-> Begun(t) + i]
      BY <2>3, <3>2, <3>3 DEF Follow
    <3> QED
      BY <3>2, <3>3, <3>4
  <2>8. chunk'[t] = q1(n) /\ inbox'[t] = q2(n) /\ pc'[t] = "send"
    BY <1>1, <2>1, <2>4
  <2> HIDE DEF q, q1, q2
  <2>9. InHand(t)' = q1(n)
    BY <2>8 DEF InHand
  <2>10. Begun(t)' = Begun(t)
    <3>1. Begun(t)' = sent[t] - (l - n) - n
      BY <2>1, <2>5, <2>8, <2>9 DEF Begun
    <3>2. sent[t] \in Nat
      BY <1>1
    <3> QED
      BY <2>7, <3>1, <3>2
  <2>11. Follow(q1(n), t, Begun(t))
    <3>1. DOMAIN q1(n) = 1 .. n /\ \A i \in 1 .. n : i \in 1 .. l
      BY <2>5, LenProperties
    <3> QED
      BY <2>5, <2>7, <3>1 DEF Follow
  <2>12. Follow(q2(n), t, Begun(t) + n)
    <3>1. DOMAIN q2(n) = 1 .. l - n
      BY <2>5, LenProperties
    <3>2. \A i \in 1 .. l - n : n + i \in 1 .. l /\ (Begun(t) + n) + i = Begun(t) + (n + i)
      BY <2>7
    <3> QED
      BY <2>5, <2>7, <3>1, <3>2 DEF Follow
  <2>13. \A d \in Conn \ {t} : /\ InHand(d)' = InHand(d) /\ inbox'[d] = inbox[d]
                               /\ Begun(d)' = Begun(d)
    <3>1. \A d \in Conn \ {t} : /\ chunk'[d] = chunk[d] /\ inbox'[d] = inbox[d]
                                /\ pc'[d] = pc[d]
      BY <1>1, <2>1, <2>4
    <3>2. \A d \in Conn \ {t} : InHand(d)' = InHand(d)
      BY <3>1 DEF InHand
    <3> QED
      BY <2>1, <3>1, <3>2 DEF Begun
  <2>14. \A d \in Conn \ {t} : /\ Begun(d)' \in Nat
                               /\ FirstOf(casts', d, Begun(d)')
                               /\ Follow(InHand(d)', d, Begun(d)')
                               /\ Follow(inbox'[d], d, Begun(d)' + Len(InHand(d)'))
    BY <2>1, <2>13 DEF OrderInv
  <2>15. /\ Begun(t)' \in Nat
         /\ FirstOf(casts', t, Begun(t)')
         /\ Follow(InHand(t)', t, Begun(t)')
         /\ Follow(inbox'[t], t, Begun(t)' + Len(InHand(t)'))
    BY <2>1, <2>5, <2>7, <2>8, <2>9, <2>10, <2>11, <2>12
  <2> QED
    BY <2>14, <2>15 DEF OrderInv
<1>5. ASSUME NEW t \in Conn, SendLock(t) PROVE OrderInv'
  <2>1. /\ pc[t] = "send" /\ pc' = [pc EXCEPT ![t] = "sending"]
        /\ casts' = casts \o chunk[t]
        /\ UNCHANGED <<sent, inbox, chunk>>
    BY <1>5 DEF SendLock, Goto, netVars
  <2>2. InHand(t) = chunk[t] /\ InHand(t)' = <<>> /\ Len(<<>>) = 0
    BY <1>1, <2>1 DEF InHand
  <2>3. PICK h \in Nat : h = Len(chunk[t])
    BY <1>1, LenProperties, Zenon
  <2>4. PICK l \in Nat : l = Len(inbox[t])
    BY <1>1, LenProperties, Zenon
  <2>5. /\ Begun(t) \in Nat /\ Begun(t) = sent[t] - l - h
        /\ FirstOf(casts, t, Begun(t))
        /\ Follow(chunk[t], t, Begun(t))
        /\ Follow(inbox[t], t, Begun(t) + h)
    BY <2>2, <2>3, <2>4 DEF OrderInv, Begun
  <2>6. Begun(t)' = Begun(t) + h
    <3>1. Begun(t)' = sent[t] - l - 0
      BY <2>1, <2>2, <2>4 DEF Begun
    <3>2. sent[t] \in Nat
      BY <1>1
    <3> QED
      BY <2>5, <3>1, <3>2
  <2>7. /\ FirstOf(casts', t, Begun(t) + h)
        /\ \A d \in Conn \ {t} : \A m \in Nat : FirstOf(casts, d, m) => FirstOf(casts', d, m)
    BY <1>1, <2>1, <2>3, <2>5, FirstMore
  <2>8. \A d \in Conn \ {t} : InHand(d)' = InHand(d)
    BY <1>1, <2>1 DEF InHand
  <2>9. \A d \in Conn \ {t} : Begun(d)' = Begun(d) /\ Begun(d) \in Nat
    BY <2>1, <2>8 DEF Begun, OrderInv
  <2>10. \A d \in Conn \ {t} : /\ Begun(d)' \in Nat
                               /\ FirstOf(casts', d, Begun(d)')
                               /\ Follow(InHand(d)', d, Begun(d)')
                               /\ Follow(inbox'[d], d, Begun(d)' + Len(InHand(d)'))
    BY <2>1, <2>7, <2>8, <2>9 DEF OrderInv
  <2>11. /\ Begun(t)' \in Nat
         /\ FirstOf(casts', t, Begun(t)')
         /\ Follow(InHand(t)', t, Begun(t)')
         /\ Follow(inbox'[t], t, Begun(t)' + Len(InHand(t)'))
    <3>1. Begun(t)' \in Nat /\ Begun(t)' + 0 = Begun(t) + h
      BY <2>5, <2>6
    <3>2. Follow(<<>>, t, Begun(t)')
      BY DEF Follow
    <3> QED
      BY <2>1, <2>2, <2>5, <2>6, <2>7, <3>1, <3>2
  <2> QED
    BY <2>10, <2>11 DEF OrderInv
<1>6. ASSUME NEW t \in Conn, NEW at \in PC, Goto(t, at), UNCHANGED <<sent, inbox, casts, chunk>>,
             pc[t] # "send", at = "send" => chunk[t] = <<>>
      PROVE  OrderInv'
  <2>1. \A c \in Conn : InHand(c)' = InHand(c)
    BY <1>1, <1>6 DEF Goto, InHand
  <2> QED
    BY <1>6, <2>1, OrderStays
<1>7. ASSUME NEW t \in Conn, \/ HandlerStart(t) \/ ReadCall(t) \/ ReadEof(t) \/ ReadReset(t)
                              \/ Remove(t) \/ Close(t)
      PROVE  OrderInv'
  <2>1. UNCHANGED <<sent, inbox, casts, chunk>>
    BY <1>7 DEF HandlerStart, ReadCall, ReadEof, ReadReset, Remove, Close, hVars, netVars
  <2>2. CASE HandlerStart(t)
    BY <1>6, <2>1, <2>2 DEF HandlerStart, TakeArg, Goto, PC
  <2>3. CASE ReadCall(t)
    BY <1>6, <2>1, <2>3 DEF ReadCall, PC, HandInv
  <2>4. CASE ReadEof(t) \/ ReadReset(t)
    BY <1>6, <2>1, <2>4 DEF ReadEof, ReadReset, PC, HandInv
  <2>5. CASE Remove(t) \/ Close(t)
    BY <1>6, <2>1, <2>5 DEF Remove, Close, PC
  <2> QED
    BY <1>7, <2>2, <2>3, <2>4, <2>5
<1>8. ASSUME NEW t \in Conn, SendUnlock(t) PROVE OrderInv'
  <2>1. /\ pc[t] = "sending" /\ pc' = [pc EXCEPT ![t] = "read"]
        /\ UNCHANGED <<sent, inbox, casts>>
        /\ \A u \in Conn \ {t} : chunk'[u] = chunk[u]
    BY <1>1, <1>8 DEF SendUnlock, Goto, netVars
  <2>2. \A c \in Conn : InHand(c)' = InHand(c)
    BY <1>1, <2>1 DEF InHand
  <2> QED
    BY <2>1, <2>2, OrderStays
<1>9. CASE MainCreate
  <2>1. /\ cur \in Conn /\ pc[cur] = "none" /\ Goto(cur, "start")
        /\ UNCHANGED <<sent, inbox, casts, chunk>>
    BY <1>1, <1>9 DEF MainCreate, Create, Bookkeeping, hVars, netVars, Goto
  <2> QED
    BY <1>6, <2>1 DEF PC
<1>10. CASE UNCHANGED <<pc, chunk, sent, inbox, casts>>
  <2>1. \A c \in Conn : InHand(c)' = InHand(c)
    BY <1>10 DEF InHand
  <2> QED
    BY <1>10, <2>1, OrderStays
<1>11. CASE \/ UNCHANGED vars \/ Idle \/ \E c \in Conn : ClientQuit(c) \/ SendWrite(c)
  <2>1. CASE UNCHANGED vars \/ Idle
    BY <1>10, <2>1 DEF vars, hVars, netVars, loopVars, Idle
  <2>2. ASSUME NEW c \in Conn, ClientQuit(c) PROVE OrderInv'
    BY <1>10, <2>2 DEF hVars, loopVars, ClientQuit
  <2>3. ASSUME NEW c \in Conn, SendWrite(c) PROVE OrderInv'
    <3>1. UNCHANGED <<loopVars, inbox, sent, file, chunk, casts>>
      BY <2>3, Zenon DEF SendWrite
    <3> QED
      BY <1>10, <3>1 DEF loopVars
  <2> QED
    BY <1>11, <2>1, <2>2, <2>3
<1>12. CASE MainAppend \/ \E c \in Conn : MainAccept(c)
  BY <1>10, <1>12 DEF hVars, netVars, MainAppend, Enlist, MainAccept, Accept
<1> QED
  BY <1>3, <1>4, <1>5, <1>7, <1>8, <1>9, <1>11, <1>12 DEF Next, Main, Handler

\* Nothing is told and nothing new is on its way.
LEMMA ToldStays ==
  ASSUME ToldInv, UNCHANGED <<casts, out, mutx>>,
         mutx # NoConn => chunk'[mutx] = chunk[mutx],
         Registered({}) \subseteq Registered({})',
         Registered(Past)' \subseteq Registered(Past),
         \A c \in Registered(Past)' : Coming(c)' = Coming(c)
  PROVE  ToldInv'
BY DEF ToldInv

\* The connections registered, when handlers move within their loop.
LEMMA SameRegistered ==
  ASSUME pc \in [Conn -> PC], NEW t \in Conn, NEW at \in PC, Goto(t, at),
         UNCHANGED <<mpc, cur, own>>, pc[t] \in Past <=> at \in Past
  PROVE  Registered(Past)' = Registered(Past) /\ Registered({})' = Registered({})
BY DEF Registered, Goto

\* The slot that send_msg has come to holds the descriptor of one registered
\* connection, and of no other, and the connections behind it stay the same.
LEMMA NextSlot ==
  ASSUME IInv, ArgsIntact, NEW t \in Conn, mutx = t, k[t] < clnt_cnt
  PROVE  \E d \in Registered(Past) :
           /\ clnt_socks[k[t]] = own[d] /\ fdtab[own[d]] = d
           /\ \A i \in k[t] + 1 .. clnt_cnt - 1 : clnt_socks[i] # own[d]
           /\ \A e \in Registered(Past) \ {d} : own[e] # own[d]
<1>1. /\ TableIs(Past) /\ FdsKept({"done"}) /\ k[t] \in 0 .. Cardinality(Conn)
      /\ clnt_cnt \in 0 .. Cardinality(Conn)
  BY DEF IInv, LoopInv, TypeOK, LoopTypeOK
<1>2. Cardinality(Conn) \in Nat
  BY ConnAssumption, FS_CardinalityType
<1>3. k[t] \in 0 .. clnt_cnt - 1
  BY <1>1, <1>2
<1>4. clnt_socks[k[t]] \in ListedFds
  BY <1>3 DEF ListedFds
<1>5. PICK d \in Registered(Past) : clnt_socks[k[t]] = own[d]
  BY <1>1, <1>4 DEF TableIs
<1>6. \A e \in Registered(Past) : fdtab[own[e]] = e
  BY <1>1 DEF FdsKept, Registered, Past
<1>7. \A i \in k[t] + 1 .. clnt_cnt - 1 : i \in 0 .. clnt_cnt - 1 /\ i # k[t]
  BY <1>1, <1>2, <1>3
<1>8. \A i \in k[t] + 1 .. clnt_cnt - 1 : clnt_socks[i] # own[d]
  BY <1>1, <1>3, <1>5, <1>7 DEF TableIs
<1>9. \A e \in Registered(Past) \ {d} : own[e] # own[d]
  BY <1>6
<1> QED
  BY <1>5, <1>6, <1>8, <1>9

\* What a write() changes in ToldInv.
LEMMA WriteTold ==
  ASSUME IInv, ArgsIntact, ToldInv, NEW t \in Conn, SendWrite(t)
  PROVE  ToldInv'
<1>1. /\ mutx = t /\ NoConn \notin Conn
      /\ chunk[t] \in Seq(Message) /\ out \in [Conn -> Seq(Message)]
      /\ casts \in Seq(Message)
      /\ k \in [Conn -> 0 .. Cardinality(Conn)] /\ Cardinality(Conn) \in Nat
      /\ clnt_cnt \in 0 .. Cardinality(Conn)
  BY ConnAssumption, FS_CardinalityType DEF IInv, TypeOK, LoopTypeOK, SendWrite
<1>2. PICK d \in Registered(Past) :
        /\ clnt_socks[k[t]] = own[d] /\ fdtab[own[d]] = d
        /\ \A i \in k[t] + 1 .. clnt_cnt - 1 : clnt_socks[i] # own[d]
        /\ \A e \in Registered(Past) \ {d} : own[e] # own[d]
  BY <1>1, NextSlot DEF SendWrite
<1>3. d \in Conn
  BY <1>2 DEF Registered
<1>4. /\ UNCHANGED <<mpc, cur, own, pc, mutx, clnt_socks, clnt_cnt, chunk, casts>>
      /\ k' = [k EXCEPT ![t] = @ + 1] /\ k[t] < clnt_cnt
      /\ IF chunk[t] = <<>> THEN out' = out ELSE out' = [out EXCEPT ![d] = @ \o chunk[t]]
  BY <1>1, <1>2, <1>3 DEF SendWrite, loopVars
<1>5. Registered(Past)' = Registered(Past) /\ Registered({})' = Registered({})
  BY <1>4 DEF Registered
<1>6. k'[t] = k[t] + 1 /\ k[t] \in Nat /\ clnt_cnt \in Nat
  BY <1>1, <1>4
<1>7. Awaits(d) /\ ~Awaits(d)'
  <2>1. k[t] \in k[t] .. clnt_cnt - 1
    BY <1>4, <1>6
  <2> QED
    BY <1>1, <1>2, <1>4, <1>6, <2>1 DEF Awaits
<1>8. ASSUME NEW e \in Registered(Past) \ {d} PROVE Coming(e)' = Coming(e)
  <2>1. \A i : i \in k[t] .. clnt_cnt - 1 <=> i = k[t] \/ i \in k[t] + 1 .. clnt_cnt - 1
    BY <1>4, <1>6
  <2>2. Awaits(e)' <=> Awaits(e)
    BY <1>1, <1>2, <1>4, <1>6, <2>1 DEF Awaits
  <2> QED
    BY <1>4, <2>2 DEF Coming
<1>9. PICK h \in Nat : h = Len(chunk[t])
  BY <1>1, LenProperties, Zenon
<1>10. PICK l \in Nat : l = Len(casts)
  BY <1>1, LenProperties, Zenon
<1>11. PICK o \in Nat : o = Len(out[d])
  BY <1>1, <1>3, LenProperties, Zenon
<1>12. Coming(d) = h /\ Coming(d)' = 0
  BY <1>1, <1>7, <1>9 DEF Coming
<1>13. /\ Run(casts, chunk[t], l - h)
       /\ Run(casts, out[d], l - o - h)
  BY <1>1, <1>2, <1>3, <1>9, <1>10, <1>11, <1>12 DEF ToldInv
<1>14. /\ \E a \in 0 .. l : Run(casts, out'[d], a)
       /\ Run(casts, out'[d], l - Len(out'[d]))
  <2>1. CASE chunk[t] = <<>>
    <3>1. h = 0 /\ out' = out
      BY <1>4, <1>9, <2>1
    <3>2. l - o - h = l - o
      BY <1>9, <1>10, <1>11, <3>1
    <3> QED
      BY <1>3, <1>10, <1>11, <1>13, <3>1, <3>2 DEF ToldInv
  <2>2. CASE chunk[t] # <<>>
    <3>1. out'[d] = out[d] \o chunk[t]
      BY <1>1, <1>3, <1>4, <2>2
    <3>2. (l - o - h) + o = l - h
      BY <1>9, <1>10, <1>11
    <3>3. /\ Run(casts, out[d] \o chunk[t], l - o - h)
          /\ Len(out[d] \o chunk[t]) = o + h
      <4>1. out[d] \in Seq(Message)
        BY <1>1, <1>3
      <4>2. Run(casts, chunk[t], (l - o - h) + Len(out[d]))
        BY <1>11, <1>13, <3>2
      <4>3. /\ Run(casts, out[d] \o chunk[t], l - o - h)
            /\ Len(out[d] \o chunk[t]) = Len(out[d]) + Len(chunk[t])
        BY <1>1, <1>13, <4>1, <4>2, RunJoin, Zenon
      <4> QED
        BY <1>9, <1>11, <4>3
    <3>4. l - (o + h) = l - o - h
      BY <1>9, <1>10, <1>11
    <3>5. l - o - h \in 0 .. l
      <4>1. l - o - h \in Nat
        BY <1>13 DEF Run
      <4> QED
        BY <1>9, <1>10, <1>11, <4>1
    <3> QED
      BY <3>1, <3>3, <3>4, <3>5
  <2> QED
    BY <2>1, <2>2
<1>15. l - Len(out'[d]) - 0 = l - Len(out'[d])
  <2>1. l - Len(out'[d]) \in Nat
    BY <1>14 DEF Run
  <2>2. out'[d] \in Seq(Message)
    <3>1. out[d] \in Seq(Message) /\ out[d] \o chunk[t] \in Seq(Message)
      BY <1>1, <1>3, ConcatProperties
    <3> HIDE DEF ToldInv
    <3> QED
      BY <1>1, <1>3, <1>4, <3>1
  <2>3. PICK u \in Nat : u = Len(out'[d])
    BY <2>2, LenProperties, Zenon
  <2> QED
    BY <1>10, <2>3
<1>16. \A e \in Conn \ {d} : out'[e] = out[e]
  BY <1>1, <1>3, <1>4
<1>17. d \in Registered({})
  BY <1>2 DEF Registered
<1>18. mutx' # NoConn => Run(casts', chunk'[mutx'], Len(casts') - Len(chunk'[mutx']))
  BY <1>1, <1>4, <1>9, <1>10, <1>13
<1>19. ASSUME NEW e \in Conn \ {d}
       PROVE  /\ \E a \in 0 .. Len(casts') : Run(casts', out'[e], a)
              /\ e \notin Registered({})' => out'[e] = <<>>
              /\ e \in Registered(Past)' =>
                   Run(casts', out'[e], Len(casts') - Len(out'[e]) - Coming(e)')
  BY <1>4, <1>5, <1>8, <1>16 DEF ToldInv
<1>20. /\ \E a \in 0 .. Len(casts') : Run(casts', out'[d], a)
       /\ d \in Registered({})'
       /\ Run(casts', out'[d], Len(casts') - Len(out'[d]) - Coming(d)')
  BY <1>4, <1>5, <1>10, <1>12, <1>14, <1>15, <1>17
<1> QED
  BY <1>18, <1>19, <1>20 DEF ToldInv

\* What the start of a broadcast changes in ToldInv: the messages that follow
\* are coming to everyone registered.
LEMMA LockTold ==
  ASSUME IInv, HandInv, ArgsIntact, ToldInv, NEW t \in Conn, SendLock(t)
  PROVE  ToldInv'
<1>1. /\ NoConn \notin Conn /\ TableIs(Past) /\ pc \in [Conn -> PC]
      /\ chunk[t] \in Seq(Message) /\ out \in [Conn -> Seq(Message)]
      /\ casts \in Seq(Message) /\ clnt_cnt \in Int
  <2>1. Cardinality(Conn) \in Nat /\ NoConn \notin Conn
    BY ConnAssumption, FS_CardinalityType
  <2>2. clnt_cnt \in 0 .. Cardinality(Conn) /\ pc \in [Conn -> PC] /\ TableIs(Past)
    BY DEF IInv, LoopInv, LoopTypeOK
  <2> QED
    BY <2>1, <2>2 DEF IInv, TypeOK
<1>2. /\ pc[t] = "send" /\ Goto(t, "sending") /\ mutx = NoConn /\ mutx' = t
      /\ casts' = casts \o chunk[t]
      /\ UNCHANGED <<mpc, cur, own, clnt_socks, clnt_cnt, chunk, k, out>>
  BY <1>1 DEF SendLock, mainVars, regVars, netVars
<1>3. Registered(Past)' = Registered(Past) /\ Registered({})' = Registered({})
  <2>1. "sending" \in PC /\ (pc[t] \in Past <=> "sending" \in Past)
    BY <1>2 DEF PC, Past
  <2> QED
    BY <1>1, <1>2, <2>1, SameRegistered
<1>4. PICK h \in Nat : h = Len(chunk[t])
  BY <1>1, LenProperties, Zenon
<1>5. PICK l \in Nat : l = Len(casts)
  BY <1>1, LenProperties, Zenon
<1>6. /\ Run(casts', chunk[t], l) /\ Len(casts') = l + h
      /\ \A r \in Seq(Message) : \A a : Run(casts, r, a) => Run(casts', r, a)
  BY <1>1, <1>2, <1>4, <1>5, RunMore
<1>7. (l + h) - h = l /\ 0 .. l \subseteq 0 .. l + h
  OBVIOUS
<1>8. \A c \in Registered(Past) : Coming(c) = 0 /\ Coming(c)' = h
  <2> SUFFICES ASSUME NEW c \in Registered(Past) PROVE Coming(c) = 0 /\ Coming(c)' = h
    OBVIOUS
  <2>1. own[c] \in ListedFds /\ k[t] = 0
    BY <1>1, <1>2 DEF TableIs, HandInv
  <2>2. \E i \in 0 .. clnt_cnt - 1 : clnt_socks[i] = own[c]
    BY <2>1 DEF ListedFds
  <2>3. ~Awaits(c) /\ Awaits(c)'
    BY <1>1, <1>2, <2>1, <2>2 DEF Awaits
  <2> QED
    BY <1>2, <1>4, <2>3 DEF Coming
<1>9. ASSUME NEW c \in Registered(Past)
      PROVE  Run(casts', out'[c], Len(casts') - Len(out'[c]) - Coming(c)')
  <2>1. c \in Conn
    BY DEF Registered
  <2>2. PICK o \in Nat : o = Len(out[c])
    BY <1>1, <2>1, LenProperties, Zenon
  <2>3. Run(casts, out[c], l - o - 0)
    BY <1>5, <1>8, <2>1, <2>2 DEF ToldInv
  <2>4. (l + h) - o - h = l - o - 0
    BY <1>4, <1>5, <2>2
  <2>5. Run(casts', out[c], (l + h) - o - h)
    BY <1>1, <1>6, <2>1, <2>3, <2>4
  <2> QED
    BY <1>2, <1>6, <1>8, <2>2, <2>5
<1>10. \A c \in Conn : \E a \in 0 .. Len(casts') : Run(casts', out'[c], a)
  BY <1>1, <1>2, <1>5, <1>6, <1>7 DEF ToldInv
<1>11. Run(casts', chunk'[mutx'], Len(casts') - Len(chunk'[mutx']))
  BY <1>2, <1>4, <1>5, <1>6, <1>7
<1>12. \A c \in Conn : c \notin Registered({})' => out'[c] = <<>>
  BY <1>2, <1>3 DEF ToldInv
<1> QED
  BY <1>3, <1>9, <1>10, <1>11, <1>12 DEF ToldInv

\* What was told stays a run of the broadcasts.
LEMMA NextTold ==
  ASSUME IInv, HandInv, ArgsIntact, ToldInv, [Next]_vars
  PROVE  ToldInv'
<1>1. /\ NoConn \notin Conn /\ pc \in [Conn -> PC] /\ chunk \in [Conn -> Seq(Message)]
      /\ own \in [Conn -> Fds \cup {NoFd}]
      /\ out \in [Conn -> Seq(Message)] /\ casts \in Seq(Message)
      /\ k \in [Conn -> 0 .. Cardinality(Conn)]
      /\ clnt_cnt \in Nat
      /\ Bookkeeping
      /\ \A t \in Conn : mutx = t <=> pc[t] = "sending"
      /\ mutx \in Conn \cup {NoConn}
  <2>1. Cardinality(Conn) \in Nat /\ NoConn \notin Conn
    BY ConnAssumption, FS_CardinalityType
  <2>2. /\ clnt_cnt \in 0 .. Cardinality(Conn) /\ pc \in [Conn -> PC] /\ Bookkeeping
        /\ own \in [Conn -> Fds \cup {NoFd}] /\ mutx \in Conn \cup {NoConn}
    BY DEF IInv, LoopInv, LoopTypeOK
  <2> QED
    BY <2>1, <2>2 DEF IInv, TypeOK
<1>2. mutx = NoConn => \A c \in Conn : Coming(c) = 0
  BY DEF Coming, Awaits
<1>3. mutx' = NoConn => \A c \in Conn : Coming(c)' = 0
  BY DEF Coming, Awaits
\* Steps that leave the table, the mutex and what is written alone.
<1>4. ASSUME UNCHANGED <<casts, out, mutx, clnt_socks, clnt_cnt, own>>,
             mutx # NoConn => chunk'[mutx] = chunk[mutx] /\ k'[mutx] = k[mutx],
             Registered(Past)' = Registered(Past), Registered({})' = Registered({})
      PROVE  ToldInv'
  <2>1. \A c \in Conn : Coming(c)' = Coming(c)
    BY <1>4 DEF Coming, Awaits
  <2>2. \A c \in Registered(Past)' : c \in Conn
    BY DEF Registered
  <2> QED
    BY <1>4, <2>1, <2>2, ToldStays
<1>5. ASSUME NEW t \in Conn, NEW at \in PC, Goto(t, at), pc[t] \in Past <=> at \in Past,
             UNCHANGED <<casts, out, mutx, clnt_socks, clnt_cnt, own, mpc, cur, chunk, k>>
      PROVE  ToldInv'
  BY <1>1, <1>4, <1>5, SameRegistered
<1>6. CASE \/ UNCHANGED vars \/ Idle \/ \E c \in Conn : ClientSend(c) \/ ClientQuit(c)
  <2>1. UNCHANGED <<casts, out, mutx, clnt_socks, clnt_cnt, own, mpc, cur, pc, chunk, k>>
    BY <1>6 DEF vars, Idle, ClientSend, ClientQuit, loopVars, hVars, netVars
  <2>2. Registered(Past)' = Registered(Past) /\ Registered({})' = Registered({})
    BY <2>1 DEF Registered
  <2> QED
    BY <1>4, <2>1, <2>2
<1>7. ASSUME NEW t \in Conn, \/ HandlerStart(t) \/ ReadCall(t) \/ ReadEof(t) \/ ReadReset(t)
                              \/ Close(t)
      PROVE  ToldInv'
  <2>1. UNCHANGED <<casts, out, mutx, clnt_socks, clnt_cnt, own, mpc, cur, chunk, k>>
    BY <1>7 DEF HandlerStart, TakeArg, ReadCall, ReadEof, ReadReset, Close, mainVars,
         regVars, netVars, hVars
  <2>2. \E at \in PC : Goto(t, at) /\ (pc[t] \in Past <=> at \in Past)
    BY <1>7 DEF HandlerStart, TakeArg, ReadCall, ReadEof, ReadReset, Close, PC, Past, Goto
  <2> QED
    BY <1>5, <2>1, <2>2
<1>8. ASSUME NEW t \in Conn, ReadData(t) PROVE ToldInv'
  <2>1. /\ pc[t] = "blocked" /\ Goto(t, "send")
        /\ UNCHANGED <<casts, out, mutx, clnt_socks, clnt_cnt, own, mpc, cur, k>>
        /\ \A u \in Conn \ {t} : chunk'[u] = chunk[u]
    BY <1>1, <1>8 DEF ReadData, mainVars, regVars
  <2>2. mutx # t
    BY <1>1, <2>1
  <2>3. "send" \in PC /\ (pc[t] \in Past <=> "send" \in Past)
    BY <2>1 DEF PC, Past
  <2>4. Registered(Past)' = Registered(Past) /\ Registered({})' = Registered({})
    BY <1>1, <2>1, <2>3, SameRegistered
  <2> QED
    BY <1>1, <1>4, <2>1, <2>2, <2>4
<1>9. CASE MainCreate
  <2>1. /\ cur \in Conn /\ pc[cur] = "none" /\ Goto(cur, "start") /\ mpc = "create"
        /\ mpc' = "accept"
        /\ UNCHANGED <<casts, out, mutx, clnt_socks, clnt_cnt, own, cur, chunk, k>>
    BY <1>1, <1>9 DEF MainCreate, Create, Bookkeeping, hVars, netVars, Goto
  <2>2. Registered(Past)' = Registered(Past) /\ Registered({})' = Registered({})
    BY <1>1, <2>1 DEF Registered, Goto, Past
  <2> QED
    BY <1>4, <2>1, <2>2
<1>10. ASSUME NEW c \in Conn, MainAccept(c) PROVE ToldInv'
  <2>1. /\ mpc = "accept" /\ mpc' = "append" /\ cur' = c /\ own[c] = NoFd
        /\ \E f \in Fds : own' = [own EXCEPT ![c] = f]
        /\ UNCHANGED <<casts, out, mutx, clnt_socks, clnt_cnt, pc, chunk, k>>
    BY <1>10 DEF MainAccept, Accept, netVars, hVars
  <2>2. \A d \in Conn \ {c} : own'[d] = own[d]
    BY <1>1, <2>1
  <2>3. Registered(Past)' = Registered(Past) /\ Registered({})' = Registered({})
    BY <2>1, <2>2 DEF Registered
  <2>4. \A d \in Registered(Past)' : d \in Conn \ {c}
    BY <2>1 DEF Registered
  <2>5. \A d \in Registered(Past)' : Coming(d)' = Coming(d)
    BY <2>1, <2>2, <2>4 DEF Coming, Awaits
  <2> QED
    BY <2>1, <2>3, <2>5, ToldStays
<1>11. CASE MainAppend
  <2>1. /\ mpc = "append" /\ mpc' = "create" /\ mutx = NoConn /\ cur \in Conn
        /\ UNCHANGED <<casts, out, mutx, own, cur, pc, chunk, k>>
    BY <1>1, <1>11 DEF MainAppend, Enlist, netVars, hVars, Bookkeeping
  <2>2. /\ Registered(Past)' = Registered(Past) \cup {cur}
        /\ Registered({})' = Registered({}) \cup {cur} /\ cur \notin Registered({})
    BY <1>1, <2>1 DEF Registered, Bookkeeping, Past
  <2>3. out[cur] = <<>> /\ Len(<<>>) = 0 /\ DOMAIN <<>> = {}
    BY <2>1, <2>2 DEF ToldInv
  <2>4. PICK l \in Nat : l = Len(casts)
    BY <1>1, LenProperties, Zenon
  <2>5. Run(casts, out[cur], l)
    BY <2>3, <2>4 DEF Run
  <2>6. Run(casts, out[cur], l - Len(out[cur]) - 0)
    BY <2>3, <2>4, <2>5
  <2>7. \A c \in Conn : Coming(c) = 0 /\ Coming(c)' = 0
    BY <1>2, <1>3, <2>1
  <2>8. ASSUME NEW c \in Registered(Past)'
        PROVE  Run(casts', out'[c], Len(casts') - Len(out'[c]) - Coming(c)')
    <3>1. c \in Conn
      BY DEF Registered
    <3>2. CASE c = cur
      BY <2>1, <2>4, <2>6, <2>7, <3>1, <3>2
    <3>3. CASE c \in Registered(Past)
      BY <2>1, <2>7, <3>1, <3>3 DEF ToldInv
    <3> QED
      BY <2>2, <3>2, <3>3
  <2>9. \A c \in Conn : /\ \E a \in 0 .. Len(casts') : Run(casts', out'[c], a)
                        /\ c \notin Registered({})' => out'[c] = <<>>
    BY <2>1, <2>2 DEF ToldInv
  <2> QED
    BY <2>1, <2>8, <2>9 DEF ToldInv
<1>12. ASSUME NEW t \in Conn, SendUnlock(t) PROVE ToldInv'
  <2>1. /\ pc[t] = "sending" /\ Goto(t, "read") /\ mutx' = NoConn /\ k[t] >= clnt_cnt
        /\ UNCHANGED <<casts, out, own, mpc, cur, clnt_socks, clnt_cnt>>
    BY <1>12 DEF SendUnlock, mainVars, regVars, netVars
  <2>2. mutx = t /\ k[t] \in Nat
    BY <1>1, <2>1, ConnAssumption, FS_CardinalityType
  <2>3. "read" \in PC /\ (pc[t] \in Past <=> "read" \in Past)
    BY <2>1 DEF PC, Past
  <2>4. Registered(Past)' = Registered(Past) /\ Registered({})' = Registered({})
    BY <1>1, <2>1, <2>3, SameRegistered
  <2>5. k[t] .. clnt_cnt - 1 = {}
    BY <1>1, <2>1, <2>2
  <2>6. \A c \in Conn : Coming(c) = 0
    BY <2>2, <2>5 DEF Coming, Awaits
  <2>7. \A c \in Conn : Coming(c)' = 0
    BY <1>3, <2>1
  <2>8. \A c \in Registered(Past) : Run(casts, out[c], Len(casts) - Len(out[c]) - 0)
    <3>1. \A c \in Registered(Past) : c \in Conn
      BY DEF Registered
    <3> QED
      BY <2>6, <3>1 DEF ToldInv
  <2>9. \A c \in Registered(Past)' :
          c \in Conn /\ Run(casts', out'[c], Len(casts') - Len(out'[c]) - Coming(c)')
    <3>1. \A c \in Registered(Past) : c \in Conn
      BY DEF Registered
    <3> QED
      BY <2>1, <2>4, <2>7, <2>8, <3>1
  <2> QED
    BY <2>1, <2>4, <2>9 DEF ToldInv
<1>13. ASSUME NEW t \in Conn, Remove(t) PROVE ToldInv'
  <2>1. /\ pc[t] = "remove" /\ Goto(t, "close") /\ mutx = NoConn
        /\ UNCHANGED <<casts, out, mutx, own, mpc, cur, chunk, k>>
    BY <1>13 DEF Remove, mainVars, netVars, hVars
  <2>2. /\ Registered(Past)' \subseteq Registered(Past)
        /\ Registered({})' = Registered({})
    BY <1>1, <2>1 DEF Registered, Goto, Past
  <2>3. \A c \in Registered(Past)' : c \in Conn
    BY DEF Registered
  <2>4. \A c \in Registered(Past)' : Coming(c)' = Coming(c)
    BY <1>2, <1>3, <2>1, <2>3
  <2> QED
    BY <2>1, <2>2, <2>4, ToldStays
<1>14. ASSUME NEW t \in Conn, SendLock(t) \/ SendWrite(t) PROVE ToldInv'
  BY <1>14, LockTold, WriteTold
<1> QED
  BY <1>6, <1>7, <1>8, <1>9, <1>10, <1>11, <1>12, <1>13, <1>14 DEF Next, Main, Handler

\* IInv, HandInv and, while no argument is mixed up, TalkInv hold in every
\* reachable state.
LEMMA Talking == Spec => [](IInv /\ HandInv /\ (ArgsIntact => TalkInv))
<1>1. Init => IInv /\ HandInv /\ (ArgsIntact => TalkInv)
  BY InitIInv, InitTalk
<1>2. IInv /\ HandInv /\ (ArgsIntact => TalkInv) /\ [Next]_vars
        => IInv' /\ HandInv' /\ (ArgsIntact' => TalkInv')
  <2> SUFFICES ASSUME IInv, HandInv, ArgsIntact => TalkInv, [Next]_vars
               PROVE  IInv' /\ HandInv' /\ (ArgsIntact' => TalkInv')
    OBVIOUS
  <2>1. IInv' /\ (ArgsIntact' => ArgsIntact)
    BY NextIInv
  <2>2. HandInv'
    BY NextHand
  <2>3. ASSUME ArgsIntact PROVE TalkInv'
    BY <2>3, NextOrder, NextTold DEF TalkInv
  <2> QED
    BY <2>1, <2>2, <2>3
<1> QED
  BY <1>1, <1>2, PTL DEF Spec

\* While every handler has its own descriptor, the broadcasts of each client
\* begin in the order it typed them, and what was written to any client is a
\* gapless run of the broadcasts in their one order.
THEOREM ChatConversation == Spec => []OneConversation
<1>1. IInv /\ (ArgsIntact => TalkInv) => OneConversation
  <2> SUFFICES ASSUME IInv, ArgsIntact, TalkInv, NEW c \in Conn
               PROVE  /\ InSendOrder(casts, c)
                      /\ \E a, b \in 0 .. Len(casts) : out[c] = SubSeq(casts, a + 1, b)
    BY DEF OneConversation
  <2>1. casts \in Seq(Message) /\ out[c] \in Seq(Message)
    BY DEF IInv, TypeOK
  <2>2. PICK a \in 0 .. Len(casts) : Run(casts, out[c], a)
    BY DEF TalkInv, ToldInv
  <2>3. \E b \in 0 .. Len(casts) : out[c] = SubSeq(casts, a + 1, b)
    <3>1. /\ a + Len(out[c]) \in 0 .. Len(casts)
          /\ out[c] = SubSeq(casts, a + 1, a + Len(out[c]))
      BY <2>1, <2>2, RunIsPart, Zenon
    <3> QED
      BY <3>1, Zenon
  <2>4. PICK n \in Nat : FirstOf(casts, c, n)
    BY DEF TalkInv, OrderInv
  <2>5. ASSUME NEW i \in DOMAIN casts, casts[i].from = c, NEW m \in 1 .. casts[i].n
        PROVE  \E j \in DOMAIN casts : casts[j] = [from |-> c, n |-> m]
    <3>1. casts[i].n \in 1 .. n
      BY <2>4, <2>5 DEF FirstOf
    <3>2. m \in 1 .. n
      BY <2>5, <3>1
    <3> QED
      BY <2>4, <3>2 DEF FirstOf
  <2> QED
    BY <2>2, <2>3, <2>4, <2>5 DEF InSendOrder, FirstOf
<1> QED
  BY <1>1, Talking, PTL

-----------------------------------------------------------------------------
(***************************************************************************)
(* The room.  Spaced connections mix up no argument, so RoomInv holds; and *)
(* then every step is a step of ChatRoom or changes nothing it shows.      *)
(***************************************************************************)
RoomInv == IInv /\ HandInv /\ ArgsIntact /\ TalkInv

\* What has still to be told to a connection.
Untold(d) == IF d \in Registered(Past) /\ Awaits(d) THEN chunk[mutx] ELSE <<>>

\* The messages of c among its first n are n.
LEMMA CountFirst ==
  ASSUME NEW s \in Seq(Message), NEW c \in Conn, NEW n \in Nat, FirstOf(s, c, n)
  PROVE  Cardinality({i \in DOMAIN s : s[i].from = c}) = n
<1> DEFINE S == {i \in DOMAIN s : s[i].from = c}
           f == [i \in S |-> s[i].n]
<1>1. PICK l \in Nat : DOMAIN s = 1 .. l
  BY LenProperties, Zenon
<1>2. f \in [S -> 1 .. n]
  BY DEF FirstOf
<1>3. ASSUME NEW i \in S, NEW j \in S, f[i] = f[j] PROVE i = j
  <2>1. i \in Int /\ j \in Int
    BY <1>1
  <2>2. s[i].n \in 1 .. n /\ s[i].n = s[j].n
    BY <1>3 DEF FirstOf
  <2>3. i < j => s[i].n < s[j].n
    BY DEF FirstOf
  <2>4. j < i => s[j].n < s[i].n
    BY DEF FirstOf
  <2> QED
    BY <2>1, <2>2, <2>3, <2>4
<1>4. ASSUME NEW m \in 1 .. n PROVE \E i \in S : f[i] = m
  <2>1. PICK i \in DOMAIN s : s[i] = [from |-> c, n |-> m]
    BY DEF FirstOf
  <2>2. i \in S /\ s[i].n = m
    BY <2>1
  <2> QED
    BY <2>2
<1> HIDE DEF f
<1>5. f \in Bijection(S, 1 .. n)
  BY <1>2, <1>3, <1>4 DEF Bijection, Injection, Surjection, IsInjective
<1>6. ExistsBijection(S, 1 .. n)
  BY <1>5 DEF ExistsBijection
<1>7. IsFiniteSet(S)
  <2>1. IsFiniteSet(1 .. l) /\ S \subseteq 1 .. l
    BY <1>1, FS_Interval
  <2> QED
    BY <2>1, FS_Subset
<1>8. Cardinality(1 .. n) = Cardinality(S)
  BY <1>6, <1>7, FS_Bijection, Zenon
<1>9. Cardinality(1 .. n) = n
  BY FS_Interval
<1> QED
  BY <1>8, <1>9

\* How much each client has said, in terms of TalkInv.
LEMMA SaidIsBegun ==
  ASSUME RoomInv, NEW c \in Conn
  PROVE  SaidBy(c) = Begun(c)
<1>1. casts \in Seq(Message) /\ Begun(c) \in Nat /\ FirstOf(casts, c, Begun(c))
  BY DEF RoomInv, IInv, TypeOK, TalkInv, OrderInv
<1> QED
  BY <1>1, CountFirst, Zenon DEF SaidBy

\* Whose descriptor a slot holds.
LEMMA SlotOwner ==
  ASSUME RoomInv, NEW i \in 0 .. clnt_cnt - 1, NEW d \in Conn
  PROVE  fdtab[clnt_socks[i]] = d <=> d \in Registered(Past) /\ clnt_socks[i] = own[d]
<1>1. TableIs(Past) /\ FdsKept({"done"})
  BY DEF RoomInv, IInv, LoopInv
<1>2. clnt_socks[i] \in ListedFds
  BY DEF ListedFds
<1>3. PICK e \in Registered(Past) : clnt_socks[i] = own[e]
  BY <1>1, <1>2 DEF TableIs
<1>4. \A g \in Registered(Past) : fdtab[own[g]] = g
  BY <1>1 DEF FdsKept, Registered, Past
<1> QED
  BY <1>3, <1>4

\* What the room's log adds to out, in terms of TalkInv.
LEMMA ToBeToldIs ==
  ASSUME RoomInv, NEW d \in Conn
  PROVE  ToBeTold(d) = Untold(d)
<1>1. CASE mutx = NoConn
  BY <1>1 DEF ToBeTold, Untold, Awaits
<1>2. CASE mutx # NoConn
  <2>1. mutx \in Conn /\ k[mutx] \in Nat /\ clnt_cnt \in Nat
    <3>1. Cardinality(Conn) \in Nat
      BY ConnAssumption, FS_CardinalityType
    <3>2. /\ clnt_cnt \in 0 .. Cardinality(Conn) /\ mutx \in Conn \cup {NoConn}
          /\ k \in [Conn -> 0 .. Cardinality(Conn)]
      BY DEF RoomInv, IInv, TypeOK, LoopTypeOK
    <3> QED
      BY <1>2, <3>1, <3>2
  <2>2. \A i \in k[mutx] .. clnt_cnt - 1 : i \in 0 .. clnt_cnt - 1
    BY <2>1
  <2>3. \A i \in k[mutx] .. clnt_cnt - 1 :
          fdtab[clnt_socks[i]] = d <=> d \in Registered(Past) /\ clnt_socks[i] = own[d]
    BY <2>2, SlotOwner
  <2> QED
    BY <1>2, <2>3 DEF ToBeTold, Untold, Awaits
<1> QED
  BY <1>1, <1>2

\* The room's said and log in these terms.
LEMMA RoomView ==
  RoomInv => /\ [c \in Conn |-> SaidBy(c)] = [c \in Conn |-> Begun(c)]
             /\ [c \in Conn |-> out[c] \o ToBeTold(c)] = [c \in Conn |-> out[c] \o Untold(c)]
BY SaidIsBegun, ToBeToldIs

\* Nothing the room shows changes.
RoomStays ==
  UNCHANGED <<{c \in Conn : peer[c] = "open"}, Registered({}), Registered(Past),
              [c \in Conn |-> SaidBy(c)], [c \in Conn |-> out[c] \o ToBeTold(c)]>>

LEMMA RoomFrame ==
  ASSUME RoomInv, RoomInv', UNCHANGED casts,
         \A c \in Conn : peer'[c] = "open" <=> peer[c] = "open",
         Registered(Past)' = Registered(Past), Registered({})' = Registered({}),
         \A d \in Conn : out'[d] \o Untold(d)' = out[d] \o Untold(d)
  PROVE  RoomStays
<1>1. (RoomInv => [c \in Conn |-> out[c] \o ToBeTold(c)] = [c \in Conn |-> out[c] \o Untold(c)])'
  BY RoomView, PTL
<1>2. [c \in Conn |-> out'[c] \o ToBeTold(c)'] = [c \in Conn |-> out[c] \o ToBeTold(c)]
  <2>1. [c \in Conn |-> out'[c] \o Untold(c)'] = [c \in Conn |-> out[c] \o Untold(c)]
    OBVIOUS
  <2> QED
    BY <1>1, <2>1, RoomView
<1>3. [c \in Conn |-> SaidBy(c)'] = [c \in Conn |-> SaidBy(c)]
  BY DEF SaidBy
<1>4. {c \in Conn : peer'[c] = "open"} = {c \in Conn : peer[c] = "open"}
  OBVIOUS
<1> QED
  BY <1>2, <1>3, <1>4 DEF RoomStays

\* Steps that leave the table, the mutex and what is written alone.
LEMMA RoomQuiet ==
  ASSUME RoomInv, RoomInv', UNCHANGED <<casts, out, mutx, clnt_socks, clnt_cnt, own>>,
         mutx # NoConn => chunk'[mutx] = chunk[mutx] /\ k'[mutx] = k[mutx],
         Registered(Past)' = Registered(Past), Registered({})' = Registered({})
  PROVE  /\ \A d \in Conn : Untold(d)' = Untold(d)
         /\ (\A c \in Conn : peer'[c] = "open" <=> peer[c] = "open") => RoomStays
<1>1. \A d \in Conn : Untold(d)' = Untold(d)
  BY DEF Untold, Awaits
<1> QED
  BY <1>1, RoomFrame

\* The steps the room does not show.
LEMMA RoomHides ==
  ASSUME RoomInv, RoomInv',
         \/ UNCHANGED vars \/ Idle \/ MainCreate
         \/ \E t \in Conn : \/ ClientSend(t) \/ MainAccept(t) \/ HandlerStart(t) \/ ReadCall(t)
                            \/ ReadData(t) \/ ReadEof(t) \/ ReadReset(t) \/ SendUnlock(t)
                            \/ Close(t)
  PROVE  RoomStays
<1>1. /\ NoConn \notin Conn /\ pc \in [Conn -> PC] /\ chunk \in [Conn -> Seq(Message)]
      /\ own \in [Conn -> Fds \cup {NoFd}] /\ peer \in [Conn -> PeerState]
      /\ k \in [Conn -> 0 .. Cardinality(Conn)] /\ Cardinality(Conn) \in Nat
      /\ clnt_cnt \in Nat /\ Bookkeeping
      /\ \A t \in Conn : mutx = t <=> pc[t] = "sending"
      /\ \A t \in Conn : pc[t] = "blocked" => file[t] = t
      /\ mutx \in Conn \cup {NoConn}
  <2>1. Cardinality(Conn) \in Nat /\ NoConn \notin Conn
    BY ConnAssumption, FS_CardinalityType
  <2>2. /\ clnt_cnt \in 0 .. Cardinality(Conn) /\ pc \in [Conn -> PC] /\ Bookkeeping
        /\ own \in [Conn -> Fds \cup {NoFd}] /\ mutx \in Conn \cup {NoConn}
    BY DEF RoomInv, IInv, LoopInv, LoopTypeOK
  <2>3. /\ \A t \in Conn : mutx = t <=> pc[t] = "sending"
        /\ \A t \in Conn : pc[t] = "blocked" => file[t] = t
    BY DEF RoomInv, IInv
  <2>4. /\ peer \in [Conn -> PeerState] /\ chunk \in [Conn -> Seq(Message)]
        /\ k \in [Conn -> 0 .. Cardinality(Conn)]
    BY DEF RoomInv, IInv, TypeOK
  <2> QED
    BY <2>1, <2>2, <2>3, <2>4
<1>2. ASSUME NEW t \in Conn, NEW at \in PC, Goto(t, at), pc[t] \in Past <=> at \in Past,
             UNCHANGED <<casts, out, mutx, clnt_socks, clnt_cnt, own, mpc, cur, k>>,
             mutx # NoConn => chunk'[mutx] = chunk[mutx],
             \A c \in Conn : peer'[c] = "open" <=> peer[c] = "open"
      PROVE  RoomStays
  BY <1>1, <1>2, SameRegistered, RoomQuiet
<1>3. CASE UNCHANGED vars \/ Idle \/ \E t \in Conn : ClientSend(t)
  <2>1. UNCHANGED <<casts, out, mutx, clnt_socks, clnt_cnt, own, mpc, cur, pc, chunk, k, peer>>
    BY <1>3 DEF vars, Idle, ClientSend, loopVars, hVars, netVars
  <2>2. Registered(Past)' = Registered(Past) /\ Registered({})' = Registered({})
    BY <2>1 DEF Registered
  <2> QED
    BY <2>1, <2>2, RoomQuiet
<1>4. ASSUME NEW t \in Conn, HandlerStart(t) \/ ReadCall(t) \/ ReadEof(t) \/ Close(t)
      PROVE  RoomStays
  <2>1. UNCHANGED <<casts, out, mutx, clnt_socks, clnt_cnt, own, mpc, cur, chunk, k, peer>>
    BY <1>4 DEF HandlerStart, TakeArg, ReadCall, ReadEof, Close, mainVars, regVars, netVars, hVars
  <2>2. \E at \in PC : Goto(t, at) /\ (pc[t] \in Past <=> at \in Past)
    BY <1>4 DEF HandlerStart, TakeArg, ReadCall, ReadEof, Close, PC, Past, Goto
  <2> QED
    BY <1>2, <2>1, <2>2
<1>5. ASSUME NEW t \in Conn, ReadReset(t) PROVE RoomStays
  <2>1. /\ UNCHANGED <<casts, out, mutx, clnt_socks, clnt_cnt, own, mpc, cur, chunk, k>>
        /\ Goto(t, "send") /\ pc[t] = "blocked"
        /\ peer[file[t]] = "err" /\ peer' = [peer EXCEPT ![file[t]] = "rst"]
    BY <1>5 DEF ReadReset, mainVars, regVars, hVars
  <2>2. "send" \in PC /\ (pc[t] \in Past <=> "send" \in Past)
    BY <2>1 DEF PC, Past
  <2>3. \A c \in Conn : peer'[c] = "open" <=> peer[c] = "open"
    BY <1>1, <2>1
  <2> QED
    BY <1>2, <2>1, <2>2, <2>3
<1>6. ASSUME NEW t \in Conn, ReadData(t) PROVE RoomStays
  <2>1. /\ pc[t] = "blocked" /\ Goto(t, "send")
        /\ UNCHANGED <<casts, out, mutx, clnt_socks, clnt_cnt, own, mpc, cur, k, peer>>
        /\ \A u \in Conn \ {t} : chunk'[u] = chunk[u]
    BY <1>1, <1>6 DEF ReadData, mainVars, regVars
  <2>2. "send" \in PC /\ (pc[t] \in Past <=> "send" \in Past)
    BY <2>1 DEF PC, Past
  <2>3. mutx # t
    BY <1>1, <2>1
  <2> QED
    BY <1>1, <1>2, <2>1, <2>2, <2>3
<1>7. CASE MainCreate
  <2>1. /\ cur \in Conn /\ pc[cur] = "none" /\ Goto(cur, "start") /\ mpc = "create"
        /\ mpc' = "accept"
        /\ UNCHANGED <<casts, out, mutx, clnt_socks, clnt_cnt, own, cur, chunk, k, peer>>
    BY <1>1, <1>7 DEF MainCreate, Create, Bookkeeping, hVars, netVars, Goto
  <2>2. Registered(Past)' = Registered(Past) /\ Registered({})' = Registered({})
    BY <1>1, <2>1 DEF Registered, Goto, Past
  <2> QED
    BY <2>1, <2>2, RoomQuiet
<1>8. ASSUME NEW c \in Conn, MainAccept(c) PROVE RoomStays
  <2>1. /\ mpc = "accept" /\ mpc' = "append" /\ cur' = c /\ own[c] = NoFd
        /\ \E f \in Fds : own' = [own EXCEPT ![c] = f]
        /\ UNCHANGED <<casts, out, mutx, clnt_socks, clnt_cnt, pc, chunk, k, peer>>
    BY <1>8 DEF MainAccept, Accept, netVars, hVars
  <2>2. \A d \in Conn \ {c} : own'[d] = own[d]
    BY <1>1, <2>1
  <2>3. Registered(Past)' = Registered(Past) /\ Registered({})' = Registered({})
    BY <2>1, <2>2 DEF Registered
  <2>4. c \notin Registered(Past)
    BY <2>1 DEF Registered
  <2>5. \A d \in Conn : Untold(d)' = Untold(d)
    BY <2>1, <2>2, <2>3, <2>4 DEF Untold, Awaits
  <2> QED
    BY <2>1, <2>3, <2>5, RoomFrame
<1>9. ASSUME NEW t \in Conn, SendUnlock(t) PROVE RoomStays
  <2>1. /\ pc[t] = "sending" /\ Goto(t, "read") /\ mutx' = NoConn /\ k[t] >= clnt_cnt
        /\ UNCHANGED <<casts, out, own, mpc, cur, clnt_socks, clnt_cnt, peer>>
    BY <1>9 DEF SendUnlock, mainVars, regVars, netVars
  <2>2. mutx = t /\ k[t] \in Nat
    BY <1>1, <2>1
  <2>3. "read" \in PC /\ (pc[t] \in Past <=> "read" \in Past)
    BY <2>1 DEF PC, Past
  <2>4. Registered(Past)' = Registered(Past) /\ Registered({})' = Registered({})
    BY <1>1, <2>1, <2>3, SameRegistered
  <2>5. k[t] .. clnt_cnt - 1 = {}
    BY <1>1, <2>1, <2>2
  <2>6. \A d \in Conn : Untold(d)' = <<>> /\ Untold(d) = <<>>
    BY <2>1, <2>2, <2>5 DEF Untold, Awaits
  <2> QED
    BY <2>1, <2>4, <2>6, RoomFrame
<1> QED
  BY <1>3, <1>4, <1>5, <1>6, <1>7, <1>8, <1>9

\* Where the broadcast under way stands does not show: what is written to one
\* connection was already told it.
LEMMA RoomWrite ==
  ASSUME RoomInv, RoomInv', NEW t \in Conn, SendWrite(t)
  PROVE  RoomStays
<1>1. /\ mutx = t /\ NoConn \notin Conn /\ peer \in [Conn -> PeerState]
      /\ chunk[t] \in Seq(Message) /\ out \in [Conn -> Seq(Message)]
      /\ k \in [Conn -> 0 .. Cardinality(Conn)] /\ Cardinality(Conn) \in Nat
      /\ clnt_cnt \in 0 .. Cardinality(Conn)
  BY ConnAssumption, FS_CardinalityType DEF RoomInv, IInv, TypeOK, LoopTypeOK, SendWrite
<1>2. PICK d \in Registered(Past) :
        /\ clnt_socks[k[t]] = own[d] /\ fdtab[own[d]] = d
        /\ \A i \in k[t] + 1 .. clnt_cnt - 1 : clnt_socks[i] # own[d]
        /\ \A e \in Registered(Past) \ {d} : own[e] # own[d]
  BY <1>1, NextSlot DEF SendWrite, RoomInv
<1>3. d \in Conn
  BY <1>2 DEF Registered
<1>4. /\ UNCHANGED <<mpc, cur, own, pc, mutx, clnt_socks, clnt_cnt, chunk, casts>>
      /\ k' = [k EXCEPT ![t] = @ + 1] /\ k[t] < clnt_cnt
      /\ IF chunk[t] = <<>> THEN out' = out /\ peer' = peer
         ELSE /\ out' = [out EXCEPT ![d] = @ \o chunk[t]]
              /\ \E p \in AfterWrite(peer[d]) : peer' = [peer EXCEPT ![d] = p]
  BY <1>1, <1>2, <1>3 DEF SendWrite, loopVars
<1>5. Registered(Past)' = Registered(Past) /\ Registered({})' = Registered({})
  BY <1>4 DEF Registered
<1>6. k'[t] = k[t] + 1 /\ k[t] \in Nat /\ clnt_cnt \in Nat
  BY <1>1, <1>4
<1>7. \A c \in Conn : peer'[c] = "open" <=> peer[c] = "open"
  <2>1. CASE chunk[t] = <<>>
    BY <1>4, <2>1
  <2>2. CASE chunk[t] # <<>>
    <3>1. PICK p \in AfterWrite(peer[d]) : peer' = [peer EXCEPT ![d] = p]
      BY <1>4, <2>2
    <3>2. p = "open" <=> peer[d] = "open"
      BY <1>1, <1>3, <3>1 DEF AfterWrite, PeerState
    <3> QED
      BY <1>1, <1>3, <3>1, <3>2
  <2> QED
    BY <2>1, <2>2
<1>8. Untold(d) = chunk[t] /\ Untold(d)' = <<>>
  <2>1. k[t] \in k[t] .. clnt_cnt - 1
    BY <1>4, <1>6
  <2>2. Awaits(d) /\ ~Awaits(d)'
    BY <1>1, <1>2, <1>4, <1>6, <2>1 DEF Awaits
  <2> QED
    BY <1>1, <1>2, <2>2 DEF Untold
<1>9. \A e \in Conn \ {d} : Untold(e)' = Untold(e)
  <2> SUFFICES ASSUME NEW e \in Conn \ {d} PROVE Untold(e)' = Untold(e)
    OBVIOUS
  <2>1. \A i : i \in k[t] .. clnt_cnt - 1 <=> i = k[t] \/ i \in k[t] + 1 .. clnt_cnt - 1
    BY <1>4, <1>6
  <2>2. e \in Registered(Past) => (Awaits(e)' <=> Awaits(e))
    BY <1>1, <1>2, <1>4, <1>6, <2>1 DEF Awaits
  <2> QED
    BY <1>4, <1>5, <2>2 DEF Untold
<1>10. ASSUME NEW e \in Conn PROVE out'[e] \o Untold(e)' = out[e] \o Untold(e)
  <2>1. CASE e # d
    <3>1. out'[e] = out[e]
      BY <1>1, <1>3, <1>4, <2>1
    <3> QED
      BY <1>9, <2>1, <3>1
  <2>2. CASE e = d /\ chunk[t] = <<>>
    BY <1>4, <1>8, <2>2
  <2>3. CASE e = d /\ chunk[t] # <<>>
    <3>1. out'[d] = out[d] \o chunk[t]
      BY <1>1, <1>3, <1>4, <2>3
    <3>2. out[d] \o chunk[t] \in Seq(Message)
      BY <1>1, <1>3, ConcatProperties
    <3>3. (out[d] \o chunk[t]) \o <<>> = out[d] \o chunk[t]
      BY <3>2, ConcatEmptySeq
    <3> QED
      BY <1>8, <2>3, <3>1, <3>3
  <2> QED
    BY <2>1, <2>2, <2>3
<1> QED
  BY <1>4, <1>5, <1>7, <1>10, RoomFrame

\* The lock of a broadcast is the moment it is said.
LEMMA RoomSays ==
  ASSUME RoomInv, RoomInv', NEW t \in Conn, SendLock(t)
  PROVE  RoomStays \/ \E n \in 1 .. MaxSent - SaidBy(t) : Room!Say(t, n)
<1>1. /\ NoConn \notin Conn /\ TableIs(Past) /\ pc \in [Conn -> PC] /\ Bookkeeping
      /\ chunk \in [Conn -> Seq(Message)] /\ out \in [Conn -> Seq(Message)]
      /\ casts \in Seq(Message) /\ inbox \in [Conn -> Seq(Message)]
      /\ sent \in [Conn -> 0 .. MaxSent] /\ MaxSent \in Nat
      /\ \A c \in Conn : Begun(c) \in Nat /\ Follow(InHand(c), c, Begun(c))
  <2>1. NoConn \notin Conn /\ MaxSent \in Nat
    BY ConnAssumption, SentAssumption
  <2>2. TableIs(Past) /\ pc \in [Conn -> PC] /\ Bookkeeping
    BY DEF RoomInv, IInv, LoopInv, LoopTypeOK
  <2>3. \A c \in Conn : Begun(c) \in Nat /\ Follow(InHand(c), c, Begun(c))
    BY DEF RoomInv, TalkInv, OrderInv
  <2> QED
    BY <2>1, <2>2, <2>3 DEF RoomInv, IInv, TypeOK
<1>2. /\ pc[t] = "send" /\ Goto(t, "sending") /\ mutx = NoConn /\ mutx' = t
      /\ casts' = casts \o chunk[t] /\ pc' = [pc EXCEPT ![t] = "sending"]
      /\ UNCHANGED <<mpc, cur, own, clnt_socks, clnt_cnt, chunk, k, out, peer, inbox, sent>>
  BY <1>1 DEF SendLock, mainVars, regVars, netVars, Goto
<1>3. Registered(Past)' = Registered(Past) /\ Registered({})' = Registered({})
  <2>1. "sending" \in PC /\ (pc[t] \in Past <=> "sending" \in Past)
    BY <1>2 DEF PC, Past
  <2> QED
    BY <1>1, <1>2, <2>1, SameRegistered
<1>4. PICK h \in Nat : h = Len(chunk[t]) /\ DOMAIN chunk[t] = 1 .. h
  BY <1>1, LenProperties, Zenon
<1>5. PICK l \in Nat : l = Len(inbox[t])
  BY <1>1, LenProperties, Zenon
<1>6. \A d \in Conn : /\ Untold(d) = <<>>
                      /\ Untold(d)' = IF d \in Registered(Past) THEN chunk[t] ELSE <<>>
  <2> SUFFICES ASSUME NEW d \in Conn
               PROVE  /\ Untold(d) = <<>>
                      /\ Untold(d)' = IF d \in Registered(Past) THEN chunk[t] ELSE <<>>
    OBVIOUS
  <2>1. Untold(d) = <<>>
    BY <1>2 DEF Untold, Awaits
  <2>2. ASSUME d \in Registered(Past) PROVE Awaits(d)'
    <3>1. own[d] \in ListedFds /\ k[t] = 0
      BY <1>1, <1>2, <2>2 DEF TableIs, RoomInv, HandInv
    <3>2. \E i \in 0 .. clnt_cnt - 1 : clnt_socks[i] = own[d]
      BY <3>1 DEF ListedFds
    <3> QED
      BY <1>1, <1>2, <3>1, <3>2 DEF Awaits
  <2> QED
    BY <1>2, <1>3, <2>1, <2>2 DEF Untold
<1>7. \A d \in Conn : out[d] \o <<>> = out[d]
  BY <1>1, ConcatEmptySeq
<1>8. CASE h = 0
  <2>1. chunk[t] = <<>>
    BY <1>1, <1>4, <1>8, EmptySeq
  <2>2. casts' = casts
    BY <1>1, <1>2, <2>1, ConcatEmptySeq
  <2>3. \A d \in Conn : Untold(d)' = Untold(d)
    BY <1>6, <2>1
  <2> QED
    BY <1>2, <1>3, <2>2, <2>3, RoomFrame
<1>9. CASE h # 0
  <2>1. Begun(t) = sent[t] - l - h /\ Begun(t)' = sent[t] - l - 0
    <3>1. InHand(t) = chunk[t] /\ InHand(t)' = <<>> /\ Len(<<>>) = 0
      BY <1>1, <1>2 DEF InHand
    <3> QED
      BY <1>2, <1>4, <1>5, <3>1 DEF Begun
  <2>2. sent[t] \in 0 .. MaxSent
    BY <1>1
  <2>3. /\ Begun(t)' = Begun(t) + h /\ h \in 1 .. MaxSent - Begun(t) /\ Begun(t) \in Nat
    <3>1. Begun(t) \in Nat
      BY <1>1
    <3> QED
      BY <1>1, <1>4, <1>5, <1>9, <2>1, <2>2, <3>1
  <2>4. \A d \in Conn \ {t} : Begun(d)' = Begun(d)
    <3>1. \A d \in Conn \ {t} : InHand(d)' = InHand(d)
      BY <1>1, <1>2 DEF InHand
    <3> QED
      BY <1>2, <3>1 DEF Begun
  <2>5. chunk[t] = [i \in 1 .. h |-> [from |-> t, n |-> Begun(t) + i]]
    <3>1. chunk[t] = [i \in 1 .. h |-> chunk[t][i]]
      BY <1>1, <1>4
    <3>2. InHand(t) = chunk[t]
      BY <1>2 DEF InHand
    <3>3. \A i \in 1 .. h : chunk[t][i] = [from |-> t, n |-> Begun(t) + i]
      BY <1>1, <1>4, <3>2 DEF Follow
    <3> QED
      BY <3>1, <3>3
  <2>6. t \in Registered(Past)
    BY <1>1, <1>2 DEF Registered, Bookkeeping, Past
  <2> DEFINE said == [c \in Conn |-> SaidBy(c)]
             log  == [c \in Conn |-> out[c] \o ToBeTold(c)]
  <2>7. /\ said = [c \in Conn |-> Begun(c)] /\ log = [c \in Conn |-> out[c] \o Untold(c)]
        /\ said' = [c \in Conn |-> Begun(c)'] /\ log' = [c \in Conn |-> out'[c] \o Untold(c)']
    <3>1. said = [c \in Conn |-> Begun(c)] /\ log = [c \in Conn |-> out[c] \o Untold(c)]
      BY RoomView
    <3>2. (RoomInv => said = [c \in Conn |-> Begun(c)] /\ log = [c \in Conn |-> out[c] \o Untold(c)])'
      BY RoomView, PTL
    <3> QED
      BY <3>1, <3>2
  <2> HIDE DEF said, log
  <2>8. said[t] = Begun(t) /\ said' = [said EXCEPT ![t] = @ + h]
    <3>1. said' = [c \in Conn |-> IF c = t THEN Begun(c) + h ELSE Begun(c)]
      BY <2>3, <2>4, <2>7
    <3> QED
      BY <2>7, <3>1
  <2>9. log' = [d \in Conn |-> IF d \in Registered(Past) THEN log[d] \o chunk[t] ELSE log[d]]
    <3>1. \A d \in Conn : log[d] = out[d]
      BY <1>6, <1>7, <2>7
    <3>2. \A d \in Conn : out'[d] \o Untold(d)'
                            = IF d \in Registered(Past) THEN log[d] \o chunk[t] ELSE log[d]
      BY <1>2, <1>6, <1>7, <3>1
    <3> QED
      BY <2>7, <3>2
  <2>10. {c \in Conn : peer'[c] = "open"} = {c \in Conn : peer[c] = "open"}
    BY <1>2
  <2>11. chunk[t] = [i \in 1 .. h |-> [from |-> t, n |-> said[t] + i]]
    BY <2>5, <2>8, Zenon
  <2>12. /\ t \in Registered(Past)
         /\ said' = [said EXCEPT ![t] = @ + h]
         /\ log' = [d \in Conn |-> IF d \in Registered(Past)
                                     THEN log[d] \o [i \in 1 .. h |-> [from |-> t, n |-> said[t] + i]]
                                     ELSE log[d]]
    BY <2>6, <2>8, <2>9, <2>11, Zenon
  <2>13. Room!Say(t, h)
    BY <1>3, <2>10, <2>12 DEF Room!Say, said, log
  <2>14. SaidBy(t) = Begun(t)
    BY SaidIsBegun
  <2> QED
    BY <2>3, <2>13, <2>14
<1> QED
  BY <1>8, <1>9

\* Every step is the room's: a client hangs up, joins, speaks or leaves.
LEMMA RoomStep ==
  ASSUME RoomInv, RoomInv', [Next]_vars
  PROVE  [Room!RoomNext]_(Room!roomVars)
<1>1. /\ Bookkeeping
      /\ \A t \in Conn : pc[t] \in {"remove", "close", "done"} => peer[t] # "open"
      /\ pc \in [Conn -> PC] /\ out \in [Conn -> Seq(Message)] /\ peer \in [Conn -> PeerState]
  <2>1. Bookkeeping /\ pc \in [Conn -> PC]
    BY DEF RoomInv, IInv, LoopInv, LoopTypeOK
  <2> QED
    BY <2>1 DEF RoomInv, IInv, TypeOK
<1>2. RoomStays => UNCHANGED Room!roomVars
  BY DEF RoomStays, Room!roomVars
<1> DEFINE said == [c \in Conn |-> SaidBy(c)]
           log  == [c \in Conn |-> out[c] \o ToBeTold(c)]
<1>3. ASSUME UNCHANGED <<casts, out>>, \A d \in Conn : Untold(d)' = Untold(d)
      PROVE  said' = said /\ log' = log
  <2>1. (RoomInv => log = [c \in Conn |-> out[c] \o Untold(c)])'
    BY RoomView, PTL
  <2>2. log = [c \in Conn |-> out[c] \o Untold(c)]
    BY RoomView
  <2>3. [c \in Conn |-> out'[c] \o Untold(c)'] = [c \in Conn |-> out[c] \o Untold(c)]
    BY <1>3
  <2>4. said' = said
    BY <1>3 DEF SaidBy
  <2> HIDE DEF log
  <2> QED
    BY <2>1, <2>2, <2>3, <2>4
<1>4. ASSUME mutx = NoConn, mutx' = NoConn, UNCHANGED <<casts, out>>
      PROVE  said' = said /\ log' = log
  <2>1. \A d \in Conn : Untold(d)' = <<>> /\ Untold(d) = <<>>
    BY <1>4 DEF Untold, Awaits
  <2> QED
    BY <1>3, <1>4, <2>1
<1>5. ASSUME NEW c \in Conn, ClientQuit(c) PROVE Room!HangUp(c)
  <2>1. /\ UNCHANGED <<casts, out, mutx, clnt_socks, clnt_cnt, own, mpc, cur, pc, chunk, k>>
        /\ \E p \in {"fin", "err"} : peer' = [peer EXCEPT ![c] = p]
    BY <1>5 DEF ClientQuit, AfterClose, loopVars, hVars
  <2>2. Registered(Past)' = Registered(Past) /\ Registered({})' = Registered({})
    BY <2>1 DEF Registered
  <2>3. \A d \in Conn : Untold(d)' = Untold(d)
    BY <2>1, <2>2 DEF Untold, Awaits
  <2>4. said' = said /\ log' = log
    BY <1>3, <2>1, <2>3
  <2>5. {d \in Conn : peer'[d] = "open"} = {d \in Conn : peer[d] = "open"} \ {c}
    BY <1>1, <2>1
  <2> QED
    BY <2>2, <2>4, <2>5 DEF Room!HangUp
<1>6. ASSUME MainAppend PROVE cur \in Conn /\ Room!Join(cur)
  <2>1. /\ mpc = "append" /\ mpc' = "create" /\ mutx = NoConn /\ mutx' = NoConn /\ cur \in Conn
        /\ UNCHANGED <<casts, out, own, cur, pc, peer>>
    BY <1>1, <1>6 DEF MainAppend, Enlist, netVars, hVars, Bookkeeping
  <2>2. /\ Registered(Past)' = Registered(Past) \cup {cur}
        /\ Registered({})' = Registered({}) \cup {cur} /\ cur \notin Registered({})
    BY <1>1, <2>1 DEF Registered, Bookkeeping, Past
  <2>3. said' = said /\ log' = log
    BY <1>4, <2>1
  <2>4. {d \in Conn : peer'[d] = "open"} = {d \in Conn : peer[d] = "open"}
    BY <2>1
  <2> QED
    BY <2>1, <2>2, <2>3, <2>4 DEF Room!Join
<1>7. ASSUME NEW t \in Conn, Remove(t) PROVE Room!Leave(t)
  <2>1. /\ pc[t] = "remove" /\ pc' = [pc EXCEPT ![t] = "close"] /\ mutx = NoConn /\ mutx' = NoConn
        /\ UNCHANGED <<casts, out, own, mpc, cur, peer>>
    BY <1>7 DEF Remove, mainVars, netVars, hVars, Goto
  <2>2. /\ Registered(Past)' = Registered(Past) \ {t} /\ t \in Registered(Past)
        /\ Registered({})' = Registered({})
    BY <1>1, <2>1 DEF Registered, Past, Bookkeeping
  <2>3. said' = said /\ log' = log
    BY <1>4, <2>1
  <2>4. {d \in Conn : peer'[d] = "open"} = {d \in Conn : peer[d] = "open"}
    BY <2>1
  <2>5. t \notin {d \in Conn : peer[d] = "open"}
    BY <1>1, <2>1
  <2> QED
    BY <2>2, <2>3, <2>4, <2>5 DEF Room!Leave
<1>8. ASSUME NEW t \in Conn, SendLock(t) PROVE [Room!RoomNext]_(Room!roomVars)
  <2>1. CASE RoomStays
    BY <1>2, <2>1
  <2>2. CASE \E n \in 1 .. MaxSent - SaidBy(t) : Room!Say(t, n)
    <3>1. said[t] = SaidBy(t)
      OBVIOUS
    <3> QED
      BY <2>2, <3>1 DEF Room!RoomNext
  <2> QED
    BY <1>8, <2>1, <2>2, RoomSays
<1>9. CASE \/ UNCHANGED vars \/ Idle \/ MainCreate
           \/ \E t \in Conn : \/ ClientSend(t) \/ MainAccept(t) \/ HandlerStart(t) \/ ReadCall(t)
                              \/ ReadData(t) \/ ReadEof(t) \/ ReadReset(t) \/ SendUnlock(t)
                              \/ Close(t) \/ SendWrite(t)
  BY <1>2, <1>9, RoomHides, RoomWrite
<1> QED
  BY <1>5, <1>6, <1>7, <1>8, <1>9 DEF Next, Main, Handler, Room!RoomNext

\* When connections are spaced, the chat server implements the room: what one
\* client says reaches every member of that moment, in one order for all.
THEOREM ChatImplements == SpacedSpec => ImplementsRoom
<1>1. Init => Room!RoomInit
  <2> SUFFICES ASSUME Init PROVE Room!RoomInit
    OBVIOUS
  <2>1. /\ casts = <<>> /\ mutx = NoConn
        /\ \A c \in Conn : peer[c] = "open" /\ out[c] = <<>> /\ own[c] = NoFd
    BY DEF Init, LoopInit
  <2>2. Registered({}) = {} /\ Registered(Past) = {} /\ {c \in Conn : peer[c] = "open"} = Conn
    BY <2>1 DEF Registered
  <2>3. \A c \in Conn : SaidBy(c) = 0
    <3>1. \A c \in Conn : {i \in DOMAIN casts : casts[i].from = c} = {}
      BY <2>1
    <3> QED
      BY <3>1, FS_EmptySet DEF SaidBy
  <2>4. \A c \in Conn : out[c] \o ToBeTold(c) = <<>>
    <3>1. <<>> \in Seq(Message)
      BY EmptySeq
    <3>2. <<>> \o <<>> = <<>>
      BY <3>1, ConcatEmptySeq
    <3> QED
      BY <2>1, <3>2 DEF ToBeTold
  <2> QED
    BY <2>2, <2>3, <2>4 DEF Room!RoomInit
<1>2. SpacedSpec => Spec
  <2>1. [Next /\ Spaced]_vars => [Next]_vars
    OBVIOUS
  <2> QED
    BY <2>1, PTL DEF SpacedSpec, Spec
<1>3. SpacedSpec => []RoomInv
  <2>1. IInv /\ HandInv /\ (ArgsIntact => TalkInv) /\ ArgsIntact => RoomInv
    BY DEF RoomInv
  <2> QED
    BY <1>2, <2>1, Talking, SpacedArgs, PTL
<1>4. RoomInv /\ RoomInv' /\ [Next /\ Spaced]_vars => [Room!RoomNext]_(Room!roomVars)
  <2>1. [Next /\ Spaced]_vars => [Next]_vars
    OBVIOUS
  <2> QED
    BY <2>1, RoomStep
<1> QED
  BY <1>1, <1>3, <1>4, PTL DEF SpacedSpec, ImplementsRoom, Room!RoomSpec
=============================================================================

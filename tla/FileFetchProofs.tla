-------------------------- MODULE FileFetchProofs --------------------------
(***************************************************************************)
(* For any clients, any file and any number of lost datagrams: one client  *)
(* is served, and as long as none is delivered twice it gets the file in   *)
(* order and whole.                                                        *)
(***************************************************************************)
EXTENDS FileFetch, SequenceTheorems, TLAPS

Datagram == ToServer \cup ToClient

\* Bytes of full blocks add up one block at a time.
LEMMA BytesAddUp ==
  /\ FullBytes(0) = 0
  /\ \A b \in Nat : /\ FullBytes(b) \in Nat
                    /\ FullBytes(b + 1) = FullBytes(b) + BUF_SIZE
<1>1. BUF_SIZE \in Nat
  BY FileAssumption
<1>2. FullBytes(0) = 0
  BY <1>1 DEF FullBytes
<1>3. ASSUME NEW b \in Nat
      PROVE  FullBytes(b) \in Nat /\ FullBytes(b + 1) = FullBytes(b) + BUF_SIZE
  BY <1>1 DEF FullBytes
<1> QED
  BY <1>2, <1>3

\* The numbers of the blocks, the rest and nothing.
LEMMA BlockNumbers ==
  /\ Blocks \in Nat /\ LastBlock \in Nat /\ Nothing \in Nat
  /\ LastBlock = Blocks + 1 /\ Nothing = Blocks + 2
BY FileAssumption DEF LastBlock, Nothing

\* What the n-th read returns: a block, the rest, and nothing for ever after.
LEMMA BlockSizes ==
  /\ BUF_SIZE \in Nat /\ Rest \in Nat /\ Rest # BUF_SIZE
  /\ \A b \in 1 .. Blocks : BytesOf(b) = BUF_SIZE
  /\ BytesOf(LastBlock) = Rest
  /\ BytesOf(Nothing) = 0
  /\ \A b \in Int : BytesOf(b) \in Nat
BY FileAssumption DEF LastBlock, Nothing, BytesOf

\* Printing the next block of the file extends the printed prefix by it.
LEMMA PrefixGrows ==
  ASSUME NEW b \in Nat
  PROVE  /\ Append(FileUpTo(b), b + 1) = FileUpTo(b + 1)
         /\ Len(FileUpTo(b)) = b
         /\ FileUpTo(b) \in Seq(Nat)
<1>1. FileUpTo(b) \in [1 .. b -> Nat]
  BY DEF FileUpTo
<1>2. FileUpTo(b) \in Seq(Nat) /\ Len(FileUpTo(b)) = b
  BY <1>1
<1>3. Append(FileUpTo(b), b + 1) = [i \in 1 .. b + 1 |-> IF i = b + 1 THEN b + 1 ELSE FileUpTo(b)[i]]
  BY <1>2
<1>4. \A i \in 1 .. b + 1 :
        (IF i = b + 1 THEN b + 1 ELSE FileUpTo(b)[i]) = i
  BY DEF FileUpTo
<1> QED
  BY <1>2, <1>3, <1>4 DEF FileUpTo

\* Before anything happened nobody is served and nothing is on its way.
LEMMA FetchInit == FileInit => IInv
<1> SUFFICES ASSUME FileInit
             PROVE  IInv
  OBVIOUS
<1>1. FileTypeOK
  BY FileAssumption, BlockNumbers DEF FileInit, FileTypeOK
<1>2. Served = {}
  BY DEF FileInit, Served
<1>3. <<>> = FileUpTo(0)
  BY DEF FileUpTo
<1>4. TurnInv
  BY <1>3, BytesAddUp DEF FileInit, TurnInv, ClientOK, HasBlocks, HasRead
<1> QED
  BY <1>1, <1>2, <1>4 DEF IInv, OneInv

-----------------------------------------------------------------------------
\* Whatever is answered, the datagrams stay well formed and the count of faults
\* in bounds; without a duplicate the received datagram is gone.
LEMMA AnswerEffect ==
  ASSUME FileTypeOK, NEW d \in net, NEW answers \in SUBSET Datagram, Answer(d, answers)
  PROVE  /\ net' \subseteq Datagram
         /\ faults' \in 0 .. MaxFaults /\ dups' \in 0 .. faults'
         /\ net' \subseteq net \cup answers
         /\ dups' = 0 => dups = 0 /\ net' = (net \ {d}) \cup answers
BY FileAssumption DEF FileTypeOK, Answer, Datagram

\* The datagrams the programs send are well formed.
LEMMA Sendable ==
  /\ \A c \in Clients : \A cmd \in {"NAME_REQ", "FILE_REQ", "FILE_END_ACK"} :
       {Asking(c, cmd)} \in SUBSET Datagram
  /\ \A c \in Clients : \A cmd \in {"NAME_RES", "FILE_SEND", "FILE_END"} :
       \A found \in BOOLEAN : \A blk \in 1 .. Nothing :
         {Telling(c, cmd, found, blk)} \in SUBSET Datagram
  /\ {} \in SUBSET Datagram
BY DEF Asking, Telling, Datagram, ToServer, ToClient

\* Every step keeps the types.
LEMMA FetchTypeStep ==
  ASSUME FileTypeOK, [FileNext]_fileVars
  PROVE  FileTypeOK'
<1> DEFINE NetOK == /\ net' \subseteq Datagram
                    /\ faults' \in 0 .. MaxFaults /\ dups' \in 0 .. faults'
           SrvOK == /\ exists' \in BOOLEAN
                    /\ spc' \in {"name", "request", "ack", "end"}
                    /\ pos' \in 0 .. LastBlock /\ sCount' \in Nat /\ sSize' \in Nat
           ClntOK == /\ cpc' \in [Clients -> {"start", "name", "block", "end"}]
                     /\ printed' \in [Clients -> Seq(1 .. LastBlock)]
                     /\ cCount' \in [Clients -> Nat] /\ cSize' \in [Clients -> Nat]
<1>1. SUFFICES NetOK /\ SrvOK /\ ClntOK
  BY DEF FileTypeOK, Datagram
<1>2. /\ UNCHANGED srvVars => SrvOK
      /\ UNCHANGED clntVars => ClntOK
  BY DEF FileTypeOK, srvVars, clntVars
<1>3. CASE Lose
  <2>1. NetOK
    BY <1>3, FileAssumption DEF Lose, FileTypeOK, Datagram
  <2> QED
    BY <1>2, <1>3, <2>1 DEF Lose
<1>4. ASSUME NEW d \in net, ServeName(d)
      PROVE  NetOK /\ SrvOK /\ ClntOK
  <2>1. {Telling(d.c, "NAME_RES", exists, Nothing)} \in SUBSET Datagram
    <3>1. d.c \in Clients
      BY DEF FileTypeOK, ToServer, ToClient
    <3>2. exists \in BOOLEAN
      BY DEF FileTypeOK
    <3>3. Nothing \in 1 .. Nothing
      BY BlockNumbers
    <3> QED
      BY <3>1, <3>2, <3>3, Sendable, Zenon
  <2>2. Answer(d, {Telling(d.c, "NAME_RES", exists, Nothing)})
    BY <1>4 DEF ServeName
  <2>3. NetOK
    BY <2>1, <2>2, AnswerEffect
  <2> QED
    BY <1>2, <1>4, <2>3 DEF ServeName, FileTypeOK
<1>5. ASSUME NEW d \in net, ServeBlock(d)
      PROVE  NetOK /\ SrvOK /\ ClntOK
  <2>1. pos \in 0 .. LastBlock /\ NextBlock \in 1 .. Nothing
    <3>1. pos \in 0 .. LastBlock
      BY DEF FileTypeOK
    <3> QED
      BY <3>1, BlockNumbers DEF NextBlock
  <2>2. /\ {Telling(d.c, "FILE_SEND", TRUE, NextBlock)} \in SUBSET Datagram
        /\ {Telling(d.c, "FILE_END", TRUE, NextBlock)} \in SUBSET Datagram
    BY <2>1, Sendable DEF FileTypeOK, ToServer, ToClient
  <2>3. \/ Answer(d, {Telling(d.c, "FILE_SEND", TRUE, NextBlock)})
        \/ Answer(d, {Telling(d.c, "FILE_END", TRUE, NextBlock)})
    BY <1>5 DEF ServeBlock
  <2>4. NetOK
    BY <2>2, <2>3, AnswerEffect
  <2>5. BytesOf(NextBlock) \in Nat
    BY <2>1, BlockSizes
  <2>6. pos' \in 0 .. LastBlock /\ sCount' \in Nat /\ sSize' \in Nat
    <3>1. sCount \in Nat /\ sSize \in Nat
      BY DEF FileTypeOK
    <3>2. /\ pos' = IF pos < LastBlock THEN pos + 1 ELSE pos
          /\ sCount' = sCount + 1
          /\ sSize' = sSize + BytesOf(NextBlock)
      BY <1>5 DEF ServeBlock
    <3> QED
      BY <2>1, <2>5, <3>1, <3>2, BlockNumbers
  <2> QED
    BY <1>2, <1>5, <2>4, <2>6 DEF ServeBlock, FileTypeOK
<1>6. ASSUME NEW d \in net, ServeOther(d) \/ ServeAck(d)
      PROVE  NetOK /\ SrvOK /\ ClntOK
  <2>1. NetOK
    BY <1>6, Sendable, AnswerEffect DEF ServeOther, ServeAck
  <2> QED
    BY <1>2, <1>6, <2>1 DEF ServeOther, ServeAck, FileTypeOK
<1>7. ASSUME NEW c \in Clients, Start(c)
      PROVE  NetOK /\ SrvOK /\ ClntOK
  <2>1. NetOK
    BY <1>7, Sendable DEF Start, FileTypeOK, Datagram
  <2> QED
    BY <1>2, <1>7, <2>1 DEF Start, FileTypeOK
<1>8. ASSUME NEW c \in Clients, NEW d \in net, GetName(c, d)
      PROVE  NetOK /\ SrvOK /\ ClntOK
  <2>1. \/ Answer(d, {Asking(c, "FILE_REQ")})
        \/ Answer(d, {})
    BY <1>8 DEF GetName
  <2>2. NetOK
    BY <2>1, Sendable, AnswerEffect
  <2> QED
    BY <1>2, <1>8, <2>2 DEF GetName, FileTypeOK
<1>9. ASSUME NEW c \in Clients, NEW d \in net,
             GetBlock(c, d) \/ GetEnd(c, d) \/ GetOther(c, d)
      PROVE  NetOK /\ SrvOK /\ ClntOK
  <2>1. d.blk \in 1 .. Nothing
    BY <1>9 DEF FileTypeOK, ToServer, ToClient, GetBlock, GetEnd, GetOther
  <2>2. NetOK
    BY <1>9, Sendable, AnswerEffect DEF GetBlock, GetEnd, GetOther
  <2>3. cCount' \in [Clients -> Nat] /\ cSize' \in [Clients -> Nat]
    <3>1. BytesOf(d.blk) \in Nat
      BY <2>1, BlockSizes
    <3>2. Counted(c, d)
      BY <1>9 DEF GetBlock, GetEnd, GetOther
    <3>3. cCount \in [Clients -> Nat] /\ cSize \in [Clients -> Nat]
      BY DEF FileTypeOK
    <3> QED
      BY <3>1, <3>2, <3>3 DEF Counted
  <2>4. printed' \in [Clients -> Seq(1 .. LastBlock)]
    <3>1. printed \in [Clients -> Seq(1 .. LastBlock)]
      BY DEF FileTypeOK
    <3>2. d.blk # Nothing => d.blk \in 1 .. LastBlock
      BY <2>1, BlockNumbers
    <3>3. d.blk # Nothing => Append(printed[c], d.blk) \in Seq(1 .. LastBlock)
      BY <3>1, <3>2, AppendProperties
    <3>4. PrintBlock(c, d) \/ UNCHANGED printed
      BY <1>9 DEF GetBlock, GetEnd, GetOther
    <3> QED
      BY <3>1, <3>3, <3>4 DEF PrintBlock
  <2>5. cpc' \in [Clients -> {"start", "name", "block", "end"}]
    BY <1>9 DEF GetBlock, GetEnd, GetOther, FileTypeOK
  <2> QED
    BY <1>2, <1>9, <2>2, <2>3, <2>4, <2>5 DEF GetBlock, GetEnd, GetOther
<1>10. CASE UNCHANGED fileVars
  BY <1>2, <1>10 DEF fileVars, FileTypeOK, Datagram
<1> QED
  BY <1>3, <1>4, <1>5, <1>6, <1>7, <1>8, <1>9, <1>10 DEF FileNext, Server, Receive

-----------------------------------------------------------------------------
\* What is on its way after a datagram was received: without a duplicate the
\* datagram is gone, and duplicates are never forgotten.
LEMMA AnswerNet ==
  ASSUME NEW d \in net, NEW answers, Answer(d, answers), FileTypeOK
  PROVE  /\ net' \subseteq net \cup answers
         /\ dups' = 0 => dups = 0 /\ net' = (net \ {d}) \cup answers
BY DEF FileTypeOK, Answer

\* The server and the fetching client never bring a second client in.
LEMMA FetchOneStep ==
  ASSUME FileTypeOK, OneInv, [FileNext]_fileVars
  PROVE  OneInv'
<1> DEFINE Kept == Served' \subseteq Served /\ (spc' = "name" => spc = "name")
<1>1. Kept => OneInv'
  BY DEF OneInv
<1>2. \A d \in net : d.c \in Clients
  BY DEF FileTypeOK, ToServer, ToClient
<1>3. ASSUME net' \subseteq net, UNCHANGED <<cpc, printed>>
      PROVE  Served' \subseteq Served
  BY <1>3 DEF Served
<1>4. CASE Lose
  BY <1>1, <1>3, <1>4 DEF Lose, srvVars, clntVars
<1>5. ASSUME NEW d \in net, ServeName(d)
      PROVE  OneInv'
  <2>1. Served = {}
    BY <1>5 DEF ServeName, OneInv
  <2>2. net' \subseteq net \cup {Telling(d.c, "NAME_RES", exists, Nothing)}
    BY <1>5, AnswerNet DEF ServeName
  <2>3. UNCHANGED <<cpc, printed>> /\ spc' # "name"
    BY <1>5 DEF ServeName, clntVars
  <2>4. Telling(d.c, "NAME_RES", exists, Nothing).c = d.c
    BY DEF Telling
  <2>5. Served' \subseteq {d.c}
    BY <2>1, <2>2, <2>3, <2>4 DEF Served
  <2> QED
    BY <2>3, <2>5 DEF OneInv
<1>6. ASSUME NEW d \in net, ServeBlock(d)
      PROVE  Kept
  <2>1. d.c \in Served
    BY <1>2, <1>6 DEF ServeBlock, Served, OfTransfer
  <2>2. PICK a : net' \subseteq net \cup {a} /\ a.c = d.c
    <3>1. \/ Answer(d, {Telling(d.c, "FILE_SEND", TRUE, NextBlock)})
          \/ Answer(d, {Telling(d.c, "FILE_END", TRUE, NextBlock)})
      BY <1>6 DEF ServeBlock
    <3>2. /\ Telling(d.c, "FILE_SEND", TRUE, NextBlock).c = d.c
          /\ Telling(d.c, "FILE_END", TRUE, NextBlock).c = d.c
      BY DEF Telling
    <3> QED
      BY <3>1, <3>2, AnswerNet
  <2>3. UNCHANGED <<cpc, printed>> /\ spc' # "name"
    BY <1>6 DEF ServeBlock, clntVars
  <2> QED
    BY <2>1, <2>2, <2>3 DEF Served
<1>7. ASSUME NEW d \in net, ServeOther(d) \/ ServeAck(d)
      PROVE  Kept
  <2>1. net' \subseteq net
    BY <1>7, AnswerNet DEF ServeOther, ServeAck
  <2> QED
    BY <1>3, <1>7, <2>1 DEF ServeOther, ServeAck, srvVars, clntVars
<1>8. ASSUME NEW c \in Clients, Start(c)
      PROVE  Kept
  <2>1. Asking(c, "NAME_REQ").cmd = "NAME_REQ"
    BY DEF Asking
  <2>2. \A e \in Clients : cpc'[e] = "block" => cpc[e] = "block"
    BY <1>8 DEF Start, FileTypeOK
  <2> QED
    BY <1>8, <2>1, <2>2 DEF Start, Served, OfTransfer, srvVars
<1>9. ASSUME NEW c \in Clients, NEW d \in net, GetName(c, d)
      PROVE  Kept
  <2> DEFINE go == d.cmd = "NAME_RES" /\ d.found
  <2>1. UNCHANGED <<spc, printed>>
    BY <1>9 DEF GetName, srvVars
  <2>2. CASE go
    <3>1. c \in Served
      BY <1>9, <2>2 DEF GetName, Served, OfTransfer
    <3>2. net' \subseteq net \cup {Asking(c, "FILE_REQ")}
      BY <1>9, <2>2, AnswerNet DEF GetName
    <3>3. Asking(c, "FILE_REQ").c = c
      BY DEF Asking
    <3>4. \A e \in Clients : cpc'[e] = "block" => cpc[e] = "block" \/ e = c
      BY <1>9 DEF GetName, FileTypeOK
    <3> QED
      BY <2>1, <3>1, <3>2, <3>3, <3>4 DEF Served
  <2>3. CASE ~go
    <3>1. net' \subseteq net
      BY <1>9, <2>3, AnswerNet DEF GetName
    <3>2. \A e \in Clients : cpc'[e] = "block" => cpc[e] = "block"
      BY <1>9, <2>3 DEF GetName, FileTypeOK
    <3> QED
      BY <2>1, <3>1, <3>2 DEF Served
  <2> QED
    BY <2>2, <2>3
<1>10. ASSUME NEW c \in Clients, NEW d \in net,
              GetBlock(c, d) \/ GetEnd(c, d) \/ GetOther(c, d)
       PROVE  Kept
  <2>1. c \in Served /\ UNCHANGED spc
    BY <1>10 DEF GetBlock, GetEnd, GetOther, Served, srvVars
  <2>2. \A e \in net' : e \in net \/ e.c = c
    <3>1. \/ Answer(d, {Asking(c, "FILE_REQ")})
          \/ Answer(d, {Asking(c, "FILE_END_ACK")})
          \/ Answer(d, {})
      BY <1>10 DEF GetBlock, GetEnd, GetOther
    <3>2. Asking(c, "FILE_REQ").c = c /\ Asking(c, "FILE_END_ACK").c = c
      BY DEF Asking
    <3> QED
      BY <3>1, <3>2, AnswerNet
  <2>3. \A e \in Clients : cpc'[e] = "block" => cpc[e] = "block"
    BY <1>10 DEF GetBlock, GetEnd, GetOther, FileTypeOK
  <2>4. \A e \in Clients \ {c} : printed'[e] = printed[e]
    BY <1>10 DEF GetBlock, GetEnd, GetOther, PrintBlock, FileTypeOK
  <2> QED
    BY <2>1, <2>2, <2>3, <2>4 DEF Served
<1>11. CASE UNCHANGED fileVars
  BY <1>1, <1>3, <1>11 DEF fileVars, srvVars, clntVars
<1> QED
  BY <1>1, <1>4, <1>5, <1>6, <1>7, <1>8, <1>9, <1>10, <1>11 DEF FileNext, Server, Receive

-----------------------------------------------------------------------------
\* Facts about the datagrams of the current state that every step below uses.
LEMMA TurnFacts ==
  ASSUME IInv, dups = 0
  PROVE  /\ FileTypeOK /\ TurnInv
         /\ \A d \in net : d.c \in Clients /\ cpc[d.c] # "start" /\ DatagramOK(d)
         /\ \A d, e \in net : d.c = e.c => d = e
         /\ \A d, e \in net : OfTransfer(d) /\ OfTransfer(e) => d = e
         /\ \A d \in net : OfTransfer(d) =>
              \A c \in Clients : printed[c] # <<>> => c = d.c
<1>1. FileTypeOK /\ OneInv /\ TurnInv
  BY DEF IInv
<1>2. \A d \in net : d.c \in Clients
  BY <1>1 DEF FileTypeOK, ToServer, ToClient
<1>3. \A d \in net : cpc[d.c] # "start" /\ DatagramOK(d)
  BY <1>1, <1>2 DEF TurnInv, ClientOK
<1>4. \A d, e \in net : d.c = e.c => d = e
  BY <1>1 DEF TurnInv
<1>5. \A d \in net : OfTransfer(d) => d.c \in Served
  BY <1>2 DEF Served
<1>6. \A c \in Clients : printed[c] # <<>> => c \in Served
  BY DEF Served
<1> QED
  BY <1>1, <1>2, <1>3, <1>4, <1>5, <1>6 DEF OneInv

\* A datagram goes and at most one comes, for the same client.
LEMMA OneEach ==
  ASSUME NEW d \in net, NEW answers,
         \A a, b \in answers : a = b,
         \A a \in answers : a.c = d.c,
         net' = (net \ {d}) \cup answers,
         \A e, f \in net : e.c = f.c => e = f
  PROVE  \A e, f \in net' : e.c = f.c => e = f
OBVIOUS

\* Losing or dropping a datagram leaves the turn to nobody.
LEMMA TurnKeptByLoss ==
  ASSUME TurnInv, net' \subseteq net, UNCHANGED <<srvVars, clntVars>>
  PROVE  TurnInv'
<1>1. UNCHANGED <<spc, pos, sCount, sSize, cpc, printed, cCount, cSize>>
  BY DEF srvVars, clntVars
<1>2. \A c \in Clients : ClientOK(c) => ClientOK(c)'
  BY <1>1 DEF ClientOK, HasBlocks, WholeFileRead
<1>3. \A d \in net : DatagramOK(d) => DatagramOK(d)'
  BY <1>1 DEF DatagramOK, HasBlocks, HasRead, WholeFileRead
<1>4. (spc = "name" => HasRead(0)) => (spc = "name" => HasRead(0))'
  BY <1>1 DEF HasRead
<1> QED
  BY <1>2, <1>3, <1>4 DEF TurnInv

\* A step of the server keeps what is known of the clients, and of a datagram
\* that is not of the transfer.
LEMMA TurnOfServer ==
  ASSUME UNCHANGED clntVars
  PROVE  /\ \A d : ~OfTransfer(d) /\ DatagramOK(d) => DatagramOK(d)'
         /\ \A c \in Clients :
              /\ ClientOK(c)
              /\ printed[c] = <<>> \/ UNCHANGED <<pos, sCount, sSize>>
              /\ cpc[c] = "start" => \A d \in net' : d.c # c
              => ClientOK(c)'
<1>1. UNCHANGED <<cpc, printed, cCount, cSize>>
  BY DEF clntVars
<1>2. \A d : ~OfTransfer(d) /\ DatagramOK(d) => DatagramOK(d)'
  BY <1>1 DEF DatagramOK, OfTransfer
<1>3. ASSUME NEW c \in Clients, ClientOK(c),
             printed[c] = <<>> \/ UNCHANGED <<pos, sCount, sSize>>,
             cpc[c] = "start" => \A d \in net' : d.c # c
      PROVE  ClientOK(c)'
  BY <1>1, <1>3 DEF ClientOK, HasBlocks, WholeFileRead
<1> QED
  BY <1>2, <1>3

\* Without duplicates every step keeps the turns.
LEMMA FetchTurnStep ==
  ASSUME IInv, [FileNext]_fileVars, dups = 0, dups' = 0
  PROVE  TurnInv'
<1>1. /\ FileTypeOK /\ TurnInv
      /\ \A d \in net : d.c \in Clients /\ cpc[d.c] # "start" /\ DatagramOK(d)
      /\ \A d, e \in net : d.c = e.c => d = e
  BY TurnFacts
<1>2. \A d, e \in net : OfTransfer(d) /\ OfTransfer(e) => d = e
  BY TurnFacts
<1>3. ASSUME NEW d \in net, OfTransfer(d), NEW c \in Clients, c # d.c
      PROVE  printed[c] = <<>>
  BY <1>3, TurnFacts
<1>4. \A c \in Clients : ClientOK(c)
  BY <1>1 DEF TurnInv
<1>5. CASE Lose
  BY <1>1, <1>5, TurnKeptByLoss DEF Lose
<1>6. ASSUME NEW d \in net, ServeName(d)
      PROVE  TurnInv'
  <2>0. PICK a : a = Telling(d.c, "NAME_RES", exists, Nothing)
    OBVIOUS
  <2>1. a.c = d.c /\ a.cmd = "NAME_RES" /\ a.found = exists
    BY <2>0 DEF Telling
  <2>2. net' = (net \ {d}) \cup {a}
    BY <1>1, <1>6, <2>0, AnswerNet DEF ServeName
  <2>3. \A e \in net : ~OfTransfer(e)
    BY <1>1, <1>6 DEF IInv, OneInv, Served, ServeName
  <2>4. cpc[d.c] = "name"
    BY <1>1, <1>6, <2>3 DEF OfTransfer, DatagramOK
  <2>5. UNCHANGED clntVars /\ UNCHANGED <<pos, sCount, sSize>> /\ HasRead(0)
    BY <1>1, <1>6 DEF ServeName, TurnInv
  <2>6. \A e, f \in net' : e.c = f.c => e = f
    BY <1>1, <2>1, <2>2, OneEach
  <2>7. DatagramOK(a)'
    BY <1>6, <2>1, <2>4, <2>5 DEF ServeName, DatagramOK, HasRead, clntVars
  <2>8. \A e \in net : DatagramOK(e)'
    <3>1. \A e \in net : DatagramOK(e)
      BY <1>1
    <3> QED
      BY <2>3, <2>5, <3>1, TurnOfServer
  <2>9. \A c \in Clients : ClientOK(c)'
    <3>1. \A c \in Clients : cpc[c] = "start" => \A e \in net' : e.c # c
      BY <1>1, <2>1, <2>2
    <3> QED
      BY <1>4, <2>5, <3>1, TurnOfServer
  <2>10. (spc = "name" => HasRead(0))'
    BY <1>6 DEF ServeName
  <2> QED
    BY <2>2, <2>6, <2>7, <2>8, <2>9, <2>10 DEF TurnInv
<1>7. ASSUME NEW d \in net, ServeBlock(d)
      PROVE  TurnInv'
  <2> DEFINE more == BytesOf(NextBlock) = BUF_SIZE
  <2>0. PICK a : a = IF more THEN Telling(d.c, "FILE_SEND", TRUE, NextBlock)
                             ELSE Telling(d.c, "FILE_END", TRUE, NextBlock)
    OBVIOUS
  <2>1. /\ a.c = d.c /\ a.blk = NextBlock
        /\ a.cmd = IF more THEN "FILE_SEND" ELSE "FILE_END"
    BY <2>0 DEF Telling
  <2>2. net' = (net \ {d}) \cup {a}
    BY <1>1, <1>7, <2>0, AnswerNet DEF ServeBlock
  <2>3. UNCHANGED clntVars /\ UNCHANGED <<cpc, printed, cCount, cSize>>
    BY <1>7 DEF ServeBlock, clntVars
  <2>4. OfTransfer(d) /\ cpc[d.c] = "block"
    BY <1>1, <1>7 DEF ServeBlock, OfTransfer, DatagramOK
  <2>5. PICK b \in 0 .. Blocks : HasBlocks(d.c, b) /\ HasRead(b)
    BY <1>1, <1>7 DEF ServeBlock, DatagramOK
  <2>6. /\ NextBlock = b + 1 /\ pos' = b + 1 /\ sCount' = b + 1
        /\ sSize' = FullBytes(b) + BytesOf(b + 1)
        /\ spc' = IF more THEN "request" ELSE "ack"
    BY <1>7, <2>5, BlockNumbers DEF ServeBlock, HasRead, NextBlock
  <2>7. more <=> b < Blocks
    BY <2>5, <2>6, BlockSizes, BlockNumbers
  <2>8. \A e, f \in net' : e.c = f.c => e = f
    BY <1>1, <2>1, <2>2, OneEach
  <2>9. DatagramOK(a)'
    <3>1. CASE more
      <4>1. b + 1 \in 1 .. Blocks /\ HasRead(b + 1)'
        <5>1. b + 1 \in 1 .. Blocks
          BY <2>5, <2>7, <3>1, BlockNumbers
        <5>2. sSize' = FullBytes(b + 1)
          BY <2>6, <3>1, BytesAddUp
        <5> QED
          BY <2>6, <5>1, <5>2 DEF HasRead
      <4>2. HasBlocks(d.c, b)'
        BY <2>3, <2>5 DEF HasBlocks
      <4>3. a.blk = b + 1 /\ a.blk - 1 = b
        BY <2>1, <2>6
      <4>4. /\ a.blk \in 1 .. Blocks /\ HasBlocks(a.c, a.blk - 1)'
            /\ HasRead(a.blk)'
        BY <2>1, <4>1, <4>2, <4>3
      <4> QED
        BY <2>1, <2>3, <2>4, <2>6, <3>1, <4>4 DEF DatagramOK
    <3>2. CASE ~more
      <4>1. b = Blocks /\ b + 1 = LastBlock
        BY <2>5, <2>7, <3>2, BlockNumbers
      <4>2. WholeFileRead'
        BY <2>6, <4>1, BlockSizes DEF WholeFileRead
      <4>3. HasBlocks(d.c, Blocks)'
        BY <2>3, <2>5, <4>1 DEF HasBlocks
      <4> QED
        BY <2>1, <2>3, <2>4, <2>6, <3>2, <4>1, <4>2, <4>3 DEF DatagramOK
    <3> QED
      BY <3>1, <3>2
  <2>10. \A e \in net \ {d} : DatagramOK(e)'
    BY <1>1, <1>2, <2>3, <2>4, TurnOfServer
  <2>11. ASSUME NEW c \in Clients
         PROVE  ClientOK(c)'
    <3>1. cpc[c] = "start" => \A e \in net' : e.c # c
      BY <1>1, <2>1, <2>2
    <3>2. CASE c # d.c
      BY <1>3, <1>4, <2>3, <2>4, <3>1, <3>2, TurnOfServer
    <3>3. CASE c = d.c
      BY <2>3, <2>4, <2>5, <3>3 DEF ClientOK, HasBlocks
    <3> QED
      BY <3>2, <3>3
  <2>12. (spc = "name" => HasRead(0))'
    BY <2>6
  <2> QED
    BY <2>2, <2>8, <2>9, <2>10, <2>11, <2>12 DEF TurnInv
<1>8. ASSUME NEW d \in net, ServeOther(d)
      PROVE  TurnInv'
  <2>1. net' \subseteq net
    BY <1>1, <1>8, AnswerNet DEF ServeOther
  <2> QED
    BY <1>1, <1>8, <2>1, TurnKeptByLoss DEF ServeOther
<1>9. ASSUME NEW d \in net, ServeAck(d)
      PROVE  TurnInv'
  <2>1. net' \subseteq net
    BY <1>1, <1>9, AnswerNet DEF ServeAck
  <2>2. /\ UNCHANGED clntVars /\ UNCHANGED <<cpc, printed, cCount, cSize>>
        /\ UNCHANGED <<pos, sCount, sSize>> /\ spc = "ack" /\ spc' # "name"
    BY <1>9 DEF ServeAck, clntVars
  <2>3. \A e \in net : DatagramOK(e)'
    BY <1>1, <2>2 DEF DatagramOK, HasBlocks, WholeFileRead
  <2>4. \A c \in Clients : ClientOK(c)'
    <3>1. \A c \in Clients : cpc[c] = "start" => \A e \in net' : e.c # c
      BY <1>1, <2>1
    <3> QED
      BY <1>4, <2>2, <3>1, TurnOfServer
  <2> QED
    BY <1>1, <2>1, <2>2, <2>3, <2>4 DEF TurnInv
<1>10. CASE UNCHANGED fileVars
  BY <1>1, <1>10, TurnKeptByLoss DEF fileVars
<1>11. ASSUME NEW c \in Clients, Start(c)
       PROVE  TurnInv'
  <2>0. PICK a : a = Asking(c, "NAME_REQ")
    OBVIOUS
  <2>1. a.c = c /\ a.cmd = "NAME_REQ"
    BY <2>0 DEF Asking
  <2>2. net' = net \cup {a} /\ cpc' = [cpc EXCEPT ![c] = "name"]
    BY <1>11, <2>0 DEF Start
  <2>3. /\ UNCHANGED srvVars /\ UNCHANGED <<spc, pos, sCount, sSize>>
        /\ UNCHANGED <<printed, cCount, cSize>>
    BY <1>11 DEF Start, srvVars
  <2>4. cpc[c] = "start" /\ cpc'[c] = "name" /\ \A e \in net : e.c # c
    BY <1>1, <1>11, <2>2 DEF Start, FileTypeOK
  <2>5. \A e, f \in net' : e.c = f.c => e = f
    BY <1>1, <2>1, <2>2, <2>4
  <2>6. DatagramOK(a)'
    BY <2>1, <2>4 DEF DatagramOK
  <2>7. ASSUME NEW e \in net
        PROVE  DatagramOK(e)'
    <3>1. DatagramOK(e) /\ cpc'[e.c] = cpc[e.c]
      BY <1>1, <2>2, <2>4 DEF FileTypeOK
    <3> QED
      BY <2>3, <3>1 DEF DatagramOK, HasBlocks, HasRead, WholeFileRead
  <2>8. ASSUME NEW e \in Clients
        PROVE  ClientOK(e)'
    <3>1. CASE e = c
      <4>1. HasBlocks(c, 0)'
        BY <1>4, <2>3, <2>4 DEF ClientOK, HasBlocks
      <4> QED
        BY <2>4, <3>1, <4>1 DEF ClientOK
    <3>2. CASE e # c
      <4>1. ClientOK(e) /\ cpc'[e] = cpc[e]
        BY <1>1, <1>4, <2>2, <3>2 DEF FileTypeOK
      <4>2. cpc[e] = "start" => \A d \in net' : d.c # e
        BY <2>1, <2>2, <3>2, <4>1 DEF ClientOK
      <4> QED
        BY <2>3, <4>1, <4>2 DEF ClientOK, HasBlocks, WholeFileRead
    <3> QED
      BY <3>1, <3>2
  <2> QED
    BY <1>1, <2>2, <2>3, <2>5, <2>6, <2>7, <2>8 DEF TurnInv, HasRead
<1>12. ASSUME NEW c \in Clients, NEW d \in net, GetName(c, d)
       PROVE  TurnInv'
  <2> DEFINE go == d.cmd = "NAME_RES" /\ d.found
  <2>1. /\ UNCHANGED srvVars /\ UNCHANGED <<spc, pos, sCount, sSize>>
        /\ UNCHANGED <<printed, cCount, cSize>>
        /\ cpc' = [cpc EXCEPT ![c] = IF go THEN "block" ELSE "end"]
        /\ d.c = c /\ cpc[c] = "name"
    BY <1>12 DEF GetName, srvVars
  <2>2. HasBlocks(c, 0) /\ printed[c] = <<>>
    <3>1. HasBlocks(c, 0)
      BY <1>4, <2>1 DEF ClientOK
    <3>2. FileUpTo(0) = <<>>
      BY DEF FileUpTo
    <3> QED
      BY <3>1, <3>2 DEF HasBlocks
  <2>3. \A e \in Clients : cpc'[e] = IF e # c THEN cpc[e]
                                     ELSE IF go THEN "block" ELSE "end"
    BY <1>1, <2>1 DEF FileTypeOK
  <2>4. \A e \in net \ {d} : e.c # c /\ DatagramOK(e)'
    <3>1. ASSUME NEW e \in net \ {d}
          PROVE  e.c # c /\ DatagramOK(e) /\ cpc'[e.c] = cpc[e.c]
      BY <1>1, <2>1, <2>3
    <3> QED
      BY <2>1, <3>1 DEF DatagramOK, HasBlocks, HasRead, WholeFileRead
  <2>5. ASSUME net' \subseteq net \cup {a \in net' : a.c = c}, NEW e \in Clients
        PROVE  ClientOK(e)'
    <3>1. CASE e = c
      <4>1. HasBlocks(c, 0)' /\ printed'[c] = <<>> /\ 0 \in 0 .. Blocks
        BY <2>1, <2>2, BlockNumbers DEF HasBlocks
      <4> QED
        BY <2>3, <3>1, <4>1 DEF ClientOK
    <3>2. CASE e # c
      <4>1. ClientOK(e) /\ cpc'[e] = cpc[e]
        BY <1>4, <2>3, <3>2
      <4>2. cpc[e] = "start" => \A f \in net' : f.c # e
        BY <2>5, <3>2, <4>1 DEF ClientOK
      <4> QED
        BY <2>1, <4>1, <4>2 DEF ClientOK, HasBlocks, WholeFileRead
    <3> QED
      BY <3>1, <3>2
  <2>6. CASE go
    <3>0. PICK a : a = Asking(c, "FILE_REQ")
      OBVIOUS
    <3>1. a.c = c /\ a.cmd = "FILE_REQ"
      BY <3>0 DEF Asking
    <3>2. net' = (net \ {d}) \cup {a}
      BY <1>1, <1>12, <2>6, <3>0, AnswerNet DEF GetName
    <3>3. spc = "request" /\ HasRead(0)
      BY <1>1, <2>6 DEF DatagramOK
    <3>4. HasBlocks(c, 0)' /\ HasRead(0)' /\ 0 \in 0 .. Blocks
      BY <2>1, <2>2, <3>3, BlockNumbers DEF HasBlocks, HasRead
    <3>5. DatagramOK(a)'
      BY <2>1, <2>3, <2>6, <3>1, <3>3, <3>4 DEF DatagramOK
    <3>6. \A e, f \in net' : e.c = f.c => e = f
      BY <1>1, <2>1, <3>1, <3>2, OneEach
    <3> QED
      BY <1>1, <2>1, <2>4, <2>5, <3>1, <3>2, <3>3, <3>5, <3>6 DEF TurnInv
  <2>7. CASE ~go
    <3>1. net' = net \ {d}
      BY <1>1, <1>12, <2>7, AnswerNet DEF GetName
    <3> QED
      BY <1>1, <2>1, <2>4, <2>5, <3>1 DEF TurnInv, HasRead
  <2> QED
    BY <2>6, <2>7
<1>13. ASSUME NEW c \in Clients, NEW d \in net, GetBlock(c, d) \/ GetEnd(c, d)
       PROVE  TurnInv'
  <2> DEFINE more == d.cmd = "FILE_SEND"
  <2>0. PICK a : a = Asking(c, IF more THEN "FILE_REQ" ELSE "FILE_END_ACK")
    OBVIOUS
  <2>1. a.c = c /\ a.cmd = IF more THEN "FILE_REQ" ELSE "FILE_END_ACK"
    BY <2>0 DEF Asking
  <2>2. net' = (net \ {d}) \cup {a}
    BY <1>1, <1>13, <2>0, AnswerNet DEF GetBlock, GetEnd
  <2>3. /\ UNCHANGED srvVars /\ UNCHANGED <<spc, pos, sCount, sSize>>
        /\ d.c = c /\ cpc[c] = "block" /\ Counted(c, d) /\ PrintBlock(c, d)
        /\ more \/ d.cmd = "FILE_END"
    BY <1>13 DEF GetBlock, GetEnd, srvVars
  <2>4. OfTransfer(d) /\ d.c \in Clients /\ DatagramOK(d)
    BY <1>1, <2>3 DEF OfTransfer
  <2>5. \A e \in Clients : cpc'[e] = IF e # c \/ more THEN cpc[e] ELSE "end"
    BY <1>1, <1>13, <2>3 DEF GetBlock, GetEnd, FileTypeOK
  <2>6. PICK b \in 0 .. Blocks : HasBlocks(c, b) /\ d.blk = b + 1
    BY <2>3, <2>4, BlockNumbers DEF DatagramOK
  <2>7. /\ printed'[c] = FileUpTo(b + 1) /\ cCount'[c] = b + 1
        /\ cSize'[c] = FullBytes(b) + BytesOf(b + 1)
        /\ \A e \in Clients \ {c} :
             printed'[e] = printed[e] /\ cCount'[e] = cCount[e] /\ cSize'[e] = cSize[e]
    <3>1. /\ printed \in [Clients -> Seq(1 .. LastBlock)]
          /\ cCount \in [Clients -> Nat] /\ cSize \in [Clients -> Nat]
      BY <1>1 DEF FileTypeOK
    <3>2. printed[c] = FileUpTo(b) /\ cCount[c] = b /\ cSize[c] = FullBytes(b)
      BY <2>6 DEF HasBlocks
    <3>3. d.blk # Nothing
      BY <2>6, BlockNumbers
    <3>4. Append(FileUpTo(b), b + 1) = FileUpTo(b + 1)
      BY PrefixGrows
    <3> QED
      BY <2>3, <2>6, <3>1, <3>2, <3>3, <3>4 DEF Counted, PrintBlock
  <2>8. \A e \in net \ {d} : e.c # c /\ DatagramOK(e)'
    <3>1. ASSUME NEW e \in net \ {d}
          PROVE  /\ e.c # c /\ DatagramOK(e) /\ cpc'[e.c] = cpc[e.c]
                 /\ printed'[e.c] = printed[e.c] /\ cCount'[e.c] = cCount[e.c]
                 /\ cSize'[e.c] = cSize[e.c]
      BY <1>1, <2>3, <2>5, <2>7
    <3> QED
      BY <2>3, <3>1 DEF DatagramOK, HasBlocks, HasRead, WholeFileRead
  <2>9. ASSUME NEW e \in Clients, e # c
        PROVE  ClientOK(e)'
    <3>1. /\ ClientOK(e) /\ cpc'[e] = cpc[e] /\ printed'[e] = printed[e]
          /\ cCount'[e] = cCount[e] /\ cSize'[e] = cSize[e]
      BY <1>4, <2>5, <2>7, <2>9
    <3>2. cpc[e] = "start" => \A f \in net' : f.c # e
      BY <2>1, <2>2, <2>9, <3>1 DEF ClientOK
    <3> QED
      BY <2>3, <3>1, <3>2 DEF ClientOK, HasBlocks, WholeFileRead
  <2>10. \A e, f \in net' : e.c = f.c => e = f
    BY <1>1, <2>1, <2>2, <2>3, OneEach
  <2>11. DatagramOK(a)' /\ ClientOK(c)'
    <3>1. CASE more
      <4>1. b + 1 \in 0 .. Blocks /\ HasRead(b + 1) /\ spc = "request"
        BY <2>4, <2>6, <3>1 DEF DatagramOK
      <4>2. HasBlocks(c, b + 1)'
        <5>1. BytesOf(b + 1) = BUF_SIZE
          BY <2>6, <4>1, BlockSizes
        <5> QED
          BY <2>6, <2>7, <5>1, BytesAddUp DEF HasBlocks
      <4>3. HasRead(b + 1)' /\ spc' = "request" /\ cpc'[c] = "block"
        BY <2>3, <2>4, <2>5, <3>1, <4>1 DEF HasRead
      <4> QED
        BY <2>1, <3>1, <4>1, <4>2, <4>3 DEF DatagramOK, ClientOK
    <3>2. CASE ~more
      <4>1. d.blk = LastBlock /\ b = Blocks /\ WholeFileRead
        BY <2>3, <2>4, <2>6, <3>2, BlockNumbers DEF DatagramOK
      <4>2. printed'[c] = FileUpTo(LastBlock) /\ cCount'[c] = LastBlock
        BY <2>6, <2>7, <4>1
      <4>3. cSize'[c] = sSize
        BY <2>6, <2>7, <4>1, BlockSizes DEF WholeFileRead
      <4>4. WholeFileRead' /\ cpc'[c] = "end" /\ sSize' = sSize
        BY <2>3, <2>4, <2>5, <3>2, <4>1 DEF WholeFileRead
      <4> QED
        BY <2>1, <3>2, <4>2, <4>3, <4>4 DEF DatagramOK, ClientOK
    <3> QED
      BY <3>1, <3>2
  <2>12. (spc = "name" => HasRead(0))'
    BY <1>1, <2>3 DEF TurnInv, HasRead
  <2> QED
    BY <2>2, <2>8, <2>9, <2>10, <2>11, <2>12 DEF TurnInv
<1>14. ASSUME NEW c \in Clients, NEW d \in net, GetOther(c, d)
       PROVE  TurnInv'
  BY <1>1, <1>14 DEF GetOther, DatagramOK
<1> QED
  BY <1>5, <1>6, <1>7, <1>8, <1>9, <1>10, <1>11, <1>12, <1>13, <1>14
     DEF FileNext, Server, Receive

-----------------------------------------------------------------------------
\* The inductive invariant holds in every reachable state: duplicates are never
\* forgotten, so a step into a state without any starts in one.
THEOREM FetchInvariance == FileSpec => []IInv
<1>1. ASSUME IInv, [FileNext]_fileVars
      PROVE  IInv'
  <2>1. FileTypeOK' /\ OneInv'
    BY <1>1, FetchTypeStep, FetchOneStep DEF IInv
  <2>2. dups' = 0 => dups = 0
    <3>1. CASE Lose \/ UNCHANGED fileVars
      BY <3>1 DEF Lose, fileVars
    <3>2. ASSUME NEW c \in Clients, Start(c)
          PROVE  UNCHANGED dups
      BY <3>2 DEF Start
    <3>3. ASSUME NEW d \in net, NEW answers, Answer(d, answers)
          PROVE  dups' = 0 => dups = 0
      BY <1>1, <3>3, AnswerNet DEF IInv
    <3> QED
      BY <1>1, <3>1, <3>2, <3>3
         DEF FileNext, Server, Receive, ServeName, ServeBlock, ServeOther, ServeAck,
             GetName, GetBlock, GetEnd, GetOther
  <2> QED
    BY <1>1, <2>1, <2>2, FetchTurnStep DEF IInv
<1> QED
  BY <1>1, FetchInit, PTL DEF FileSpec

\* The state keeps its types: the read position stays in the file, only
\* well-formed packets are sent, and clients print the file's blocks only.
THEOREM FetchTypes == FileSpec => []FileTypeOK
<1>1. IInv => FileTypeOK
  BY DEF IInv
<1> QED
  BY <1>1, FetchInvariance, PTL

\* Whatever is lost, duplicated or reordered, one client at most gets blocks.
THEOREM FetchOneServed == FileSpec => []OneServed
<1>1. IInv => OneServed
  BY DEF IInv, OneInv, OneServed, Served
<1> QED
  BY <1>1, FetchInvariance, PTL

\* Without duplicates what a client has printed is a prefix of the file,
\* although blocks carry no number.
THEOREM FetchPrefix == FileSpec => []Prefix
<1>1. ASSUME IInv, dups = 0, NEW c \in Clients
      PROVE  printed[c] = FileUpTo(Len(printed[c]))
  <2>1. FileTypeOK /\ ClientOK(c)
    BY <1>1 DEF IInv, TurnInv
  <2>2. PICK b \in Nat : printed[c] = FileUpTo(b)
    <3>1. LastBlock \in Nat /\ 0 \in Nat /\ 0 .. Blocks \subseteq Nat
      BY BlockNumbers
    <3>2. cpc[c] \in {"start", "name", "block", "end"}
      BY <2>1 DEF FileTypeOK
    <3>3. <<>> = FileUpTo(0)
      BY DEF FileUpTo
    <3> QED
      BY <2>1, <3>1, <3>2, <3>3 DEF ClientOK, HasBlocks
  <2> QED
    BY <2>2, PrefixGrows
<1>2. IInv => Prefix
  BY <1>1 DEF Prefix
<1> QED
  BY <1>2, FetchInvariance, PTL

\* Without duplicates a client that got blocks and ended has the whole file,
\* and both sides report the same number of blocks and bytes.
THEOREM FetchTotals == FileSpec => []TotalsAgree
<1>1. ASSUME IInv, dups = 0, NEW c \in Clients, cpc[c] = "end", printed[c] # <<>>
      PROVE  /\ Len(printed[c]) = LastBlock
             /\ cCount[c] = sCount
             /\ cSize[c] = sSize
             /\ sSize = FullBytes(Blocks) + Rest
  <2>1. ClientOK(c)
    BY <1>1 DEF IInv, TurnInv
  <2>2. Len(FileUpTo(LastBlock)) = LastBlock
    BY BlockNumbers, PrefixGrows
  <2> QED
    BY <1>1, <2>1, <2>2 DEF ClientOK, WholeFileRead
<1>2. IInv => TotalsAgree
  BY <1>1 DEF TotalsAgree
<1> QED
  BY <1>2, FetchInvariance, PTL

=============================================================================

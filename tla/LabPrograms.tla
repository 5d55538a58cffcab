---------------------------- MODULE LabPrograms -----------------------------
(***************************************************************************)
(* The smaller programs of the repository: which of them runs is chosen    *)
(* once, and it runs alone, for they share nothing.                        *)
(***************************************************************************)
EXTENDS FilePush, TicTacToe, SeqTransfer, Calculator, ForkServer, SelectRelay,
        AddrConvert, FileFetch

VARIABLE program

labVars == <<program, pushVars, gameVars, seqVars, calcVars, forkVars, relayVars, convVars,
             fileVars>>

Push  == program = "lab4-1"
Game  == program = "lab4-2"
SeqNo == program = "lab4"
Calc  == program = "chapter5"
Forks == program \in {"chapter10", "chapter11"}
Relay == program \in {"chapter12", "lab6"}
Conv  == program = "lab2"
Fetch == program = "Midterm"

Init ==
  /\ program \in {"lab4-1", "lab4-2", "lab4", "chapter5", "chapter10", "chapter11",
                  "chapter12", "lab6", "lab2", "Midterm"}
  /\ PushInit
  /\ GameInit
  /\ SeqInit
  /\ CalcInit
  /\ ForkInit(program = "chapter11")
  /\ RelayInit(program = "lab6")
  /\ ConvertInit
  /\ FileInit /\ (exists => Fetch)   \* no choice for those that have no such file

Next ==
  \/ /\ Push /\ PushNext
     /\ UNCHANGED <<program, gameVars, seqVars, calcVars, forkVars, relayVars, convVars, fileVars>>
  \/ /\ Game /\ GameNext
     /\ UNCHANGED <<program, pushVars, seqVars, calcVars, forkVars, relayVars, convVars, fileVars>>
  \/ /\ SeqNo /\ SeqNext
     /\ UNCHANGED <<program, pushVars, gameVars, calcVars, forkVars, relayVars, convVars, fileVars>>
  \/ /\ Calc /\ CalcNext
     /\ UNCHANGED <<program, pushVars, gameVars, seqVars, forkVars, relayVars, convVars, fileVars>>
  \/ /\ Forks /\ ForkNext
     /\ UNCHANGED <<program, pushVars, gameVars, seqVars, calcVars, relayVars, convVars, fileVars>>
  \/ /\ Relay /\ RelayNext
     /\ UNCHANGED <<program, pushVars, gameVars, seqVars, calcVars, forkVars, convVars, fileVars>>
  \/ /\ Conv /\ ConvertNext
     /\ UNCHANGED <<program, pushVars, gameVars, seqVars, calcVars, forkVars, relayVars, fileVars>>
  \/ /\ Fetch /\ FileNext
     /\ UNCHANGED <<program, pushVars, gameVars, seqVars, calcVars, forkVars, relayVars, convVars>>

\* Every program runs on once it is started: servers, children and clients.  The
\* network owes nothing but a RST to who writes to a dead client, and nobody
\* need start, move, type or be killed; but users who are asked for operands
\* give them, and the user of a select client goes on to the next line.
PushFair == /\ WF_pushVars(Push /\ PushServer)
            /\ \A c \in Fetchers :
                 WF_pushVars(Push /\ fetchPc[c] # "start" /\ Fetcher(c))
GameFair == /\ WF_gameVars(Game /\ (Reply \/ CloseGame))
            /\ \A p \in Players : WF_gameVars(Game /\ TakeBoard(p))
SeqFair  == WF_seqVars(SeqNo /\ SendStep) /\ WF_seqVars(SeqNo /\ ReceiveStep)
CalcFair == /\ WF_calcVars(Calc /\ CalcStep)
            /\ \A c \in Askers : WF_calcVars(Calc /\ SendOperands(c))
ForkFair == /\ WF_forkVars(Forks /\ Parent)
            /\ WF_forkVars(Forks /\ StorerReads)
            /\ \A c \in Typists : WF_forkVars(Forks /\ Serve(c)) /\ WF_forkVars(Forks /\ Typist(c))
RelayFair == /\ WF_relayVars(Relay /\ RelayStep)
             /\ \A c \in Guests : WF_relayVars(Relay /\ GuestStep(c))
ConvFair  == /\ WF_convVars(Conv /\ ConvertStep) /\ WF_convVars(Conv /\ TakeAnswer)
             /\ SF_convVars(Conv /\ ResetComes)
FetchFair == /\ WF_fileVars(Fetch /\ Server)
             /\ \A c \in Clients : WF_fileVars(Fetch /\ Receive(c))

FairSpec == /\ Init /\ [][Next]_labVars
            /\ PushFair /\ GameFair /\ SeqFair /\ CalcFair
            /\ ForkFair /\ RelayFair /\ ConvFair /\ FetchFair

\* The types of all of them.
TypeOK == /\ PushTypeOK /\ GameTypeOK /\ SeqTypeOK
          /\ CalcTypeOK /\ ForkTypeOK /\ RelayTypeOK /\ ConvertTypeOK
          /\ FileTypeOK

\* Every dialogue goes on to where the code brings it, as stated for each: a
\* pushed file, a move, a transfer, a calculation, an echo, a relayed
\* block and a conversion.
EveryoneServed == /\ PushEnds /\ MoveAnswered /\ TransferEnds
                  /\ Answered /\ EchoEnds /\ RelayFlows /\ ConvertEnds
=============================================================================

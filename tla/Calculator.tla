----------------------------- MODULE Calculator -----------------------------
(***************************************************************************)
(* chapter5/op_server.c and chapter5/op_client.c: a client sends a count   *)
(* of operands in one byte, the operands and an operator in one write();   *)
(* the server, which serves SERVED clients one after the other, reads      *)
(* them as the stream delivers them.  A client may be killed.              *)
(*                                                                         *)
(* The stream is how many of its bytes the server has not read.  A result  *)
(* says from how many operands and up to which byte it was calculated.     *)
(***************************************************************************)
EXTENDS Integers, Sequences

CONSTANTS Askers,    \* the client processes
          OPSZ,      \* bytes of an operand (4 in the code)
          BYTE,      \* the values of a byte (256)
          MaxCount,  \* bound: operands a user gives
          SERVED     \* clients the server serves (5)

ASSUME CalcAssumption == /\ OPSZ \in Nat \ {0}
                         /\ BYTE \in Nat \ {0}
                         /\ MaxCount \in Nat
                         /\ SERVED \in Nat

NoAsker  == "none"
NoResult == [opnd_cnt |-> 0, recv_len |-> 0]

VARIABLES
  waiting,   \* connections the server has not accepted, in order
  askerPc,   \* a client: "start", "connected", "sent", "answered", "dead"
  given,     \* the operands its user gave
  unread,    \* its bytes that the server has not read
  result,    \* what it was told
  calcPc,    \* the server: "accept", reads the "count", the "operands", "end"
  served,    \* i: connections accepted
  asker,     \* the client being served
  opnd_cnt, recv_len

calcVars == <<waiting, askerPc, given, unread, result, calcPc, served, asker,
              opnd_cnt, recv_len>>

CalcInit ==
  /\ waiting = <<>>
  /\ askerPc = [c \in Askers |-> "start"]
  /\ given = [c \in Askers |-> 0]
  /\ unread = [c \in Askers |-> 0]
  /\ result = [c \in Askers |-> NoResult]
  /\ calcPc = "accept"
  /\ served = 0
  /\ asker = NoAsker
  /\ opnd_cnt = 0
  /\ recv_len = 0

OperandBytes(n) == n * OPSZ + 1

-----------------------------------------------------------------------------
\* A client.

ConnectAsker(c) ==
  /\ askerPc[c] = "start"
  /\ askerPc' = [askerPc EXCEPT ![c] = "connected"]
  /\ waiting' = Append(waiting, c)
  /\ UNCHANGED <<given, unread, result, calcPc, served, asker, opnd_cnt, recv_len>>

SendOperands(c) ==
  /\ askerPc[c] = "connected"
  /\ askerPc' = [askerPc EXCEPT ![c] = "sent"]
  /\ \E n \in 0 .. MaxCount :
       /\ given' = [given EXCEPT ![c] = n]
       /\ unread' = [unread EXCEPT ![c] = OperandBytes(n) + 1]
  /\ UNCHANGED <<waiting, result, calcPc, served, asker, opnd_cnt, recv_len>>

KillAsker(c) ==
  /\ askerPc[c] \in {"connected", "sent"}
  /\ askerPc' = [askerPc EXCEPT ![c] = "dead"]
  /\ UNCHANGED <<waiting, given, unread, result, calcPc, served, asker, opnd_cnt, recv_len>>

-----------------------------------------------------------------------------
\* The server.

AcceptAsker ==
  /\ calcPc = "accept"
  /\ served < SERVED
  /\ waiting # <<>>
  /\ asker' = Head(waiting)
  /\ waiting' = Tail(waiting)
  /\ served' = served + 1
  /\ calcPc' = "count"
  /\ opnd_cnt' = 0
  /\ UNCHANGED <<askerPc, given, unread, result, recv_len>>

StopServing ==
  /\ calcPc = "accept"
  /\ served = SERVED
  /\ calcPc' = "end"
  /\ UNCHANGED <<waiting, askerPc, given, unread, result, served, asker, opnd_cnt, recv_len>>

AtEnd == askerPc[asker] = "dead" /\ unread[asker] = 0
TakeBytes(n) == unread' = [unread EXCEPT ![asker] = @ - n]

\* A bug: the count is not cut to a byte.
CountWhole(c) == given[c]

\* What a user's count is once it is a byte.
CountOf(c) == given[c] % BYTE

\* The first byte; at the end of the stream opnd_cnt stays 0.
ReadCount ==
  /\ calcPc = "count"
  /\ \/ /\ unread[asker] > 0
        /\ opnd_cnt' = CountOf(asker)
        /\ TakeBytes(1)
     \/ /\ AtEnd
        /\ UNCHANGED <<opnd_cnt, unread>>
  /\ recv_len' = 0
  /\ calcPc' = "operands"
  /\ UNCHANGED <<waiting, askerPc, given, result, served, asker>>

\* A bug: one read() brings everything.
EnoughAfterOne == recv_len > 0

Enough == OperandBytes(opnd_cnt) <= recv_len

\* read() returns any part of what is there; once the client is gone and its
\* bytes are read it returns 0, for ever.
ReadOperands ==
  /\ calcPc = "operands"
  /\ ~Enough
  /\ \E n \in 1 .. unread[asker] :
       /\ TakeBytes(n)
       /\ recv_len' = recv_len + n
  /\ UNCHANGED <<waiting, askerPc, given, result, calcPc, served, asker, opnd_cnt>>

\* The operator is taken from the last byte that came.
Calculate ==
  /\ calcPc = "operands"
  /\ Enough
  /\ IF askerPc[asker] = "dead"
       THEN UNCHANGED <<askerPc, result>>
       ELSE /\ result' = [result EXCEPT ![asker] =
                            [opnd_cnt |-> opnd_cnt, recv_len |-> recv_len]]
            /\ askerPc' = [askerPc EXCEPT ![asker] = "answered"]
  /\ calcPc' = "accept"
  /\ UNCHANGED <<waiting, given, unread, served, asker, opnd_cnt, recv_len>>

CalcStep == AcceptAsker \/ StopServing \/ ReadCount \/ ReadOperands \/ Calculate

CalcNext == \/ CalcStep
            \/ \E c \in Askers : ConnectAsker(c) \/ SendOperands(c) \/ KillAsker(c)

-----------------------------------------------------------------------------
CalcTypeOK ==
  /\ waiting \in Seq(Askers)
  /\ askerPc \in [Askers -> {"start", "connected", "sent", "answered", "dead"}]
  /\ given \in [Askers -> 0 .. MaxCount]
  /\ unread \in [Askers -> Nat]
  /\ calcPc \in {"accept", "count", "operands", "end"}
  /\ served \in 0 .. SERVED
  /\ asker \in Askers \cup {NoAsker}
  /\ opnd_cnt \in 0 .. BYTE - 1
  /\ recv_len \in Nat

\* However the stream cuts what a client writes, its result is calculated from
\* all its operands and its operator, if their count fits the one byte it is
\* sent in; a larger count gives a result of a part of them, with whatever byte
\* came last for the operator.
CalculatedFromAll ==
  \A c \in Askers :
    askerPc[c] = "answered" /\ given[c] < BYTE =>
      result[c] = [opnd_cnt |-> given[c], recv_len |-> OperandBytes(given[c])]

\* The client being served left before its operands came: the server reads the
\* end of that stream for ever.
Hung == calcPc = "operands" /\ ~Enough /\ AtEnd

\* A client that has sent its operands is answered if it is one of those the
\* server serves, every user who is asked for operands gives them, and no
\* client before it was killed in the middle of them.
Answered ==
  \A c \in Askers :
    askerPc[c] = "sent" ~> (askerPc[c] # "sent" \/ calcPc = "end" \/ Hung)

CalcSpec == CalcInit /\ [][CalcNext]_calcVars
=============================================================================

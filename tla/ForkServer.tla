----------------------------- MODULE ForkServer -----------------------------
(***************************************************************************)
(* chapter10/echo_mpserv.c and, with a pipe to a process that stores what  *)
(* was echoed, chapter11/echo_storeserv.c: the server forks a child for    *)
(* every connection and reaps children from its SIGCHLD handler.  The      *)
(* client, chapter10/echo_mpclient.c, is two processes on one socket, one  *)
(* writes lines until "q" and shuts that direction down, the other prints  *)
(* what comes back until the end of the stream.                            *)
(*                                                                         *)
(* A line is the unit of streams and pipe; streams are counters, for what  *)
(* goes through a stream keeps its order.                                  *)
(***************************************************************************)
EXTENDS Integers, Sequences, FiniteSets

CONSTANTS Typists,   \* the clients
          MaxLines,  \* bound: lines a user types
          CHUNK,     \* lines that fit a buffer (BUF_SIZE bytes in the code)
          PIPE,      \* lines that fit the pipe
          READS,     \* reads of the storing process (10 in the code)
          MaxProc    \* bound: children the system lets the server have

ASSUME ForkAssumption == /\ IsFiniteSet(Typists)
                         /\ MaxLines \in Nat
                         /\ CHUNK \in Nat \ {0}
                         /\ PIPE \in Nat /\ PIPE >= CHUNK
                         /\ READS \in Nat \ {0}
                         /\ MaxProc \in Nat \ {0}

VARIABLES
  storing,   \* the program is echo_storeserv
  backlog,   \* connections not accepted yet
  child,     \* the child of a connection: "none", "read", "store", "zombie",
             \* "reaped"; or "refused", if there could not be one
  storer,    \* the storing process: "none", "read", "zombie", "reaped"
  sigchld,   \* SIGCHLD is pending
  merged,    \* how often it was pending already when a child ended
  taken,     \* lines of a client that its child has read and echoed
  hand,      \* how many of them it has not written to the pipe
  pipe,      \* the lines in the pipe, each with its client
  stored,    \* the lines the storing process has read
  readsLeft,
  typist,    \* a client: "start", "typing", "shut" after q, "end", "dead"
  typed,     \* lines it has written
  shown      \* lines it has printed

parentVars == <<storing, backlog, sigchld, merged>>
storeVars  == <<storer, pipe, stored, readsLeft>>
typistVars == <<typist, typed, shown>>
forkVars   == <<parentVars, storeVars, typistVars, child, taken, hand>>

\* The storing process is there before the first accept().
ForkInit(withStore) ==
  /\ storing = withStore
  /\ backlog = <<>>
  /\ child = [c \in Typists |-> "none"]
  /\ storer = IF withStore THEN "read" ELSE "none"
  /\ sigchld = FALSE
  /\ merged = 0
  /\ taken = [c \in Typists |-> 0]
  /\ hand = [c \in Typists |-> 0]
  /\ pipe = <<>>
  /\ stored = <<>>
  /\ readsLeft = READS
  /\ typist = [c \in Typists |-> "start"]
  /\ typed = [c \in Typists |-> 0]
  /\ shown = [c \in Typists |-> 0]

-----------------------------------------------------------------------------
\* The server and its children.

Zombies == {c \in Typists : child[c] = "zombie"}
ZombieCount == Cardinality(Zombies) + IF storer = "zombie" THEN 1 ELSE 0
Children == ZombieCount + Cardinality({c \in Typists : child[c] \in {"read", "store"}})
              + IF storer = "read" THEN 1 ELSE 0

\* fork() for the connection accept() returns.
Fork ==
  /\ backlog # <<>>
  /\ Children < MaxProc
  /\ child' = [child EXCEPT ![Head(backlog)] = "read"]
  /\ backlog' = Tail(backlog)
  /\ UNCHANGED <<storing, sigchld, merged, storeVars, typistVars, taken, hand>>

\* fork() fails: the connection is closed.
ForkFails ==
  /\ backlog # <<>>
  /\ Children >= MaxProc
  /\ child' = [child EXCEPT ![Head(backlog)] = "refused"]
  /\ backlog' = Tail(backlog)
  /\ UNCHANGED <<storing, sigchld, merged, storeVars, typistVars, taken, hand>>

\* A child has ended: SIGCHLD is raised, once if it is pending already.
RaiseSigchld ==
  /\ sigchld' = TRUE
  /\ merged' = IF sigchld THEN merged + 1 ELSE merged

\* A bug: the handler reaps nobody.
read_childprocIdle ==
  /\ sigchld
  /\ sigchld' = FALSE
  /\ ZombieCount > 0
  /\ UNCHANGED <<storing, backlog, merged, storeVars, typistVars, child, taken, hand>>

\* One waitpid() reaps one child, whichever has ended.  accept() returns -1,
\* which changes nothing.
read_childproc ==
  /\ sigchld
  /\ sigchld' = FALSE
  /\ \/ /\ \E c \in Zombies : child' = [child EXCEPT ![c] = "reaped"]
        /\ UNCHANGED storer
     \/ /\ storer = "zombie"
        /\ storer' = "reaped"
        /\ UNCHANGED child
  /\ UNCHANGED <<storing, backlog, merged, pipe, stored, readsLeft, typistVars, taken, hand>>

\* The lines number from + 1 to to of client c.
Lines(c, from, to) == [i \in 1 .. to - from |-> [from |-> c, n |-> from + i]]

\* read() and the write() back; what a dead client is sent is lost.
Echo(c) ==
  /\ child[c] = "read"
  /\ \E n \in 1 .. CHUNK :
       /\ taken[c] + n <= typed[c]
       /\ taken' = [taken EXCEPT ![c] = @ + n]
       /\ hand' = [hand EXCEPT ![c] = IF storing THEN n ELSE 0]
  /\ child' = [child EXCEPT ![c] = IF storing THEN "store" ELSE "read"]
  /\ UNCHANGED <<parentVars, storeVars, typistVars>>

\* write() to the pipe waits until there is room for all of it.
Fits(c) == Len(pipe) + hand[c] <= PIPE

\* A bug: the pipe gets what was echoed before again.
HandedTwice(c) == Lines(c, 0, taken[c])

Handed(c) == Lines(c, taken[c] - hand[c], taken[c])

Store(c) ==
  /\ child[c] = "store"
  /\ Fits(c)
  /\ pipe' = pipe \o Handed(c)
  /\ hand' = [hand EXCEPT ![c] = 0]
  /\ child' = [child EXCEPT ![c] = "read"]
  /\ UNCHANGED <<parentVars, storer, stored, readsLeft, typistVars, taken>>

\* read() returns 0.
SeenEnd(c) == typist[c] \in {"shut", "dead"} /\ taken[c] = typed[c]

ChildEnds(c) ==
  /\ child[c] = "read"
  /\ SeenEnd(c)
  /\ child' = [child EXCEPT ![c] = "zombie"]
  /\ RaiseSigchld
  /\ UNCHANGED <<storing, backlog, storeVars, typistVars, taken, hand>>

\* The connection of a killed client is reset, or SIGPIPE ends the child,
\* before it has read everything.
ChildReset(c) ==
  /\ child[c] = "read"
  /\ typist[c] = "dead"
  /\ taken[c] < typed[c]
  /\ child' = [child EXCEPT ![c] = "zombie"]
  /\ RaiseSigchld
  /\ UNCHANGED <<storing, backlog, storeVars, typistVars, taken, hand>>

\* The storing process reads the pipe READS times, and ends with the last.
StorerReads ==
  /\ storer = "read"
  /\ pipe # <<>>
  /\ LET n == IF Len(pipe) < CHUNK THEN Len(pipe) ELSE CHUNK
     IN  /\ stored' = stored \o SubSeq(pipe, 1, n)
         /\ pipe' = SubSeq(pipe, n + 1, Len(pipe))
  /\ readsLeft' = readsLeft - 1
  /\ IF readsLeft = 1
       THEN /\ storer' = "zombie"
            /\ RaiseSigchld
       ELSE UNCHANGED <<storer, sigchld, merged>>
  /\ UNCHANGED <<storing, backlog, typistVars, child, taken, hand>>

-----------------------------------------------------------------------------
\* A client.

ConnectTypist(c) ==
  /\ typist[c] = "start"
  /\ typist' = [typist EXCEPT ![c] = "typing"]
  /\ backlog' = Append(backlog, c)
  /\ UNCHANGED <<storing, sigchld, merged, storeVars, typed, shown, child, taken, hand>>

\* write_routine
TypeLine(c) ==
  /\ typist[c] = "typing"
  /\ typed[c] < MaxLines
  /\ typed' = [typed EXCEPT ![c] = @ + 1]
  /\ UNCHANGED <<parentVars, storeVars, typist, shown, child, taken, hand>>

TypeQuit(c) ==
  /\ typist[c] = "typing"
  /\ typist' = [typist EXCEPT ![c] = "shut"]
  /\ UNCHANGED <<parentVars, storeVars, typed, shown, child, taken, hand>>

\* read_routine
ShowLine(c) ==
  /\ typist[c] \in {"typing", "shut"}
  /\ shown[c] < taken[c]
  /\ shown' = [shown EXCEPT ![c] = @ + 1]
  /\ UNCHANGED <<parentVars, storeVars, typist, typed, child, taken, hand>>

TypistEnds(c) ==
  /\ typist[c] \in {"typing", "shut"}
  /\ shown[c] = taken[c]
  /\ child[c] \in {"zombie", "reaped", "refused"}
  /\ typist' = [typist EXCEPT ![c] = "end"]
  /\ UNCHANGED <<parentVars, storeVars, typed, shown, child, taken, hand>>

KillTypist(c) ==
  /\ typist[c] \in {"typing", "shut"}
  /\ typist' = [typist EXCEPT ![c] = "dead"]
  /\ UNCHANGED <<parentVars, storeVars, typed, shown, child, taken, hand>>

Parent    == Fork \/ ForkFails
Serve(c)  == Echo(c) \/ Store(c) \/ ChildEnds(c)
Typist(c) == ShowLine(c) \/ TypistEnds(c)

ForkNext ==
  \/ Parent \/ read_childproc \/ StorerReads
  \/ \E c \in Typists :
       \/ Serve(c) \/ ChildReset(c) \/ Typist(c)
       \/ ConnectTypist(c) \/ TypeLine(c) \/ TypeQuit(c) \/ KillTypist(c)

-----------------------------------------------------------------------------
ForkTypeOK ==
  /\ storing \in BOOLEAN
  /\ backlog \in Seq(Typists)
  /\ child \in [Typists -> {"none", "read", "store", "zombie", "reaped", "refused"}]
  /\ storer \in {"none", "read", "zombie", "reaped"}
  /\ sigchld \in BOOLEAN
  /\ merged \in Nat
  /\ taken \in [Typists -> 0 .. MaxLines]
  /\ hand \in [Typists -> 0 .. CHUNK]
  /\ pipe \in Seq([from : Typists, n : 1 .. MaxLines])
  /\ Len(pipe) <= PIPE
  /\ stored \in Seq([from : Typists, n : 1 .. MaxLines])
  /\ readsLeft \in 0 .. READS
  /\ typist \in [Typists -> {"start", "typing", "shut", "end", "dead"}]
  /\ typed \in [Typists -> 0 .. MaxLines]
  /\ shown \in [Typists -> 0 .. MaxLines]

\* A zombie stays for ever for each SIGCHLD that found one pending: the handler
\* calls waitpid() once.  No other child is left unreaped, and none that ended
\* is reaped without a signal.  The zombies count against the processes the
\* server may have, and the clients it must refuse.
ZombiesAreMerged == ZombieCount = merged + (IF sigchld THEN 1 ELSE 0)

\* The lines of client c among these are its first k, each once, in their order.
FirstLines(c, lines, k) ==
  /\ \A i \in DOMAIN lines : lines[i].from = c => lines[i].n \in 1 .. k
  /\ \A n \in 1 .. k : \E i \in DOMAIN lines : lines[i] = [from |-> c, n |-> n]
  /\ \A i, j \in DOMAIN lines :
       i < j /\ lines[i].from = c /\ lines[j].from = c => lines[i].n < lines[j].n

\* The lines of a client reach the file in their order, each once, however
\* the children's writes to the pipe interleave: what is stored and in the pipe
\* is what was echoed but for the lines its child has in hand.
StoredInOrder ==
  storing => \A c \in Typists : FirstLines(c, stored \o pipe, taken[c] - hand[c])

\* The storing process is gone and the child waits for ever to write to it,
\* for all processes keep the pipe's other end open.
Clogged(c) == child[c] = "store" /\ ~Fits(c) /\ storer # "read"

\* After q the client gets all its lines back, and the end of the stream,
\* unless it was refused, or its child is stuck at the pipe.
EchoEnds ==
  \A c \in Typists :
    typist[c] = "shut" ~>
      \/ typist[c] = "end" /\ (shown[c] = typed[c] \/ child[c] = "refused")
      \/ typist[c] = "dead"
      \/ Clogged(c)

ForkSpec == (\E withStore \in BOOLEAN : ForkInit(withStore)) /\ [][ForkNext]_forkVars
=============================================================================

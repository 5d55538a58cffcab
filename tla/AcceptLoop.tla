----------------------------- MODULE AcceptLoop -----------------------------
(***************************************************************************)
(* The part that chat_server.c, ott_server.c, bus_server.c and             *)
(* bingo_server.c share, line for line: main accepts a connection, lists   *)
(* its descriptor in clnt_socks under mutx, and creates a handler thread   *)
(* to which it passes a POINTER to its own local clnt_sock.  The thread    *)
(* dereferences the pointer when it is first scheduled, by which time main *)
(* may have accepted the next connection into the same variable.           *)
(*                                                                         *)
(* One handler thread is created per accepted connection, so threads are   *)
(* named by the connection they were created for.  Connections wait in the *)
(* listen backlog from the start; the order of accepts is nondeterministic.*)
(***************************************************************************)
EXTENDS Integers, FiniteSets

CONSTANTS Conn,      \* the connections of one behaviour, and their threads
          NoConn,    \* no connection
          MAX_CLNT   \* length of clnt_socks (256 in the code)

\* Descriptors 0..3 are taken by the standard streams and serv_sock.  No more
\* than MAX_CLNT - 1 connections: the code does not test the bound.
ASSUME ConnAssumption == /\ IsFiniteSet(Conn)
                         /\ NoConn \notin Conn
                         /\ MAX_CLNT \in Nat
                         /\ Cardinality(Conn) < MAX_CLNT

Fds   == 4 .. MAX_CLNT + 3
NoFd  == 0
Slots == 0 .. MAX_CLNT - 1

VARIABLES
  mpc,         \* where main is: "accept", "append" or "create"
  clnt_sock,   \* main's local variable, the one all threads are pointed to
  cur,         \* the connection main is setting up
  clnt_socks,  \* the shared array of descriptors
  clnt_cnt,    \* how many of its slots are in use
  mutx,        \* the thread holding the mutex, or NoConn
  fdtab,       \* the process's descriptor table: descriptor -> connection
  own,         \* history: the descriptor accept returned for a connection
  pc,          \* where each handler thread is
  sock         \* each handler's own copy of clnt_sock

mainVars == <<mpc, clnt_sock, cur, own>>
regVars  == <<clnt_socks, clnt_cnt>>
loopVars == <<mpc, clnt_sock, cur, clnt_socks, clnt_cnt, mutx, fdtab, own,
              pc, sock>>

\* A thread has taken its copy of clnt_sock.
Started(t) == sock[t] # NoFd

\* The connections that main has listed and whose handler is not past its
\* removal block, that is, not at one of the points in past.
Registered(past) ==
  {c \in Conn : /\ own[c] # NoFd
                /\ ~(mpc = "append" /\ cur = c)
                /\ pc[c] \notin past}

\* The descriptors the table lists.
ListedFds == {clnt_socks[i] : i \in 0 .. clnt_cnt - 1}

\* No thread has read another connection's descriptor through the pointer.
ArgsIntact == \A t \in Conn : Started(t) => sock[t] = own[t]

-----------------------------------------------------------------------------
\* clnt_socks[clnt_cnt++] = s
Entered(socks, cnt, s) == [socks EXCEPT ![cnt] = s]

\* The index where the search loop stops: the first slot holding s, or cnt.
SlotOf(socks, cnt, s) ==
  CHOOSE i \in 0 .. cnt : /\ i < cnt => socks[i] = s
                          /\ \A j \in 0 .. i-1 : socks[j] # s

\* A bug for the runs' sake: the shift starts one slot late.
RemovedLate(socks, cnt, s) ==
  LET at == SlotOf(socks, cnt, s)
  IN  [i \in Slots |-> IF at < i /\ i < cnt THEN socks[i + 1] ELSE socks[i]]

\* Every later entry moves down one slot; the loop runs to clnt_cnt, so the
\* slot after the last one is read too.
Removed(socks, cnt, s) ==
  LET at == SlotOf(socks, cnt, s)
  IN  [i \in Slots |-> IF at <= i /\ i < cnt THEN socks[i + 1] ELSE socks[i]]

-----------------------------------------------------------------------------
LoopInit ==
  /\ mpc = "accept"
  /\ clnt_sock = NoFd
  /\ cur = NoConn
  /\ clnt_socks = [i \in Slots |-> NoFd]
  /\ clnt_cnt = 0
  /\ mutx = NoConn
  /\ fdtab = [f \in Fds |-> NoConn]
  /\ own = [c \in Conn |-> NoFd]
  /\ pc = [c \in Conn |-> "none"]
  /\ sock = [c \in Conn |-> NoFd]

\* clnt_sock = accept(...): the kernel returns the lowest free descriptor.
Accept(c) ==
  /\ mpc = "accept"
  /\ own[c] = NoFd
  /\ \E f \in Fds :
       /\ fdtab[f] = NoConn
       /\ \A g \in Fds : fdtab[g] = NoConn => f <= g
       /\ clnt_sock' = f
       /\ own' = [own EXCEPT ![c] = f]
       /\ fdtab' = [fdtab EXCEPT ![f] = c]
  /\ cur' = c
  /\ mpc' = "append"
  /\ UNCHANGED <<clnt_socks, clnt_cnt, mutx, pc, sock>>

\* lock; clnt_socks[clnt_cnt++] = clnt_sock; unlock
Enlist ==
  /\ mpc = "append"
  /\ mutx = NoConn
  /\ clnt_socks' = Entered(clnt_socks, clnt_cnt, clnt_sock)
  /\ clnt_cnt' = clnt_cnt + 1
  /\ mpc' = "create"
  /\ UNCHANGED <<clnt_sock, cur, mutx, fdtab, own, pc, sock>>

\* pthread_create(&t_id, NULL, handle_clnt, &clnt_sock); pthread_detach
Create ==
  /\ mpc = "create"
  /\ pc' = [pc EXCEPT ![cur] = "start"]
  /\ mpc' = "accept"
  /\ UNCHANGED <<clnt_sock, cur, clnt_socks, clnt_cnt, mutx, fdtab, own, sock>>

\* int clnt_sock = *((int*)arg), the handler's first statement
TakeArg(t, next) ==
  /\ pc[t] = "start"
  /\ sock' = [sock EXCEPT ![t] = clnt_sock]
  /\ pc' = [pc EXCEPT ![t] = next]
  /\ UNCHANGED <<mpc, clnt_sock, cur, clnt_socks, clnt_cnt, mutx, fdtab, own>>

\* Bugs: the count is taken down inside the search only, or there as well.
RemoveSelfIfFound(t) ==
  /\ clnt_socks' = Removed(clnt_socks, clnt_cnt, sock[t])
  /\ clnt_cnt' = IF sock[t] \in ListedFds THEN clnt_cnt - 1 ELSE clnt_cnt

RemoveSelfTwice(t) ==
  /\ clnt_socks' = Removed(clnt_socks, clnt_cnt, sock[t])
  /\ clnt_cnt' = IF sock[t] \in ListedFds THEN clnt_cnt - 2 ELSE clnt_cnt - 1

\* The block every handler ends with, run under mutx: drop the entry that holds
\* the thread's clnt_sock, if there is one, and count one client less.
RemoveSelf(t) ==
  /\ clnt_socks' = Removed(clnt_socks, clnt_cnt, sock[t])
  /\ clnt_cnt' = clnt_cnt - 1

Goto(t, label) == pc' = [pc EXCEPT ![t] = label]

-----------------------------------------------------------------------------
\* Invariants of the loop, for handlers with the given labels; past are the
\* labels after the removal block, closed those after close().
LoopTypeOK(labels) ==
  /\ mpc \in {"accept", "append", "create"}
  /\ clnt_sock \in Fds \cup {NoFd}
  /\ cur \in Conn \cup {NoConn}
  /\ clnt_socks \in [Slots -> Fds \cup {NoFd}]
  /\ clnt_cnt \in 0 .. Cardinality(Conn)
  /\ mutx \in Conn \cup {NoConn}
  /\ fdtab \in [Fds -> Conn \cup {NoConn}]
  /\ own \in [Conn -> Fds \cup {NoFd}]
  /\ pc \in [Conn -> labels]
  /\ sock \in [Conn -> Fds \cup {NoFd}]

\* The handler decrements clnt_cnt even when its search found nothing, so the
\* count is exact however the arguments were mixed up.
CountIsExact(past) == clnt_cnt = Cardinality(Registered(past))

\* What main and the handlers rely on between their steps: which variables are
\* set when, and that every slot in use holds a descriptor.
Bookkeeping ==
  /\ mpc # "accept" => /\ cur \in Conn
                       /\ own[cur] # NoFd
                       /\ clnt_sock = own[cur]
                       /\ pc[cur] = "none"
  /\ \A c \in Conn :
       /\ own[c] # NoFd /\ pc[c] = "none" => mpc # "accept" /\ cur = c
       /\ pc[c] # "none" => own[c] # NoFd
       /\ own[c] # NoFd => clnt_sock # NoFd
       /\ Started(c) <=> pc[c] \notin {"none", "start"}
  /\ \A i \in 0 .. clnt_cnt - 1 : clnt_socks[i] \in Fds

\* The table lists the descriptors of the registered connections, each once.
TableIs(past) ==
  /\ ListedFds = {own[c] : c \in Registered(past)}
  /\ \A i, j \in 0 .. clnt_cnt - 1 : clnt_socks[i] = clnt_socks[j] => i = j

\* An accepted descriptor is that connection's until its handler closes it.
FdsKept(closed) ==
  \A c \in Conn : own[c] # NoFd /\ pc[c] \notin closed => fdtab[own[c]] = c

LoopInv(labels, past, closed) ==
  /\ LoopTypeOK(labels)
  /\ CountIsExact(past)
  /\ Bookkeeping
  /\ ArgsIntact => TableIs(past) /\ FdsKept(closed)

=============================================================================

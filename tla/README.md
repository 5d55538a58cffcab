# Models of the network programming class

The repository is the work of one network-programming class: about 95 small C
programs, one directory per chapter or lab.  They share no library.  The parts
with a protocol, with threads or with processes of their own are modelled here in
TLA+, model-checked with TLC and proved with TLAPS: the theorems cover the thread
skeleton that four of the servers share, each of those servers, and every one of the
smaller programs.  What stays with TLC alone is listed at the end of section 6.

## 1. Inventory

### Threaded TCP servers

Four servers have the same skeleton, line for line: `main` accepts into ONE local
variable `clnt_sock`, appends it to the shared array `clnt_socks` under `mutx`,
and creates a detached thread to which it passes `&clnt_sock`.  The thread reads
its argument through the pointer when it first runs.  A thread that ends looks its
descriptor up in the array, shifts the rest down, and decrements `clnt_cnt`.

| program | state it adds | operations | what is hard |
|---|---|---|---|
| `chapter18/chat_server.c`, `chat_clnt.c` | none | read a chunk; broadcast it under `mutx`; on end of stream remove and close | the argument race; closes and client exits during a broadcast; SIGPIPE; descriptor reuse |
| `lab9-1/bus_server.c`, `bus_client.c` | one request packet and one response packet (with the seat map) shared by all threads; two semaphores in each client | inquire, reserve, cancel, quit | unlocked shared packets; the result of `read` is ignored; seats kept under a descriptor; a seat looked at before the lock is taken; numbers used as an index before they are tested |
| `Final/bingo_server.c`, `bingo_client.c` | shared packets with the board, the numbers, one semaphore per client | READY, claim a number, broadcast, END | shared `qpacket` and `spacket.cmd`; unlocked END broadcast over a table that shifts |
| `lab9/ott_server.c`, `ott_client.c` | none shared | send a file in blocks, wait for the acknowledgement, remove | a file of a whole number of blocks gets no end mark; a failed `open` ends the server for all clients; a client that does not look at how much a `read` returned |

`chapter18/mutex.c`, `semaphore.c`, `thread1-4.c` are demonstrations of the thread
calls the servers use.

### Request-response and transfer programs

| program | state | what is hard |
|---|---|---|
| `Midterm/{server,client}` | UDP, file position, one packet reused for both directions | no timeout: a lost datagram stops both, a duplicate skips a block |
| `lab4-1/{server,client}` | UDP, the server pushes all blocks on a timer | loss and reordering are not noticed; a file of whole blocks gets no end mark; any datagram is the acknowledgement |
| `lab4/hw4_*` | TCP, sequence numbers and acknowledgements, one packet on each side | the server goes on with the client's number; the end of the stream leaves the old packet; the client may empty the very file |
| `lab4-2/udptt_*` | UDP, the board travels with each move | loss, duplication, a second client |
| `lab2/hw2_*` | TCP, one packet on each side that goes to and fro | old answers in it; the server serves its own last answer after end of stream |
| `lab6/hw6_*`, `chapter12/echo_selectserv.c`, `echo_client.c` | `select` over a descriptor set; the relay keeps a descriptor for the Sender and one for the Receiver | descriptors closed, given again and kept while the set is scanned; a read that waits for the role; writes that wait for each other |
| `chapter5/op_*` | TCP, how much of the operands has come | short reads, a count cut to a byte, a client that dies in the middle |
| `chapter4`, `6`, `7` | TCP and UDP echo, file | short reads |

### Processes and signals

| program | state | what is hard |
|---|---|---|
| `chapter10/echo_mpserv.c`, `echo_mpclient.c` | a child per connection; the client is two processes on one socket | SIGCHLDs that merge, zombies, a `fork` that fails, half-close |
| `chapter11/echo_storeserv.c` | a pipe from all children to a process that stores ten reads of it | order in the pipe, and a pipe that nobody reads any more |

`remove_zombie.c`, `pipe*.c`, `lab5` (signals), `lab7/hw7.c` (fork and multicast),
`lab8/hw8.c` and `chapter16` (copies of a descriptor and half-close) show one of
these calls each.

### Demonstrations

`chapter1-3`, `8`, `9`, `13-15`, `lab1` and `lab3` each show one library call
and keep no state; they are not modelled.

## 2. Plan

In the order of how much can go wrong and how little a test would see:

1. **Chat** (done): `AcceptLoop` (the shared skeleton), `TcpPeer`, `ChatServer`,
   abstract `ChatRoom`; the proofs in `AcceptLoopProofs` and `ChatServerProofs`.
2. **Bus** (done): `BusServer` on the same skeleton, abstract `SeatBooking`;
   `BusServerProofs`, with the refinement step by step.
3. **Bingo** (done): `BingoServer` on the same skeleton; `BingoServerProofs`.
4. **UDP file fetch** (done): `FileFetch` for Midterm over a network that loses,
   duplicates and reorders; `FileFetchProofs`.
5. **OTT** (done): `OttServer`, on the same skeleton; `OttServerProofs`.
6. **The smaller programs** (done): `FilePush`, `TicTacToe`, `SeqTransfer`,
   `AddrConvert`, `Calculator`, `ForkServer`, `SelectRelay`, and `LabPrograms`, which
   checks them and the file fetch together; `DialogueProofs` and `LabProgramsProofs`.
7. The order of what the select loops relay (done): `RelayOrdered` in `LabProgramsProofs`.  Every
   invariant and action property a run checks is now a theorem as well; liveness stays with TLC.

## 3. Modules

| module | models | notes |
|---|---|---|
| `AcceptLoop` | the skeleton above: `main`'s loop, the table, the removal block, the process's descriptor table | no specification of its own; servers conjoin its actions with theirs |
| `TcpPeer` | what the kernel knows of the other end: open, FIN, RST; when `write` raises SIGPIPE | external, from how the programs use sockets |
| `ChatServer` | `chat_server.c` with `chat_clnt.c` | |
| `ChatRoom` | what the chat promises | abstract |
| `BusServer` | `bus_server.c` with `bus_client.c` | |
| `SeatBooking` | what the bus server promises | abstract |
| `BingoServer` | `bingo_server.c` with `bingo_client.c` | |
| `OttServer` | `ott_server.c` with `ott_client.c` | |
| `FileFetch` | `Midterm/server/udp_server.c` with `Midterm/client/udp_client.c` | the network is a set of datagrams; sender addresses are in them |
| `FilePush` | `lab4-1/server/udp_server.c` with `lab4-1/client/udp_client.c` | a socket queues its datagrams |
| `TicTacToe` | `lab4-2/udptt_server.c` with `udptt_client.c` | |
| `SeqTransfer` | `lab4/hw4_server.c` with `hw4_client.c` | |
| `AddrConvert` | `lab2/hw2_server.c` with `hw2_client.c` | |
| `Calculator` | `chapter5/op_server.c` with `op_client.c` | |
| `ForkServer` | `chapter10/echo_mpserv.c` and `chapter11/echo_storeserv.c` with `echo_mpclient.c` | one model, `storing` tells which server runs |
| `SelectRelay` | `lab6/hw6_server.c` with `hw6_client.c`, `chapter12/echo_selectserv.c` with `echo_client.c` | one model, `relaying` tells which |
| `LabPrograms` | those eight, one of which runs | their sum: `program` is chosen once; fairness is stated here |
| `MCChatServer`, `MCBusServer`, `MCBingoServer` | instances for TLC | |
| `AcceptLoopProofs` | lemmas about the skeleton | its labels are parameters: four servers use them |
| `ChatServerProofs`, `BusServerProofs`, `BingoServerProofs`, `OttServerProofs`, `FileFetchProofs` | theorems about one program each | |
| `DialogueProofs` | theorems about `TicTacToe`, `Calculator`, `AddrConvert`, `SeqTransfer`, `FilePush` | |
| `LabProgramsProofs` | theorems about `ForkServer`, `SelectRelay` and the composition `LabPrograms` | |

### State and code

*Skeleton.*  `mpc`, `clnt_sock`, `cur` are `main`'s position and variables;
`clnt_socks`, `clnt_cnt`, `mutx` the globals; `pc[t]` and `sock[t]` the handler
created for connection `t` and its copy of the argument.  `fdtab` is the kernel's
descriptor table: `accept` takes the LOWEST free descriptor, so a closed one is
reused at once.  `own` records which descriptor each connection got and exists
only for the properties.

*Steps.*  A critical section whose data only the mutex holder touches is one step
(append, removal).  `send_msg` is not: every `write` in it is a step of its own, for
closes, client exits and resets take no lock.  `read` is two steps, the call, which
looks the descriptor up, and the return.  In the bus server every statement that
reads or writes a shared packet is a step, and so is every comparison of the chain on
`qpacket.command` (lines 101-135): a handler may compute the row of one request and the
column of another, test a command that changes meanwhile and meet no branch, or judge a
seat it looked at long ago.  A lock or unlock is taken together with the statement beside
it.  In `bus_client.c` a `sem_post` that only the same process can
see is taken together with the write or read beside it.

*Data.*  A chat message is the sender and a number; a line cut into several reads
is several messages.  The bus's response packet is an array of words, since
the code can write outside the seat map: number 0 hits `seatno`, the number after
the last hits `result`, and one further out, which a user may type or a client that typed
none yet may send with an inquiry (`Garbage`), memory outside the packet.  A read there
gives anything or crashes the server; after a write there (`stray`) it is not followed.
`spacket.command` is left out: nobody reads it.

*Bingo.*  The stream to a client is a sequence of units: a packet is one unit, the table
of descriptors, which is longer, two.  The client reads a packet and a table in turn
by their length, whatever is there, so a stream out of step is modelled as such.  A write blocks
while the client's connection holds `BUFFER` units: flow control.  A packet carries
its command and whether its board is full, which is what the properties tell apart.
`numbers` is the drawn board, `board` the claims; `shown` records which cells were taken
in the packet sent to a client last, and exists only for `BoardShown`.  The scan for a free
cell, which takes no lock, looks at one cell a step.  Loading the slot `clnt_socks[i]` and
writing to it is one step, and so is the search, the shift and the `close` of the removal
block, all under the lock; the unlocked END broadcast runs between them slot by
slot.  A client whose server is gone is not followed further.

*OTT.*  A packet is one unit of the stream, with its command and its block's place and
length; a read of a socket is the call and the return, a read of the film and the
`write` of the block one step, for the film does not change.  `NumOf` is the code's `num`: a type the code
does not know leaves it unset, which is a choice among what the stack may hold, numbers
larger than the buffer excepted.  `Empty` is the zeroed packet, a `FILE_REQ`, which a handler
finds when its first `read` gives nothing.  `open` may fail and ends the process.  The descriptor
of the film is not counted in `fdtab`: in the code it shifts the numbers `accept` returns,
and after an argument race a handler with a stale number may meet a film under it, where
its writes fail.  The client's `read` may stop anywhere in a packet (`ReadPacket`): `off` is how
much of the packet at the head of the stream it has had, `Parsed` what it finds in its own
packet, and `whole` records whether its reads fell in with the packets so far.  The
server's `read` takes a request or an acknowledgement whole, for each goes alone over an
idle connection.

*File fetch.*  One action is one turn of a loop: `recvfrom`, what the code does with
the packet, and the `sendto` that answers it, for in both programs nothing else
happens between them.  The file is the sequence of its blocks; `pos` is the offset of
the descriptor in blocks, so that a read past the end returns `Nothing` for ever.
`spc` and `cpc` say which `recvfrom` a program is blocked in.  The server's answer goes
to the sender of the datagram it received last, as `clnt_adr` is overwritten by every
`recvfrom`.  A datagram that comes when its receiver has ended stays where it is.

*File push.*  A file is its length, a block how many bytes are before it and how many it
carries; `pushSize` and `pushCount` are `size` and `count` of the server.  `fetched` is the
blocks the client has received, whose number is its `count`, and `fetchSize` its `size`.  A socket's queue keeps its order, and the network
removes an entry, doubles one or swaps two neighbours (`Mistreat`).  What the client
prints, and that it prints a block without a terminating zero, is left out.

*Tic-tac-toe.*  A datagram is a board, of cells that are X, O or free; both programs go on from the board that came last,
so the server has no state but where it is.  A user who gives a taken cell is asked again,
so `Move` chooses among the free ones; negative numbers, which the client does not test,
are not given.  `rand` is any free cell.

*Sequence numbers.*  `txPacket` is the server's one packet: the end of the stream leaves it as
it is, which is how `ReadAck` ends the loop after the last block.  The numbers the packet
holds before it is set are a choice (`Unset`).  `sameDir` says that both programs run in one
directory, and then `open` with `O_TRUNC` empties the file that the server reads.

*Address conversion.*  `convPacket` and `askPacket` are the two `dotted`s.  A fresh one may
hold anything: that matters only where it looks like a quit (`ReadAsked`).

*Calculator.*  The stream is the number of unread bytes; every `read` takes any part of it.
A result is what it was calculated from, and `opnd_cnt` is cut to a byte where the client
does it; a count below 0, and what a larger one overwrites behind the client's `opmsg`, are left
out, as the result of a count that does not fit is left open anyway.  `KillAsker` may come before the operands, and then the server's loop never ends.

*Fork servers.*  `child[c]` is the process of a connection, `sigchld` the one pending SIGCHLD
and `merged` counts the signals that found one pending.  The handler interrupts `accept`,
which the loop takes for a failed one.  A line is the unit of streams and pipe; `taken`,
`shown` and `typed` count the lines of a client at the child, on its screen and at its
keyboard.  `write` to the pipe is atomic and waits for room.  All processes keep both
ends of the pipe open, so nobody ever gets SIGPIPE from it.  The writer process of a client
whose connection was refused types on into nothing and is not followed.

*Select loops.*  `reads`, `cpy_reads`, `clnt_sock`, `sender_sock`, `receiver_sock` are the
code's; the scan sees the descriptors of `cpy_reads` in ascending order.  `conn` says whose
connection a descriptor is, `accept` gives the smallest free one.  The two role variables
start with no descriptor in use, which is what an unset variable of `main` holds unless it
happens to be a small number.  A unit is what one `write` of a client carries; a stream holds
`BUFFER` of them.  When the role and the first block are in the stream together, `read`
takes both; the block is lost, but its last bytes may stay in the stream, in its place
(`ReadRole`).
`got` and `next` say what a client has received and sent.

*Client uncertainty.*  Clients type what they like when they like.  A chat client
may quit at any time (FIN, or RST when it leaves data unread); a bus client may
also be killed, and so may a bingo client, which otherwise sends random numbers until it
is told the end.

## 4. Runs

| run | instance | shows |
|---|---|---|
| `ChatRacy` | 3 connections, 2 talk, 1 message each, all interleavings (2.2 million states) | `TypeOK`; `CountExact` whatever the argument race did; `TableExact`, `OneConversation` and `RemoveThenClose` wherever no thread took another's descriptor |
| `ChatSpaced` | 2 connections, 2 messages each, `SpacedFairSpec` (76 thousand) | `ImplementsRoom`; liveness `LeaverReleased`, `EverythingBroadcast` |
| `ChatSendToAll` | 2 connections | the comment "send to all" is violated: a client drops out of the table |
| `BusRacy` | 2 clients, one row of 2 seats, a number never initialised, 1 request and a quit each, deaths (2.7 million) | `TypeOK`; `CountExact` even when one quit is served twice; `InPacket`: no write outside the packet as long as the numbers are seats' or 0 |
| `BusOrderly` | 2 clients, one seat, 2 requests and a quit each, inquiries with a number never initialised (283 thousand) | `TicketsHonoured`, `ImplementsBooking`, `RequestAnswered` |
| `BusCancelOnlyOwn` | the same | a client cancels a seat it never reserved |
| `BusReservedRefused` | 2 clients, one seat, 1 request each, all interleavings | a seat that was granted is granted again |
| `BingoRacy` | 2 clients, 1 cell, 1 request each, deaths (1.9 million states) | `TypeOK`; `EndFull` although commands are set and the board is scanned without the lock; `BoardShown`: between two claims every client that plays has been sent the board as it is |
| `BingoPaced` | 2 clients, 2 cells, any number of requests one at a time, fair (29 thousand) | `InFrame`, `CreditNamed`, `GameEnds` |
| `OttServe` | 2 clients, blocks that leave no rest, a rest, and are longer than the film, packets that a client may read in two parts, quits, fair (925 thousand) | `TypeOK`, `WholeFile`, `ClosedWhenOver`; liveness `Served` |
| `OttFinished` | the same, all interleavings | a client is shown the end of the transmission without the film |
| `LabPrograms` | each of ten programs, 2 clients where it has them, 2 faults, fair (118 thousand) | `PushInOrder`, `TurnsAlternate`, `MarksKept`, `TransferWhole`, `ShownIsAsked`, `CalculatedFromAll`, `ZombiesAreMerged`, `StoredInOrder`; of the file fetch `Prefix` and `TotalsAgree` without duplicates but with losses and a second client, `OneServed` with duplicates too, `Finishes` without faults; of the select servers `RelayInOrder` and `SocketsCurrent` although a client leaves; liveness `EveryoneServed`, the conjunction of what each program brings to its end |

Why the bounds are enough.  The argument race needs two connections; the third
gives a broadcast a bystander and lets a reused descriptor meet a stale entry.  Two
messages show order; one each for two talkers shows interleaving of broadcasts.  One
seat is what two clients contend for; two requests allow reserve and cancel, the
quit frees the descriptor for the other client.  In `BusRacy` the seats are in one
row, so that number 0 falls into the packet (with one column its row is -1 as well), and one request
of each client is enough for a row of one and a column of the other.  A packet of two pieces
is one whose front, with the command, and rest may be read apart.  `MAX_CLNT` is the number of
connections plus one: the array is never indexed further (`TypeCorrect`).  In bingo one
cell is enough for a free and a full board (two for a number that another request
overwrote; that the scan is right for more cells is `BingoEndFull`), and a buffer of two broadcasts lets one client lag behind the
other.  `CHECK_DEADLOCK` is off there because the server really stops when a client
that never got its READY, or was not told the end, waits for a server that waits for
requests, and because the game ends; in the runs of `OttServer` because a film of whole blocks leaves client and
handler waiting for each other.  Users of the film service ask for type 2, for type 3 and
for one that there is not, for which the block size is whatever was left on the stack, that of
type 1 included (`Asked`): the handler keeps the size only, and a client of type 1 would differ
from one that got this size by chance in nothing that `Served` promises, its film being whole blocks.

In `LabPrograms` a pushed file has up to two full blocks and a rest, so it may be empty, short,
whole or not; for the file fetch two blocks tell a skipped block from a swapped one and the empty
end mark is the boundary case (the theorems hold for every length); two faults allow a loss and a swap together.  Three cells are the smallest
odd board on which both sides move.  A count of three in a byte of three values is the
one that does not fit.  Two processes at most let the storing process and one child use up
what the system gives, so a `fork` fails; one read of the storing process and a pipe of two
lines let the pipe clog.  `UNITS <= 2 * BUFFER + 1` is the length up to which the relay flows:
with four units and streams of one, TLC finds server, Sender and Receiver all waiting
in `write`, a deadlock of the code for files that do not fit the buffers.
`CHECK_DEADLOCK` is off there because most of these programs end, and because a
datagram lost (neither side of the file fetch has a timeout), a client that dies with its
operands half sent, a clogged pipe or a silent
client really stop them.  Two clients of a select server are enough for the second to get the
first's descriptor and either role after it has left, or to be left alone in the middle of a
block; for any number of clients, and of clients that leave, the same is proved
(`RelaySockets`, `RelayOrdered`).

Every property is shown to bite by a mutation of the model that a plausible slip
in the code would cause; the mutated operators are in the modules, marked
"A bug".

### Fairness

`Fairness` is weak fairness of `main` and of every handler thread: the kernel runs
every runnable thread.  Clients have none beyond what they run by themselves: in the chat
and at the bus users need not type.  A thread blocked on the mutex is not guaranteed it by weak
fairness alone if others take it for ever; with finitely many messages they do not.
In the file fetch a program blocked in `recvfrom` with a datagram waiting returns from it;
the network owes nothing (`Lose` is not fair, and `Finishes` speaks of runs without
faults).

In `BingoPaced` the clients' threads are fair too: they are programs, not users, and
send numbers in a loop with a `sleep`.  Fairness of `Ask` does not say WHICH number is
drawn, so that the board ever fills is not claimed; `GameEnds` starts from a full board.

In `OttServe` a client that is reading is fair, one at the menu is not.  `Served` exempts what the
code gives no promise for: a server that has ended (an `open` that failed, or SIGPIPE, which
a client that quits at the menu can cause, since the end of its stream is taken for a
request), a film of whole blocks, which is never marked as ended, mixed-up arguments, and a client
one of whose reads stopped in the middle of a packet.

In `LabPrograms` every program that runs is fair: servers, children and clients.  The
network owes nothing but the RST that answers a write to a dead client.  Users need not
start anything, move, or ask for an address; but one who was asked for operands gives them,
and the user of a select client goes on to the next line.  `EveryoneServed` exempts what the code
does not promise: a push of whole blocks, whose end is not told; a datagram mistreated; a
server that ended; a calculator hung by a dead client; a client refused by a failed
`fork`, or whose child is stuck at the pipe; a relay with a client that left.

`Paced` also constrains the environment: clients have connected before the first
request, a request is sent when the one before has been answered (the `sleep` in
`send_msg` makes it so on an idle machine), and no client is killed.
`Spaced` and `Orderly` constrain the environment, not the scheduler: no `accept`
returns between a `pthread_create` and the new thread's first statement; for the
bus also one request at a time, existing seats to reserve and to cancel, and no killed clients.

## 5. Findings

1. **A broadcast misses a client that is there** (`ChatSendToAll`).  The first client's handler
   takes the second descriptor, which `main` has accepted and not yet appended.  The
   second client quits; the handler finds no entry to remove and takes `clnt_cnt` to 0 all
   the same, while the first client is still connected: no slot is in use any more.
2. **A seat is cancelled by another person** (`BusCancelOnlyOwn`): seats are kept
   under the descriptor, not freed on quit, and the descriptor is reused.
3. **A reserved seat is reserved again** (`BusReservedRefused`): two handlers copy the seat
   while it is free, and each judges its copy under the lock.
4. **"File Transmission Finished" without the file** (`OttFinished`): the client's `read` stops
   after the front of the last packet, whose command is there and whose length is not.

The same argument race leaves the first of two clients without a handler, so that it is
never released (`LeaverReleased` holds under `SpacedFairSpec` only), and two overlapping bingo
requests credit a cell to a client that did not name its number (`CreditNamed` holds under
`Paced` only).

## 6. Proofs

`AcceptLoopProofs` proves once, for every set of connections and every server's set of
program points, that each step of the skeleton keeps `LoopInv`: types, the exact
count, what is set when, and, while no argument was mixed up, the exact table and
the descriptors.  The heart is `RemovedExact`: shifting an array without duplicates
drops one entry, keeps the others, and makes no duplicate.  The lemmas take the
handler's labels as parameters, so they serve all four servers.

`ChatServerProofs` adds the chat's own part and proves:

| theorem | statement |
|---|---|
| `Invariance` | `Spec => []IInv` |
| `TypeCorrect` | `Spec => []TypeOK` |
| `CountCorrect` | `Spec => []CountExact` |
| `TableCorrect` | `Spec => []TableExact` |
| `RemoveCloseOrder` | `Spec => RemoveThenClose` |
| `SpacedArgs` | `SpacedSpec => []ArgsIntact` |
| `ChatConversation` | `Spec => []OneConversation` |
| `ChatImplements` | `SpacedSpec => ImplementsRoom` |

`CountExact` alone is inductive only together with `Bookkeeping`: that a handler past
its removal block was listed once, and that the connection `main` is setting up has
no thread yet.  `TableExact` needs in addition that a descriptor is not closed before
its entry is gone (`FdsKept`) and that a handler blocked in `read` reads its own
connection.  `ArgsIntact` never becomes true again once false, which is why the
implications can be carried through a step.

`OneConversation` needs to know where every message is, from the user who typed it to
the connections it was written to.  `OrderInv`: what a client typed is, in this order, what
was broadcast, what its handler has in hand, and what has not been read.  `ToldInv`: what
was written to a connection is a run of the broadcasts; for a connection being served it
ends with the last broadcast, or with the one before while the mutex holder's loop has
still to come to its slot (`Awaits`).  The step that writes is the one that needs
`TableIs`: the slot names one registered connection and no later slot names it again.
With this, each step of a spaced server is one of `ChatRoom` or is hidden:
`SendLock` is the moment a message is said, and the writes that follow move it from what a
member has been promised to what it has been sent.

`FileFetchProofs` proves for any clients, block size, file length and number of faults:

| theorem | statement |
|---|---|
| `FetchInvariance` | `FileSpec => []IInv` |
| `FetchTypes` | `FileSpec => []FileTypeOK` |
| `FetchOneServed` | `FileSpec => []OneServed` |
| `FetchPrefix` | `FileSpec => []Prefix` |
| `FetchTotals` | `FileSpec => []TotalsAgree` |

The inductive invariant has two parts.  `OneInv` needs no assumption about the network:
at most one client was ever told that the file exists, and every datagram but a first
request is its (or says there is no file), so a second client can neither ask for
blocks nor be sent any.  `TurnInv` holds while nothing was duplicated: a client has at
most one datagram on its way, and that datagram says exactly where both sides are
(`DatagramOK`: with a `FILE_REQ` on its way both have `b` blocks, with a `FILE_SEND` of
block `b` the server has read `b` and the client printed `b - 1`).  A loss only removes
a datagram, so it keeps the invariant.  `Prefix` and `TotalsAgree` say nothing of the
positions of the two sides and are not inductive without it.

`BusServerProofs`:

| theorem | statement |
|---|---|
| `BusTypes` | `Spec => []TypeOK` |
| `BusCount` | `Spec => []CountExact` |
| `BusInPacket` | `Spec => []InPacket` |
| `BusArgs` | `OrderlySpec => []ArgsIntact` |
| `BusTickets` | `OrderlySpec => []TicketsHonoured` |
| `BusBooks` | `OrderlySpec => ImplementsBooking` |

`BusTypes` and `BusCount` assume nothing of the numbers: users may type any integers, and an
uninitialised packet may hold any.  `BusInPacket` says for which of them the code stays inside
the response packet.  A handler works out the row of one number and then the column of
a number that may be another request's, and may then write there without a further test but
`seatno > 20` (line 108), which comes after the seat was read and does not see 0, negative
numbers, or that the row was another request's.  `PacketInv` says that as long as every number sent is a
seat's or 0, each row a handler holds and each column it may still add give a word of the
packet; for a number one past the last seat this is false where there are several
seats in a row, since the last row plus one, with another request's column, lies behind the packet.

For a server used as intended `OrderlyInv` adds where each client's request is
(`RequestInv`: at the prompt nowhere, else in exactly one of its stream, its handler, and the
reply), what the one busy handler has worked out of it so far (`WorkInv`: the shared packet is
still its client's, and its copy of the seat still is what the seat map says), and what the
client holds once it has seen the reply under way (`SeatInv`, `Due`).  `TicketsHonoured`
speaks of clients at their prompt only and is not inductive without the other states.
With it `BusBooks` maps every step to a booking step of `SeatBooking` or to a stutter.

`BingoServerProofs`:

| theorem | statement |
|---|---|
| `BingoTypes` | `Spec => []TypeOK` |
| `BingoEndFull` | `Spec => []EndFull` |
| `BingoBoardShown` | `Spec => []BoardShown` |
| `BingoCredit` | `PacedSpec => []CreditNamed` |
| `BingoInFrame` | `PacedSpec => []InFrame` |

`BingoInv` says that END is in the shared command, in a packet, in a client's memory, or
that a handler is about to set it, only when the board is full (`EndInv`); since no cell is
ever given back (`BoardKept`) this survives whatever the other handlers do, and so does
what a scan has seen so far (`ScanInv`).  `BoardShown` is silent while a claim is broadcast, so
`ShownInv` adds whose turn is still to come: a client that has not been shown the board as it is
stands in a slot ahead of a broadcast under way (`Due`), which removals cannot shift past it, for
they need the lock that broadcast holds (`LockInv`).  `PacedInv` is
about the game as long as it lasts: at most one handler is at work and no request waits
meanwhile (`PlayInv`), the number in the shared packet is one its client named, and each
client's stream is whole turns of a packet and a table but for the table of the broadcast
that has come to it (`FrameInv`, counted modulo 3).

`OttServerProofs`:

| theorem | statement |
|---|---|
| `OttTypes` | `Spec => []TypeOK` |
| `OttWhole` | `Spec => []WholeFile` |
| `OttClosed` | `Spec => ClosedWhenOver` |

`StreamInv` ties what the client has, the blocks on their way and the handler's position in
the film together, as long as every handler has its own descriptor: the blocks on their way
follow each other whatever the client reads, and they continue what it has while its reads
fall in with the packets.  The theorem cannot say more, for a client that read a packet in parts may
be shown the end without the film (`OttFinished`).  `OttClosed` holds
without that: `AckInv` follows the one acknowledgement a client sends, which only one of the
handlers that read from a descriptor can get, and says that the descriptor is that client's
until this handler closes it.  `TypeOK` leaves `got` an integer, for a client out of step adds
whatever is in its packet; `WholeFile` says that it counts no more than the film where arguments
are intact and its reads were whole.

`DialogueProofs`:

| theorem | statement | inductive invariant |
|---|---|---|
| `GameTypes`, `GameTurns` | `GameSpec => []GameTypeOK`, `[]TurnsAlternate` | `GameInv`: every board in the queues and at a client whose turn it is has the right lead. That a free cell is left for the client is a lemma on cardinalities (`EvenBoardIsFree`), for the cells are odd in number |
| `GameMarks` | `GameSpec => MarksKept` | `KeptInv`: without doubling, a waiting client has at most one datagram on its way, and that one keeps its marks |
| `CalcTypes`, `CalcWhole` | `CalcSpec => []CalcTypeOK`, `[]CalculatedFromAll` | `CalcInv`: nobody is queued or served twice; what is in the stream and what has been read add up to what the client gave |
| `ConvertTypes`, `ConvertShown` | `ConvertSpec => []ConvertTypeOK`, `[]ShownIsAsked` | `ConvInv`: while the client waits, exactly one of request in the stream, request at the server, answer in the stream |
| `SeqTypes`, `SeqWhole` | `SeqSpec => []SeqTypeOK`, `[]TransferWhole` | `SeqInv`: for each state of the server, where the one packet is, what number it has and how far both files are |
| `PushTypes`, `PushOrdered` | `PushSpec => []PushTypeOK`, `[]PushInOrder` | `PushInv`, one part for each degree of trouble: `LossInv` (order only), `CleanInv` (where each block and the end mark are, if nothing was mistreated), `AckInv` (with one client and no doubling the second datagram is the acknowledgement) |

`LabProgramsProofs`:

| theorem | statement | inductive invariant |
|---|---|---|
| `ForkTypes`, `ForkZombies`, `ForkStored` | `ForkSpec => []ForkTypeOK`, `[]ZombiesAreMerged`, `[]StoredInOrder` | `ForkInv`: who waits for `accept` has no child and waits once (or a child would be counted twice); lines are shown after they are echoed after they are typed, and only a child at the pipe has some in hand |
| `RelayTypes`, `RelaySockets` | `RelaySpec => []RelayTypeOK`, `[]SocketsCurrent` | `SelectInv`: a connection has one descriptor; a role unit is first in its stream and the server is to read it as a role (`UpInv`), else a unit could be relayed that is none; each role variable names a descriptor of its role or such a client has died (`SockInv`) |
| `RelayOrdered` | `RelaySpec => []RelayInOrder` | `RelayInv`, see below |
| `LabTypes`, `LabCorrect` | `FairSpec => []TypeOK` and all of the above properties | `EachAlone`: a step of the sum is, for every program, a step of it or a stutter |

`RelayInOrder` speaks of what clients have got and says nothing of what is still on its way,
so it is not inductive.  `RelayInv` states the order of all that a client is to receive,
`Recv`: what it has got, then what is in its stream, then the unit in the server's hand.
`SendInv` says that the server has taken some number `m` of the units a client sent, that the
rest is in its stream in order, and that nothing after `m` is anywhere else; so the unit read
next is new.  `ReturnInv` says the same of what a Receiver returns, and that what it returns
next comes after all its Sender has got back.  These are enough for the order (`AscendInv`)
whoever leaves or takes over a role.  The hard case is a descriptor given again: a Sender
leaves, its descriptor goes to a client that says it is a Receiver, and `sender_sock` still
names it.  The relay would then copy from Receiver to Receiver; `StaleInv` says why nothing
comes of it: neither of the two has anything to return.  `PairInv` holds as long as there
is one client of each role and nobody has died: the counts of what is sent, under way, owed
and got add up, which leaves no gap.  `EchoInv` is the same for an echo client.

Assumptions, each named in the module that declares the constants and evaluated by TLC:

- `ConnAssumption`: finitely many connections, fewer than `MAX_CLNT`, which the code does
  not test; `NoConn` is none of them.  `SentAssumption`, `BingoAssumption` and the bounds'
  types elsewhere only say that sizes are natural numbers, and not 0 where a size is divided by.
- `FileAssumption` of the file fetch: blocks are not empty and the rest is shorter than a block;
  `PushAssumption`, `SeqAssumption`: blocks are not empty.
- `SeatAssumption`: the bus has rows and seats; nothing about the numbers but that they are integers.
- `GameAssumption`: finitely many cells, odd in number (nine in the code).
- `ForkAssumption`, `RelayAssumption`: finitely many clients; the mark of a free descriptor
  is no client.

Model-checked only: liveness (`EveryoneServed`, `GameEnds`, `RequestAnswered`,
`EverythingBroadcast`, `LeaverReleased`, `Finishes`, `Served`), for TLAPS does not reason about
fairness here.

## 7. Not modelled

The demonstrations of section 1 and the other programs `PROJECT.json` lists with the
reason; argument parsing, addresses, output layout; errors of `socket`, `bind`, `listen` and
`pthread_create`, which the code either exits on before there is any state or
ignores; reads of a packet in parts but where packets follow each other at once (the calculator, which
handles them, and the client of the film, which does not);
`fgets` and `scanf` at the end of the input; in the file fetch a file that changes or
fails to be read during a transfer, and the client's `fclose` of a variable it never set, after its last output.

-------------------------- MODULE AcceptLoopProofs --------------------------
(***************************************************************************)
(* The steps of the accept loop, and the block every handler ends with,    *)
(* keep LoopInv, whatever the handlers do in between.                      *)
(***************************************************************************)
EXTENDS AcceptLoop, FiniteSetTheorems, SequenceTheorems, TLAPS

\* What LoopInv asks of the labels of a server's handlers.
LabelsOK(labels, past, closed) ==
  /\ {"none", "start"} \subseteq labels
  /\ past \subseteq labels
  /\ closed \subseteq past
  /\ "none" \notin past
  /\ "start" \notin past

\* Removing an entry never puts anything but descriptors in the slots in use.
LEMMA RemovedType ==
  ASSUME NEW socks \in [Slots -> Fds \cup {NoFd}], NEW cnt \in Slots, NEW s,
         \A i \in 0 .. cnt - 1 : socks[i] \in Fds
  PROVE  /\ Removed(socks, cnt, s) \in [Slots -> Fds \cup {NoFd}]
         /\ \A i \in 0 .. cnt - 2 : Removed(socks, cnt, s)[i] \in Fds
<1> DEFINE at == SlotOf(socks, cnt, s)
           new == [i \in Slots |->
                     IF at <= i /\ i < cnt THEN socks[i + 1] ELSE socks[i]]
<1>1. MAX_CLNT \in Nat
  BY ConnAssumption
<1>2. Removed(socks, cnt, s) = new
  BY DEF Removed
<1> HIDE DEF at
<1>3. ASSUME NEW i \in Slots PROVE new[i] \in Fds \cup {NoFd}
  <2>1. CASE at <= i /\ i < cnt
    <3>1. i + 1 \in Slots
      BY <1>1, <2>1 DEF Slots
    <3> QED
      BY <2>1, <3>1
  <2>2. CASE ~(at <= i /\ i < cnt)
    BY <2>2
  <2> QED
    BY <2>1, <2>2
<1>4. ASSUME NEW i \in 0 .. cnt - 2 PROVE new[i] \in Fds
  <2>1. i \in Slots /\ i \in 0 .. cnt - 1 /\ i + 1 \in 0 .. cnt - 1
    BY <1>1 DEF Slots
  <2> QED
    BY <2>1
<1> QED
  BY <1>2, <1>3, <1>4

\* Removing an entry of a table without duplicates drops that entry and no
\* other, and leaves no duplicates.
LEMMA RemovedExact ==
  ASSUME NEW socks \in [Slots -> Fds \cup {NoFd}], NEW cnt \in Slots, NEW s,
         \A i, j \in 0 .. cnt - 1 : socks[i] = socks[j] => i = j,
         s \in {socks[i] : i \in 0 .. cnt - 1}
  PROVE  LET new == Removed(socks, cnt, s)
         IN  /\ {new[i] : i \in 0 .. cnt - 2} =
                  {socks[i] : i \in 0 .. cnt - 1} \ {s}
             /\ \A i, j \in 0 .. cnt - 2 : new[i] = new[j] => i = j
<1> DEFINE at == SlotOf(socks, cnt, s)
           new == [i \in Slots |->
                     IF at <= i /\ i < cnt THEN socks[i + 1] ELSE socks[i]]
<1>1. MAX_CLNT \in Nat
  BY ConnAssumption
<1>2. PICK p \in 0 .. cnt - 1 : socks[p] = s
  OBVIOUS
<1>3. \A j \in 0 .. p - 1 : socks[j] # s
  BY <1>1, <1>2 DEF Slots
<1>4. /\ p \in 0 .. cnt
      /\ p < cnt => socks[p] = s
      /\ \A j \in 0 .. p - 1 : socks[j] # s
  BY <1>1, <1>2, <1>3 DEF Slots
<1>5. /\ at \in 0 .. cnt
      /\ at < cnt => socks[at] = s
      /\ \A j \in 0 .. at - 1 : socks[j] # s
  BY <1>4 DEF SlotOf
<1>6. at = p
  <2>1. ~(p < at)
    BY <1>1, <1>2, <1>5 DEF Slots
  <2>2. at < cnt
    BY <1>1, <1>2, <1>5, <2>1 DEF Slots
  <2> QED
    BY <1>1, <1>2, <1>5, <2>2 DEF Slots
<1> HIDE DEF at
<1>7. Removed(socks, cnt, s) = new
  BY DEF Removed, at
<1>8. ASSUME NEW i \in 0 .. cnt - 2
      PROVE  new[i] = IF i < p THEN socks[i] ELSE socks[i + 1]
  BY <1>1, <1>2, <1>6 DEF Slots
<1> HIDE DEF new
<1>9. ASSUME NEW i \in 0 .. cnt - 2, NEW j \in 0 .. cnt - 2, new[i] = new[j]
      PROVE  i = j
  <2> DEFINE old(n) == IF n < p THEN n ELSE n + 1
  <2>1. old(i) \in 0 .. cnt - 1 /\ old(j) \in 0 .. cnt - 1
    BY <1>1, <1>2 DEF Slots
  <2>2. new[i] = socks[old(i)] /\ new[j] = socks[old(j)]
    BY <1>8
  <2>3. old(i) = old(j)
    BY <1>9, <2>1, <2>2
  <2> QED
    BY <1>1, <1>2, <2>3 DEF Slots
<1>10. ASSUME NEW i \in 0 .. cnt - 2
       PROVE  new[i] \in {socks[j] : j \in 0 .. cnt - 1} \ {s}
  BY <1>1, <1>2, <1>8 DEF Slots
<1>11. ASSUME NEW j \in 0 .. cnt - 1, socks[j] # s
       PROVE  \E i \in 0 .. cnt - 2 : new[i] = socks[j]
  <2>1. CASE j < p
    BY <1>1, <1>2, <1>8, <2>1 DEF Slots
  <2>2. CASE j > p
    <3>1. j - 1 \in 0 .. cnt - 2
      BY <1>1, <1>2, <2>2 DEF Slots
    <3>2. new[j - 1] = socks[j]
      BY <1>1, <1>2, <1>8, <2>2, <3>1 DEF Slots
    <3> QED
      BY <3>1, <3>2
  <2>3. j # p
    BY <1>2, <1>11
  <2> QED
    BY <1>1, <1>2, <2>1, <2>2, <2>3 DEF Slots
<1> QED
  BY <1>7, <1>9, <1>10, <1>11

\* The registered connections are finitely many, fewer than there are slots.
LEMMA RegisteredFinite ==
  ASSUME NEW past
  PROVE  /\ IsFiniteSet(Registered(past))
         /\ Cardinality(Registered(past)) \in 0 .. Cardinality(Conn)
         /\ Cardinality(Conn) \in Nat
<1>1. Registered(past) \in SUBSET Conn
  BY DEF Registered
<1> QED
  BY <1>1, ConnAssumption, FS_Subset, FS_CardinalityType

-----------------------------------------------------------------------------
\* clnt_sock = accept(...)
LEMMA AcceptKeeps ==
  ASSUME NEW labels, NEW past, NEW closed, LabelsOK(labels, past, closed),
         LoopInv(labels, past, closed), NEW c \in Conn, Accept(c)
  PROVE  LoopInv(labels, past, closed)'
<1> USE DEF LoopInv, LabelsOK
<1>1. PICK f \in Fds : /\ fdtab[f] = NoConn
                       /\ clnt_sock' = f
                       /\ own' = [own EXCEPT ![c] = f]
                       /\ fdtab' = [fdtab EXCEPT ![f] = c]
  BY DEF Accept
<1>2. f # NoFd
  BY <1>1, ConnAssumption DEF Fds, NoFd
<1>3. LoopTypeOK(labels)'
  BY <1>1 DEF Accept, LoopTypeOK
<1>4. pc[c] = "none" /\ own[c] = NoFd /\ mpc = "accept"
  BY DEF Accept, Bookkeeping
<1>5. Registered(past)' = Registered(past)
  BY <1>1, <1>4 DEF Accept, Registered, LoopTypeOK, Bookkeeping
<1>6. CountIsExact(past)'
  BY <1>5 DEF CountIsExact, Accept
<1>7. Bookkeeping'
  BY <1>1, <1>2, <1>4 DEF Accept, Bookkeeping, LoopTypeOK, Started
<1>8. ASSUME ArgsIntact'
      PROVE  TableIs(past)' /\ FdsKept(closed)'
  <2>1. ArgsIntact
    BY <1>1, <1>4, <1>8 DEF Accept, ArgsIntact, Bookkeeping, LoopTypeOK, Started
  <2>2. \A d \in Registered(past) : own'[d] = own[d]
    BY <1>1, <1>4 DEF Registered, LoopTypeOK
  <2>3. TableIs(past)'
    BY <1>5, <2>1, <2>2 DEF TableIs, ListedFds, Accept
  <2>4. FdsKept(closed)'
    BY <1>1, <1>2, <2>1, ConnAssumption DEF FdsKept, Accept, LoopTypeOK
  <2> QED
    BY <2>3, <2>4
<1> QED
  BY <1>3, <1>6, <1>7, <1>8

\* clnt_socks[clnt_cnt++] = clnt_sock
LEMMA EnlistKeeps ==
  ASSUME NEW labels, NEW past, NEW closed, LabelsOK(labels, past, closed),
         LoopInv(labels, past, closed), Enlist
  PROVE  LoopInv(labels, past, closed)'
<1> USE DEF LoopInv, LabelsOK
<1>1. /\ cur \in Conn /\ own[cur] # NoFd /\ clnt_sock = own[cur]
      /\ pc[cur] = "none" /\ clnt_sock \in Fds
  BY DEF Enlist, Bookkeeping, LoopTypeOK
<1>2. Registered(past)' = Registered(past) \cup {cur}
  BY <1>1 DEF Enlist, Registered
<1>3. cur \notin Registered(past)
  BY DEF Enlist, Registered
<1>4. Cardinality(Registered(past)') = Cardinality(Registered(past)) + 1
  BY <1>2, <1>3, RegisteredFinite, FS_AddElement
<1>5. CountIsExact(past)'
  BY <1>4 DEF CountIsExact, Enlist
<1>6. Registered(past)' \in SUBSET Conn
  BY DEF Registered
<1>7. clnt_cnt' \in 0 .. Cardinality(Conn)
  BY <1>5, <1>6, ConnAssumption, FS_Subset, FS_CardinalityType DEF CountIsExact
<1>8. clnt_cnt \in Slots /\ clnt_cnt' = clnt_cnt + 1 /\ clnt_cnt \in Nat
  BY <1>7, ConnAssumption, FS_CardinalityType DEF LoopTypeOK, Slots, Enlist
<1>9. clnt_socks' = [clnt_socks EXCEPT ![clnt_cnt] = clnt_sock]
  BY DEF Enlist, Entered
<1>10. LoopTypeOK(labels)'
  BY <1>1, <1>7, <1>8, <1>9 DEF LoopTypeOK, Enlist
<1>11. \A i \in 0 .. clnt_cnt - 1 : i \in Slots /\ clnt_socks'[i] = clnt_socks[i]
  BY <1>8, <1>9, ConnAssumption DEF LoopTypeOK, Slots
<1>12. clnt_socks'[clnt_cnt] = clnt_sock
  BY <1>8, <1>9 DEF LoopTypeOK
<1>13. 0 .. clnt_cnt' - 1 = (0 .. clnt_cnt - 1) \cup {clnt_cnt}
  BY <1>8
<1>14. Bookkeeping'
  BY <1>1, <1>11, <1>12, <1>13 DEF Bookkeeping, Enlist, Started
<1>15. ASSUME ArgsIntact'
       PROVE  TableIs(past)' /\ FdsKept(closed)'
  <2>1. ArgsIntact
    BY <1>15 DEF Enlist, ArgsIntact, Started
  <2>2. FdsKept(closed)'
    BY <2>1 DEF FdsKept, Enlist
  <2>3. ListedFds' = ListedFds \cup {own[cur]}
    BY <1>1, <1>11, <1>12, <1>13 DEF ListedFds
  <2>4. {own[c] : c \in Registered(past)}' = {own[c] : c \in Registered(past)} \cup {own[cur]}
    BY <1>2 DEF Enlist
  <2>5. own[cur] \notin ListedFds
    <3>1. cur \in Conn /\ fdtab[own[cur]] = cur
      BY <1>1, <2>1 DEF FdsKept
    <3>2. \A c \in Registered(past) : fdtab[own[c]] = c
      BY <2>1 DEF FdsKept, Registered
    <3> QED
      BY <1>3, <2>1, <3>1, <3>2 DEF TableIs
  <2>6. \A i, j \in 0 .. clnt_cnt' - 1 : clnt_socks'[i] = clnt_socks'[j] => i = j
    BY <1>1, <1>11, <1>12, <1>13, <2>1, <2>5 DEF TableIs, ListedFds
  <2> QED
    BY <2>1, <2>2, <2>3, <2>4, <2>6 DEF TableIs
<1> QED
  BY <1>5, <1>10, <1>14, <1>15

\* pthread_create
LEMMA CreateKeeps ==
  ASSUME NEW labels, NEW past, NEW closed, LabelsOK(labels, past, closed),
         LoopInv(labels, past, closed), Create
  PROVE  LoopInv(labels, past, closed)'
<1> USE DEF LoopInv, LabelsOK
<1>1. /\ cur \in Conn /\ own[cur] # NoFd /\ pc[cur] = "none"
      /\ pc' = [pc EXCEPT ![cur] = "start"]
  BY DEF Create, Bookkeeping
<1>2. LoopTypeOK(labels)'
  BY <1>1 DEF Create, LoopTypeOK
<1>3. Registered(past)' = Registered(past)
  BY <1>1 DEF Create, Registered, LoopTypeOK
<1>4. CountIsExact(past)'
  BY <1>3 DEF CountIsExact, Create
<1>5. Bookkeeping'
  BY <1>1 DEF Create, Bookkeeping, LoopTypeOK, Started
<1>6. ArgsIntact' => ArgsIntact
  BY DEF Create, ArgsIntact, Started
<1>7. TableIs(past) => TableIs(past)'
  BY <1>3 DEF TableIs, ListedFds, Create
<1>8. FdsKept(closed) => FdsKept(closed)'
  BY <1>1 DEF FdsKept, Create, LoopTypeOK
<1> QED
  BY <1>2, <1>4, <1>5, <1>6, <1>7, <1>8

\* int clnt_sock = *((int*)arg)
LEMMA TakeArgKeeps ==
  ASSUME NEW labels, NEW past, NEW closed, LabelsOK(labels, past, closed),
         LoopInv(labels, past, closed), NEW t \in Conn,
         NEW next \in labels \ past, next \notin {"none", "start"},
         TakeArg(t, next)
  PROVE  LoopInv(labels, past, closed)'
<1> USE DEF LoopInv, LabelsOK
<1>1. /\ own[t] # NoFd /\ clnt_sock # NoFd /\ clnt_sock \in Fds
      /\ sock[t] = NoFd /\ pc[t] = "start"
      /\ sock' = [sock EXCEPT ![t] = clnt_sock]
      /\ pc' = [pc EXCEPT ![t] = next]
  BY DEF TakeArg, Bookkeeping, LoopTypeOK, Started
<1>2. LoopTypeOK(labels)'
  BY <1>1 DEF TakeArg, LoopTypeOK
<1>3. Registered(past)' = Registered(past)
  BY <1>1 DEF TakeArg, Registered, LoopTypeOK
<1>4. CountIsExact(past)'
  BY <1>3 DEF CountIsExact, TakeArg
<1>5. Bookkeeping'
  BY <1>1 DEF TakeArg, Bookkeeping, LoopTypeOK, Started
<1>6. ArgsIntact' => ArgsIntact
  BY <1>1 DEF TakeArg, ArgsIntact, Started, LoopTypeOK
<1>7. TableIs(past) => TableIs(past)'
  BY <1>3 DEF TableIs, ListedFds, TakeArg
<1>8. FdsKept(closed) => FdsKept(closed)'
  BY <1>1 DEF FdsKept, TakeArg, LoopTypeOK
<1> QED
  BY <1>2, <1>4, <1>5, <1>6, <1>7, <1>8

-----------------------------------------------------------------------------
\* A step that leaves the loop's variables alone.
LEMMA StutterKeeps ==
  ASSUME NEW labels, NEW past, NEW closed,
         LoopInv(labels, past, closed), UNCHANGED loopVars
  PROVE  LoopInv(labels, past, closed)' /\ (ArgsIntact' <=> ArgsIntact)
<1> USE DEF loopVars
<1>1. Registered(past)' = Registered(past) /\ ListedFds' = ListedFds
  BY DEF Registered, ListedFds
<1>2. LoopTypeOK(labels)' /\ CountIsExact(past)'
  BY <1>1 DEF LoopInv, LoopTypeOK, CountIsExact
<1>3. Bookkeeping'
  BY DEF LoopInv, Bookkeeping, Started
<1>4. ArgsIntact' <=> ArgsIntact
  BY DEF ArgsIntact, Started
<1>5. TableIs(past) => TableIs(past)'
  BY <1>1 DEF TableIs
<1>6. FdsKept(closed) => FdsKept(closed)'
  BY DEF FdsKept
<1> QED
  BY <1>2, <1>3, <1>4, <1>5, <1>6 DEF LoopInv

\* A handler's step that neither takes the argument nor leaves.
LEMMA MoveKeeps ==
  ASSUME NEW labels, NEW past, NEW closed, LabelsOK(labels, past, closed),
         LoopInv(labels, past, closed), NEW t \in Conn,
         pc[t] \notin {"none", "start"},
         NEW next \in labels, next \notin {"none", "start"},
         pc[t] \in past <=> next \in past,
         pc[t] \in closed <=> next \in closed,
         Goto(t, next),
         mutx' \in Conn \cup {NoConn},
         UNCHANGED <<mainVars, regVars, fdtab, sock>>
  PROVE  LoopInv(labels, past, closed)' /\ (ArgsIntact' <=> ArgsIntact)
<1> USE DEF LoopInv, LabelsOK, Goto, mainVars, regVars
<1>1. LoopTypeOK(labels)'
  BY DEF LoopTypeOK
<1>2. Registered(past)' = Registered(past)
  BY DEF Registered, LoopTypeOK
<1>3. CountIsExact(past)'
  BY <1>2 DEF CountIsExact
<1>4. Bookkeeping'
  BY DEF Bookkeeping, LoopTypeOK, Started
<1>5. ArgsIntact' <=> ArgsIntact
  BY DEF ArgsIntact, Started
<1>6. TableIs(past) => TableIs(past)'
  BY <1>2 DEF TableIs, ListedFds
<1>7. FdsKept(closed) => FdsKept(closed)'
  BY DEF FdsKept, LoopTypeOK
<1> QED
  BY <1>1, <1>3, <1>4, <1>5, <1>6, <1>7

\* The removal block, with the descriptor left open or closed under the lock.
LEMMA LeaveKeeps ==
  ASSUME NEW labels, NEW past, NEW closed, LabelsOK(labels, past, closed),
         LoopInv(labels, past, closed), NEW t \in Conn,
         pc[t] \notin {"none", "start"} \cup past,
         NEW next \in past,
         Goto(t, next), RemoveSelf(t),
         IF next \in closed THEN fdtab' = [fdtab EXCEPT ![sock[t]] = NoConn]
                            ELSE UNCHANGED fdtab,
         mutx' \in Conn \cup {NoConn},
         UNCHANGED <<mainVars, sock>>
  PROVE  /\ LoopInv(labels, past, closed)'
         /\ ArgsIntact' <=> ArgsIntact
         /\ ArgsIntact => /\ own[t] \in ListedFds
                          /\ ListedFds' = ListedFds \ {own[t]}
<1> USE DEF LoopInv, LabelsOK, Goto, mainVars
<1>1. own[t] # NoFd /\ sock[t] # NoFd
  BY DEF Bookkeeping, Started
<1>2. t \in Registered(past)
  BY <1>1 DEF Registered, Bookkeeping
<1>3. Registered(past)' = Registered(past) \ {t}
  BY <1>1 DEF Registered, LoopTypeOK
<1>4. Cardinality(Registered(past)') = Cardinality(Registered(past)) - 1
  BY <1>2, <1>3, RegisteredFinite, FS_RemoveElement
<1>5. CountIsExact(past)'
  BY <1>4 DEF CountIsExact, RemoveSelf
<1>6. clnt_cnt' \in 0 .. Cardinality(Conn) /\ clnt_cnt' = clnt_cnt - 1
  <2>1. Cardinality(Registered(past)') \in 0 .. Cardinality(Conn)
    <3>1. Registered(past)' \in SUBSET Conn
      BY DEF Registered
    <3> QED
      BY <3>1, ConnAssumption, FS_Subset, FS_CardinalityType
  <2> QED
    BY <1>5, <2>1 DEF CountIsExact, RemoveSelf
<1>7. clnt_cnt \in Slots
  BY ConnAssumption, FS_CardinalityType DEF LoopTypeOK, Slots
<1>8. /\ clnt_socks' \in [Slots -> Fds \cup {NoFd}]
      /\ \A i \in 0 .. clnt_cnt - 2 : clnt_socks'[i] \in Fds
  BY <1>7, RemovedType DEF RemoveSelf, LoopTypeOK, Bookkeeping
<1>9. 0 .. clnt_cnt' - 1 = 0 .. clnt_cnt - 2
  BY <1>6, <1>7 DEF Slots
<1>10. LoopTypeOK(labels)'
  BY <1>6, <1>8 DEF LoopTypeOK
<1>11. Bookkeeping'
  BY <1>8, <1>9 DEF Bookkeeping, LoopTypeOK, Started
<1>12. ArgsIntact' <=> ArgsIntact
  BY DEF ArgsIntact, Started
<1>13. ASSUME ArgsIntact
       PROVE  /\ TableIs(past)' /\ FdsKept(closed)'
              /\ own[t] \in ListedFds /\ ListedFds' = ListedFds \ {own[t]}
  <2>1. sock[t] = own[t]
    BY <1>1, <1>13 DEF ArgsIntact, Started
  <2>2. own[t] \in ListedFds
    BY <1>2, <1>13 DEF TableIs
  <2>3. clnt_socks' = Removed(clnt_socks, clnt_cnt, own[t])
    BY <2>1 DEF RemoveSelf
  <2>4. own[t] \in {clnt_socks[i] : i \in 0 .. clnt_cnt - 1}
    BY <2>2 DEF ListedFds
  <2>5. \A i, j \in 0 .. clnt_cnt - 1 : clnt_socks[i] = clnt_socks[j] => i = j
    BY <1>13 DEF TableIs
  <2>6. /\ {clnt_socks'[i] : i \in 0 .. clnt_cnt - 2} =
             {clnt_socks[i] : i \in 0 .. clnt_cnt - 1} \ {own[t]}
        /\ \A i, j \in 0 .. clnt_cnt - 2 : clnt_socks'[i] = clnt_socks'[j] => i = j
    <3> DEFINE new == Removed(clnt_socks, clnt_cnt, own[t])
    <3>1. clnt_socks \in [Slots -> Fds \cup {NoFd}]
      BY DEF LoopTypeOK
    <3>2. /\ {new[i] : i \in 0 .. clnt_cnt - 2} =
               {clnt_socks[i] : i \in 0 .. clnt_cnt - 1} \ {own[t]}
          /\ \A i, j \in 0 .. clnt_cnt - 2 : new[i] = new[j] => i = j
      <4> HIDE DEF LoopInv, LabelsOK, Goto, mainVars
      <4> QED
        BY ONLY <1>7, <2>4, <2>5, <3>1, RemovedExact
    <3> QED
      BY <2>3, <3>2
  <2>7. ListedFds' = ListedFds \ {own[t]}
    BY <1>9, <2>6 DEF ListedFds
  <2>8. FdsKept(closed)'
    <3>1. fdtab[own[t]] = t
      BY <1>1, <1>13 DEF FdsKept
    <3>2. ASSUME NEW c \in Conn, own[c] # NoFd, pc'[c] \notin closed
          PROVE  fdtab'[own[c]] = c
      <4>1. fdtab[own[c]] = c
        <5>1. c = t \/ pc'[c] = pc[c]
          BY DEF LoopTypeOK
        <5> QED
          BY <1>13, <3>1, <3>2, <5>1 DEF FdsKept
      <4>2. CASE next \in closed
        <5>1. c # t
          BY <3>2, <4>2 DEF LoopTypeOK
        <5>2. own[c] # own[t] /\ own[c] \in Fds
          BY <3>1, <3>2, <4>1, <5>1 DEF LoopTypeOK
        <5> QED
          BY <2>1, <4>1, <4>2, <5>2 DEF LoopTypeOK
      <4>3. CASE next \notin closed
        BY <4>1, <4>3
      <4> QED
        BY <4>2, <4>3
    <3> QED
      BY <3>2 DEF FdsKept
  <2>9. \A c \in Registered(past) : own[c] = own[t] => c = t
    BY <1>2, <1>13 DEF FdsKept, Registered
  <2>10. {own[c] : c \in Registered(past)}' = {own[c] : c \in Registered(past)} \ {own[t]}
    BY <1>3, <2>9
  <2>11. TableIs(past)'
    BY <1>9, <1>13, <2>6, <2>7, <2>10 DEF TableIs
  <2> QED
    BY <2>2, <2>7, <2>8, <2>11
<1> QED
  BY <1>5, <1>10, <1>11, <1>12, <1>13

\* close(clnt_sock), after the removal block.
LEMMA CloseKeeps ==
  ASSUME NEW labels, NEW past, NEW closed, LabelsOK(labels, past, closed),
         LoopInv(labels, past, closed), NEW t \in Conn,
         pc[t] \in past \ closed,
         NEW next \in closed,
         Goto(t, next),
         fdtab' = [fdtab EXCEPT ![sock[t]] = NoConn],
         UNCHANGED <<mainVars, regVars, mutx, sock>>
  PROVE  LoopInv(labels, past, closed)' /\ (ArgsIntact' <=> ArgsIntact)
<1> USE DEF LoopInv, LabelsOK, Goto, mainVars, regVars
<1>1. own[t] # NoFd /\ sock[t] # NoFd
  BY DEF Bookkeeping, Started
<1>2. LoopTypeOK(labels)'
  BY DEF LoopTypeOK
<1>3. Registered(past)' = Registered(past)
  BY DEF Registered, LoopTypeOK
<1>4. CountIsExact(past)'
  BY <1>3 DEF CountIsExact
<1>5. Bookkeeping'
  BY DEF Bookkeeping, LoopTypeOK, Started
<1>6. ArgsIntact' <=> ArgsIntact
  BY DEF ArgsIntact, Started
<1>7. TableIs(past) => TableIs(past)'
  BY <1>3 DEF TableIs, ListedFds
<1>8. ASSUME ArgsIntact
      PROVE  FdsKept(closed)'
  <2>1. sock[t] = own[t] /\ fdtab[own[t]] = t
    BY <1>1, <1>8 DEF ArgsIntact, FdsKept, Started
  <2>2. ASSUME NEW c \in Conn, own[c] # NoFd, pc'[c] \notin closed
        PROVE  fdtab'[own[c]] = c
    <3>1. c # t /\ pc'[c] = pc[c]
      BY <2>2 DEF LoopTypeOK
    <3>2. fdtab[own[c]] = c
      BY <1>8, <2>2, <3>1 DEF FdsKept
    <3>3. own[c] # own[t] /\ own[c] \in Fds
      BY <2>1, <2>2, <3>1, <3>2 DEF LoopTypeOK
    <3> QED
      BY <2>1, <3>2, <3>3 DEF LoopTypeOK
  <2> QED
    BY <2>2 DEF FdsKept
<1> QED
  BY <1>2, <1>4, <1>5, <1>6, <1>7, <1>8

-----------------------------------------------------------------------------
\* Between a thread's creation and its first statement main's clnt_sock still
\* is that thread's.
ArgWaits == \A t \in Conn : pc[t] = "start" => clnt_sock = own[t]

\* Nobody waits for an argument or has a wrong one at first.
LEMMA ArgsAtFirst ==
  ASSUME LoopInit
  PROVE  ArgWaits /\ ArgsIntact
BY DEF LoopInit, ArgWaits, ArgsIntact, Started

\* A connection that is accepted while no thread waits for its argument.
LEMMA SpacedAccept ==
  ASSUME NEW labels, NEW past, NEW closed, LoopInv(labels, past, closed),
         ArgsIntact, NEW c \in Conn, Accept(c),
         own' # own => \A t \in Conn : pc[t] # "start"
  PROVE  ArgWaits' /\ ArgsIntact'
<1>1. LoopTypeOK(labels) /\ Bookkeeping
  BY DEF LoopInv
<1>2. own' # own
  BY <1>1 DEF Accept, LoopTypeOK, NoFd, Fds
<1>3. ~Started(c) /\ \A d \in Conn : d # c => own'[d] = own[d]
  BY <1>1 DEF Accept, LoopTypeOK, Bookkeeping
<1> QED
  BY <1>2, <1>3 DEF Accept, ArgWaits, ArgsIntact, Started

\* A thread that is created, and one that takes its argument.
LEMMA SpacedStart ==
  ASSUME NEW labels, NEW past, NEW closed, LoopInv(labels, past, closed),
         ArgsIntact, ArgWaits,
         Create \/ \E t \in Conn, next \in labels \ {"start"} : TakeArg(t, next)
  PROVE  ArgWaits' /\ ArgsIntact'
<1>1. LoopTypeOK(labels) /\ Bookkeeping
  BY DEF LoopInv
<1>2. CASE Create
  <2>1. cur \in Conn /\ clnt_sock = own[cur]
    BY <1>1, <1>2 DEF Create, Bookkeeping
  <2> QED
    BY <1>1, <1>2, <2>1 DEF Create, ArgWaits, ArgsIntact, Started, LoopTypeOK
<1>3. ASSUME NEW t \in Conn, NEW next \in labels \ {"start"}, TakeArg(t, next)
      PROVE  ArgWaits' /\ ArgsIntact'
  BY <1>1, <1>3 DEF TakeArg, ArgWaits, ArgsIntact, Started, LoopTypeOK
<1> QED
  BY <1>2, <1>3

\* Any other step.
LEMMA SpacedOther ==
  ASSUME NEW labels, NEW past, NEW closed, LoopInv(labels, past, closed),
         ArgsIntact, ArgWaits, UNCHANGED <<clnt_sock, own, sock>>,
         \/ UNCHANGED pc
         \/ \E t \in Conn, next \in labels \ {"start"} : Goto(t, next)
  PROVE  ArgWaits' /\ ArgsIntact'
<1>1. LoopTypeOK(labels)
  BY DEF LoopInv
<1> QED
  BY <1>1 DEF Goto, ArgWaits, ArgsIntact, Started, LoopTypeOK

-----------------------------------------------------------------------------
\* A queue of packets, or of anything else, without its first.
LEMMA Behind ==
  ASSUME NEW S, NEW q \in Seq(S), q # <<>>
  PROVE  /\ Head(q) = q[1] /\ Head(q) \in S /\ Len(q) \in Nat /\ Len(q) >= 1
         /\ Tail(q) \in Seq(S) /\ Len(Tail(q)) = Len(q) - 1
         /\ Tail(q) = <<>> <=> Len(q) = 1
         /\ \A i \in 1 .. Len(q) - 1 : Tail(q)[i] = q[i + 1]
<1>1. Len(q) \in Nat /\ Len(q) # 0
  BY EmptySeq, LenProperties
<1>2. Head(q) \in S /\ Head(q) = q[1]
  BY HeadTailProperties
<1>3. Tail(q) \in Seq(S) /\ Len(Tail(q)) = Len(q) - 1
  BY HeadTailProperties
<1>4. \A i \in 1 .. Len(q) - 1 : Tail(q)[i] = q[i + 1]
  BY <1>1, HeadTailProperties
<1>5. Tail(q) = <<>> <=> Len(Tail(q)) = 0
  BY <1>3, EmptySeq
<1> QED
  BY <1>1, <1>2, <1>3, <1>4, <1>5

=============================================================================

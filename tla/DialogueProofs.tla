--------------------------- MODULE DialogueProofs ---------------------------
(***************************************************************************)
(* Theorems about the programs that are one dialogue: tic-tac-toe, the     *)
(* calculator, the address conversion, the numbered transfer, the push.    *)
(***************************************************************************)
EXTENDS TicTacToe, SeqTransfer, Calculator, AddrConvert, FilePush,
        FiniteSetTheorems, SequenceTheorems, TLAPS

-----------------------------------------------------------------------------
(***************************************************************************)
(* Queues: whatever all elements of a queue have in common is stated as    *)
(* membership in Seq(S), which the network and the programs keep.          *)
(***************************************************************************)

\* Taking the first element of a queue.
LEMMA Taken ==
  ASSUME NEW S, NEW q \in Seq(S), q # <<>>
  PROVE  Head(q) \in S /\ Tail(q) \in Seq(S)
BY HeadTailProperties

\* An element added in the middle, or removed, leaves a queue of the same kind.
LEMMA Spliced ==
  ASSUME NEW S, NEW q \in Seq(S), NEW i \in DOMAIN q
  PROVE  /\ q[i] \in S
         /\ RemoveAt(q, i) \in Seq(S)
         /\ InsertAt(q, i, q[i]) \in Seq(S)
<1>1. Len(q) \in Nat /\ DOMAIN q = 1 .. Len(q) /\ \A j \in 1 .. Len(q) : q[j] \in S
  BY LenProperties
<1>2. SubSeq(q, 1, i - 1) \in Seq(S) /\ SubSeq(q, i + 1, Len(q)) \in Seq(S)
      /\ SubSeq(q, i, Len(q)) \in Seq(S)
  BY <1>1, SubSeqProperties
<1>3. <<q[i]>> \in Seq(S)
  BY <1>1
<1>4. SubSeq(q, 1, i - 1) \o <<q[i]>> \in Seq(S)
  BY <1>2, <1>3, ConcatProperties
<1> QED
  BY <1>1, <1>2, <1>4, ConcatProperties DEF RemoveAt, InsertAt

\* Two elements that change places do so, too.
LEMMA Swapped ==
  ASSUME NEW S, NEW q \in Seq(S), NEW i \in 1 .. Len(q) - 1
  PROVE  [q EXCEPT ![i] = q[i + 1], ![i + 1] = q[i]] \in Seq(S)
<1>1. Len(q) \in Nat /\ i \in 1 .. Len(q) /\ i + 1 \in 1 .. Len(q)
  BY LenProperties
<1>2. q[i] \in S /\ q[i + 1] \in S
  BY <1>1, ElementOfSeq
<1>3. [q EXCEPT ![i] = q[i + 1]] \in Seq(S) /\ Len([q EXCEPT ![i] = q[i + 1]]) = Len(q)
  BY <1>1, <1>2, ExceptSeq
<1> QED
  BY <1>1, <1>2, <1>3, ExceptSeq

-----------------------------------------------------------------------------
(***************************************************************************)
(* Tic-tac-toe.                                                            *)
(***************************************************************************)

\* What the network does to a queue leaves a queue of the same boards.
LEMMA Disturbed ==
  ASSUME NEW S, NEW q \in Seq(S), NEW fault \in {"loss", "dup", "swap"},
         NEW r \in Disturb(q, fault)
  PROVE  r \in Seq(S)
<1>1. CASE fault = "loss"
  BY <1>1, Spliced DEF Disturb
<1>2. CASE fault = "dup"
  BY <1>2, Spliced DEF Disturb
<1>3. CASE fault = "swap"
  BY <1>3, Swapped DEF Disturb
<1> QED
  BY <1>1, <1>2, <1>3

\* A mark in a free cell changes the lead by one.
LEMMA MarkChangesLead ==
  ASSUME NEW board \in Boards, NEW cell \in With(board, "free")
  PROVE  /\ Lead(board) \in Int
         /\ [board EXCEPT ![cell] = "X"] \in Boards
         /\ [board EXCEPT ![cell] = "O"] \in Boards
         /\ Lead([board EXCEPT ![cell] = "X"]) = Lead(board) + 1
         /\ Lead([board EXCEPT ![cell] = "O"]) = Lead(board) - 1
<1> DEFINE X == With(board, "X")
           O == With(board, "O")
           bX == [board EXCEPT ![cell] = "X"]
           bO == [board EXCEPT ![cell] = "O"]
<1>1. cell \in Cells /\ cell \notin X /\ cell \notin O
  BY DEF With
<1>2. IsFiniteSet(X) /\ IsFiniteSet(O)
  BY GameAssumption, FS_Subset DEF With
<1>3. Cardinality(X) \in Nat /\ Cardinality(O) \in Nat
  BY <1>2, FS_CardinalityType
<1>4. With(bX, "X") = X \cup {cell} /\ With(bX, "O") = O
  BY <1>1 DEF With, Boards
<1>5. With(bO, "O") = O \cup {cell} /\ With(bO, "X") = X
  BY <1>1 DEF With, Boards
<1>6. Cardinality(X \cup {cell}) = Cardinality(X) + 1 /\ Cardinality(O \cup {cell}) = Cardinality(O) + 1
  BY <1>1, <1>2, FS_AddElement
<1>7. bX \in Boards /\ bO \in Boards
  BY <1>1 DEF Boards
<1>8. /\ Lead(board) = Cardinality(X) - Cardinality(O)
      /\ Lead(bX) = Cardinality(X \cup {cell}) - Cardinality(O)
      /\ Lead(bO) = Cardinality(X) - Cardinality(O \cup {cell})
  <2>1. /\ Lead(bX) = Cardinality(With(bX, "X")) - Cardinality(With(bX, "O"))
        /\ Lead(bO) = Cardinality(With(bO, "X")) - Cardinality(With(bO, "O"))
    BY DEF Lead
  <2> QED
    BY <1>4, <1>5, <2>1 DEF Lead
<1> HIDE DEF X, O, bX, bO
<1>9. Lead(board) \in Int /\ Lead(bX) = Lead(board) + 1 /\ Lead(bO) = Lead(board) - 1
  BY <1>3, <1>6, <1>8
<1> QED
  BY <1>7, <1>9 DEF bX, bO

\* A board on which nobody leads has a free cell, for the cells are odd.
LEMMA EvenBoardIsFree ==
  ASSUME NEW board \in Boards, Lead(board) = 0
  PROVE  availble_space(board)
<1> SUFFICES ASSUME With(board, "free") = {} PROVE FALSE
  BY DEF availble_space
<1> DEFINE X == With(board, "X")
           O == With(board, "O")
<1>1. X \cup O = Cells /\ X \cap O = {}
  BY DEF With, Boards
<1>2. IsFiniteSet(X) /\ IsFiniteSet(O)
  BY GameAssumption, FS_Subset DEF With
<1>3. Cardinality(X) - Cardinality(O) = 0
  BY DEF Lead
<1> HIDE DEF X, O
<1>4. Cardinality(Cells) = Cardinality(X) + Cardinality(O) - Cardinality({})
  BY <1>1, <1>2, FS_Union
<1>5. Cardinality(X) \in Nat /\ Cardinality(O) \in Nat /\ Cardinality({}) = 0
  BY <1>2, FS_CardinalityType, FS_EmptySet
<1>6. Cardinality(Cells) = 2 * Cardinality(X)
  BY <1>3, <1>4, <1>5
<1> QED
  BY <1>5, <1>6, GameAssumption

\* The boards on which the players, who begin, lead by n.
Led(n) == {board \in Boards : Lead(board) = n}

\* The inductive invariant of the turns: the queues hold nothing but boards of
\* the right turn, and so do the clients that have to move.
GameInv ==
  /\ toReferee \in Seq([from : Players, board : Led(1)])
  /\ toPlayer \in [Players -> Seq(Led(0))]
  /\ gameFaults \in Seq({"loss", "dup", "swap"})
  /\ refereePc \in {"play", "end"}
  /\ playerPc \in [Players -> {"move", "wait", "over"}]
  /\ gameboard \in [Players -> Boards]
  /\ \A p \in Players : /\ playerPc[p] = "move" => gameboard[p] \in Led(0)
                        /\ playerPc[p] = "over" => ~availble_space(gameboard[p])

\* Nobody has moved at first.
LEMMA GameInitInv == GameInit => GameInv
<1> SUFFICES ASSUME GameInit PROVE GameInv
  OBVIOUS
<1>1. EmptyBoard \in Boards
  BY DEF EmptyBoard, Boards
<1>2. With(EmptyBoard, "X") = {} /\ With(EmptyBoard, "O") = {}
  BY DEF With, EmptyBoard
<1>3. Lead(EmptyBoard) = Cardinality({}) - Cardinality({}) /\ Cardinality({}) = 0
  BY <1>2, FS_EmptySet DEF Lead
<1>4. EmptyBoard \in Led(0)
  BY <1>1, <1>3 DEF Led
<1> QED
  BY <1>1, <1>4, EmptySeq DEF GameInit, GameInv

\* Every step keeps it, also the network's.
LEMMA GameNextInv == GameInv /\ [GameNext]_gameVars => GameInv'
<1> SUFFICES ASSUME GameInv, [GameNext]_gameVars PROVE GameInv'
  OBVIOUS
<1> USE DEF GameInv
<1>1. ASSUME NEW p \in Players, Move(p) PROVE GameInv'
  <2>1. PICK board \in Moves(gameboard[p], "X") :
          /\ gameboard' = [gameboard EXCEPT ![p] = board]
          /\ toReferee' = Append(toReferee, [from |-> p, board |-> board])
          /\ playerPc' = [playerPc EXCEPT ![p] = IF availble_space(board) THEN "wait" ELSE "over"]
    BY <1>1 DEF Move
  <2>2. PICK cell \in With(gameboard[p], "free") : board = [gameboard[p] EXCEPT ![cell] = "X"]
    BY DEF Moves
  <2>3. gameboard[p] \in Boards /\ Lead(gameboard[p]) = 0
    BY <1>1 DEF Move, Led
  <2>4. board \in Boards /\ Lead(board) = 0 + 1
    BY <2>2, <2>3, MarkChangesLead
  <2>5. board \in Led(1)
    BY <2>4 DEF Led
  <2>6. toReferee' \in Seq([from : Players, board : Led(1)])
    BY <2>1, <2>5, AppendProperties
  <2> QED
    BY <1>1, <2>1, <2>4, <2>6 DEF Move
<1>2. ASSUME NEW p \in Players, TakeBoard(p) PROVE GameInv'
  <2>1. Head(toPlayer[p]) \in Led(0) /\ Tail(toPlayer[p]) \in Seq(Led(0))
    BY <1>2, Taken DEF TakeBoard
  <2>2. toPlayer' \in [Players -> Seq(Led(0))]
    BY <1>2, <2>1 DEF TakeBoard
  <2>3. Head(toPlayer[p]) \in Boards
    BY <2>1 DEF Led
  <2> QED
    BY <1>2, <2>1, <2>2, <2>3 DEF TakeBoard
<1>3. CASE Reply
  <2> DEFINE got == Head(toReferee)
  <2>1. /\ got \in [from : Players, board : Led(1)]
        /\ toReferee' \in Seq([from : Players, board : Led(1)])
    BY <1>3, Taken DEF Reply
  <2>2. got.from \in Players /\ got.board \in Boards /\ Lead(got.board) = 1
    BY <2>1 DEF Led
  <2>3. PICK cell \in With(got.board, "free") :
          toPlayer' = [toPlayer EXCEPT ![got.from] =
                         Append(@, [got.board EXCEPT ![cell] = "O"])]
    BY <1>3 DEF Reply, Moves
  <2> HIDE DEF got
  <2>4. [got.board EXCEPT ![cell] = "O"] \in Led(0)
    <3>1. /\ [got.board EXCEPT ![cell] = "O"] \in Boards
          /\ Lead([got.board EXCEPT ![cell] = "O"]) = 1 - 1
      BY <2>2, MarkChangesLead
    <3> QED
      BY <3>1 DEF Led
  <2>5. toPlayer' \in [Players -> Seq(Led(0))]
    BY <2>2, <2>3, <2>4, AppendProperties
  <2> QED
    BY <1>3, <2>1, <2>5 DEF Reply
<1>4. CASE CloseGame
  BY <1>4, Taken DEF CloseGame
<1>5. CASE GameNetwork
  <2>1. PICK fault \in {"loss", "dup", "swap"} :
          /\ gameFaults' = Append(gameFaults, fault)
          /\ \/ /\ toReferee' \in Disturb(toReferee, fault)
                /\ UNCHANGED toPlayer
             \/ /\ \E p \in Players : \E q \in Disturb(toPlayer[p], fault) :
                     toPlayer' = [toPlayer EXCEPT ![p] = q]
                /\ UNCHANGED toReferee
    BY <1>5 DEF GameNetwork
  <2>2. gameFaults' \in Seq({"loss", "dup", "swap"})
    BY <2>1, AppendProperties
  <2>3. CASE toReferee' \in Disturb(toReferee, fault) /\ UNCHANGED toPlayer
    BY <1>5, <2>2, <2>3, Disturbed DEF GameNetwork
  <2>4. ASSUME NEW p \in Players, NEW q \in Disturb(toPlayer[p], fault),
               toPlayer' = [toPlayer EXCEPT ![p] = q], UNCHANGED toReferee
        PROVE  GameInv'
    <3>1. q \in Seq(Led(0))
      BY Disturbed
    <3> QED
      BY <1>5, <2>2, <2>4, <3>1 DEF GameNetwork
  <2> QED
    BY <2>1, <2>3, <2>4
<1>6. CASE UNCHANGED gameVars
  BY <1>6 DEF gameVars
<1> QED
  BY <1>1, <1>2, <1>3, <1>4, <1>5, <1>6 DEF GameNext

\* GameInv is an invariant of the game.
LEMMA GameInvariance == GameSpec => []GameInv
BY GameInitInv, GameNextInv, PTL DEF GameSpec

\* Every variable of the two programs keeps its type.
THEOREM GameTypes == GameSpec => []GameTypeOK
<1>1. GameInv => GameTypeOK
  <2> SUFFICES ASSUME GameInv PROVE GameTypeOK
    OBVIOUS
  <2>1. /\ [from : Players, board : Led(1)] \subseteq [from : Players, board : Boards]
        /\ Led(0) \subseteq Boards
    BY DEF Led
  <2>2. toReferee \in Seq([from : Players, board : Boards])
    <3> DEFINE A == [from : Players, board : Led(1)]
               B == [from : Players, board : Boards]
    <3>1. toReferee \in Seq(A) /\ A \subseteq B
      BY <2>1 DEF GameInv
    <3> HIDE DEF A, B
    <3>2. toReferee \in Seq(B)
      BY <3>1, SeqMonotonic
    <3> QED
      BY <3>2 DEF B
  <2>3. \A p \in Players : toPlayer[p] \in Seq(Boards)
    BY <2>1, SeqMonotonic DEF GameInv
  <2> QED
    BY <2>2, <2>3 DEF GameInv, GameTypeOK
<1> QED
  BY <1>1, GameInvariance, PTL

\* Turns alternate on every board in flight and at every client, and a user
\* asked for a move has a free cell, for any odd number of cells, any number of
\* clients and whatever the network does (reply and take of udptt_server.c and
\* udptt_client.c compare nothing).
THEOREM GameTurns == GameSpec => []TurnsAlternate
<1>1. GameInv => TurnsAlternate
  <2> SUFFICES ASSUME GameInv PROVE TurnsAlternate
    OBVIOUS
  <2>1. ASSUME NEW i \in DOMAIN toReferee PROVE Lead(toReferee[i].board) = 1
    <3>1. toReferee[i] \in [from : Players, board : Led(1)]
      BY Spliced DEF GameInv
    <3> QED
      BY <3>1 DEF Led
  <2>2. ASSUME NEW p \in Players, NEW i \in DOMAIN toPlayer[p]
        PROVE  Lead(toPlayer[p][i]) = 0
    <3>1. toPlayer[p][i] \in Led(0)
      BY Spliced DEF GameInv
    <3> QED
      BY <3>1 DEF Led
  <2>3. ASSUME NEW p \in Players, playerPc[p] = "move"
        PROVE  Lead(gameboard[p]) = 0 /\ availble_space(gameboard[p])
    BY <2>3, EvenBoardIsFree DEF GameInv, Led
  <2> QED
    BY <2>1, <2>2, <2>3 DEF GameInv, TurnsAlternate
<1> QED
  BY <1>1, GameInvariance, PTL

\* What is left of queue q: its elements in any order, each at most once.
LeftOf(q, r) ==
  \E h \in [DOMAIN r -> DOMAIN q] :
    /\ \A j \in DOMAIN r : r[j] = q[h[j]]
    /\ \A j, k \in DOMAIN r : h[j] = h[k] => j = k

\* What is left of a queue when one element is removed.
LEMMA Removed ==
  ASSUME NEW S, NEW q \in Seq(S), NEW i \in 1 .. Len(q)
  PROVE  /\ DOMAIN RemoveAt(q, i) = 1 .. Len(q) - 1
         /\ \A j \in 1 .. Len(q) - 1 : RemoveAt(q, i)[j] = q[IF j < i THEN j ELSE j + 1]
<1>1. Len(q) \in Nat /\ DOMAIN q = 1 .. Len(q) /\ \A j \in 1 .. Len(q) : q[j] \in S
  BY LenProperties
<1> DEFINE a == SubSeq(q, 1, i - 1)
           b == SubSeq(q, i + 1, Len(q))
           r == RemoveAt(q, i)
<1>2. /\ a \in Seq(S) /\ Len(a) = i - 1 /\ \A j \in 1 .. i - 1 : a[j] = q[j]
      /\ b \in Seq(S) /\ Len(b) = Len(q) - i
      /\ \A j \in 1 .. Len(q) - i : b[j] = q[i + j]
  <2>1. i - 1 \in Nat /\ i + 1 \in Nat /\ \A j \in 1 .. i - 1 : q[j] \in S
    BY <1>1
  <2>2. /\ a \in Seq(S) /\ Len(a) = IF 1 <= i - 1 THEN i - 1 - 1 + 1 ELSE 0
        /\ \A j \in 1 .. i - 1 - 1 + 1 : a[j] = q[1 + j - 1]
    BY <2>1, SubSeqProperties
  <2>3. \A j \in i + 1 .. Len(q) : q[j] \in S
    BY <1>1
  <2>4. /\ b \in Seq(S) /\ Len(b) = IF i + 1 <= Len(q) THEN Len(q) - (i + 1) + 1 ELSE 0
        /\ \A j \in 1 .. Len(q) - (i + 1) + 1 : b[j] = q[i + 1 + j - 1]
    BY <1>1, <2>1, <2>3, SubSeqProperties
  <2> HIDE DEF a, b
  <2>5. Len(a) = i - 1 /\ Len(b) = Len(q) - i
    <3>1. Len(q) \in Int /\ i \in Int /\ 1 <= i /\ i <= Len(q)
      BY <1>1
    <3>2. /\ Len(a) = IF 1 <= i - 1 THEN i - 1 - 1 + 1 ELSE 0
          /\ Len(b) = IF i + 1 <= Len(q) THEN Len(q) - (i + 1) + 1 ELSE 0
      BY <2>2, <2>4
    <3> QED
      BY <3>1, <3>2
  <2>6. ASSUME NEW j \in 1 .. i - 1 PROVE a[j] = q[j]
    <3>1. 1 + j - 1 = j /\ j \in 1 .. i - 1 - 1 + 1
      BY <1>1
    <3>2. a[j] = q[1 + j - 1]
      BY <2>2, <3>1
    <3> QED
      BY <3>1, <3>2
  <2>7. ASSUME NEW j \in 1 .. Len(q) - i PROVE b[j] = q[i + j]
    <3>1. i + 1 + j - 1 = i + j /\ j \in 1 .. Len(q) - (i + 1) + 1
      BY <1>1
    <3>2. b[j] = q[i + 1 + j - 1]
      BY <2>4, <3>1
    <3> QED
      BY <3>1, <3>2
  <2> QED
    BY <2>2, <2>4, <2>5, <2>6, <2>7
<1>3. r = a \o b
  BY DEF RemoveAt
<1> HIDE DEF a, b, r
<1>4. DOMAIN r = 1 .. Len(q) - 1
  <2>1. r \in Seq(S) /\ Len(r) = Len(a) + Len(b)
    BY <1>2, <1>3, ConcatProperties
  <2>2. Len(r) = Len(q) - 1
    BY <1>1, <1>2, <2>1
  <2> QED
    BY <2>1, <2>2, LenProperties
<1>5. \A j \in 1 .. Len(q) - 1 : r[j] = IF j <= i - 1 THEN a[j] ELSE b[j - (i - 1)]
  BY <1>1, <1>2, <1>3, ConcatProperties
<1>6. \A j \in 1 .. Len(q) - 1 : r[j] = q[IF j < i THEN j ELSE j + 1]
  <2> SUFFICES ASSUME NEW j \in 1 .. Len(q) - 1
               PROVE  r[j] = q[IF j < i THEN j ELSE j + 1]
    OBVIOUS
  <2>1. CASE j < i
    BY <1>1, <1>2, <1>5, <2>1
  <2>2. CASE ~(j < i)
    <3>1. j - (i - 1) \in 1 .. Len(q) - i /\ i + (j - (i - 1)) = j + 1 /\ ~(j <= i - 1)
      BY <1>1, <2>2
    <3> QED
      BY <1>2, <1>5, <2>2, <3>1
  <2> QED
    BY <2>1, <2>2
<1> QED
  BY <1>4, <1>6 DEF r

\* A network that doubles nothing leaves each datagram at most once.
LEMMA DisturbedLeft ==
  ASSUME NEW S, NEW q \in Seq(S), NEW fault \in {"loss", "swap"},
         NEW r \in Disturb(q, fault)
  PROVE  LeftOf(q, r)
<1>1. Len(q) \in Nat /\ DOMAIN q = 1 .. Len(q) /\ \A j \in 1 .. Len(q) : q[j] \in S
  BY LenProperties
<1>2. CASE fault = "loss"
  <2>1. PICK i \in 1 .. Len(q) : r = RemoveAt(q, i)
    BY <1>1, <1>2 DEF Disturb
  <2> DEFINE h == [j \in DOMAIN r |-> IF j < i THEN j ELSE j + 1]
  <2>2. /\ DOMAIN r = 1 .. Len(q) - 1
        /\ \A j \in 1 .. Len(q) - 1 : r[j] = q[IF j < i THEN j ELSE j + 1]
    BY <2>1, Removed
  <2>3. h \in [DOMAIN r -> DOMAIN q]
    BY <1>1, <2>2
  <2>4. \A j \in DOMAIN r : r[j] = q[h[j]]
    BY <2>2
  <2>5. \A j, k \in DOMAIN r : h[j] = h[k] => j = k
    BY <2>2
  <2> QED
    BY <2>3, <2>4, <2>5 DEF LeftOf
<1>3. CASE fault = "swap"
  <2>1. PICK i \in 1 .. Len(q) - 1 : r = [q EXCEPT ![i] = q[i + 1], ![i + 1] = q[i]]
    BY <1>3 DEF Disturb
  <2> DEFINE h == [j \in DOMAIN r |-> IF j = i THEN i + 1 ELSE IF j = i + 1 THEN i ELSE j]
  <2>2. DOMAIN r = 1 .. Len(q)
    BY <1>1, <2>1
  <2>3. h \in [DOMAIN r -> DOMAIN q]
    BY <1>1, <2>2
  <2>4. \A j \in DOMAIN r : r[j] = q[h[j]]
    BY <1>1, <2>1, <2>2
  <2>5. \A j, k \in DOMAIN r : h[j] = h[k] => j = k
    BY <1>1, <2>2
  <2> QED
    BY <2>3, <2>4, <2>5 DEF LeftOf
<1> QED
  BY <1>2, <1>3

\* So does the receiver that takes the first.
LEMMA TakenLeft ==
  ASSUME NEW S, NEW q \in Seq(S), q # <<>>
  PROVE  LeftOf(q, Tail(q))
<1>1. /\ Len(q) \in Nat \ {0} /\ DOMAIN q = 1 .. Len(q)
      /\ DOMAIN Tail(q) = 1 .. Len(q) - 1
      /\ \A j \in 1 .. Len(q) - 1 : Tail(q)[j] = q[j + 1]
  BY EmptySeq, HeadTailProperties, LenProperties
<1> DEFINE h == [j \in DOMAIN Tail(q) |-> j + 1]
<1>2. h \in [DOMAIN Tail(q) -> DOMAIN q]
  BY <1>1
<1>3. \A j \in DOMAIN Tail(q) : Tail(q)[j] = q[h[j]]
  BY <1>1
<1>4. \A j, k \in DOMAIN Tail(q) : h[j] = h[k] => j = k
  BY <1>1
<1> QED
  BY <1>2, <1>3, <1>4 DEF LeftOf

\* Unless the network has doubled a datagram: a client that waits has at most
\* one datagram on its way, there or back; the one there is its own board, the
\* one back keeps all the marks of it.
Keeps(newer, older) == \A cell \in Cells : older[cell] # "free" => newer[cell] = older[cell]

KeptInv ==
  "dup" \notin ToSet(gameFaults) =>
    /\ \A i \in DOMAIN toReferee :
         /\ toReferee[i].board = gameboard[toReferee[i].from]
         /\ playerPc[toReferee[i].from] # "move"
         /\ toPlayer[toReferee[i].from] = <<>>
    /\ \A i, j \in DOMAIN toReferee : toReferee[i].from = toReferee[j].from => i = j
    /\ \A p \in Players : \A i \in DOMAIN toPlayer[p] :
         /\ Keeps(toPlayer[p][i], gameboard[p])
         /\ playerPc[p] # "move"
         /\ i = 1

\* What is left of a queue to the server keeps its part of KeptInv.
LEMMA LeftKept ==
  ASSUME GameInv, KeptInv, "dup" \notin ToSet(gameFaults), LeftOf(toReferee, toReferee'),
         "dup" \notin ToSet(gameFaults'), UNCHANGED <<toPlayer, playerPc, gameboard>>
  PROVE  KeptInv'
<1>1. PICK h \in [DOMAIN toReferee' -> DOMAIN toReferee] :
        /\ \A j \in DOMAIN toReferee' : toReferee'[j] = toReferee[h[j]]
        /\ \A j, k \in DOMAIN toReferee' : h[j] = h[k] => j = k
  BY DEF LeftOf
<1> QED
  BY <1>1 DEF KeptInv

\* What the network has doubled stays doubled.
LEMMA FaultsGrow ==
  ASSUME NEW faults \in Seq({"loss", "dup", "swap"}), NEW fault \in {"loss", "dup", "swap"},
         "dup" \notin ToSet(Append(faults, fault))
  PROVE  "dup" \notin ToSet(faults) /\ fault \in {"loss", "swap"}
<1> DEFINE more == Append(faults, fault)
<1>1. /\ Len(faults) \in Nat /\ DOMAIN faults = 1 .. Len(faults)
      /\ more \in Seq({"loss", "dup", "swap"}) /\ Len(more) = Len(faults) + 1
      /\ \A i \in 1 .. Len(faults) : more[i] = faults[i]
      /\ more[Len(faults) + 1] = fault
  BY AppendProperties, LenProperties
<1>2. DOMAIN more = 1 .. Len(faults) + 1
  BY <1>1, LenProperties
<1> HIDE DEF more
<1>3. \A i \in DOMAIN more : more[i] # "dup"
  BY DEF ToSet, more
<1>4. \A i \in 1 .. Len(faults) : faults[i] # "dup"
  BY <1>1, <1>2, <1>3
<1>5. fault # "dup"
  BY <1>1, <1>2, <1>3
<1> QED
  BY <1>1, <1>4, <1>5 DEF ToSet

\* A queue without indices is empty.
LEMMA NoIndex ==
  ASSUME NEW S, NEW q \in Seq(S), DOMAIN q = {}
  PROVE  q = <<>>
<1>1. Len(q) \in Nat /\ DOMAIN q = 1 .. Len(q)
  BY LenProperties
<1>2. Len(q) = 0
  <2>1. CASE Len(q) # 0
    <3>1. 1 \in 1 .. Len(q)
      BY <1>1, <2>1
    <3> QED
      BY <1>1, <3>1
  <2> QED
    BY <2>1
<1> QED
  BY <1>2, EmptySeq

\* Whatever the server has to read comes from a client.
LEMMA FromPlayers ==
  ASSUME GameInv, NEW i \in DOMAIN toReferee
  PROVE  toReferee[i].from \in Players
<1>1. toReferee[i] \in [from : Players, board : Led(1)]
  BY Spliced DEF GameInv
<1> QED
  BY <1>1

\* Every step keeps KeptInv, and the marks of all clients' boards.
LEMMA KeptNext ==
  ASSUME GameInv, KeptInv, [GameNext]_gameVars
  PROVE  /\ KeptInv'
         /\ "dup" \notin ToSet(gameFaults) =>
              \A p \in Players : Keeps(gameboard'[p], gameboard[p])
<1> USE DEF GameInv
<1>1. ASSUME NEW p \in Players, Move(p), "dup" \notin ToSet(gameFaults)
      PROVE  KeptInv' /\ \A c \in Players : Keeps(gameboard'[c], gameboard[c])
  <2>1. PICK board \in Moves(gameboard[p], "X") :
          /\ gameboard' = [gameboard EXCEPT ![p] = board]
          /\ toReferee' = Append(toReferee, [from |-> p, board |-> board])
          /\ playerPc' = [playerPc EXCEPT ![p] = IF availble_space(board) THEN "wait" ELSE "over"]
    BY <1>1 DEF Move
  <2>2. Keeps(board, gameboard[p])
    BY DEF Moves, With, Keeps, Boards
  <2>3. /\ Len(toReferee) \in Nat /\ DOMAIN toReferee = 1 .. Len(toReferee)
        /\ \A i \in DOMAIN toReferee : toReferee[i].from \in Players
    BY LenProperties, FromPlayers
  <2>4. /\ DOMAIN toReferee' = 1 .. Len(toReferee) + 1
        /\ \A i \in 1 .. Len(toReferee) : toReferee'[i] = toReferee[i]
        /\ toReferee'[Len(toReferee) + 1] = [from |-> p, board |-> board]
    <3> DEFINE S == [from : Players, board : Led(1)] \cup {[from |-> p, board |-> board]}
    <3>1. toReferee \in Seq(S) /\ [from |-> p, board |-> board] \in S
      BY SeqMonotonic
    <3> HIDE DEF S
    <3> QED
      BY <2>1, <3>1, AppendProperties, LenProperties
  <2>5. \A i \in DOMAIN toReferee : toReferee[i].from # p
    BY <1>1 DEF Move, KeptInv
  <2>6. toPlayer[p] = <<>>
    <3>1. DOMAIN toPlayer[p] = {}
      BY <1>1 DEF Move, KeptInv
    <3> QED
      BY <3>1, NoIndex
  <2>7. \A c \in Players : Keeps(gameboard'[c], gameboard[c])
    BY <2>1, <2>2 DEF Keeps
  <2>8. KeptInv'
    <3>1. ASSUME NEW i \in DOMAIN toReferee'
          PROVE  /\ toReferee'[i].board = gameboard'[toReferee'[i].from]
                 /\ playerPc'[toReferee'[i].from] # "move"
                 /\ toPlayer'[toReferee'[i].from] = <<>>
      <4>1. CASE i = Len(toReferee) + 1
        BY <1>1, <2>1, <2>4, <2>6, <4>1 DEF Move
      <4>2. CASE i # Len(toReferee) + 1
        <5>1. i \in DOMAIN toReferee /\ toReferee'[i] = toReferee[i]
          BY <2>3, <2>4, <4>2
        <5> QED
          BY <1>1, <2>1, <2>3, <2>5, <5>1 DEF Move, KeptInv
      <4> QED
        BY <4>1, <4>2
    <3>2. ASSUME NEW i \in DOMAIN toReferee', NEW j \in DOMAIN toReferee',
                 toReferee'[i].from = toReferee'[j].from
          PROVE  i = j
      <4>1. \A n \in DOMAIN toReferee' :
              \/ n = Len(toReferee) + 1
              \/ n \in DOMAIN toReferee /\ toReferee'[n] = toReferee[n]
        BY <2>3, <2>4
      <4> QED
        BY <1>1, <2>4, <2>5, <3>2, <4>1 DEF KeptInv
    <3>3. ASSUME NEW c \in Players, NEW i \in DOMAIN toPlayer'[c]
          PROVE  Keeps(toPlayer'[c][i], gameboard'[c]) /\ playerPc'[c] # "move" /\ i = 1
      <4>1. toPlayer' = toPlayer /\ c # p
        BY <1>1, <2>6, <3>3 DEF Move
      <4> QED
        BY <1>1, <2>1, <3>3, <4>1 DEF KeptInv
    <3> QED
      BY <3>1, <3>2, <3>3 DEF KeptInv
  <2> QED
    BY <2>7, <2>8
<1>2. ASSUME NEW p \in Players, TakeBoard(p), "dup" \notin ToSet(gameFaults)
      PROVE  KeptInv' /\ \A c \in Players : Keeps(gameboard'[c], gameboard[c])
  <2>1. /\ DOMAIN toPlayer[p] = {1} /\ Head(toPlayer[p]) = toPlayer[p][1]
        /\ Tail(toPlayer[p]) = <<>>
    <3>1. Len(toPlayer[p]) \in Nat \ {0} /\ DOMAIN toPlayer[p] = 1 .. Len(toPlayer[p])
      BY <1>2, EmptySeq, LenProperties DEF TakeBoard
    <3>2. \A i \in DOMAIN toPlayer[p] : i = 1
      BY <1>2 DEF KeptInv
    <3>3. Len(toPlayer[p]) = 1
      BY <3>1, <3>2
    <3>4. Tail(toPlayer[p]) \in Seq(Led(0)) /\ Len(Tail(toPlayer[p])) = 0
      BY <1>2, <3>3, HeadTailProperties DEF TakeBoard
    <3>5. Tail(toPlayer[p]) = <<>>
      BY <3>4, EmptySeq
    <3> QED
      BY <3>1, <3>3, <3>5
  <2>2. Keeps(toPlayer[p][1], gameboard[p])
    BY <1>2, <2>1 DEF KeptInv
  <2>3. \A i \in DOMAIN toReferee : toReferee[i].from # p
    BY <1>2 DEF TakeBoard, KeptInv
  <2>4. \A c \in Players : Keeps(gameboard'[c], gameboard[c])
    BY <1>2, <2>1, <2>2 DEF TakeBoard, Keeps
  <2>5. \A i \in DOMAIN toReferee : toReferee[i].from \in Players
    BY FromPlayers
  <2>6. KeptInv'
    BY <1>2, <2>1, <2>3, <2>5 DEF TakeBoard, KeptInv
  <2> QED
    BY <2>4, <2>6
<1>3. ASSUME Reply, "dup" \notin ToSet(gameFaults) PROVE KeptInv'
  <2> DEFINE got == Head(toReferee)
  <2>1. PICK board \in Moves(got.board, "O") :
          toPlayer' = [toPlayer EXCEPT ![got.from] = Append(@, board)]
    BY <1>3 DEF Reply
  <2>2. /\ 1 \in DOMAIN toReferee /\ got = toReferee[1] /\ got.from \in Players
        /\ got.board \in Boards
    <3>1. Len(toReferee) \in Nat \ {0} /\ DOMAIN toReferee = 1 .. Len(toReferee)
      BY <1>3, EmptySeq, LenProperties DEF Reply
    <3>2. got \in [from : Players, board : Led(1)]
      BY <1>3, Taken DEF Reply
    <3> QED
      BY <3>1, <3>2 DEF Led
  <2> HIDE DEF got
  <2>3. Keeps(board, gameboard[got.from])
    <3>1. Keeps(board, got.board)
      BY <2>2 DEF Moves, With, Keeps, Boards
    <3> QED
      BY <1>3, <2>2, <3>1 DEF KeptInv
  <2>4. toPlayer[got.from] = <<>> /\ playerPc[got.from] # "move"
    BY <1>3, <2>2 DEF KeptInv
  <2>5. toPlayer'[got.from] = <<board>>
    BY <2>1, <2>2, <2>4
  <2>6. /\ DOMAIN toReferee' = 1 .. Len(toReferee) - 1
        /\ DOMAIN toReferee = 1 .. Len(toReferee)
        /\ Len(toReferee) \in Nat
        /\ \A i \in 1 .. Len(toReferee) - 1 : toReferee'[i] = toReferee[i + 1]
    BY <1>3, HeadTailProperties, LenProperties DEF Reply
  <2>7. ASSUME NEW i \in DOMAIN toReferee'
        PROVE  /\ i + 1 \in DOMAIN toReferee /\ toReferee'[i] = toReferee[i + 1]
               /\ toReferee'[i].from # got.from /\ toReferee'[i].from \in Players
    <3>1. i + 1 \in DOMAIN toReferee /\ toReferee'[i] = toReferee[i + 1] /\ i + 1 # 1
      BY <2>6
    <3>2. toReferee[i + 1].from # toReferee[1].from
      BY <1>3, <2>2, <3>1 DEF KeptInv
    <3>3. toReferee[i + 1] \in [from : Players, board : Led(1)]
      BY <3>1, Spliced
    <3> QED
      BY <2>2, <3>1, <3>2, <3>3
  <2>8. ASSUME NEW i \in DOMAIN toReferee'
        PROVE  /\ toReferee'[i].board = gameboard'[toReferee'[i].from]
               /\ playerPc'[toReferee'[i].from] # "move"
               /\ toPlayer'[toReferee'[i].from] = <<>>
    <3> DEFINE c == toReferee'[i].from
    <3>1. c # got.from /\ c \in Players /\ c = toReferee[i + 1].from /\ i + 1 \in DOMAIN toReferee
      BY <2>7
    <3>2. toPlayer'[c] = toPlayer[c]
      BY <2>1, <3>1
    <3>3. toReferee[i + 1].board = gameboard[c] /\ playerPc[c] # "move" /\ toPlayer[c] = <<>>
      BY <1>3, <3>1 DEF KeptInv
    <3>4. toReferee'[i].board = toReferee[i + 1].board
      BY <2>7
    <3> QED
      BY <1>3, <3>2, <3>3, <3>4 DEF Reply
  <2>9. ASSUME NEW i \in DOMAIN toReferee', NEW j \in DOMAIN toReferee',
               toReferee'[i].from = toReferee'[j].from
        PROVE  i = j
    <3>1. i + 1 = j + 1
      BY <1>3, <2>7, <2>9 DEF KeptInv
    <3> QED
      BY <2>6, <3>1
  <2>10. ASSUME NEW c \in Players, NEW i \in DOMAIN toPlayer'[c]
         PROVE  Keeps(toPlayer'[c][i], gameboard'[c]) /\ playerPc'[c] # "move" /\ i = 1
    <3>1. CASE c = got.from
      <4>1. toPlayer'[c] = <<board>>
        BY <2>5, <3>1
      <4>2. i = 1 /\ toPlayer'[c][i] = board
        BY <2>10, <4>1
      <4>3. gameboard'[c] = gameboard[got.from] /\ playerPc'[c] = playerPc[got.from]
        BY <1>3, <3>1 DEF Reply
      <4> QED
        BY <2>3, <2>4, <4>2, <4>3
    <3>2. CASE c # got.from
      BY <1>3, <2>1, <2>10, <3>2 DEF Reply, KeptInv
    <3> QED
      BY <3>1, <3>2
  <2> QED
    BY <2>8, <2>9, <2>10 DEF KeptInv
<1>4. ASSUME CloseGame, "dup" \notin ToSet(gameFaults) PROVE KeptInv'
  <2>1. LeftOf(toReferee, toReferee')
    BY <1>4, TakenLeft DEF CloseGame
  <2> QED
    BY <1>4, <2>1, LeftKept DEF CloseGame
<1>5. ASSUME GameNetwork PROVE KeptInv'
  <2> SUFFICES ASSUME "dup" \notin ToSet(gameFaults') PROVE KeptInv'
    BY DEF KeptInv
  <2>1. PICK fault \in {"loss", "dup", "swap"} :
          /\ gameFaults' = Append(gameFaults, fault)
          /\ \/ /\ toReferee' \in Disturb(toReferee, fault)
                /\ UNCHANGED toPlayer
             \/ /\ \E p \in Players : \E q \in Disturb(toPlayer[p], fault) :
                     toPlayer' = [toPlayer EXCEPT ![p] = q]
                /\ UNCHANGED toReferee
    BY <1>5 DEF GameNetwork
  <2>2. "dup" \notin ToSet(gameFaults) /\ fault \in {"loss", "swap"}
    BY <2>1, FaultsGrow
  <2>3. CASE toReferee' \in Disturb(toReferee, fault) /\ UNCHANGED toPlayer
    <3>1. LeftOf(toReferee, toReferee')
      BY <2>2, <2>3, DisturbedLeft
    <3> QED
      BY <1>5, <2>2, <2>3, <3>1, LeftKept DEF GameNetwork
  <2>4. ASSUME NEW p \in Players, NEW q \in Disturb(toPlayer[p], fault),
               toPlayer' = [toPlayer EXCEPT ![p] = q], UNCHANGED toReferee
        PROVE  KeptInv'
    <3>1. LeftOf(toPlayer[p], q)
      BY <2>2, DisturbedLeft
    <3>2. PICK h \in [DOMAIN q -> DOMAIN toPlayer[p]] :
            /\ \A j \in DOMAIN q : q[j] = toPlayer[p][h[j]]
            /\ \A j, k \in DOMAIN q : h[j] = h[k] => j = k
      BY <3>1 DEF LeftOf
    <3>3. q \in Seq(Led(0)) /\ Len(q) \in Nat /\ DOMAIN q = 1 .. Len(q)
      BY <2>1, Disturbed, LenProperties
    <3>4. \A i \in DOMAIN toPlayer[p] : i = 1
      BY <2>2 DEF KeptInv
    <3>5. \A i \in DOMAIN q : i = 1
      <4>1. \A i, j \in DOMAIN q : i = j
        BY <3>2, <3>4
      <4>2. ASSUME NEW i \in DOMAIN q PROVE 1 \in DOMAIN q
        BY <3>3
      <4> QED
        BY <4>1, <4>2
    <3>6. toPlayer[p] = <<>> => q = <<>>
      <4>1. toPlayer[p] = <<>> => DOMAIN q = {}
        BY <3>2
      <4> QED
        BY <3>3, <4>1, NoIndex
    <3>7. ASSUME NEW i \in DOMAIN toReferee PROVE toReferee[i].from \in Players
      BY FromPlayers
    <3>8. \A i \in DOMAIN toReferee : toPlayer'[toReferee[i].from] = <<>>
      BY <2>2, <2>4, <3>6, <3>7 DEF KeptInv
    <3>9. ASSUME NEW c \in Players, NEW i \in DOMAIN toPlayer'[c]
          PROVE  Keeps(toPlayer'[c][i], gameboard[c]) /\ playerPc[c] # "move" /\ i = 1
      <4>1. CASE c = p
        <5>1. i \in DOMAIN q /\ toPlayer'[c][i] = toPlayer[p][h[i]] /\ h[i] \in DOMAIN toPlayer[p]
          BY <2>4, <3>2, <3>9, <4>1
        <5> QED
          BY <2>2, <3>5, <4>1, <5>1 DEF KeptInv
      <4>2. CASE c # p
        BY <2>2, <2>4, <3>9, <4>2 DEF KeptInv
      <4> QED
        BY <4>1, <4>2
    <3> QED
      BY <1>5, <2>2, <2>4, <3>8, <3>9 DEF GameNetwork, KeptInv
  <2> QED
    BY <2>1, <2>3, <2>4
<1>6. ASSUME NEW p \in Players, Move(p) \/ TakeBoard(p) PROVE gameFaults' = gameFaults
  BY <1>6 DEF Move, TakeBoard
<1>7. CASE \E p \in Players : Move(p) \/ TakeBoard(p)
  BY <1>1, <1>2, <1>6, <1>7 DEF KeptInv
<1>8. CASE Reply \/ CloseGame
  <2>1. gameFaults' = gameFaults /\ gameboard' = gameboard
    BY <1>8 DEF Reply, CloseGame
  <2> QED
    BY <1>3, <1>4, <1>8, <2>1 DEF KeptInv, Keeps
<1>9. CASE GameNetwork
  <2>1. gameboard' = gameboard
    BY <1>9 DEF GameNetwork
  <2> QED
    BY <1>5, <1>9, <2>1 DEF Keeps
<1>10. CASE UNCHANGED gameVars
  BY <1>10 DEF gameVars, KeptInv, Keeps
<1> QED
  BY <1>7, <1>8, <1>9, <1>10 DEF GameNext

\* No step takes a mark off a client's board while the network has doubled
\* nothing, though the client takes whatever board comes for its own.
THEOREM GameMarks == GameSpec => MarksKept
<1>1. GameInit => KeptInv
  BY DEF GameInit, KeptInv
<1>2. GameInv /\ KeptInv /\ [GameNext]_gameVars => KeptInv'
  BY KeptNext
<1>3. GameInv /\ KeptInv /\ [GameNext]_gameVars =>
        [\A p \in Players :
           "dup" \notin ToSet(gameFaults) =>
             \A cell \in Cells :
               gameboard[p][cell] # "free" => gameboard'[p][cell] = gameboard[p][cell]
        ]_gameVars
  BY KeptNext DEF Keeps
<1> QED
  BY <1>1, <1>2, <1>3, GameInvariance, PTL DEF GameSpec, MarksKept
-----------------------------------------------------------------------------
(***************************************************************************)
(* The calculator.                                                         *)
(***************************************************************************)

\* A queue in which nobody stands twice.
Once(q) == \A i, j \in DOMAIN q : q[i] = q[j] => i = j

\* Who joins a queue he is not in is in it once.
LEMMA Joined ==
  ASSUME NEW S, NEW q \in Seq(S), NEW x \in S
  PROVE  /\ Append(q, x) \in Seq(S)
         /\ ToSet(Append(q, x)) = ToSet(q) \cup {x}
         /\ Once(q) /\ x \notin ToSet(q) => Once(Append(q, x))
<1> DEFINE r == Append(q, x)
           n == Len(q)
<1>1. n \in Nat /\ DOMAIN q = 1 .. n
  BY LenProperties
<1>2. r \in Seq(S) /\ Len(r) = n + 1 /\ (\A i \in 1 .. n : r[i] = q[i]) /\ r[n + 1] = x
  BY AppendProperties
<1>3. DOMAIN r = 1 .. n + 1
  BY <1>2, LenProperties
<1> HIDE DEF r, n
<1>4. DOMAIN r = DOMAIN q \cup {n + 1} /\ n + 1 \notin DOMAIN q
  BY <1>1, <1>3
<1>5. \A i \in DOMAIN q : r[i] = q[i]
  BY <1>1, <1>2
<1>6. ToSet(r) = ToSet(q) \cup {x}
  BY <1>2, <1>4, <1>5 DEF ToSet
<1>7. Once(q) /\ x \notin ToSet(q) => Once(r)
  BY <1>2, <1>4, <1>5 DEF ToSet, Once
<1> QED
  BY <1>2, <1>6, <1>7 DEF r

\* Who leaves a queue in which nobody stands twice is not in it any more.
LEMMA Left ==
  ASSUME NEW S, NEW q \in Seq(S), q # <<>>
  PROVE  /\ Head(q) \in S /\ Tail(q) \in Seq(S)
         /\ ToSet(q) = ToSet(Tail(q)) \cup {Head(q)}
         /\ Once(q) => Once(Tail(q)) /\ Head(q) \notin ToSet(Tail(q))
<1> DEFINE r == Tail(q)
           n == Len(q)
<1>1. n \in Nat \ {0} /\ DOMAIN q = 1 .. n
  BY EmptySeq, LenProperties
<1>2. /\ Head(q) \in S /\ r \in Seq(S) /\ DOMAIN r = 1 .. n - 1
      /\ \A i \in 1 .. n - 1 : r[i] = q[i + 1]
  BY HeadTailProperties, LenProperties
<1>3. Head(q) = q[1]
  OBVIOUS
<1> HIDE DEF r, n
<1>4. /\ \A i \in DOMAIN r : i + 1 \in DOMAIN q /\ r[i] = q[i + 1] /\ i \in Int
      /\ \A i \in DOMAIN q : i = 1 \/ (i - 1 \in DOMAIN r /\ r[i - 1] = q[i])
      /\ 1 \in DOMAIN q
  <2>1. ASSUME NEW i \in DOMAIN q, i # 1 PROVE i - 1 \in DOMAIN r /\ r[i - 1] = q[i]
    <3>1. i - 1 \in 1 .. n - 1 /\ (i - 1) + 1 = i
      BY <1>1, <2>1
    <3> QED
      BY <1>2, <3>1
  <2> QED
    BY <1>1, <1>2, <2>1
<1>5. ToSet(q) = ToSet(r) \cup {Head(q)}
  BY <1>3, <1>4 DEF ToSet
<1>6. ASSUME Once(q) PROVE Once(r) /\ Head(q) \notin ToSet(r)
  <2>1. ASSUME NEW i \in DOMAIN r, NEW j \in DOMAIN r, r[i] = r[j] PROVE i = j
    <3>1. i + 1 = j + 1 /\ i \in Int /\ j \in Int
      BY <1>4, <1>6, <2>1 DEF Once
    <3> QED
      BY <3>1
  <2>2. ASSUME NEW i \in DOMAIN r, r[i] = q[1] PROVE FALSE
    <3>1. i + 1 = 1 /\ i \in 1 .. n - 1
      BY <1>2, <1>4, <1>6, <2>2 DEF Once
    <3> QED
      BY <1>1, <3>1
  <2> QED
    BY <1>3, <2>1, <2>2 DEF Once, ToSet
<1> QED
  BY <1>2, <1>5, <1>6 DEF r

\* The inductive invariant: nobody is served twice, and what a living client
\* has sent is what it was asked for: all of it in the stream before its turn,
\* in two parts while the server reads it.
CalcInv ==
  /\ CalcTypeOK
  /\ result \in [Askers -> [opnd_cnt : Nat, recv_len : Nat]]
  /\ Once(waiting)
  /\ \A c \in ToSet(waiting) : askerPc[c] \notin {"start", "answered"}
  /\ calcPc \in {"count", "operands"} =>
       /\ asker \in Askers
       /\ asker \notin ToSet(waiting)
       /\ askerPc[asker] \notin {"start", "answered"}
  /\ \A c \in Askers :
       /\ askerPc[c] \in {"start", "connected"} => unread[c] = 0
       /\ askerPc[c] = "sent" =>
            IF calcPc = "operands" /\ asker = c
              THEN opnd_cnt = CountOf(c) /\ recv_len + unread[c] = OperandBytes(given[c])
              ELSE unread[c] = OperandBytes(given[c]) + 1
  /\ calcPc = "operands" => askerPc[asker] # "connected"
  /\ CalculatedFromAll

\* The bytes of n operands and their operator.
LEMMA OperandsHaveBytes ==
  ASSUME NEW n \in 0 .. MaxCount
  PROVE  OperandBytes(n) \in Nat
BY CalcAssumption DEF OperandBytes

\* A byte holds a smaller count as it is.
LEMMA CountFits ==
  ASSUME NEW n \in 0 .. MaxCount
  PROVE  n % BYTE \in 0 .. BYTE - 1 /\ (n < BYTE => n % BYTE = n)
BY CalcAssumption

LEMMA CalcInitInv == CalcInit => CalcInv
<1> SUFFICES ASSUME CalcInit PROVE CalcInv
  OBVIOUS
<1>1. CalcTypeOK
  BY CalcAssumption DEF CalcInit, CalcTypeOK
<1>2. Once(waiting) /\ ToSet(waiting) = {}
  BY DEF CalcInit, Once, ToSet
<1> QED
  BY <1>1, <1>2 DEF CalcInit, CalcInv, CalculatedFromAll, NoResult

LEMMA CalcNextInv == CalcInv /\ [CalcNext]_calcVars => CalcInv'
<1> SUFFICES ASSUME CalcInv, [CalcNext]_calcVars PROVE CalcInv'
  OBVIOUS
<1> USE DEF CalcInv, CalcTypeOK
<1>1. ASSUME NEW c \in Askers, ConnectAsker(c) PROVE CalcInv'
  <2>1. c \notin ToSet(waiting)
    BY <1>1 DEF ConnectAsker
  <2>2. /\ waiting' \in Seq(Askers) /\ Once(waiting')
        /\ ToSet(waiting') = ToSet(waiting) \cup {c}
    BY <1>1, <2>1, Joined DEF ConnectAsker
  <2> QED
    BY <1>1, <2>1, <2>2 DEF ConnectAsker, CountOf, CalculatedFromAll
<1>2. ASSUME NEW c \in Askers, SendOperands(c) PROVE CalcInv'
  <2>1. PICK n \in 0 .. MaxCount :
          /\ given' = [given EXCEPT ![c] = n]
          /\ unread' = [unread EXCEPT ![c] = OperandBytes(n) + 1]
    BY <1>2 DEF SendOperands
  <2>2. OperandBytes(n) \in Nat
    BY OperandsHaveBytes
  <2>3. unread' \in [Askers -> Nat] /\ given' \in [Askers -> 0 .. MaxCount]
    BY <2>1, <2>2
  <2> QED
    BY <1>2, <2>1, <2>3, SMTT(30) DEF SendOperands, CountOf, CalculatedFromAll
<1>3. ASSUME NEW c \in Askers, KillAsker(c) PROVE CalcInv'
  BY <1>3, SMTT(30) DEF KillAsker, CountOf, CalculatedFromAll
<1>4. ASSUME AcceptAsker PROVE CalcInv'
  <2>1. /\ Head(waiting) \in Askers /\ waiting' \in Seq(Askers) /\ Once(waiting')
        /\ ToSet(waiting) = ToSet(waiting') \cup {Head(waiting)}
        /\ Head(waiting) \notin ToSet(waiting')
    BY <1>4, Left DEF AcceptAsker
  <2>2. served' \in 0 .. SERVED /\ opnd_cnt' \in 0 .. BYTE - 1
    BY <1>4, CalcAssumption DEF AcceptAsker
  <2> QED
    BY <1>4, <2>1, <2>2 DEF AcceptAsker, CountOf, CalculatedFromAll
<1>5. ASSUME StopServing PROVE CalcInv'
  BY <1>5 DEF StopServing, CountOf, CalculatedFromAll
<1>6. ASSUME ReadCount PROVE CalcInv'
  <2>1. given[asker] \in 0 .. MaxCount /\ asker \in Askers
    BY <1>6 DEF ReadCount
  <2>2. CountOf(asker) \in 0 .. BYTE - 1 /\ OperandBytes(given[asker]) \in Nat
    BY <2>1, CountFits, OperandsHaveBytes DEF CountOf
  <2>3. CASE unread[asker] > 0 /\ opnd_cnt' = CountOf(asker) /\ TakeBytes(1)
    BY <1>6, <2>1, <2>2, <2>3, SMTT(30) DEF ReadCount, TakeBytes, CountOf, CalculatedFromAll
  <2>4. CASE AtEnd /\ UNCHANGED <<opnd_cnt, unread>>
    BY <1>6, <2>1, <2>4 DEF ReadCount, AtEnd, CountOf, CalculatedFromAll
  <2> QED
    BY <1>6, <2>3, <2>4 DEF ReadCount
<1>7. ASSUME ReadOperands PROVE CalcInv'
  <2>1. PICK n \in 1 .. unread[asker] : TakeBytes(n) /\ recv_len' = recv_len + n
    BY <1>7 DEF ReadOperands
  <2>2. asker \in Askers /\ unread[asker] \in Nat /\ OperandBytes(given[asker]) \in Nat
    <3>1. asker \in Askers /\ given[asker] \in 0 .. MaxCount
      BY <1>7 DEF ReadOperands
    <3> QED
      BY <3>1, OperandsHaveBytes
  <2> QED
    BY <1>7, <2>1, <2>2, SMTT(30) DEF ReadOperands, TakeBytes, CountOf, CalculatedFromAll
<1>8. ASSUME Calculate PROVE CalcInv'
  <2>1. asker \in Askers /\ given[asker] \in 0 .. MaxCount
    BY <1>8 DEF Calculate
  <2>2. CASE askerPc[asker] = "dead"
    BY <1>8, <2>1, <2>2 DEF Calculate, CountOf, CalculatedFromAll
  <2>3. CASE askerPc[asker] # "dead"
    <3>1. askerPc[asker] = "sent"
      BY <1>8, <2>1, <2>3 DEF Calculate
    <3>2. opnd_cnt = CountOf(asker) /\ recv_len + unread[asker] = OperandBytes(given[asker])
      BY <1>8, <2>1, <3>1 DEF Calculate
    <3>3. given[asker] < BYTE => opnd_cnt = given[asker]
      BY <2>1, <3>2, CountFits DEF CountOf
    <3>4. given[asker] < BYTE => recv_len = OperandBytes(given[asker])
      <4>1. OperandBytes(given[asker]) \in Nat /\ unread[asker] \in Nat /\ recv_len \in Nat
        BY <2>1, OperandsHaveBytes
      <4>2. OperandBytes(opnd_cnt) <= recv_len
        BY <1>8 DEF Calculate, Enough
      <4> QED
        BY <3>2, <3>3, <4>1, <4>2
    <3> DEFINE answer == [opnd_cnt |-> opnd_cnt, recv_len |-> recv_len]
    <3>5. /\ result' = [result EXCEPT ![asker] = answer]
          /\ askerPc' = [askerPc EXCEPT ![asker] = "answered"]
      BY <1>8, <2>3 DEF Calculate
    <3>6. /\ answer \in [opnd_cnt : Nat, recv_len : Nat]
          /\ given[asker] < BYTE =>
               answer = [opnd_cnt |-> given[asker], recv_len |-> OperandBytes(given[asker])]
      <4>1. opnd_cnt \in Nat /\ recv_len \in Nat
        BY CalcAssumption
      <4> QED
        BY <3>3, <3>4, <4>1
    <3> HIDE DEF answer
    <3>7. CalculatedFromAll'
      BY <1>8, <2>1, <3>5, <3>6 DEF Calculate, CalculatedFromAll
    <3>8. result' \in [Askers -> [opnd_cnt : Nat, recv_len : Nat]]
      BY <2>1, <3>5, <3>6
    <3> QED
      BY <1>8, <2>1, <3>1, <3>5, <3>7, <3>8 DEF Calculate, CountOf
  <2> QED
    BY <2>2, <2>3
<1>9. CASE UNCHANGED calcVars
  BY <1>9 DEF calcVars, CountOf, CalculatedFromAll
<1> QED
  BY <1>1, <1>2, <1>3, <1>4, <1>5, <1>6, <1>7, <1>8, <1>9 DEF CalcNext, CalcStep

\* The calculator's state is what it is declared to be.
THEOREM CalcTypes == CalcSpec => []CalcTypeOK
<1>1. CalcInv => CalcTypeOK
  BY DEF CalcInv
<1> QED
  BY <1>1, CalcInitInv, CalcNextInv, PTL DEF CalcSpec

\* A result is calculated from all the operands of the client that gets it and
\* their operator, in whatever parts the stream delivers them, if their count
\* fits its byte.
THEOREM CalcWhole == CalcSpec => []CalculatedFromAll
<1>1. CalcInv => CalculatedFromAll
  BY DEF CalcInv
<1> QED
  BY <1>1, CalcInitInv, CalcNextInv, PTL DEF CalcSpec
-----------------------------------------------------------------------------
(***************************************************************************)
(* The address conversion.                                                 *)
(***************************************************************************)

\* A request for the address typed last, and an answer to it.
IsRequest(p) == p.cmd = "request" /\ p.addr = lastTyped
IsAnswer(p)  == /\ p.addr = lastTyped
                /\ p.result = IF lastTyped \in Dotted THEN "success" ELSE "error"
                /\ lastTyped \in Dotted => p.iaddr = lastTyped

\* While the client waits, one packet is somewhere on its way: the request in
\* the stream, the request at the server, or the answer in the stream.
OnItsWay ==
  \/ convPc = "read"   /\ toAsk = <<>> /\ Len(toConv) = 1 /\ IsRequest(toConv[1])
  \/ convPc = "answer" /\ toAsk = <<>> /\ toConv = <<>>   /\ IsRequest(convPacket)
  \/ convPc = "read"   /\ toConv = <<>> /\ Len(toAsk) = 1 /\ IsAnswer(toAsk[1])

\* The inductive invariant: nothing is in the streams while the user types,
\* one packet while the client waits, and only "quit" when it has ended; of a
\* killed client nothing is said.
ConvInv ==
  /\ ConvertTypeOK
  /\ askPc \in {"type", "wait"} => convPeer = "open"
  /\ askPc = "type" => /\ toConv = <<>> /\ toAsk = <<>> /\ convPc = "read"
                       /\ asks > 0 => IsAnswer(askPacket)
  /\ askPc = "wait" => OnItsWay
  /\ askPc = "end" => \/ convPc = "closed"
                      \/ convPc = "read" /\ Len(toConv) = 1 /\ toConv[1].cmd = "quit"

\* A queue of one, and what is left of it.
LEMMA OneQueued ==
  ASSUME NEW S, NEW x \in S
  PROVE  /\ Append(<<>>, x) \in Seq(S)
         /\ Len(Append(<<>>, x)) = 1
         /\ Append(<<>>, x)[1] = x
OBVIOUS

LEMMA OneTaken ==
  ASSUME NEW S, NEW q \in Seq(S), Len(q) = 1
  PROVE  q # <<>> /\ q[1] \in S /\ Head(q) = q[1] /\ Tail(q) = <<>>
<1>1. q # <<>> /\ q[1] \in S
  BY EmptySeq, ElementOfSeq
<1>2. Tail(q) \in Seq(S) /\ Len(Tail(q)) = 0
  BY <1>1, HeadTailProperties
<1>3. Tail(q) = <<>>
  BY <1>2, EmptySeq
<1>4. Head(q) = q[1]
  OBVIOUS
<1> QED
  BY <1>1, <1>3, <1>4

LEMMA ConvInitInv == ConvertInit => ConvInv
BY ConvertAssumption DEF ConvertInit, ConvInv, ConvertTypeOK, ConvPackets, NewPacket, PeerState

LEMMA ConvNextInv == ConvInv /\ [ConvertNext]_convVars => ConvInv'
<1> SUFFICES ASSUME ConvInv, [ConvertNext]_convVars PROVE ConvInv'
  OBVIOUS
<1> USE DEF ConvInv, ConvertTypeOK
<1>1. ASSUME ReadAsked PROVE ConvInv'
  <2>1. CASE toConv # <<>> /\ convPacket' = Head(toConv) /\ toConv' = Tail(toConv)
    <3>1. Head(toConv) \in ConvPackets /\ Tail(toConv) \in Seq(ConvPackets)
      BY <2>1, Taken
    <3>2. Len(toConv) = 1 => Head(toConv) = toConv[1] /\ Tail(toConv) = <<>>
      BY OneTaken
    <3> QED
      BY <1>1, <2>1, <3>1, <3>2, EmptySeq DEF ReadAsked, OnItsWay, IsRequest, IsAnswer
  <2>2. CASE toConv = <<>> /\ convPeer \in {"fin", "rst"} /\ UNCHANGED toConv
    <3>1. NewPacket(Junk) \in ConvPackets /\ NewPacket("quit") \in ConvPackets
      BY DEF NewPacket, ConvPackets
    <3>2. convPacket' \in ConvPackets
      BY <1>1, <2>2, <3>1 DEF ReadAsked
    <3> QED
      BY <1>1, <2>2, <3>2, EmptySeq DEF ReadAsked, OnItsWay, IsRequest, IsAnswer
  <2> QED
    BY <1>1, <2>1, <2>2 DEF ReadAsked
<1>2. ASSUME ReadFails PROVE ConvInv'
  BY <1>2 DEF ReadFails, OnItsWay
<1>3. ASSUME AnswerAsked PROVE ConvInv'
  <2>1. convPacket' \in ConvPackets
    BY <1>3 DEF AnswerAsked, Converted, ConvPackets
  <2>2. CASE convPeer = "open"
    <3>1. toAsk' \in Seq(ConvPackets)
      BY <1>3, <2>1, <2>2, AppendProperties DEF AnswerAsked
    <3>2. CASE askPc = "wait"
      <4>1. /\ toAsk' = Append(<<>>, convPacket')
            /\ convPacket' = Converted(convPacket) /\ IsRequest(convPacket)
            /\ toConv' = <<>> /\ convPc' = "read" /\ askPc' = "wait" /\ lastTyped' = lastTyped
        BY <1>3, <2>2, <3>2 DEF AnswerAsked, OnItsWay, WriteKills
      <4>2. IsAnswer(convPacket)'
        BY <2>1, <4>1 DEF Converted, IsRequest, IsAnswer, ConvPackets
      <4>3. OnItsWay'
        BY <2>1, <4>1, <4>2, OneQueued DEF OnItsWay, IsAnswer
      <4> QED
        BY <1>3, <2>1, <2>2, <3>1, <3>2, <4>1, <4>3 DEF AnswerAsked
    <3>3. CASE askPc # "wait"
      BY <1>3, <2>1, <2>2, <3>1, <3>3 DEF AnswerAsked, WriteKills
    <3> QED
      BY <3>2, <3>3
  <2>3. CASE convPeer # "open"
    <3>1. convPeer' \in PeerState
      BY <1>3, <2>3 DEF AnswerAsked, AfterWrite, PeerState
    <3> QED
      BY <1>3, <2>1, <2>3, <3>1 DEF AnswerAsked
  <2> QED
    BY <2>2, <2>3
<1>4. ASSUME TypeAddress PROVE ConvInv'
  <2>1. /\ askPacket' = [askPacket EXCEPT !.cmd = "request", !.addr = lastTyped']
        /\ askPacket' \in ConvPackets /\ toConv' = Append(<<>>, askPacket')
    BY <1>4 DEF TypeAddress, ConvPackets
  <2>2. IsRequest(askPacket)'
    BY <2>1 DEF IsRequest, ConvPackets
  <2>3. OnItsWay' /\ toConv' \in Seq(ConvPackets)
    BY <1>4, <2>1, <2>2, OneQueued DEF TypeAddress, OnItsWay, IsRequest
  <2>4. asks' \in 0 .. MaxAsks
    BY <1>4, ConvertAssumption DEF TypeAddress
  <2> QED
    BY <1>4, <2>1, <2>3, <2>4 DEF TypeAddress
<1>5. ASSUME TypeEnd PROVE ConvInv'
  <2>1. /\ askPacket' \in ConvPackets /\ askPacket'.cmd = "quit"
        /\ toConv' = Append(<<>>, askPacket')
    BY <1>5 DEF TypeEnd, ConvPackets
  <2>2. toConv' \in Seq(ConvPackets) /\ Len(toConv') = 1 /\ toConv'[1] = askPacket'
    BY <2>1, OneQueued
  <2>3. convPeer' \in PeerState
    BY <1>5 DEF TypeEnd, AfterClose, PeerState
  <2> QED
    BY <1>5, <2>1, <2>2, <2>3 DEF TypeEnd
<1>6. ASSUME TakeAnswer PROVE ConvInv'
  <2>1. convPc = "read" /\ toConv = <<>> /\ Len(toAsk) = 1 /\ IsAnswer(toAsk[1])
    BY <1>6, EmptySeq DEF TakeAnswer, OnItsWay
  <2>2. Head(toAsk) = toAsk[1] /\ toAsk[1] \in ConvPackets /\ Tail(toAsk) = <<>>
    BY <2>1, OneTaken
  <2> QED
    BY <1>6, <2>1, <2>2 DEF TakeAnswer, IsAnswer
<1>7. ASSUME KillUser PROVE ConvInv'
  <2>1. convPeer' \in PeerState
    BY <1>7 DEF KillUser, AfterClose, PeerState
  <2> QED
    BY <1>7, <2>1 DEF KillUser
<1>8. CASE UNCHANGED convVars
  BY <1>8 DEF convVars, OnItsWay, IsRequest, IsAnswer
<1> QED
  BY <1>1, <1>2, <1>3, <1>4, <1>5, <1>6, <1>7, <1>8 DEF ConvertNext, ConvertStep

\* The state of the conversion is what it is declared to be.
THEOREM ConvertTypes == ConvertSpec => []ConvertTypeOK
<1>1. ConvInv => ConvertTypeOK
  BY DEF ConvInv
<1> QED
  BY <1>1, ConvInitInv, ConvNextInv, PTL DEF ConvertSpec

\* A user is shown the conversion of what he typed last, from a packet that
\* carries what earlier answers left in it.
THEOREM ConvertShown == ConvertSpec => []ShownIsAsked
<1>1. ConvInv => ShownIsAsked
  BY DEF ConvInv, ShownIsAsked, IsAnswer
<1> QED
  BY <1>1, ConvInitInv, ConvNextInv, PTL DEF ConvertSpec
-----------------------------------------------------------------------------
(***************************************************************************)
(* The transfer with sequence numbers.                                     *)
(***************************************************************************)

\* What the client has written is n bytes in whole blocks.
WholeBlocks(n) == rxSize = n /\ n = Len(received) * SEQ_BUF

\* A packet that carries bytes of the file.
Carries(p) == p.len > 0 /\ p.at + p.len <= MaxSent

\* Where the single packet is while the server waits for an acknowledgment:
\* the block is on its way, its acknowledgment is, or the client, which does
\* not acknowledge the last block, has ended.
BlockSent ==
  /\ toSender = <<>> /\ toReceiver = <<txPacket>>
  /\ receiver \in {"open", "receive"}
  /\ txPacket.seq = NumberAt(txPacket.at)
  /\ WholeBlocks(txPacket.at)
  /\ txPacket.len > 0
  /\ txSize = txPacket.at + txPacket.len
  /\ txPacket.len < SEQ_BUF /\ ~sameDir => txSize = hwFile

BlockAcknowledged ==
  /\ toReceiver = <<>> /\ Len(toSender) = 1
  /\ receiver = "receive"
  /\ toSender[1].ack = NumberAt(txSize)
  /\ toSender[1].len = SEQ_BUF
  /\ WholeBlocks(txSize)

LastSaved ==
  /\ toReceiver = <<>> /\ toSender = <<>>
  /\ receiver = "end"
  /\ txPacket.len < SEQ_BUF
  /\ rxSize = txSize
  /\ ~sameDir => txSize = hwFile

\* Each state of the server says where the packet is and how far the two files
\* are, as long as the client is not killed.
BothAlive ==
  /\ receiver = "ask" => sender = "request" /\ toSender = <<>>
  /\ receiver \in {"ask", "open"} => received = <<>>
  /\ sameDir /\ receiver \in {"receive", "end"} => hwFile = rxSize
  /\ ~sameDir /\ sender \in {"send", "ack"} => txSize <= hwFile
  /\ sender = "request" =>
       /\ toReceiver = <<>> /\ receiver # "end"
       /\ toSender # <<>> => Len(toSender) = 1
       /\ txSize = 0 /\ received = <<>>
  /\ sender = "send" =>
       /\ toReceiver = <<>> /\ toSender = <<>>
       /\ receiver \in {"open", "receive"}
       /\ txPacket.seq = NumberAt(txSize)
       /\ WholeBlocks(txSize)
  /\ sender = "ack" => BlockSent \/ BlockAcknowledged \/ LastSaved
  /\ sender = "end" =>
       /\ toReceiver = <<>>
       /\ rxSize = txSize
       /\ ~sameDir => txSize = hwFile
  /\ sender = "failed" => toReceiver = <<FileNotFound>> /\ received = <<>>

\* The inductive invariant.
SeqInv ==
  /\ SeqTypeOK
  /\ \A i \in DOMAIN toReceiver : toReceiver[i] # FileNotFound => Carries(toReceiver[i])
  /\ \A i \in DOMAIN received : received[i].at = (i - 1) * SEQ_BUF
  /\ receiver # "dead" => BothAlive

\* The numbers of the first block and of the one after it.
LEMMA NumberNext ==
  ASSUME NEW n \in Nat
  PROVE  /\ NumberAt(0) = SEQ_START
         /\ NumberAt(n) \in Nat
         /\ NumberAt(n + SEQ_BUF) = NumberAt(n) + SEQ_BUF + 1
<1>1. n \div SEQ_BUF \in Nat /\ 0 \div SEQ_BUF = 0
  BY SeqAssumption
<1>2. (n + SEQ_BUF) \div SEQ_BUF = n \div SEQ_BUF + 1
  BY SeqAssumption
<1> QED
  BY <1>1, <1>2, SeqAssumption DEF NumberAt

\* One block more.
LEMMA BlockMore ==
  ASSUME NEW n \in Nat
  PROVE  /\ n * SEQ_BUF \in Nat
         /\ (n + 1) * SEQ_BUF = n * SEQ_BUF + SEQ_BUF
         /\ 0 * SEQ_BUF = 0
BY SeqAssumption

\* What the client's file is before anything is written, and after a block is.
LEMMA FileGrows ==
  ASSUME SeqTypeOK, NEW at \in 0 .. MaxSent, NEW len \in 1 .. SEQ_BUF,
         received' = Append(received, [at |-> at, len |-> len])
  PROVE  /\ received' \in Seq([at : 0 .. MaxSent, len : 1 .. SEQ_BUF])
         /\ Len(received') = Len(received) + 1
         /\ DOMAIN received' = DOMAIN received \cup {Len(received) + 1}
         /\ \A i \in DOMAIN received : received'[i] = received[i] /\ i \in Int
         /\ received'[Len(received) + 1] = [at |-> at, len |-> len]
         /\ rxSize' = at + len
<1> DEFINE S == [at : 0 .. MaxSent, len : 1 .. SEQ_BUF]
           b == [at |-> at, len |-> len]
<1>1. b \in S /\ received \in Seq(S)
  BY DEF SeqTypeOK
<1>2. b.at = at /\ b.len = len
  OBVIOUS
<1>3. received' = Append(received, b)
  OBVIOUS
<1> HIDE DEF S, b
<1>4. /\ received' \in Seq(S) /\ Len(received') = Len(received) + 1
      /\ \A i \in 1 .. Len(received) : received'[i] = received[i]
      /\ received'[Len(received) + 1] = b
  BY <1>1, <1>3, AppendProperties
<1>5. /\ Len(received) \in Nat /\ DOMAIN received = 1 .. Len(received)
      /\ DOMAIN received' = 1 .. Len(received')
  BY <1>1, <1>4, LenProperties
<1>6. DOMAIN received' = DOMAIN received \cup {Len(received) + 1}
  <2>1. DOMAIN received' = 1 .. Len(received) + 1
    BY <1>4, <1>5
  <2> HIDE DEF S
  <2> QED
    BY <1>5, <2>1
<1>7. received' # <<>>
  BY <1>4, <1>5, EmptySeq
<1>8. rxSize' = at + len
  BY <1>2, <1>4, <1>7 DEF rxSize
<1> QED
  BY <1>4, <1>5, <1>6, <1>8 DEF S, b

LEMMA SeqInitInv == SeqInit => SeqInv
<1> SUFFICES ASSUME SeqInit PROVE SeqInv
  OBVIOUS
<1>1. SeqTypeOK
  <2>1. Absent \in Absent .. MaxSent /\ Absent \in Absent .. SEQ_BUF /\ 0 \in 0 .. MaxSent
    BY SeqAssumption DEF Absent
  <2>2. FileNotFound \in PacketType
    BY <2>1 DEF FileNotFound, Packet, PacketType
  <2>3. received \in Seq([at : 0 .. MaxSent, len : 1 .. SEQ_BUF])
    BY DEF SeqInit
  <2>4. toSender \in Seq(PacketType) /\ toReceiver \in Seq(PacketType)
    BY DEF SeqInit
  <2> QED
    BY <2>1, <2>2, <2>3, <2>4 DEF SeqInit, SeqTypeOK
<1>2. BothAlive
  BY DEF SeqInit, BothAlive
<1> QED
  BY <1>1, <1>2 DEF SeqInit, SeqInv
\* What the server reads is a packet, and little of it is left.
LEMMA ClientRead ==
  ASSUME SeqTypeOK, ReadClient
  PROVE  /\ toSender' \in Seq(PacketType)
         /\ \A p \in PacketType : ReadInto(p) \in PacketType
         /\ Len(toSender) = 1 => ReadInto(txPacket) = toSender[1] /\ toSender' = <<>>
         /\ toSender = <<>> => ReadInto(txPacket) = txPacket /\ toSender' = <<>>
<1>1. toSender' = SubSeq(toSender, 2, Len(toSender)) /\ Len(toSender) \in Nat
      /\ toSender \in Seq(PacketType)
  BY LenProperties DEF ReadClient, SeqTypeOK
<1>2. toSender' \in Seq(PacketType)
  <2>1. \A i \in 2 .. Len(toSender) : i \in 1 .. Len(toSender)
    BY <1>1
  <2> QED
    BY <1>1, <2>1, SubSeqProperties, ElementOfSeq
<1>3. Len(toSender) \in {0, 1} => toSender' = <<>>
  <2>1. ASSUME Len(toSender) \in {0, 1} PROVE Len(toSender') = 0
    BY <1>1, <2>1, SubSeqProperties
  <2> QED
    BY <1>2, <2>1, EmptySeq
<1>4. toSender # <<>> => Head(toSender) \in PacketType /\ Head(toSender) = toSender[1]
  BY <1>1, Taken
<1>5. Len(toSender) = 0 <=> toSender = <<>>
  BY <1>1, EmptySeq
<1> QED
  BY <1>2, <1>3, <1>4, <1>5 DEF ReadInto

\* A block that the client writes is the one the server waits to be acknowledged.
LEMMA BlockSaved ==
  ASSUME SeqInv, SaveBlock, UNCHANGED <<sameDir, txVars>>
  PROVE  /\ sender = "ack" /\ BlockSent /\ receiver = "receive"
         /\ Head(toReceiver) = txPacket /\ toReceiver' = <<>>
         /\ hwFile' \in Absent .. MaxSent
         /\ received' \in Seq([at : 0 .. MaxSent, len : 1 .. SEQ_BUF])
         /\ Len(received') = Len(received) + 1
         /\ rxSize' = txSize
         /\ \A i \in DOMAIN received' : received'[i].at = (i - 1) * SEQ_BUF
         /\ sameDir => hwFile' = txSize
         /\ ~sameDir => hwFile' = hwFile
<1> USE DEF SeqInv
<1>1. /\ receiver = "receive" /\ toReceiver # <<>> /\ Head(toReceiver) # FileNotFound
      /\ BothAlive
  BY DEF SaveBlock
<1>2. sender = "ack" /\ BlockSent
  <2>1. sender # "failed"
    BY <1>1 DEF BothAlive
  <2> QED
    BY <1>1, <2>1 DEF BothAlive, BlockAcknowledged, LastSaved, SeqTypeOK
<1>3. toReceiver = <<txPacket>>
  BY <1>2 DEF BlockSent
<1>4. Head(toReceiver) = txPacket /\ Tail(toReceiver) = <<>> /\ toReceiver' = <<>>
  BY <1>3 DEF SaveBlock
<1>5. /\ txPacket.at \in 0 .. MaxSent /\ txPacket.len \in 1 .. SEQ_BUF
      /\ txSize = txPacket.at + txPacket.len /\ txSize \in 0 .. MaxSent
      /\ rxSize = txPacket.at /\ txPacket.at = Len(received) * SEQ_BUF
  BY <1>2, SeqAssumption DEF BlockSent, WholeBlocks, SeqTypeOK, PacketType, Absent
<1>6. /\ received' = Append(received, [at |-> txPacket.at, len |-> txPacket.len])
      /\ hwFile' = IF sameDir /\ hwFile < txSize THEN txSize ELSE hwFile
  BY <1>4, <1>5 DEF SaveBlock
<1>7. /\ received' \in Seq([at : 0 .. MaxSent, len : 1 .. SEQ_BUF])
      /\ Len(received') = Len(received) + 1
      /\ DOMAIN received' = DOMAIN received \cup {Len(received) + 1}
      /\ \A i \in DOMAIN received : received'[i] = received[i] /\ i \in Int
      /\ received'[Len(received) + 1] = [at |-> txPacket.at, len |-> txPacket.len]
      /\ rxSize' = txPacket.at + txPacket.len
  BY <1>5, <1>6, FileGrows
<1>8. ASSUME NEW i \in DOMAIN received' PROVE received'[i].at = (i - 1) * SEQ_BUF
  <2>1. CASE i \in DOMAIN received
    BY <1>7, <2>1
  <2>2. CASE i = Len(received) + 1
    <3>1. received'[i].at = txPacket.at
      BY <1>7, <2>2
    <3>2. Len(received) \in Nat
      BY LenProperties DEF SeqTypeOK
    <3>3. i - 1 = Len(received)
      BY <2>2, <3>2
    <3> QED
      BY <1>5, <3>1, <3>3
  <2> QED
    BY <1>7, <2>1, <2>2
<1>9. sameDir => hwFile' = txSize
  <2>1. sameDir => hwFile = txPacket.at
    BY <1>1, <1>5 DEF BothAlive
  <2> QED
    BY <1>5, <1>6, <2>1
<1>10. hwFile' \in Absent .. MaxSent /\ (~sameDir => hwFile' = hwFile)
  BY <1>5, <1>6, <1>9 DEF SeqTypeOK, Absent
<1> QED
  BY <1>1, <1>2, <1>4, <1>5, <1>7, <1>8, <1>9, <1>10

LEMMA SeqNextInv == SeqInv /\ [SeqNext]_seqVars => SeqInv'
<1> SUFFICES ASSUME SeqInv, [SeqNext]_seqVars PROVE SeqInv'
  OBVIOUS
<1> USE DEF SeqInv, txVars
<1>0. FileNotFound \in PacketType /\ FileNotFound.len = Absent
  <2>1. Absent \in Absent .. SEQ_BUF /\ 0 \in 0 .. MaxSent
    BY SeqAssumption DEF Absent
  <2> QED
    BY <2>1 DEF FileNotFound, Packet, PacketType
<1>1. ASSUME FindFile PROVE SeqInv'
  <2>1. PICK ack \in Unset :
          txPacket' = [ReadInto(Packet(0, ack, 0, 0)) EXCEPT !.seq = SEQ_START]
    BY <1>1 DEF FindFile
  <2>2. Packet(0, ack, 0, 0) \in PacketType
    <3>1. 0 \in 0 .. MaxSent /\ 0 \in Absent .. SEQ_BUF /\ ack \in Nat
      BY SeqAssumption DEF Absent, Unset
    <3> QED
      BY <3>1 DEF Packet, PacketType
  <2>3. toSender' \in Seq(PacketType) /\ ReadInto(Packet(0, ack, 0, 0)) \in PacketType
    BY <1>1, <2>2, ClientRead DEF FindFile
  <2>4. txPacket' \in PacketType /\ txPacket'.seq = SEQ_START
    BY <2>1, <2>3, SeqAssumption DEF PacketType
  <2>5. SeqTypeOK'
    BY <1>1, <2>3, <2>4 DEF FindFile, SeqTypeOK
  <2>6. ASSUME receiver # "dead" PROVE BothAlive'
    <3>1. receiver \in {"open", "receive"}
      BY <1>1, <2>6 DEF FindFile, ReadClient, Gone, BothAlive, SeqTypeOK
    <3>2. toSender' = <<>>
      BY <1>1, <2>6, <3>1, ClientRead DEF FindFile, ReadClient, Gone, BothAlive
    <3>3. txSize = 0 /\ received = <<>> /\ toReceiver = <<>>
      BY <1>1, <2>6 DEF FindFile, BothAlive
    <3>4. WholeBlocks(0)'
      BY <1>1, <3>3, BlockMore DEF FindFile, WholeBlocks, rxSize
    <3>5. hwFile >= 0
      BY <1>1 DEF FindFile, SeqTypeOK, Absent
    <3> QED
      BY <1>1, <2>4, <2>6, <3>1, <3>2, <3>3, <3>4, <3>5, NumberNext
         DEF FindFile, BothAlive, rxSize, WholeBlocks
  <2> QED
    BY <1>1, <2>5, <2>6 DEF FindFile, Carries
<1>2. ASSUME MissFile PROVE SeqInv'
  <2>1. toSender' \in Seq(PacketType)
    BY <1>2, ClientRead DEF MissFile
  <2>2. SeqTypeOK'
    <3>1. toReceiver' \in Seq(PacketType)
      BY <1>0, <1>2, AppendProperties DEF MissFile, WritePacket, SeqTypeOK
    <3> QED
      BY <1>2, <2>1, <3>1 DEF MissFile, SeqTypeOK
  <2>3. \A i \in DOMAIN toReceiver' : toReceiver'[i] # FileNotFound => Carries(toReceiver'[i])
    <3>1. CASE Gone
      BY <1>2, <3>1 DEF MissFile, WritePacket
    <3>2. CASE ~Gone
      <4>1. toReceiver = <<>>
        BY <1>2, <3>2 DEF MissFile, BothAlive, Gone
      <4>2. toReceiver' = <<FileNotFound>>
        BY <1>2, <3>2, <4>1 DEF MissFile, WritePacket
      <4> QED
        BY <4>2
    <3> QED
      BY <3>1, <3>2
  <2>4. ASSUME receiver # "dead" PROVE BothAlive'
    <3>1. ~Gone /\ receiver \in {"open", "receive"} /\ toReceiver' = <<FileNotFound>>
      BY <1>2, <2>4 DEF MissFile, ReadClient, WritePacket, Gone, BothAlive, SeqTypeOK
    <3> QED
      BY <1>2, <2>4, <3>1 DEF MissFile, BothAlive, rxSize
  <2> QED
    BY <1>2, <2>2, <2>3, <2>4 DEF MissFile
<1>3. ASSUME SendPacket PROVE SeqInv'
  <2>1. /\ hwFile \in Int /\ txSize \in Int /\ hwFile <= MaxSent /\ 0 <= txSize
        /\ SEQ_BUF \in Nat \ {0} /\ MaxSent \in Nat
    BY SeqAssumption DEF SeqTypeOK, Absent
  <2>2. /\ ReadLen \in 1 .. SEQ_BUF /\ txSize + ReadLen <= hwFile
        /\ ReadLen < SEQ_BUF => txSize + ReadLen = hwFile
    BY <1>3, <2>1 DEF SendPacket, ReadLen
  <2>3. /\ txPacket' \in PacketType /\ txPacket'.at = txSize /\ txPacket'.len = ReadLen
        /\ txPacket'.seq = txPacket.seq
    <3>1. ReadLen \in Absent .. SEQ_BUF
      BY <2>1, <2>2 DEF Absent
    <3> QED
      BY <1>3, <3>1 DEF SendPacket, PacketType, SeqTypeOK
  <2>4. txSize' \in 0 .. MaxSent /\ txSize' = txSize + ReadLen
    BY <1>3, <2>1, <2>2 DEF SendPacket
  <2>5. toReceiver' \in Seq(PacketType)
    BY <1>3, <2>3, AppendProperties DEF SendPacket, WritePacket, SeqTypeOK
  <2>6. SeqTypeOK'
    BY <1>3, <2>3, <2>4, <2>5 DEF SendPacket, SeqTypeOK
  <2>7. Carries(txPacket')
    BY <2>1, <2>2, <2>3 DEF Carries
  <2>8. ASSUME receiver # "dead"
        PROVE  BothAlive' /\ toReceiver' = <<txPacket'>>
    <3>1. ~Gone /\ toReceiver' = <<txPacket'>> /\ receiver \in {"open", "receive"}
      BY <1>3, <2>8 DEF SendPacket, BothAlive, WritePacket, Gone
    <3>2. BlockSent'
      <4>1. txPacket.seq = NumberAt(txSize) /\ WholeBlocks(txSize) /\ toSender = <<>>
        BY <1>3, <2>8 DEF SendPacket, BothAlive
      <4> QED
        BY <1>3, <2>1, <2>2, <2>3, <2>4, <3>1, <4>1 DEF SendPacket, BlockSent, WholeBlocks, rxSize
    <3> QED
      BY <1>3, <2>2, <2>4, <2>8, <3>1, <3>2 DEF SendPacket, BothAlive, rxSize
  <2>9. \A i \in DOMAIN toReceiver' : toReceiver'[i] # FileNotFound => Carries(toReceiver'[i])
    <3>1. CASE receiver = "dead"
      BY <1>3, <3>1 DEF SendPacket, WritePacket, Gone, Carries
    <3>2. CASE receiver # "dead"
      BY <2>7, <2>8, <3>2
    <3> QED
      BY <3>1, <3>2
  <2> QED
    BY <1>3, <2>6, <2>8, <2>9 DEF SendPacket
<1>4. ASSUME SendOver PROVE SeqInv'
  <2>1. SeqTypeOK'
    BY <1>4 DEF SendOver, SeqTypeOK
  <2>2. ASSUME receiver # "dead", ~sameDir PROVE txSize = hwFile
    <3>1. txSize <= hwFile
      BY <1>4, <2>2 DEF SendOver, BothAlive
    <3> QED
      BY <1>4, <3>1, SeqAssumption DEF SendOver, ReadLen, SeqTypeOK, Absent
  <2>3. ASSUME receiver # "dead" PROVE BothAlive'
    BY <1>4, <2>2, <2>3 DEF SendOver, BothAlive, WholeBlocks, rxSize
  <2> QED
    BY <1>4, <2>1, <2>3 DEF SendOver, Carries
<1>5. ASSUME ReadAck PROVE SeqInv'
  <2>1. toSender' \in Seq(PacketType) /\ ReadInto(txPacket) \in PacketType
    BY <1>5, ClientRead DEF ReadAck, SeqTypeOK
  <2>2. txPacket' \in PacketType /\ txPacket'.len = ReadInto(txPacket).len
        /\ txPacket'.seq = ReadInto(txPacket).ack
    BY <1>5, <2>1 DEF ReadAck, NextSeq, PacketType
  <2>3. SeqTypeOK'
    BY <1>5, <2>1, <2>2 DEF ReadAck, SeqTypeOK
  <2>4. ASSUME receiver # "dead" PROVE BothAlive'
    <3>1. CASE BlockSent
      BY <1>5, <2>4, <3>1 DEF ReadAck, ReadClient, Gone, BlockSent
    <3>2. CASE BlockAcknowledged
      <4>1. ReadInto(txPacket) = toSender[1] /\ toSender' = <<>>
        BY <1>5, <3>2, ClientRead DEF ReadAck, BlockAcknowledged
      <4>2. /\ sender' = "send" /\ txPacket'.seq = NumberAt(txSize) /\ txSize' = txSize
            /\ receiver' = "receive" /\ toReceiver' = <<>>
        BY <1>5, <2>2, <3>2, <4>1 DEF ReadAck, BlockAcknowledged
      <4>3. WholeBlocks(txSize)'
        BY <1>5, <3>2 DEF ReadAck, BlockAcknowledged, WholeBlocks, rxSize
      <4> QED
        BY <1>5, <2>4, <3>2, <4>1, <4>2, <4>3
           DEF ReadAck, BothAlive, BlockAcknowledged, rxSize, WholeBlocks
    <3>3. CASE LastSaved
      <4>1. ReadInto(txPacket) = txPacket /\ toSender' = <<>>
        BY <1>5, <3>3, ClientRead DEF ReadAck, LastSaved
      <4>2. txPacket.len # SEQ_BUF
        BY <3>3, SeqAssumption DEF LastSaved, SeqTypeOK, PacketType
      <4>3. sender' = "end"
        BY <1>5, <2>2, <4>1, <4>2 DEF ReadAck
      <4> QED
        BY <1>5, <2>4, <3>3, <4>3 DEF ReadAck, BothAlive, LastSaved, rxSize
    <3> QED
      BY <1>5, <2>4, <3>1, <3>2, <3>3 DEF ReadAck, BothAlive
  <2> QED
    BY <1>5, <2>3, <2>4 DEF ReadAck, Carries
<1>6. ASSUME SenderFails PROVE SeqInv'
  BY <1>6 DEF SenderFails, SeqTypeOK, Carries
<1>7. ASSUME AskFile PROVE SeqInv'
  <2>1. PICK seq \in Unset, ack \in Unset : toSender' = <<Packet(seq, ack, 0, 0)>>
    BY <1>7 DEF AskFile
  <2>2. Packet(seq, ack, 0, 0) \in PacketType
    <3>1. 0 \in 0 .. MaxSent /\ 0 \in Absent .. SEQ_BUF /\ ack \in Nat /\ seq \in Nat
      BY SeqAssumption DEF Absent, Unset
    <3> QED
      BY <3>1 DEF Packet, PacketType
  <2>3. SeqTypeOK' /\ Len(toSender') = 1
    BY <1>7, <2>1, <2>2 DEF AskFile, SeqTypeOK
  <2>4. BothAlive'
    BY <1>7, <2>3 DEF AskFile, BothAlive
  <2> QED
    BY <1>7, <2>3, <2>4 DEF AskFile, Carries
<1>8. ASSUME OpenFile PROVE SeqInv'
  <2>1. SeqTypeOK'
    BY <1>8, SeqAssumption DEF OpenFile, SeqTypeOK, Absent
  <2>2. received = <<>> /\ rxSize' = 0
    BY <1>8 DEF OpenFile, BothAlive, rxSize
  <2>3. BothAlive'
    BY <1>8, <2>2 DEF OpenFile, BothAlive, BlockSent, BlockAcknowledged, LastSaved, WholeBlocks, rxSize
  <2> QED
    BY <1>8, <2>1, <2>3 DEF OpenFile, Carries
<1>9. ASSUME ReceiveNotFound PROVE SeqInv'
  <2>1. SeqTypeOK'
    BY <1>9 DEF ReceiveNotFound, SeqTypeOK
  <2>2. BothAlive'
    <3>1. sender = "failed"
      <4>1. ~BlockSent
        BY <1>0, <1>9, SeqAssumption DEF ReceiveNotFound, BlockSent, Absent
      <4> QED
        BY <1>9, <4>1 DEF ReceiveNotFound, BothAlive, BlockAcknowledged, LastSaved, SeqTypeOK
    <3> QED
      BY <1>9, <3>1 DEF ReceiveNotFound, BothAlive, rxSize
  <2> QED
    BY <1>9, <2>1, <2>2 DEF ReceiveNotFound, Carries<1>10. ASSUME ReceiveBlock PROVE SeqInv'
  <2>1. /\ sender = "ack" /\ BlockSent /\ receiver = "receive"
        /\ Head(toReceiver) = txPacket /\ toReceiver' = <<>>
        /\ hwFile' \in Absent .. MaxSent
        /\ received' \in Seq([at : 0 .. MaxSent, len : 1 .. SEQ_BUF])
        /\ Len(received') = Len(received) + 1
        /\ rxSize' = txSize
        /\ \A i \in DOMAIN received' : received'[i].at = (i - 1) * SEQ_BUF
        /\ sameDir => hwFile' = txSize
        /\ ~sameDir => hwFile' = hwFile
    BY <1>10, BlockSaved DEF ReceiveBlock
  <2> DEFINE p == Acknowledged(txPacket)
  <2>2. txPacket.len = SEQ_BUF /\ toSender' = Append(<<>>, p)
    BY <1>10, <2>1 DEF ReceiveBlock, BlockSent
  <2>3. txPacket \in PacketType /\ txPacket.at \in Nat
    BY DEF SeqTypeOK, PacketType
  <2>4. txSize = txPacket.at + SEQ_BUF /\ txPacket.seq = NumberAt(txPacket.at)
        /\ txPacket.at = Len(received) * SEQ_BUF
    BY <2>1, <2>2 DEF BlockSent, WholeBlocks
  <2>5. p \in PacketType /\ p.ack = NumberAt(txSize) /\ p.len = SEQ_BUF
    <3>1. NumberAt(txSize) = txPacket.seq + txPacket.len + 1 /\ NumberAt(txSize) \in Nat
      BY <2>2, <2>3, <2>4, NumberNext, SeqAssumption
    <3> QED
      BY <2>2, <2>3, <3>1 DEF Acknowledged, PacketType
  <2> HIDE DEF p
  <2>6. toSender' \in Seq(PacketType) /\ Len(toSender') = 1 /\ toSender'[1] = p
    BY <2>2, <2>5, OneQueued
  <2>7. WholeBlocks(txSize)'
    <3>1. txSize = Len(received') * SEQ_BUF
      <4>1. Len(received) \in Nat
        BY LenProperties DEF SeqTypeOK
      <4> QED
        BY <2>1, <2>4, <4>1, BlockMore
    <3> QED
      BY <1>10, <2>1, <3>1 DEF ReceiveBlock, WholeBlocks
  <2>8. BlockAcknowledged'
    BY <1>10, <2>1, <2>5, <2>6, <2>7 DEF ReceiveBlock, BlockAcknowledged, NumberAt
  <2>9. SeqTypeOK'
    BY <1>10, <2>1, <2>6 DEF ReceiveBlock, SeqTypeOK
  <2>10. BothAlive'
    BY <1>10, <2>1, <2>8 DEF ReceiveBlock, BothAlive
  <2> QED
    BY <1>10, <2>1, <2>9, <2>10 DEF ReceiveBlock
<1>11. ASSUME ReceiveLast PROVE SeqInv'
  <2>1. /\ sender = "ack" /\ BlockSent /\ receiver = "receive"
        /\ Head(toReceiver) = txPacket /\ toReceiver' = <<>>
        /\ hwFile' \in Absent .. MaxSent
        /\ received' \in Seq([at : 0 .. MaxSent, len : 1 .. SEQ_BUF])
        /\ rxSize' = txSize
        /\ \A i \in DOMAIN received' : received'[i].at = (i - 1) * SEQ_BUF
        /\ sameDir => hwFile' = txSize
        /\ ~sameDir => hwFile' = hwFile
    BY <1>11, BlockSaved DEF ReceiveLast
  <2>2. txPacket.len < SEQ_BUF
    BY <1>11, <2>1, SeqAssumption, SMTT(30) DEF ReceiveLast, SeqTypeOK, PacketType, Absent
  <2>3. LastSaved'
    BY <1>11, <2>1, <2>2 DEF ReceiveLast, LastSaved, BlockSent
  <2>4. SeqTypeOK'
    BY <1>11, <2>1 DEF ReceiveLast, SeqTypeOK
  <2>5. BothAlive'
    BY <1>11, <2>1, <2>3 DEF ReceiveLast, BothAlive
  <2> QED
    BY <1>11, <2>1, <2>4, <2>5 DEF ReceiveLast
<1>12. ASSUME ReceiveOver PROVE SeqInv'
  <2>1. SeqTypeOK'
    BY <1>12 DEF ReceiveOver, SeqTypeOK
  <2>2. BothAlive'
    BY <1>12 DEF ReceiveOver, BothAlive, rxSize
  <2> QED
    BY <1>12, <2>1, <2>2 DEF ReceiveOver
<1>13. ASSUME KillReceiver PROVE SeqInv'
  <2>1. SeqTypeOK'
    BY <1>13 DEF KillReceiver, SeqTypeOK
  <2> QED
    BY <1>13, <2>1 DEF KillReceiver, Carries
<1>14. CASE UNCHANGED seqVars
  BY <1>14 DEF seqVars, SeqTypeOK, BothAlive, BlockSent, BlockAcknowledged, LastSaved,
               WholeBlocks, rxSize, Carries
<1> QED
  BY <1>1, <1>2, <1>3, <1>4, <1>5, <1>6, <1>7, <1>8, <1>9, <1>10, <1>11, <1>12, <1>13, <1>14
     DEF SeqNext, SendStep, ReceiveStep

\* The state of the transfer is what it is declared to be.
THEOREM SeqTypes == SeqSpec => []SeqTypeOK
<1>1. SeqInv => SeqTypeOK
  BY DEF SeqInv
<1> QED
  BY <1>1, SeqInitInv, SeqNextInv, PTL DEF SeqSpec

\* The numbers count the bytes sent and the blocks, and when both programs end
\* the client has the file, or, in the server's directory, what the server had
\* read of it: for every length of a block and of a file.
THEOREM SeqWhole == SeqSpec => []TransferWhole
<1>1. ASSUME SeqInv PROVE TransferWhole
  <2>1. ASSUME receiver # "dead"
        PROVE  /\ sender = "send" => txPacket.seq = NumberAt(txSize)
               /\ \A i \in DOMAIN toReceiver :
                    toReceiver[i] # FileNotFound => toReceiver[i].seq = NumberAt(toReceiver[i].at)
               /\ sender = "ack" => \A i \in DOMAIN toSender : toSender[i].ack = NumberAt(txSize)
    <3>1. BothAlive
      BY <1>1, <2>1 DEF SeqInv
    <3>2. ASSUME NEW i \in DOMAIN toReceiver, toReceiver[i] # FileNotFound
          PROVE  toReceiver[i].seq = NumberAt(toReceiver[i].at)
      BY <1>1, <3>1, <3>2
         DEF BothAlive, BlockSent, BlockAcknowledged, LastSaved, SeqInv, SeqTypeOK
    <3>3. ASSUME sender = "ack", NEW i \in DOMAIN toSender
          PROVE  toSender[i].ack = NumberAt(txSize)
      <4>1. CASE BlockAcknowledged
        <5>1. DOMAIN toSender = 1 .. Len(toSender)
          BY <1>1, LenProperties DEF SeqInv, SeqTypeOK
        <5> QED
          BY <3>3, <4>1, <5>1 DEF BlockAcknowledged
      <4>2. CASE ~BlockAcknowledged
        BY <3>1, <3>3, <4>2 DEF BothAlive, BlockSent, LastSaved
      <4> QED
        BY <4>1, <4>2
    <3> QED
      BY <3>1, <3>2, <3>3 DEF BothAlive
  <2>2. sender = "end" /\ receiver = "end" => hwFile = rxSize /\ hwFile = txSize
    BY <1>1 DEF SeqInv, BothAlive, SeqTypeOK
  <2> QED
    BY <1>1, <2>1, <2>2 DEF SeqInv, TransferWhole
<1> QED
  BY <1>1, SeqInitInv, SeqNextInv, PTL DEF SeqSpec

-----------------------------------------------------------------------------
(***************************************************************************)
(* The file push.                                                          *)
(***************************************************************************)

\* What the server has read of the file.
PushRange ==
  /\ pushFile = Missing => pushSize = 0 /\ pushPc \in {"request", "end"}
  /\ pushFile # Missing => pushSize <= pushFile
  /\ pushCount <= pushSize
  /\ pushPc = "request" => pushFile = Missing /\ pushCount = 0
  /\ pushPc = "push" => pushSize = pushCount * PUSH_BUF

\* The blocks of q are in the order they have in the file, and end before n.
InOrder(q, n) ==
  /\ \A i, j \in DOMAIN q : i < j => q[i].at + q[i].len <= q[j].at
  /\ \A i \in DOMAIN q : q[i].at + q[i].len <= n

\* While datagrams are only lost: what a client has comes before what is on its
\* way to it, and nothing is ahead of the server.
LossInv ==
  Suffered \subseteq {"loss"} =>
    \A c \in Fetchers :
      /\ InOrder(fetched[c], pushSize)
      /\ InOrder(toFetcher[c], pushSize)
      /\ \A i \in DOMAIN fetched[c], j \in DOMAIN toFetcher[c] :
           fetched[c][i].at + fetched[c][i].len <= toFetcher[c][j].at

\* What the i-th datagram on its way to c says of the server.
Announced(c, i) ==
  LET b == toFetcher[c][i]
  IN  /\ b.at = (Len(fetched[c]) + i - 1) * PUSH_BUF
      /\ b.cmd = "FILE_RES" => b.len = PUSH_BUF
      /\ b.cmd = "FILE_END" =>
           /\ pushPc \in {"ack", "end"} /\ pushFile # Missing
           /\ i = Len(toFetcher[c])
           /\ Len(fetched[c]) + i = pushCount
           /\ b.at + b.len = pushFile /\ pushSize = pushFile
      /\ b.cmd = "FILE_NOT_FOUND" =>
           /\ pushPc = "end" /\ pushFile = Missing
           /\ i = Len(toFetcher[c])

\* What client c has while the network does nothing wrong.
Held(c) ==
  /\ \A i \in DOMAIN fetched[c] : fetched[c][i].at = (i - 1) * PUSH_BUF
  /\ \A i \in DOMAIN toFetcher[c] : Announced(c, i)
  /\ fetchPc[c] # "end" => fetchSize[c] = Len(fetched[c]) * PUSH_BUF
  /\ fetchPc[c] = "end" =>
       /\ pushPc \in {"ack", "end"}
       /\ pushFile # Missing => /\ fetchSize[c] = pushFile /\ pushSize = pushFile
                                /\ Len(fetched[c]) = pushCount
  /\ pushPc = "request" => toFetcher[c] = <<>> /\ fetched[c] = <<>>
  /\ pushPc = "push" /\ pushPeer = c => Len(fetched[c]) + Len(toFetcher[c]) = pushCount

CleanInv == Suffered = {} => \A c \in Fetchers : Held(c)

\* Nobody but c has asked, and no datagram was doubled.
OnlyAsks(c) == "dup" \notin Suffered /\ \A d \in Fetchers \ {c} : fetchPc[d] = "start"

\* Then c's request is the first datagram and its acknowledgment the second.
AckInv ==
  \A c \in Fetchers : OnlyAsks(c) =>
    /\ pushPc = "request" =>
         /\ fetchPc[c] = "start" => toPusher = <<>>
         /\ Len(toPusher) <= 1
         /\ toFetcher[c] = <<>> /\ fetchPc[c] # "end"
    /\ pushPc # "request" =>
         fetchPc[c] # "start" /\ (fetchPc[c] # "end" => toPusher = <<>>)
    /\ pushPc = "end" /\ pushFile # Missing /\ ~FullBlocksOnly => fetchPc[c] = "end"

PushInv == PushTypeOK /\ PushRange /\ LossInv /\ CleanInv /\ AckInv

LEMMA InitPushInv == PushInit => PushInv
<1> SUFFICES ASSUME PushInit PROVE PushInv
  OBVIOUS
<1> USE PushAssumption DEF PushInit
<1>1. PushTypeOK
  BY EmptySeq DEF PushTypeOK, Missing
<1>2. PushRange
  BY DEF PushRange
<1>3. LossInv
  BY DEF LossInv, InOrder
<1>4. \A c \in Fetchers : Held(c)
  BY DEF Held
<1>5. AckInv
  BY DEF AckInv
<1> QED
  BY <1>1, <1>2, <1>3, <1>4, <1>5 DEF PushInv, CleanInv

\* What the network does to a queue leaves a queue of the same datagrams.
LEMMA Mistreated ==
  ASSUME NEW S, NEW q \in Seq(S), NEW fault \in {"loss", "dup", "swap"},
         NEW r \in Mistreat(q, fault)
  PROVE  r \in Seq(S)
<1>1. CASE fault = "loss"
  BY <1>1, Spliced DEF Mistreat
<1>2. CASE fault = "dup"
  BY <1>2, Spliced DEF Mistreat
<1>3. CASE fault = "swap"
  BY <1>3, Swapped DEF Mistreat
<1> QED
  BY <1>1, <1>2, <1>3

\* What the network has done stays done.
LEMMA MoreSuffered ==
  ASSUME PushTypeOK, PushNetwork
  PROVE  \E fault \in {"loss", "dup", "swap"} :
           /\ pushFaults' = Append(pushFaults, fault)
           /\ pushFaults' \in Seq({"loss", "dup", "swap"})
           /\ fault \in Suffered' /\ Suffered \subseteq Suffered'
           /\ \/ /\ toPusher' \in Mistreat(toPusher, fault)
                 /\ UNCHANGED toFetcher
              \/ /\ \E c \in Fetchers : \E q \in Mistreat(toFetcher[c], fault) :
                      toFetcher' = [toFetcher EXCEPT ![c] = q]
                 /\ UNCHANGED toPusher
<1>1. PICK fault \in {"loss", "dup", "swap"} :
        /\ pushFaults' = Append(pushFaults, fault)
        /\ \/ /\ toPusher' \in Mistreat(toPusher, fault)
              /\ UNCHANGED toFetcher
           \/ /\ \E c \in Fetchers : \E q \in Mistreat(toFetcher[c], fault) :
                   toFetcher' = [toFetcher EXCEPT ![c] = q]
              /\ UNCHANGED toPusher
  BY DEF PushNetwork
<1>2. /\ pushFaults \in Seq({"loss", "dup", "swap"})
      /\ Len(pushFaults) \in Nat /\ DOMAIN pushFaults = 1 .. Len(pushFaults)
  BY LenProperties DEF PushTypeOK
<1>3. /\ pushFaults' \in Seq({"loss", "dup", "swap"})
      /\ DOMAIN pushFaults' = 1 .. Len(pushFaults) + 1
      /\ pushFaults'[Len(pushFaults) + 1] = fault
      /\ \A i \in 1 .. Len(pushFaults) : pushFaults'[i] = pushFaults[i]
  BY <1>1, <1>2, AppendProperties, LenProperties
<1>4. fault \in Suffered' /\ Suffered \subseteq Suffered'
  BY <1>2, <1>3 DEF Suffered, ToSet
<1> QED
  BY <1>1, <1>3, <1>4

LEMMA PushQueues ==
  ASSUME PushTypeOK, NEW c \in Fetchers
  PROVE  /\ toFetcher[c] \in Seq(Datagrams) /\ Len(toFetcher[c]) \in Nat
         /\ DOMAIN toFetcher[c] = 1 .. Len(toFetcher[c])
         /\ \A i \in DOMAIN toFetcher[c] : toFetcher[c][i] \in Datagrams
         /\ fetched[c] \in Seq(Datagrams) /\ Len(fetched[c]) \in Nat
         /\ DOMAIN fetched[c] = 1 .. Len(fetched[c])
         /\ \A i \in DOMAIN fetched[c] : fetched[c][i] \in Datagrams
BY LenProperties, ElementOfSeq DEF PushTypeOK

\* The server sends a block of the bytes it has just read.
LEMMA BlockTypes ==
  ASSUME PushTypeOK, PushRange, PushFull \/ PushShort
  PROVE  \E cmd \in {"FILE_RES", "FILE_END"}, len \in 1 .. PUSH_BUF :
           /\ Block(cmd, pushSize, len) \in Datagrams
           /\ toFetcher' = [toFetcher EXCEPT ![pushPeer] = Append(@, Block(cmd, pushSize, len))]
           /\ pushSize' = pushSize + len /\ pushSize + len <= pushFile
           /\ pushCount' = pushCount + 1
           /\ pushPc = "push" /\ pushPeer \in Fetchers /\ pushFile \in 0 .. MaxFile
           /\ cmd = "FILE_RES" => len = PUSH_BUF /\ pushPc' = "push"
           /\ cmd = "FILE_END" => pushSize + len = pushFile /\ pushPc' = "ack"
           /\ UNCHANGED <<toPusher, pushFaults, pushFile, pushPeer, fetchers>>
<1> USE PushAssumption
<1>1. pushPc = "push" /\ pushPeer \in Fetchers /\ pushFile \in 0 .. MaxFile /\ pushSize \in 0 .. MaxFile
  BY DEF PushFull, PushShort, PushTypeOK, PushRange, Missing
<1>2. ASSUME NEW cmd \in {"FILE_RES", "FILE_END"}, NEW len \in 1 .. PUSH_BUF
      PROVE  Block(cmd, pushSize, len) \in Datagrams
  BY <1>1 DEF Block, Datagrams
<1>3. CASE PushFull
  <2>1. PUSH_BUF \in 1 .. PUSH_BUF /\ pushSize + PUSH_BUF <= pushFile
    BY <1>1, <1>3 DEF PushFull, BytesLeft
  <2>2. /\ toFetcher' = [toFetcher EXCEPT ![pushPeer] =
                           Append(@, Block("FILE_RES", pushSize, PUSH_BUF))]
        /\ pushSize' = pushSize + PUSH_BUF /\ pushCount' = pushCount + 1 /\ pushPc' = "push"
        /\ UNCHANGED <<toPusher, pushFaults, pushFile, pushPeer, fetchers>>
    BY <1>1, <1>3 DEF PushFull, Count, SendBlock
  <2> QED
    BY <1>1, <1>2, <2>1, <2>2
<1>4. CASE PushShort
  <2>1. BytesLeft \in 1 .. PUSH_BUF /\ pushSize + BytesLeft = pushFile
    BY <1>1, <1>4 DEF PushShort, BytesLeft
  <2>2. /\ toFetcher' = [toFetcher EXCEPT ![pushPeer] =
                           Append(@, Block("FILE_END", pushSize, BytesLeft))]
        /\ pushSize' = pushSize + BytesLeft /\ pushCount' = pushCount + 1 /\ pushPc' = "ack"
        /\ UNCHANGED <<toPusher, pushFaults, pushFile, pushPeer, fetchers>>
    BY <1>4 DEF PushShort, Count, SendBlock
  <2>3. Block("FILE_END", pushSize, BytesLeft) \in Datagrams
    BY <1>2, <2>1
  <2> HIDE DEF BytesLeft
  <2>4. /\ pushSize' = pushSize + BytesLeft /\ pushSize + BytesLeft <= pushFile
        /\ "FILE_END" \in {"FILE_RES", "FILE_END"}
    BY <1>1, <2>1, <2>2
  <2> QED
    BY <1>1, <2>1, <2>2, <2>3, <2>4
<1> QED
  BY <1>3, <1>4

LEMMA ServerPushTypes ==
  ASSUME PushTypeOK, PushRange, PushServer
  PROVE  PushTypeOK' /\ PushRange'
<1> USE PushAssumption DEF pusher, fetchers, pushNet
<1>1. CASE ServeRequest
  <2>1. /\ pushPc = "request" /\ toPusher # <<>> /\ pushPeer' = Head(toPusher).from
        /\ toPusher' = Tail(toPusher)
        /\ UNCHANGED <<pushFaults, pushSize, pushCount, fetched, fetchPc, fetchSize>>
    BY <1>1 DEF ServeRequest
  <2>2. /\ Head(toPusher) \in [from : Fetchers, cmd : {"FILE_REQ", "FILE_END_ACK"}]
        /\ toPusher' \in Seq([from : Fetchers, cmd : {"FILE_REQ", "FILE_END_ACK"}])
    BY <2>1, Taken DEF PushTypeOK
  <2>3. pushPeer' \in Fetchers
    BY <2>1, <2>2
  <2>4. pushSize = 0 /\ pushCount = 0
    BY <2>1 DEF PushRange, PushTypeOK
  <2>5. CASE pushFile' \in 0 .. MaxFile /\ pushPc' = "push" /\ UNCHANGED toFetcher
    <3>1. PushTypeOK'
      BY <2>1, <2>2, <2>3, <2>5 DEF PushTypeOK, Missing
    <3>2. PushRange'
      BY <2>1, <2>4, <2>5 DEF PushRange, Missing
    <3> QED
      BY <3>1, <3>2
  <2>6. CASE /\ pushFile' = Missing /\ pushPc' = "end"
             /\ toFetcher' = [toFetcher EXCEPT ![Head(toPusher).from] = Append(@, NotFound)]
    <3>1. NotFound \in Datagrams
      BY DEF NotFound, Block, Datagrams
    <3>2. Append(toFetcher[pushPeer'], NotFound) \in Seq(Datagrams)
      BY <2>3, <3>1, AppendProperties DEF PushTypeOK
    <3>3. toFetcher' \in [Fetchers -> Seq(Datagrams)]
      BY <2>1, <2>6, <3>2 DEF PushTypeOK
    <3>4. PushTypeOK'
      BY <2>1, <2>2, <2>3, <2>6, <3>3, SMTT(30) DEF PushTypeOK, Missing
    <3>5. PushRange'
      BY <2>1, <2>4, <2>6 DEF PushRange, Missing
    <3> QED
      BY <3>4, <3>5
  <2> QED
    BY <1>1, <2>5, <2>6 DEF ServeRequest
<1>2. CASE PushFull \/ PushShort
  <2>1. PICK cmd \in {"FILE_RES", "FILE_END"}, len \in 1 .. PUSH_BUF :
           /\ Block(cmd, pushSize, len) \in Datagrams
           /\ toFetcher' = [toFetcher EXCEPT ![pushPeer] = Append(@, Block(cmd, pushSize, len))]
           /\ pushSize' = pushSize + len /\ pushSize + len <= pushFile
           /\ pushCount' = pushCount + 1
           /\ pushPc = "push" /\ pushPeer \in Fetchers /\ pushFile \in 0 .. MaxFile
           /\ cmd = "FILE_RES" => len = PUSH_BUF /\ pushPc' = "push"
           /\ cmd = "FILE_END" => pushSize + len = pushFile /\ pushPc' = "ack"
           /\ UNCHANGED <<toPusher, pushFaults, pushFile, pushPeer, fetchers>>
    BY <1>2, BlockTypes
  <2>2. Append(toFetcher[pushPeer], Block(cmd, pushSize, len)) \in Seq(Datagrams)
    BY <2>1, AppendProperties DEF PushTypeOK
  <2>3. toFetcher' \in [Fetchers -> Seq(Datagrams)]
    BY <2>1, <2>2 DEF PushTypeOK
  <2>4. /\ pushSize' \in 0 .. MaxFile /\ pushCount' \in 0 .. MaxFile
        /\ pushCount' <= pushSize' /\ pushSize' <= pushFile
        /\ pushPc' \in {"push", "ack"}
    <3>1. /\ pushSize \in Nat /\ pushCount \in Nat /\ pushCount <= pushSize /\ MaxFile \in Nat
          /\ pushFile <= MaxFile
      BY <2>1 DEF PushTypeOK, PushRange
    <3>2. /\ pushSize' = pushSize + len /\ pushSize + len <= pushFile /\ pushCount' = pushCount + 1
          /\ len \in Nat /\ len >= 1 /\ pushFile \in Nat
      BY <2>1
    <3>3. pushPc' \in {"push", "ack"}
      BY <2>1
    <3> QED
      BY <3>1, <3>2, <3>3
  <2>5. pushPc' = "push" => pushSize' = pushCount' * PUSH_BUF
    <3>1. pushPc' = "push" => pushSize' = pushCount * PUSH_BUF + PUSH_BUF
      BY <2>1 DEF PushRange
    <3>2. pushCount \in Nat
      BY DEF PushTypeOK
    <3> QED
      BY <2>1, <3>1, <3>2
  <2>6. PushTypeOK'
    BY <2>1, <2>3, <2>4 DEF PushTypeOK
  <2>7. PushRange'
    BY <2>1, <2>4, <2>5 DEF PushRange, Missing
  <2> QED
    BY <2>6, <2>7
<1>3. CASE PushNothing
  BY <1>3 DEF PushNothing, PushTypeOK, PushRange
<1>4. CASE TakeAck
  <2>1. /\ pushPc = "ack" /\ toPusher # <<>> /\ pushPeer' = Head(toPusher).from
        /\ toPusher' = Tail(toPusher) /\ pushPc' = "end"
        /\ UNCHANGED <<toFetcher, pushFaults, pushFile, pushSize, pushCount, fetchPc, fetched, fetchSize>>
    BY <1>4 DEF TakeAck
  <2>2. /\ Head(toPusher) \in [from : Fetchers, cmd : {"FILE_REQ", "FILE_END_ACK"}]
        /\ toPusher' \in Seq([from : Fetchers, cmd : {"FILE_REQ", "FILE_END_ACK"}])
    BY <2>1, Taken DEF PushTypeOK
  <2>3. pushPeer' \in Fetchers
    BY <2>1, <2>2
  <2> QED
    BY <2>1, <2>2, <2>3 DEF PushTypeOK, PushRange
<1> QED
  BY <1>1, <1>2, <1>3, <1>4 DEF PushServer

LEMMA ClientPushTypes ==
  ASSUME PushTypeOK, PushRange, (\E c \in Fetchers : Fetcher(c)) \/ PushNetwork
  PROVE  PushTypeOK' /\ PushRange'
<1> USE PushAssumption DEF pusher, fetchers, pushNet
<1>1. ASSUME NEW c \in Fetchers, NEW cmd, Arrived(c, cmd)
      PROVE  /\ Head(toFetcher[c]) \in Datagrams
             /\ toFetcher' \in [Fetchers -> Seq(Datagrams)]
  <2>1. toFetcher[c] # <<>> /\ toFetcher[c] \in Seq(Datagrams)
    BY <1>1 DEF Arrived, PushTypeOK
  <2>2. Head(toFetcher[c]) \in Datagrams /\ Tail(toFetcher[c]) \in Seq(Datagrams)
    BY <2>1, Taken
  <2> QED
    BY <1>1, <2>2 DEF Arrived, PushTypeOK
<1>2. ASSUME NEW c \in Fetchers, Head(toFetcher[c]) \in Datagrams, Add(c)
      PROVE  fetched' \in [Fetchers -> Seq(Datagrams)] /\ fetchSize' \in [Fetchers -> Nat]
  <2>1. Append(fetched[c], Head(toFetcher[c])) \in Seq(Datagrams)
    BY <1>2, AppendProperties DEF PushTypeOK
  <2>2. Head(toFetcher[c]).len \in Nat
    BY <1>2 DEF Datagrams
  <2>3. fetched' \in [Fetchers -> Seq(Datagrams)]
    BY <1>2, <2>1 DEF Add, PushTypeOK
  <2>4. fetchSize' \in [Fetchers -> Nat]
    BY <1>2, <2>2, SMTT(30) DEF Add, PushTypeOK
  <2> QED
    BY <2>3, <2>4
<1>3. ASSUME NEW d \in [from : Fetchers, cmd : {"FILE_REQ", "FILE_END_ACK"}],
             toPusher' = Append(toPusher, d)
      PROVE  toPusher' \in Seq([from : Fetchers, cmd : {"FILE_REQ", "FILE_END_ACK"}])
  BY <1>3, AppendProperties DEF PushTypeOK
<1>4. ASSUME NEW c \in Fetchers, SendRequest(c)
      PROVE  PushTypeOK' /\ PushRange'
  <2>1. Request(c) \in [from : Fetchers, cmd : {"FILE_REQ", "FILE_END_ACK"}]
    BY DEF Request
  <2>2. toPusher' \in Seq([from : Fetchers, cmd : {"FILE_REQ", "FILE_END_ACK"}])
    BY <1>3, <1>4, <2>1 DEF SendRequest
  <2> QED
    BY <1>4, <2>2 DEF SendRequest, PushTypeOK, PushRange
<1>5. ASSUME NEW c \in Fetchers, FetchNotFound(c)
      PROVE  PushTypeOK' /\ PushRange'
  <2>1. toFetcher' \in [Fetchers -> Seq(Datagrams)]
    BY <1>1, <1>5 DEF FetchNotFound
  <2> QED
    BY <1>5, <2>1 DEF FetchNotFound, PushTypeOK, PushRange
<1>6. ASSUME NEW c \in Fetchers, FetchBlock(c)
      PROVE  PushTypeOK' /\ PushRange'
  <2>1. /\ toFetcher' \in [Fetchers -> Seq(Datagrams)]
        /\ fetched' \in [Fetchers -> Seq(Datagrams)] /\ fetchSize' \in [Fetchers -> Nat]
    BY <1>1, <1>2, <1>6 DEF FetchBlock
  <2> QED
    BY <1>6, <2>1 DEF FetchBlock, PushTypeOK, PushRange
<1>7. ASSUME NEW c \in Fetchers, FetchEnd(c)
      PROVE  PushTypeOK' /\ PushRange'
  <2>1. /\ toFetcher' \in [Fetchers -> Seq(Datagrams)]
        /\ fetched' \in [Fetchers -> Seq(Datagrams)] /\ fetchSize' \in [Fetchers -> Nat]
    BY <1>1, <1>2, <1>7 DEF FetchEnd
  <2>2. EndAck(c) \in [from : Fetchers, cmd : {"FILE_REQ", "FILE_END_ACK"}]
    BY DEF EndAck
  <2>3. toPusher' \in Seq([from : Fetchers, cmd : {"FILE_REQ", "FILE_END_ACK"}])
    BY <1>3, <1>7, <2>2 DEF FetchEnd
  <2> QED
    BY <1>7, <2>1, <2>3 DEF FetchEnd, PushTypeOK, PushRange
<1>8. CASE PushNetwork
  <2>1. PICK fault \in {"loss", "dup", "swap"} :
           /\ pushFaults' \in Seq({"loss", "dup", "swap"})
           /\ \/ /\ toPusher' \in Mistreat(toPusher, fault)
                 /\ UNCHANGED toFetcher
              \/ /\ \E c \in Fetchers : \E q \in Mistreat(toFetcher[c], fault) :
                      toFetcher' = [toFetcher EXCEPT ![c] = q]
                 /\ UNCHANGED toPusher
    BY <1>8, MoreSuffered
  <2>2. CASE toPusher' \in Mistreat(toPusher, fault) /\ UNCHANGED toFetcher
    <3>1. toPusher' \in Seq([from : Fetchers, cmd : {"FILE_REQ", "FILE_END_ACK"}])
      BY <2>2, Mistreated DEF PushTypeOK
    <3> QED
      BY <1>8, <2>1, <2>2, <3>1 DEF PushNetwork, PushTypeOK, PushRange
  <2>3. CASE /\ \E c \in Fetchers : \E q \in Mistreat(toFetcher[c], fault) :
                  toFetcher' = [toFetcher EXCEPT ![c] = q]
             /\ UNCHANGED toPusher
    <3>1. PICK c \in Fetchers : \E q \in Mistreat(toFetcher[c], fault) :
                                  toFetcher' = [toFetcher EXCEPT ![c] = q]
      BY <2>3
    <3>2. PICK q \in Mistreat(toFetcher[c], fault) : toFetcher' = [toFetcher EXCEPT ![c] = q]
      BY <3>1
    <3>3. q \in Seq(Datagrams)
      BY <3>2, PushQueues, Mistreated
    <3>4. toFetcher' \in [Fetchers -> Seq(Datagrams)]
      BY <3>2, <3>3 DEF PushTypeOK
    <3> QED
      BY <1>8, <2>1, <2>3, <3>4 DEF PushNetwork, PushTypeOK, PushRange
  <2> QED
    BY <2>1, <2>2, <2>3
<1> QED
  BY <1>4, <1>5, <1>6, <1>7, <1>8 DEF Fetcher

\* A block of the bytes that come next keeps the order.
LEMMA SentInOrder ==
  ASSUME NEW q \in Seq(Datagrams), NEW b \in Datagrams, NEW n \in Nat,
         InOrder(q, n), b.at = n
  PROVE  /\ InOrder(Append(q, b), b.at + b.len)
         /\ DOMAIN Append(q, b) = 1 .. Len(q) + 1
         /\ Append(q, b)[Len(q) + 1] = b
         /\ \A i \in 1 .. Len(q) : Append(q, b)[i] = q[i] /\ i \in DOMAIN q
<1> DEFINE r == Append(q, b)
<1>1. /\ Len(q) \in Nat /\ DOMAIN q = 1 .. Len(q)
      /\ r[Len(q) + 1] = b /\ DOMAIN r = 1 .. Len(q) + 1
      /\ \A i \in 1 .. Len(q) : r[i] = q[i]
  BY AppendProperties, LenProperties
<1>2. \A i \in 1 .. Len(q) : q[i] \in Datagrams
  BY ElementOfSeq
<1>3. /\ b.at \in Nat /\ b.len \in Nat
      /\ \A i \in 1 .. Len(q) : q[i].at \in Nat /\ q[i].len \in Nat
  BY <1>2, PushAssumption DEF Datagrams
<1> HIDE DEF r
<1>4. ASSUME NEW i \in DOMAIN r
      PROVE  r[i].at + r[i].len <= b.at + b.len
  <2>1. CASE i \in 1 .. Len(q)
    <3>1. q[i].at + q[i].len <= n
      BY <1>1, <2>1 DEF InOrder
    <3>2. q[i].at + q[i].len \in Nat /\ n <= b.at + b.len
      BY <1>3, <2>1
    <3>3. q[i].at + q[i].len <= b.at + b.len
      BY <1>3, <3>1, <3>2
    <3> QED
      BY <1>1, <2>1, <3>3
  <2>2. CASE i = Len(q) + 1
    BY <1>1, <1>3, <2>2
  <2> QED
    BY <1>1, <2>1, <2>2
<1>5. ASSUME NEW i \in DOMAIN r, NEW j \in DOMAIN r, i < j
      PROVE  r[i].at + r[i].len <= r[j].at
  <2>1. i \in 1 .. Len(q)
    BY <1>1, <1>5
  <2>2. CASE j \in 1 .. Len(q)
    BY <1>1, <1>5, <2>1, <2>2 DEF InOrder
  <2>3. CASE j = Len(q) + 1
    BY <1>1, <2>1, <2>3 DEF InOrder
  <2> QED
    BY <1>1, <2>2, <2>3
<1>6. InOrder(r, b.at + b.len)
  BY <1>4, <1>5 DEF InOrder
<1> QED
  BY <1>1, <1>6 DEF r

\* So does the client that takes the first of a queue.
LEMMA TakenInOrder ==
  ASSUME NEW q \in Seq(Datagrams), NEW f \in Seq(Datagrams), NEW n \in Nat, q # <<>>,
         InOrder(q, n), InOrder(f, n),
         \A i \in DOMAIN f, j \in DOMAIN q : f[i].at + f[i].len <= q[j].at
  PROVE  /\ InOrder(Tail(q), n) /\ InOrder(Append(f, Head(q)), n)
         /\ \A i \in DOMAIN f, j \in DOMAIN Tail(q) : f[i].at + f[i].len <= Tail(q)[j].at
         /\ \A i \in DOMAIN Append(f, Head(q)), j \in DOMAIN Tail(q) :
              Append(f, Head(q))[i].at + Append(f, Head(q))[i].len <= Tail(q)[j].at
<1> DEFINE t == Tail(q)
           g == Append(f, Head(q))
<1>1. /\ Len(q) \in Nat /\ Len(q) > 0 /\ DOMAIN q = 1 .. Len(q) /\ Head(q) = q[1]
      /\ DOMAIN t = 1 .. Len(q) - 1 /\ \A i \in 1 .. Len(q) - 1 : t[i] = q[i + 1]
  BY EmptySeq, LenProperties, HeadTailProperties
<1>2. /\ Len(f) \in Nat /\ DOMAIN f = 1 .. Len(f) /\ DOMAIN g = 1 .. Len(f) + 1
      /\ g[Len(f) + 1] = q[1] /\ \A i \in 1 .. Len(f) : g[i] = f[i]
  <2>1. Head(q) \in Datagrams
    BY Taken
  <2> QED
    BY <1>1, <2>1, AppendProperties, LenProperties
<1> HIDE DEF t, g
<1>3. InOrder(t, n)
  <2>1. ASSUME NEW i \in DOMAIN t PROVE t[i].at + t[i].len <= n
    <3>1. PICK k \in DOMAIN q : k = i + 1 /\ t[i] = q[k]
      BY <1>1
    <3> QED
      BY <3>1 DEF InOrder
  <2>2. \A i, j \in DOMAIN t :
          i < j => i + 1 \in DOMAIN q /\ j + 1 \in DOMAIN q /\ i + 1 < j + 1
    BY <1>1
  <2>3. \A i, j \in DOMAIN t : i < j => t[i].at + t[i].len <= t[j].at
    BY <1>1, <2>2 DEF InOrder
  <2> QED
    BY <2>1, <2>3 DEF InOrder
<1>4. \A j \in DOMAIN t : j + 1 \in DOMAIN q /\ 1 \in DOMAIN q /\ 1 < j + 1 /\ t[j] = q[j + 1]
  BY <1>1
<1>5. \A i \in DOMAIN g : i \in DOMAIN f \/ i = Len(f) + 1
  BY <1>2
<1>6. InOrder(g, n)
  <2>1. \A i \in DOMAIN g : g[i].at + g[i].len <= n
    BY <1>1, <1>2, <1>5 DEF InOrder
  <2>2. \A i, j \in DOMAIN g : i < j => g[i].at + g[i].len <= g[j].at
    <3> SUFFICES ASSUME NEW i \in DOMAIN g, NEW j \in DOMAIN g, i < j
                 PROVE  g[i].at + g[i].len <= g[j].at
      OBVIOUS
    <3>1. i \in 1 .. Len(f)
      BY <1>2
    <3>2. CASE j \in 1 .. Len(f)
      BY <1>2, <3>1, <3>2 DEF InOrder
    <3>3. CASE j = Len(f) + 1
      BY <1>1, <1>2, <3>1, <3>3
    <3> QED
      BY <1>2, <3>2, <3>3
  <2> QED
    BY <2>1, <2>2 DEF InOrder
<1>7. \A i \in DOMAIN f, j \in DOMAIN t : f[i].at + f[i].len <= t[j].at
  BY <1>4
<1>8. \A i \in DOMAIN g, j \in DOMAIN t : g[i].at + g[i].len <= t[j].at
  BY <1>2, <1>4, <1>5, <1>7 DEF InOrder
<1> QED
  BY <1>3, <1>6, <1>7, <1>8 DEF t, g

\* And what is left of a queue when one is lost.
LEMMA LostInOrder ==
  ASSUME NEW q \in Seq(Datagrams), NEW n \in Nat, InOrder(q, n), NEW r \in Mistreat(q, "loss")
  PROVE  /\ InOrder(r, n)
         /\ \A j \in DOMAIN r : \E k \in DOMAIN q : r[j] = q[k]
<1>1. Len(q) \in Nat /\ DOMAIN q = 1 .. Len(q)
  BY LenProperties
<1>2. PICK i \in 1 .. Len(q) : r = RemoveAt(q, i)
  BY <1>1 DEF Mistreat
<1>3. /\ DOMAIN r = 1 .. Len(q) - 1
      /\ \A j \in 1 .. Len(q) - 1 : r[j] = q[IF j < i THEN j ELSE j + 1]
  BY <1>2, Removed
<1>4. \A j \in DOMAIN r : (IF j < i THEN j ELSE j + 1) \in DOMAIN q
  BY <1>1, <1>3
<1>5. \A j, k \in DOMAIN r :
        j < k => (IF j < i THEN j ELSE j + 1) < (IF k < i THEN k ELSE k + 1)
  BY <1>1, <1>3
<1>6. InOrder(r, n)
  <2>1. \A j \in DOMAIN r : r[j].at + r[j].len <= n
    BY <1>3, <1>4 DEF InOrder
  <2>2. ASSUME NEW j \in DOMAIN r, NEW k \in DOMAIN r, j < k
        PROVE  r[j].at + r[j].len <= r[k].at
    <3>1. PICK jq \in DOMAIN q : jq = IF j < i THEN j ELSE j + 1
      BY <1>4
    <3>2. PICK kq \in DOMAIN q : kq = IF k < i THEN k ELSE k + 1
      BY <1>4
    <3>3. jq < kq /\ r[j] = q[jq] /\ r[k] = q[kq]
      BY <1>3, <1>5, <2>2, <3>1, <3>2
    <3> QED
      BY <3>3 DEF InOrder
  <2> QED
    BY <2>1, <2>2 DEF InOrder
<1> QED
  BY <1>3, <1>4, <1>6

\* The server's part of LossInv: a block is sent to p.
LEMMA SendLossInv ==
  ASSUME PushTypeOK, LossInv, NEW p \in Fetchers, NEW b \in Datagrams,
         b.at = pushSize, pushSize' = b.at + b.len,
         toFetcher' = [toFetcher EXCEPT ![p] = Append(@, b)],
         UNCHANGED <<fetched, pushFaults>>
  PROVE  LossInv'
<1> SUFFICES ASSUME Suffered \subseteq {"loss"}, NEW c \in Fetchers
             PROVE  /\ InOrder(fetched[c], pushSize')
                    /\ InOrder(toFetcher'[c], pushSize')
                    /\ \A i \in DOMAIN fetched[c], j \in DOMAIN toFetcher'[c] :
                         fetched[c][i].at + fetched[c][i].len <= toFetcher'[c][j].at
  BY DEF LossInv, Suffered
<1>1. /\ InOrder(fetched[c], pushSize) /\ InOrder(toFetcher[c], pushSize)
      /\ \A i \in DOMAIN fetched[c], j \in DOMAIN toFetcher[c] :
           fetched[c][i].at + fetched[c][i].len <= toFetcher[c][j].at
  BY DEF LossInv
<1>2. /\ pushSize \in Nat /\ pushSize' \in Nat /\ pushSize <= pushSize'
  <2>1. b.len \in Nat /\ pushSize \in Nat
    BY PushAssumption DEF Datagrams, PushTypeOK
  <2> QED
    BY <2>1
<1>3. /\ toFetcher[c] \in Seq(Datagrams) /\ Len(toFetcher[c]) \in Nat
      /\ \A i \in DOMAIN toFetcher[c] : toFetcher[c][i].at \in Nat /\ toFetcher[c][i].len \in Nat
      /\ \A i \in DOMAIN fetched[c] : fetched[c][i].at \in Nat /\ fetched[c][i].len \in Nat
  <2>1. /\ toFetcher[c] \in Seq(Datagrams) /\ Len(toFetcher[c]) \in Nat
        /\ \A i \in DOMAIN toFetcher[c] : toFetcher[c][i] \in Datagrams
        /\ \A i \in DOMAIN fetched[c] : fetched[c][i] \in Datagrams
    BY PushQueues
  <2>2. \A d \in Datagrams : d.at \in Nat /\ d.len \in Nat
    BY PushAssumption DEF Datagrams
  <2> QED
    BY <2>1, <2>2
<1>4. ASSUME NEW q, InOrder(q, pushSize),
             \A i \in DOMAIN q : q[i].at \in Nat /\ q[i].len \in Nat
      PROVE  InOrder(q, pushSize')
  <2>1. ASSUME NEW i \in DOMAIN q PROVE q[i].at + q[i].len <= pushSize'
    <3>1. q[i].at + q[i].len <= pushSize /\ q[i].at + q[i].len \in Nat
      BY <1>4 DEF InOrder
    <3> QED
      BY <1>2, <3>1
  <2> QED
    BY <1>4, <2>1 DEF InOrder
<1>5. CASE c # p
  <2>1. toFetcher'[c] = toFetcher[c]
    BY <1>5 DEF PushTypeOK
  <2>2. InOrder(toFetcher[c], pushSize')
    BY <1>1, <1>3, <1>4
  <2>3. InOrder(fetched[c], pushSize')
    BY <1>1, <1>3, <1>4
  <2> QED
    BY <1>1, <2>1, <2>2, <2>3
<1>6. CASE c = p
  <2>1. toFetcher'[c] = Append(toFetcher[c], b)
    BY <1>6 DEF PushTypeOK
  <2>2. /\ InOrder(toFetcher'[c], pushSize')
        /\ DOMAIN toFetcher'[c] = 1 .. Len(toFetcher[c]) + 1
        /\ toFetcher'[c][Len(toFetcher[c]) + 1] = b
        /\ \A i \in 1 .. Len(toFetcher[c]) :
             toFetcher'[c][i] = toFetcher[c][i] /\ i \in DOMAIN toFetcher[c]
    BY <1>1, <1>2, <1>3, <2>1, SentInOrder
  <2>3. ASSUME NEW i \in DOMAIN fetched[c], NEW j \in DOMAIN toFetcher'[c]
        PROVE  fetched[c][i].at + fetched[c][i].len <= toFetcher'[c][j].at
    <3>1. CASE j \in 1 .. Len(toFetcher[c])
      BY <1>1, <2>2, <3>1
    <3>2. CASE j = Len(toFetcher[c]) + 1
      BY <1>1, <2>2, <3>2 DEF InOrder
    <3> QED
      BY <1>3, <2>2, <3>1, <3>2
  <2>4. InOrder(fetched[c], pushSize')
    BY <1>1, <1>3, <1>4
  <2> QED
    BY <2>2, <2>3, <2>4
<1> QED
  BY <1>5, <1>6

LEMMA NextLossInv ==
  ASSUME PushInv, PushNext
  PROVE  LossInv'
<1> USE PushAssumption DEF pusher, fetchers, pushNet
<1>1. PushTypeOK /\ PushRange /\ LossInv
  BY DEF PushInv
<1>2. CASE ServeRequest
  <2>1. CASE UNCHANGED toFetcher
    BY <1>1, <1>2, <2>1 DEF ServeRequest, LossInv, Suffered
  <2>2. CASE toFetcher' = [toFetcher EXCEPT ![Head(toPusher).from] = Append(@, NotFound)]
    <3>1. /\ toPusher # <<>> /\ pushSize = 0 /\ UNCHANGED <<fetched, pushFaults, pushSize>>
      BY <1>1, <1>2 DEF ServeRequest, PushRange
    <3>2. PICK p \in Fetchers : p = Head(toPusher).from
      <4>1. Head(toPusher) \in [from : Fetchers, cmd : {"FILE_REQ", "FILE_END_ACK"}]
        BY <1>1, <3>1, Taken DEF PushTypeOK
      <4> QED
        BY <4>1
    <3>3. /\ NotFound \in Datagrams /\ NotFound.at = pushSize
          /\ pushSize' = NotFound.at + NotFound.len
      BY <3>1 DEF NotFound, Block, Datagrams
    <3> QED
      BY <1>1, <2>2, <3>1, <3>2, <3>3, SendLossInv
  <2> QED
    BY <1>2, <2>1, <2>2 DEF ServeRequest
<1>3. CASE PushFull \/ PushShort
  <2>1. PICK cmd \in {"FILE_RES", "FILE_END"}, len \in 1 .. PUSH_BUF :
           /\ Block(cmd, pushSize, len) \in Datagrams
           /\ toFetcher' = [toFetcher EXCEPT ![pushPeer] = Append(@, Block(cmd, pushSize, len))]
           /\ pushSize' = pushSize + len /\ pushPeer \in Fetchers
           /\ UNCHANGED <<pushFaults, fetchers>>
    BY <1>1, <1>3, BlockTypes
  <2>2. Block(cmd, pushSize, len).at = pushSize /\ Block(cmd, pushSize, len).len = len
    BY DEF Block
  <2> QED
    BY <1>1, <2>1, <2>2, SendLossInv
<1>4. CASE PushNothing \/ TakeAck \/ \E c \in Fetchers : SendRequest(c)
  BY <1>1, <1>4 DEF PushNothing, TakeAck, SendRequest, LossInv, Suffered
<1>5. CASE \E c \in Fetchers : FetchNotFound(c) \/ FetchBlock(c) \/ FetchEnd(c)
  <2>1. PICK c \in Fetchers : FetchNotFound(c) \/ FetchBlock(c) \/ FetchEnd(c)
    BY <1>5
  <2>2. /\ toFetcher[c] # <<>> /\ toFetcher' = [toFetcher EXCEPT ![c] = Tail(@)]
        /\ UNCHANGED <<pushFaults, pushSize>>
        /\ \/ UNCHANGED fetched
           \/ fetched' = [fetched EXCEPT ![c] = Append(@, Head(toFetcher[c]))]
    BY <2>1 DEF FetchNotFound, FetchBlock, FetchEnd, Arrived, Add
  <2>3. /\ toFetcher'[c] = Tail(toFetcher[c])
        /\ fetched'[c] \in {fetched[c], Append(fetched[c], Head(toFetcher[c]))}
        /\ \A d \in Fetchers : d # c => toFetcher'[d] = toFetcher[d] /\ fetched'[d] = fetched[d]
    BY <1>1, <2>2 DEF PushTypeOK
  <2>4. CASE Suffered \subseteq {"loss"}
    <3>1. \A d \in Fetchers :
            /\ InOrder(fetched[d], pushSize) /\ InOrder(toFetcher[d], pushSize)
            /\ \A i \in DOMAIN fetched[d], j \in DOMAIN toFetcher[d] :
                 fetched[d][i].at + fetched[d][i].len <= toFetcher[d][j].at
      BY <1>1, <2>4 DEF LossInv
    <3>2. pushSize \in Nat /\ toFetcher[c] \in Seq(Datagrams) /\ fetched[c] \in Seq(Datagrams)
      BY <1>1, PushQueues DEF PushTypeOK
    <3>3. /\ InOrder(fetched'[c], pushSize) /\ InOrder(toFetcher'[c], pushSize)
          /\ \A i \in DOMAIN fetched'[c], j \in DOMAIN toFetcher'[c] :
               fetched'[c][i].at + fetched'[c][i].len <= toFetcher'[c][j].at
      <4>1. CASE fetched'[c] = fetched[c]
        BY <2>2, <2>3, <3>1, <3>2, <4>1, TakenInOrder
      <4>2. CASE fetched'[c] = Append(fetched[c], Head(toFetcher[c]))
        BY <2>2, <2>3, <3>1, <3>2, <4>2, TakenInOrder
      <4> QED
        BY <2>3, <4>1, <4>2
    <3> QED
      BY <2>2, <2>3, <3>1, <3>3 DEF LossInv
  <2> QED
    BY <2>2, <2>4 DEF LossInv, Suffered
<1>6. CASE PushNetwork
  <2>1. PICK fault \in {"loss", "dup", "swap"} :
           /\ fault \in Suffered' /\ Suffered \subseteq Suffered'
           /\ \/ /\ toPusher' \in Mistreat(toPusher, fault)
                 /\ UNCHANGED toFetcher
              \/ /\ \E c \in Fetchers : \E q \in Mistreat(toFetcher[c], fault) :
                      toFetcher' = [toFetcher EXCEPT ![c] = q]
                 /\ UNCHANGED toPusher
    BY <1>1, <1>6, MoreSuffered
  <2> SUFFICES ASSUME Suffered' \subseteq {"loss"}
               PROVE  LossInv'
    BY DEF LossInv
  <2>2. fault = "loss" /\ Suffered \subseteq {"loss"} /\ UNCHANGED <<fetched, pushSize>>
    BY <1>6, <2>1 DEF PushNetwork
  <2>3. \A d \in Fetchers :
          /\ InOrder(fetched[d], pushSize) /\ InOrder(toFetcher[d], pushSize)
          /\ \A i \in DOMAIN fetched[d], j \in DOMAIN toFetcher[d] :
               fetched[d][i].at + fetched[d][i].len <= toFetcher[d][j].at
    BY <1>1, <2>2 DEF LossInv
  <2>4. CASE UNCHANGED toFetcher
    BY <2>2, <2>3, <2>4 DEF LossInv
  <2>5. CASE \E c \in Fetchers : \E q \in Mistreat(toFetcher[c], fault) :
                toFetcher' = [toFetcher EXCEPT ![c] = q]
    <3>1. PICK c \in Fetchers : \E q \in Mistreat(toFetcher[c], fault) :
                                  toFetcher' = [toFetcher EXCEPT ![c] = q]
      BY <2>5
    <3>2. PICK q \in Mistreat(toFetcher[c], "loss") : toFetcher' = [toFetcher EXCEPT ![c] = q]
      BY <2>2, <3>1
    <3>3. /\ toFetcher'[c] = q
          /\ \A d \in Fetchers : d # c => toFetcher'[d] = toFetcher[d]
      BY <1>1, <3>2 DEF PushTypeOK
    <3>4. InOrder(q, pushSize) /\ \A j \in DOMAIN q : \E k \in DOMAIN toFetcher[c] : q[j] = toFetcher[c][k]
      <4>1. pushSize \in Nat /\ toFetcher[c] \in Seq(Datagrams)
        BY <1>1, PushQueues DEF PushTypeOK
      <4> QED
        BY <2>3, <3>2, <4>1, LostInOrder
    <3>5. \A i \in DOMAIN fetched[c], j \in DOMAIN q :
            fetched[c][i].at + fetched[c][i].len <= q[j].at
      BY <2>3, <3>4
    <3> QED
      BY <2>2, <2>3, <3>3, <3>4, <3>5 DEF LossInv
  <2> QED
    BY <2>1, <2>4, <2>5
<1> QED
  BY <1>2, <1>3, <1>4, <1>5, <1>6 DEF PushNext, PushServer, Fetcher

\* The end of whatever the client takes, and what is left.
LEMMA FetchShifts ==
  ASSUME PushTypeOK, NEW c \in Fetchers, toFetcher[c] # <<>>,
         toFetcher' = [toFetcher EXCEPT ![c] = Tail(@)]
  PROVE  /\ 1 \in DOMAIN toFetcher[c] /\ Head(toFetcher[c]) = toFetcher[c][1]
         /\ Len(toFetcher'[c]) = Len(toFetcher[c]) - 1
         /\ \A i \in DOMAIN toFetcher'[c] :
              i + 1 \in DOMAIN toFetcher[c] /\ i \in Nat /\ toFetcher'[c][i] = toFetcher[c][i + 1]
         /\ \A d \in Fetchers : d # c => toFetcher'[d] = toFetcher[d]
<1>1. toFetcher'[c] = Tail(toFetcher[c]) /\ \A d \in Fetchers : d # c => toFetcher'[d] = toFetcher[d]
  BY DEF PushTypeOK
<1>2. /\ toFetcher[c] \in Seq(Datagrams) /\ Len(toFetcher[c]) \in Nat \ {0}
      /\ DOMAIN toFetcher[c] = 1 .. Len(toFetcher[c])
  BY PushQueues, EmptySeq
<1>3. /\ Len(Tail(toFetcher[c])) = Len(toFetcher[c]) - 1
      /\ DOMAIN Tail(toFetcher[c]) = 1 .. Len(toFetcher[c]) - 1
      /\ \A i \in 1 .. Len(toFetcher[c]) - 1 : Tail(toFetcher[c])[i] = toFetcher[c][i + 1]
      /\ Head(toFetcher[c]) = toFetcher[c][1]
  BY <1>2, HeadTailProperties, LenProperties
<1>4. 1 \in DOMAIN toFetcher[c]
  BY <1>2
<1>5. \A i \in 1 .. Len(toFetcher[c]) - 1 : i + 1 \in DOMAIN toFetcher[c] /\ i \in Nat
  BY <1>2
<1> QED
  BY <1>1, <1>3, <1>4, <1>5

\* What is on its way to c stays true of a server that has not moved on.
LEMMA HeldStays ==
  ASSUME NEW c \in Fetchers, Held(c),
         UNCHANGED <<pushPc, pushFile, pushPeer, pushSize, pushCount>>,
         toFetcher'[c] = toFetcher[c], fetched'[c] = fetched[c],
         fetchPc'[c] = "end" <=> fetchPc[c] = "end", fetchSize'[c] = fetchSize[c]
  PROVE  Held(c)'
BY DEF Held, Announced

\* The server's steps but those that send.
LEMMA ServerHeld ==
  ASSUME PushInv, CleanInv, Suffered = {}, NEW c \in Fetchers,
         PushNothing \/ TakeAck \/ (ServeRequest /\ UNCHANGED toFetcher)
  PROVE  Held(c)'
<1> USE DEF pusher, fetchers, pushNet
<1>1. PushTypeOK /\ PushRange /\ Held(c)
  BY DEF PushInv, CleanInv
<1>2. CASE PushNothing
  <2>1. /\ pushPc = "push" /\ pushPc' = "end"
        /\ UNCHANGED <<toFetcher, pushFile, pushPeer, pushSize, pushCount, fetchers>>
    BY <1>2 DEF PushNothing
  <2>2. fetchPc[c] # "end" /\ \A i \in DOMAIN toFetcher[c] : toFetcher[c][i].cmd = "FILE_RES"
    <3>1. \A i \in DOMAIN toFetcher[c] : toFetcher[c][i].cmd \in {"FILE_RES", "FILE_END", "FILE_NOT_FOUND"}
      BY <1>1, PushQueues DEF Datagrams
    <3> QED
      BY <1>1, <2>1, <3>1 DEF Held, Announced
  <2> QED
    BY <1>1, <2>1, <2>2 DEF Held, Announced
<1>3. CASE TakeAck
  <2>1. /\ pushPc = "ack" /\ pushPc' = "end" /\ UNCHANGED <<toFetcher, pushFile, pushSize, pushCount, fetchers>>
    BY <1>3 DEF TakeAck
  <2> QED
    BY <1>1, <2>1 DEF Held, Announced
<1>4. CASE ServeRequest /\ UNCHANGED toFetcher
  <2>1. /\ pushPc = "request" /\ pushSize = 0 /\ pushCount = 0
        /\ UNCHANGED <<toFetcher, pushSize, pushCount, fetchers>>
    BY <1>1, <1>4 DEF ServeRequest, PushRange
  <2>2. toFetcher[c] = <<>> /\ fetched[c] = <<>> /\ fetchPc[c] # "end"
    BY <1>1, <2>1 DEF Held
  <2>3. pushPc' # "request"
    BY <1>4 DEF ServeRequest
  <2>4. DOMAIN toFetcher[c] = {} /\ DOMAIN fetched[c] = {} /\ Len(toFetcher[c]) = 0 /\ Len(fetched[c]) = 0
    BY <2>2
  <2>5. fetchSize[c] = Len(fetched[c]) * PUSH_BUF
    BY <1>1, <2>2 DEF Held
  <2> QED
    BY <2>1, <2>2, <2>3, <2>4, <2>5 DEF Held
<1> QED
  BY <1>2, <1>3, <1>4

\* The server tells a client that there is no file.
LEMMA RefusalHeld ==
  ASSUME PushInv, CleanInv, Suffered = {}, NEW c \in Fetchers, ServeRequest,
         toFetcher' = [toFetcher EXCEPT ![Head(toPusher).from] = Append(@, NotFound)],
         pushFile' = Missing, pushPc' = "end"
  PROVE  Held(c)'
<1> USE PushAssumption DEF pusher, fetchers, pushNet
<1>1. PushTypeOK /\ PushRange /\ Held(c)
  BY DEF PushInv, CleanInv
<1>2. /\ pushPc = "request" /\ UNCHANGED fetchers
  BY DEF ServeRequest
<1>3. toFetcher[c] = <<>> /\ fetched[c] = <<>> /\ fetchPc[c] # "end" /\ fetchSize[c] = Len(fetched[c]) * PUSH_BUF
  BY <1>1, <1>2 DEF Held
<1>4. toFetcher'[c] = <<>> \/ toFetcher'[c] = <<NotFound>>
  <2>1. toFetcher'[c] = <<>> \/ toFetcher'[c] = Append(<<>>, NotFound)
    BY <1>1, <1>3 DEF PushTypeOK
  <2>2. Append(<<>>, NotFound) = <<NotFound>>
    OBVIOUS
  <2> QED
    BY <2>1, <2>2
<1>5. NotFound.cmd = "FILE_NOT_FOUND" /\ NotFound.at = 0
  BY DEF NotFound, Block
<1>6. Len(fetched[c]) = 0 /\ DOMAIN fetched[c] = {}
  BY <1>3
<1>7. ASSUME NEW i \in DOMAIN toFetcher'[c]
      PROVE  i = 1 /\ i = Len(toFetcher'[c]) /\ toFetcher'[c][i] = NotFound
  <2> DEFINE q == <<NotFound>>
  <2>1. DOMAIN q = {1} /\ Len(q) = 1 /\ q[1] = NotFound
    OBVIOUS
  <2> HIDE DEF q
  <2>2. toFetcher'[c] # <<>>
    BY <1>7
  <2>3. toFetcher'[c] = q
    BY <1>4, <2>2 DEF q
  <2>4. i \in {1}
    BY <1>7, <2>1, <2>3
  <2>5. Len(toFetcher'[c]) = 1 /\ toFetcher'[c][1] = NotFound
    BY <2>1, <2>3
  <2> QED
    BY <2>4, <2>5
<1>8. ASSUME NEW i \in DOMAIN toFetcher'[c]
      PROVE  Announced(c, i)'
  <2>1. (Len(fetched'[c]) + i - 1) * PUSH_BUF = 0
    BY <1>2, <1>6, <1>7
  <2> QED
    BY <1>5, <1>7, <2>1 DEF Announced
<1> QED
  BY <1>2, <1>3, <1>6, <1>8 DEF Held

\* The server sends its peer a block.
LEMMA BlockHeld ==
  ASSUME PushInv, CleanInv, Suffered = {}, NEW c \in Fetchers, PushFull \/ PushShort
  PROVE  Held(c)'
<1> USE PushAssumption DEF pusher, fetchers, pushNet
<1>1. PushTypeOK /\ PushRange /\ Held(c)
  BY DEF PushInv, CleanInv
<1>2. PICK cmd \in {"FILE_RES", "FILE_END"}, len \in 1 .. PUSH_BUF :
         /\ Block(cmd, pushSize, len) \in Datagrams
         /\ toFetcher' = [toFetcher EXCEPT ![pushPeer] = Append(@, Block(cmd, pushSize, len))]
         /\ pushSize' = pushSize + len /\ pushSize + len <= pushFile
         /\ pushCount' = pushCount + 1
         /\ pushPc = "push" /\ pushPeer \in Fetchers /\ pushFile \in 0 .. MaxFile
         /\ cmd = "FILE_RES" => len = PUSH_BUF /\ pushPc' = "push"
         /\ cmd = "FILE_END" => pushSize + len = pushFile /\ pushPc' = "ack"
         /\ UNCHANGED <<toPusher, pushFaults, pushFile, pushPeer, fetchers>>
  BY <1>1, BlockTypes
<1> DEFINE b == Block(cmd, pushSize, len)
<1>3. b.cmd = cmd /\ b.at = pushSize /\ b.len = len
  BY DEF Block
<1>4. /\ fetchPc[c] # "end" /\ pushFile # Missing /\ pushPc' # "request"
      /\ UNCHANGED <<fetched, fetchPc, fetchSize>>
  BY <1>1, <1>2 DEF Held, Missing
<1>5. ASSUME NEW i \in DOMAIN toFetcher[c]
      PROVE  /\ toFetcher[c][i].cmd = "FILE_RES" /\ toFetcher[c][i].len = PUSH_BUF
             /\ toFetcher[c][i].at = (Len(fetched[c]) + i - 1) * PUSH_BUF
  <2>1. toFetcher[c][i].cmd \in {"FILE_RES", "FILE_END", "FILE_NOT_FOUND"}
    BY <1>1, PushQueues DEF Datagrams
  <2> QED
    BY <1>1, <1>2, <2>1 DEF Held, Announced
<1> HIDE DEF b
<1>6. CASE c # pushPeer
  <2>1. toFetcher'[c] = toFetcher[c]
    BY <1>1, <1>2, <1>6 DEF PushTypeOK
  <2>2. \A i \in DOMAIN toFetcher'[c] : Announced(c, i)'
    BY <1>4, <1>5, <2>1 DEF Announced
  <2> QED
    BY <1>1, <1>2, <1>4, <1>6, <2>2 DEF Held
<1>7. CASE c = pushPeer
  <2>1. toFetcher'[c] = Append(toFetcher[c], b)
    BY <1>1, <1>2, <1>7 DEF PushTypeOK, b
  <2>2. PICK n \in Nat : n = Len(toFetcher[c]) /\ DOMAIN toFetcher[c] = 1 .. n
    BY <1>1, PushQueues
  <2>3. PICK m \in Nat : m = Len(fetched[c])
    BY <1>1, PushQueues
  <2>4. /\ Len(toFetcher'[c]) = n + 1
        /\ DOMAIN toFetcher'[c] = 1 .. n + 1
        /\ toFetcher'[c][n + 1] = b
        /\ \A i \in 1 .. n : toFetcher'[c][i] = toFetcher[c][i]
    <3>1. toFetcher[c] \in Seq(Datagrams) /\ b \in Datagrams
      BY <1>1, <1>2, PushQueues DEF b
    <3> QED
      BY <2>1, <2>2, <3>1, AppendProperties, LenProperties
  <2>5. m + n = pushCount
    BY <1>1, <1>2, <1>7, <2>2, <2>3 DEF Held
  <2>6. pushSize = (m + (n + 1) - 1) * PUSH_BUF
    <3>1. pushSize = pushCount * PUSH_BUF
      BY <1>1, <1>2 DEF PushRange
    <3>2. m + (n + 1) - 1 = m + n
      OBVIOUS
    <3> QED
      BY <2>5, <3>1, <3>2
  <2>7. m + (n + 1) = pushCount'
    BY <1>2, <2>5
  <2>8. ASSUME NEW i \in 1 .. n
        PROVE  Announced(c, i)'
    BY <1>4, <1>5, <2>2, <2>4, <2>8 DEF Announced
  <2>9. Announced(c, n + 1)'
    <3>1. b.at = (Len(fetched'[c]) + (n + 1) - 1) * PUSH_BUF
      BY <1>3, <1>4, <2>3, <2>6
    <3>2. b.cmd = "FILE_RES" => b.len = PUSH_BUF
      BY <1>2, <1>3
    <3>3. b.cmd = "FILE_END" =>
            /\ pushPc' = "ack" /\ pushFile' # Missing
            /\ Len(fetched'[c]) + (n + 1) = pushCount'
            /\ b.at + b.len = pushFile' /\ pushSize' = pushFile'
      <4>1. Len(fetched'[c]) + (n + 1) = pushCount'
        BY <1>4, <2>3, <2>7
      <4>2. cmd = "FILE_END" => pushPc' = "ack" /\ pushSize + len = pushFile' /\ pushSize' = pushFile'
        BY <1>2
      <4> QED
        BY <1>2, <1>3, <1>4, <4>1, <4>2
    <3>4. b.cmd # "FILE_NOT_FOUND"
      BY <1>2, <1>3
    <3> QED
      BY <2>4, <3>1, <3>2, <3>3, <3>4 DEF Announced
  <2>10. \A i \in DOMAIN toFetcher'[c] : Announced(c, i)'
    <3>1. \A i \in 1 .. n + 1 : i \in 1 .. n \/ i = n + 1
      OBVIOUS
    <3> QED
      BY <2>4, <2>8, <2>9, <3>1
  <2>11. Len(fetched'[c]) + Len(toFetcher'[c]) = pushCount'
    BY <1>4, <2>3, <2>4, <2>7
  <2> QED
    BY <1>1, <1>4, <2>10, <2>11 DEF Held
<1> QED
  BY <1>6, <1>7

\* A client takes a block.
LEMMA FetcherHeld ==
  ASSUME PushInv, CleanInv, Suffered = {}, NEW c \in Fetchers, NEW d \in Fetchers, Fetcher(d)
  PROVE  Held(c)'
<1> USE PushAssumption DEF pusher, fetchers, pushNet
<1>1. PushTypeOK /\ PushRange /\ Held(c)
  BY DEF PushInv, CleanInv
<1>2. UNCHANGED <<pushPc, pushFile, pushPeer, pushSize, pushCount>>
  BY DEF Fetcher, SendRequest, FetchNotFound, FetchBlock, FetchEnd
<1>3. CASE d # c
  <2>1. toFetcher'[c] = toFetcher[c] /\ fetchPc'[c] = fetchPc[c]
    BY <1>1, <1>3 DEF Fetcher, SendRequest, FetchNotFound, FetchBlock, FetchEnd, Arrived, PushTypeOK
  <2>2. fetched'[c] = fetched[c] /\ fetchSize'[c] = fetchSize[c]
    BY <1>1, <1>3 DEF Fetcher, SendRequest, FetchNotFound, FetchBlock, FetchEnd, Add, PushTypeOK
  <2> QED
    BY <1>1, <1>2, <2>1, <2>2, HeldStays
<1>4. CASE SendRequest(c)
  <2>1. fetchPc[c] = "start" /\ fetchPc'[c] = "receive" /\ UNCHANGED <<toFetcher, fetched, fetchSize>>
    BY <1>1, <1>4 DEF SendRequest, PushTypeOK
  <2> QED
    BY <1>1, <1>2, <2>1, HeldStays
<1>5. CASE FetchNotFound(c)
  <2>1. /\ fetchPc[c] = "receive" /\ toFetcher[c] # <<>>
        /\ Head(toFetcher[c]).cmd = "FILE_NOT_FOUND"
        /\ toFetcher' = [toFetcher EXCEPT ![c] = Tail(@)]
        /\ UNCHANGED <<fetched, fetchSize>> /\ fetchPc' = [fetchPc EXCEPT ![c] = "end"]
    BY <1>5 DEF FetchNotFound, Arrived
  <2>2. /\ 1 \in DOMAIN toFetcher[c] /\ toFetcher[c][1].cmd = "FILE_NOT_FOUND"
        /\ Len(toFetcher'[c]) = Len(toFetcher[c]) - 1
    BY <1>1, <2>1, FetchShifts
  <2>3. pushPc = "end" /\ pushFile = Missing /\ Len(toFetcher[c]) = 1
    BY <1>1, <2>2 DEF Held, Announced
  <2>4. toFetcher'[c] = <<>> /\ DOMAIN toFetcher'[c] = {} /\ fetchPc'[c] = "end"
    <3>1. Tail(toFetcher[c]) \in Seq(Datagrams) /\ toFetcher'[c] = Tail(toFetcher[c])
      BY <1>1, <2>1, PushQueues, Taken DEF PushTypeOK
    <3>2. Len(Tail(toFetcher[c])) = 0
      BY <2>2, <2>3, <3>1
    <3>3. toFetcher'[c] = <<>>
      BY <3>1, <3>2, EmptySeq
    <3> QED
      BY <1>1, <2>1, <3>3 DEF PushTypeOK
  <2> QED
    BY <1>1, <1>2, <2>1, <2>3, <2>4 DEF Held
<1>6. CASE FetchBlock(c) \/ FetchEnd(c)
  <2>1. /\ fetchPc[c] = "receive" /\ toFetcher[c] # <<>>
        /\ toFetcher' = [toFetcher EXCEPT ![c] = Tail(@)]
        /\ Head(toFetcher[c]).cmd \in {"FILE_RES", "FILE_END"}
        /\ Add(c)
    BY <1>6 DEF FetchBlock, FetchEnd, Arrived
  <2>2. PICK b \in Datagrams : b = toFetcher[c][1]
    BY <1>1, <2>1, FetchShifts, PushQueues
  <2>3. /\ Len(toFetcher'[c]) = Len(toFetcher[c]) - 1
        /\ \A i \in DOMAIN toFetcher'[c] :
              i + 1 \in DOMAIN toFetcher[c] /\ i \in Nat /\ toFetcher'[c][i] = toFetcher[c][i + 1]
    BY <1>1, <2>1, FetchShifts
  <2>4. Announced(c, 1) /\ pushPc # "request"
    BY <1>1, <2>1, FetchShifts DEF Held
  <2>5. /\ fetched[c] \in Seq(Datagrams) /\ Len(fetched[c]) \in Nat /\ Len(toFetcher[c]) \in Nat
        /\ DOMAIN fetched[c] = 1 .. Len(fetched[c])
    BY <1>1, PushQueues
  <2>6. fetched'[c] = Append(fetched[c], b) /\ fetchSize'[c] = fetchSize[c] + b.len
    <3>1. Head(toFetcher[c]) = b
      BY <1>1, <2>1, <2>2, FetchShifts
    <3> QED
      BY <1>1, <2>1, <3>1 DEF Add, PushTypeOK
  <2>7. /\ Len(fetched'[c]) = Len(fetched[c]) + 1
        /\ DOMAIN fetched'[c] = 1 .. Len(fetched[c]) + 1
        /\ fetched'[c][Len(fetched[c]) + 1] = b
        /\ \A i \in 1 .. Len(fetched[c]) : fetched'[c][i] = fetched[c][i]
    BY <2>5, <2>6, AppendProperties, LenProperties
  <2>8. b.at = Len(fetched[c]) * PUSH_BUF
    <3>1. b.at = (Len(fetched[c]) + 1 - 1) * PUSH_BUF
      BY <2>2, <2>4 DEF Announced
    <3>2. Len(fetched[c]) + 1 - 1 = Len(fetched[c])
      BY <2>5
    <3> QED
      BY <3>1, <3>2
  <2>9. \A i \in DOMAIN fetched'[c] : fetched'[c][i].at = (i - 1) * PUSH_BUF
    <3>1. ASSUME NEW i \in 1 .. Len(fetched[c]) PROVE fetched'[c][i].at = (i - 1) * PUSH_BUF
      BY <1>1, <2>5, <2>7 DEF Held
    <3>2. fetched'[c][Len(fetched[c]) + 1].at = (Len(fetched[c]) + 1 - 1) * PUSH_BUF
      BY <2>2, <2>4, <2>7 DEF Announced
    <3>3. \A i \in DOMAIN fetched'[c] : i \in 1 .. Len(fetched[c]) \/ i = Len(fetched[c]) + 1
      BY <2>5, <2>7
    <3> QED
      BY <3>1, <3>2, <3>3
  <2>10. ASSUME NEW i \in DOMAIN toFetcher'[c]
         PROVE  Announced(c, i)'
    <3>1. Announced(c, i + 1) /\ i \in Nat /\ toFetcher'[c][i] = toFetcher[c][i + 1]
      BY <1>1, <2>3 DEF Held
    <3>2. /\ Len(fetched[c]) + (i + 1) - 1 = Len(fetched'[c]) + i - 1
          /\ Len(fetched[c]) + (i + 1) = Len(fetched'[c]) + i
          /\ i + 1 = Len(toFetcher[c]) => i = Len(toFetcher'[c])
      <4>1. PICK n \in Nat, m \in Nat : n = Len(toFetcher[c]) /\ m = Len(fetched[c])
        BY <2>5
      <4>2. Len(toFetcher'[c]) = n - 1 /\ Len(fetched'[c]) = m + 1
        BY <2>3, <2>7, <4>1
      <4>3. m + (i + 1) - 1 = m + 1 + i - 1 /\ m + (i + 1) = m + 1 + i /\ (i + 1 = n => i = n - 1)
        BY <3>1
      <4> QED
        BY <4>1, <4>2, <4>3
    <3> QED
      BY <1>2, <3>1, <3>2 DEF Announced
  <2>11. pushPc' = "push" /\ pushPeer' = c => Len(fetched'[c]) + Len(toFetcher'[c]) = pushCount'
    <3>1. pushPc = "push" /\ pushPeer = c => Len(fetched[c]) + Len(toFetcher[c]) = pushCount
      BY <1>1 DEF Held
    <3>2. Len(fetched'[c]) + Len(toFetcher'[c]) = Len(fetched[c]) + Len(toFetcher[c])
      <4>1. PICK n \in Nat, m \in Nat : n = Len(toFetcher[c]) /\ m = Len(fetched[c])
        BY <2>5
      <4>2. Len(toFetcher'[c]) = n - 1 /\ Len(fetched'[c]) = m + 1
        BY <2>3, <2>7, <4>1
      <4>3. m + 1 + (n - 1) = m + n
        OBVIOUS
      <4> QED
        BY <4>1, <4>2, <4>3
    <3> QED
      BY <1>2, <3>1, <3>2
  <2>12. fetchSize[c] = Len(fetched[c]) * PUSH_BUF
    BY <1>1, <2>1 DEF Held
  <2>13. CASE FetchBlock(c)
    <3>1. fetchPc'[c] = "receive" /\ b.cmd = "FILE_RES"
      BY <1>1, <2>1, <2>2, <2>13, FetchShifts DEF FetchBlock, Arrived
    <3>2. b.len = PUSH_BUF
      BY <2>2, <2>4, <3>1 DEF Announced
    <3>3. fetchSize'[c] = Len(fetched'[c]) * PUSH_BUF
      BY <2>5, <2>6, <2>7, <2>12, <3>2
    <3> QED
      BY <1>2, <2>4, <2>9, <2>10, <2>11, <3>1, <3>3 DEF Held
  <2>14. CASE FetchEnd(c)
    <3>1. fetchPc'[c] = "end" /\ b.cmd = "FILE_END"
      BY <1>1, <2>1, <2>2, <2>14, FetchShifts DEF FetchEnd, Arrived, PushTypeOK
    <3>2. /\ pushPc \in {"ack", "end"} /\ pushFile # Missing
          /\ Len(fetched[c]) + 1 = pushCount
          /\ b.at + b.len = pushFile /\ pushSize = pushFile
      BY <2>2, <2>4, <3>1 DEF Announced
    <3>3. fetchSize'[c] = pushFile /\ Len(fetched'[c]) = pushCount
      BY <2>6, <2>7, <2>8, <2>12, <3>2
    <3> QED
      BY <1>2, <2>4, <2>9, <2>10, <2>11, <3>1, <3>2, <3>3 DEF Held
  <2> QED
    BY <1>6, <2>13, <2>14
<1> QED
  BY <1>3, <1>4, <1>5, <1>6 DEF Fetcher

LEMMA NextCleanInv ==
  ASSUME PushInv, PushNext
  PROVE  CleanInv'
<1> USE DEF pusher, fetchers, pushNet
<1>1. PushTypeOK /\ CleanInv
  BY DEF PushInv
<1>2. CASE PushNetwork
  <2>1. \E fault \in {"loss", "dup", "swap"} : fault \in Suffered'
    BY <1>1, <1>2, MoreSuffered
  <2> QED
    BY <2>1 DEF CleanInv
<1>3. CASE PushServer \/ \E d \in Fetchers : Fetcher(d)
  <2>1. pushFaults' = pushFaults
    BY <1>3 DEF PushServer, ServeRequest, PushFull, PushShort, PushNothing, TakeAck,
                Fetcher, SendRequest, FetchNotFound, FetchBlock, FetchEnd
  <2> SUFFICES ASSUME Suffered = {}, NEW c \in Fetchers
               PROVE  Held(c)'
    BY <2>1 DEF CleanInv, Suffered
  <2>2. CASE \E d \in Fetchers : Fetcher(d)
    <3>1. PICK d \in Fetchers : Fetcher(d)
      BY <2>2
    <3> QED
      BY <1>1, <3>1, FetcherHeld
  <2>3. CASE PushFull \/ PushShort
    BY <1>1, <2>3, BlockHeld
  <2>4. CASE PushNothing \/ TakeAck
    BY <1>1, <2>4, ServerHeld
  <2>5. CASE ServeRequest
    <3>1. CASE UNCHANGED toFetcher
      BY <1>1, <2>5, <3>1, ServerHeld
    <3>2. CASE /\ toFetcher' = [toFetcher EXCEPT ![Head(toPusher).from] = Append(@, NotFound)]
               /\ pushFile' = Missing /\ pushPc' = "end"
      BY <1>1, <2>5, <3>2, RefusalHeld
    <3> QED
      BY <2>5, <3>1, <3>2 DEF ServeRequest
  <2> QED
    BY <1>3, <2>2, <2>3, <2>4, <2>5 DEF PushServer
<1> QED
  BY <1>2, <1>3 DEF PushNext

\* An empty queue has nothing to lose or to swap; nor does a queue grow by it.
LEMMA NothingMistreated ==
  ASSUME NEW S, NEW q \in Seq(S), NEW fault \in {"loss", "swap"}, NEW r \in Mistreat(q, fault)
  PROVE  q # <<>> /\ r \in Seq(S) /\ Len(r) <= Len(q)
<1>1. Len(q) \in Nat /\ DOMAIN q = 1 .. Len(q)
  BY LenProperties
<1>2. r \in Seq(S)
  BY Mistreated
<1>3. CASE fault = "loss"
  <2>1. PICK i \in 1 .. Len(q) : r = RemoveAt(q, i)
    BY <1>1, <1>3 DEF Mistreat
  <2>2. DOMAIN r = 1 .. Len(q) - 1
    BY <2>1, Removed
  <2>3. Len(r) \in Nat /\ DOMAIN r = 1 .. Len(r)
    BY <1>2, LenProperties
  <2>4. Len(r) <= Len(q)
    <3>1. PICK n \in Nat : n = Len(q)
      BY <1>1, Zenon
    <3>2. PICK k \in Nat : k = Len(r)
      BY <2>3, Zenon
    <3>3. 1 .. k = 1 .. n - 1 /\ n > 0
      BY <2>1, <2>2, <2>3, <3>1, <3>2
    <3>4. k <= n
      <4>1. k = 0 \/ k \in 1 .. k
        OBVIOUS
      <4> QED
        BY <3>3, <4>1
    <3> QED
      BY <3>1, <3>2, <3>4
  <2> QED
    BY <1>1, <1>2, <2>1, <2>4, EmptySeq
<1>4. CASE fault = "swap"
  <2>1. PICK i \in 1 .. Len(q) - 1 : r = [q EXCEPT ![i] = q[i + 1], ![i + 1] = q[i]]
    BY <1>4 DEF Mistreat
  <2>2. i \in 1 .. Len(q) /\ i + 1 \in 1 .. Len(q)
    BY <1>1
  <2>3. q[i] \in S /\ q[i + 1] \in S
    BY <2>2, ElementOfSeq
  <2>4. [q EXCEPT ![i] = q[i + 1]] \in Seq(S) /\ Len([q EXCEPT ![i] = q[i + 1]]) = Len(q)
    BY <2>2, <2>3, ExceptSeq
  <2>5. Len(r) = Len(q)
    BY <2>1, <2>2, <2>3, <2>4, ExceptSeq
  <2> QED
    BY <1>1, <1>2, <2>2, <2>5, EmptySeq
<1> QED
  BY <1>3, <1>4

\* The acknowledgment is c's if nobody else has asked.
LEMMA NextAckInv ==
  ASSUME PushInv, PushNext
  PROVE  AckInv'
<1> USE DEF pusher, fetchers, pushNet
<1>1. PushTypeOK /\ PushRange /\ AckInv
  BY DEF PushInv
<1> SUFFICES ASSUME NEW c \in Fetchers, OnlyAsks(c)'
             PROVE  /\ pushPc' = "request" =>
                         /\ fetchPc'[c] = "start" => toPusher' = <<>>
                         /\ Len(toPusher') <= 1
                         /\ toFetcher'[c] = <<>> /\ fetchPc'[c] # "end"
                    /\ pushPc' # "request" =>
                         fetchPc'[c] # "start" /\ (fetchPc'[c] # "end" => toPusher' = <<>>)
                    /\ pushPc' = "end" /\ pushFile' # Missing /\ ~FullBlocksOnly' => fetchPc'[c] = "end"
  BY DEF AckInv
<1>2. OnlyAsks(c)
  <2>1. \A d \in Fetchers : fetchPc'[d] = "start" => fetchPc[d] = "start"
    BY <1>1 DEF PushNext, PushServer, PushNetwork, ServeRequest, PushFull, PushShort, PushNothing,
                TakeAck, Fetcher, SendRequest, FetchNotFound, FetchBlock, FetchEnd, PushTypeOK
  <2>2. Suffered \subseteq Suffered'
    <3>1. CASE PushNetwork
      BY <1>1, <3>1, MoreSuffered
    <3>2. CASE PushServer \/ \E d \in Fetchers : Fetcher(d)
      BY <3>2 DEF PushServer, ServeRequest, PushFull, PushShort, PushNothing, TakeAck,
                  Fetcher, SendRequest, FetchNotFound, FetchBlock, FetchEnd, Suffered
    <3> QED
      BY <3>1, <3>2 DEF PushNext
  <2> QED
    BY <2>1, <2>2 DEF OnlyAsks
<1>3. /\ pushPc = "request" =>
           /\ fetchPc[c] = "start" => toPusher = <<>>
           /\ Len(toPusher) <= 1
           /\ toFetcher[c] = <<>> /\ fetchPc[c] # "end"
      /\ pushPc # "request" =>
           fetchPc[c] # "start" /\ (fetchPc[c] # "end" => toPusher = <<>>)
      /\ pushPc = "end" /\ pushFile # Missing /\ ~FullBlocksOnly => fetchPc[c] = "end"
  BY <1>1, <1>2 DEF AckInv
<1>4. CASE ServeRequest
  <2>1. /\ pushPc = "request" /\ toPusher # <<>> /\ toPusher' = Tail(toPusher) /\ fetchPc' = fetchPc
        /\ pushPc' = "push" \/ (pushPc' = "end" /\ pushFile' = Missing)
    BY <1>4 DEF ServeRequest
  <2>2. fetchPc[c] # "start" /\ Len(toPusher) <= 1
    BY <1>3, <2>1
  <2>3. Tail(toPusher) = <<>>
    <3>1. /\ Len(toPusher) \in Nat /\ Len(toPusher) # 0 /\ toPusher \in Seq([from : Fetchers, cmd : {"FILE_REQ", "FILE_END_ACK"}])
      BY <1>1, <2>1, EmptySeq, LenProperties DEF PushTypeOK
    <3>2. /\ Len(Tail(toPusher)) = Len(toPusher) - 1
          /\ Tail(toPusher) \in Seq([from : Fetchers, cmd : {"FILE_REQ", "FILE_END_ACK"}])
      BY <2>1, <3>1, HeadTailProperties
    <3>3. Len(toPusher) - 1 = 0
      <4>1. Len(toPusher) \in Nat /\ Len(toPusher) # 0 /\ Len(toPusher) <= 1
        BY <2>2, <3>1, Zenon
      <4>2. PICK n \in Nat : n = Len(toPusher)
        BY <4>1, Zenon
      <4>3. n # 0 /\ n <= 1
        BY <4>1, <4>2, Zenon
      <4>4. n - 1 = 0
        BY <4>3
      <4> QED
        BY <4>2, <4>4, Zenon
    <3> QED
      BY <3>2, <3>3, EmptySeq
  <2> QED
    BY <2>1, <2>2, <2>3
<1>5. CASE PushFull \/ PushShort
  <2>1. pushPc = "push" /\ pushPc' \in {"push", "ack"} /\ UNCHANGED <<toPusher, fetchPc>>
    BY <1>5 DEF PushFull, PushShort
  <2> QED
    BY <1>3, <2>1
<1>6. CASE PushNothing
  <2>1. pushPc = "push" /\ pushPc' = "end" /\ UNCHANGED <<toPusher, fetchPc, pushFile>>
    BY <1>6 DEF PushNothing
  <2>2. pushFile = pushCount * PUSH_BUF /\ pushCount \in 0 .. MaxFile
    <3>1. pushFile \in Int /\ pushSize \in Int /\ pushFile - pushSize = 0 /\ pushCount \in 0 .. MaxFile
      BY <1>1, <1>6 DEF PushNothing, BytesLeft, PushTypeOK, Missing
    <3>2. pushFile = pushSize
      BY <3>1
    <3> QED
      BY <1>1, <2>1, <3>1, <3>2 DEF PushRange
  <2>3. FullBlocksOnly'
    BY <2>1, <2>2 DEF FullBlocksOnly
  <2> QED
    BY <1>3, <2>1, <2>3
<1>7. CASE TakeAck
  <2>1. pushPc = "ack" /\ pushPc' = "end" /\ toPusher # <<>> /\ fetchPc' = fetchPc
    BY <1>7 DEF TakeAck
  <2>2. fetchPc[c] = "end"
    BY <1>3, <2>1
  <2> QED
    BY <2>1, <2>2
<1>8. CASE \E d \in Fetchers : Fetcher(d)
  <2>1. PICK d \in Fetchers : Fetcher(d)
    BY <1>8
  <2>2. d = c
    <3>1. fetchPc'[d] # "start"
      BY <1>1, <2>1 DEF Fetcher, SendRequest, FetchNotFound, FetchBlock, FetchEnd, Arrived, PushTypeOK
    <3> QED
      BY <3>1 DEF OnlyAsks
  <2>3. /\ UNCHANGED <<pushPc, pushFile>> /\ (FullBlocksOnly' <=> FullBlocksOnly)
    BY <2>1 DEF Fetcher, SendRequest, FetchNotFound, FetchBlock, FetchEnd, FullBlocksOnly
  <2>4. CASE SendRequest(c)
    <3>1. /\ fetchPc[c] = "start" /\ fetchPc'[c] = "receive" /\ toFetcher' = toFetcher
          /\ toPusher' = Append(toPusher, Request(c))
      BY <1>1, <2>4 DEF SendRequest, PushTypeOK
    <3>2. pushPc = "request" /\ toPusher = <<>>
      BY <1>3, <3>1
    <3>3. Len(toPusher') <= 1
      <4>1. Len(Append(<<>>, Request(c))) = 1
        OBVIOUS
      <4> QED
        BY <3>1, <3>2, <4>1
    <3> QED
      BY <1>3, <2>3, <3>1, <3>2, <3>3
  <2>5. CASE FetchNotFound(c) \/ FetchBlock(c) \/ FetchEnd(c)
    <3>1. /\ toFetcher[c] # <<>> /\ fetchPc[c] = "receive" /\ fetchPc'[c] \in {"receive", "end"}
          /\ fetchPc'[c] = "receive" => toPusher' = toPusher
      BY <1>1, <2>5 DEF FetchNotFound, FetchBlock, FetchEnd, Arrived, PushTypeOK
    <3>2. pushPc # "request"
      BY <1>3, <3>1
    <3> QED
      BY <1>3, <2>3, <3>1, <3>2
  <2> QED
    BY <2>1, <2>2, <2>4, <2>5 DEF Fetcher
<1>9. CASE PushNetwork
  <2>1. PICK fault \in {"loss", "dup", "swap"} :
           /\ fault \in Suffered'
           /\ \/ /\ toPusher' \in Mistreat(toPusher, fault)
                 /\ UNCHANGED toFetcher
              \/ /\ \E d \in Fetchers : \E q \in Mistreat(toFetcher[d], fault) :
                      toFetcher' = [toFetcher EXCEPT ![d] = q]
                 /\ UNCHANGED toPusher
    BY <1>1, <1>9, MoreSuffered
  <2>2. fault \in {"loss", "swap"} /\ UNCHANGED <<pushPc, pushFile, fetchPc>>
    BY <1>9, <2>1 DEF OnlyAsks, PushNetwork
  <2>3. FullBlocksOnly' <=> FullBlocksOnly
    BY <2>2 DEF FullBlocksOnly
  <2>4. CASE toPusher' \in Mistreat(toPusher, fault) /\ UNCHANGED toFetcher
    <3>1. toPusher \in Seq([from : Fetchers, cmd : {"FILE_REQ", "FILE_END_ACK"}])
      BY <1>1 DEF PushTypeOK
    <3>2. /\ toPusher # <<>> /\ Len(toPusher') <= Len(toPusher)
          /\ toPusher' \in Seq([from : Fetchers, cmd : {"FILE_REQ", "FILE_END_ACK"}])
      BY <2>2, <2>4, <3>1, NothingMistreated
    <3>3. Len(toPusher') \in Nat /\ Len(toPusher) \in Nat
      BY <3>1, <3>2, LenProperties
    <3>4. pushPc = "request" => fetchPc[c] # "start" /\ Len(toPusher') <= 1
      BY <1>3, <3>2, <3>3
    <3> QED
      BY <1>3, <2>2, <2>3, <2>4, <3>2, <3>4
  <2>5. CASE /\ \E d \in Fetchers : \E q \in Mistreat(toFetcher[d], fault) :
                  toFetcher' = [toFetcher EXCEPT ![d] = q]
             /\ UNCHANGED toPusher
    <3>1. PICK d \in Fetchers : \E q \in Mistreat(toFetcher[d], fault) :
                                  toFetcher' = [toFetcher EXCEPT ![d] = q]
      BY <2>5
    <3>2. PICK q \in Mistreat(toFetcher[d], fault) : toFetcher' = [toFetcher EXCEPT ![d] = q]
      BY <3>1
    <3>3. toFetcher[d] # <<>>
      BY <1>1, <2>2, <3>2, PushQueues, NothingMistreated
    <3>4. toFetcher[c] = <<>> => toFetcher'[c] = <<>>
      BY <1>1, <3>2, <3>3 DEF PushTypeOK
    <3> QED
      BY <1>3, <2>2, <2>3, <2>5, <3>4
  <2> QED
    BY <2>1, <2>4, <2>5
<1> QED
  BY <1>4, <1>5, <1>6, <1>7, <1>8, <1>9 DEF PushNext, PushServer

LEMMA PushInvariance == PushSpec => []PushInv
<1>1. PushInv /\ [PushNext]_pushVars => PushInv'
  <2> SUFFICES ASSUME PushInv, [PushNext]_pushVars
               PROVE  PushInv'
    OBVIOUS
  <2>1. CASE PushNext
    <3>1. PushTypeOK' /\ PushRange'
      BY <2>1, ServerPushTypes, ClientPushTypes DEF PushInv, PushNext
    <3> QED
      BY <2>1, <3>1, NextLossInv, NextCleanInv, NextAckInv DEF PushInv
  <2>2. CASE UNCHANGED pushVars
    <3> USE <2>2 DEF pushVars, pushNet, pusher, fetchers
    <3>1. PushTypeOK' /\ PushRange'
      BY DEF PushInv, PushTypeOK, PushRange
    <3>2. LossInv'
      BY DEF PushInv, LossInv, Suffered
    <3>3. CleanInv'
      <4>1. \A c \in Fetchers : Held(c) => Held(c)'
        BY HeldStays
      <4> QED
        BY <4>1 DEF PushInv, CleanInv, Suffered
    <3>4. AckInv'
      BY DEF PushInv, AckInv, OnlyAsks, Suffered, FullBlocksOnly
    <3> QED
      BY <3>1, <3>2, <3>3, <3>4 DEF PushInv
  <2> QED
    BY <2>1, <2>2
<1> QED
  BY <1>1, InitPushInv, PTL DEF PushSpec

\* The variables of the file push keep their types.
THEOREM PushTypes == PushSpec => []PushTypeOK
<1>1. PushInv => PushTypeOK
  BY DEF PushInv
<1> QED
  BY <1>1, PushInvariance, PTL

\* Blocks come in the order of the file while datagrams are only lost, all of
\* them and with the right totals while nothing is mistreated, and the server
\* ends after its client if nobody else has asked and nothing was doubled.
THEOREM PushOrdered == PushSpec => []PushInOrder
<1>1. PushInv => PushInOrder
  <2> SUFFICES ASSUME PushInv, NEW c \in Fetchers
               PROVE  /\ Suffered \subseteq {"loss"} =>
                           \A i \in 1 .. Len(fetched[c]) - 1 :
                             fetched[c][i].at + fetched[c][i].len <= fetched[c][i + 1].at
                      /\ Suffered = {} =>
                           /\ \A i \in DOMAIN fetched[c] : fetched[c][i].at = (i - 1) * PUSH_BUF
                           /\ fetchPc[c] = "end" /\ pushFile # Missing =>
                                /\ fetchSize[c] = pushFile
                                /\ fetchSize[c] = pushSize
                                /\ Len(fetched[c]) = pushCount
                      /\ /\ pushPc = "end"
                         /\ pushFile # Missing
                         /\ ~FullBlocksOnly
                         /\ "dup" \notin Suffered
                         /\ \A d \in Fetchers \ {c} : fetchPc[d] = "start"
                         => fetchPc[c] = "end"
    BY DEF PushInOrder
  <2>1. ASSUME Suffered \subseteq {"loss"}, NEW i \in 1 .. Len(fetched[c]) - 1
        PROVE  fetched[c][i].at + fetched[c][i].len <= fetched[c][i + 1].at
    <3>1. i \in DOMAIN fetched[c] /\ i + 1 \in DOMAIN fetched[c] /\ i < i + 1
      BY PushQueues DEF PushInv
    <3> QED
      BY <2>1, <3>1 DEF PushInv, LossInv, InOrder
  <2>2. ASSUME Suffered = {}
        PROVE  /\ \A i \in DOMAIN fetched[c] : fetched[c][i].at = (i - 1) * PUSH_BUF
               /\ fetchPc[c] = "end" /\ pushFile # Missing =>
                    /\ fetchSize[c] = pushFile
                    /\ fetchSize[c] = pushSize
                    /\ Len(fetched[c]) = pushCount
    BY <2>2 DEF PushInv, CleanInv, Held
  <2>3. ASSUME pushPc = "end", pushFile # Missing, ~FullBlocksOnly, "dup" \notin Suffered,
               \A d \in Fetchers \ {c} : fetchPc[d] = "start"
        PROVE  fetchPc[c] = "end"
    BY <2>3 DEF PushInv, AckInv, OnlyAsks
  <2> QED
    BY <2>1, <2>2, <2>3
<1> QED
  BY <1>1, PushInvariance, PTL
=============================================================================

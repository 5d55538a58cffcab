-------------------------- MODULE LabProgramsProofs -------------------------
(***************************************************************************)
(* Theorems about the forking servers and the select loops, and about the  *)
(* smaller programs together.                                              *)
(***************************************************************************)
EXTENDS LabPrograms, DialogueProofs, FileFetchProofs

-----------------------------------------------------------------------------
(***************************************************************************)
(* The forking servers.                                                    *)
(***************************************************************************)

Line == [from : Typists, n : 1 .. MaxLines]

\* A connection that waits for accept() has no child yet, and waits once.
BacklogInv ==
  /\ \A c \in Typists : typist[c] = "start" => child[c] = "none"
  /\ \A i \in DOMAIN backlog : child[backlog[i]] = "none" /\ typist[backlog[i]] # "start"
  /\ \A i, j \in DOMAIN backlog : backlog[i] = backlog[j] => i = j

\* Lines are typed, then echoed, then shown; only a child that is about to write
\* to the pipe has some in hand.
LinesInv ==
  \A c \in Typists :
    /\ shown[c] <= taken[c] /\ taken[c] <= typed[c]
    /\ hand[c] <= taken[c]
    /\ child[c] # "store" => hand[c] = 0

ServeInv ==
  /\ ForkTypeOK
  /\ BacklogInv
  /\ LinesInv
  /\ storer = "read" => readsLeft > 0

ForkInv == ServeInv /\ ZombiesAreMerged /\ StoredInOrder

\* What goes to the pipe are lines.
LEMMA LinesType ==
  ASSUME NEW c \in Typists, NEW from \in Nat, NEW to \in 0 .. MaxLines, from <= to
  PROVE  /\ Lines(c, from, to) \in Seq(Line)
         /\ Len(Lines(c, from, to)) = to - from
         /\ \A i \in 1 .. to - from : Lines(c, from, to)[i] = [from |-> c, n |-> from + i]
<1>1. to \in Nat /\ to - from \in Nat /\ to <= MaxLines /\ MaxLines \in Nat
  BY ForkAssumption
<1>2. \A i \in 1 .. to - from : [from |-> c, n |-> from + i] \in Line
  BY <1>1 DEF Line
<1> QED
  BY <1>1, <1>2 DEF Lines

\* s2 is s and the first n elements of q, and q2 is what is left of q.
MovesFirst(s, q, n, s2, q2) ==
  /\ Len(s2) = Len(s) + n
  /\ \A i \in 1 .. Len(s) + n : s2[i] = IF i <= Len(s) THEN s[i] ELSE q[i - Len(s)]
  /\ Len(q2) = Len(q) - n
  /\ \A i \in 1 .. Len(q) - n : q2[i] = q[n + i]

\* What the storing process takes from the pipe moves behind what it has stored.
LEMMA PipeMoves ==
  ASSUME NEW S, NEW s \in Seq(S), NEW q \in Seq(S), NEW n \in Nat, n <= Len(q),
         NEW s2 \in Seq(S), NEW q2 \in Seq(S), MovesFirst(s, q, n, s2, q2),
         NEW c, NEW k, FirstLines(c, s \o q, k)
  PROVE  FirstLines(c, s2 \o q2, k)
<1> DEFINE x == s2 \o q2
           y == s \o q
<1>0. /\ Len(s2) = Len(s) + n
      /\ \A i \in 1 .. Len(s) + n : s2[i] = IF i <= Len(s) THEN s[i] ELSE q[i - Len(s)]
      /\ Len(q2) = Len(q) - n
      /\ \A i \in 1 .. Len(q) - n : q2[i] = q[n + i]
  BY DEF MovesFirst
<1>1. Len(q) \in Nat /\ Len(s) \in Nat
  BY LenProperties
<1>2. /\ x \in Seq(S) /\ Len(x) = Len(s2) + Len(q2)
      /\ \A i \in 1 .. Len(s2) + Len(q2) :
           x[i] = IF i <= Len(s2) THEN s2[i] ELSE q2[i - Len(s2)]
  BY ConcatProperties, Zenon
<1>3. /\ y \in Seq(S) /\ Len(y) = Len(s) + Len(q)
      /\ \A i \in 1 .. Len(s) + Len(q) : y[i] = IF i <= Len(s) THEN s[i] ELSE q[i - Len(s)]
  BY ConcatProperties, Zenon
<1> HIDE DEF x, y
<1>6. Len(s2) + Len(q2) = Len(s) + Len(q)
  BY <1>0, <1>1
<1>4. \A i \in 1 .. Len(s) + Len(q) : x[i] = y[i]
  <2> SUFFICES ASSUME NEW i \in 1 .. Len(s) + Len(q)
               PROVE  x[i] = y[i]
    OBVIOUS
  <2>0. i \in 1 .. Len(s2) + Len(q2) /\ i \in Nat
    BY <1>1, <1>6
  <2>1. CASE i <= Len(s) + n
    <3>1. x[i] = s2[i]
      BY <1>0, <1>1, <1>2, <2>0, <2>1
    <3>2. i \in 1 .. Len(s) + n
      BY <1>1, <2>0, <2>1
    <3> QED
      BY <1>0, <1>3, <3>1, <3>2
  <2>2. CASE i > Len(s) + n
    <3>1. i - (Len(s) + n) \in 1 .. Len(q) - n /\ n + (i - (Len(s) + n)) = i - Len(s)
      BY <1>1, <2>2
    <3>2. q2[i - (Len(s) + n)] = q[i - Len(s)]
      BY <1>0, <3>1
    <3>3. x[i] = q2[i - (Len(s) + n)]
      BY <1>0, <1>1, <1>2, <2>0, <2>2
    <3>4. y[i] = q[i - Len(s)]
      BY <1>1, <1>3, <2>2
    <3> QED
      BY <3>2, <3>3, <3>4
  <2> QED
    BY <1>1, <2>0, <2>1, <2>2
<1>5. x = y
  BY <1>2, <1>3, <1>4, <1>6, SeqEqual
<1>7. FirstLines(c, y, k)
  BY DEF y
<1>8. FirstLines(c, x, k)
  BY <1>5, <1>7
<1> QED
  BY <1>8 DEF x

\* No child is there to begin with.
LEMMA InitForkInv ==
  ASSUME NEW withStore \in BOOLEAN, ForkInit(withStore)
  PROVE  ForkInv
<1> USE ForkAssumption DEF ForkInit
<1>1. ForkTypeOK
  <2>1. /\ backlog \in Seq(Typists) /\ pipe \in Seq(Line) /\ stored \in Seq(Line)
        /\ Len(pipe) = 0
    BY EmptySeq
  <2>2. /\ child \in [Typists -> {"none", "read", "store", "zombie", "reaped", "refused"}]
        /\ typist \in [Typists -> {"start", "typing", "shut", "end", "dead"}]
        /\ storer \in {"none", "read", "zombie", "reaped"}
    OBVIOUS
  <2>3. /\ taken \in [Typists -> 0 .. MaxLines] /\ hand \in [Typists -> 0 .. CHUNK]
        /\ typed \in [Typists -> 0 .. MaxLines] /\ shown \in [Typists -> 0 .. MaxLines]
        /\ readsLeft \in 0 .. READS
    OBVIOUS
  <2>4. storing \in BOOLEAN /\ sigchld \in BOOLEAN
    BY Zenon
  <2>5. merged \in Nat /\ 0 <= PIPE
    OBVIOUS
  <2> QED
    BY <2>1, <2>2, <2>3, <2>4, <2>5 DEF ForkTypeOK, Line
<1>2. BacklogInv /\ LinesInv /\ (storer = "read" => readsLeft > 0)
  BY DEF BacklogInv, LinesInv
<1>3. ZombiesAreMerged
  <2>1. Zombies = {}
    BY DEF Zombies
  <2> QED
    BY <2>1, FS_EmptySet DEF ZombiesAreMerged, ZombieCount
<1>4. StoredInOrder
  <2>1. stored \o pipe = <<>>
    OBVIOUS
  <2> QED
    BY <2>1 DEF StoredInOrder, FirstLines
<1> QED
  BY <1>1, <1>2, <1>3, <1>4 DEF ForkInv, ServeInv

\* Everything but the zombies and the lines stored, of each step.
LEMMA ParentServes ==
  ASSUME ServeInv, Fork \/ ForkFails
  PROVE  ServeInv'
<1> USE DEF parentVars, storeVars, typistVars
<1>1. PICK state \in {"read", "refused"} :
        /\ child' = [child EXCEPT ![Head(backlog)] = state]
        /\ backlog # <<>>
        /\ backlog' = Tail(backlog)
  BY DEF Fork, ForkFails
<1>2. /\ UNCHANGED <<storing, sigchld, merged, storeVars, typistVars, taken, hand>>
  BY DEF Fork, ForkFails
<1>3. ForkTypeOK /\ BacklogInv /\ LinesInv
  BY DEF ServeInv
<1>4. /\ backlog \in Seq(Typists) /\ Len(backlog) \in Nat /\ Len(backlog) > 0
      /\ \A i \in 1 .. Len(backlog) : backlog[i] \in Typists
      /\ Head(backlog) = backlog[1] /\ Head(backlog) \in Typists
      /\ DOMAIN backlog = 1 .. Len(backlog)
  BY <1>1, <1>3, LenProperties, ElementOfSeq, EmptySeq, HeadTailProperties DEF ForkTypeOK
<1>5. /\ backlog' \in Seq(Typists) /\ DOMAIN backlog' = 1 .. Len(backlog) - 1
      /\ \A i \in 1 .. Len(backlog) - 1 : backlog'[i] = backlog[i + 1]
  BY <1>1, <1>4, HeadTailProperties, LenProperties
<1>6. ForkTypeOK'
  <2>1. child' \in [Typists -> {"none", "read", "store", "zombie", "reaped", "refused"}]
    BY <1>1, <1>3, <1>4 DEF ForkTypeOK
  <2> QED
    BY <1>2, <1>3, <1>5, <2>1 DEF ForkTypeOK
<1>7. BacklogInv'
  <2>1. \A c \in Typists : typist'[c] = "start" => child'[c] = "none"
    <3>1. 1 \in DOMAIN backlog /\ typist[Head(backlog)] # "start"
      BY <1>3, <1>4 DEF BacklogInv
    <3> SUFFICES ASSUME NEW c \in Typists, typist[c] = "start"
                 PROVE  child'[c] = "none"
      BY <1>2
    <3>2. c # Head(backlog) /\ child[c] = "none"
      BY <1>3, <3>1 DEF BacklogInv
    <3> QED
      BY <1>1, <1>3, <1>4, <3>2 DEF ForkTypeOK
  <2>2. \A i \in DOMAIN backlog' : backlog'[i] # backlog[1] /\ backlog'[i] \in Typists
    BY <1>3, <1>4, <1>5, SMTT(30) DEF BacklogInv
  <2>3. \A i \in DOMAIN backlog' : child'[backlog'[i]] = child[backlog'[i]]
    BY <1>1, <1>3, <1>4, <2>2 DEF ForkTypeOK
  <2>4. \A i \in DOMAIN backlog' : child'[backlog'[i]] = "none" /\ typist'[backlog'[i]] # "start"
    <3> SUFFICES ASSUME NEW i \in DOMAIN backlog'
                 PROVE  child'[backlog'[i]] = "none" /\ typist'[backlog'[i]] # "start"
      OBVIOUS
    <3>1. i + 1 \in DOMAIN backlog /\ backlog'[i] = backlog[i + 1]
      BY <1>4, <1>5
    <3>2. child[backlog[i + 1]] = "none" /\ typist[backlog[i + 1]] # "start"
      BY <1>3, <3>1 DEF BacklogInv
    <3> QED
      BY <1>2, <2>3, <3>1, <3>2
  <2>5. \A i, j \in DOMAIN backlog' : backlog'[i] = backlog'[j] => i = j
    <3> SUFFICES ASSUME NEW i \in DOMAIN backlog', NEW j \in DOMAIN backlog',
                        backlog'[i] = backlog'[j]
                 PROVE  i = j
      OBVIOUS
    <3>1. /\ i + 1 \in DOMAIN backlog /\ j + 1 \in DOMAIN backlog
          /\ backlog[i + 1] = backlog[j + 1] /\ i \in Int /\ j \in Int
      BY <1>4, <1>5
    <3>2. i + 1 = j + 1
      BY <1>3, <3>1 DEF BacklogInv
    <3> QED
      BY <3>1, <3>2
  <2> QED
    BY <2>1, <2>4, <2>5 DEF BacklogInv
<1>8. LinesInv'
  <2>1. child[Head(backlog)] = "none"
    BY <1>3, <1>4 DEF BacklogInv
  <2> QED
    BY <1>1, <1>2, <1>3, <1>4, <2>1 DEF LinesInv, ForkTypeOK
<1> QED
  BY <1>2, <1>6, <1>7, <1>8 DEF ServeInv

\* The handler of SIGCHLD reaps children that have ended.
LEMMA ReaperServes ==
  ASSUME ServeInv, read_childproc
  PROVE  ServeInv'
<1> USE DEF parentVars, storeVars, typistVars
<1>1. ForkTypeOK /\ BacklogInv /\ LinesInv
  BY DEF ServeInv
<1>2. /\ UNCHANGED <<storing, backlog, merged, pipe, stored, readsLeft, typistVars, taken, hand>>
      /\ sigchld' = FALSE
  BY DEF read_childproc
<1>3. CASE /\ storer = "zombie" /\ storer' = "reaped"
           /\ UNCHANGED child
  <2>1. ForkTypeOK'
    BY <1>1, <1>2, <1>3 DEF ForkTypeOK
  <2>2. BacklogInv' /\ LinesInv'
    BY <1>1, <1>2, <1>3 DEF BacklogInv, LinesInv
  <2> QED
    BY <1>3, <2>1, <2>2 DEF ServeInv
<1>4. CASE \E c \in Zombies : /\ child' = [child EXCEPT ![c] = "reaped"]
                              /\ UNCHANGED storer
  <2>1. PICK c \in Typists : /\ child[c] = "zombie"
                             /\ child' = [child EXCEPT ![c] = "reaped"]
                             /\ storer' = storer
    BY <1>4 DEF Zombies
  <2>2. ForkTypeOK'
    <3>1. child' \in [Typists -> {"none", "read", "store", "zombie", "reaped", "refused"}]
      BY <1>1, <2>1 DEF ForkTypeOK
    <3> QED
      BY <1>1, <1>2, <2>1, <3>1 DEF ForkTypeOK
  <2>3. \A d \in Typists : child[d] = "none" => child'[d] = "none"
    BY <1>1, <2>1 DEF ForkTypeOK
  <2>4. BacklogInv'
    <3>1. \A i \in DOMAIN backlog : backlog[i] \in Typists
      BY <1>1, LenProperties, ElementOfSeq DEF ForkTypeOK
    <3> QED
      BY <1>1, <1>2, <2>3, <3>1 DEF BacklogInv
  <2>5. LinesInv'
    BY <1>1, <1>2, <2>1 DEF LinesInv, ForkTypeOK
  <2> QED
    BY <1>2, <2>1, <2>2, <2>4, <2>5 DEF ServeInv
<1> QED
  BY <1>3, <1>4 DEF read_childproc

\* The storing process takes lines out of the pipe, in their order.
LEMMA StorerServes ==
  ASSUME ServeInv, StorerReads
  PROVE  /\ ServeInv'
         /\ \A c \in Typists : \A k : FirstLines(c, stored \o pipe, k)
                                       => FirstLines(c, stored' \o pipe', k)
<1> USE DEF parentVars, storeVars, typistVars
<1>1. ForkTypeOK /\ BacklogInv /\ LinesInv
  BY DEF ServeInv
<1>2. UNCHANGED <<storing, backlog, typistVars, child, taken, hand>>
  BY DEF StorerReads
<1>3. pipe \in Seq(Line) /\ stored \in Seq(Line) /\ Len(pipe) \in Nat /\ Len(pipe) <= PIPE
  BY <1>1, LenProperties DEF ForkTypeOK, Line
<1>4. PICK n \in Nat : /\ n <= Len(pipe)
                       /\ stored' = stored \o SubSeq(pipe, 1, n)
                       /\ pipe' = SubSeq(pipe, n + 1, Len(pipe))
  <2> DEFINE m == IF Len(pipe) < CHUNK THEN Len(pipe) ELSE CHUNK
  <2>1. m \in Nat /\ m <= Len(pipe)
    BY <1>3, ForkAssumption
  <2>2. stored' = stored \o SubSeq(pipe, 1, m) /\ pipe' = SubSeq(pipe, m + 1, Len(pipe))
    BY DEF StorerReads
  <2> QED
    BY <2>1, <2>2, Zenon
<1>5. /\ stored' \in Seq(Line) /\ pipe' \in Seq(Line) /\ Len(pipe') = Len(pipe) - n
      /\ \A c \in Typists : \A k : FirstLines(c, stored \o pipe, k)
                                    => FirstLines(c, stored' \o pipe', k)
  <2> DEFINE t == SubSeq(pipe, 1, n)
  <2>1. Len(stored) \in Nat /\ \A i \in 1 .. Len(pipe) : pipe[i] \in Line
    BY <1>3, LenProperties, ElementOfSeq
  <2>2. t \in Seq(Line) /\ Len(t) = n /\ \A i \in 1 .. n : t[i] = pipe[i]
    BY <1>3, <1>4, <2>1, SubSeqProperties
  <2>3. /\ pipe' \in Seq(Line) /\ Len(pipe') = Len(pipe) - n
        /\ \A i \in 1 .. Len(pipe) - n : pipe'[i] = pipe[n + i]
    BY <1>3, <1>4, <2>1, SubSeqProperties
  <2>4. stored' = stored \o t
    BY <1>4
  <2> HIDE DEF t
  <2>5. /\ stored' \in Seq(Line) /\ Len(stored') = Len(stored) + n
        /\ \A i \in 1 .. Len(stored) + n :
             stored'[i] = IF i <= Len(stored) THEN stored[i] ELSE pipe[i - Len(stored)]
    <3>1. /\ stored \o t \in Seq(Line) /\ Len(stored \o t) = Len(stored) + Len(t)
          /\ \A i \in 1 .. Len(stored) + Len(t) :
               (stored \o t)[i] = IF i <= Len(stored) THEN stored[i] ELSE t[i - Len(stored)]
      BY <1>3, <2>2, ConcatProperties, Zenon
    <3>2. /\ stored' \in Seq(Line) /\ Len(stored') = Len(stored) + n
          /\ \A i \in 1 .. Len(stored) + n :
               stored'[i] = IF i <= Len(stored) THEN stored[i] ELSE t[i - Len(stored)]
      BY <2>2, <2>4, <3>1, Zenon
    <3>3. \A i \in 1 .. Len(stored) + n : i > Len(stored) => i - Len(stored) \in 1 .. n
      BY <1>4, <2>1
    <3> QED
      BY <2>1, <2>2, <3>2, <3>3
  <2>6. n <= Len(pipe)
    BY <1>4
  <2>7. \A c \in Typists : \A k : FirstLines(c, stored \o pipe, k)
                                   => FirstLines(c, stored' \o pipe', k)
    <3>1. MovesFirst(stored, pipe, n, stored', pipe')
      BY <2>3, <2>5 DEF MovesFirst
    <3> QED
      BY <1>3, <2>3, <2>5, <2>6, <3>1, PipeMoves
  <2> QED
    BY <2>3, <2>5, <2>7
<1>6. /\ readsLeft' \in 0 .. READS
      /\ storer' \in {"none", "read", "zombie", "reaped"}
      /\ storer' = "read" => readsLeft' > 0
  BY <1>1, ForkAssumption, SMTT(30) DEF ServeInv, StorerReads, ForkTypeOK
<1>7. sigchld' \in BOOLEAN /\ merged' \in Nat
  <2>1. \/ sigchld' = TRUE /\ merged' = IF sigchld THEN merged + 1 ELSE merged
        \/ sigchld' = sigchld /\ merged' = merged
    BY DEF StorerReads, RaiseSigchld
  <2>2. sigchld \in BOOLEAN /\ merged \in Nat
    BY <1>1 DEF ForkTypeOK
  <2>3. sigchld' \in BOOLEAN
    BY <2>1, <2>2, Zenon
  <2> QED
    BY <2>1, <2>2, <2>3
<1>8. ForkTypeOK'
  <2>1. Len(pipe') <= PIPE
    BY <1>3, <1>4, <1>5, ForkAssumption
  <2> QED
    BY <1>1, <1>2, <1>5, <1>6, <1>7, <2>1 DEF ForkTypeOK, Line
<1>9. BacklogInv' /\ LinesInv'
  BY <1>1, <1>2 DEF BacklogInv, LinesInv
<1> QED
  BY <1>5, <1>6, <1>8, <1>9 DEF ServeInv

\* A child echoes a line, or ends.
LEMMA ChildServes ==
  ASSUME ServeInv, NEW c \in Typists, Echo(c) \/ ChildEnds(c) \/ ChildReset(c)
  PROVE  ServeInv'
<1> USE DEF parentVars, storeVars, typistVars
<1>1. ForkTypeOK /\ BacklogInv /\ LinesInv
  BY DEF ServeInv
<1>2. UNCHANGED <<storing, backlog, storeVars, typistVars>>
  BY DEF Echo, ChildEnds, ChildReset
<1>3. sigchld' \in BOOLEAN /\ merged' \in Nat
  <2>1. \/ sigchld' = TRUE /\ merged' = IF sigchld THEN merged + 1 ELSE merged
        \/ sigchld' = sigchld /\ merged' = merged
    BY DEF Echo, ChildEnds, ChildReset, RaiseSigchld
  <2>2. sigchld \in BOOLEAN /\ merged \in Nat
    BY <1>1 DEF ForkTypeOK
  <2>3. sigchld' \in BOOLEAN
    BY <2>1, <2>2, Zenon
  <2> QED
    BY <2>1, <2>2, <2>3
<1>4. PICK state \in {"read", "store", "zombie"} :
        /\ child[c] = "read"
        /\ child' = [child EXCEPT ![c] = state]
        /\ \/ UNCHANGED <<taken, hand>>
           \/ \E n \in 1 .. CHUNK :
                /\ taken[c] + n <= typed[c]
                /\ taken' = [taken EXCEPT ![c] = @ + n]
                /\ \/ hand' = [hand EXCEPT ![c] = n] /\ state = "store"
                   \/ hand' = [hand EXCEPT ![c] = 0] /\ state = "read"
  <2>1. CASE Echo(c)
    <3>1. PICK n \in 1 .. CHUNK :
            /\ taken[c] + n <= typed[c]
            /\ taken' = [taken EXCEPT ![c] = @ + n]
            /\ hand' = [hand EXCEPT ![c] = IF storing THEN n ELSE 0]
            /\ child[c] = "read"
            /\ child' = [child EXCEPT ![c] = IF storing THEN "store" ELSE "read"]
      BY <2>1 DEF Echo
    <3>2. CASE storing
      <4>1. hand' = [hand EXCEPT ![c] = n] /\ child' = [child EXCEPT ![c] = "store"]
        BY <3>1, <3>2
      <4> QED
        BY <3>1, <4>1, Zenon
    <3>3. CASE ~storing
      <4>1. hand' = [hand EXCEPT ![c] = 0] /\ child' = [child EXCEPT ![c] = "read"]
        BY <3>1, <3>3
      <4> QED
        BY <3>1, <4>1
    <3> QED
      BY <3>2, <3>3
  <2>2. CASE ChildEnds(c) \/ ChildReset(c)
    BY <2>2 DEF ChildEnds, ChildReset
  <2> QED
    BY <2>1, <2>2
<1>5. child' \in [Typists -> {"none", "read", "store", "zombie", "reaped", "refused"}]
  BY <1>1, <1>4 DEF ForkTypeOK
<1>6. \A d \in Typists : typed[d] \in 0 .. MaxLines /\ taken[d] \in Nat /\ hand[d] \in Nat
  BY <1>1, ForkAssumption DEF ForkTypeOK
<1>7. taken' \in [Typists -> 0 .. MaxLines] /\ hand' \in [Typists -> 0 .. CHUNK]
  <2>1. /\ taken \in [Typists -> 0 .. MaxLines] /\ hand \in [Typists -> 0 .. CHUNK]
        /\ MaxLines \in Nat /\ CHUNK \in Nat
    BY <1>1, ForkAssumption DEF ForkTypeOK
  <2>2. CASE UNCHANGED <<taken, hand>>
    BY <2>1, <2>2
  <2>3. CASE ~ UNCHANGED <<taken, hand>>
    <3>1. PICK n \in 1 .. CHUNK :
            /\ taken[c] + n <= typed[c]
            /\ taken' = [taken EXCEPT ![c] = @ + n]
            /\ hand' = [hand EXCEPT ![c] = n] \/ hand' = [hand EXCEPT ![c] = 0]
      BY <1>4, <2>3
    <3>2. taken[c] + n \in 0 .. MaxLines
      BY <1>6, <2>1, <3>1
    <3>3. taken' \in [Typists -> 0 .. MaxLines]
      BY <2>1, <3>1, <3>2
    <3>4. hand' \in [Typists -> 0 .. CHUNK]
      BY <2>1, <3>1
    <3> QED
      BY <3>3, <3>4
  <2> QED
    BY <2>2, <2>3
<1>8. ForkTypeOK'
  BY <1>1, <1>2, <1>3, <1>5, <1>7 DEF ForkTypeOK
<1>9. BacklogInv'
  <2>1. \A i \in DOMAIN backlog : backlog[i] \in Typists
    BY <1>1, LenProperties, ElementOfSeq DEF ForkTypeOK
  <2>2. \A d \in Typists : child[d] = "none" => child'[d] = "none"
    BY <1>1, <1>4 DEF ForkTypeOK
  <2> QED
    BY <1>1, <1>2, <2>1, <2>2 DEF BacklogInv
<1>10. LinesInv'
  BY <1>1, <1>2, <1>4, <1>6, ForkAssumption, SMTT(30) DEF LinesInv, ForkTypeOK
<1> QED
  BY <1>2, <1>8, <1>9, <1>10 DEF ServeInv

\* A child that has echoed a line puts it into the pipe.
LEMMA StoreServes ==
  ASSUME ServeInv, NEW c \in Typists, Store(c)
  PROVE  ServeInv'
<1> USE DEF parentVars, storeVars, typistVars
<1>1. ForkTypeOK /\ BacklogInv /\ LinesInv
  BY DEF ServeInv
<1>2. /\ UNCHANGED <<parentVars, storer, stored, readsLeft, typistVars, taken>>
      /\ child' = [child EXCEPT ![c] = "read"]
      /\ hand' = [hand EXCEPT ![c] = 0]
      /\ pipe' = pipe \o Handed(c)
      /\ Len(pipe) + hand[c] <= PIPE
      /\ child[c] = "store"
  BY DEF Store, Fits
<1>3. /\ taken[c] \in 0 .. MaxLines /\ hand[c] \in Nat /\ hand[c] <= taken[c]
      /\ pipe \in Seq(Line) /\ Len(pipe) \in Nat
  BY <1>1, ForkAssumption, LenProperties DEF ForkTypeOK, LinesInv, Line
<1>4. Handed(c) \in Seq(Line) /\ Len(Handed(c)) = hand[c]
  <2>1. taken[c] - hand[c] \in Nat /\ taken[c] - hand[c] <= taken[c]
    BY <1>3, ForkAssumption
  <2>2. taken[c] - (taken[c] - hand[c]) = hand[c]
    BY <1>3, ForkAssumption
  <2> QED
    BY <1>3, <2>1, <2>2, LinesType DEF Handed
<1>5. pipe' \in Seq(Line) /\ Len(pipe') <= PIPE
  <2>1. /\ pipe \o Handed(c) \in Seq(Line)
        /\ Len(pipe \o Handed(c)) = Len(pipe) + Len(Handed(c))
    BY <1>3, <1>4, ConcatProperties
  <2> QED
    BY <1>2, <1>4, <2>1
<1>6. /\ child' \in [Typists -> {"none", "read", "store", "zombie", "reaped", "refused"}]
      /\ hand' \in [Typists -> 0 .. CHUNK]
  BY <1>1, <1>2, ForkAssumption DEF ForkTypeOK
<1>7. ForkTypeOK'
  BY <1>1, <1>2, <1>5, <1>6 DEF ForkTypeOK, Line
<1>8. BacklogInv'
  <2>1. \A i \in DOMAIN backlog : backlog[i] \in Typists
    BY <1>1, LenProperties, ElementOfSeq DEF ForkTypeOK
  <2>2. \A d \in Typists : child[d] = "none" => child'[d] = "none"
    BY <1>1, <1>2 DEF ForkTypeOK
  <2> QED
    BY <1>1, <1>2, <2>1, <2>2 DEF BacklogInv
<1>9. LinesInv'
  BY <1>1, <1>2, <1>3 DEF LinesInv, ForkTypeOK
<1> QED
  BY <1>2, <1>7, <1>8, <1>9 DEF ServeInv

\* A client connects, types, shows what came back, or leaves.
LEMMA TypistServes ==
  ASSUME ServeInv, NEW c \in Typists,
         Typist(c) \/ ConnectTypist(c) \/ TypeLine(c) \/ TypeQuit(c) \/ KillTypist(c)
  PROVE  ServeInv'
<1> USE DEF parentVars, storeVars, typistVars
<1>1. ForkTypeOK /\ BacklogInv /\ LinesInv
  BY DEF ServeInv
<1>2. UNCHANGED <<storing, sigchld, merged, storeVars, child, taken, hand>>
  BY DEF Typist, ShowLine, TypistEnds, ConnectTypist, TypeLine, TypeQuit, KillTypist
<1>3. \A d \in Typists : /\ typed[d] \in 0 .. MaxLines /\ taken[d] \in 0 .. MaxLines
                         /\ shown[d] \in 0 .. MaxLines
  BY <1>1 DEF ForkTypeOK
<1>4. /\ typed' \in [Typists -> 0 .. MaxLines] /\ shown' \in [Typists -> 0 .. MaxLines]
      /\ \A d \in Typists : typed'[d] >= typed[d] /\ shown'[d] <= taken[d]
  <2>1. CASE ShowLine(c)
    BY <1>1, <1>3, <2>1, ForkAssumption DEF ShowLine, ForkTypeOK, LinesInv
  <2>2. CASE TypeLine(c)
    <3>1. /\ typed[c] < MaxLines /\ typed' = [typed EXCEPT ![c] = @ + 1] /\ shown' = shown
          /\ MaxLines \in Nat
      BY <2>2, ForkAssumption DEF TypeLine
    <3>2. typed \in [Typists -> 0 .. MaxLines] /\ shown \in [Typists -> 0 .. MaxLines]
      BY <1>1 DEF ForkTypeOK
    <3>3. typed[c] + 1 \in 0 .. MaxLines
      BY <1>3, <3>1
    <3>4. \A d \in Typists : shown[d] <= taken[d]
      BY <1>1 DEF LinesInv
    <3>5. \A d \in Typists : typed'[d] = IF d = c THEN typed[c] + 1 ELSE typed[d]
      BY <3>1, <3>2
    <3> QED
      BY <1>3, <3>1, <3>2, <3>3, <3>4, <3>5
  <2>3. CASE TypistEnds(c) \/ ConnectTypist(c) \/ TypeQuit(c) \/ KillTypist(c)
    <3>1. typed' = typed /\ shown' = shown
      BY <2>3 DEF TypistEnds, ConnectTypist, TypeQuit, KillTypist
    <3> QED
      BY <1>1, <1>3, <3>1, ForkAssumption DEF ForkTypeOK, LinesInv
  <2> QED
    BY <2>1, <2>2, <2>3 DEF Typist
<1>5. LinesInv'
  <2> SUFFICES ASSUME NEW d \in Typists
               PROVE  /\ shown'[d] <= taken[d] /\ taken[d] <= typed'[d]
                      /\ hand[d] <= taken[d]
                      /\ child[d] # "store" => hand[d] = 0
    BY <1>2 DEF LinesInv
  <2>1. typed[d] <= typed'[d] /\ taken[d] <= typed[d] /\ typed'[d] \in 0 .. MaxLines
    BY <1>1, <1>3, <1>4 DEF LinesInv
  <2> QED
    BY <1>1, <1>3, <1>4, <2>1, ForkAssumption DEF LinesInv
<1>6. /\ backlog \in Seq(Typists) /\ Len(backlog) \in Nat /\ DOMAIN backlog = 1 .. Len(backlog)
      /\ \A i \in DOMAIN backlog : backlog[i] \in Typists
  BY <1>1, LenProperties, ElementOfSeq DEF ForkTypeOK
<1>7. CASE ConnectTypist(c)
  <2>1. /\ typist[c] = "start" /\ typist' = [typist EXCEPT ![c] = "typing"]
        /\ backlog' = Append(backlog, c)
    BY <1>7 DEF ConnectTypist
  <2>2. /\ backlog' \in Seq(Typists) /\ DOMAIN backlog' = 1 .. Len(backlog) + 1
        /\ \A i \in 1 .. Len(backlog) : backlog'[i] = backlog[i]
        /\ backlog'[Len(backlog) + 1] = c
    BY <1>6, <2>1, AppendProperties
  <2>3. typist' \in [Typists -> {"start", "typing", "shut", "end", "dead"}]
    BY <1>1, <2>1 DEF ForkTypeOK
  <2>4. ForkTypeOK'
    BY <1>1, <1>2, <1>4, <2>2, <2>3 DEF ForkTypeOK
  <2>5. child[c] = "none" /\ \A i \in DOMAIN backlog : backlog[i] # c
    BY <1>1, <1>6, <2>1 DEF BacklogInv
  <2>6. \A i \in DOMAIN backlog' : child[backlog'[i]] = "none" /\ typist'[backlog'[i]] # "start"
    <3> SUFFICES ASSUME NEW i \in 1 .. Len(backlog) + 1
                 PROVE  child[backlog'[i]] = "none" /\ typist'[backlog'[i]] # "start"
      BY <2>2
    <3>1. CASE i = Len(backlog) + 1
      BY <1>1, <2>1, <2>2, <2>5, <3>1 DEF ForkTypeOK
    <3>2. CASE i \in 1 .. Len(backlog)
      <4>1. backlog'[i] = backlog[i] /\ backlog[i] \in Typists /\ backlog[i] # c
        BY <1>6, <2>2, <2>5, <3>2
      <4>2. child[backlog[i]] = "none" /\ typist[backlog[i]] # "start"
        BY <1>1, <1>6, <3>2 DEF BacklogInv
      <4> QED
        BY <1>1, <2>1, <4>1, <4>2 DEF ForkTypeOK
    <3> QED
      BY <1>6, <3>1, <3>2
  <2>7. \A i, j \in DOMAIN backlog' : backlog'[i] = backlog'[j] => i = j
    <3> SUFFICES ASSUME NEW i \in 1 .. Len(backlog) + 1, NEW j \in 1 .. Len(backlog) + 1,
                        backlog'[i] = backlog'[j]
                 PROVE  i = j
      BY <2>2
    <3>1. i \in 1 .. Len(backlog) /\ j \in 1 .. Len(backlog) => i = j
      BY <1>1, <1>6, <2>2 DEF BacklogInv
    <3> QED
      BY <1>6, <2>2, <2>5, <3>1
  <2>8. \A d \in Typists : typist'[d] = "start" => typist[d] = "start"
    BY <1>1, <2>1 DEF ForkTypeOK
  <2>9. BacklogInv'
    BY <1>1, <1>2, <2>6, <2>7, <2>8 DEF BacklogInv
  <2> QED
    BY <1>2, <1>5, <2>4, <2>9 DEF ServeInv
<1>8. CASE ~ConnectTypist(c)
  <2>1. /\ backlog' = backlog
        /\ \A d \in Typists : typist'[d] = typist[d] \/ (typist'[d] # "start" /\ typist[d] # "start")
        /\ typist' \in [Typists -> {"start", "typing", "shut", "end", "dead"}]
    <3>1. CASE ShowLine(c) \/ TypeLine(c)
      BY <1>1, <3>1 DEF ShowLine, TypeLine, ForkTypeOK
    <3>2. CASE TypistEnds(c) \/ TypeQuit(c) \/ KillTypist(c)
      BY <1>1, <3>2 DEF TypistEnds, TypeQuit, KillTypist, ForkTypeOK
    <3> QED
      BY <1>8, <3>1, <3>2 DEF Typist
  <2>2. ForkTypeOK'
    BY <1>1, <1>2, <1>4, <2>1 DEF ForkTypeOK
  <2>3. BacklogInv'
    BY <1>1, <1>2, <1>6, <2>1 DEF BacklogInv
  <2> QED
    BY <1>2, <1>5, <2>2, <2>3 DEF ServeInv
<1> QED
  BY <1>7, <1>8

\* Everything but the zombies and the lines stored, of every step.
LEMMA NextServeInv ==
  ASSUME ServeInv, [ForkNext]_forkVars
  PROVE  ServeInv'
<1>1. CASE UNCHANGED forkVars
  BY <1>1 DEF forkVars, parentVars, storeVars, typistVars, ServeInv, ForkTypeOK, BacklogInv, LinesInv
<1>2. CASE ForkNext
  BY <1>2, ParentServes, ReaperServes, StorerServes, ChildServes, StoreServes, TypistServes
     DEF ForkNext, Parent, Serve
<1> QED
  BY <1>1, <1>2

\* The zombies may be counted.
LEMMA ZombiesFinite ==
  IsFiniteSet(Zombies) /\ Cardinality(Zombies) \in Nat
<1>1. Zombies \subseteq Typists
  BY DEF Zombies
<1> QED
  BY <1>1, ForkAssumption, FS_Subset, FS_CardinalityType

\* Nobody ends, and nobody is reaped.
LEMMA SameZombies ==
  ASSUME ZombiesAreMerged, Zombies' = Zombies, UNCHANGED <<storer, sigchld, merged>>
  PROVE  ZombiesAreMerged'
BY DEF ZombiesAreMerged, ZombieCount

\* One more has ended.
LEMMA OneMoreZombie ==
  ASSUME ServeInv, ZombiesAreMerged, ZombieCount' = ZombieCount + 1, RaiseSigchld
  PROVE  ZombiesAreMerged'
<1>1. merged \in Nat /\ sigchld \in BOOLEAN
  BY DEF ServeInv, ForkTypeOK
<1>2. ZombieCount' = merged' + 1
  BY <1>1 DEF ZombiesAreMerged, RaiseSigchld
<1>3. sigchld' = TRUE
  BY DEF RaiseSigchld
<1> QED
  BY <1>2, <1>3 DEF ZombiesAreMerged

\* A child that ends is one zombie more and one SIGCHLD more.
LEMMA ChildEndsZombies ==
  ASSUME ServeInv, ZombiesAreMerged, NEW c \in Typists, ChildEnds(c) \/ ChildReset(c)
  PROVE  ZombiesAreMerged'
<1>1. /\ child[c] = "read" /\ child' = [child EXCEPT ![c] = "zombie"]
      /\ RaiseSigchld /\ storer' = storer
  BY DEF ChildEnds, ChildReset, storeVars
<1>2. Zombies' = Zombies \cup {c} /\ c \notin Zombies
  BY <1>1 DEF ServeInv, ForkTypeOK, Zombies
<1>3. Cardinality(Zombies') = Cardinality(Zombies) + 1
  BY <1>2, ZombiesFinite, FS_AddElement
<1>4. ZombieCount' = ZombieCount + 1
  BY <1>1, <1>3, ZombiesFinite DEF ZombieCount
<1> QED
  BY <1>1, <1>4, OneMoreZombie

\* The storing process ends after its last read: one zombie more and one SIGCHLD more.
LEMMA StorerZombies ==
  ASSUME ServeInv, ZombiesAreMerged, StorerReads
  PROVE  ZombiesAreMerged'
<1>1. storer = "read" /\ child' = child
  BY DEF StorerReads
<1>2. Zombies' = Zombies
  BY <1>1 DEF Zombies
<1>3. CASE readsLeft = 1
  <2>1. storer' = "zombie" /\ RaiseSigchld
    BY <1>3 DEF StorerReads
  <2>2. ZombieCount' = ZombieCount + 1
    BY <1>1, <1>2, <2>1, ZombiesFinite DEF ZombieCount
  <2> QED
    BY <2>1, <2>2, OneMoreZombie
<1>4. CASE readsLeft # 1
  <2>1. UNCHANGED <<storer, sigchld, merged>>
    BY <1>4 DEF StorerReads
  <2> QED
    BY <1>2, <2>1, SameZombies
<1> QED
  BY <1>3, <1>4

\* One handler reaps one child.
LEMMA ReaperZombies ==
  ASSUME ServeInv, ZombiesAreMerged, read_childproc
  PROVE  ZombiesAreMerged'
<1>1. sigchld = TRUE /\ sigchld' = FALSE /\ merged' = merged /\ merged \in Nat
  BY DEF read_childproc, ServeInv, ForkTypeOK
<1>2. ZombieCount' = ZombieCount - 1
  <2>1. CASE storer = "zombie" /\ storer' = "reaped" /\ UNCHANGED child
    <3>1. Zombies' = Zombies
      BY <2>1 DEF Zombies
    <3> QED
      BY <2>1, <3>1, ZombiesFinite DEF ZombieCount
  <2>2. CASE \E c \in Zombies : child' = [child EXCEPT ![c] = "reaped"] /\ UNCHANGED storer
    <3>1. PICK c \in Zombies : child' = [child EXCEPT ![c] = "reaped"] /\ storer' = storer
      BY <2>2
    <3>2. Zombies' = Zombies \ {c}
      BY <3>1 DEF ServeInv, ForkTypeOK, Zombies
    <3>3. Cardinality(Zombies') = Cardinality(Zombies) - 1
      BY <3>1, <3>2, ZombiesFinite, FS_RemoveElement
    <3> QED
      BY <3>1, <3>3, ZombiesFinite DEF ZombieCount
  <2> QED
    BY <2>1, <2>2 DEF read_childproc
<1>3. ZombieCount = merged + 1
  BY <1>1 DEF ZombiesAreMerged
<1> QED
  BY <1>1, <1>2, <1>3 DEF ZombiesAreMerged

\* No step leaves a zombie that no SIGCHLD stands for.
LEMMA NextZombies ==
  ASSUME ServeInv, ZombiesAreMerged, [ForkNext]_forkVars
  PROVE  ZombiesAreMerged'
<1> USE DEF parentVars, storeVars, typistVars
<1>1. CASE Fork \/ ForkFails
  <2>1. Head(backlog) \in Typists /\ child[Head(backlog)] = "none"
    <3>1. backlog \in Seq(Typists) /\ backlog # <<>>
      BY <1>1 DEF Fork, ForkFails, ServeInv, ForkTypeOK
    <3>2. 1 \in DOMAIN backlog /\ Head(backlog) = backlog[1] /\ backlog[1] \in Typists
      BY <3>1, EmptySeq, LenProperties, ElementOfSeq, HeadTailProperties
    <3> QED
      BY <3>2 DEF ServeInv, BacklogInv
  <2>2. \/ child' = [child EXCEPT ![Head(backlog)] = "read"]
        \/ child' = [child EXCEPT ![Head(backlog)] = "refused"]
    BY <1>1 DEF Fork, ForkFails
  <2>3. Zombies' = Zombies
    BY <2>1, <2>2 DEF Zombies, ServeInv, ForkTypeOK
  <2> QED
    BY <1>1, <2>3, SameZombies DEF Fork, ForkFails
<1>2. CASE \E c \in Typists : Echo(c) \/ Store(c)
  <2>1. PICK c \in Typists : Echo(c) \/ Store(c)
    BY <1>2
  <2>2. PICK state \in {"read", "store"} :
          child[c] # "zombie" /\ child' = [child EXCEPT ![c] = state]
    BY <2>1 DEF Echo, Store
  <2>3. Zombies' = Zombies
    BY <2>2 DEF Zombies, ServeInv, ForkTypeOK
  <2> QED
    BY <2>1, <2>3, SameZombies DEF Echo, Store
<1>3. CASE \E c \in Typists : \/ Typist(c) \/ ConnectTypist(c) \/ TypeLine(c)
                              \/ TypeQuit(c) \/ KillTypist(c)
  <2>1. UNCHANGED <<child, storer, sigchld, merged>>
    BY <1>3 DEF Typist, ShowLine, TypistEnds, ConnectTypist, TypeLine, TypeQuit, KillTypist
  <2>2. Zombies' = Zombies
    BY <2>1 DEF Zombies
  <2> QED
    BY <2>1, <2>2, SameZombies
<1>4. CASE UNCHANGED forkVars
  <2>1. UNCHANGED <<child, storer, sigchld, merged>>
    BY <1>4 DEF forkVars
  <2>2. Zombies' = Zombies
    BY <2>1 DEF Zombies
  <2> QED
    BY <2>1, <2>2, SameZombies
<1> QED
  BY <1>1, <1>2, <1>3, <1>4, ChildEndsZombies, StorerZombies, ReaperZombies
     DEF ForkNext, Parent, Serve

\* L2 is L and behind it the h lines of c that follow its first k.
Extends(L, L2, c, k, h) ==
  /\ DOMAIN L = 1 .. Len(L) /\ DOMAIN L2 = 1 .. Len(L) + h
  /\ \A i \in 1 .. Len(L) : L2[i] = L[i]
  /\ \A i \in 1 .. h : L2[Len(L) + i] = [from |-> c, n |-> k + i]

\* The lines of a client stay in order when its next ones are appended.
LEMMA LinesExtended ==
  ASSUME NEW L, NEW L2, NEW c, NEW k \in Nat, NEW h \in Nat, Len(L) \in Nat,
         Extends(L, L2, c, k, h), FirstLines(c, L, k)
  PROVE  FirstLines(c, L2, k + h)
<1> DEFINE m == Len(L)
<1>1. /\ DOMAIN L = 1 .. m /\ DOMAIN L2 = 1 .. m + h
      /\ \A i \in 1 .. m : L2[i] = L[i]
      /\ \A i \in 1 .. h : L2[m + i] = [from |-> c, n |-> k + i]
  BY DEF Extends
<1>2. /\ \A i \in DOMAIN L : L[i].from = c => L[i].n \in 1 .. k
      /\ \A n \in 1 .. k : \E i \in DOMAIN L : L[i] = [from |-> c, n |-> n]
      /\ \A i, j \in DOMAIN L : i < j /\ L[i].from = c /\ L[j].from = c => L[i].n < L[j].n
  BY DEF FirstLines
<1>3. m \in Nat
  OBVIOUS
<1> HIDE DEF m
<1>4. \A i \in 1 .. m + h : \/ i \in 1 .. m /\ L2[i] = L[i]
                            \/ i - m \in 1 .. h /\ L2[i] = [from |-> c, n |-> k + (i - m)]
  <2> SUFFICES ASSUME NEW i \in 1 .. m + h
               PROVE  \/ i \in 1 .. m /\ L2[i] = L[i]
                      \/ i - m \in 1 .. h /\ L2[i] = [from |-> c, n |-> k + (i - m)]
    OBVIOUS
  <2>1. CASE i \in 1 .. m
    BY <1>1, <2>1
  <2>2. CASE i \notin 1 .. m
    <3>1. i - m \in 1 .. h /\ m + (i - m) = i
      BY <1>3, <2>2
    <3> QED
      BY <1>1, <3>1
  <2> QED
    BY <2>1, <2>2
<1>5. \A i \in DOMAIN L2 : L2[i].from = c => L2[i].n \in 1 .. k + h
  BY <1>1, <1>2, <1>3, <1>4
<1>6. \A n \in 1 .. k + h : \E i \in DOMAIN L2 : L2[i] = [from |-> c, n |-> n]
  <2> SUFFICES ASSUME NEW n \in 1 .. k + h
               PROVE  \E i \in DOMAIN L2 : L2[i] = [from |-> c, n |-> n]
    OBVIOUS
  <2>1. CASE n <= k
    <3>1. PICK i \in 1 .. m : L[i] = [from |-> c, n |-> n]
      BY <1>1, <1>2, <2>1
    <3> QED
      BY <1>1, <1>3, <3>1
  <2>2. CASE n > k
    <3>1. n - k \in 1 .. h /\ k + (n - k) = n /\ m + (n - k) \in 1 .. m + h
      BY <1>3, <2>2
    <3>2. L2[m + (n - k)] = [from |-> c, n |-> k + (n - k)]
      BY <1>1, <3>1
    <3> QED
      BY <1>1, <3>1, <3>2
  <2> QED
    BY <2>1, <2>2
<1>7. \A i, j \in DOMAIN L2 : i < j /\ L2[i].from = c /\ L2[j].from = c => L2[i].n < L2[j].n
  <2> SUFFICES ASSUME NEW i \in 1 .. m + h, NEW j \in 1 .. m + h,
                      i < j, L2[i].from = c, L2[j].from = c
               PROVE  L2[i].n < L2[j].n
    BY <1>1
  <2>1. CASE j \in 1 .. m
    BY <1>1, <1>2, <1>3, <2>1
  <2>2. CASE i \in 1 .. m /\ j \notin 1 .. m
    <3>1. L2[i].n \in 1 .. k
      BY <1>1, <1>2, <2>2
    <3>2. L2[j].n = k + (j - m) /\ j - m \in 1 .. h
      <4>1. L2[j] = [from |-> c, n |-> k + (j - m)] /\ j - m \in 1 .. h
        BY <1>4, <2>2
      <4> QED
        BY <4>1
    <3> QED
      BY <1>3, <3>1, <3>2
  <2>3. CASE i \notin 1 .. m /\ j \notin 1 .. m
    <3>1. L2[j].n = k + (j - m) /\ L2[i].n = k + (i - m)
      <4>1. /\ L2[j] = [from |-> c, n |-> k + (j - m)]
            /\ L2[i] = [from |-> c, n |-> k + (i - m)]
        BY <1>4, <2>3
      <4> QED
        BY <4>1
    <3> QED
      BY <1>3, <3>1
  <2> QED
    BY <1>3, <2>1, <2>2, <2>3
<1> QED
  BY <1>5, <1>6, <1>7 DEF FirstLines

\* The lines of another client stay as they are.
LEMMA OthersExtended ==
  ASSUME NEW L, NEW L2, NEW c, NEW k \in Nat, NEW h \in Nat, Len(L) \in Nat,
         Extends(L, L2, c, k, h), NEW d, d # c, NEW kd, FirstLines(d, L, kd)
  PROVE  FirstLines(d, L2, kd)
<1> DEFINE m == Len(L)
<1>1. /\ DOMAIN L = 1 .. m /\ DOMAIN L2 = 1 .. m + h
      /\ \A i \in 1 .. m : L2[i] = L[i]
      /\ \A i \in 1 .. h : L2[m + i] = [from |-> c, n |-> k + i]
  BY DEF Extends
<1>2. m \in Nat
  OBVIOUS
<1> HIDE DEF m
<1>3. \A i \in DOMAIN L2 : L2[i].from = d => i \in DOMAIN L /\ L2[i] = L[i]
  <2> SUFFICES ASSUME NEW i \in 1 .. m + h, L2[i].from = d, i \notin 1 .. m
               PROVE  FALSE
    BY <1>1
  <2>1. i - m \in 1 .. h /\ m + (i - m) = i
    BY <1>2
  <2>2. L2[i] = [from |-> c, n |-> k + (i - m)]
    BY <1>1, <2>1
  <2> QED
    BY <2>2
<1>4. \A i \in DOMAIN L : i \in DOMAIN L2 /\ L2[i] = L[i]
  BY <1>1, <1>2
<1> QED
  BY <1>3, <1>4 DEF FirstLines

\* What Store() makes of the lines stored and in the pipe.
LEMMA StoreExtends ==
  ASSUME ServeInv, NEW c \in Typists, Store(c)
  PROVE  /\ Len(stored \o pipe) \in Nat
         /\ taken[c] - hand[c] \in Nat /\ hand[c] \in Nat
         /\ Extends(stored \o pipe, stored' \o pipe', c, taken[c] - hand[c], hand[c])
<1> DEFINE H == Handed(c)
           k == taken[c] - hand[c]
           h == hand[c]
           L == stored \o pipe
           L2 == stored' \o pipe'
<1>1. stored' = stored /\ pipe' = pipe \o H
  BY DEF Store
<1>2. /\ stored \in Seq(Line) /\ pipe \in Seq(Line)
      /\ Len(stored) \in Nat /\ Len(pipe) \in Nat
  BY LenProperties DEF ServeInv, ForkTypeOK, Line
<1>3. /\ taken[c] \in 0 .. MaxLines /\ hand[c] \in Nat /\ hand[c] <= taken[c]
  BY ForkAssumption DEF ServeInv, ForkTypeOK, LinesInv
<1>4. k \in Nat /\ h \in Nat /\ k <= taken[c] /\ taken[c] - k = h
  BY <1>3, ForkAssumption
<1>5. /\ H \in Seq(Line) /\ Len(H) = h
      /\ \A i \in 1 .. h : H[i] = [from |-> c, n |-> k + i]
  BY <1>3, <1>4, LinesType, ZenonT(40) DEF Handed
<1> HIDE DEF H, k, h
<1>6. /\ pipe' \in Seq(Line) /\ Len(pipe') = Len(pipe) + h
      /\ \A i \in 1 .. Len(pipe) + h :
           pipe'[i] = IF i <= Len(pipe) THEN pipe[i] ELSE H[i - Len(pipe)]
  BY <1>1, <1>2, <1>5, ConcatProperties
<1>7. /\ L \in Seq(Line) /\ Len(L) = Len(stored) + Len(pipe)
      /\ \A i \in 1 .. Len(stored) + Len(pipe) :
           L[i] = IF i <= Len(stored) THEN stored[i] ELSE pipe[i - Len(stored)]
  BY <1>2, ConcatProperties, Zenon
<1>8. /\ L2 \in Seq(Line) /\ Len(L2) = Len(stored) + Len(pipe')
      /\ \A i \in 1 .. Len(stored) + Len(pipe') :
           L2[i] = IF i <= Len(stored) THEN stored[i] ELSE pipe'[i - Len(stored)]
  <2> DEFINE L3 == stored \o pipe'
  <2>1. /\ L3 \in Seq(Line) /\ Len(L3) = Len(stored) + Len(pipe')
        /\ \A i \in 1 .. Len(stored) + Len(pipe') :
             L3[i] = IF i <= Len(stored) THEN stored[i] ELSE pipe'[i - Len(stored)]
    BY <1>2, <1>6, ConcatProperties, Zenon
  <2>2. L2 = L3
    BY <1>1
  <2> HIDE DEF L2, L3
  <2> QED
    BY <2>1, <2>2
<1> HIDE DEF L, L2
<1>9. /\ DOMAIN L = 1 .. Len(L) /\ DOMAIN L2 = 1 .. Len(L) + h /\ Len(L) \in Nat
  <2>1. DOMAIN L = 1 .. Len(L) /\ DOMAIN L2 = 1 .. Len(L2)
    BY <1>7, <1>8, LenProperties
  <2>2. Len(L2) = Len(L) + h
    BY <1>2, <1>4, <1>6, <1>7, <1>8
  <2> QED
    BY <1>2, <1>7, <2>1, <2>2
<1>10. \A i \in 1 .. Len(L) : L2[i] = L[i]
  <2> SUFFICES ASSUME NEW i \in 1 .. Len(stored) + Len(pipe)
               PROVE  L2[i] = L[i]
    BY <1>7
  <2>1. i \in 1 .. Len(stored) + Len(pipe')
    BY <1>2, <1>4, <1>6
  <2>2. CASE i <= Len(stored)
    BY <1>7, <1>8, <2>1, <2>2
  <2>3. CASE i > Len(stored)
    <3>1. i - Len(stored) \in 1 .. Len(pipe)
      BY <1>2, <2>3
    <3>2. pipe'[i - Len(stored)] = pipe[i - Len(stored)]
      BY <1>2, <1>4, <1>6, <3>1
    <3> QED
      BY <1>2, <1>7, <1>8, <2>1, <2>3, <3>2
  <2> QED
    BY <1>2, <2>2, <2>3
<1>11. \A i \in 1 .. h : L2[Len(L) + i] = [from |-> c, n |-> k + i]
  <2> SUFFICES ASSUME NEW i \in 1 .. h
               PROVE  L2[Len(stored) + Len(pipe) + i] = [from |-> c, n |-> k + i]
    BY <1>7
  <2> DEFINE j == Len(stored) + Len(pipe) + i
  <2>1. /\ j \in 1 .. Len(stored) + Len(pipe') /\ j > Len(stored)
        /\ j - Len(stored) = Len(pipe) + i
    BY <1>2, <1>4, <1>6
  <2> HIDE DEF j
  <2>2. L2[j] = pipe'[Len(pipe) + i]
    <3>1. L2[j] = IF j <= Len(stored) THEN stored[j] ELSE pipe'[j - Len(stored)]
      BY <1>8, <2>1
    <3>2. ~(j <= Len(stored))
      BY <1>2, <2>1
    <3> QED
      BY <2>1, <3>1, <3>2
  <2>3. pipe'[Len(pipe) + i] = H[i]
    <3>1. /\ Len(pipe) + i \in 1 .. Len(pipe) + h /\ ~(Len(pipe) + i <= Len(pipe))
          /\ (Len(pipe) + i) - Len(pipe) = i
      BY <1>2, <1>4
    <3> QED
      BY <1>6, <3>1
  <2> QED
    BY <1>5, <2>2, <2>3 DEF j
<1>12. Extends(L, L2, c, k, h)
  BY <1>9, <1>10, <1>11 DEF Extends
<1> QED
  BY <1>4, <1>9, <1>12 DEF L, L2, k, h

\* No step loses, doubles or swaps a line on its way to the file.
LEMMA NextStored ==
  ASSUME ServeInv, StoredInOrder, [ForkNext]_forkVars
  PROVE  StoredInOrder'
<1> USE DEF parentVars, storeVars, typistVars
<1> SUFFICES ASSUME storing', NEW d \in Typists
             PROVE  FirstLines(d, stored' \o pipe', taken'[d] - hand'[d])
  BY DEF StoredInOrder
<1>1. storing' = storing
  BY DEF ForkNext, Parent, Serve, Typist, Fork, ForkFails, read_childproc, Echo, Store,
         ChildEnds, ChildReset, StorerReads, ConnectTypist, TypeLine, TypeQuit, ShowLine,
         TypistEnds, KillTypist, forkVars
<1>2. FirstLines(d, stored \o pipe, taken[d] - hand[d])
  BY <1>1 DEF StoredInOrder
<1>3. CASE UNCHANGED <<taken, hand, stored, pipe>>
  BY <1>2, <1>3
<1>4. CASE StorerReads
  <2>1. taken' = taken /\ hand' = hand
    BY <1>4 DEF StorerReads
  <2> QED
    BY <1>2, <1>4, <2>1, StorerServes
<1>5. ASSUME NEW c \in Typists, Echo(c)
      PROVE  FirstLines(d, stored' \o pipe', taken'[d] - hand'[d])
  <2>1. PICK n \in 1 .. CHUNK : /\ taken' = [taken EXCEPT ![c] = @ + n]
                                /\ hand' = [hand EXCEPT ![c] = n]
                                /\ child[c] = "read"
                                /\ UNCHANGED <<stored, pipe>>
    <3>1. storing
      BY <1>1, Zenon
    <3>2. (IF storing THEN 1 ELSE 0) = 1 /\ \A n : (IF storing THEN n ELSE 0) = n
      BY <3>1
    <3> QED
      BY <1>5, <3>1, <3>2 DEF Echo
  <2>2. taken'[d] - hand'[d] = taken[d] - hand[d]
    <3>1. /\ taken \in [Typists -> 0 .. MaxLines] /\ hand \in [Typists -> 0 .. CHUNK]
          /\ taken[d] \in Nat /\ hand[d] \in Nat /\ (d = c => hand[d] = 0) /\ n \in Nat
      BY <2>1, ForkAssumption, SMTT(30) DEF ServeInv, ForkTypeOK, LinesInv
    <3>2. CASE d = c
      BY <2>1, <3>1, <3>2
    <3>3. CASE d # c
      BY <2>1, <3>1, <3>3
    <3> QED
      BY <3>2, <3>3
  <2> QED
    BY <1>2, <2>1, <2>2
<1>6. ASSUME NEW c \in Typists, Store(c)
      PROVE  FirstLines(d, stored' \o pipe', taken'[d] - hand'[d])
  <2>1. /\ Len(stored \o pipe) \in Nat
        /\ taken[c] - hand[c] \in Nat /\ hand[c] \in Nat
        /\ Extends(stored \o pipe, stored' \o pipe', c, taken[c] - hand[c], hand[c])
    BY <1>6, StoreExtends
  <2>2. taken' = taken /\ hand' = [hand EXCEPT ![c] = 0] /\ hand \in [Typists -> 0 .. CHUNK]
    BY <1>6 DEF Store, ServeInv, ForkTypeOK
  <2>3. CASE d = c
    <3>1. FirstLines(c, stored' \o pipe', (taken[c] - hand[c]) + hand[c])
      BY <1>2, <2>1, <2>3, LinesExtended
    <3>2. taken'[c] - hand'[c] = (taken[c] - hand[c]) + hand[c]
      <4>1. taken[c] \in Nat
        BY ForkAssumption DEF ServeInv, ForkTypeOK
      <4> QED
        BY <2>1, <2>2, <4>1
    <3> QED
      BY <2>3, <3>1, <3>2
  <2>4. CASE d # c
    <3>1. FirstLines(d, stored' \o pipe', taken[d] - hand[d])
      BY <1>2, <2>1, <2>4, OthersExtended
    <3> QED
      BY <2>2, <2>4, <3>1
  <2> QED
    BY <2>3, <2>4
<1>7. \/ UNCHANGED <<taken, hand, stored, pipe>>
      \/ StorerReads
      \/ \E c \in Typists : Echo(c) \/ Store(c)
  BY DEF ForkNext, Parent, Serve, Typist, Fork, ForkFails, read_childproc,
         ChildEnds, ChildReset, ConnectTypist, TypeLine, TypeQuit, ShowLine,
         TypistEnds, KillTypist, forkVars
<1> QED
  BY <1>3, <1>4, <1>5, <1>6, <1>7

-----------------------------------------------------------------------------
\* The invariant of the forking servers.
LEMMA ForkInvariance ==
  ForkSpec => []ForkInv
<1>1. (\E withStore \in BOOLEAN : ForkInit(withStore)) => ForkInv
  BY InitForkInv
<1>2. ForkInv /\ [ForkNext]_forkVars => ForkInv'
  BY NextServeInv, NextZombies, NextStored DEF ForkInv
<1> QED
  BY <1>1, <1>2, PTL DEF ForkSpec

\* chapter10, chapter11: the types of the forking servers, for any clients and
\* sizes of buffer and pipe; the pipe never holds more than it has room for.
THEOREM ForkTypes == ForkSpec => []ForkTypeOK
<1>1. ForkInv => ForkTypeOK
  BY DEF ForkInv, ServeInv
<1> QED
  BY <1>1, ForkInvariance, PTL

\* echo_mpserv.c, read_childproc: exactly the signals that found one pending
\* leave a zombie.
THEOREM ForkZombies == ForkSpec => []ZombiesAreMerged
<1>1. ForkInv => ZombiesAreMerged
  BY DEF ForkInv
<1> QED
  BY <1>1, ForkInvariance, PTL

\* echo_storeserv.c: the lines of a client are stored in their order, each once.
THEOREM ForkStored == ForkSpec => []StoredInOrder
<1>1. ForkInv => StoredInOrder
  BY DEF ForkInv
<1> QED
  BY <1>1, ForkInvariance, PTL

-----------------------------------------------------------------------------
(***************************************************************************)
(* The select loops.                                                       *)
(***************************************************************************)

\* The descriptors of the scan, the connections and those who wait for accept().
FdInv ==
  /\ \A f \in Fds : f \in reads <=> conn[f] # Nobody
  /\ \A f \in cpy_reads \ {serv_sock} : conn[f] = atSelect[f] /\ conn[f] # Nobody
  /\ serv_sock \in cpy_reads => pending # <<>>
  /\ selPc = "role" => relaying /\ clnt_sock \in Fds /\ conn[clnt_sock] # Nobody
  /\ selPc = "write" => buf # <<>>

\* Whoever is connected, or waits for it, is so once and has started.
CrowdInv ==
  /\ \A f, g \in Fds : conn[f] = conn[g] /\ conn[f] # Nobody => f = g
  /\ \A f \in Fds : conn[f] # Nobody => guest[conn[f]] # "start"
  /\ \A i \in DOMAIN pending :
       guest[pending[i]] # "start" /\ \A f \in Fds : conn[f] # pending[i]
  /\ \A i, j \in DOMAIN pending : pending[i] = pending[j] => i = j

\* Only who is dead is gone for the server; who writes has something to write.
GuestInv ==
  \A c \in Guests :
    /\ peer[c] # "open" => guest[c] = "dead"
    /\ guest[c] \in {"write", "writeRead"} =>
         IF role[c] = "Receiver" THEN got[c] # <<>> ELSE next[c] > 0

\* The server has not read a role from c.
Unread(c) == \A f \in Fds : conn[f] = c => selPc = "role" /\ clnt_sock = f

\* A role is the first unit of a stream, and the server reads it as a role.
UpInv ==
  \A c \in Guests :
    /\ guest[c] = "start" => up[c] = <<>>
    /\ guest[c] = "role" => relaying /\ up[c] = <<>> /\ Unread(c)
    /\ \A i \in DOMAIN up[c] : up[c][i].n = 0 => i = 1 /\ relaying /\ Unread(c)

\* sock is a client of role r, or such a client has died.
Leads(sock, r) ==
  sock \in Fds => \/ conn[sock] # Nobody /\ role[conn[sock]] = r
                  \/ \E c \in Guests : guest[c] = "dead" /\ role[c] = r

SockInv == Leads(sender_sock, "Sender") /\ Leads(receiver_sock, "Receiver")

SelectInv ==
  /\ RelayTypeOK /\ relaying \in BOOLEAN
  /\ FdInv
  /\ CrowdInv
  /\ GuestInv
  /\ UpInv
  /\ SockInv

\* Nobody is connected to begin with.
LEMMA InitSelectInv ==
  ASSUME NEW withRoles \in BOOLEAN, RelayInit(withRoles)
  PROVE  SelectInv
<1> USE RelayAssumption DEF RelayInit
<1>1. RelayTypeOK
  <2>1. /\ pending \in Seq(Guests) /\ up \in [Guests -> Seq([from : Guests, n : 0 .. UNITS])]
        /\ down \in [Guests -> Seq(Units)] /\ got \in [Guests -> Seq(Units)]
    BY EmptySeq
  <2>2. /\ guest \in [Guests -> {"start", "role", "select", "write", "writeRead", "read", "dead"}]
        /\ role \in [Guests -> Roles \cup {"Echo", "none"}]
        /\ next \in [Guests -> 0 .. UNITS]
        /\ peer \in [Guests -> PeerState]
        /\ conn \in [Fds -> Guests \cup {Nobody}]
    BY DEF PeerState, Roles
  <2> QED
    BY <2>1, <2>2 DEF RelayTypeOK
<1>2. relaying \in BOOLEAN
  BY Zenon
<1>3. FdInv
  <2>1. \A f \in Fds : f # serv_sock
    BY FS_CardinalityType DEF Fds, serv_sock
  <2> QED
    BY <2>1 DEF FdInv
<1>4. CrowdInv /\ GuestInv /\ UpInv
  BY DEF CrowdInv, GuestInv, UpInv
<1>5. SockInv
  BY FS_CardinalityType DEF SockInv, Leads, Fds, NoSocket
<1> QED
  BY <1>1, <1>2, <1>3, <1>4, <1>5 DEF SelectInv

\* Descriptors are numbers, and not that of the listening socket.
LEMMA FdNumbers ==
  /\ Fds \subseteq Nat /\ serv_sock \notin Fds /\ NoSocket \notin Fds
  /\ Nobody \notin Guests
BY FS_CardinalityType, RelayAssumption DEF Fds, serv_sock, NoSocket, Nobody

\* The descriptor that the scan is at is somebody's.
LEMMA Scanned ==
  ASSUME SelectInv, NEW f \in Fds, Sees(f)
  PROVE  conn[f] \in Guests /\ f \in cpy_reads /\ selPc = "scan"
<1>1. f \in cpy_reads \ {serv_sock} /\ selPc = "scan"
  BY FdNumbers DEF Sees
<1> QED
  BY <1>1 DEF SelectInv, FdInv, RelayTypeOK

\* Where the server is to read a role there is a client to read it from.
LEMMA RoleReader ==
  ASSUME SelectInv, selPc = "role"
  PROVE  clnt_sock \in Fds /\ conn[clnt_sock] \in Guests /\ relaying
BY DEF SelectInv, FdInv, RelayTypeOK

\* select() and what the scan does with the listening socket keep the types.
LEMMA ScanTypes ==
  ASSUME SelectInv, Select \/ ScanOver \/ AcceptGuest
  PROVE  RelayTypeOK'
<1> USE DEF loopVars, sockVars, guestVars
<1>1. RelayTypeOK /\ FdInv
  BY DEF SelectInv
<1>2. CASE Select
  <2>1. cpy_reads' \subseteq reads /\ selPc' = "scan"
    BY <1>2 DEF Select
  <2> QED
    BY <1>1, <1>2, <2>1 DEF Select, RelayTypeOK
<1>3. CASE ScanOver
  BY <1>1, <1>3 DEF ScanOver, RelayTypeOK
<1>4. CASE AcceptGuest
  <2>1. PICK f \in Fds : /\ clnt_sock' = f
                         /\ conn' = [conn EXCEPT ![f] = Head(pending)]
                         /\ reads' = reads \cup {f}
    BY <1>4 DEF AcceptGuest
  <2>2. /\ pending' = Tail(pending) /\ cpy_reads' = cpy_reads \ {serv_sock}
        /\ serv_sock \in cpy_reads
        /\ selPc' \in {"role", "scan"}
        /\ UNCHANGED <<relaying, atSelect, sockVars, buf, peer, up, down, guestVars>>
    BY <1>4 DEF AcceptGuest, Sees, Seen
  <2>3. pending # <<>> /\ pending \in Seq(Guests)
    BY <1>1, <2>2 DEF FdInv, RelayTypeOK
  <2>4. Head(pending) \in Guests /\ Tail(pending) \in Seq(Guests)
    BY <2>3, Taken
  <2>5. conn' \in [Fds -> Guests \cup {Nobody}]
    BY <1>1, <2>1, <2>4 DEF RelayTypeOK
  <2>6. reads' \subseteq {serv_sock} \cup Fds /\ cpy_reads' \subseteq reads'
    BY <1>1, <2>1, <2>2 DEF RelayTypeOK
  <2> QED
    BY <1>1, <2>1, <2>2, <2>4, <2>5, <2>6, ZenonT(40) DEF RelayTypeOK
<1> QED
  BY <1>2, <1>3, <1>4

\* So does reading a role,
LEMMA RoleTypes ==
  ASSUME SelectInv, ReadRole \/ ReadNoRole
  PROVE  RelayTypeOK'
<1> USE DEF loopVars, sockVars, guestVars
<1>1. RelayTypeOK /\ clnt_sock \in Fds /\ conn[clnt_sock] \in Guests
  BY RoleReader DEF SelectInv, ReadRole, ReadNoRole
<1>2. PICK c \in Guests : c = conn[clnt_sock]
  BY <1>1
<1>3. CASE ReadRole
  <2>6. PICK rest \in {2, 3} : up' = [up EXCEPT ![c] = SubSeq(@, rest, Len(@))]
    BY <1>2, <1>3 DEF ReadRole
  <2>1. /\ selPc' = "scan"
        /\ sender_sock' \in {clnt_sock, sender_sock}
        /\ receiver_sock' \in {clnt_sock, receiver_sock}
        /\ UNCHANGED <<loopVars, buf, peer, down, guestVars>>
    BY <1>2, <1>3 DEF ReadRole
  <2>2. SubSeq(up[c], rest, Len(up[c])) \in Seq([from : Guests, n : 0 .. UNITS])
    <3>1. /\ up[c] \in Seq([from : Guests, n : 0 .. UNITS]) /\ Len(up[c]) \in Nat
          /\ \A i \in 1 .. Len(up[c]) : up[c][i] \in [from : Guests, n : 0 .. UNITS]
      BY <1>1, LenProperties, ElementOfSeq DEF RelayTypeOK
    <3> QED
      BY <3>1, SubSeqProperties
  <2>3. up' \in [Guests -> Seq([from : Guests, n : 0 .. UNITS])]
    BY <1>1, <2>2, <2>6 DEF RelayTypeOK
  <2>4. {clnt_sock', sender_sock', receiver_sock'} \subseteq Fds \cup {NoSocket}
    BY <1>1, <2>1 DEF RelayTypeOK
  <2>5. reads' \subseteq {serv_sock} \cup Fds /\ cpy_reads' \subseteq reads'
    BY <1>1, <2>1 DEF RelayTypeOK
  <2> QED
    BY <1>1, <2>1, <2>3, <2>4, <2>5 DEF RelayTypeOK
<1>4. CASE ReadNoRole
  <2>1. peer' \in [Guests -> PeerState]
    BY <1>1, <1>4 DEF ReadNoRole, RelayTypeOK, PeerState
  <2> QED
    BY <1>1, <1>4, <2>1 DEF ReadNoRole, RelayTypeOK
<1> QED
  BY <1>3, <1>4

\* a read() of a client's descriptor,
LEMMA ReadTypes ==
  ASSUME SelectInv, NEW f \in Fds, ReadUnit(f) \/ ReadEnd(f) \/ ReadError(f)
  PROVE  RelayTypeOK'
<1> USE DEF loopVars, sockVars, guestVars
<1>1. /\ RelayTypeOK /\ UpInv /\ conn[f] \in Guests /\ f \in cpy_reads /\ selPc = "scan"
      /\ cpy_reads' = cpy_reads \ {f}
  BY Scanned DEF SelectInv, ReadUnit, ReadEnd, ReadError, Seen
<1>2. PICK c \in Guests : c = conn[f]
  BY <1>1
<1>3. CASE ReadUnit(f)
  <2>1. /\ up[c] # <<>> /\ buf' = <<Head(up[c]), Dest(f)>>
        /\ up' = [up EXCEPT ![c] = Tail(@)] /\ selPc' = "write"
        /\ UNCHANGED <<relaying, pending, reads, conn, atSelect, clnt_sock, sockVars, peer, down,
                       guestVars>>
    BY <1>2, <1>3 DEF ReadUnit
  <2>2. up[c] \in Seq([from : Guests, n : 0 .. UNITS])
    BY <1>1 DEF RelayTypeOK
  <2>3. /\ Head(up[c]) \in [from : Guests, n : 0 .. UNITS]
        /\ Tail(up[c]) \in Seq([from : Guests, n : 0 .. UNITS])
    BY <2>1, <2>2, Taken
  <2>4. Head(up[c]) \in Units
    <3>1. 1 \in DOMAIN up[c] /\ Head(up[c]) = up[c][1]
      BY <2>1, <2>2, EmptySeq, LenProperties, HeadTailProperties
    <3>2. ~ Unread(c)
      BY <1>1, <1>2 DEF Unread
    <3>3. up[c][1].n # 0
      BY <1>1, <3>1, <3>2 DEF UpInv
    <3> QED
      BY <2>3, <3>1, <3>3, RelayAssumption DEF Units
  <2>5. Dest(f) \in Fds \cup {NoSocket}
    BY <1>1 DEF Dest, RelayTypeOK
  <2>6. buf' \in Units \X (Fds \cup {NoSocket})
    BY <2>1, <2>4, <2>5
  <2>7. up' \in [Guests -> Seq([from : Guests, n : 0 .. UNITS])]
    BY <1>1, <2>1, <2>3 DEF RelayTypeOK
  <2> QED
    BY <1>1, <2>1, <2>6, <2>7 DEF RelayTypeOK
<1>4. CASE ReadEnd(f)
  <2>1. conn' \in [Fds -> Guests \cup {Nobody}]
    BY <1>1, <1>4 DEF ReadEnd, RelayTypeOK
  <2>2. reads' \subseteq {serv_sock} \cup Fds /\ cpy_reads' \subseteq reads'
    BY <1>1, <1>4 DEF ReadEnd, RelayTypeOK
  <2> QED
    BY <1>1, <1>4, <2>1, <2>2 DEF ReadEnd, RelayTypeOK
<1>5. CASE ReadError(f)
  <2>1. peer' \in [Guests -> PeerState]
    BY <1>1, <1>5 DEF ReadError, RelayTypeOK, PeerState
  <2> QED
    BY <1>1, <1>5, <2>1 DEF ReadError, RelayTypeOK
<1> QED
  BY <1>3, <1>4, <1>5

\* passing on what was read,
LEMMA WriteTypes ==
  ASSUME SelectInv, Ignore \/ WriteUnit \/ WriteLost \/ WriteKilled
  PROVE  RelayTypeOK'
<1> USE DEF loopVars, sockVars, guestVars
<1>1. RelayTypeOK /\ FdInv
  BY DEF SelectInv
<1>2. CASE Ignore
  BY <1>1, <1>2 DEF Ignore, Seen, RelayTypeOK
<1>3. CASE WriteUnit
  <2>1. Target \in Guests
    BY <1>1, <1>3 DEF WriteUnit, Target, RelayTypeOK
  <2>2. buf[1] \in Units
    BY <1>1, <1>3 DEF WriteUnit, FdInv, RelayTypeOK
  <2>3. down' = [down EXCEPT ![Target] = Append(@, buf[1])]
    BY <1>3 DEF WriteUnit
  <2>4. Append(down[Target], buf[1]) \in Seq(Units)
    BY <1>1, <2>1, <2>2, AppendProperties DEF RelayTypeOK
  <2>5. down' \in [Guests -> Seq(Units)]
    BY <1>1, <2>3, <2>4 DEF RelayTypeOK
  <2> QED
    BY <1>1, <1>3, <2>5 DEF WriteUnit, RelayTypeOK
<1>4. CASE WriteLost
  <2>1. peer' \in [Guests -> PeerState]
    <3>1. CASE UNCHANGED peer
      BY <1>1, <3>1 DEF RelayTypeOK
    <3>2. CASE \E p \in AfterWrite(peer[Target]) : peer' = [peer EXCEPT ![Target] = p]
      <4>1. PICK p \in AfterWrite(peer[Target]) : peer' = [peer EXCEPT ![Target] = p]
        BY <3>2
      <4>2. peer \in [Guests -> PeerState]
        BY <1>1 DEF RelayTypeOK
      <4>3. Target \in Guests => p \in PeerState
        <5> SUFFICES ASSUME Target \in Guests PROVE p \in PeerState
          OBVIOUS
        <5>1. PICK q \in PeerState : q = peer[Target]
          BY <4>2
        <5> QED
          BY <4>1, <5>1 DEF AfterWrite, PeerState
      <4> QED
        BY <4>1, <4>2, <4>3
    <3> QED
      BY <1>4, <3>1, <3>2 DEF WriteLost
  <2> QED
    BY <1>1, <1>4, <2>1 DEF WriteLost, RelayTypeOK
<1>5. CASE WriteKilled
  BY <1>1, <1>5 DEF WriteKilled, RelayTypeOK
<1> QED
  BY <1>2, <1>3, <1>4, <1>5

\* and every step of a client.
LEMMA GuestTypes ==
  ASSUME SelectInv, NEW c \in Guests, ConnectGuest(c) \/ GuestStep(c) \/ Leave(c)
  PROVE  RelayTypeOK'
<1> USE DEF loopVars, sockVars, guestVars
<1>1. RelayTypeOK /\ GuestInv
  BY DEF SelectInv
<1>2. CASE ConnectGuest(c)
  <2>1. PICK r \in Roles \cup {"Echo"} : role' = [role EXCEPT ![c] = r]
    BY <1>2 DEF ConnectGuest
  <2>2. role' \in [Guests -> Roles \cup {"Echo", "none"}]
    BY <1>1, <2>1 DEF RelayTypeOK
  <2>3. pending' \in Seq(Guests)
    BY <1>1, <1>2, AppendProperties DEF ConnectGuest, RelayTypeOK
  <2>4. guest' \in [Guests -> {"start", "role", "select", "write", "writeRead", "read", "dead"}]
    BY <1>1, <1>2 DEF ConnectGuest, RelayTypeOK
  <2> QED
    BY <1>1, <1>2, <2>2, <2>3, <2>4 DEF ConnectGuest, RelayTypeOK
<1>3. ASSUME NEW u \in [from : Guests, n : 0 .. UNITS], Send(c, u)
      PROVE  up' \in [Guests -> Seq([from : Guests, n : 0 .. UNITS])]
  <2>1. Append(up[c], u) \in Seq([from : Guests, n : 0 .. UNITS])
    BY <1>1, AppendProperties DEF RelayTypeOK
  <2> QED
    BY <1>1, <1>3, <2>1 DEF Send, RelayTypeOK
<1>4. CASE SayRole(c)
  <2>1. Unit(c, 0) \in [from : Guests, n : 0 .. UNITS]
    BY RelayAssumption DEF Unit
  <2>2. up' \in [Guests -> Seq([from : Guests, n : 0 .. UNITS])]
    BY <1>3, <1>4, <2>1 DEF SayRole
  <2>3. guest' \in [Guests -> {"start", "role", "select", "write", "writeRead", "read", "dead"}]
    BY <1>1, <1>4 DEF SayRole, RelayTypeOK
  <2> QED
    BY <1>1, <1>4, <2>2, <2>3 DEF SayRole, RelayTypeOK
<1>5. CASE TakeBlock(c)
  <2>1. next' \in [Guests -> 0 .. UNITS]
    BY <1>1, <1>5, RelayAssumption DEF TakeBlock, RelayTypeOK
  <2>2. guest' \in [Guests -> {"start", "role", "select", "write", "writeRead", "read", "dead"}]
    BY <1>1, <1>5 DEF TakeBlock, RelayTypeOK
  <2> QED
    BY <1>1, <1>5, <2>1, <2>2 DEF TakeBlock, RelayTypeOK
<1>6. CASE WriteBlock(c)
  <2>1. (IF role[c] = "Receiver" THEN got[c][Len(got[c])] ELSE Unit(c, next[c]))
          \in [from : Guests, n : 0 .. UNITS]
    <3>1. CASE role[c] = "Receiver"
      <4>1. got[c] # <<>> /\ got[c] \in Seq(Units)
        BY <1>1, <1>6, <3>1 DEF WriteBlock, GuestInv, RelayTypeOK
      <4>2. got[c][Len(got[c])] \in Units
        BY <4>1, EmptySeq, LenProperties, ElementOfSeq
      <4> QED
        BY <3>1, <4>2, RelayAssumption DEF Units
    <3>2. CASE role[c] # "Receiver"
      BY <1>1, <3>2, RelayAssumption DEF Unit, RelayTypeOK
    <3> QED
      BY <3>1, <3>2
  <2>2. up' \in [Guests -> Seq([from : Guests, n : 0 .. UNITS])]
    BY <1>3, <1>6, <2>1 DEF WriteBlock
  <2>3. guest' \in [Guests -> {"start", "role", "select", "write", "writeRead", "read", "dead"}]
    BY <1>1, <1>6 DEF WriteBlock, RelayTypeOK
  <2> QED
    BY <1>1, <1>6, <2>2, <2>3 DEF WriteBlock, RelayTypeOK
<1>7. CASE TakeUnit(c)
  <2>1. down[c] # <<>> /\ down[c] \in Seq(Units) /\ got[c] \in Seq(Units)
    BY <1>1, <1>7 DEF TakeUnit, RelayTypeOK
  <2>2. Head(down[c]) \in Units /\ Tail(down[c]) \in Seq(Units)
    BY <2>1, Taken
  <2>3. Append(got[c], Head(down[c])) \in Seq(Units)
    BY <2>1, <2>2, AppendProperties
  <2>4. down' \in [Guests -> Seq(Units)] /\ got' \in [Guests -> Seq(Units)]
    BY <1>1, <1>7, <2>2, <2>3 DEF TakeUnit, RelayTypeOK
  <2>5. guest' \in [Guests -> {"start", "role", "select", "write", "writeRead", "read", "dead"}]
    BY <1>1, <1>7 DEF TakeUnit, RelayTypeOK
  <2> QED
    BY <1>1, <1>7, <2>4, <2>5 DEF TakeUnit, RelayTypeOK
<1>8. CASE Leave(c)
  <2>1. peer' \in [Guests -> PeerState]
    BY <1>1, <1>8 DEF Leave, AfterClose, PeerState, RelayTypeOK
  <2>2. guest' \in [Guests -> {"start", "role", "select", "write", "writeRead", "read", "dead"}]
    BY <1>1, <1>8 DEF Leave, RelayTypeOK
  <2> QED
    BY <1>1, <1>8, <2>1, <2>2 DEF Leave, RelayTypeOK
<1> QED
  BY <1>2, <1>4, <1>5, <1>6, <1>7, <1>8 DEF GuestStep

\* Every step keeps the types, and none changes which server it is.
LEMMA NextRelayTypes ==
  ASSUME SelectInv, RelayNext
  PROVE  RelayTypeOK' /\ relaying' = relaying
<1>1. relaying' = relaying
  BY DEF RelayNext, RelayStep, GuestStep, Select, ScanOver, AcceptGuest, ReadRole, ReadNoRole,
         Ignore, ReadUnit, ReadEnd, ReadError, WriteUnit, WriteLost, WriteKilled, ConnectGuest,
         SayRole, TakeBlock, WriteBlock, TakeUnit, Leave, loopVars
<1>2. CASE Select \/ ScanOver \/ AcceptGuest
  BY <1>1, <1>2, ScanTypes
<1>3. CASE ReadRole \/ ReadNoRole
  BY <1>1, <1>3, RoleTypes
<1>4. CASE \E f \in Fds : ReadUnit(f) \/ ReadEnd(f) \/ ReadError(f)
  <2>1. PICK f \in Fds : ReadUnit(f) \/ ReadEnd(f) \/ ReadError(f)
    BY <1>4
  <2> QED
    BY <1>1, <2>1, ReadTypes
<1>5. CASE Ignore \/ WriteUnit \/ WriteLost \/ WriteKilled
  BY <1>1, <1>5, WriteTypes
<1>6. CASE \E c \in Guests : ConnectGuest(c) \/ GuestStep(c) \/ Leave(c)
  <2>1. PICK c \in Guests : ConnectGuest(c) \/ GuestStep(c) \/ Leave(c)
    BY <1>6
  <2> QED
    BY <1>1, <2>1, GuestTypes
<1> QED
  BY <1>1, <1>2, <1>3, <1>4, <1>5, <1>6 DEF RelayNext, RelayStep

\* What the loop reads of the descriptors stays what it found.
LEMMA NextFdInv ==
  ASSUME SelectInv, RelayNext
  PROVE  FdInv'
<1> USE DEF loopVars, sockVars, guestVars
<1>1. RelayTypeOK /\ FdInv /\ serv_sock \notin Fds
  BY FdNumbers DEF SelectInv
<1>2. CASE Select
  <2>1. cpy_reads' \subseteq reads /\ (serv_sock \in cpy_reads' => pending # <<>>)
    BY <1>2 DEF Select, Readable
  <2>2. \A f \in cpy_reads' \ {serv_sock} : f \in Fds /\ f \in reads
    BY <1>1, <2>1 DEF RelayTypeOK
  <2>3. /\ selPc' = "scan" /\ atSelect' = conn
        /\ UNCHANGED <<reads, conn, pending, relaying, clnt_sock>>
    BY <1>2 DEF Select
  <2> QED
    BY <1>1, <2>1, <2>2, <2>3 DEF FdInv
<1>3. CASE AcceptGuest
  <2>1. PICK f \in Fds : /\ SmallestFree(f)
                         /\ clnt_sock' = f
                         /\ conn' = [conn EXCEPT ![f] = Head(pending)]
                         /\ reads' = reads \cup {f}
    BY <1>3 DEF AcceptGuest
  <2>2. /\ cpy_reads' = cpy_reads \ {serv_sock} /\ serv_sock \in cpy_reads
        /\ selPc' = IF relaying THEN "role" ELSE "scan"
        /\ UNCHANGED <<relaying, atSelect, buf>>
    BY <1>3 DEF AcceptGuest, Sees, Seen
  <2>3. Head(pending) \in Guests /\ Head(pending) # Nobody
    BY <1>1, <2>2, Taken, FdNumbers DEF FdInv, RelayTypeOK
  <2>4. conn[f] = Nobody /\ f \notin cpy_reads
    BY <1>1, <2>1 DEF SmallestFree, FdInv
  <2>5. \A g \in Fds : conn'[g] = IF g = f THEN Head(pending) ELSE conn[g]
    BY <1>1, <2>1 DEF RelayTypeOK
  <2>6. \A g \in Fds : g \in reads' <=> conn'[g] # Nobody
    BY <1>1, <2>1, <2>3, <2>5 DEF FdInv
  <2>7. \A g \in cpy_reads' \ {serv_sock} : conn'[g] = atSelect'[g] /\ conn'[g] # Nobody
    <3> SUFFICES ASSUME NEW g \in cpy_reads, g # serv_sock
                 PROVE  conn'[g] = atSelect[g] /\ conn'[g] # Nobody
      BY <2>2
    <3>1. g \in Fds /\ g # f
      BY <1>1, <2>4 DEF RelayTypeOK
    <3> QED
      BY <1>1, <2>5, <3>1 DEF FdInv
  <2>8. clnt_sock' \in Fds /\ conn'[clnt_sock'] # Nobody
    BY <2>1, <2>3, <2>5
  <2> QED
    BY <2>2, <2>6, <2>7, <2>8 DEF FdInv
<1>4. CASE \E f \in Fds : ReadEnd(f)
  <2>1. PICK f \in Fds : ReadEnd(f)
    BY <1>4
  <2>2. /\ cpy_reads' = cpy_reads \ {f} /\ reads' = reads \ {f}
        /\ conn' = [conn EXCEPT ![f] = Nobody]
        /\ selPc = "scan" /\ UNCHANGED <<selPc, relaying, pending, atSelect, clnt_sock, buf>>
    BY <2>1 DEF ReadEnd, Sees, Seen
  <2>3. \A g \in Fds : conn'[g] = IF g = f THEN Nobody ELSE conn[g]
    BY <1>1, <2>2 DEF RelayTypeOK
  <2>4. \A g \in cpy_reads' \ {serv_sock} : g \in Fds /\ g # f
    BY <1>1, <2>2 DEF RelayTypeOK
  <2>5. \A g \in cpy_reads' \ {serv_sock} : conn'[g] = atSelect'[g] /\ conn'[g] # Nobody
    BY <1>1, <2>2, <2>3, <2>4 DEF FdInv
  <2>6. \A g \in Fds : g \in reads' <=> conn'[g] # Nobody
    BY <1>1, <2>2, <2>3 DEF FdInv
  <2>7. serv_sock \in cpy_reads' => pending' # <<>>
    BY <1>1, <2>2 DEF FdInv
  <2> QED
    BY <2>2, <2>5, <2>6, <2>7 DEF FdInv
<1>5. CASE \E f \in Fds : ReadUnit(f)
  <2>1. PICK f \in Fds : ReadUnit(f)
    BY <1>5
  <2>2. /\ cpy_reads' \subseteq cpy_reads /\ selPc' = "write" /\ buf' # <<>>
        /\ UNCHANGED <<relaying, pending, reads, conn, atSelect, clnt_sock>>
    BY <2>1 DEF ReadUnit, Seen
  <2> QED
    BY <1>1, <2>2 DEF FdInv
<1>6. CASE \E c \in Guests : ConnectGuest(c)
  <2>1. PICK c \in Guests : ConnectGuest(c)
    BY <1>6
  <2>2. pending' = Append(pending, c) /\ pending \in Seq(Guests)
    BY <1>1, <2>1 DEF ConnectGuest, RelayTypeOK
  <2>3. pending' # <<>>
    BY <2>2, AppendProperties, EmptySeq
  <2> QED
    BY <1>1, <2>1, <2>3 DEF ConnectGuest, FdInv
<1>7. CASE Ignore \/ \E f \in Fds : ReadError(f)
  <2>1. /\ cpy_reads' \subseteq cpy_reads
        /\ UNCHANGED <<selPc, relaying, pending, reads, conn, atSelect, clnt_sock, buf>>
    BY <1>7 DEF Ignore, ReadError, Seen
  <2> QED
    BY <1>1, <2>1 DEF FdInv
<1>8. CASE ScanOver \/ ReadRole \/ ReadNoRole \/ WriteUnit \/ WriteLost \/ WriteKilled
  <2>1. selPc' \in {"select", "scan", "dead"} /\ UNCHANGED loopVars
    BY <1>8 DEF ScanOver, ReadRole, ReadNoRole, WriteUnit, WriteLost, WriteKilled
  <2> QED
    BY <1>1, <2>1 DEF FdInv
<1>9. CASE \E c \in Guests : GuestStep(c) \/ Leave(c)
  <2>1. UNCHANGED <<selPc, loopVars, buf>>
    BY <1>9 DEF GuestStep, SayRole, TakeBlock, WriteBlock, TakeUnit, Leave
  <2> QED
    BY <1>1, <2>1 DEF FdInv
<1> QED
  BY <1>2, <1>3, <1>4, <1>5, <1>6, <1>7, <1>8, <1>9 DEF RelayNext, RelayStep

\* Nobody is connected twice, or before he has started.
LEMMA NextCrowdInv ==
  ASSUME SelectInv, RelayNext
  PROVE  CrowdInv'
<1> USE DEF loopVars, sockVars, guestVars
<1>1. RelayTypeOK /\ FdInv /\ CrowdInv
  BY DEF SelectInv
<1>2. CASE AcceptGuest
  <2>1. PICK f \in Fds : SmallestFree(f) /\ conn' = [conn EXCEPT ![f] = Head(pending)]
    BY <1>2 DEF AcceptGuest
  <2>2. /\ pending' = Tail(pending) /\ guest' = guest
        /\ pending # <<>> /\ pending \in Seq(Guests)
    BY <1>1, <1>2 DEF AcceptGuest, Sees, FdInv, RelayTypeOK
  <2>3. /\ Len(pending) \in Nat /\ Len(pending) > 0
        /\ DOMAIN pending = 1 .. Len(pending)
        /\ DOMAIN Tail(pending) = 1 .. Len(pending) - 1
        /\ Head(pending) = pending[1]
        /\ \A i \in DOMAIN Tail(pending) : Tail(pending)[i] = pending[i + 1]
    BY <2>2, EmptySeq, LenProperties, HeadTailProperties
  <2>4. \A g \in Fds : conn'[g] = IF g = f THEN pending[1] ELSE conn[g]
    BY <1>1, <2>1, <2>3 DEF RelayTypeOK
  <2>5. /\ guest[pending[1]] # "start" /\ \A g \in Fds : conn[g] # pending[1]
        /\ \A i \in DOMAIN Tail(pending) : pending[i + 1] # pending[1]
    BY <1>1, <2>3 DEF CrowdInv
  <2>6. /\ \A g, h \in Fds : conn'[g] = conn'[h] /\ conn'[g] # Nobody => g = h
        /\ \A g \in Fds : conn'[g] # Nobody => guest'[conn'[g]] # "start"
    BY <1>1, <2>2, <2>4, <2>5 DEF CrowdInv
  <2>7. \A i \in DOMAIN pending' :
          guest'[pending'[i]] # "start" /\ \A g \in Fds : conn'[g] # pending'[i]
    BY <1>1, <2>2, <2>3, <2>4, <2>5 DEF CrowdInv
  <2>8. \A i, j \in DOMAIN pending' : pending'[i] = pending'[j] => i = j
    BY <1>1, <2>2, <2>3 DEF CrowdInv
  <2> QED
    BY <2>6, <2>7, <2>8 DEF CrowdInv
<1>3. CASE \E f \in Fds : ReadEnd(f)
  <2>1. PICK f \in Fds : ReadEnd(f)
    BY <1>3
  <2>2. conn' = [conn EXCEPT ![f] = Nobody] /\ UNCHANGED <<pending, guest>>
    BY <2>1 DEF ReadEnd
  <2>3. \A g \in Fds : conn'[g] = IF g = f THEN Nobody ELSE conn[g]
    BY <1>1, <2>2 DEF RelayTypeOK
  <2>4. \A i \in DOMAIN pending : pending[i] # Nobody
    BY <1>1, FdNumbers, LenProperties, ElementOfSeq DEF RelayTypeOK
  <2> QED
    BY <1>1, <2>2, <2>3, <2>4 DEF CrowdInv
<1>4. CASE \E c \in Guests : ConnectGuest(c)
  <2>1. PICK c \in Guests : ConnectGuest(c)
    BY <1>4
  <2>2. /\ guest[c] = "start" /\ pending' = Append(pending, c) /\ conn' = conn
        /\ pending \in Seq(Guests)
        /\ guest'[c] # "start" /\ \A d \in Guests : d # c => guest'[d] = guest[d]
    <3>1. guest' = [guest EXCEPT ![c] = IF relaying THEN "role" ELSE "select"]
      BY <2>1 DEF ConnectGuest
    <3>2. /\ DOMAIN guest = Guests
          /\ \A d \in Guests : guest[d] \in {"start", "role", "select", "write", "writeRead",
                                             "read", "dead"}
      BY <1>1 DEF RelayTypeOK
    <3>3. guest'[c] # "start" /\ \A d \in Guests : d # c => guest'[d] = guest[d]
      BY <3>1, <3>2
    <3> QED
      BY <1>1, <2>1, <3>3 DEF ConnectGuest, RelayTypeOK
  <2>3. /\ Len(pending) \in Nat /\ DOMAIN pending = 1 .. Len(pending)
        /\ DOMAIN pending' = 1 .. Len(pending) + 1
        /\ pending'[Len(pending) + 1] = c
        /\ \A i \in DOMAIN pending : pending'[i] = pending[i] /\ pending[i] \in Guests
    BY <2>2, LenProperties, AppendProperties, ElementOfSeq
  <2>4. \A i \in DOMAIN pending' : i \in DOMAIN pending \/ i = Len(pending) + 1
    BY <2>3
  <2>5. /\ \A f \in Fds : conn[f] # c
        /\ \A i \in DOMAIN pending : pending[i] # c
    BY <1>1, <2>2, FdNumbers DEF CrowdInv
  <2>6. \A f \in Fds : conn'[f] # Nobody => guest'[conn'[f]] # "start"
    BY <1>1, <2>2, <2>5 DEF CrowdInv, RelayTypeOK
  <2>7. \A i \in DOMAIN pending' :
          guest'[pending'[i]] # "start" /\ \A f \in Fds : conn'[f] # pending'[i]
    BY <1>1, <2>2, <2>3, <2>4, <2>5 DEF CrowdInv
  <2>8. \A i, j \in DOMAIN pending' : pending'[i] = pending'[j] => i = j
    BY <1>1, <2>3, <2>4, <2>5 DEF CrowdInv
  <2> QED
    BY <1>1, <2>2, <2>6, <2>7, <2>8 DEF CrowdInv
<1>5. CASE \E c \in Guests : GuestStep(c) \/ Leave(c)
  <2>1. PICK c \in Guests : GuestStep(c) \/ Leave(c)
    BY <1>5
  <2>2. /\ UNCHANGED <<conn, pending>>
        /\ guest[c] # "start" /\ guest'[c] # "start"
        /\ \A d \in Guests : d # c => guest'[d] = guest[d]
    BY <1>1, <2>1 DEF GuestStep, SayRole, TakeBlock, WriteBlock, TakeUnit, Leave, RelayTypeOK
  <2>3. \A d \in Guests : guest[d] # "start" => guest'[d] # "start"
    BY <2>2
  <2>4. \A i \in DOMAIN pending : pending[i] \in Guests
    BY <1>1, LenProperties, ElementOfSeq DEF RelayTypeOK
  <2> QED
    BY <1>1, <2>2, <2>3, <2>4 DEF CrowdInv, RelayTypeOK
<1>6. CASE \/ Select \/ ScanOver \/ ReadRole \/ ReadNoRole \/ Ignore
           \/ \E f \in Fds : ReadUnit(f) \/ ReadError(f)
           \/ WriteUnit \/ WriteLost \/ WriteKilled
  <2>1. UNCHANGED <<conn, pending, guest>>
    BY <1>6 DEF Select, ScanOver, ReadRole, ReadNoRole, Ignore, ReadUnit, ReadError,
                WriteUnit, WriteLost, WriteKilled
  <2> QED
    BY <1>1, <2>1 DEF CrowdInv
<1> QED
  BY <1>2, <1>3, <1>4, <1>5, <1>6 DEF RelayNext, RelayStep

\* The server's kernel knows of nobody gone who is not.
LEMMA NextGuestInv ==
  ASSUME SelectInv, RelayNext
  PROVE  GuestInv'
<1> USE DEF loopVars, sockVars, guestVars
<1>1. RelayTypeOK /\ FdInv /\ CrowdInv /\ GuestInv
  BY DEF SelectInv
<1>2. CASE ReadRole \/ ReadNoRole
  <2>1. conn[clnt_sock] \in Guests
    BY <1>2, RoleReader DEF ReadRole, ReadNoRole
  <2>2. \A c \in Guests : peer'[c] # "open" => peer[c] # "open"
    BY <1>1, <1>2, <2>1 DEF ReadRole, ReadNoRole, RelayTypeOK
  <2> QED
    BY <1>1, <1>2, <2>2 DEF ReadRole, ReadNoRole, GuestInv
<1>3. CASE \E f \in Fds : ReadError(f)
  <2>1. PICK f \in Fds : ReadError(f)
    BY <1>3
  <2>2. \A c \in Guests : peer'[c] # "open" => peer[c] # "open"
    BY <1>1, <2>1 DEF ReadError, RelayTypeOK
  <2> QED
    BY <1>1, <2>1, <2>2 DEF ReadError, GuestInv
<1>4. CASE WriteLost
  <2>1. \A c \in Guests : peer'[c] # "open" => peer[c] # "open"
    BY <1>1, <1>4 DEF WriteLost, RelayTypeOK
  <2> QED
    BY <1>1, <1>4, <2>1 DEF WriteLost, GuestInv
<1>5. CASE \E c \in Guests : ConnectGuest(c) \/ SayRole(c) \/ WriteBlock(c) \/ Leave(c)
  <2>1. PICK c \in Guests : ConnectGuest(c) \/ SayRole(c) \/ WriteBlock(c) \/ Leave(c)
    BY <1>5
  <2>2. /\ UNCHANGED <<next, got>>
        /\ guest'[c] \in {"role", "select", "read", "dead"}
        /\ \A d \in Guests : d # c =>
             guest'[d] = guest[d] /\ peer'[d] = peer[d] /\ role'[d] = role[d]
        /\ peer'[c] # "open" => peer[c] # "open" \/ guest'[c] = "dead"
        /\ guest[c] # "dead"
    BY <1>1, <2>1 DEF ConnectGuest, SayRole, WriteBlock, Leave, RelayTypeOK
  <2> QED
    BY <1>1, <2>2 DEF GuestInv
<1>6. CASE \E c \in Guests : TakeBlock(c)
  <2>1. PICK c \in Guests : TakeBlock(c)
    BY <1>6
  <2>2. /\ role[c] # "Receiver" /\ next[c] \in Nat
        /\ guest[c] = "select" /\ guest' \in [Guests -> {"start", "role", "select", "write",
                                                         "writeRead", "read", "dead"}]
        /\ UNCHANGED <<peer, role, got>>
    BY <1>1, <2>1, RelayAssumption DEF TakeBlock, RelayTypeOK
  <2>3. /\ next'[c] = next[c] + 1
        /\ \A d \in Guests : d # c => guest'[d] = guest[d] /\ next'[d] = next[d]
    BY <1>1, <2>1 DEF TakeBlock, RelayTypeOK
  <2>4. peer[c] = "open"
    BY <1>1, <2>2 DEF GuestInv
  <2>5. next'[c] > 0
    BY <2>2, <2>3
  <2> QED
    BY <1>1, <2>2, <2>3, <2>4, <2>5 DEF GuestInv
<1>7. CASE \E c \in Guests : TakeUnit(c)
  <2>1. PICK c \in Guests : TakeUnit(c)
    BY <1>7
  <2>2. /\ down[c] # <<>> /\ down[c] \in Seq(Units) /\ got[c] \in Seq(Units)
        /\ guest[c] # "dead" /\ UNCHANGED <<peer, role, next>>
    BY <1>1, <2>1 DEF TakeUnit, RelayTypeOK
  <2>3. /\ guest'[c] = (IF role[c] = "Receiver" THEN "write" ELSE "select")
        /\ got'[c] = Append(got[c], Head(down[c]))
        /\ \A d \in Guests : d # c => guest'[d] = guest[d] /\ got'[d] = got[d]
    BY <1>1, <2>1 DEF TakeUnit, RelayTypeOK
  <2>4. got'[c] # <<>>
    BY <2>2, <2>3, Taken, AppendProperties, EmptySeq
  <2>5. peer[c] = "open"
    BY <1>1, <2>2 DEF GuestInv
  <2> QED
    BY <1>1, <2>2, <2>3, <2>4, <2>5 DEF GuestInv
<1>8. CASE \/ Select \/ ScanOver \/ AcceptGuest \/ Ignore
           \/ \E f \in Fds : ReadUnit(f) \/ ReadEnd(f)
           \/ WriteUnit \/ WriteKilled
  <2>1. UNCHANGED <<peer, guestVars>>
    BY <1>8 DEF Select, ScanOver, AcceptGuest, Ignore, ReadUnit, ReadEnd, WriteUnit, WriteKilled
  <2> QED
    BY <1>1, <2>1 DEF GuestInv
<1> QED
  BY <1>2, <1>3, <1>4, <1>5, <1>6, <1>7, <1>8 DEF RelayNext, RelayStep, GuestStep

\* What a client has sent is a sequence.
LEMMA UnitsUp ==
  ASSUME RelayTypeOK, NEW c \in Guests
  PROVE  /\ up[c] \in Seq([from : Guests, n : 0 .. UNITS])
         /\ Len(up[c]) \in Nat
         /\ DOMAIN up[c] = 1 .. Len(up[c])
BY LenProperties DEF RelayTypeOK

\* Nobody's role is read for a block, or a block for a role, by the server.
LEMMA ServerUpInv ==
  ASSUME SelectInv, RelayStep
  PROVE  UpInv'
<1> USE DEF loopVars, sockVars, guestVars
<1>1. RelayTypeOK /\ FdInv /\ CrowdInv /\ GuestInv /\ UpInv
  BY DEF SelectInv
<1>2. CASE AcceptGuest
  <2>1. PICK f \in Fds : clnt_sock' = f /\ conn' = [conn EXCEPT ![f] = Head(pending)]
    BY <1>2 DEF AcceptGuest
  <2>2. /\ selPc = "scan" /\ selPc' = (IF relaying THEN "role" ELSE "scan")
        /\ pending # <<>> /\ pending \in Seq(Guests)
        /\ UNCHANGED <<relaying, up, guest>>
    BY <1>1, <1>2 DEF AcceptGuest, Sees, FdInv, RelayTypeOK
  <2>3. 1 \in DOMAIN pending /\ Head(pending) = pending[1]
    BY <2>2, EmptySeq, LenProperties, HeadTailProperties
  <2>4. \A g \in Fds : /\ conn'[g] = (IF g = f THEN Head(pending) ELSE conn[g])
                       /\ conn[g] # Head(pending)
    BY <1>1, <2>1, <2>3 DEF CrowdInv, RelayTypeOK
  <2>5. \A c \in Guests : relaying /\ Unread(c) => Unread(c)'
    BY <2>1, <2>2, <2>4 DEF Unread
  <2> QED
    BY <1>1, <2>2, <2>5 DEF UpInv
<1>3. CASE ReadRole
  <2>1. PICK c \in Guests : c = conn[clnt_sock]
    BY <1>3, RoleReader DEF ReadRole
  <2>6. PICK rest \in {2, 3} : up' = [up EXCEPT ![c] = SubSeq(@, rest, Len(@))]
    BY <1>3, <2>1 DEF ReadRole
  <2>2. /\ up[c] # <<>> /\ selPc = "role" /\ selPc' = "scan"
        /\ UNCHANGED <<relaying, conn, clnt_sock, guest>>
    BY <1>3, <2>1 DEF ReadRole
  <2>3. \A d \in Guests : d # c => up'[d] = up[d] /\ (Unread(d) => Unread(d)')
    BY <1>1, <2>1, <2>2, <2>6 DEF Unread, RelayTypeOK
  <2>4. \A i \in DOMAIN up'[c] : up'[c][i].n # 0
    <3>1. /\ Len(up[c]) \in Nat /\ up[c] \in Seq([from : Guests, n : 0 .. UNITS])
          /\ \A i \in 1 .. Len(up[c]) : up[c][i] \in [from : Guests, n : 0 .. UNITS]
      BY <1>1, UnitsUp, ElementOfSeq
    <3>2. up'[c] = SubSeq(up[c], rest, Len(up[c]))
      BY <1>1, <2>6 DEF RelayTypeOK
    <3>3. /\ \A i \in rest .. Len(up[c]) : up[c][i].n # 0
          /\ rest \in {2, 3} /\ Len(up[c]) \in Nat
      BY <1>1, <3>1, UnitsUp DEF UpInv
    <3>6. /\ Len(up'[c]) = (IF rest <= Len(up[c]) THEN Len(up[c]) - rest + 1 ELSE 0)
          /\ \A i \in 1 .. Len(up[c]) - rest + 1 : up'[c][i] = up[c][rest + i - 1]
      <4>1. \A i \in rest .. Len(up[c]) : up[c][i] \in [from : Guests, n : 0 .. UNITS]
        BY <3>1, <3>3
      <4> QED
        BY <3>2, <3>3, <4>1, SubSeqProperties
    <3>4. \A i \in 1 .. Len(up'[c]) :
            rest + i - 1 \in rest .. Len(up[c]) /\ up'[c][i] = up[c][rest + i - 1]
      BY <3>3, <3>6
    <3>5. DOMAIN up'[c] = 1 .. Len(up'[c])
      BY <3>1, <3>2, SubSeqProperties
    <3> QED
      BY <3>3, <3>4, <3>5
  <2>5. guest[c] \notin {"start", "role"}
    BY <1>1, <2>2 DEF UpInv
  <2> QED
    BY <1>1, <2>2, <2>3, <2>4, <2>5 DEF UpInv
<1>4. CASE ReadNoRole
  <2>1. PICK c \in Guests : c = conn[clnt_sock]
    BY <1>4, RoleReader DEF ReadNoRole
  <2>2. /\ up[c] = <<>> /\ guest[c] = "dead" /\ selPc = "role"
        /\ UNCHANGED <<relaying, conn, clnt_sock, up, guest>>
    BY <1>1, <1>4, <2>1 DEF ReadNoRole, GuestInv
  <2>3. \A d \in Guests : d # c => (Unread(d) => Unread(d)')
    BY <2>1, <2>2 DEF Unread
  <2>4. DOMAIN up[c] = {}
    BY <2>2
  <2> QED
    BY <1>1, <2>2, <2>3, <2>4 DEF UpInv
<1>5. CASE \E f \in Fds : ReadUnit(f)
  <2>1. PICK f \in Fds : ReadUnit(f)
    BY <1>5
  <2>2. PICK c \in Guests : c = conn[f]
    BY <2>1, Scanned DEF ReadUnit
  <2>3. /\ up[c] # <<>> /\ up' = [up EXCEPT ![c] = Tail(@)] /\ selPc = "scan"
        /\ UNCHANGED <<relaying, conn, clnt_sock, guest>>
    BY <2>1, <2>2 DEF ReadUnit, Sees
  <2>4. /\ DOMAIN up[c] = 1 .. Len(up[c]) /\ Len(up[c]) \in Nat
        /\ DOMAIN Tail(up[c]) = 1 .. Len(up[c]) - 1
        /\ \A i \in DOMAIN Tail(up[c]) : Tail(up[c])[i] = up[c][i + 1]
    BY <1>1, <2>3, UnitsUp, EmptySeq, HeadTailProperties
  <2>5. ~Unread(c)
    BY <2>2, <2>3 DEF Unread
  <2>6. guest[c] \notin {"start", "role"} /\ \A i \in DOMAIN up[c] : up[c][i].n # 0
    BY <1>1, <2>3, <2>5 DEF UpInv
  <2>7. up'[c] = Tail(up[c]) /\ \A d \in Guests : d # c => up'[d] = up[d]
    BY <1>1, <2>3 DEF RelayTypeOK
  <2>8. \A i \in DOMAIN up'[c] : up'[c][i].n # 0
    BY <2>4, <2>6, <2>7
  <2>9. \A d \in Guests : Unread(d) => Unread(d)'
    BY <2>3 DEF Unread
  <2> QED
    BY <1>1, <2>3, <2>6, <2>7, <2>8, <2>9 DEF UpInv
<1>6. CASE \E f \in Fds : ReadEnd(f)
  <2>1. PICK f \in Fds : ReadEnd(f)
    BY <1>6
  <2>2. /\ conn' = [conn EXCEPT ![f] = Nobody]
        /\ UNCHANGED <<selPc, relaying, clnt_sock, up, guest>>
    BY <2>1 DEF ReadEnd
  <2>3. \A d \in Guests : Unread(d) => Unread(d)'
    BY <1>1, <2>2, FdNumbers DEF Unread, RelayTypeOK
  <2> QED
    BY <1>1, <2>2, <2>3 DEF UpInv
<1>7. CASE \/ Select \/ ScanOver \/ Ignore \/ \E f \in Fds : ReadError(f)
           \/ WriteUnit \/ WriteLost \/ WriteKilled
  <2>1. UNCHANGED <<relaying, conn, clnt_sock, up, guest>> /\ selPc # "role"
    BY <1>7 DEF Select, ScanOver, Ignore, Sees, ReadError, WriteUnit, WriteLost, WriteKilled
  <2>2. \A d \in Guests : Unread(d) => Unread(d)'
    BY <2>1 DEF Unread
  <2> QED
    BY <1>1, <2>1, <2>2 DEF UpInv
<1> QED
  BY <1>2, <1>3, <1>4, <1>5, <1>6, <1>7 DEF RelayStep

\* A client says its role first, and once.
LEMMA GuestUpInv ==
  ASSUME SelectInv, NEW c \in Guests, ConnectGuest(c) \/ GuestStep(c) \/ Leave(c)
  PROVE  UpInv'
<1> USE DEF loopVars, sockVars, guestVars
<1>1. RelayTypeOK /\ CrowdInv /\ GuestInv /\ UpInv
  BY DEF SelectInv
<1>2. /\ UNCHANGED <<selPc, relaying, conn, clnt_sock>>
      /\ \A d \in Guests : d # c => guest'[d] = guest[d] /\ up'[d] = up[d]
      /\ \A d \in Guests : Unread(d) => Unread(d)'
  <2>1. UNCHANGED <<selPc, relaying, conn, clnt_sock>>
    BY DEF ConnectGuest, GuestStep, SayRole, TakeBlock, WriteBlock, TakeUnit, Leave
  <2>2. \A d \in Guests : d # c => guest'[d] = guest[d] /\ up'[d] = up[d]
    BY <1>1 DEF ConnectGuest, GuestStep, SayRole, Send, TakeBlock, WriteBlock, TakeUnit, Leave,
                RelayTypeOK
  <2> QED
    BY <2>1, <2>2 DEF Unread
<1>3. SUFFICES /\ guest'[c] = "start" => up'[c] = <<>>
               /\ guest'[c] = "role" => relaying /\ up'[c] = <<>> /\ Unread(c)
               /\ \A i \in DOMAIN up'[c] : up'[c][i].n = 0 => i = 1 /\ relaying /\ Unread(c)
  BY <1>1, <1>2 DEF UpInv
<1>4. CASE ConnectGuest(c)
  <2>1. /\ guest[c] = "start" /\ up' = up
        /\ guest'[c] = (IF relaying THEN "role" ELSE "select")
    BY <1>1, <1>4 DEF ConnectGuest, RelayTypeOK
  <2>2. Unread(c)
    BY <1>1, <2>1, FdNumbers DEF CrowdInv, Unread
  <2> QED
    BY <1>1, <2>1, <2>2 DEF UpInv
<1>5. CASE SayRole(c)
  <2>1. /\ guest[c] = "role" /\ guest'[c] = "select" /\ up'[c] = Append(up[c], Unit(c, 0))
    BY <1>1, <1>5 DEF SayRole, Send, RelayTypeOK
  <2>2. up[c] = <<>> /\ relaying /\ Unread(c)
    BY <1>1, <2>1 DEF UpInv
  <2>3. DOMAIN up'[c] = {1}
    BY <2>1, <2>2
  <2> QED
    BY <2>1, <2>2, <2>3
<1>6. CASE WriteBlock(c)
  <2>1. PICK u \in Units : up'[c] = Append(up[c], u)
    <3>1. CASE role[c] = "Receiver"
      <4>1. /\ got[c] # <<>> /\ got[c] \in Seq(Units)
            /\ up'[c] = Append(up[c], got[c][Len(got[c])])
        BY <1>1, <1>6, <3>1 DEF WriteBlock, Send, GuestInv, RelayTypeOK
      <4>2. got[c][Len(got[c])] \in Units
        BY <4>1, EmptySeq, LenProperties, ElementOfSeq
      <4> QED
        BY <4>1, <4>2
    <3>2. CASE role[c] # "Receiver"
      <4>1. up'[c] = Append(up[c], Unit(c, next[c])) /\ next[c] \in 1 .. UNITS
        BY <1>1, <1>6, <3>2, RelayAssumption DEF WriteBlock, Send, GuestInv, RelayTypeOK
      <4>2. Unit(c, next[c]) \in Units
        BY <4>1 DEF Unit, Units
      <4> QED
        BY <4>1, <4>2
    <3> QED
      BY <3>1, <3>2
  <2>2. guest'[c] \in {"read", "select"}
    BY <1>1, <1>6 DEF WriteBlock, RelayTypeOK
  <2>3. /\ DOMAIN up'[c] = 1 .. Len(up[c]) + 1 /\ DOMAIN up[c] = 1 .. Len(up[c])
        /\ up'[c][Len(up[c]) + 1] = u /\ Len(up[c]) \in Nat
        /\ \A i \in DOMAIN up[c] : up'[c][i] = up[c][i]
    <3>1. up[c] \in Seq([from : Guests, n : 0 .. UNITS]) /\ u \in [from : Guests, n : 0 .. UNITS]
      <4>1. up[c] \in Seq([from : Guests, n : 0 .. UNITS])
        BY <1>1, UnitsUp
      <4>2. u \in [from : Guests, n : 0 .. UNITS]
        BY <2>1, RelayAssumption DEF Units
      <4> QED
        BY <4>1, <4>2
    <3> QED
      BY <2>1, <3>1, LenProperties, AppendProperties
  <2>4. u.n # 0
    BY <2>1 DEF Units
  <2>5. \A i \in DOMAIN up'[c] : i \in DOMAIN up[c] \/ i = Len(up[c]) + 1
    BY <2>3
  <2> QED
    BY <1>1, <2>2, <2>3, <2>4, <2>5 DEF UpInv
<1>7. CASE TakeBlock(c) \/ TakeUnit(c) \/ Leave(c)
  <2>1. up' = up /\ guest'[c] \notin {"start", "role"}
    BY <1>1, <1>7 DEF TakeBlock, TakeUnit, Leave, RelayTypeOK
  <2> QED
    BY <1>1, <2>1 DEF UpInv
<1> QED
  BY <1>4, <1>5, <1>6, <1>7 DEF GuestStep

\* sender_sock and receiver_sock mislead only after a death.
LEMMA NextSockInv ==
  ASSUME SelectInv, RelayNext
  PROVE  SockInv'
<1> USE DEF loopVars, sockVars, guestVars
<1>1. RelayTypeOK /\ FdInv /\ CrowdInv /\ GuestInv /\ SockInv
  BY DEF SelectInv
<1>2. CASE ReadRole
  <2>1. clnt_sock \in Fds /\ conn[clnt_sock] \in Guests
    BY <1>2, RoleReader DEF ReadRole
  <2>2. \/ sender_sock' = sender_sock
        \/ sender_sock' = clnt_sock /\ role[conn[clnt_sock]] = "Sender"
    BY <1>2 DEF ReadRole, Says
  <2>3. \/ receiver_sock' = receiver_sock
        \/ receiver_sock' = clnt_sock /\ role[conn[clnt_sock]] = "Receiver"
    BY <1>2 DEF ReadRole, Says
  <2>4. UNCHANGED <<conn, role, guest>>
    BY <1>2 DEF ReadRole
  <2> QED
    BY <1>1, <2>1, <2>2, <2>3, <2>4, FdNumbers DEF SockInv, Leads
<1>3. CASE AcceptGuest
  <2>1. PICK f \in Fds : SmallestFree(f) /\ conn' = [conn EXCEPT ![f] = Head(pending)]
    BY <1>3 DEF AcceptGuest
  <2>2. \A g \in Fds : conn[g] # Nobody => conn'[g] = conn[g]
    BY <1>1, <2>1 DEF SmallestFree, RelayTypeOK
  <2>3. UNCHANGED <<sockVars, role, guest>>
    BY <1>3 DEF AcceptGuest
  <2> QED
    BY <1>1, <2>2, <2>3 DEF SockInv, Leads
<1>4. CASE \E f \in Fds : ReadEnd(f)
  <2>1. PICK f \in Fds : ReadEnd(f)
    BY <1>4
  <2>2. /\ conn' = [conn EXCEPT ![f] = Nobody] /\ peer[conn[f]] # "open"
        /\ conn[f] \in Guests /\ UNCHANGED <<sockVars, role, guest>>
    BY <2>1, Scanned DEF ReadEnd
  <2>3. guest[conn[f]] = "dead" /\ \A g \in Fds : g # f => conn'[g] = conn[g]
    BY <1>1, <2>2 DEF GuestInv, RelayTypeOK
  <2> QED
    BY <1>1, <2>2, <2>3 DEF SockInv, Leads
<1>5. CASE \E c \in Guests : ConnectGuest(c)
  <2>1. PICK c \in Guests : ConnectGuest(c)
    BY <1>5
  <2>2. /\ guest[c] = "start" /\ UNCHANGED <<conn, sockVars>>
        /\ \A d \in Guests : d # c => role'[d] = role[d] /\ guest'[d] = guest[d]
    BY <1>1, <2>1 DEF ConnectGuest, RelayTypeOK
  <2>3. \A f \in Fds : conn[f] # Nobody => conn[f] \in Guests /\ conn[f] # c
    BY <1>1, <2>2 DEF CrowdInv, RelayTypeOK
  <2>4. \A d \in Guests : guest[d] = "dead" => guest'[d] = "dead" /\ role'[d] = role[d]
    BY <2>2
  <2> QED
    BY <1>1, <2>2, <2>3, <2>4 DEF SockInv, Leads
<1>6. CASE \E c \in Guests : GuestStep(c) \/ Leave(c)
  <2>1. PICK c \in Guests : GuestStep(c) \/ Leave(c)
    BY <1>6
  <2>2. /\ UNCHANGED <<conn, sockVars, role>> /\ guest[c] # "dead"
        /\ \A d \in Guests : d # c => guest'[d] = guest[d]
    BY <1>1, <2>1 DEF GuestStep, SayRole, TakeBlock, WriteBlock, TakeUnit, Leave, RelayTypeOK
  <2> QED
    BY <1>1, <2>2 DEF SockInv, Leads
<1>7. CASE \/ Select \/ ScanOver \/ ReadNoRole \/ Ignore
           \/ \E f \in Fds : ReadUnit(f) \/ ReadError(f)
           \/ WriteUnit \/ WriteLost \/ WriteKilled
  <2>1. UNCHANGED <<conn, sockVars, role, guest>>
    BY <1>7 DEF Select, ScanOver, ReadNoRole, Ignore, ReadUnit, ReadError,
                WriteUnit, WriteLost, WriteKilled
  <2> QED
    BY <1>1, <2>1 DEF SockInv, Leads
<1> QED
  BY <1>2, <1>3, <1>4, <1>5, <1>6, <1>7 DEF RelayNext, RelayStep

\* Every step keeps what the descriptors and the role variables name.
LEMMA NextSelectInv ==
  ASSUME SelectInv, [RelayNext]_relayVars
  PROVE  SelectInv'
<1>1. CASE RelayNext
  <2>1. UpInv'
    BY <1>1, ServerUpInv, GuestUpInv DEF RelayNext
  <2> QED
    BY <1>1, <2>1, NextRelayTypes, NextFdInv, NextCrowdInv, NextGuestInv, NextSockInv DEF SelectInv
<1>2. CASE UNCHANGED relayVars
  <2> USE <1>2 DEF relayVars, loopVars, sockVars, guestVars
  <2>1. RelayTypeOK' /\ (relaying \in BOOLEAN)'
    BY DEF SelectInv, RelayTypeOK
  <2>2. FdInv' /\ CrowdInv'
    BY DEF SelectInv, FdInv, CrowdInv
  <2>3. GuestInv' /\ SockInv'
    BY DEF SelectInv, GuestInv, SockInv, Leads
  <2>4. UpInv'
    BY DEF SelectInv, UpInv, Unread
  <2> QED
    BY <2>1, <2>2, <2>3, <2>4 DEF SelectInv
<1> QED
  BY <1>1, <1>2

LEMMA SelectInvariance == RelaySpec => []SelectInv
<1>1. (\E withRoles \in BOOLEAN : RelayInit(withRoles)) => SelectInv
  BY InitSelectInv
<1>2. SelectInv /\ [RelayNext]_relayVars => SelectInv'
  BY NextSelectInv
<1> QED
  BY <1>1, <1>2, PTL DEF RelaySpec

\* The select loops' variables keep their types: no client, whatever it does,
\* makes the relay take a role for a block or write to no number at all.
THEOREM RelayTypes == RelaySpec => []RelayTypeOK
<1>1. SelectInv => RelayTypeOK
  BY DEF SelectInv
<1> QED
  BY <1>1, SelectInvariance, PTL

\* What the scan has still to see is what select() found, and sender_sock and
\* receiver_sock mislead only after a client of the role has died.
THEOREM RelaySockets == RelaySpec => []SocketsCurrent
<1>1. SelectInv => SocketsCurrent
  BY DEF SelectInv, FdInv, SockInv, Leads, SocketsCurrent, Misled
<1> QED
  BY <1>1, SelectInvariance, PTL

\* The unit in the server's hand is for c.
InHand(c) == IF buf # <<>> /\ buf[2] \in Fds /\ conn[buf[2]] = c THEN <<buf[1]>> ELSE <<>>

\* All that c has received or is going to, if it stays.
Recv(c) == got[c] \o down[c] \o InHand(c)

\* The server has not read the role of c: it is not there yet, or waits.
New(c) == \/ guest[c] = "start"
          \/ \E i \in DOMAIN pending : pending[i] = c
          \/ selPc = "role" /\ conn[clnt_sock] = c

\* What c has taken, from its file, its user or its stream, and not written yet.
Owed(c) == IF guest[c] \in {"role", "write", "writeRead"} THEN 1 ELSE 0
Sent(c) == next[c] - Owed(c)

\* Who is at the descriptors of the relay.
Holder(sock) == IF sock \in Fds THEN conn[sock] ELSE Nobody
SenderEnd    == Holder(sender_sock)
ReceiverEnd  == Holder(receiver_sock)

\* Bookkeeping: the server holds a unit only between read() and write(); a client
\* has a role from connect() on, and receives nothing until it was asked for it.
TidyInv ==
  /\ selPc \in {"select", "scan", "role"} => buf = <<>>
  /\ ~relaying => sender_sock = NoSocket /\ receiver_sock = NoSocket
  /\ \A c \in Guests :
       /\ guest[c] = "dead" => peer[c] # "open"
       /\ guest[c] = "start" <=> role[c] = "none"
       /\ role[c] \in Roles => relaying
       /\ role[c] = "Echo" => ~relaying
       /\ guest[c] \in {"start", "role"} => next[c] = 0
       /\ New(c) => got[c] = <<>> /\ down[c] = <<>>
       /\ guest[c] = "role" => New(c)

\* The server has taken m of what s sent; nothing that came after is elsewhere.
SentBy(s, m) ==
  /\ \A i \in DOMAIN up[s] : up[s][i] = Unit(s, m + i)
  /\ \A c \in Guests : \A i \in DOMAIN Recv(c) : Recv(c)[i].from = s => Recv(c)[i].n <= m
  /\ guest[s] # "dead" => m + Len(up[s]) = Sent(s)

\* What x receives after the first k comes after all that y receives.
Ahead(x, k, y) ==
  \A i \in DOMAIN Recv(x), j \in DOMAIN Recv(y) :
    i > k /\ Recv(x)[i].from = Recv(y)[j].from => Recv(y)[j].n < Recv(x)[i].n

\* The server has taken k of what x returned.
Returned(x, k) ==
  /\ k + Len(up[x]) <= Len(got[x])
  /\ \A i \in DOMAIN up[x] : up[x][i] = got[x][k + i]
  /\ guest[x] # "dead" => k + Len(up[x]) + Owed(x) = Len(got[x])

\* x is the Receiver of a Sender.
Answers(x) == x = ReceiverEnd /\ SenderEnd # Nobody /\ role[SenderEnd] = "Sender"

\* What it returns next comes after all that the Sender got back.
ReturnedBy(x, k) == Returned(x, k) /\ (Answers(x) => Ahead(x, k, SenderEnd))

\* What each client sends comes to the server in order, from none of it twice.
SendInv == \A s \in Guests : role[s] # "Receiver" => \E m \in Int : SentBy(s, m)

\* What a Receiver sends is what it has got, in that order.
ReturnInv ==
  \A x \in Guests : role[x] = "Receiver" =>
    \/ New(x) /\ up[x] \in {<<>>, <<Unit(x, 0)>>}
    \/ ~New(x) /\ \E k \in Nat : ReturnedBy(x, k)

\* Units of one client come in order, even those on their way.
AscendInv == \A c \in Guests : Ascending(Recv(c))

\* y receives nothing and sends nothing.
Idle(y) == /\ role[y] = "Receiver" \/ guest[y] = "dead"
           /\ got[y] = <<>> /\ down[y] = <<>> /\ up[y] = <<>>

\* A Receiver that was given the descriptor of a Sender that has left, which
\* sender_sock still names, gets nothing; once the server has read its role nothing
\* is on its way from or to the Receiver that receiver_sock names.
StaleInv ==
  \A s \in Guests : s = SenderEnd /\ role[s] = "Receiver" =>
    /\ got[s] = <<>> /\ down[s] = <<>>
    /\ guest[s] # "dead" /\ ~New(s) =>
         buf = <<>> /\ \A r \in Guests : r = ReceiverEnd /\ ~New(r) => Idle(r)

\* s and r are the only clients so far, if they are there.
Early(s, r) ==
  /\ s # r /\ role[s] \in {"none", "Sender"} /\ role[r] \in {"none", "Receiver"}
  /\ \A c \in Guests : guest[c] # "dead" /\ (c \notin {s, r} => role[c] = "none")

PairEnds(s, r) ==
  /\ sender_sock # NoSocket => SenderEnd = s /\ ~New(s)
  /\ receiver_sock # NoSocket => ReceiverEnd = r /\ ~New(r)

\* r receives all that s sends from some unit on, s gets it back in the same order.
PairStreams(s, r) ==
  /\ sender_sock = NoSocket \/ receiver_sock = NoSocket => Recv(s) = <<>> /\ Recv(r) = <<>>
  /\ \A i \in DOMAIN Recv(r) :
       Recv(r)[i] = Unit(s, Sent(s) - Len(up[s]) - Len(Recv(r)) + i)
  /\ \A i \in DOMAIN Recv(s) : i <= Len(got[r]) /\ Recv(s)[i] = got[r][i]
  /\ ~New(r) => Len(Recv(s)) + Len(up[r]) + Owed(r) = Len(got[r])

Pair(s, r) == PairEnds(s, r) /\ PairStreams(s, r)

PairInv == \A s, r \in Guests : Early(s, r) => Pair(s, r)

\* An echo client: what it sent is on its way there, on its way back, or back.
EchoInv ==
  ~relaying => \A c \in Guests :
    /\ \A i \in DOMAIN got[c] : got[c][i] = Unit(c, i)
    /\ guest[c] # "dead" => /\ \A i \in DOMAIN Recv(c) : Recv(c)[i] = Unit(c, i)
                            /\ Len(Recv(c)) + Len(up[c]) = Sent(c)

\* RelayInOrder is about got alone and says nothing of what is on its way: the
\* inductive invariant states the order of all that each client is to receive.
RelayInv ==
  /\ SelectInv /\ TidyInv /\ SendInv /\ ReturnInv /\ AscendInv /\ StaleInv /\ PairInv /\ EchoInv

-----------------------------------------------------------------------------

\* A sequence and what follows it.
LEMMA Parts ==
  ASSUME NEW S, NEW s \in Seq(S), NEW t \in Seq(S)
  PROVE  /\ s \o t \in Seq(S)
         /\ Len(s) \in Nat /\ Len(t) \in Nat /\ Len(s \o t) = Len(s) + Len(t)
         /\ \A i \in 1 .. Len(s) : (s \o t)[i] = s[i]
         /\ \A i \in 1 .. Len(t) : (s \o t)[Len(s) + i] = t[i]
<1>1. /\ s \o t \in Seq(S)
      /\ Len(s) \in Nat /\ Len(t) \in Nat /\ Len(s \o t) = Len(s) + Len(t)
      /\ \A i \in 1 .. Len(s) + Len(t) :
           (s \o t)[i] = IF i <= Len(s) THEN s[i] ELSE t[i - Len(s)]
  BY ConcatProperties, LenProperties
<1>2. ASSUME NEW i \in 1 .. Len(s) PROVE (s \o t)[i] = s[i]
  <2>1. i \in 1 .. Len(s) + Len(t) /\ i <= Len(s)
    BY <1>1
  <2> QED
    BY <1>1, <2>1
<1>3. ASSUME NEW i \in 1 .. Len(t) PROVE (s \o t)[Len(s) + i] = t[i]
  <2>1. Len(s) + i \in 1 .. Len(s) + Len(t) /\ ~(Len(s) + i <= Len(s)) /\ Len(s) + i - Len(s) = i
    BY <1>1
  <2> QED
    BY <1>1, <2>1
<1> QED
  BY <1>1, <1>2, <1>3

\* The first of three sequences begins what they make together.
LEMMA ThreeParts ==
  ASSUME NEW S, NEW s \in Seq(S), NEW t \in Seq(S), NEW v \in Seq(S)
  PROVE  /\ s \o t \in Seq(S) /\ s \o t \o v \in Seq(S)
         /\ Len(s) <= Len(s \o t \o v)
         /\ \A i \in 1 .. Len(s) : (s \o t \o v)[i] = s[i]
<1>1. PICK p : p = s \o t
  OBVIOUS
<1>2. PICK q : q = p \o v
  OBVIOUS
<1>3. /\ p \in Seq(S)
      /\ Len(s) \in Nat /\ Len(t) \in Nat /\ Len(p) = Len(s) + Len(t)
      /\ \A i \in 1 .. Len(s) : p[i] = s[i]
  BY <1>1, Parts
<1>4. /\ q \in Seq(S)
      /\ Len(v) \in Nat /\ Len(q) = Len(p) + Len(v)
      /\ \A i \in 1 .. Len(p) : q[i] = p[i]
  BY <1>2, <1>3, Parts
<1>5. Len(s) <= Len(q) /\ \A i \in 1 .. Len(s) : q[i] = s[i]
  BY <1>3, <1>4
<1> QED
  BY <1>1, <1>2, <1>3, <1>4, <1>5

\* What c receives is made of what it has, what is on its way and what the
\* server holds.
LEMMA RecvParts ==
  ASSUME RelayTypeOK, NEW c \in Guests
  PROVE  /\ got[c] \in Seq(Units) /\ down[c] \in Seq(Units) /\ InHand(c) \in Seq(Units)
         /\ got[c] \o down[c] \in Seq(Units) /\ Recv(c) \in Seq(Units)
         /\ Len(got[c]) \in Nat /\ Len(down[c]) \in Nat /\ Len(Recv(c)) \in Nat
         /\ DOMAIN got[c] = 1 .. Len(got[c]) /\ DOMAIN Recv(c) = 1 .. Len(Recv(c))
         /\ Len(got[c]) <= Len(Recv(c))
         /\ \A i \in 1 .. Len(got[c]) : Recv(c)[i] = got[c][i]
         /\ \A i \in 1 .. Len(Recv(c)) : Recv(c)[i] \in Units
<1>1. got[c] \in Seq(Units) /\ down[c] \in Seq(Units)
  BY DEF RelayTypeOK
<1>2. InHand(c) \in Seq(Units)
  <2>1. buf # <<>> => <<buf[1]>> \in Seq(Units)
    BY DEF RelayTypeOK
  <2> QED
    BY <2>1, EmptySeq DEF InHand
<1>3. /\ got[c] \o down[c] \in Seq(Units) /\ Recv(c) \in Seq(Units)
      /\ Len(got[c]) <= Len(Recv(c))
      /\ \A i \in 1 .. Len(got[c]) : Recv(c)[i] = got[c][i]
  <2>1. PICK s \in Seq(Units), t \in Seq(Units), v \in Seq(Units) :
          s = got[c] /\ t = down[c] /\ v = InHand(c)
    BY <1>1, <1>2
  <2>2. Recv(c) = s \o t \o v
    BY <2>1 DEF Recv
  <2>3. /\ s \o t \in Seq(Units) /\ s \o t \o v \in Seq(Units)
        /\ Len(s) <= Len(s \o t \o v)
        /\ \A i \in 1 .. Len(s) : (s \o t \o v)[i] = s[i]
    BY ThreeParts
  <2> QED
    BY <2>1, <2>2, <2>3
<1>4. /\ Len(got[c]) \in Nat /\ Len(down[c]) \in Nat /\ Len(Recv(c)) \in Nat
      /\ DOMAIN got[c] = 1 .. Len(got[c]) /\ DOMAIN Recv(c) = 1 .. Len(Recv(c))
      /\ \A i \in 1 .. Len(Recv(c)) : Recv(c)[i] \in Units
  BY <1>1, <1>3, LenProperties, ElementOfSeq
<1> QED
  BY <1>1, <1>2, <1>3, <1>4

\* A client is to receive nothing if it has nothing and nothing is on its way.
LEMMA RecvEmpty ==
  ASSUME RelayTypeOK, NEW c \in Guests
  PROVE  Recv(c) = <<>> <=> got[c] = <<>> /\ down[c] = <<>> /\ InHand(c) = <<>>
<1>1. got[c] \in Seq(Units) /\ down[c] \in Seq(Units) /\ InHand(c) \in Seq(Units)
  BY RecvParts
<1>2. got[c] \o down[c] \in Seq(Units)
  BY <1>1, ConcatProperties
<1> QED
  BY <1>1, <1>2, ConcatEqualIffEmpty DEF Recv

\* A new client has received nothing.
LEMMA NewReceivesNothing ==
  ASSUME SelectInv, TidyInv, NEW c \in Guests, New(c)
  PROVE  Recv(c) = <<>>
<1>1. got[c] = <<>> /\ down[c] = <<>>
  BY DEF TidyInv
<1>2. CASE buf = <<>>
  BY <1>1, <1>2, RecvEmpty DEF InHand, SelectInv
<1>3. CASE buf # <<>>
  <2>1. selPc # "role"
    BY <1>3 DEF TidyInv
  <2>2. \A f \in Fds : conn[f] # c
    BY <2>1, FdNumbers DEF New, SelectInv, CrowdInv
  <2> QED
    BY <1>1, <2>2, RecvEmpty DEF InHand, SelectInv
<1> QED
  BY <1>2, <1>3

\* A unit moves from the hand to what is on its way,
LEMMA HandedOn ==
  ASSUME NEW S, NEW s \in Seq(S), NEW t \in Seq(S), NEW u \in S
  PROVE  /\ s \o Append(t, u) \o <<>> = s \o t \o <<u>>
         /\ s \o t \o <<u>> = Append(s \o t, u)
         /\ s \o t \o <<>> = s \o t
<1>1. <<u>> \in Seq(S) /\ <<>> \in Seq(S)
  BY EmptySeq
<1>2. Append(t, u) = t \o <<u>> /\ Append(t, u) \in Seq(S)
  BY AppendIsConcat, AppendProperties
<1>3. s \o (t \o <<u>>) = s \o t \o <<u>>
  <2>1. PICK e \in Seq(S) : e = <<u>>
    BY <1>1
  <2>2. (s \o t) \o e = s \o (t \o e)
    BY ConcatAssociative, SMTT(30)
  <2> QED
    BY <2>1, <2>2, Zenon
<1>4. s \o t \in Seq(S)
  BY ConcatProperties
<1>5. s \o Append(t, u) \in Seq(S)
  BY <1>2, ConcatProperties
<1>6. s \o Append(t, u) \o <<>> = s \o Append(t, u) /\ s \o t \o <<>> = s \o t
  BY <1>4, <1>5, ConcatEmptySeq
<1>7. s \o t \o <<u>> = Append(s \o t, u)
  <2>1. PICK p \in Seq(S) : p = s \o t
    BY <1>4
  <2>2. Append(p, u) = p \o <<u>>
    BY AppendIsConcat
  <2> QED
    BY <2>1, <2>2, Zenon
<1>8. s \o Append(t, u) = s \o t \o <<u>>
  BY <1>2, <1>3, Zenon
<1> QED
  BY <1>6, <1>7, <1>8, Zenon

\* and from there to what has come.
LEMMA TakenOver ==
  ASSUME NEW S, NEW s \in Seq(S), NEW t \in Seq(S), NEW v \in Seq(S), t # <<>>
  PROVE  Append(s, Head(t)) \o Tail(t) \o v = s \o t \o v
<1>1. PICK h \in S, q \in Seq(S) : h = Head(t) /\ q = Tail(t) /\ Len(q) = Len(t) - 1
                                   /\ \A i \in 1 .. Len(q) : q[i] = t[i + 1]
  <2>1. /\ Head(t) \in S /\ Tail(t) \in Seq(S) /\ Len(Tail(t)) = Len(t) - 1
        /\ \A i \in 1 .. Len(Tail(t)) : Tail(t)[i] = t[i + 1]
    BY HeadTailProperties
  <2> QED
    BY <2>1
<1>2. <<h>> \in Seq(S) /\ Len(<<h>>) = 1 /\ <<h>>[1] = h
  OBVIOUS
<1>3. <<h>> \o q = t
  <2>1. PICK e \in Seq(S) : e = <<h>>
    BY <1>2
  <2>2. PICK p \in Seq(S) : p = e \o q
    BY ConcatProperties
  <2>3. Len(p) = Len(t) /\ Len(t) \in Nat \ {0}
    BY <1>1, <1>2, <2>1, <2>2, ConcatProperties, LenProperties, EmptySeq
  <2>4. ASSUME NEW i \in 1 .. Len(p) PROVE p[i] = t[i]
    <3>1. CASE i = 1
      <4>1. p[1] = e[1]
        BY <1>2, <2>1, <2>2, Parts
      <4>2. t[1] = h
        BY <1>1
      <4> QED
        BY <1>2, <2>1, <3>1, <4>1, <4>2
    <3>2. CASE i # 1
      <4>1. i - 1 \in 1 .. Len(q) /\ i = Len(e) + (i - 1)
        BY <1>1, <1>2, <2>1, <2>3, <3>2
      <4>2. p[Len(e) + (i - 1)] = q[i - 1]
        BY <2>2, <4>1, Parts
      <4> QED
        BY <1>1, <4>1, <4>2
    <3> QED
      BY <3>1, <3>2
  <2> QED
    BY <2>1, <2>2, <2>3, <2>4, SeqEqual
<1>4. Append(s, h) = s \o <<h>>
  BY AppendIsConcat
<1>5. s \o <<h>> \o q = s \o (<<h>> \o q)
  BY <1>2, ConcatAssociative, SMTT(30)
<1> QED
  BY <1>1, <1>3, <1>4, <1>5, Zenon

\* The steps that leave what everybody receives as it is.
Quiet ==
  \/ Select \/ ScanOver \/ AcceptGuest \/ ReadRole \/ ReadNoRole \/ Ignore
  \/ \E f \in Fds : ReadEnd(f) \/ ReadError(f)
  \/ WriteUnit \/ WriteKilled
  \/ \E c \in Guests : ConnectGuest(c) \/ GuestStep(c) \/ Leave(c)

\* Such steps leave what each client is to receive as it is.
LEMMA QuietKeepsRecv ==
  ASSUME SelectInv, TidyInv, Quiet, NEW c \in Guests
  PROVE  Recv(c)' = Recv(c)
<1> USE DEF loopVars, sockVars, guestVars
<1>1. RelayTypeOK
  BY DEF SelectInv
<1>2. /\ got[c] \in Seq(Units) /\ down[c] \in Seq(Units) /\ InHand(c) \in Seq(Units)
  BY <1>1, RecvParts
<1>3. CASE AcceptGuest \/ \E f \in Fds : ReadEnd(f)
  <2>1. selPc = "scan" /\ UNCHANGED <<buf, got, down>>
    BY <1>3 DEF AcceptGuest, ReadEnd, Sees
  <2>2. InHand(c)' = <<>> /\ InHand(c) = <<>>
    BY <2>1 DEF TidyInv, InHand
  <2> QED
    BY <2>1, <2>2 DEF Recv
<1>4. CASE \/ Select \/ ScanOver \/ ReadRole \/ ReadNoRole \/ Ignore
           \/ \E f \in Fds : ReadError(f)
           \/ WriteKilled
           \/ \E d \in Guests : \/ ConnectGuest(d) \/ SayRole(d) \/ TakeBlock(d)
                                \/ WriteBlock(d) \/ Leave(d)
  <2>1. UNCHANGED <<buf, conn, got, down>>
    BY <1>4 DEF Select, ScanOver, ReadRole, ReadNoRole, Ignore, ReadError, WriteKilled,
                ConnectGuest, SayRole, TakeBlock, WriteBlock, Leave
  <2> QED
    BY <2>1 DEF Recv, InHand
<1>5. CASE WriteUnit
  <2>1. /\ buf # <<>> /\ buf[1] \in Units /\ Target \in Guests
        /\ buf[2] \in Fds /\ Target = conn[buf[2]]
    BY <1>1, <1>5 DEF WriteUnit, Target, SelectInv, FdInv, RelayTypeOK
  <2>2. /\ down' = [down EXCEPT ![Target] = Append(@, buf[1])]
        /\ buf' = <<>> /\ UNCHANGED <<conn, got>>
    BY <1>5 DEF WriteUnit
  <2>3. InHand(c)' = <<>>
    BY <2>2 DEF InHand
  <2>4. CASE c = Target
    <3>1. InHand(c) = <<buf[1]>> /\ down'[c] = Append(down[c], buf[1])
      BY <1>1, <2>1, <2>2, <2>4 DEF InHand, RelayTypeOK
    <3>2. PICK s \in Seq(Units), t \in Seq(Units), u \in Units :
            s = got[c] /\ t = down[c] /\ u = buf[1]
      BY <1>2, <2>1
    <3>3. Recv(c) = s \o t \o <<u>>
      BY <3>1, <3>2 DEF Recv
    <3>4. Recv(c)' = s \o Append(t, u) \o <<>>
      BY <2>2, <2>3, <3>1, <3>2 DEF Recv
    <3> QED
      BY <3>3, <3>4, HandedOn
  <2>5. CASE c # Target
    <3>1. InHand(c) = <<>> /\ down'[c] = down[c]
      BY <1>1, <2>1, <2>2, <2>5 DEF InHand, RelayTypeOK
    <3> QED
      BY <2>2, <2>3, <3>1 DEF Recv
  <2> QED
    BY <2>4, <2>5
<1>6. CASE \E d \in Guests : TakeUnit(d)
  <2>1. PICK d \in Guests : TakeUnit(d)
    BY <1>6
  <2>2. /\ down[d] # <<>> /\ UNCHANGED <<buf, conn>>
        /\ got' = [got EXCEPT ![d] = Append(@, Head(down[d]))]
        /\ down' = [down EXCEPT ![d] = Tail(@)]
    BY <2>1 DEF TakeUnit
  <2>3. InHand(c)' = InHand(c)
    BY <2>2 DEF InHand
  <2>4. CASE c = d
    <3>1. got'[c] = Append(got[c], Head(down[c])) /\ down'[c] = Tail(down[c])
      BY <1>1, <2>2, <2>4 DEF RelayTypeOK
    <3>2. PICK s \in Seq(Units), t \in Seq(Units), v \in Seq(Units) :
            s = got[c] /\ t = down[c] /\ v = InHand(c)
      BY <1>2
    <3>3. Recv(c) = s \o t \o v
      BY <3>2 DEF Recv
    <3>4. Recv(c)' = Append(s, Head(t)) \o Tail(t) \o v
      BY <2>3, <3>1, <3>2 DEF Recv
    <3>5. t # <<>>
      BY <2>2, <2>4, <3>2
    <3> QED
      BY <3>3, <3>4, <3>5, TakenOver, SMTT(30)
  <2>5. CASE c # d
    <3>1. got'[c] = got[c] /\ down'[c] = down[c]
      BY <1>1, <2>2, <2>5 DEF RelayTypeOK
    <3> QED
      BY <2>3, <3>1 DEF Recv
  <2> QED
    BY <2>4, <2>5
<1> QED
  BY <1>3, <1>4, <1>5, <1>6 DEF Quiet, GuestStep

\* What the server reads is for whoever is at the other descriptor.
LEMMA ReadUnitRecv ==
  ASSUME SelectInv, TidyInv, NEW f \in Fds, ReadUnit(f), NEW c \in Guests
  PROVE  Recv(c)' = IF Holder(Dest(f)) = c THEN Append(Recv(c), Head(up[conn[f]])) ELSE Recv(c)
<1> USE DEF loopVars, sockVars, guestVars
<1>1. RelayTypeOK
  BY DEF SelectInv
<1>2. /\ selPc = "scan" /\ buf' = <<Head(up[conn[f]]), Dest(f)>>
      /\ UNCHANGED <<conn, got, down>>
  BY DEF ReadUnit, Sees
<1>3. buf = <<>>
  BY <1>2 DEF TidyInv
<1>4. PICK s \in Seq(Units), t \in Seq(Units) : s = got[c] /\ t = down[c]
  BY <1>1, RecvParts
<1>5. buf' # <<>> /\ buf'[1] = Head(up[conn[f]]) /\ buf'[2] = Dest(f)
  BY <1>2
<1>6. PICK u \in Units : u = Head(up[conn[f]])
  <2>1. /\ RelayTypeOK'
    BY ReadTypes
  <2> QED
    BY <1>5, <2>1 DEF RelayTypeOK
<1>7. Recv(c) = s \o t
  <2>1. InHand(c) = <<>>
    BY <1>3 DEF InHand
  <2>2. Recv(c) = s \o t \o <<>>
    BY <1>4, <2>1 DEF Recv
  <2> QED
    BY <2>2, <1>6, HandedOn
<1>8. CASE Holder(Dest(f)) = c
  <2>1. Dest(f) \in Fds /\ conn[Dest(f)] = c
    BY <1>8, FdNumbers DEF Holder
  <2>2. InHand(c)' = <<u>>
    BY <1>2, <1>5, <1>6, <2>1 DEF InHand
  <2>3. Recv(c)' = s \o t \o <<u>>
    BY <1>2, <1>4, <2>2 DEF Recv
  <2>4. s \o t \o <<u>> = Append(s \o t, u)
    BY HandedOn
  <2> QED
    BY <1>6, <1>7, <1>8, <2>3, <2>4, Zenon
<1>9. CASE Holder(Dest(f)) # c
  <2>1. InHand(c)' = <<>>
    BY <1>2, <1>5, <1>9 DEF InHand, Holder
  <2>2. Recv(c)' = s \o t \o <<>>
    BY <1>2, <1>4, <2>1 DEF Recv
  <2> QED
    BY <1>6, <1>7, <1>9, <2>2, HandedOn
<1> QED
  BY <1>8, <1>9

\* What is lost was for a client that is gone.
LEMMA WriteLostRecv ==
  ASSUME SelectInv, TidyInv, WriteLost, NEW c \in Guests
  PROVE  \/ Recv(c)' = Recv(c)
         \/ /\ guest[c] = "dead" /\ Recv(c)' \in Seq(Units)
            /\ \E u \in Units : Recv(c) = Append(Recv(c)', u)
<1> USE DEF loopVars, sockVars, guestVars
<1>1. RelayTypeOK
  BY DEF SelectInv
<1>2. buf' = <<>> /\ UNCHANGED <<conn, got, down, guest>>
  BY DEF WriteLost
<1>3. InHand(c)' = <<>>
  BY <1>2 DEF InHand
<1>4. CASE InHand(c) = <<>>
  BY <1>2, <1>3, <1>4 DEF Recv
<1>5. CASE InHand(c) # <<>>
  <2>1. buf # <<>> /\ buf[2] \in Fds /\ conn[buf[2]] = c /\ InHand(c) = <<buf[1]>>
    BY <1>5 DEF InHand
  <2>2. Target = c /\ Target # Nobody
    BY <2>1, FdNumbers DEF Target
  <2>3. guest[c] = "dead"
    BY <2>2 DEF WriteLost, SelectInv, GuestInv
  <2>4. PICK s \in Seq(Units), t \in Seq(Units), u \in Units :
          s = got[c] /\ t = down[c] /\ u = buf[1]
    BY <1>1, <2>1, RecvParts DEF RelayTypeOK
  <2>5. Recv(c) = s \o t \o <<u>>
    BY <2>1, <2>4 DEF Recv
  <2>6. Recv(c)' = s \o t \o <<>>
    BY <1>2, <1>3, <2>4 DEF Recv
  <2>7. s \o t \in Seq(Units)
    BY ConcatProperties
  <2>8. Recv(c)' = s \o t /\ Recv(c) = Append(s \o t, u)
    BY <2>5, <2>6, HandedOn, ZenonT(40)
  <2>9. Recv(c)' \in Seq(Units) /\ Recv(c) = Append(Recv(c)', u)
    BY <2>7, <2>8, Zenon
  <2> QED
    BY <2>3, <2>9
<1> QED
  BY <1>4, <1>5

\* Nobody becomes new again, and a relay's client stays new until it is asked
\* for its role.
LEMMA NewKept ==
  ASSUME SelectInv, RelayNext, NEW c \in Guests
  PROVE  /\ New(c)' => New(c)
         /\ New(c) /\ relaying /\ ~((ReadRole \/ ReadNoRole) /\ conn[clnt_sock] = c) => New(c)'
<1> USE DEF loopVars, sockVars, guestVars
<1>1. RelayTypeOK /\ FdInv /\ CrowdInv
  BY DEF SelectInv
<1>2. CASE AcceptGuest
  <2>1. PICK f \in Fds : clnt_sock' = f /\ conn' = [conn EXCEPT ![f] = Head(pending)]
    BY <1>2 DEF AcceptGuest
  <2>2. /\ selPc = "scan" /\ selPc' = (IF relaying THEN "role" ELSE "scan")
        /\ pending # <<>> /\ pending \in Seq(Guests) /\ pending' = Tail(pending)
        /\ UNCHANGED <<relaying, guest>>
    BY <1>1, <1>2 DEF AcceptGuest, Sees, FdInv, RelayTypeOK
  <2>3. conn'[clnt_sock'] = Head(pending)
    BY <1>1, <2>1 DEF RelayTypeOK
  <2>4. /\ Len(pending) \in Nat \ {0} /\ DOMAIN pending = 1 .. Len(pending)
        /\ Len(pending') = Len(pending) - 1 /\ DOMAIN pending' = 1 .. Len(pending')
        /\ Head(pending) = pending[1]
        /\ \A i \in 1 .. Len(pending') : pending'[i] = pending[i + 1]
    BY <2>2, EmptySeq, LenProperties, HeadTailProperties
  <2>5. /\ \A i \in DOMAIN pending' : i + 1 \in DOMAIN pending /\ pending'[i] = pending[i + 1]
        /\ \A i \in DOMAIN pending : i # 1 => i - 1 \in DOMAIN pending' /\ pending'[i - 1] = pending[i]
    BY <2>4
  <2>6. pending[1] = c => New(c) /\ (relaying => New(c)')
    BY <2>2, <2>3, <2>4 DEF New
  <2>7. pending[1] # c => /\ New(c)' => New(c)
                          /\ New(c) => New(c)'
    <3> HAVE pending[1] # c
    <3>1. (\E i \in DOMAIN pending' : pending'[i] = c) <=> \E i \in DOMAIN pending : pending[i] = c
      BY <2>5
    <3>2. conn'[clnt_sock'] # c
      BY <2>3, <2>4
    <3> QED
      BY <2>2, <3>1, <3>2 DEF New
  <2> QED
    BY <2>6, <2>7
<1>3. CASE \E d \in Guests : ConnectGuest(d)
  <2>1. PICK d \in Guests : ConnectGuest(d)
    BY <1>3
  <2>2. /\ guest[d] = "start" /\ pending' = Append(pending, d) /\ pending \in Seq(Guests)
        /\ \A e \in Guests : e # d => guest'[e] = guest[e]
        /\ UNCHANGED <<selPc, clnt_sock, conn>>
    BY <1>1, <2>1 DEF ConnectGuest, RelayTypeOK
  <2>3. /\ Len(pending) \in Nat /\ DOMAIN pending = 1 .. Len(pending)
        /\ DOMAIN pending' = 1 .. Len(pending) + 1
        /\ pending'[Len(pending) + 1] = d
        /\ \A i \in DOMAIN pending : pending'[i] = pending[i]
    BY <2>2, LenProperties, AppendProperties, ElementOfSeq
  <2>4. /\ \A i \in DOMAIN pending' : i \in DOMAIN pending \/ pending'[i] = d
        /\ \A i \in DOMAIN pending : i \in DOMAIN pending'
        /\ \E i \in DOMAIN pending' : pending'[i] = d
    BY <2>3
  <2>5. CASE c = d
    BY <2>2, <2>4, <2>5 DEF New
  <2>6. CASE c # d
    BY <2>2, <2>3, <2>4, <2>6 DEF New
  <2> QED
    BY <2>5, <2>6
<1>4. CASE ReadRole \/ ReadNoRole
  <2>1. /\ UNCHANGED <<pending, guest, conn, clnt_sock>> /\ selPc' = "scan" /\ selPc = "role"
    BY <1>4 DEF ReadRole, ReadNoRole
  <2> QED
    BY <1>4, <2>1 DEF New
<1>5. CASE \E f \in Fds : ReadEnd(f)
  <2>1. /\ UNCHANGED <<pending, guest, selPc>> /\ selPc = "scan"
    BY <1>5 DEF ReadEnd, Sees
  <2> QED
    BY <2>1 DEF New
<1>6. CASE \E d \in Guests : GuestStep(d) \/ Leave(d)
  <2>1. PICK d \in Guests : GuestStep(d) \/ Leave(d)
    BY <1>6
  <2>2. /\ UNCHANGED <<pending, conn, selPc, clnt_sock>>
        /\ guest[d] # "start" /\ guest'[d] # "start"
        /\ \A e \in Guests : e # d => guest'[e] = guest[e]
    BY <1>1, <2>1 DEF GuestStep, SayRole, TakeBlock, WriteBlock, TakeUnit, Leave, RelayTypeOK
  <2>3. guest'[c] = "start" <=> guest[c] = "start"
    BY <2>2
  <2> QED
    BY <2>2, <2>3 DEF New
<1>7. CASE \/ Select \/ ScanOver \/ Ignore
           \/ \E f \in Fds : ReadUnit(f) \/ ReadError(f)
           \/ WriteUnit \/ WriteLost \/ WriteKilled
  <2>1. UNCHANGED <<conn, pending, guest>> /\ selPc # "role" /\ selPc' # "role"
    BY <1>7 DEF Select, ScanOver, Ignore, ReadUnit, ReadError,
                WriteUnit, WriteLost, WriteKilled, Sees
  <2> QED
    BY <2>1 DEF New
<1> QED
  BY <1>2, <1>3, <1>4, <1>5, <1>6, <1>7 DEF RelayNext, RelayStep

\* Who is connected and has been asked is not new.
LEMMA ConnectedKnown ==
  ASSUME SelectInv, NEW f \in Fds, conn[f] # Nobody
  PROVE  /\ conn[f] \in Guests
         /\ New(conn[f]) <=> selPc = "role" /\ clnt_sock = f
<1>1. RelayTypeOK /\ FdInv /\ CrowdInv
  BY DEF SelectInv
<1>2. conn[f] \in Guests
  BY <1>1 DEF RelayTypeOK
<1>3. guest[conn[f]] # "start" /\ \A i \in DOMAIN pending : pending[i] # conn[f]
  BY <1>1 DEF CrowdInv
<1>4. selPc = "role" /\ conn[clnt_sock] = conn[f] => clnt_sock = f
  BY <1>1 DEF CrowdInv, FdInv
<1> QED
  BY <1>2, <1>3, <1>4 DEF New

\* The ends of the relay are clients, or nobody.
LEMMA Ends ==
  ASSUME SelectInv, NEW sock \in Fds \cup {NoSocket}
  PROVE  /\ Holder(sock) \in Guests \cup {Nobody}
         /\ Holder(sock) # Nobody => sock \in Fds /\ conn[sock] = Holder(sock)
BY DEF Holder, SelectInv, RelayTypeOK

\* But when a role is read, whoever is at a descriptor of the relay stays, goes,
\* or is new.
LEMMA HoldersKept ==
  ASSUME SelectInv, RelayNext, ~ReadRole, NEW sock \in {sender_sock, receiver_sock}
  PROVE  /\ UNCHANGED sockVars
         /\ \/ Holder(sock)' = Holder(sock)
            \/ Holder(sock)' = Nobody /\ (relaying => \E f \in Fds : ReadEnd(f))
            \/ /\ Holder(sock) = Nobody /\ AcceptGuest
               /\ \E c \in Guests : Holder(sock)' = c /\ New(c) /\ (relaying => New(c)')
<1> USE DEF loopVars, sockVars, guestVars
<1>1. RelayTypeOK /\ FdInv /\ CrowdInv
  BY DEF SelectInv
<1>2. UNCHANGED sockVars
  BY DEF RelayNext, RelayStep, GuestStep, Select, ScanOver, AcceptGuest, ReadNoRole,
         Ignore, ReadUnit, ReadEnd, ReadError, WriteUnit, WriteLost, WriteKilled, ConnectGuest,
         SayRole, TakeBlock, WriteBlock, TakeUnit, Leave
<1>3. CASE AcceptGuest
  <2>1. PICK f \in Fds : /\ SmallestFree(f) /\ clnt_sock' = f
                         /\ conn' = [conn EXCEPT ![f] = Head(pending)]
    BY <1>3 DEF AcceptGuest
  <2>2. /\ selPc' = (IF relaying THEN "role" ELSE "scan")
        /\ pending # <<>> /\ pending \in Seq(Guests)
    BY <1>1, <1>3 DEF AcceptGuest, Sees, FdInv, RelayTypeOK
  <2>3. /\ Head(pending) = pending[1] /\ 1 \in DOMAIN pending /\ Head(pending) \in Guests
    BY <2>2, EmptySeq, LenProperties, HeadTailProperties
  <2>4. New(Head(pending))
    BY <2>3 DEF New
  <2>5. \A g \in Fds : conn'[g] = IF g = f THEN Head(pending) ELSE conn[g]
    BY <1>1, <2>1 DEF RelayTypeOK
  <2>6. PICK h \in Guests : h = Head(pending)
    BY <2>3
  <2>7. relaying => New(h)'
    BY <2>1, <2>2, <2>5, <2>6 DEF New
  <2>8. CASE sock = f
    <3>1. Holder(sock) = Nobody /\ Holder(sock)' = h
      BY <1>2, <2>1, <2>5, <2>6, <2>8 DEF Holder, SmallestFree
    <3> QED
      BY <1>2, <1>3, <2>4, <2>6, <2>7, <3>1
  <2>9. CASE sock # f
    BY <1>2, <2>5, <2>9 DEF Holder
  <2> QED
    BY <2>8, <2>9
<1>4. CASE \E f \in Fds : ReadEnd(f)
  <2>1. PICK f \in Fds : ReadEnd(f)
    BY <1>4
  <2>2. \A g \in Fds : conn'[g] = IF g = f THEN Nobody ELSE conn[g]
    BY <1>1, <2>1 DEF ReadEnd, RelayTypeOK
  <2> QED
    BY <1>2, <2>1, <2>2 DEF Holder
<1>5. CASE ~(AcceptGuest \/ \E f \in Fds : ReadEnd(f))
  <2>1. UNCHANGED conn
    BY <1>5 DEF RelayNext, RelayStep, GuestStep, Select, ScanOver, ReadNoRole,
         Ignore, ReadUnit, ReadError, WriteUnit, WriteLost, WriteKilled, ConnectGuest,
         SayRole, TakeBlock, WriteBlock, TakeUnit, Leave
  <2> QED
    BY <1>2, <2>1 DEF Holder
<1> QED
  BY <1>3, <1>4, <1>5

\* c is the client whose role is read.
RoleOf(c) ==
  /\ c = conn[clnt_sock] /\ New(c) /\ ~New(c)' /\ relaying
  /\ selPc = "role" /\ buf = <<>> /\ buf' = <<>>
  /\ up[c] # <<>> /\ role[c] \in Roles /\ guest[c] \notin {"start", "role"}
  /\ \E rest \in {2, 3} : up'[c] = SubSeq(up[c], rest, Len(up[c]))
  /\ \A d \in Guests : d # c => up'[d] = up[d] /\ (New(d)' <=> New(d))
  /\ role[c] = "Sender" => /\ SenderEnd' = c /\ receiver_sock' = receiver_sock
                           /\ ReceiverEnd' = ReceiverEnd /\ sender_sock' # NoSocket
  /\ role[c] = "Receiver" => /\ ReceiverEnd' = c /\ sender_sock' = sender_sock
                             /\ SenderEnd' = SenderEnd /\ receiver_sock' # NoSocket
  /\ UNCHANGED <<loopVars, buf, peer, down, guestVars>>

\* Reading a role comes to that.
LEMMA ReadRoleEffect ==
  ASSUME SelectInv, TidyInv, ReadRole
  PROVE  \E c \in Guests : RoleOf(c)
<1> USE DEF loopVars, sockVars, guestVars
<1>1. RelayTypeOK /\ FdInv /\ CrowdInv /\ UpInv
  BY DEF SelectInv
<1>2. clnt_sock \in Fds /\ conn[clnt_sock] \in Guests /\ relaying
  BY RoleReader DEF ReadRole
<1>3. PICK c \in Guests : c = conn[clnt_sock]
  BY <1>2
<1>4. /\ selPc = "role" /\ selPc' = "scan" /\ up[c] # <<>>
      /\ \E rest \in {2, 3} : up' = [up EXCEPT ![c] = SubSeq(@, rest, Len(@))]
      /\ UNCHANGED <<loopVars, buf, peer, down, guestVars>>
  BY <1>3 DEF ReadRole
<1>5. buf = <<>> /\ buf' = <<>>
  BY <1>4 DEF TidyInv
<1>6. New(c)
  BY <1>3, <1>4 DEF New
<1>7. /\ guest[c] # "start" /\ \A i \in DOMAIN pending : pending[i] # c
  BY <1>1, <1>2, <1>3, FdNumbers DEF CrowdInv
<1>8. ~New(c)'
  BY <1>4, <1>7 DEF New
<1>9. guest[c] # "role" /\ role[c] \in Roles
  <2>1. guest[c] # "role"
    BY <1>1, <1>4 DEF UpInv
  <2> QED
    BY <1>1, <1>2, <1>7, <2>1 DEF TidyInv, RelayTypeOK
<1>10. /\ \E rest \in {2, 3} : up'[c] = SubSeq(up[c], rest, Len(up[c]))
       /\ \A d \in Guests : d # c => up'[d] = up[d]
  BY <1>1, <1>4 DEF RelayTypeOK
<1>11. \A d \in Guests : d # c => (New(d)' <=> New(d))
  BY <1>3, <1>4 DEF New
<1>12. role[c] = "Sender" => /\ SenderEnd' = c /\ receiver_sock' = receiver_sock
                             /\ ReceiverEnd' = ReceiverEnd /\ sender_sock' # NoSocket
  BY <1>2, <1>3, <1>4, FdNumbers DEF ReadRole, Says, SenderEnd, ReceiverEnd, Holder
<1>13. role[c] = "Receiver" => /\ ReceiverEnd' = c /\ sender_sock' = sender_sock
                               /\ SenderEnd' = SenderEnd /\ receiver_sock' # NoSocket
  BY <1>2, <1>3, <1>4, FdNumbers DEF ReadRole, Says, SenderEnd, ReceiverEnd, Holder
<1> QED
  BY <1>2, <1>3, <1>4, <1>5, <1>6, <1>7, <1>8, <1>9, <1>10, <1>11, <1>12, <1>13 DEF RoleOf

\* The steps of the server leave the clients as they are, those of the clients the server.
LEMMA ServerOnly ==
  ASSUME RelayStep
  PROVE  UNCHANGED guestVars
BY DEF RelayStep, Select, ScanOver, AcceptGuest, ReadRole, ReadNoRole,
       Ignore, ReadUnit, ReadEnd, ReadError, WriteUnit, WriteLost, WriteKilled, loopVars

\* A client's step changes nothing in the server.
LEMMA GuestsOnly ==
  ASSUME NEW c \in Guests, ConnectGuest(c) \/ GuestStep(c) \/ Leave(c)
  PROVE  /\ UNCHANGED <<selPc, relaying, reads, cpy_reads, conn, atSelect, clnt_sock, sockVars, buf>>
         /\ UNCHANGED <<SenderEnd, ReceiverEnd>>
<1>1. UNCHANGED <<selPc, relaying, reads, cpy_reads, conn, atSelect, clnt_sock, sockVars, buf>>
  BY DEF ConnectGuest, GuestStep, SayRole, TakeBlock, WriteBlock, TakeUnit, Leave, loopVars
<1> QED
  BY <1>1 DEF SenderEnd, ReceiverEnd, Holder, sockVars

\* The server's kernel knows of everybody who is gone.
LEMMA PeersKnown ==
  ASSUME SelectInv, TidyInv, RelayNext, NEW c \in Guests, guest'[c] = "dead"
  PROVE  peer'[c] # "open"
<1> USE DEF loopVars, sockVars, guestVars
<1>1. RelayTypeOK /\ (guest[c] = "dead" => peer[c] # "open")
  BY DEF SelectInv, TidyInv
<1>2. CASE ReadNoRole \/ \E f \in Fds : ReadError(f)
  <2>1. guest[c] = "dead"
    BY <1>2 DEF ReadNoRole, ReadError
  <2> QED
    BY <1>1, <1>2, <2>1 DEF ReadNoRole, ReadError, RelayTypeOK
<1>3. CASE WriteLost
  <2>1. guest[c] = "dead"
    BY <1>3 DEF WriteLost
  <2>2. CASE UNCHANGED peer
    BY <1>1, <2>1, <2>2
  <2>3. CASE \E p \in AfterWrite(peer[Target]) :
                peer[Target] # "open" /\ peer' = [peer EXCEPT ![Target] = p]
    <3>1. PICK p \in AfterWrite(peer[Target]) :
                 peer[Target] # "open" /\ peer' = [peer EXCEPT ![Target] = p]
      BY <2>3
    <3>2. p # "open"
      BY <3>1 DEF AfterWrite
    <3> QED
      BY <1>1, <2>1, <3>1, <3>2 DEF RelayTypeOK
  <2> QED
    BY <1>3, <2>2, <2>3 DEF WriteLost
<1>4. CASE \E d \in Guests : Leave(d)
  <2>1. PICK d \in Guests : Leave(d)
    BY <1>4
  <2>2. PICK p \in AfterClose(down[d] # <<>>) : peer' = [peer EXCEPT ![d] = p]
    BY <2>1 DEF Leave
  <2>3. p # "open"
    BY DEF AfterClose
  <2>4. CASE c = d
    BY <1>1, <2>2, <2>3, <2>4 DEF RelayTypeOK
  <2>5. CASE c # d
    BY <1>1, <2>1, <2>2, <2>5 DEF Leave, RelayTypeOK
  <2> QED
    BY <2>4, <2>5
<1>5. CASE \E d \in Guests : ConnectGuest(d) \/ GuestStep(d)
  <2>1. PICK d \in Guests : ConnectGuest(d) \/ GuestStep(d)
    BY <1>5
  <2>2. peer' = peer /\ guest'[d] # "dead" /\ \A e \in Guests : e # d => guest'[e] = guest[e]
    BY <1>1, <2>1 DEF ConnectGuest, GuestStep, SayRole, TakeBlock, WriteBlock, TakeUnit, RelayTypeOK
  <2> QED
    BY <1>1, <2>2
<1>6. CASE \/ Select \/ ScanOver \/ AcceptGuest \/ ReadRole \/ Ignore
           \/ \E f \in Fds : ReadUnit(f) \/ ReadEnd(f)
           \/ WriteUnit \/ WriteKilled
  <2>1. UNCHANGED <<peer, guest>>
    BY <1>6 DEF Select, ScanOver, AcceptGuest, ReadRole, Ignore, ReadUnit, ReadEnd,
                WriteUnit, WriteKilled
  <2> QED
    BY <1>1, <2>1
<1> QED
  BY <1>2, <1>3, <1>4, <1>5, <1>6 DEF RelayNext, RelayStep

\* A client has a role from when it connects, and has read nothing before it said it.
LEMMA RolesKept ==
  ASSUME SelectInv, TidyInv, RelayNext, NEW c \in Guests
  PROVE  /\ guest'[c] = "start" <=> role'[c] = "none"
         /\ role'[c] \in Roles => relaying'
         /\ role'[c] = "Echo" => ~relaying'
         /\ guest'[c] \in {"start", "role"} => next'[c] = 0
<1>1. /\ RelayTypeOK /\ relaying' = relaying
      /\ guest[c] = "start" <=> role[c] = "none"
      /\ role[c] \in Roles => relaying
      /\ role[c] = "Echo" => ~relaying
      /\ guest[c] \in {"start", "role"} => next[c] = 0
  BY NextRelayTypes DEF SelectInv, TidyInv
<1>2. CASE RelayStep
  BY <1>1, <1>2, ServerOnly DEF guestVars
<1>3. CASE ConnectGuest(c)
  <2>1. PICK r \in IF relaying THEN Roles ELSE {"Echo"} : role' = [role EXCEPT ![c] = r]
    BY <1>3 DEF ConnectGuest
  <2>2. role'[c] = r /\ guest[c] = "start" /\ guest'[c] \in {"role", "select"} /\ next' = next
    BY <1>1, <1>3, <2>1 DEF ConnectGuest, RelayTypeOK
  <2> QED
    BY <1>1, <2>1, <2>2 DEF Roles
<1>4. CASE GuestStep(c) \/ Leave(c)
  <2>1. /\ role' = role /\ guest[c] # "start" /\ guest'[c] \notin {"start", "role"}
    BY <1>1, <1>4 DEF GuestStep, SayRole, TakeBlock, WriteBlock, TakeUnit, Leave, RelayTypeOK
  <2> QED
    BY <1>1, <2>1
<1>5. ASSUME NEW d \in Guests, d # c, ConnectGuest(d) \/ GuestStep(d) \/ Leave(d)
      PROVE  guest'[c] = guest[c] /\ role'[c] = role[c] /\ next'[c] = next[c]
  BY <1>1, <1>5 DEF ConnectGuest, GuestStep, SayRole, TakeBlock, WriteBlock, TakeUnit, Leave,
                    RelayTypeOK
<1> QED
  BY <1>1, <1>2, <1>3, <1>4, <1>5 DEF RelayNext

\* Nobody receives anything before the server has asked for its role.
LEMMA NewStaysEmpty ==
  ASSUME SelectInv, TidyInv, RelayNext, NEW c \in Guests, New(c)'
  PROVE  got'[c] = <<>> /\ down'[c] = <<>>
<1> USE DEF loopVars, sockVars, guestVars
<1>1. RelayTypeOK /\ New(c) /\ got[c] = <<>> /\ down[c] = <<>>
  BY NewKept DEF SelectInv, TidyInv
<1>2. CASE WriteUnit
  <2>1. buf[2] \in Fds /\ conn[buf[2]] = Target /\ Target # Nobody
    BY <1>2 DEF WriteUnit, Target
  <2>2. ~New(Target)
    BY <1>2, <2>1, ConnectedKnown DEF WriteUnit
  <2>3. down'[c] = down[c] /\ got' = got
    BY <1>1, <1>2, <2>2 DEF WriteUnit, RelayTypeOK
  <2> QED
    BY <1>1, <2>3
<1>3. CASE \E d \in Guests : TakeUnit(d)
  <2>1. PICK d \in Guests : TakeUnit(d)
    BY <1>3
  <2>2. d # c /\ got'[c] = got[c] /\ down'[c] = down[c]
    BY <1>1, <2>1 DEF TakeUnit, RelayTypeOK
  <2> QED
    BY <1>1, <2>2
<1>4. CASE ~(WriteUnit \/ \E d \in Guests : TakeUnit(d))
  <2>1. UNCHANGED <<got, down>>
    BY <1>4 DEF RelayNext, RelayStep, GuestStep, Select, ScanOver, AcceptGuest, ReadRole, ReadNoRole,
         Ignore, ReadUnit, ReadEnd, ReadError, WriteLost, WriteKilled, ConnectGuest,
         SayRole, TakeBlock, WriteBlock, Leave
  <2> QED
    BY <1>1, <2>1
<1> QED
  BY <1>2, <1>3, <1>4

\* Who has not said its role is new.
LEMMA SilentIsNew ==
  ASSUME SelectInv, TidyInv, RelayNext, NEW c \in Guests, guest'[c] = "role"
  PROVE  New(c)'
<1> USE DEF loopVars, sockVars, guestVars
<1>1. RelayTypeOK
  BY DEF SelectInv
<1>2. CASE ConnectGuest(c)
  <2>1. New(c) /\ relaying /\ selPc' = selPc /\ guest[c] = "start"
    BY <1>1, <1>2 DEF ConnectGuest, New, RelayTypeOK
  <2>2. ~((ReadRole \/ ReadNoRole) /\ conn[clnt_sock] = c)
    BY <1>2, <2>1 DEF ConnectGuest, ReadRole, ReadNoRole
  <2> QED
    BY <2>1, <2>2, NewKept
<1>3. CASE ~ConnectGuest(c)
  <2>1. guest[c] = "role"
    <3>1. CASE RelayStep
      BY <3>1, ServerOnly
    <3>2. ASSUME NEW d \in Guests, ConnectGuest(d) \/ GuestStep(d) \/ Leave(d) PROVE guest[c] = "role"
      BY <1>1, <1>3, <3>2 DEF ConnectGuest, GuestStep, SayRole, TakeBlock, WriteBlock, TakeUnit,
                              Leave, RelayTypeOK
    <3> QED
      BY <3>1, <3>2 DEF RelayNext
  <2>2. New(c) /\ relaying /\ up[c] = <<>> /\ peer[c] = "open"
    BY <2>1 DEF TidyInv, SelectInv, UpInv, GuestInv
  <2>3. ~((ReadRole \/ ReadNoRole) /\ conn[clnt_sock] = c)
    BY <2>2 DEF ReadRole, ReadNoRole
  <2> QED
    BY <2>2, <2>3, NewKept
<1> QED
  BY <1>2, <1>3

\* Every step keeps the books.
LEMMA NextTidyInv ==
  ASSUME SelectInv, TidyInv, RelayNext
  PROVE  TidyInv'
<1> USE DEF loopVars, sockVars, guestVars
<1>1. RelayTypeOK /\ relaying' = relaying
  BY NextRelayTypes DEF SelectInv
<1>2. selPc' \in {"select", "scan", "role"} => buf' = <<>>
  <2>1. CASE RelayStep
    BY <2>1 DEF TidyInv, RelayStep, Select, ScanOver, AcceptGuest, ReadRole, ReadNoRole, Sees,
         Ignore, ReadUnit, ReadEnd, ReadError, WriteUnit, WriteLost, WriteKilled
  <2>2. CASE ~RelayStep
    BY <2>2, GuestsOnly DEF RelayNext, TidyInv
  <2> QED
    BY <2>1, <2>2
<1>3. ~relaying' => sender_sock' = NoSocket /\ receiver_sock' = NoSocket
  <2>1. CASE ReadRole
    BY <1>1, <2>1, RoleReader DEF ReadRole
  <2>2. CASE ~ReadRole
    <3>1. UNCHANGED sockVars
      BY <2>2, HoldersKept
    <3> QED
      BY <1>1, <3>1 DEF TidyInv
  <2> QED
    BY <2>1, <2>2
<1>4. ASSUME NEW c \in Guests
      PROVE  /\ guest'[c] = "dead" => peer'[c] # "open"
             /\ guest'[c] = "start" <=> role'[c] = "none"
             /\ role'[c] \in Roles => relaying'
             /\ role'[c] = "Echo" => ~relaying'
             /\ guest'[c] \in {"start", "role"} => next'[c] = 0
             /\ New(c)' => got'[c] = <<>> /\ down'[c] = <<>>
             /\ guest'[c] = "role" => New(c)'
  BY PeersKnown, RolesKept, NewStaysEmpty, SilentIsNew
<1> QED
  BY <1>2, <1>3, <1>4 DEF TidyInv

\* q2 is q, or its beginning.
Begins(q2, q) == /\ Len(q2) \in Nat /\ Len(q2) <= Len(q) /\ DOMAIN q2 = 1 .. Len(q2)
                 /\ \A i \in DOMAIN q2 : i \in DOMAIN q /\ q2[i] = q[i]

\* But for what is read, nobody is to receive anything new.
LEMMA NothingNew ==
  ASSUME SelectInv, TidyInv, RelayNext, ~\E f \in Fds : ReadUnit(f), NEW c \in Guests
  PROVE  /\ Begins(Recv(c)', Recv(c))
         /\ guest[c] # "dead" => Recv(c)' = Recv(c)
         /\ ~WriteLost => Recv(c)' = Recv(c)
<1>1. RelayTypeOK
  BY DEF SelectInv
<1>2. Recv(c) \in Seq(Units) /\ Len(Recv(c)) \in Nat /\ DOMAIN Recv(c) = 1 .. Len(Recv(c))
  BY <1>1, RecvParts
<1>3. CASE Recv(c)' = Recv(c)
  BY <1>2, <1>3 DEF Begins
<1>4. CASE WriteLost
  <2>1. CASE \E u \in Units : Recv(c) = Append(Recv(c)', u) /\ Recv(c)' \in Seq(Units) /\ guest[c] = "dead"
    <3>1. PICK u \in Units, p \in Seq(Units) : p = Recv(c)' /\ Recv(c) = Append(p, u)
      BY <2>1
    <3>2. /\ Len(p) \in Nat /\ DOMAIN p = 1 .. Len(p)
          /\ Len(Recv(c)) = Len(p) + 1 /\ \A i \in 1 .. Len(p) : p[i] = Recv(c)[i]
      BY <3>1, LenProperties, AppendProperties
    <3>3. Begins(p, Recv(c))
      BY <1>2, <3>2 DEF Begins
    <3> QED
      BY <1>4, <2>1, <3>1, <3>3
  <2> QED
    BY <1>3, <1>4, <2>1, WriteLostRecv
<1>5. CASE ~WriteLost
  <2>1. Quiet
    BY <1>5 DEF RelayNext, RelayStep, Quiet
  <2> QED
    BY <1>3, <2>1, QuietKeepsRecv
<1> QED
  BY <1>4, <1>5

\* What s has sent so far changes nothing for it when nothing new is to be received.
LEMMA SentStill ==
  ASSUME SelectInv, TidyInv, RelayNext, ~\E f \in Fds : ReadUnit(f),
         NEW s \in Guests, NEW m \in Int, SentBy(s, m),
         NEW n \in Int, m <= n \/ \A c \in Guests : \A i \in DOMAIN Recv(c) : Recv(c)[i].from # s,
         \A i \in DOMAIN up'[s] : up'[s][i] = Unit(s, n + i),
         guest'[s] # "dead" => n + Len(up'[s]) = Sent(s)'
  PROVE  SentBy(s, n)'
<1>1. RelayTypeOK
  BY DEF SelectInv
<1>2. ASSUME NEW c \in Guests, NEW i \in DOMAIN Recv(c)', Recv(c)'[i].from = s
      PROVE  Recv(c)'[i].n <= n
  <2>1. i \in DOMAIN Recv(c) /\ Recv(c)'[i] = Recv(c)[i]
    BY <1>2, NothingNew DEF Begins
  <2>2. Recv(c)[i] \in Units /\ Recv(c)[i].n <= m
    BY <1>1, <1>2, <2>1, RecvParts DEF SentBy
  <2>3. m <= n /\ Recv(c)[i].n \in Int
    BY <1>2, <2>1, <2>2, RelayAssumption DEF Units
  <2> QED
    BY <2>1, <2>2, <2>3
<1> QED
  BY <1>2 DEF SentBy

\* What a client sends counts from its role unit, or from its first unit if it has no role.
LEMMA SentStarts ==
  ASSUME SelectInv, TidyInv, NEW c \in Guests, ConnectGuest(c), NEW m \in Int, SentBy(c, m),
         role'[c] # "Receiver"
  PROVE  \E n \in Int : n = (IF relaying THEN -1 ELSE 0) /\ SentBy(c, n)'
<1> USE DEF loopVars, sockVars, guestVars
<1>1. RelayTypeOK /\ guest[c] = "start" /\ up[c] = <<>> /\ next[c] = 0
  BY DEF SelectInv, TidyInv, UpInv, ConnectGuest
<1>2. /\ up' = up /\ next' = next
      /\ guest'[c] = (IF relaying THEN "role" ELSE "select")
  BY <1>1 DEF ConnectGuest, RelayTypeOK
<1>3. m = 0
  <2>1. Owed(c) = 0 /\ Sent(c) = 0
    <3>1. Owed(c) = 0
      BY <1>1 DEF Owed
    <3> QED
      BY <1>1, <3>1 DEF Sent
  <2>2. Len(up[c]) = 0
    BY <1>1
  <2>3. m + Len(up[c]) = Sent(c)
    BY <1>1 DEF SentBy
  <2> QED
    BY <2>1, <2>2, <2>3
<1>4. \A d \in Guests : \A i \in DOMAIN Recv(d) : Recv(d)[i].from # c
  <2> SUFFICES ASSUME NEW d \in Guests, NEW i \in DOMAIN Recv(d), Recv(d)[i].from = c
               PROVE  FALSE
    OBVIOUS
  <2>1. Recv(d)[i] \in Units
    BY <1>1, RecvParts
  <2>2. Recv(d)[i].n <= 0
    BY <1>3 DEF SentBy
  <2> QED
    BY <2>1, <2>2, RelayAssumption DEF Units
<1>5. PICK n \in Int : n = IF relaying THEN -1 ELSE 0
  OBVIOUS
<1>6. Sent(c)' = n
  BY <1>1, <1>2, <1>5 DEF Sent, Owed
<1>7. DOMAIN up'[c] = {} /\ Len(up'[c]) = 0
  BY <1>1, <1>2
<1>8. \A i \in DOMAIN up'[c] : up'[c][i] = Unit(c, n + i)
  BY <1>7
<1>9. n + Len(up'[c]) = Sent(c)'
  BY <1>6, <1>7
<1>10. RelayNext /\ ~\E f \in Fds : ReadUnit(f)
  <2>1. guest'[c] # guest[c]
    BY <1>1, <1>2
  <2> QED
    BY <2>1 DEF RelayNext, ReadUnit
<1>11. SentBy(c, n)'
  BY <1>4, <1>8, <1>9, <1>10, SentStill
<1> QED
  BY <1>5, <1>11

\* A client's step is no read() of the server.
LEMMA NotARead ==
  ASSUME SelectInv, NEW c \in Guests, ConnectGuest(c) \/ GuestStep(c) \/ Leave(c)
  PROVE  RelayNext /\ ~\E f \in Fds : ReadUnit(f)
<1>1. UNCHANGED <<selPc, cpy_reads>>
  BY GuestsOnly
<1> QED
  BY <1>1 DEF RelayNext, ReadUnit, Sees

\* What the client's own steps do to what it has sent.
LEMMA SentByGuest ==
  ASSUME SelectInv, TidyInv, NEW c \in Guests, GuestStep(c) \/ Leave(c),
         NEW m \in Int, SentBy(c, m), role[c] # "Receiver"
  PROVE  SentBy(c, m)'
<1> USE DEF loopVars, sockVars, guestVars
<1>1. RelayTypeOK /\ guest[c] # "dead" /\ m + Len(up[c]) = Sent(c)
  BY DEF SelectInv, GuestStep, SayRole, TakeBlock, WriteBlock, TakeUnit, Leave, SentBy
<1>2. /\ up[c] \in Seq([from : Guests, n : 0 .. UNITS]) /\ Len(up[c]) \in Nat
      /\ DOMAIN up[c] = 1 .. Len(up[c]) /\ next[c] \in 0 .. UNITS /\ next[c] \in Int
  <2>1. next[c] \in 0 .. UNITS
    BY <1>1 DEF RelayTypeOK
  <2>2. next[c] \in Int
    BY <2>1, RelayAssumption
  <2> QED
    BY <1>1, <2>1, <2>2, UnitsUp
<1>3. RelayNext /\ ~\E f \in Fds : ReadUnit(f)
  BY NotARead
<1>4. ASSUME UNCHANGED up, guest'[c] # "dead" => Sent(c)' = Sent(c)
      PROVE  SentBy(c, m)'
  <2>1. m <= m /\ \A i \in DOMAIN up'[c] : up'[c][i] = Unit(c, m + i)
    BY <1>4 DEF SentBy
  <2>2. guest'[c] # "dead" => m + Len(up'[c]) = Sent(c)'
    BY <1>1, <1>4
  <2> QED
    BY <1>3, <2>1, <2>2, SentStill
<1>5. ASSUME NEW u \in [from : Guests, n : 0 .. UNITS], u = Unit(c, m + Len(up[c]) + 1), Send(c, u),
             Sent(c)' = Sent(c) + 1
      PROVE  SentBy(c, m)'
  <2>1. up'[c] = Append(up[c], u)
    BY <1>1, <1>5 DEF Send, RelayTypeOK
  <2>2. /\ Len(up'[c]) = Len(up[c]) + 1
        /\ DOMAIN up'[c] = 1 .. Len(up[c]) + 1
        /\ up'[c][Len(up[c]) + 1] = u
        /\ \A i \in DOMAIN up[c] : up'[c][i] = up[c][i]
    BY <1>2, <2>1, LenProperties, AppendProperties
  <2>3. \A i \in DOMAIN up'[c] : up'[c][i] = Unit(c, m + i)
    <3> TAKE i \in DOMAIN up'[c]
    <3>1. CASE i \in DOMAIN up[c]
      BY <2>2, <3>1 DEF SentBy
    <3>2. CASE i = Len(up[c]) + 1
      <4>1. m + i = m + Len(up[c]) + 1
        BY <1>2, <3>2
      <4> QED
        BY <1>5, <2>2, <3>2, <4>1
    <3> QED
      BY <1>2, <2>2, <3>1, <3>2
  <2>4. m + Len(up'[c]) = Sent(c)'
    BY <1>1, <1>2, <1>5, <2>2
  <2> QED
    BY <1>3, <2>3, <2>4, SentStill
<1>6. CASE SayRole(c)
  <2>1. /\ guest[c] = "role" /\ guest'[c] = "select" /\ next' = next /\ Send(c, Unit(c, 0))
    BY <1>1, <1>6 DEF SayRole, RelayTypeOK
  <2>2. next[c] = 0
    BY <2>1 DEF TidyInv
  <2>3. Owed(c) = 1 /\ Owed(c)' = 0
    BY <2>1 DEF Owed
  <2>4. Sent(c) = -1 /\ Sent(c)' = 0 /\ Sent(c)' = Sent(c) + 1
    BY <2>1, <2>2, <2>3 DEF Sent
  <2>5. m + Len(up[c]) + 1 = 0
    BY <1>1, <1>2, <2>4
  <2>6. Unit(c, 0) \in [from : Guests, n : 0 .. UNITS]
    BY RelayAssumption DEF Unit
  <2>7. Unit(c, 0) = Unit(c, m + Len(up[c]) + 1)
    BY <2>5
  <2> QED
    BY <1>5, <2>1, <2>4, <2>6, <2>7
<1>7. CASE TakeBlock(c)
  <2>1. /\ guest[c] = "select" /\ guest'[c] \in {"write", "writeRead"} /\ up' = up
        /\ next'[c] = next[c] + 1
    BY <1>1, <1>7 DEF TakeBlock, RelayTypeOK
  <2>2. Sent(c)' = Sent(c)
    BY <1>2, <2>1 DEF Sent, Owed
  <2> QED
    BY <1>4, <2>1, <2>2
<1>8. CASE WriteBlock(c)
  <2>1. /\ guest[c] \in {"write", "writeRead"} /\ guest'[c] \in {"read", "select"}
        /\ next' = next /\ Send(c, Unit(c, next[c]))
    BY <1>1, <1>8 DEF WriteBlock, RelayTypeOK
  <2>2. Sent(c) = next[c] - 1 /\ Sent(c)' = next[c]
    BY <1>2, <2>1 DEF Sent, Owed
  <2>3. m + Len(up[c]) + 1 = next[c]
    BY <1>1, <1>2, <2>2, SMTT(30)
  <2>4. PICK u \in [from : Guests, n : 0 .. UNITS] : u = Unit(c, next[c])
    BY <1>2 DEF Unit
  <2>5. Sent(c)' = Sent(c) + 1
    BY <1>2, <2>2
  <2> QED
    BY <1>5, <2>1, <2>3, <2>4, <2>5
<1>9. CASE TakeUnit(c)
  <2>1. /\ guest[c] \in {"read", "select"} /\ guest'[c] = "select" /\ up' = up
        /\ next' = next
    BY <1>1, <1>9 DEF TakeUnit, RelayTypeOK
  <2>2. Sent(c)' = Sent(c)
    BY <1>2, <2>1 DEF Sent, Owed
  <2> QED
    BY <1>4, <2>1, <2>2
<1>10. CASE Leave(c)
  <2>1. guest'[c] = "dead" /\ up' = up
    BY <1>1, <1>10 DEF Leave, RelayTypeOK
  <2> QED
    BY <1>4, <2>1
<1> QED
  BY <1>6, <1>7, <1>8, <1>9, <1>10 DEF GuestStep

\* The server takes the role, and what has come of the first block.
LEMMA SentRole ==
  ASSUME SelectInv, TidyInv, NEW c \in Guests, ReadRole, RoleOf(c), NEW m \in Int, SentBy(c, m)
  PROVE  \E n \in Int : SentBy(c, n)'
<1> USE DEF loopVars, sockVars, guestVars
<1>1. /\ RelayTypeOK /\ UNCHANGED <<guest, next>>
      /\ up[c] # <<>>
  BY DEF SelectInv, RoleOf
<1>9. PICK rest \in {2, 3} : up'[c] = SubSeq(up[c], rest, Len(up[c]))
  BY DEF RoleOf
<1>2. /\ up[c] \in Seq([from : Guests, n : 0 .. UNITS]) /\ Len(up[c]) \in Nat
      /\ DOMAIN up[c] = 1 .. Len(up[c]) /\ Len(up[c]) # 0
      /\ \A i \in 1 .. Len(up[c]) : up[c][i] \in [from : Guests, n : 0 .. UNITS]
  BY <1>1, UnitsUp, ElementOfSeq, EmptySeq
<1>3. /\ up'[c] \in Seq([from : Guests, n : 0 .. UNITS])
      /\ Len(up'[c]) = (IF rest <= Len(up[c]) THEN Len(up[c]) - rest + 1 ELSE 0)
      /\ \A i \in 1 .. Len(up[c]) - rest + 1 : up'[c][i] = up[c][rest + i - 1]
  <2>1. /\ rest \in Int /\ Len(up[c]) \in Int
        /\ \A i \in rest .. Len(up[c]) : up[c][i] \in [from : Guests, n : 0 .. UNITS]
    BY <1>2, <1>9
  <2> QED
    BY <1>9, <2>1, SubSeqProperties
<1>4. DOMAIN up'[c] = 1 .. Len(up'[c]) /\ Len(up'[c]) \in Nat
  BY <1>3, LenProperties
<1>5. PICK n \in Int : n = m + (Len(up[c]) - Len(up'[c]))
  <2>1. PICK j \in Nat, k \in Nat : j = Len(up[c]) /\ k = Len(up'[c])
    BY <1>2, <1>4
  <2>2. m + (j - k) \in Int
    OBVIOUS
  <2> QED
    BY <2>1, <2>2
<1>6. /\ m <= n /\ n + Len(up'[c]) = m + Len(up[c])
      /\ rest <= Len(up[c]) => n = m + rest - 1
  <2>1. PICK j \in Nat, k \in Nat : j = Len(up[c]) /\ k = Len(up'[c])
    BY <1>2, <1>4
  <2>2. /\ j # 0 /\ k = (IF rest <= j THEN j - rest + 1 ELSE 0) /\ n = m + (j - k)
        /\ rest \in {2, 3}
    BY <1>2, <1>3, <1>5, <1>9, <2>1
  <2>3. m <= n /\ n + k = m + j /\ (rest <= j => n = m + rest - 1)
    BY <2>2
  <2> QED
    BY <2>1, <2>3
<1>7. \A i \in DOMAIN up'[c] : up'[c][i] = Unit(c, n + i)
  <2> TAKE i \in DOMAIN up'[c]
  <2>1. /\ rest <= Len(up[c]) /\ Len(up'[c]) = Len(up[c]) - rest + 1
        /\ i \in 1 .. Len(up[c]) - rest + 1
    BY <1>2, <1>3, <1>4, <1>9
  <2>4. rest + i - 1 \in DOMAIN up[c]
    BY <1>2, <1>9, <2>1, SMTT(30)
  <2>2. up'[c][i] = Unit(c, m + (rest + i - 1))
    BY <1>3, <2>1, <2>4 DEF SentBy
  <2>3. m + (rest + i - 1) = n + i
    BY <1>6, <1>9, <2>1
  <2> QED
    BY <2>2, <2>3
<1>8. guest'[c] # "dead" => n + Len(up'[c]) = Sent(c)'
  BY <1>1, <1>6 DEF SentBy, Sent, Owed
<1>10. RelayNext /\ ~\E f \in Fds : ReadUnit(f)
  BY DEF RelayNext, RelayStep, RoleOf, ReadUnit, Sees
<1> QED
  BY <1>6, <1>7, <1>8, <1>10, SentStill

\* Whom what the server reads from f is for.
Other(f) == Holder(Dest(f))

\* q2 is q and then u.
Lengthens(q2, q, u) ==
  /\ Len(q2) = Len(q) + 1 /\ DOMAIN q2 = 1 .. Len(q) + 1
  /\ q2[Len(q) + 1] = u
  /\ \A i \in 1 .. Len(q) : q2[i] = q[i]

\* The server reads u from client q at descriptor f.
Reads(f, q, u) ==
  /\ q = conn[f] /\ q \in Guests /\ ~New(q)
  /\ u \in Units /\ u = up[q][1] /\ buf = <<>> /\ selPc = "scan"
  /\ Len(up[q]) \in Nat \ {0} /\ DOMAIN up[q] = 1 .. Len(up[q])
  /\ Len(up'[q]) = Len(up[q]) - 1 /\ DOMAIN up'[q] = 1 .. Len(up[q]) - 1
  /\ \A i \in 1 .. Len(up[q]) - 1 : up'[q][i] = up[q][i + 1]
  /\ \A d \in Guests : d # q => up'[d] = up[d]
  /\ \A c \in Guests : IF c = Other(f) THEN Lengthens(Recv(c)', Recv(c), u) ELSE Recv(c)' = Recv(c)
  /\ relaying => \/ f = sender_sock /\ q = SenderEnd /\ Other(f) = ReceiverEnd
                 \/ /\ f = receiver_sock /\ f # sender_sock
                    /\ q = ReceiverEnd /\ Other(f) = SenderEnd
  /\ ~relaying => Other(f) = q
  /\ \A c \in Guests : New(c)' <=> New(c)
  /\ UNCHANGED <<SenderEnd, ReceiverEnd, sockVars, relaying, down, guestVars>>

\* Reading a unit that is passed on or dropped comes to that.
LEMMA ReadUnitEffect ==
  ASSUME SelectInv, TidyInv, NEW f \in Fds, ReadUnit(f)
  PROVE  \E q \in Guests, u \in Units : Reads(f, q, u)
<1> USE DEF loopVars, guestVars
<1>1. RelayTypeOK
  BY DEF SelectInv
<1>2. conn[f] \in Guests /\ selPc = "scan" /\ conn[f] # Nobody
  BY Scanned, FdNumbers DEF ReadUnit
<1>3. PICK q \in Guests : q = conn[f]
  BY <1>2
<1>4. /\ up[q] # <<>> /\ up' = [up EXCEPT ![q] = Tail(@)] /\ selPc' = "write"
      /\ buf' = <<Head(up[q]), Dest(f)>> /\ ~Ignores(f)
      /\ UNCHANGED <<relaying, pending, conn, clnt_sock, sockVars, down, guestVars>>
  BY <1>3 DEF ReadUnit
<1>5. RelayTypeOK'
  BY ReadTypes
<1>6. PICK u \in Units : u = Head(up[q])
  BY <1>4, <1>5 DEF RelayTypeOK
<1>7. ~New(q)
  BY <1>2, <1>3, ConnectedKnown
<1>8. buf = <<>>
  BY <1>2 DEF TidyInv
<1>9. /\ Len(up[q]) \in Nat \ {0} /\ DOMAIN up[q] = 1 .. Len(up[q])
      /\ Len(up'[q]) = Len(up[q]) - 1 /\ DOMAIN up'[q] = 1 .. Len(up[q]) - 1
      /\ \A i \in 1 .. Len(up[q]) - 1 : up'[q][i] = up[q][i + 1]
      /\ u = up[q][1]
  <2>1. /\ up[q] \in Seq([from : Guests, n : 0 .. UNITS])
        /\ DOMAIN up[q] = 1 .. Len(up[q])
    BY <1>1, UnitsUp
  <2>2. up'[q] = Tail(up[q])
    BY <1>1, <1>4 DEF RelayTypeOK
  <2>3. /\ Tail(up[q]) \in Seq([from : Guests, n : 0 .. UNITS])
        /\ Len(Tail(up[q])) = Len(up[q]) - 1
        /\ \A i \in 1 .. Len(Tail(up[q])) : Tail(up[q])[i] = up[q][i + 1]
        /\ Len(up[q]) \in Nat \ {0}
    BY <1>4, <2>1, HeadTailProperties, EmptySeq
  <2>4. DOMAIN Tail(up[q]) = 1 .. Len(Tail(up[q]))
    BY <2>3, LenProperties
  <2>5. u = up[q][1]
    BY <1>6, <2>1
  <2> QED
    BY <2>1, <2>2, <2>3, <2>4, <2>5
<1>10. \A d \in Guests : d # q => up'[d] = up[d]
  BY <1>1, <1>4 DEF RelayTypeOK
<1>11. ASSUME NEW c \in Guests
       PROVE  IF c = Other(f) THEN Lengthens(Recv(c)', Recv(c), u) ELSE Recv(c)' = Recv(c)
  <2>1. Recv(c)' = IF Holder(Dest(f)) = c THEN Append(Recv(c), u) ELSE Recv(c)
    BY <1>3, <1>6, ReadUnitRecv
  <2>2. PICK p \in Seq(Units) : p = Recv(c)
    BY <1>1, RecvParts
  <2>3. Lengthens(Append(p, u), p, u)
    <3>1. Append(p, u) \in Seq(Units)
      BY AppendProperties
    <3> QED
      BY <3>1, LenProperties, AppendProperties DEF Lengthens
  <2> QED
    BY <2>1, <2>2, <2>3 DEF Other
<1>12. relaying => \/ f = sender_sock /\ q = SenderEnd /\ Other(f) = ReceiverEnd
                   \/ /\ f = receiver_sock /\ f # sender_sock
                      /\ q = ReceiverEnd /\ Other(f) = SenderEnd
  BY <1>3, <1>4 DEF Ignores, Other, Dest, SenderEnd, ReceiverEnd, Holder
<1>13. ~relaying => Other(f) = q
  BY <1>3 DEF Other, Dest, Holder
<1>14. \A c \in Guests : New(c)' <=> New(c)
  BY <1>2, <1>4 DEF New
<1>15. UNCHANGED <<SenderEnd, ReceiverEnd, sockVars, relaying, down, guestVars>>
  BY <1>4 DEF SenderEnd, ReceiverEnd, Holder, sockVars
<1>16. Reads(f, q, u)
  BY <1>2, <1>3, <1>7, <1>8, <1>9, <1>10, <1>11, <1>12, <1>13, <1>14, <1>15 DEF Reads
<1> QED
  BY <1>16

\* It is the next that a Sender or an echo client sent,
LEMMA ReadFromSender ==
  ASSUME NEW f, NEW q \in Guests, NEW u \in Units, Reads(f, q, u), NEW m \in Int, SentBy(q, m)
  PROVE  u = Unit(q, m + 1)
BY DEF Reads, SentBy

\* or the next that a Receiver returns.
LEMMA ReadFromReceiver ==
  ASSUME SelectInv, NEW f, NEW q \in Guests, NEW u \in Units, Reads(f, q, u), NEW k \in Nat, ReturnedBy(q, k)
  PROVE  /\ k + 1 \in DOMAIN got[q] /\ k + 1 \in DOMAIN Recv(q)
         /\ u = got[q][k + 1] /\ u = Recv(q)[k + 1]
<1>1. /\ Len(got[q]) \in Nat /\ DOMAIN got[q] = 1 .. Len(got[q])
      /\ DOMAIN Recv(q) = 1 .. Len(Recv(q)) /\ Len(Recv(q)) \in Nat
      /\ Len(got[q]) <= Len(Recv(q))
      /\ \A i \in 1 .. Len(got[q]) : Recv(q)[i] = got[q][i]
  BY RecvParts DEF SelectInv
<1>2. /\ Len(up[q]) \in Nat \ {0} /\ 1 \in DOMAIN up[q] /\ u = up[q][1]
  BY DEF Reads
<1>3. u = got[q][k + 1] /\ k + Len(up[q]) <= Len(got[q])
  BY <1>2 DEF ReturnedBy, Returned
<1> QED
  BY <1>1, <1>2, <1>3

\* What the server reads of it is among what q has received or q's own.
LEMMA ReadFrom ==
  ASSUME SelectInv, SendInv, ReturnInv, NEW f, NEW q \in Guests, NEW u \in Units, Reads(f, q, u)
  PROVE  \/ role[q] # "Receiver" /\ \E m \in Int : SentBy(q, m) /\ u = Unit(q, m + 1)
         \/ role[q] = "Receiver" /\ \E k \in Nat :
              /\ ReturnedBy(q, k) /\ k + 1 \in DOMAIN got[q] /\ k + 1 \in DOMAIN Recv(q)
              /\ u = got[q][k + 1] /\ u = Recv(q)[k + 1]
<1>1. CASE role[q] # "Receiver"
  BY <1>1, ReadFromSender DEF SendInv
<1>2. CASE role[q] = "Receiver"
  <2>1. ~New(q)
    BY DEF Reads
  <2>2. PICK k \in Nat : ReturnedBy(q, k)
    BY <1>2, <2>1 DEF ReturnInv
  <2> QED
    BY <1>2, <2>2, ReadFromReceiver
<1> QED
  BY <1>1, <1>2

\* The server takes the next unit that s sent, or one of another client.
LEMMA SentRead ==
  ASSUME SelectInv, SendInv, ReturnInv, NEW f, NEW q \in Guests, NEW u \in Units, Reads(f, q, u),
         NEW s \in Guests, role[s] # "Receiver"
  PROVE  \E n \in Int : SentBy(s, n)'
<1>1. PICK m \in Int : SentBy(s, m)
  BY DEF SendInv
<1>2. UNCHANGED <<guest, next>>
  BY DEF Reads, guestVars
<1>3. \A c \in Guests : Len(Recv(c)) \in Nat /\ DOMAIN Recv(c) = 1 .. Len(Recv(c))
                        /\ \A i \in DOMAIN Recv(c) : Recv(c)[i].n \in Int
  <2> TAKE c \in Guests
  <2>1. /\ Len(Recv(c)) \in Nat /\ DOMAIN Recv(c) = 1 .. Len(Recv(c))
        /\ \A i \in 1 .. Len(Recv(c)) : Recv(c)[i] \in Units
    BY RecvParts DEF SelectInv
  <2> QED
    BY <2>1, RelayAssumption DEF Units
<1>4. ASSUME NEW n \in Int, m <= n, u.from = s => u.n <= n
      PROVE  \A c \in Guests : \A i \in DOMAIN Recv(c)' :
               Recv(c)'[i].from = s => Recv(c)'[i].n <= n
  <2> SUFFICES ASSUME NEW c \in Guests, NEW i \in DOMAIN Recv(c)', Recv(c)'[i].from = s
               PROVE  Recv(c)'[i].n <= n
    OBVIOUS
  <2>1. \/ Recv(c)'[i] = u
        \/ i \in DOMAIN Recv(c) /\ Recv(c)'[i] = Recv(c)[i]
    <3>1. CASE c = Other(f)
      <4>1. Lengthens(Recv(c)', Recv(c), u)
        BY <3>1 DEF Reads
      <4>2. i \in 1 .. Len(Recv(c)) + 1
        BY <4>1 DEF Lengthens
      <4>3. i = Len(Recv(c)) + 1 \/ i \in 1 .. Len(Recv(c))
        BY <1>3, <4>2
      <4> QED
        BY <1>3, <4>1, <4>3 DEF Lengthens
    <3>2. CASE c # Other(f)
      BY <3>2 DEF Reads
    <3> QED
      BY <3>1, <3>2
  <2>2. CASE Recv(c)'[i] = u
    BY <1>4, <2>2
  <2>3. CASE i \in DOMAIN Recv(c) /\ Recv(c)'[i] = Recv(c)[i]
    <3>1. Recv(c)[i].n <= m /\ Recv(c)[i].n \in Int
      BY <1>1, <1>3, <2>3 DEF SentBy
    <3> QED
      BY <1>4, <2>3, <3>1
  <2> QED
    BY <2>1, <2>2, <2>3
<1>5. CASE s = q
  <2>1. u = Unit(q, m + 1)
    BY <1>1, <1>5, ReadFromSender
  <2>2. u.n <= m + 1
    BY <2>1 DEF Unit
  <2>3. \A i \in DOMAIN up'[s] : up'[s][i] = Unit(s, (m + 1) + i)
    <3> TAKE i \in DOMAIN up'[s]
    <3>1. i \in 1 .. Len(up[s]) - 1 /\ Len(up[s]) \in Nat /\ up'[s][i] = up[s][i + 1]
      BY <1>5 DEF Reads
    <3>2. i + 1 \in DOMAIN up[s]
      BY <1>5, <3>1 DEF Reads
    <3>3. up[s][i + 1] = Unit(s, m + (i + 1))
      BY <1>1, <3>2 DEF SentBy
    <3>4. m + (i + 1) = (m + 1) + i
      BY <3>1
    <3> QED
      BY <3>1, <3>3, <3>4
  <2>4. guest'[s] # "dead" => (m + 1) + Len(up'[s]) = Sent(s)'
    <3>1. guest[s] # "dead" => m + Len(up[s]) = Sent(s)
      BY <1>1 DEF SentBy
    <3>2. Len(up'[s]) = Len(up[s]) - 1 /\ Len(up[s]) \in Nat
      BY <1>5 DEF Reads
    <3>3. Sent(s)' = Sent(s)
      BY <1>2 DEF Sent, Owed
    <3>4. (m + 1) + Len(up'[s]) = m + Len(up[s])
      <4>1. PICK j \in Nat : j = Len(up[s])
        BY <3>2
      <4>2. (m + 1) + (j - 1) = m + j
        OBVIOUS
      <4> QED
        BY <3>2, <4>1, <4>2
    <3> QED
      BY <1>2, <3>1, <3>3, <3>4
  <2>5. \A c \in Guests : \A i \in DOMAIN Recv(c)' :
               Recv(c)'[i].from = s => Recv(c)'[i].n <= m + 1
    BY <1>4, <2>2
  <2>6. SentBy(s, m + 1)'
    BY <2>3, <2>4, <2>5 DEF SentBy
  <2> QED
    BY <2>6
<1>6. CASE s # q
  <2>1. u.from = s => u.n <= m
    <3>1. CASE \E n \in Int : u = Unit(q, n + 1)
      BY <1>6, <3>1 DEF Unit
    <3>2. CASE \E k \in Nat : k + 1 \in DOMAIN Recv(q) /\ u = Recv(q)[k + 1]
      BY <1>1, <3>2 DEF SentBy
    <3> QED
      BY <3>1, <3>2, ReadFrom
  <2>2. \A c \in Guests : \A i \in DOMAIN Recv(c)' :
               Recv(c)'[i].from = s => Recv(c)'[i].n <= m
    BY <1>4, <2>1
  <2>3. up'[s] = up[s]
    BY <1>6 DEF Reads
  <2>4. Sent(s)' = Sent(s)
    BY <1>2 DEF Sent, Owed
  <2>5. SentBy(s, m)'
    BY <1>1, <1>2, <2>2, <2>3, <2>4 DEF SentBy
  <2> QED
    BY <2>5
<1> QED
  BY <1>5, <1>6

\* Nothing else changes what the server has taken.
LEMMA SentStays ==
  ASSUME SelectInv, TidyInv, RelayNext, ~ReadRole, ~\E f \in Fds : ReadUnit(f),
         NEW s \in Guests, ~ConnectGuest(s), role[s] # "Receiver", NEW m \in Int, SentBy(s, m)
  PROVE  SentBy(s, m)'
<1> USE DEF loopVars, sockVars, guestVars
<1>1. RelayTypeOK
  BY DEF SelectInv
<1>2. CASE GuestStep(s) \/ Leave(s)
  BY <1>2, SentByGuest
<1>3. CASE ~(GuestStep(s) \/ Leave(s))
  <2>1. up'[s] = up[s] /\ guest'[s] = guest[s] /\ next'[s] = next[s]
    <3>1. CASE RelayStep
      <4>1. UNCHANGED up
        BY <3>1 DEF RelayStep, Select, ScanOver, AcceptGuest, ReadNoRole,
           Ignore, ReadEnd, ReadError, WriteUnit, WriteLost, WriteKilled
      <4> QED
        BY <3>1, <4>1, ServerOnly
    <3>2. ASSUME NEW c \in Guests, ConnectGuest(c) \/ GuestStep(c) \/ Leave(c)
          PROVE  up'[s] = up[s] /\ guest'[s] = guest[s] /\ next'[s] = next[s]
      <4>1. c # s
        BY <1>3, <3>2
      <4> QED
        BY <1>1, <3>2, <4>1 DEF ConnectGuest, GuestStep, SayRole, TakeBlock, WriteBlock, TakeUnit,
                                Leave, Send, RelayTypeOK
    <3> QED
      BY <3>1, <3>2 DEF RelayNext
  <2>2. m <= m /\ \A i \in DOMAIN up'[s] : up'[s][i] = Unit(s, m + i)
    BY <2>1 DEF SentBy
  <2>3. guest'[s] # "dead" => m + Len(up'[s]) = Sent(s)'
    BY <2>1 DEF SentBy, Sent, Owed
  <2> QED
    BY <2>2, <2>3, SentStill
<1> QED
  BY <1>2, <1>3

\* What clients send comes in order, from none of it twice.
LEMMA NextSendInv ==
  ASSUME SelectInv, TidyInv, SendInv, ReturnInv, RelayNext
  PROVE  SendInv'
<1> USE DEF loopVars, sockVars, guestVars
<1>1. RelayTypeOK
  BY DEF SelectInv
<1> SUFFICES ASSUME NEW s \in Guests, role'[s] # "Receiver"
             PROVE  \E n \in Int : SentBy(s, n)'
  BY DEF SendInv
<1>2. role[s] # "Receiver"
  <2>1. CASE RelayStep
    BY <2>1, ServerOnly
  <2>2. ASSUME NEW c \in Guests, ConnectGuest(c) PROVE role[s] # "Receiver"
    <3>1. role[c] = "none" /\ \A d \in Guests : d # c => role'[d] = role[d]
      BY <1>1, <2>2 DEF ConnectGuest, TidyInv, RelayTypeOK
    <3> QED
      BY <3>1
  <2>3. ASSUME NEW c \in Guests, GuestStep(c) \/ Leave(c) PROVE role[s] # "Receiver"
    BY <2>3 DEF GuestStep, SayRole, TakeBlock, WriteBlock, TakeUnit, Leave
  <2> QED
    BY <2>1, <2>2, <2>3 DEF RelayNext
<1>3. PICK m \in Int : SentBy(s, m)
  BY <1>2 DEF SendInv
<1>4. CASE \E f \in Fds : ReadUnit(f)
  BY <1>2, <1>4, ReadUnitEffect, SentRead
<1>5. CASE ReadRole
  <2>1. PICK c \in Guests : RoleOf(c)
    BY <1>5, ReadRoleEffect
  <2>2. CASE s = c
    BY <1>3, <1>5, <2>1, <2>2, SentRole
  <2>3. CASE s # c
    <3>1. up'[s] = up[s] /\ guest' = guest /\ next' = next /\ selPc = "role"
      BY <2>1, <2>3 DEF RoleOf
    <3>2. ~\E f \in Fds : ReadUnit(f)
      BY <3>1 DEF ReadUnit, Sees
    <3>3. m <= m /\ \A i \in DOMAIN up'[s] : up'[s][i] = Unit(s, m + i)
      BY <1>3, <3>1 DEF SentBy
    <3>4. guest'[s] # "dead" => m + Len(up'[s]) = Sent(s)'
      BY <1>3, <3>1 DEF SentBy, Sent, Owed
    <3>5. SentBy(s, m)'
      BY <1>3, <3>2, <3>3, <3>4, SentStill
    <3> QED
      BY <3>5
  <2> QED
    BY <2>2, <2>3
<1>6. CASE ConnectGuest(s)
  BY <1>3, <1>6, SentStarts
<1>7. CASE ~(ReadRole \/ ConnectGuest(s) \/ \E f \in Fds : ReadUnit(f))
  <2>1. SentBy(s, m)'
    BY <1>2, <1>3, <1>7, SentStays
  <2> QED
    BY <2>1
<1> QED
  BY <1>4, <1>5, <1>6, <1>7

\* Sequences that only lose their last stay in order.
LEMMA AheadKept ==
  ASSUME NEW x, NEW k, NEW y, Ahead(x, k, y),
         Begins(Recv(x)', Recv(x)), Begins(Recv(y)', Recv(y))
  PROVE  Ahead(x, k, y)'
BY DEF Ahead, Begins

\* Who is at a descriptor keeps its role.
LEMMA ConnectedRole ==
  ASSUME SelectInv, TidyInv, RelayNext, NEW c \in Guests, guest[c] # "start"
  PROVE  role'[c] = role[c] /\ guest'[c] # "start"
<1>1. RelayTypeOK
  BY DEF SelectInv
<1>2. CASE RelayStep
  BY <1>2, ServerOnly DEF guestVars
<1>3. ASSUME NEW d \in Guests, ConnectGuest(d) \/ GuestStep(d) \/ Leave(d)
      PROVE  role'[c] = role[c] /\ guest'[c] # "start"
  BY <1>1, <1>3 DEF ConnectGuest, GuestStep, SayRole, TakeBlock, WriteBlock, TakeUnit, Leave, RelayTypeOK
<1> QED
  BY <1>2, <1>3 DEF RelayNext

\* A new client's descriptor is empty for the step in which it is accepted.
LEMMA NewReceivesNothingYet ==
  ASSUME SelectInv, TidyInv, RelayNext, NEW c \in Guests, New(c), ~\E f \in Fds : ReadUnit(f)
  PROVE  DOMAIN Recv(c)' = {}
<1>1. Recv(c) = <<>>
  BY NewReceivesNothing
<1>2. Begins(Recv(c)', Recv(c))
  BY NothingNew
<1> QED
  BY <1>1, <1>2 DEF Begins

\* But when a role is read, an end stays, goes, or is new.
LEMMA EndsKept ==
  ASSUME SelectInv, RelayNext, ~ReadRole
  PROVE  /\ UNCHANGED sockVars
         /\ \/ SenderEnd' = SenderEnd
            \/ SenderEnd' = Nobody /\ (relaying => \E f \in Fds : ReadEnd(f))
            \/ /\ SenderEnd = Nobody /\ AcceptGuest
               /\ \E c \in Guests : SenderEnd' = c /\ New(c) /\ (relaying => New(c)')
         /\ \/ ReceiverEnd' = ReceiverEnd
            \/ ReceiverEnd' = Nobody /\ (relaying => \E f \in Fds : ReadEnd(f))
            \/ /\ ReceiverEnd = Nobody /\ AcceptGuest
               /\ \E c \in Guests : ReceiverEnd' = c /\ New(c) /\ (relaying => New(c)')
<1>1. PICK s \in {sender_sock, receiver_sock}, r \in {sender_sock, receiver_sock} :
        s = sender_sock /\ r = receiver_sock
  OBVIOUS
<1>2. UNCHANGED sockVars
  BY HoldersKept
<1>3. /\ SenderEnd = Holder(s) /\ ReceiverEnd = Holder(r)
      /\ SenderEnd' = Holder(s)' /\ ReceiverEnd' = Holder(r)'
  BY <1>1, <1>2 DEF SenderEnd, ReceiverEnd, Holder, sockVars
<1>4. \/ Holder(s)' = Holder(s)
      \/ Holder(s)' = Nobody /\ (relaying => \E f \in Fds : ReadEnd(f))
      \/ /\ Holder(s) = Nobody /\ AcceptGuest
         /\ \E c \in Guests : Holder(s)' = c /\ New(c) /\ (relaying => New(c)')
  BY HoldersKept
<1>5. \/ Holder(r)' = Holder(r)
      \/ Holder(r)' = Nobody /\ (relaying => \E f \in Fds : ReadEnd(f))
      \/ /\ Holder(r) = Nobody /\ AcceptGuest
         /\ \E c \in Guests : Holder(r)' = c /\ New(c) /\ (relaying => New(c)')
  BY HoldersKept
<1> QED
  BY <1>2, <1>3, <1>4, <1>5, Zenon

\* The Receiver stays ahead of the Sender when nothing is read.
LEMMA AnswersKept ==
  ASSUME SelectInv, TidyInv, RelayNext, ~\E f \in Fds : ReadUnit(f),
         NEW x \in Guests, ~New(x), NEW k \in Nat, ReturnedBy(x, k), Answers(x)'
  PROVE  Ahead(x, k, SenderEnd)'
<1> USE DEF guestVars
<1>1. RelayTypeOK /\ CrowdInv
  BY DEF SelectInv
<1>2. \A c \in Guests : Begins(Recv(c)', Recv(c))
  BY NothingNew
<1>3. CASE ReadRole
  <2>1. PICK c \in Guests : RoleOf(c)
    BY <1>3, ReadRoleEffect
  <2>2. CASE role[c] = "Receiver"
    BY <2>1, <2>2 DEF RoleOf, Answers
  <2>3. CASE role[c] = "Sender"
    <3>1. SenderEnd' = c /\ New(c)
      BY <2>1, <2>3 DEF RoleOf
    <3>2. DOMAIN Recv(c)' = {}
      BY <3>1, NewReceivesNothingYet
    <3> QED
      BY <3>1, <3>2 DEF Ahead
  <2> QED
    BY <2>1, <2>2, <2>3 DEF RoleOf, Roles
<1>4. CASE ~ReadRole
  <2>1. ReceiverEnd' = x /\ SenderEnd' # Nobody /\ role'[SenderEnd'] = "Sender"
    BY DEF Answers
  <2>2. ReceiverEnd = x
    <3>1. ReceiverEnd' = ReceiverEnd \/ ReceiverEnd' = Nobody \/ \E c \in Guests : ReceiverEnd' = c /\ New(c)
      BY <1>4, EndsKept
    <3> QED
      BY <2>1, <3>1, FdNumbers
  <2>3. CASE SenderEnd' = SenderEnd
    <3>1. PICK y \in Guests : y = SenderEnd
      BY <1>1, <2>1, <2>3, Ends DEF SenderEnd, RelayTypeOK
    <3>2. guest[y] # "start"
      BY <1>1, <2>1, <2>3, <3>1, Ends DEF SenderEnd, RelayTypeOK, CrowdInv
    <3>3. role[y] = "Sender"
      BY <2>1, <2>3, <3>1, <3>2, ConnectedRole
    <3>4. Ahead(x, k, y)
      BY <2>1, <2>2, <2>3, <3>1, <3>3 DEF ReturnedBy, Answers
    <3>5. Ahead(x, k, y)'
      BY <1>2, <3>4, AheadKept
    <3> QED
      BY <2>3, <3>1, <3>5
  <2>4. CASE \E c \in Guests : SenderEnd' = c /\ New(c)
    <3>1. PICK c \in Guests : SenderEnd' = c /\ New(c)
      BY <2>4
    <3>2. DOMAIN Recv(c)' = {}
      BY <3>1, NewReceivesNothingYet
    <3> QED
      BY <3>1, <3>2 DEF Ahead
  <2> QED
    BY <1>4, <2>1, <2>3, <2>4, EndsKept
<1> QED
  BY <1>3, <1>4

\* What x itself does to what it returned.
LEMMA ReturnedByGuest ==
  ASSUME SelectInv, TidyInv, NEW x \in Guests, GuestStep(x) \/ Leave(x),
         role[x] = "Receiver", ~New(x), NEW k \in Nat, Returned(x, k)
  PROVE  Returned(x, k)'
<1> USE DEF loopVars, sockVars, guestVars
<1>1. RelayTypeOK /\ guest[x] # "dead" /\ k + Len(up[x]) + Owed(x) = Len(got[x])
  BY DEF SelectInv, GuestStep, SayRole, TakeBlock, WriteBlock, TakeUnit, Leave, Returned
<1>2. /\ up[x] \in Seq([from : Guests, n : 0 .. UNITS]) /\ Len(up[x]) \in Nat
      /\ DOMAIN up[x] = 1 .. Len(up[x])
      /\ got[x] \in Seq(Units) /\ Len(got[x]) \in Nat /\ DOMAIN got[x] = 1 .. Len(got[x])
  BY <1>1, UnitsUp, RecvParts
<1>3. CASE SayRole(x)
  BY <1>3 DEF SayRole, TidyInv
<1>4. CASE TakeBlock(x)
  BY <1>4 DEF TakeBlock
<1>5. CASE WriteBlock(x)
  <2>1. /\ guest[x] \in {"write", "writeRead"} /\ guest'[x] \in {"read", "select"} /\ got' = got
        /\ Send(x, got[x][Len(got[x])])
    BY <1>1, <1>5 DEF WriteBlock, RelayTypeOK
  <2>2. Owed(x) = 1 /\ Owed(x)' = 0
    BY <2>1 DEF Owed
  <2>3. PICK l \in Nat, g \in Nat : l = Len(up[x]) /\ g = Len(got[x])
    BY <1>2
  <2>4. g = k + l + 1 /\ g \in 1 .. g
    BY <1>1, <2>2, <2>3
  <2>5. PICK u \in [from : Guests, n : 0 .. UNITS] : u = got[x][g]
    <3>1. got[x][g] \in Units
      BY <1>2, <2>3, <2>4, ElementOfSeq
    <3> QED
      BY <3>1 DEF Units
  <2>6. up'[x] = Append(up[x], u)
    BY <1>1, <2>1, <2>3, <2>5 DEF Send, RelayTypeOK
  <2>7. /\ Len(up'[x]) = l + 1 /\ DOMAIN up'[x] = 1 .. l + 1
        /\ up'[x][l + 1] = u
        /\ \A i \in 1 .. l : up'[x][i] = up[x][i]
    BY <1>2, <2>3, <2>6, LenProperties, AppendProperties
  <2>8. \A i \in DOMAIN up'[x] : up'[x][i] = got'[x][k + i]
    <3> TAKE i \in DOMAIN up'[x]
    <3>1. CASE i \in 1 .. l
      BY <1>2, <2>1, <2>3, <2>7, <3>1 DEF Returned
    <3>2. CASE i = l + 1
      <4>1. k + i = g
        BY <2>4, <3>2
      <4> QED
        BY <2>1, <2>5, <2>7, <3>2, <4>1
    <3> QED
      BY <2>7, <3>1, <3>2
  <2>9. k + Len(up'[x]) + 0 = Len(got'[x]) /\ k + Len(up'[x]) <= Len(got'[x])
    <3>1. Len(got'[x]) = g
      BY <2>1, <2>3
    <3>2. Len(up'[x]) = l + 1
      BY <2>7
    <3>3. k + (l + 1) + 0 = g /\ k + (l + 1) <= g
      BY <2>3, <2>4
    <3> QED
      BY <3>1, <3>2, <3>3
  <2> QED
    BY <2>2, <2>8, <2>9 DEF Returned
<1>6. CASE TakeUnit(x)
  <2>1. /\ guest[x] \in {"read", "select"} /\ guest'[x] = "write" /\ up' = up
        /\ down[x] # <<>>
        /\ got'[x] = Append(got[x], Head(down[x]))
    BY <1>1, <1>6 DEF TakeUnit, RelayTypeOK
  <2>2. Owed(x) = 0 /\ Owed(x)' = 1
    BY <2>1 DEF Owed
  <2>3. Head(down[x]) \in Units
    BY <1>1, <2>1, Taken DEF RelayTypeOK
  <2>4. PICK l \in Nat, g \in Nat : l = Len(up[x]) /\ g = Len(got[x]) /\ g = k + l + 0
    BY <1>1, <1>2, <2>2
  <2>5. /\ Len(got'[x]) = g + 1 /\ \A i \in 1 .. g : got'[x][i] = got[x][i]
    BY <1>2, <2>1, <2>3, <2>4, AppendProperties
  <2>6. \A i \in DOMAIN up'[x] : up'[x][i] = got'[x][k + i]
    <3> TAKE i \in DOMAIN up'[x]
    <3>1. i \in DOMAIN up[x] /\ i \in 1 .. l
      BY <1>2, <2>1, <2>4
    <3>2. k + i \in 1 .. g
      BY <2>4, <3>1
    <3> QED
      BY <2>1, <2>5, <3>1, <3>2 DEF Returned
  <2>7. k + l <= g + 1 /\ k + l + 1 = g + 1
    BY <2>4
  <2> QED
    BY <2>1, <2>2, <2>4, <2>5, <2>6, <2>7 DEF Returned
<1>7. CASE Leave(x)
  <2>1. guest'[x] = "dead" /\ up' = up /\ got' = got
    BY <1>1, <1>7 DEF Leave, RelayTypeOK
  <2> QED
    BY <2>1 DEF Returned
<1> QED
  BY <1>3, <1>4, <1>5, <1>6, <1>7 DEF GuestStep

\* What is read for c comes last.
LEMMA ReadLast ==
  ASSUME SelectInv, NEW f, NEW q \in Guests, NEW u \in Units, Reads(f, q, u), NEW c \in Guests
  PROVE  /\ \A i \in DOMAIN Recv(c) : i \in DOMAIN Recv(c)' /\ Recv(c)'[i] = Recv(c)[i]
         /\ \A i \in DOMAIN Recv(c)' : i \in DOMAIN Recv(c) \/ Recv(c)'[i] = u
<1>1. Len(Recv(c)) \in Nat /\ DOMAIN Recv(c) = 1 .. Len(Recv(c))
  BY RecvParts DEF SelectInv
<1>2. CASE c = Other(f)
  <2>1. Lengthens(Recv(c)', Recv(c), u)
    BY <1>2 DEF Reads
  <2>2. PICK n \in Nat : n = Len(Recv(c))
    BY <1>1
  <2>3. DOMAIN Recv(c)' = 1 .. n + 1 /\ DOMAIN Recv(c) = 1 .. n
        /\ Recv(c)'[n + 1] = u /\ \A i \in 1 .. n : Recv(c)'[i] = Recv(c)[i]
    BY <1>1, <2>1, <2>2 DEF Lengthens
  <2> QED
    BY <1>2, <2>2, <2>3
<1>3. CASE c # Other(f)
  BY <1>3 DEF Reads
<1> QED
  BY <1>2, <1>3

\* The server takes the next unit that x returned, or one of another client.
LEMMA ReturnedRead ==
  ASSUME SelectInv, TidyInv, SendInv, ReturnInv, AscendInv,
         NEW f, NEW q \in Guests, NEW u \in Units, Reads(f, q, u),
         NEW x \in Guests, role[x] = "Receiver", ~New(x)
  PROVE  \E k \in Nat : ReturnedBy(x, k)'
<1> USE DEF guestVars, sockVars
<1>1. PICK k \in Nat : ReturnedBy(x, k)
  BY DEF ReturnInv
<1>2. UNCHANGED <<guest, role, next, got, SenderEnd, ReceiverEnd>> /\ relaying
  BY DEF Reads, TidyInv, Roles
<1>3. Owed(x)' = Owed(x)
  BY <1>2 DEF Owed
<1>4. CASE q = x
  <2>1. /\ Len(up[x]) \in Nat \ {0} /\ DOMAIN up[x] = 1 .. Len(up[x])
        /\ Len(up'[x]) = Len(up[x]) - 1 /\ DOMAIN up'[x] = 1 .. Len(up[x]) - 1
        /\ \A i \in 1 .. Len(up[x]) - 1 : up'[x][i] = up[x][i + 1]
    BY <1>4 DEF Reads
  <2>2. PICK l \in Nat : l = Len(up[x])
    BY <2>1
  <2>3. (k + 1) + Len(up'[x]) = k + l
    <3>1. (k + 1) + (l - 1) = k + l
      OBVIOUS
    <3> QED
      BY <2>1, <2>2, <3>1
  <2>4. \A i \in DOMAIN up'[x] : up'[x][i] = got'[x][(k + 1) + i]
    <3> TAKE i \in DOMAIN up'[x]
    <3>1. i + 1 \in 1 .. l /\ i \in 1 .. l - 1 /\ k + (i + 1) = (k + 1) + i
      BY <2>1, <2>2
    <3> QED
      BY <1>1, <1>2, <2>1, <2>2, <3>1 DEF ReturnedBy, Returned
  <2>5. Returned(x, k + 1)'
    BY <1>1, <1>2, <1>3, <2>2, <2>3, <2>4 DEF ReturnedBy, Returned
  <2>6. ASSUME Answers(x) PROVE Ahead(x, k + 1, SenderEnd)'
    <3>1. PICK y \in Guests : y = SenderEnd /\ role[y] = "Sender" /\ x = ReceiverEnd
      BY <2>6, Ends DEF Answers, SenderEnd, SelectInv, RelayTypeOK
    <3>2. Other(f) = y
      BY <1>2, <1>4, <3>1 DEF Reads
    <3>3. /\ k + 1 \in DOMAIN Recv(x) /\ u = Recv(x)[k + 1]
      BY <1>1, <1>4, ReadFromReceiver
    <3>4. Ahead(x, k, y)
      BY <1>1, <2>6, <3>1 DEF ReturnedBy
    <3>5. /\ Recv(x)' = Recv(x) /\ DOMAIN Recv(x) \subseteq Nat
      BY <3>1, <3>2, RecvParts DEF Reads, SelectInv
    <3>7. \A j \in DOMAIN Recv(y)' : j \in DOMAIN Recv(y) \/ Recv(y)'[j] = u
      BY ReadLast
    <3>6. Ahead(x, k + 1, y)'
      <4> SUFFICES ASSUME NEW i \in DOMAIN Recv(x), NEW j \in DOMAIN Recv(y)',
                          i > k + 1, Recv(x)[i].from = Recv(y)'[j].from
                   PROVE  Recv(y)'[j].n < Recv(x)[i].n
        BY <3>5 DEF Ahead
      <4>3. j \in DOMAIN Recv(y) \/ Recv(y)'[j] = u
        BY <3>7
      <4>1. CASE j \in DOMAIN Recv(y)
        <5>1. Recv(y)'[j] = Recv(y)[j]
          BY <4>1, ReadLast
        <5>2. i > k
          BY <3>5
        <5> QED
          BY <3>4, <4>1, <5>1, <5>2 DEF Ahead
      <4>2. CASE Recv(y)'[j] = u
        BY <3>3, <3>5, <4>2 DEF AscendInv, Ascending
      <4> QED
        BY <4>1, <4>2, <4>3
    <3> QED
      BY <1>2, <3>1, <3>6
  <2>7. Answers(x)' => Answers(x)
    BY <1>2 DEF Answers
  <2> QED
    BY <2>5, <2>6, <2>7 DEF ReturnedBy
<1>5. CASE q # x
  <2>1. up'[x] = up[x]
    BY <1>5 DEF Reads
  <2>2. Returned(x, k)'
    BY <1>1, <1>2, <1>3, <2>1 DEF ReturnedBy, Returned
  <2>3. ASSUME Answers(x) PROVE Ahead(x, k, SenderEnd)'
    <3>1. PICK y \in Guests : y = SenderEnd /\ role[y] = "Sender" /\ x = ReceiverEnd
      BY <2>3, Ends DEF Answers, SenderEnd, SelectInv, RelayTypeOK
    <3>2. Other(f) = x /\ q = y
      BY <1>2, <1>5, <3>1 DEF Reads
    <3>3. PICK m \in Int : SentBy(y, m) /\ u = Unit(y, m + 1)
      BY <3>1, <3>2, ReadFrom
    <3>4. Ahead(x, k, y)
      BY <1>1, <2>3, <3>1 DEF ReturnedBy
    <3>5. Recv(y)' = Recv(y) /\ DOMAIN Recv(y) = 1 .. Len(Recv(y))
          /\ \A i \in 1 .. Len(Recv(y)) : Recv(y)[i] \in Units
      BY <3>1, <3>2, RecvParts DEF Reads, SelectInv
    <3>7. \A i \in DOMAIN Recv(x)' : i \in DOMAIN Recv(x) \/ Recv(x)'[i] = u
      BY ReadLast
    <3>6. Ahead(x, k, y)'
      <4> SUFFICES ASSUME NEW i \in DOMAIN Recv(x)', NEW j \in DOMAIN Recv(y),
                          i > k, Recv(x)'[i].from = Recv(y)[j].from
                   PROVE  Recv(y)[j].n < Recv(x)'[i].n
        BY <3>5 DEF Ahead
      <4>3. i \in DOMAIN Recv(x) \/ Recv(x)'[i] = u
        BY <3>7
      <4>1. CASE i \in DOMAIN Recv(x)
        <5>1. Recv(x)'[i] = Recv(x)[i]
          BY <4>1, ReadLast
        <5> QED
          BY <3>4, <4>1, <5>1 DEF Ahead
      <4>2. CASE Recv(x)'[i] = u
        <5>1. Recv(y)[j].from = y /\ u.n = m + 1
          BY <3>3, <4>2 DEF Unit
        <5>2. Recv(y)[j].n <= m
          BY <3>3, <5>1 DEF SentBy
        <5>3. Recv(y)[j].n \in Int
          BY <3>5, RelayAssumption DEF Units
        <5> QED
          BY <4>2, <5>1, <5>2, <5>3
      <4> QED
        BY <4>1, <4>2, <4>3
    <3> QED
      BY <1>2, <3>1, <3>6
  <2>4. Answers(x)' => Answers(x)
    BY <1>2 DEF Answers
  <2> QED
    BY <2>2, <2>3, <2>4 DEF ReturnedBy
<1> QED
  BY <1>4, <1>5

\* A role is read, or its client was gone: nothing has been returned.
LEMMA ReturnsNothingYet ==
  ASSUME SelectInv, TidyInv, ReturnInv, RelayNext, NEW x \in Guests, role[x] = "Receiver",
         New(x), ~New(x)'
  PROVE  ReturnedBy(x, 0)'
<1> USE DEF loopVars, sockVars, guestVars
<1>1. RelayTypeOK /\ relaying /\ got[x] = <<>> /\ up[x] \in {<<>>, <<Unit(x, 0)>>}
  BY DEF SelectInv, TidyInv, Roles, ReturnInv
<1>2. ReadRole \/ ReadNoRole
  BY <1>1, NewKept
<1>3. ~(\E f \in Fds : ReadUnit(f)) /\ conn[clnt_sock] = x /\ UNCHANGED guestVars
  BY <1>1, <1>2, NewKept DEF ReadRole, ReadNoRole, ReadUnit, Sees
<1>4. up'[x] = <<>>
  <2>1. CASE ReadRole
    <3>1. PICK c \in Guests : RoleOf(c)
      BY <2>1, ReadRoleEffect
    <3>2. c = x /\ up[x] # <<>>
      BY <1>3, <3>1 DEF RoleOf
    <3>3. PICK rest \in {2, 3} : up'[x] = SubSeq(up[x], rest, Len(up[x]))
      BY <3>1, <3>2 DEF RoleOf
    <3>4. Len(up[x]) = 1
      BY <1>1, <3>2
    <3> QED
      BY <3>3, <3>4
  <2>2. CASE ReadNoRole
    BY <1>3, <2>2 DEF ReadNoRole
  <2> QED
    BY <1>2, <2>1, <2>2
<1>5. guest[x] # "dead" => Owed(x) = 0
  <2>1. guest[x] \notin {"write", "writeRead"}
    BY <1>1 DEF SelectInv, GuestInv
  <2>2. CASE ReadRole
    <3>1. up[x] # <<>>
      BY <1>3, <2>2 DEF ReadRole
    <3>2. guest[x] # "role"
      BY <3>1 DEF SelectInv, UpInv
    <3> QED
      BY <2>1, <3>2 DEF Owed
  <2>3. CASE ReadNoRole
    BY <1>3, <2>3 DEF ReadNoRole, SelectInv, GuestInv
  <2> QED
    BY <1>2, <2>2, <2>3
<1>6. Returned(x, 0)'
  <2>1. /\ DOMAIN up'[x] = {} /\ Len(up'[x]) = 0 /\ Len(got'[x]) = 0
    BY <1>1, <1>3, <1>4
  <2>2. guest'[x] # "dead" => Owed(x)' = 0
    BY <1>3, <1>5 DEF Owed
  <2> QED
    BY <2>1, <2>2 DEF Returned
<1>7. Ahead(x, 0, SenderEnd)'
  <2>1. DOMAIN Recv(x)' = {}
    BY <1>3, NewReceivesNothingYet
  <2> QED
    BY <2>1 DEF Ahead
<1> QED
  BY <1>6, <1>7 DEF ReturnedBy

\* A new Receiver has said at most its role.
LEMMA NewSays ==
  ASSUME SelectInv, TidyInv, ReturnInv, RelayNext, NEW x \in Guests, role'[x] = "Receiver", New(x)'
  PROVE  up'[x] \in {<<>>, <<Unit(x, 0)>>}
<1> USE DEF loopVars, sockVars, guestVars
<1>1. RelayTypeOK /\ New(x) /\ got[x] = <<>> /\ relaying
  BY NewKept, RolesKept, NextRelayTypes DEF SelectInv, TidyInv, Roles
<1>2. CASE role[x] # "Receiver"
  <2>1. guest[x] = "start"
    BY <1>2, ConnectedRole
  <2>2. up[x] = <<>>
    BY <2>1 DEF SelectInv, UpInv
  <2>3. up'[x] = up[x]
    <3>1. CASE RelayStep
      BY <1>2, <3>1, ServerOnly
    <3>2. ASSUME NEW d \in Guests, ConnectGuest(d) PROVE up' = up
      BY <3>2 DEF ConnectGuest
    <3>3. ASSUME NEW d \in Guests, GuestStep(d) \/ Leave(d) PROVE role' = role
      BY <3>3 DEF GuestStep, SayRole, TakeBlock, WriteBlock, TakeUnit, Leave
    <3> QED
      BY <1>2, <3>1, <3>2, <3>3 DEF RelayNext
  <2> QED
    BY <2>2, <2>3
<1>3. CASE role[x] = "Receiver"
  <2>1. up[x] \in {<<>>, <<Unit(x, 0)>>}
    BY <1>1, <1>3 DEF ReturnInv
  <2>2. CASE SayRole(x)
    <3>1. up[x] = <<>> /\ up'[x] = Append(up[x], Unit(x, 0))
      BY <1>1, <2>2 DEF SayRole, Send, SelectInv, UpInv, RelayTypeOK
    <3> QED
      BY <3>1
  <2>3. CASE WriteBlock(x)
    BY <1>1, <1>3, <2>3 DEF WriteBlock, SelectInv, GuestInv
  <2>4. CASE \E f \in Fds : ReadUnit(f)
    <3>1. PICK f \in Fds, q \in Guests, u \in Units : Reads(f, q, u)
      BY <2>4, ReadUnitEffect
    <3>2. up'[x] = up[x]
      BY <1>1, <3>1 DEF Reads
    <3> QED
      BY <2>1, <3>2
  <2>5. CASE ReadRole
    <3>1. PICK c \in Guests : RoleOf(c)
      BY <2>5, ReadRoleEffect
    <3>2. up'[x] = up[x]
      BY <3>1 DEF RoleOf
    <3> QED
      BY <2>1, <3>2
  <2>6. CASE ~(SayRole(x) \/ WriteBlock(x) \/ ReadRole \/ \E f \in Fds : ReadUnit(f))
    <3>1. up'[x] = up[x]
      <4>1. CASE RelayStep
        BY <2>6, <4>1 DEF RelayStep, Select, ScanOver, AcceptGuest, ReadNoRole,
         Ignore, ReadEnd, ReadError, WriteUnit, WriteLost, WriteKilled
      <4>2. ASSUME NEW d \in Guests, ConnectGuest(d) \/ GuestStep(d) \/ Leave(d) PROVE up'[x] = up[x]
        BY <1>1, <2>6, <4>2 DEF ConnectGuest, GuestStep, SayRole, TakeBlock, WriteBlock, TakeUnit,
                                Leave, Send, RelayTypeOK
      <4> QED
        BY <4>1, <4>2 DEF RelayNext
    <3> QED
      BY <2>1, <3>1
  <2> QED
    BY <2>2, <2>3, <2>4, <2>5, <2>6
<1> QED
  BY <1>2, <1>3

\* Nothing else changes what the server has taken of it.
LEMMA ReturnedStill ==
  ASSUME SelectInv, TidyInv, RelayNext, ~\E f \in Fds : ReadUnit(f),
         NEW x \in Guests, role[x] = "Receiver", ~New(x), NEW k \in Nat, Returned(x, k)
  PROVE  Returned(x, k)'
<1> USE DEF loopVars, sockVars, guestVars
<1>1. RelayTypeOK /\ guest[x] # "start"
  BY DEF SelectInv, New
<1>2. CASE GuestStep(x) \/ Leave(x)
  BY <1>2, ReturnedByGuest
<1>3. CASE ~(GuestStep(x) \/ Leave(x))
  <2>1. up'[x] = up[x] /\ guest'[x] = guest[x] /\ got'[x] = got[x]
    <3>1. CASE ReadRole
      <4>1. PICK c \in Guests : RoleOf(c)
        BY <3>1, ReadRoleEffect
      <4> QED
        BY <4>1 DEF RoleOf
    <3>2. CASE RelayStep /\ ~ReadRole
      <4>1. UNCHANGED up
        BY <3>2 DEF RelayStep, Select, ScanOver, AcceptGuest, ReadNoRole,
           Ignore, ReadEnd, ReadError, WriteUnit, WriteLost, WriteKilled
      <4> QED
        BY <3>2, <4>1, ServerOnly
    <3>3. ASSUME NEW d \in Guests, ConnectGuest(d) \/ GuestStep(d) \/ Leave(d)
          PROVE  up'[x] = up[x] /\ guest'[x] = guest[x] /\ got'[x] = got[x]
      BY <1>1, <1>3, <3>3, ZenonT(40)
         DEF ConnectGuest, GuestStep, SayRole, TakeBlock, WriteBlock, TakeUnit, Leave,
             Send, RelayTypeOK
    <3> QED
      BY <3>1, <3>2, <3>3 DEF RelayNext
  <2> QED
    BY <2>1 DEF Returned, Owed
<1> QED
  BY <1>2, <1>3

\* A Receiver returns what it has got, and the blocks come back in order.
LEMMA NextReturnInv ==
  ASSUME SelectInv, TidyInv, SendInv, ReturnInv, AscendInv, RelayNext
  PROVE  ReturnInv'
<1> USE DEF loopVars, sockVars, guestVars
<1>1. RelayTypeOK
  BY DEF SelectInv
<1> SUFFICES ASSUME NEW x \in Guests, role'[x] = "Receiver"
             PROVE  \/ New(x)' /\ up'[x] \in {<<>>, <<Unit(x, 0)>>}
                    \/ ~New(x)' /\ \E k \in Nat : ReturnedBy(x, k)'
  BY DEF ReturnInv
<1>2. CASE New(x)'
  BY <1>2, NewSays
<1>3. CASE ~New(x)'
  <2>1. role[x] = "Receiver"
    <3>1. CASE guest[x] = "start"
      <4>1. New(x) /\ role[x] = "none" /\ relaying
        BY <3>1, RolesKept, NextRelayTypes DEF New, TidyInv, Roles, SelectInv
      <4>2. (ReadRole \/ ReadNoRole) /\ UNCHANGED role
        BY <1>3, <4>1, NewKept DEF ReadRole, ReadNoRole
      <4> QED
        BY <4>1, <4>2
    <3> QED
      BY <3>1, ConnectedRole
  <2>2. CASE New(x)
    BY <1>3, <2>1, <2>2, ReturnsNothingYet
  <2>3. CASE ~New(x)
    <3>1. CASE \E f \in Fds : ReadUnit(f)
      <4>1. PICK f \in Fds, q \in Guests, u \in Units : Reads(f, q, u)
        BY <3>1, ReadUnitEffect
      <4> QED
        BY <1>3, <2>1, <2>3, <4>1, ReturnedRead
    <3>2. CASE ~\E f \in Fds : ReadUnit(f)
      <4>1. PICK k \in Nat : ReturnedBy(x, k)
        BY <2>1, <2>3 DEF ReturnInv
      <4>2. Returned(x, k)'
        BY <2>1, <2>3, <3>2, <4>1, ReturnedStill DEF ReturnedBy
      <4>3. Answers(x)' => Ahead(x, k, SenderEnd)'
        BY <2>3, <3>2, <4>1, AnswersKept
      <4> QED
        BY <1>3, <4>2, <4>3 DEF ReturnedBy
    <3> QED
      BY <3>1, <3>2
  <2> QED
    BY <2>2, <2>3
<1> QED
  BY <1>2, <1>3

\* What the server reads comes after all that the other end receives from the
\* same client.
LEMMA ReadIsLater ==
  ASSUME SelectInv, TidyInv, SendInv, ReturnInv, StaleInv,
         NEW f, NEW q \in Guests, NEW u \in Units, Reads(f, q, u),
         NEW z \in Guests, z = Other(f), NEW i \in DOMAIN Recv(z), Recv(z)[i].from = u.from
  PROVE  Recv(z)[i].n < u.n
<1>1. Recv(z)[i].n \in Int
  <2>1. /\ DOMAIN Recv(z) = 1 .. Len(Recv(z))
        /\ \A j \in 1 .. Len(Recv(z)) : Recv(z)[j] \in Units
    BY RecvParts DEF SelectInv
  <2> QED
    BY <2>1, RelayAssumption DEF Units
<1>2. CASE \E m \in Int : SentBy(q, m) /\ u = Unit(q, m + 1)
  <2>1. PICK m \in Int : SentBy(q, m) /\ u = Unit(q, m + 1)
    BY <1>2
  <2>2. u.from = q /\ u.n = m + 1
    BY <2>1 DEF Unit
  <2>3. Recv(z)[i].n <= m
    BY <2>1, <2>2 DEF SentBy
  <2> QED
    BY <1>1, <2>2, <2>3
<1>3. CASE /\ role[q] = "Receiver"
           /\ \E k \in Nat : /\ ReturnedBy(q, k) /\ k + 1 \in DOMAIN got[q]
                             /\ k + 1 \in DOMAIN Recv(q) /\ u = Recv(q)[k + 1]
  <2>1. PICK k \in Nat : /\ ReturnedBy(q, k) /\ k + 1 \in DOMAIN got[q]
                         /\ k + 1 \in DOMAIN Recv(q) /\ u = Recv(q)[k + 1]
    BY <1>3
  <2>2. relaying /\ q # Nobody /\ z # Nobody
    BY <1>3, FdNumbers DEF TidyInv, Roles
  <2>3. CASE q = SenderEnd
    <3>1. got[q] = <<>>
      BY <1>3, <2>2, <2>3 DEF StaleInv
    <3> QED
      BY <2>1, <3>1
  <2>4. CASE q = ReceiverEnd /\ z = SenderEnd
    <3>1. CASE role[z] = "Sender"
      <4>1. Ahead(q, k, z)
        BY <2>1, <2>2, <2>4, <3>1 DEF ReturnedBy, Answers
      <4>2. k + 1 > k
        OBVIOUS
      <4> QED
        BY <2>1, <4>1, <4>2 DEF Ahead
    <3>2. CASE role[z] = "Receiver"
      <4>1. got[z] = <<>> /\ down[z] = <<>>
        BY <2>2, <2>4, <3>2 DEF StaleInv
      <4>2. Recv(z) = <<>>
        BY <4>1, RecvEmpty DEF InHand, Reads, SelectInv
      <4> QED
        BY <4>2
    <3>3. role[z] \in Roles
      <4>1. z = conn[sender_sock] /\ sender_sock \in Fds
        BY <2>2, <2>4 DEF SenderEnd, Holder
      <4>2. guest[z] # "start"
        BY <2>2, <4>1 DEF SelectInv, CrowdInv
      <4> QED
        BY <2>2, <4>2 DEF TidyInv, SelectInv, RelayTypeOK
    <3> QED
      BY <3>1, <3>2, <3>3 DEF Roles
  <2> QED
    BY <2>2, <2>3, <2>4 DEF Reads
<1> QED
  BY <1>2, <1>3, ReadFrom

\* Nobody is to receive blocks of a client in another order than it sent them.
LEMMA NextAscendInv ==
  ASSUME SelectInv, TidyInv, SendInv, ReturnInv, AscendInv, StaleInv, RelayNext
  PROVE  AscendInv'
<1> SUFFICES ASSUME NEW c \in Guests
             PROVE  Ascending(Recv(c)')
  BY DEF AscendInv, Ascending
<1>1. Ascending(Recv(c)) /\ Len(Recv(c)) \in Nat /\ DOMAIN Recv(c) = 1 .. Len(Recv(c))
  BY RecvParts DEF AscendInv, SelectInv
<1>2. CASE \E f \in Fds : ReadUnit(f)
  <2>1. PICK f \in Fds, q \in Guests, u \in Units : Reads(f, q, u)
    BY <1>2, ReadUnitEffect DEF SelectInv
  <2>2. CASE c = Other(f)
    <3>1. PICK l \in Nat : l = Len(Recv(c))
      BY <1>1
    <3>2. /\ DOMAIN Recv(c)' = 1 .. l + 1 /\ Recv(c)'[l + 1] = u /\ DOMAIN Recv(c) = 1 .. l
          /\ \A i \in 1 .. l : Recv(c)'[i] = Recv(c)[i]
      BY <1>1, <2>1, <2>2, <3>1 DEF Reads, Lengthens
    <3>3. \A i \in 1 .. l : Recv(c)[i].from = u.from => Recv(c)[i].n < u.n
      BY <2>1, <2>2, <3>2, ReadIsLater
    <3>4. ASSUME NEW i \in 1 .. l + 1, NEW j \in 1 .. l + 1, i < j,
                 Recv(c)'[i].from = Recv(c)'[j].from
          PROVE  Recv(c)'[i].n < Recv(c)'[j].n
      <4>1. i \in 1 .. l /\ (j \in 1 .. l \/ j = l + 1)
        BY <3>4
      <4>2. CASE j = l + 1
        BY <3>2, <3>3, <3>4, <4>1, <4>2
      <4>3. CASE j \in 1 .. l
        BY <1>1, <3>2, <3>4, <4>1, <4>3 DEF Ascending
      <4> QED
        BY <4>1, <4>2, <4>3
    <3> QED
      BY <3>2, <3>4 DEF Ascending
  <2>3. CASE c # Other(f)
    BY <1>1, <2>1, <2>3 DEF Reads
  <2> QED
    BY <2>2, <2>3
<1>3. CASE ~\E f \in Fds : ReadUnit(f)
  <2>1. Begins(Recv(c)', Recv(c))
    BY <1>3, NothingNew
  <2> QED
    BY <1>1, <2>1 DEF Begins, Ascending
<1> QED
  BY <1>2, <1>3

\* The dead stay dead.
LEMMA DeadStays ==
  ASSUME SelectInv, RelayNext, NEW c \in Guests, guest[c] = "dead"
  PROVE  guest'[c] = "dead"
<1>1. RelayTypeOK
  BY DEF SelectInv
<1>2. CASE RelayStep
  BY <1>2, ServerOnly DEF guestVars
<1>3. ASSUME NEW d \in Guests, ConnectGuest(d) \/ GuestStep(d) \/ Leave(d)
      PROVE  guest'[c] = "dead"
  BY <1>1, <1>3 DEF ConnectGuest, GuestStep, SayRole, TakeBlock, WriteBlock, TakeUnit, Leave, RelayTypeOK
<1> QED
  BY <1>2, <1>3 DEF RelayNext

\* But when a role is read, who becomes known is dead and has sent nothing more.
LEMMA KnownLate ==
  ASSUME SelectInv, RelayNext, ~ReadRole, relaying, NEW c \in Guests, New(c), ~New(c)'
  PROVE  guest'[c] = "dead" /\ up'[c] = <<>> /\ UNCHANGED <<got, down, role>>
<1>1. ReadNoRole /\ conn[clnt_sock] = c
  BY NewKept
<1> QED
  BY <1>1 DEF ReadNoRole, SelectInv, GuestInv, guestVars

\* Who is idle stays so when the server has nothing for it.
LEMMA IdleKept ==
  ASSUME SelectInv, TidyInv, RelayNext, ~ReadRole, ~\E f \in Fds : ReadUnit(f), buf = <<>>,
         NEW y \in Guests, ~New(y), Idle(y)
  PROVE  Idle(y)'
<1> USE DEF loopVars, sockVars, guestVars
<1>1. RelayTypeOK /\ guest[y] # "start"
  BY DEF SelectInv, New
<1>2. role'[y] = role[y] /\ (guest[y] = "dead" => guest'[y] = "dead")
  BY <1>1, ConnectedRole, DeadStays
<1>3. /\ got[y] = <<>> /\ down[y] = <<>> /\ up[y] = <<>>
      /\ guest[y] \notin {"role", "write", "writeRead"}
  BY DEF Idle, TidyInv, SelectInv, GuestInv
<1>4. got'[y] = <<>> /\ down'[y] = <<>> /\ up'[y] = <<>>
  <2>1. CASE RelayStep
    <3>1. selPc # "write"
      BY DEF SelectInv, FdInv
    <3>2. UNCHANGED <<got, down, up>>
      BY <2>1, <3>1 DEF RelayStep, Select, ScanOver, AcceptGuest, ReadNoRole,
         Ignore, ReadEnd, ReadError, WriteUnit, WriteLost, WriteKilled
    <3> QED
      BY <1>3, <3>2
  <2>2. ASSUME NEW d \in Guests, ConnectGuest(d) \/ GuestStep(d) \/ Leave(d)
        PROVE  got'[y] = <<>> /\ down'[y] = <<>> /\ up'[y] = <<>>
    BY <1>1, <1>3, <2>2 DEF ConnectGuest, GuestStep, SayRole, TakeBlock, WriteBlock, TakeUnit,
                            Leave, Send, RelayTypeOK
  <2> QED
    BY <2>1, <2>2 DEF RelayNext
<1> QED
  BY <1>2, <1>4 DEF Idle

\* The server sends nothing to a descriptor whose Receiver came after a Sender.
LEMMA StaleGetsNothing ==
  ASSUME SelectInv, TidyInv, StaleInv, RelayNext, NEW s \in Guests, s = SenderEnd,
         role[s] = "Receiver"
  PROVE  got'[s] = <<>> /\ down'[s] = <<>>
<1> USE DEF loopVars, sockVars, guestVars
<1>1. /\ RelayTypeOK /\ got[s] = <<>> /\ down[s] = <<>> /\ s # Nobody
      /\ guest[s] # "dead" /\ ~New(s) => buf = <<>>
  BY FdNumbers DEF SelectInv, StaleInv
<1>2. CASE WriteUnit
  <2>1. buf # <<>> /\ buf[2] \in Fds /\ Target = conn[buf[2]] /\ Target # Nobody
        /\ peer[Target] = "open"
    BY <1>2 DEF WriteUnit, Target, SelectInv, FdInv
  <2>2. Target # s
    <3>1. ~New(Target) /\ Target \in Guests
      BY <1>2, <2>1, ConnectedKnown DEF WriteUnit
    <3>2. guest[Target] # "dead"
      BY <2>1, <3>1 DEF TidyInv
    <3> QED
      BY <1>1, <2>1, <3>1, <3>2
  <2>3. got' = got /\ down'[s] = down[s]
    BY <1>1, <1>2, <2>2 DEF WriteUnit, RelayTypeOK
  <2> QED
    BY <1>1, <2>3
<1>3. CASE \E d \in Guests : TakeUnit(d)
  <2>1. PICK d \in Guests : TakeUnit(d)
    BY <1>3
  <2>2. d # s /\ got'[s] = got[s] /\ down'[s] = down[s]
    BY <1>1, <2>1 DEF TakeUnit, RelayTypeOK
  <2> QED
    BY <1>1, <2>2
<1>4. CASE ~(WriteUnit \/ \E d \in Guests : TakeUnit(d))
  <2>1. UNCHANGED <<got, down>>
    BY <1>4 DEF RelayNext, RelayStep, GuestStep, Select, ScanOver, AcceptGuest, ReadRole, ReadNoRole,
         Ignore, ReadUnit, ReadEnd, ReadError, WriteLost, WriteKilled, ConnectGuest,
         SayRole, TakeBlock, WriteBlock, Leave
  <2> QED
    BY <1>1, <2>1
<1> QED
  BY <1>2, <1>3, <1>4

\* Nor does it read anything there, or at the other descriptor.
LEMMA StaleReadsNothing ==
  ASSUME SelectInv, TidyInv, SendInv, ReturnInv, StaleInv,
         NEW f, NEW q \in Guests, NEW u \in Units, Reads(f, q, u),
         NEW s \in Guests, s = SenderEnd, role[s] = "Receiver", guest[s] # "dead", ~New(s)
  PROVE  FALSE
<1>1. relaying /\ s # Nobody /\ q # Nobody
  BY FdNumbers DEF TidyInv, Roles
<1>2. CASE q = s
  <2>1. got[q] = <<>>
    BY <1>1, <1>2 DEF StaleInv
  <2>2. DOMAIN got[q] # {}
    BY <1>2, ReadFrom
  <2> QED
    BY <2>1, <2>2
<1>3. CASE q = ReceiverEnd
  <2>1. Idle(q)
    BY <1>1, <1>3 DEF StaleInv, Reads
  <2>2. up[q] = <<>>
    BY <2>1 DEF Idle
  <2> QED
    BY <2>2 DEF Reads
<1> QED
  BY <1>1, <1>2, <1>3 DEF Reads

\* Where a Receiver has taken a Sender's descriptor, nothing is relayed any more.
LEMMA NextStaleInv ==
  ASSUME SelectInv, TidyInv, SendInv, ReturnInv, StaleInv, RelayNext
  PROVE  StaleInv'
<1> USE DEF loopVars, sockVars, guestVars
<1>1. RelayTypeOK
  BY DEF SelectInv
<1> SUFFICES ASSUME NEW s \in Guests, s = SenderEnd', role'[s] = "Receiver"
             PROVE  /\ got'[s] = <<>> /\ down'[s] = <<>>
                    /\ guest'[s] # "dead" /\ ~New(s)' =>
                         /\ buf' = <<>>
                         /\ \A r \in Guests : r = ReceiverEnd' /\ ~New(r)' => Idle(r)'
  BY DEF StaleInv
<1>2. relaying /\ relaying' = relaying /\ s # Nobody
  BY RolesKept, NextRelayTypes, FdNumbers DEF SelectInv, Roles
<1>3. CASE ReadRole
  <2>1. PICK c \in Guests : RoleOf(c)
    BY <1>3, ReadRoleEffect
  <2>2. role[c] = "Receiver" /\ role' = role
    BY <1>2, <2>1 DEF RoleOf, Roles
  <2>3. s = SenderEnd /\ ReceiverEnd' = c /\ buf' = <<>>
    BY <2>1, <2>2 DEF RoleOf
  <2>4. got'[s] = <<>> /\ down'[s] = <<>>
    BY <2>2, <2>3, StaleGetsNothing
  <2>5. Idle(c)'
    <3>1. got'[c] = <<>> /\ down'[c] = <<>>
      BY <2>1 DEF RoleOf, TidyInv
    <3>2. ReturnedBy(c, 0)'
      BY <2>1, <2>2, ReturnsNothingYet DEF RoleOf
    <3>3. 0 + Len(up'[c]) <= 0
      BY <3>1, <3>2 DEF ReturnedBy, Returned
    <3>4. up'[c] \in Seq([from : Guests, n : 0 .. UNITS])
      BY NextRelayTypes DEF SelectInv, RelayTypeOK
    <3>5. up'[c] = <<>>
      BY <3>3, <3>4, EmptySeq, LenProperties
    <3> QED
      BY <2>2, <3>1, <3>5 DEF Idle
  <2> QED
    BY <2>3, <2>4, <2>5
<1>4. CASE \E f \in Fds : ReadUnit(f)
  <2>1. PICK f \in Fds, q \in Guests, u \in Units : Reads(f, q, u)
    BY <1>4, ReadUnitEffect
  <2>2. s = SenderEnd /\ role[s] = "Receiver" /\ guest'[s] = guest[s] /\ (New(s)' <=> New(s))
    BY <2>1 DEF Reads
  <2>3. got'[s] = <<>> /\ down'[s] = <<>>
    BY <2>2, StaleGetsNothing
  <2>4. guest[s] = "dead" \/ New(s)
    BY <2>1, <2>2, StaleReadsNothing
  <2> QED
    BY <2>2, <2>3, <2>4
<1>5. CASE ~ReadRole /\ ~\E f \in Fds : ReadUnit(f)
  <2>1. CASE s = SenderEnd
    <3>1. role[s] = "Receiver"
      <4>1. guest[s] # "start"
        BY <1>2, <2>1 DEF SenderEnd, Holder, SelectInv, CrowdInv
      <4> QED
        BY <4>1, ConnectedRole
    <3>2. got'[s] = <<>> /\ down'[s] = <<>>
      BY <2>1, <3>1, StaleGetsNothing
    <3>3. ASSUME guest'[s] # "dead", ~New(s)'
          PROVE  buf' = <<>> /\ \A r \in Guests : r = ReceiverEnd' /\ ~New(r)' => Idle(r)'
      <4>1. guest[s] # "dead" /\ ~New(s)
        BY <1>2, <1>5, <3>3, DeadStays, KnownLate
      <4>2. buf = <<>> /\ \A r \in Guests : r = ReceiverEnd /\ ~New(r) => Idle(r)
        BY <2>1, <3>1, <4>1 DEF StaleInv
      <4>3. buf' = <<>>
        BY <1>5, <4>2 DEF RelayNext, RelayStep, GuestStep, Select, ScanOver, AcceptGuest, ReadNoRole,
         Ignore, ReadEnd, ReadError, WriteUnit, WriteLost, WriteKilled, ConnectGuest,
         SayRole, TakeBlock, WriteBlock, TakeUnit, Leave
      <4>4. ASSUME NEW r \in Guests, r = ReceiverEnd', ~New(r)'
            PROVE  Idle(r)'
        <5>1. CASE New(r)
          <6>1. guest'[r] = "dead" /\ up'[r] = <<>> /\ got' = got /\ down' = down
            BY <1>2, <1>5, <4>4, <5>1, KnownLate
          <6>2. got[r] = <<>> /\ down[r] = <<>>
            BY <5>1 DEF TidyInv
          <6> QED
            BY <6>1, <6>2 DEF Idle
        <5>2. CASE ~New(r)
          <6>1. r = ReceiverEnd
            BY <1>5, <4>4, <5>2, EndsKept, FdNumbers
          <6>2. Idle(r)
            BY <4>2, <5>2, <6>1
          <6> QED
            BY <1>5, <4>2, <5>2, <6>2, IdleKept
        <5> QED
          BY <5>1, <5>2
      <4> QED
        BY <4>3, <4>4
    <3> QED
      BY <3>2, <3>3
  <2>2. CASE New(s) /\ New(s)' /\ AcceptGuest
    <3>1. got'[s] = <<>> /\ down'[s] = <<>>
      BY <2>2, NewStaysEmpty
    <3> QED
      BY <2>2, <3>1
  <2> QED
    BY <1>2, <1>5, <2>1, <2>2, EndsKept
<1> QED
  BY <1>3, <1>4, <1>5

\* What clients have got is the beginning of what they receive, in every state.
GotFirst ==
  \A c \in Guests :
    /\ Len(got[c]) <= Len(Recv(c))
    /\ \A i \in DOMAIN got[c] : i \in DOMAIN Recv(c) /\ Recv(c)[i] = got[c][i]

\* What a client has got is where that begins.
LEMMA GotBegins == RelayTypeOK => GotFirst
<1> SUFFICES ASSUME RelayTypeOK, NEW c \in Guests
             PROVE  /\ Len(got[c]) <= Len(Recv(c))
                    /\ \A i \in DOMAIN got[c] : i \in DOMAIN Recv(c) /\ Recv(c)[i] = got[c][i]
  BY DEF GotFirst
<1> QED
  BY RecvParts

\* The same after a step.
LEMMA GotBeginsNext ==
  ASSUME RelayTypeOK'
  PROVE  GotFirst'
<1>1. (RelayTypeOK => GotFirst)'
  BY GotBegins, PTL
<1> QED
  BY <1>1

\* Everything a living echo client sends is on its way to the server or back.
LEMMA EchoReturns ==
  ASSUME SelectInv, TidyInv, SendInv, ReturnInv, EchoInv, RelayNext, ~relaying,
         NEW c \in Guests, guest'[c] # "dead"
  PROVE  /\ \A i \in DOMAIN Recv(c)' : Recv(c)'[i] = Unit(c, i)
         /\ Len(Recv(c)') + Len(up'[c]) = Sent(c)'
<1> USE DEF guestVars
<1>1. /\ guest[c] # "dead"
      /\ \A i \in DOMAIN Recv(c) : Recv(c)[i] = Unit(c, i)
      /\ Len(Recv(c)) + Len(up[c]) = Sent(c)
  BY DeadStays DEF EchoInv
<1>2. role[c] # "Receiver" /\ relaying' = relaying /\ RelayTypeOK
  BY NextRelayTypes DEF TidyInv, Roles, SelectInv
<1>3. PICK m \in Int : SentBy(c, m)
  BY <1>2 DEF SendInv
<1>4. /\ Len(Recv(c)) \in Nat /\ DOMAIN Recv(c) = 1 .. Len(Recv(c)) /\ Len(up[c]) \in Nat
      /\ m = Len(Recv(c))
  <2>1. /\ Len(Recv(c)) \in Nat /\ DOMAIN Recv(c) = 1 .. Len(Recv(c)) /\ Len(up[c]) \in Nat
    BY <1>2, RecvParts, UnitsUp
  <2>2. m + Len(up[c]) = Len(Recv(c)) + Len(up[c])
    BY <1>1, <1>3 DEF SentBy
  <2>3. PICK a \in Nat, b \in Nat : a = Len(Recv(c)) /\ b = Len(up[c])
    BY <2>1
  <2>4. m + b = a + b
    BY <2>2, <2>3
  <2>5. m = a
    BY <2>4
  <2> QED
    BY <2>1, <2>3, <2>5
<1>5. CASE \E f \in Fds : ReadUnit(f)
  <2>1. PICK f \in Fds, q \in Guests, u \in Units : Reads(f, q, u)
    BY <1>5, ReadUnitEffect
  <2>2. Sent(c)' = Sent(c)
    BY <2>1 DEF Reads, Sent, Owed
  <2>3. CASE c = q
    <3>1. u = Unit(c, m + 1)
      BY <1>3, <2>1, <2>3, ReadFromSender
    <3>2. Lengthens(Recv(c)', Recv(c), u) /\ Len(up'[c]) = Len(up[c]) - 1
      BY <2>1, <2>3 DEF Reads
    <3>3. PICK l \in Nat : l = Len(Recv(c))
      BY <1>4
    <3>4. /\ DOMAIN Recv(c)' = 1 .. l + 1 /\ Recv(c)'[l + 1] = u /\ DOMAIN Recv(c) = 1 .. l
          /\ \A i \in 1 .. l : Recv(c)'[i] = Recv(c)[i]
          /\ Len(Recv(c)') = l + 1
      BY <1>4, <3>2, <3>3 DEF Lengthens
    <3>5. \A i \in 1 .. l + 1 : Recv(c)'[i] = Unit(c, i)
      <4> TAKE i \in 1 .. l + 1
      <4>1. i \in 1 .. l \/ i = l + 1
        OBVIOUS
      <4>2. CASE i \in 1 .. l
        BY <1>1, <3>4, <4>2
      <4>3. CASE i = l + 1
        BY <1>4, <3>1, <3>3, <3>4, <4>3
      <4> QED
        BY <4>1, <4>2, <4>3
    <3>6. Len(Recv(c)') + Len(up'[c]) = Sent(c)
      <4>1. PICK b \in Nat : b = Len(up[c])
        BY <1>4
      <4>2. (l + 1) + (b - 1) = l + b
        OBVIOUS
      <4> QED
        BY <1>1, <3>2, <3>3, <3>4, <4>1, <4>2
    <3> QED
      BY <2>2, <3>4, <3>5, <3>6
  <2>4. CASE c # q
    <3>1. Recv(c)' = Recv(c) /\ up'[c] = up[c]
      BY <2>1, <2>4 DEF Reads
    <3> QED
      BY <1>1, <2>2, <3>1
  <2> QED
    BY <2>3, <2>4
<1>6. CASE ~\E f \in Fds : ReadUnit(f)
  <2>1. Recv(c)' = Recv(c)
    BY <1>1, <1>6, NothingNew
  <2>2. ~ReadRole
    BY RoleReader DEF ReadRole
  <2>3. CASE ConnectGuest(c)
    <3>1. /\ up'[c] = up[c] /\ next' = next /\ guest[c] = "start" /\ guest'[c] = "select"
      BY <1>2, <2>3 DEF ConnectGuest, RelayTypeOK
    <3>2. Owed(c) = 0 /\ Owed(c)' = 0
      BY <3>1 DEF Owed
    <3>3. Sent(c)' = Sent(c)
      BY <3>1, <3>2 DEF Sent
    <3> QED
      BY <1>1, <2>1, <3>1, <3>3
  <2>4. CASE ~ConnectGuest(c)
    <3>1. SentBy(c, m)'
      BY <1>2, <1>3, <1>6, <2>2, <2>4, SentStays
    <3>2. m + Len(up'[c]) = Sent(c)'
      BY <3>1 DEF SentBy
    <3> QED
      BY <1>1, <1>4, <2>1, <3>2
  <2> QED
    BY <2>3, <2>4
<1> QED
  BY <1>5, <1>6

\* An echo client receives what it sent.
LEMMA NextEchoInv ==
  ASSUME SelectInv, TidyInv, SendInv, ReturnInv, EchoInv, RelayNext
  PROVE  EchoInv'
<1> USE DEF loopVars, sockVars, guestVars
<1>1. RelayTypeOK /\ GotFirst' /\ relaying' = relaying
  BY NextRelayTypes, GotBeginsNext DEF SelectInv
<1> SUFFICES ASSUME ~relaying, NEW c \in Guests
             PROVE  /\ \A i \in DOMAIN got'[c] : got'[c][i] = Unit(c, i)
                    /\ guest'[c] # "dead" =>
                         /\ \A i \in DOMAIN Recv(c)' : Recv(c)'[i] = Unit(c, i)
                         /\ Len(Recv(c)') + Len(up'[c]) = Sent(c)'
  BY <1>1 DEF EchoInv
<1>2. CASE guest'[c] # "dead"
  <2>1. \A i \in DOMAIN Recv(c)' : Recv(c)'[i] = Unit(c, i)
    BY <1>2, EchoReturns
  <2>2. \A i \in DOMAIN got'[c] : i \in DOMAIN Recv(c)' /\ Recv(c)'[i] = got'[c][i]
    BY <1>1 DEF GotFirst
  <2> QED
    BY <1>2, <2>1, <2>2, EchoReturns
<1>3. CASE guest'[c] = "dead"
  <2>1. got'[c] = got[c]
    <3>1. CASE RelayStep
      BY <3>1, ServerOnly
    <3>2. ASSUME NEW d \in Guests, ConnectGuest(d) \/ GuestStep(d) \/ Leave(d)
          PROVE  got'[c] = got[c]
      BY <1>1, <1>3, <3>2 DEF ConnectGuest, GuestStep, SayRole, TakeBlock, WriteBlock, TakeUnit,
                              Leave, RelayTypeOK
    <3> QED
      BY <3>1, <3>2 DEF RelayNext
  <2>2. \A i \in DOMAIN got[c] : got[c][i] = Unit(c, i)
    BY DEF EchoInv
  <2> QED
    BY <1>3, <2>1, <2>2
<1> QED
  BY <1>2, <1>3

\* Nobody has left, and nobody else has come, before.
LEMMA EarlyBefore ==
  ASSUME SelectInv, TidyInv, RelayNext, NEW s \in Guests, NEW r \in Guests, Early(s, r)'
  PROVE  Early(s, r)
<1>1. ASSUME NEW c \in Guests, guest'[c] # "dead"
      PROVE  guest[c] # "dead" /\ (role[c] = role'[c] \/ role[c] = "none")
  BY <1>1, DeadStays, ConnectedRole DEF TidyInv
<1>2. \A c \in Guests : guest'[c] # "dead"
  BY DEF Early
<1> QED
  BY <1>1, <1>2 DEF Early

\* Without roles nobody has started.
LEMMA EarlyRoles ==
  ASSUME SelectInv, TidyInv, NEW s \in Guests, NEW r \in Guests, Early(s, r)
  PROVE  /\ \A c \in Guests : ~New(c) \/ guest[c] # "start" => relaying /\ role[c] \in Roles
         /\ \A c \in Guests : /\ role[c] = "Sender" => c = s
                              /\ role[c] = "Receiver" => c = r
         /\ \A c \in Guests : peer[c] = "open"
<1>1. ASSUME NEW c \in Guests, guest[c] # "start" PROVE relaying /\ role[c] \in Roles
  <2>1. role[c] # "none" /\ role[c] \in Roles \cup {"none"}
    BY <1>1 DEF TidyInv, Early, Roles
  <2> QED
    BY <2>1 DEF TidyInv
<1>2. \A c \in Guests : ~New(c) => guest[c] # "start"
  BY DEF New
<1> QED
  BY <1>1, <1>2 DEF Early, SelectInv, GuestInv

\* The descriptors of the relay, once given, stay with the two.
LEMMA EndsStay ==
  ASSUME SelectInv, TidyInv, RelayNext, NEW s \in Guests, NEW r \in Guests, Early(s, r),
         Early(s, r)', PairEnds(s, r)
  PROVE  /\ PairEnds(s, r)'
         /\ sender_sock' = NoSocket => sender_sock = NoSocket
         /\ receiver_sock' = NoSocket => receiver_sock = NoSocket
<1>1. s # r /\ s # Nobody /\ r # Nobody
  BY FdNumbers DEF Early
<1>2. CASE ReadRole
  <2>1. PICK c \in Guests : RoleOf(c)
    BY <1>2, ReadRoleEffect
  <2>2. CASE role[c] = "Sender"
    <3>1. c = s
      BY <2>2, EarlyRoles
    <3>2. /\ SenderEnd' = s /\ ~New(s)' /\ sender_sock' # NoSocket
          /\ receiver_sock' = receiver_sock /\ ReceiverEnd' = ReceiverEnd /\ (New(r)' <=> New(r))
      BY <1>1, <2>1, <2>2, <3>1 DEF RoleOf
    <3> QED
      BY <3>2 DEF PairEnds
  <2>3. CASE role[c] = "Receiver"
    <3>1. c = r
      BY <2>3, EarlyRoles
    <3>2. /\ ReceiverEnd' = r /\ ~New(r)' /\ receiver_sock' # NoSocket
          /\ sender_sock' = sender_sock /\ SenderEnd' = SenderEnd /\ (New(s)' <=> New(s))
      BY <1>1, <2>1, <2>3, <3>1 DEF RoleOf
    <3> QED
      BY <3>2 DEF PairEnds
  <2> QED
    BY <2>1, <2>2, <2>3 DEF RoleOf, Roles
<1>3. CASE ~ReadRole
  <2>1. UNCHANGED <<sender_sock, receiver_sock>>
    BY <1>3, EndsKept DEF sockVars
  <2>2. ~\E f \in Fds : ReadEnd(f)
    <3> SUFFICES ASSUME NEW f \in Fds, ReadEnd(f) PROVE FALSE
      OBVIOUS
    <3>1. conn[f] \in Guests /\ peer[conn[f]] # "open"
      BY Scanned DEF ReadEnd
    <3> QED
      BY <3>1, EarlyRoles
  <2>3. sender_sock # NoSocket => SenderEnd' = s /\ ~New(s)'
    <3> SUFFICES ASSUME sender_sock # NoSocket PROVE SenderEnd' = s /\ ~New(s)'
      OBVIOUS
    <3>1. SenderEnd = s /\ ~New(s)
      BY DEF PairEnds
    <3>2. relaying /\ ~New(s)'
      BY <3>1, EarlyRoles, NewKept
    <3> QED
      BY <1>1, <1>3, <2>2, <3>1, <3>2, EndsKept
  <2>4. receiver_sock # NoSocket => ReceiverEnd' = r /\ ~New(r)'
    <3> SUFFICES ASSUME receiver_sock # NoSocket PROVE ReceiverEnd' = r /\ ~New(r)'
      OBVIOUS
    <3>1. ReceiverEnd = r /\ ~New(r)
      BY DEF PairEnds
    <3>2. relaying /\ ~New(r)'
      BY <3>1, EarlyRoles, NewKept
    <3> QED
      BY <1>1, <1>3, <2>2, <3>1, <3>2, EndsKept
  <2> QED
    BY <2>1, <2>3, <2>4 DEF PairEnds
<1> QED
  BY <1>2, <1>3

\* Nobody forgets what it has got.
LEMMA GotGrows ==
  ASSUME SelectInv, RelayNext, NEW c \in Guests
  PROVE  /\ Len(got[c]) <= Len(got'[c])
         /\ \A i \in 1 .. Len(got[c]) : got'[c][i] = got[c][i]
<1>1. RelayTypeOK
  BY DEF SelectInv
<1>2. got[c] \in Seq(Units) /\ Len(got[c]) \in Nat
  BY <1>1, RecvParts
<1>3. CASE TakeUnit(c)
  <2>1. got'[c] = Append(got[c], Head(down[c])) /\ Head(down[c]) \in Units
    BY <1>1, <1>3, Taken DEF TakeUnit, RelayTypeOK
  <2>2. Len(got'[c]) = Len(got[c]) + 1 /\ \A i \in 1 .. Len(got[c]) : got'[c][i] = got[c][i]
    BY <1>2, <2>1, AppendProperties
  <2> QED
    BY <1>2, <2>2
<1>4. CASE ~TakeUnit(c)
  <2>1. got'[c] = got[c]
    <3>1. CASE RelayStep
      BY <3>1, ServerOnly DEF guestVars
    <3>2. ASSUME NEW d \in Guests, ConnectGuest(d) \/ GuestStep(d) \/ Leave(d)
          PROVE  got'[c] = got[c]
      BY <1>1, <1>4, <3>2 DEF ConnectGuest, GuestStep, SayRole, TakeBlock, WriteBlock, TakeUnit,
                              Leave, RelayTypeOK
    <3> QED
      BY <3>1, <3>2 DEF RelayNext
  <2> QED
    BY <1>2, <2>1
<1> QED
  BY <1>3, <1>4

\* What the server has taken is what was sent but for what is on its way.
LEMMA TakenOf ==
  ASSUME RelayTypeOK, NEW s \in Guests, NEW m \in Int, SentBy(s, m), guest[s] # "dead"
  PROVE  Sent(s) - Len(up[s]) = m
<1>1. PICK b \in Nat : b = Len(up[s])
  BY UnitsUp
<1>2. m + b = Sent(s)
  BY <1>1 DEF SentBy
<1>3. (m + b) - b = m
  OBVIOUS
<1> QED
  BY <1>1, <1>2, <1>3

\* Nothing is read: what the two receive stays.
LEMMA PairStill ==
  ASSUME SelectInv, TidyInv, SendInv, ReturnInv, RelayNext, ~\E f \in Fds : ReadUnit(f),
         NEW s \in Guests, NEW r \in Guests, Early(s, r), Early(s, r)', Pair(s, r)
  PROVE  PairStreams(s, r)'
<1> USE DEF guestVars
<1>1. RelayTypeOK /\ PairEnds(s, r) /\ PairStreams(s, r) /\ s # r
      /\ guest[s] # "dead" /\ guest[r] # "dead" /\ guest'[s] # "dead" /\ guest'[r] # "dead"
      /\ relaying' = relaying
  BY NextRelayTypes DEF SelectInv, Pair, Early
<1>2. Recv(s)' = Recv(s) /\ Recv(r)' = Recv(r)
  BY <1>1, NothingNew
<1>3. sender_sock' = NoSocket \/ receiver_sock' = NoSocket => Recv(s)' = <<>> /\ Recv(r)' = <<>>
  BY <1>1, <1>2, EndsStay DEF PairStreams
<1>4. \A i \in DOMAIN Recv(r)' :
        Recv(r)'[i] = Unit(s, Sent(s)' - Len(up'[s]) - Len(Recv(r)') + i)
  <2>1. CASE Recv(r) = <<>>
    BY <1>2, <2>1
  <2>2. CASE Recv(r) # <<>>
    <3>1. ~New(s) /\ guest[s] # "start"
      BY <1>1, <2>2 DEF PairStreams, PairEnds, New
    <3>2. role[s] # "Receiver"
      BY <1>1, EarlyRoles
    <3>3. PICK m \in Int : SentBy(s, m)
      BY <3>2 DEF SendInv
    <3>4. Sent(s) - Len(up[s]) = m
      BY <1>1, <3>3, TakenOf
    <3>5. Sent(s)' - Len(up'[s]) = m
      <4>1. CASE ReadRole
        <5>1. PICK c \in Guests : RoleOf(c)
          BY <4>1, ReadRoleEffect
        <5>2. up'[s] = up[s] /\ UNCHANGED guestVars
          BY <3>1, <5>1 DEF RoleOf
        <5>3. Sent(s)' = Sent(s)
          BY <5>2 DEF Sent, Owed
        <5> QED
          BY <3>4, <5>2, <5>3
      <4>2. CASE ~ReadRole
        <5>1. SentBy(s, m)'
          <6>1. ~ConnectGuest(s)
            BY <3>1 DEF ConnectGuest
          <6> QED
            BY <3>2, <3>3, <4>2, <6>1, SentStays
        <5>2. RelayTypeOK'
          BY NextRelayTypes DEF SelectInv
        <5>3. PICK b \in Nat : b = Len(up'[s])
          <6>1. up'[s] \in Seq([from : Guests, n : 0 .. UNITS])
            BY <5>2 DEF RelayTypeOK
          <6> QED
            BY <6>1, LenProperties
        <5>4. m + b = Sent(s)'
          BY <1>1, <5>1, <5>3 DEF SentBy
        <5>5. (m + b) - b = m
          OBVIOUS
        <5> QED
          BY <5>3, <5>4, <5>5
      <4> QED
        BY <4>1, <4>2
    <3> QED
      BY <1>1, <1>2, <3>4, <3>5 DEF PairStreams
  <2> QED
    BY <2>1, <2>2
<1>5. \A i \in DOMAIN Recv(s)' : i <= Len(got'[r]) /\ Recv(s)'[i] = got'[r][i]
  <2> SUFFICES ASSUME NEW i \in DOMAIN Recv(s)
               PROVE  i <= Len(got'[r]) /\ Recv(s)[i] = got'[r][i]
    BY <1>2
  <2>1. i \in Nat /\ 1 <= i /\ i <= Len(got[r]) /\ Recv(s)[i] = got[r][i] /\ Len(got[r]) \in Nat
    BY <1>1, RecvParts DEF PairStreams
  <2>2. i \in 1 .. Len(got[r]) /\ Len(got'[r]) \in Nat
    <3>1. got'[r] \in Seq(Units)
      BY NextRelayTypes DEF SelectInv, RelayTypeOK
    <3> QED
      BY <2>1, <3>1, LenProperties
  <2> QED
    BY <2>1, <2>2, GotGrows
<1>6. ASSUME ~New(r)'
      PROVE  Len(Recv(s)') + Len(up'[r]) + Owed(r)' = Len(got'[r])
  <2>1. relaying /\ role'[r] = "Receiver"
    <3>1. guest'[r] # "start"
      BY <1>6 DEF New
    <3>2. role'[r] = "Receiver"
      BY <3>1, RolesKept DEF Early
    <3> QED
      BY <1>1, <3>2, RolesKept DEF Roles
  <2>2. CASE New(r)
    <3>1. ReadRole
      <4>1. ~ReadNoRole \/ conn[clnt_sock] # r
        BY EarlyRoles DEF ReadNoRole
      <4> QED
        BY <1>6, <2>1, <2>2, <4>1, NewKept
    <3>2. role[r] = "Receiver"
      BY <2>1, <3>1 DEF ReadRole
    <3>3. ReturnedBy(r, 0)'
      BY <1>6, <2>2, <3>2, ReturnsNothingYet
    <3>4. 0 + Len(up'[r]) + Owed(r)' = Len(got'[r])
      BY <1>1, <3>3 DEF ReturnedBy, Returned
    <3>5. Recv(s) = <<>>
      BY <1>1, <2>2 DEF PairEnds, PairStreams
    <3>6. Len(Recv(s)') = 0
      BY <1>2, <3>5
    <3> QED
      BY <3>4, <3>6
  <2>3. CASE ~New(r)
    <3>1. role[r] = "Receiver"
      BY <2>1, <2>3, ConnectedRole DEF New
    <3>2. PICK k \in Nat : ReturnedBy(r, k)
      BY <2>3, <3>1 DEF ReturnInv
    <3>3. Returned(r, k)'
      BY <2>3, <3>1, <3>2, ReturnedStill DEF ReturnedBy
    <3>4. /\ k + Len(up[r]) + Owed(r) = Len(got[r])
          /\ k + Len(up'[r]) + Owed(r)' = Len(got'[r])
      BY <1>1, <3>2, <3>3 DEF ReturnedBy, Returned
    <3>5. Len(Recv(s)) + Len(up[r]) + Owed(r) = Len(got[r])
      BY <1>1, <2>3 DEF PairStreams
    <3>6. Len(Recv(s)) = k
      <4>1. PICK a \in Nat, b \in Nat, o \in Nat :
              a = Len(Recv(s)) /\ b = Len(up[r]) /\ o = Owed(r)
        BY <1>1, RecvParts, UnitsUp DEF Owed
      <4>2. k + b + o = a + b + o
        BY <3>4, <3>5, <4>1
      <4>3. k = a
        BY <4>2
      <4> QED
        BY <4>1, <4>3
    <3> QED
      BY <1>2, <3>4, <3>6
  <2> QED
    BY <2>2, <2>3
<1> QED
  BY <1>3, <1>4, <1>5, <1>6 DEF PairStreams

\* A role variable that names a client's descriptor is set.
LEMMA SocketsTaken ==
  /\ SenderEnd \in Guests => sender_sock # NoSocket
  /\ ReceiverEnd \in Guests => receiver_sock # NoSocket
  /\ sender_sock = NoSocket => SenderEnd \notin Guests
  /\ receiver_sock = NoSocket => ReceiverEnd \notin Guests
BY FdNumbers DEF SenderEnd, ReceiverEnd, Holder

\* A block is read from the Sender.
LEMMA PairRelays ==
  ASSUME SelectInv, TidyInv, SendInv,
         NEW s \in Guests, NEW r \in Guests, Early(s, r), Pair(s, r),
         NEW f, NEW u \in Units, Reads(f, s, u), Other(f) = ReceiverEnd, sender_sock # NoSocket
  PROVE  PairStreams(s, r)'
<1> USE DEF guestVars, sockVars
<1>1. /\ RelayTypeOK /\ PairEnds(s, r) /\ PairStreams(s, r) /\ s # r /\ guest[s] # "dead"
      /\ UNCHANGED <<guest, role, next, got, sender_sock, receiver_sock>>
      /\ up'[r] = up[r] /\ (New(r)' <=> New(r))
  BY DEF SelectInv, Pair, Early, Reads
<1>2. Owed(r)' = Owed(r) /\ Sent(s)' = Sent(s)
  BY <1>1 DEF Owed, Sent
<1>3. Recv(s)' = Recv(s)
  <2>1. Other(f) # s
    BY <1>1, SocketsTaken DEF PairEnds
  <2> QED
    BY <2>1 DEF Reads
<1>4. CASE receiver_sock = NoSocket
  <2>1. Recv(r)' = Recv(r) /\ Recv(r) = <<>> /\ Recv(s) = <<>>
    BY <1>1, <1>4, SocketsTaken DEF Reads, PairStreams
  <2> QED
    BY <1>1, <1>2, <1>3, <2>1 DEF PairStreams
<1>5. CASE receiver_sock # NoSocket
  <2>1. Other(f) = r
    BY <1>1, <1>5 DEF PairEnds
  <2>2. role[s] # "Receiver"
    BY <1>1, EarlyRoles
  <2>3. PICK m \in Int : SentBy(s, m)
    BY <2>2 DEF SendInv
  <2>4. u = Unit(s, m + 1) /\ Sent(s) - Len(up[s]) = m
    BY <1>1, <2>3, ReadFromSender, TakenOf
  <2>5. Sent(s)' - Len(up'[s]) = m + 1
    <3>1. Len(up'[s]) = Len(up[s]) - 1
      BY DEF Reads
    <3>2. PICK b \in Nat : b = Len(up[s])
      BY <1>1, UnitsUp
    <3>3. m + b = Sent(s)
      BY <1>1, <2>3, <3>2 DEF SentBy
    <3>4. (m + b) - (b - 1) = m + 1
      OBVIOUS
    <3> QED
      BY <1>2, <3>1, <3>2, <3>3, <3>4
  <2>6. PICK l \in Nat : l = Len(Recv(r))
    BY <1>1, RecvParts
  <2>7. /\ DOMAIN Recv(r)' = 1 .. l + 1 /\ Recv(r)'[l + 1] = u /\ DOMAIN Recv(r) = 1 .. l
        /\ \A i \in 1 .. l : Recv(r)'[i] = Recv(r)[i]
        /\ Len(Recv(r)') = l + 1
    BY <1>1, <2>1, <2>6, RecvParts DEF Reads, Lengthens
  <2>8. \A i \in 1 .. l : Recv(r)[i] = Unit(s, m - l + i)
    BY <1>1, <2>4, <2>6, <2>7 DEF PairStreams
  <2>9. \A i \in 1 .. l + 1 : Recv(r)'[i] = Unit(s, (m + 1) - (l + 1) + i)
    <3> TAKE i \in 1 .. l + 1
    <3>1. (m + 1) - (l + 1) + i = m - l + i /\ (i \in 1 .. l \/ i = l + 1)
      OBVIOUS
    <3>2. CASE i \in 1 .. l
      BY <2>7, <2>8, <3>1, <3>2
    <3>3. CASE i = l + 1
      <4>1. m - l + i = m + 1
        BY <3>3
      <4> QED
        BY <2>4, <2>7, <3>1, <3>3, <4>1
    <3> QED
      BY <3>1, <3>2, <3>3
  <2>10. \A i \in DOMAIN Recv(r)' :
           Recv(r)'[i] = Unit(s, Sent(s)' - Len(up'[s]) - Len(Recv(r)') + i)
    BY <2>5, <2>7, <2>9
  <2> QED
    BY <1>1, <1>2, <1>3, <1>5, <2>10 DEF PairStreams
<1> QED
  BY <1>4, <1>5

\* A block is read from the Receiver: the next that the Sender is to get back.
LEMMA PairReturns ==
  ASSUME SelectInv, TidyInv, ReturnInv,
         NEW s \in Guests, NEW r \in Guests, Early(s, r), Pair(s, r),
         NEW f, NEW u \in Units, Reads(f, r, u), Other(f) = SenderEnd, receiver_sock # NoSocket
  PROVE  PairStreams(s, r)'
<1> USE DEF guestVars, sockVars
<1>1. /\ RelayTypeOK /\ PairEnds(s, r) /\ PairStreams(s, r) /\ s # r /\ guest[r] # "dead"
      /\ UNCHANGED <<guest, role, next, got, sender_sock, receiver_sock>>
      /\ up'[s] = up[s] /\ ~New(r)
  BY DEF SelectInv, Pair, Early, Reads
<1>2. Owed(r)' = Owed(r) /\ Sent(s)' = Sent(s)
  BY <1>1 DEF Owed, Sent
<1>3. PICK a \in Nat, b \in Nat, o \in Nat, g \in Nat :
        a = Len(Recv(s)) /\ b = Len(up[r]) /\ o = Owed(r) /\ g = Len(got[r])
  BY <1>1, RecvParts, UnitsUp DEF Owed
<1>4. a + b + o = g
  BY <1>1, <1>3 DEF PairStreams
<1>5. b # 0
  BY <1>3 DEF Reads
<1>6. sender_sock # NoSocket
  <2> SUFFICES ASSUME sender_sock = NoSocket PROVE FALSE
    OBVIOUS
  <2>1. Recv(r) = <<>>
    BY <1>1 DEF PairStreams
  <2>2. got[r] = <<>>
    BY <1>1, <2>1, RecvEmpty
  <2>3. g = 0
    BY <1>3, <2>2
  <2> QED
    BY <1>4, <1>5, <2>3
<1>7. Other(f) = s
  BY <1>1, <1>6 DEF PairEnds
<1>8. Recv(r)' = Recv(r)
  BY <1>1, <1>7 DEF Reads
<1>9. u = got[r][a + 1] /\ a + 1 <= g
  <2>1. role[r] = "Receiver"
    <3>1. role[r] \in Roles /\ role[r] # "Sender"
      BY <1>1, EarlyRoles
    <3> QED
      BY <3>1 DEF Roles
  <2>2. PICK k \in Nat : ReturnedBy(r, k)
    BY <1>1, <2>1 DEF ReturnInv
  <2>3. k + b + o = g
    BY <1>1, <1>3, <2>2 DEF ReturnedBy, Returned
  <2>4. k = a
    BY <1>4, <2>3
  <2>5. u = got[r][k + 1] /\ k + 1 \in DOMAIN got[r]
    BY <2>2, ReadFromReceiver
  <2>6. k + 1 <= g
    BY <1>5, <2>3
  <2> QED
    BY <2>4, <2>5, <2>6
<1>10. /\ DOMAIN Recv(s)' = 1 .. a + 1 /\ Recv(s)'[a + 1] = u /\ DOMAIN Recv(s) = 1 .. a
       /\ \A i \in 1 .. a : Recv(s)'[i] = Recv(s)[i]
       /\ Len(Recv(s)') = a + 1
  BY <1>1, <1>3, <1>7, RecvParts DEF Reads, Lengthens
<1>11. \A i \in DOMAIN Recv(s)' : i <= Len(got[r]) /\ Recv(s)'[i] = got[r][i]
  <2> SUFFICES ASSUME NEW i \in 1 .. a + 1 PROVE i <= g /\ Recv(s)'[i] = got[r][i]
    BY <1>3, <1>10
  <2>1. i \in 1 .. a \/ i = a + 1
    OBVIOUS
  <2>2. CASE i \in 1 .. a
    BY <1>1, <1>3, <1>10, <2>2 DEF PairStreams
  <2>3. CASE i = a + 1
    BY <1>9, <1>10, <2>3
  <2> QED
    BY <2>1, <2>2, <2>3
<1>12. Len(Recv(s)') + Len(up'[r]) + Owed(r) = Len(got[r])
  <2>1. Len(up'[r]) = b - 1
    BY <1>3 DEF Reads
  <2>2. (a + 1) + (b - 1) + o = g
    BY <1>4
  <2> QED
    BY <1>3, <1>10, <2>1, <2>2
<1> QED
  BY <1>1, <1>2, <1>6, <1>8, <1>11, <1>12 DEF PairStreams

\* Between one Sender and one Receiver nothing is left out.
LEMMA NextPairInv ==
  ASSUME SelectInv, TidyInv, SendInv, ReturnInv, PairInv, RelayNext
  PROVE  PairInv'
<1> SUFFICES ASSUME NEW s \in Guests, NEW r \in Guests, Early(s, r)'
             PROVE  Pair(s, r)'
  BY DEF PairInv
<1>1. Early(s, r)
  BY EarlyBefore
<1>2. Pair(s, r)
  BY <1>1 DEF PairInv
<1>3. PairEnds(s, r)'
  BY <1>1, <1>2, EndsStay DEF Pair
<1>4. PairStreams(s, r)'
  <2>1. CASE ~\E f \in Fds : ReadUnit(f)
    BY <1>1, <1>2, <2>1, PairStill
  <2>2. CASE \E f \in Fds : ReadUnit(f)
    <3>1. PICK f \in Fds, q \in Guests, u \in Units : Reads(f, q, u)
      BY <2>2, ReadUnitEffect
    <3>2. relaying
      BY <1>1, <3>1, EarlyRoles DEF Reads
    <3>3. CASE q = SenderEnd /\ Other(f) = ReceiverEnd
      <4>1. sender_sock # NoSocket
        BY <3>3, SocketsTaken
      <4>2. q = s
        BY <1>2, <3>3, <4>1 DEF Pair, PairEnds
      <4> QED
        BY <1>1, <1>2, <3>1, <3>3, <4>1, <4>2, PairRelays
    <3>4. CASE q = ReceiverEnd /\ Other(f) = SenderEnd
      <4>1. receiver_sock # NoSocket
        BY <3>4, SocketsTaken
      <4>2. q = r
        BY <1>2, <3>4, <4>1 DEF Pair, PairEnds
      <4> QED
        BY <1>1, <1>2, <3>1, <3>4, <4>1, <4>2, PairReturns
    <3> QED
      BY <3>1, <3>2, <3>3, <3>4 DEF Reads
  <2> QED
    BY <2>1, <2>2
<1> QED
  BY <1>3, <1>4 DEF Pair

\* At the start nobody has sent or received anything.
LEMMA InitRelayInv ==
  ASSUME NEW withRoles \in BOOLEAN, RelayInit(withRoles)
  PROVE  RelayInv
<1>1. SelectInv
  BY InitSelectInv
<1>2. /\ buf = <<>> /\ sender_sock = NoSocket /\ receiver_sock = NoSocket
      /\ \A c \in Guests : /\ guest[c] = "start" /\ role[c] = "none" /\ next[c] = 0
                           /\ got[c] = <<>> /\ down[c] = <<>> /\ up[c] = <<>>
  BY DEF RelayInit
<1>3. \A c \in Guests : New(c) /\ Owed(c) = 0 /\ Sent(c) = 0
  <2> SUFFICES ASSUME NEW c \in Guests PROVE New(c) /\ Owed(c) = 0 /\ Sent(c) = 0
    OBVIOUS
  <2>1. New(c) /\ Owed(c) = 0
    BY <1>2 DEF New, Owed
  <2> QED
    BY <1>2, <2>1 DEF Sent
<1>4. TidyInv
  BY <1>2, <1>3 DEF TidyInv, Roles
<1>5. \A c \in Guests : Recv(c) = <<>>
  BY <1>1, <1>3, <1>4, NewReceivesNothing
<1>6. \A c \in Guests : DOMAIN Recv(c) = {} /\ DOMAIN up[c] = {} /\ DOMAIN got[c] = {}
                        /\ Len(up[c]) = 0 /\ Len(Recv(c)) = 0
  BY <1>2, <1>5
<1>7. SendInv
  <2>1. \A s \in Guests : SentBy(s, 0)
    BY <1>3, <1>6 DEF SentBy
  <2> QED
    BY <2>1 DEF SendInv
<1>8. ReturnInv /\ StaleInv
  BY <1>2 DEF ReturnInv, StaleInv
<1>9. AscendInv /\ EchoInv
  BY <1>3, <1>6 DEF AscendInv, Ascending, EchoInv
<1>10. PairInv
  BY <1>2, <1>3, <1>5, <1>6 DEF PairInv, Pair, PairEnds, PairStreams
<1> QED
  BY <1>1, <1>4, <1>7, <1>8, <1>9, <1>10 DEF RelayInv

\* A step that changes nothing keeps the invariant.
LEMMA RelayInvStutters ==
  ASSUME RelayInv, UNCHANGED relayVars
  PROVE  RelayInv'
<1> USE DEF relayVars, loopVars, sockVars, guestVars
<1>1. SelectInv'
  BY NextSelectInv DEF RelayInv
<1>2. \A c \in Guests : /\ Recv(c)' = Recv(c) /\ (New(c)' <=> New(c))
                        /\ Owed(c)' = Owed(c) /\ Sent(c)' = Sent(c)
  BY DEF Recv, InHand, New, Owed, Sent
<1>3. SenderEnd' = SenderEnd /\ ReceiverEnd' = ReceiverEnd
  BY DEF SenderEnd, ReceiverEnd, Holder
<1>4. TidyInv'
  BY <1>2 DEF RelayInv, TidyInv
<1>5. \A s \in Guests : \A m \in Int : SentBy(s, m) => SentBy(s, m)'
  BY <1>2 DEF SentBy
<1>6. SendInv'
  BY <1>5 DEF RelayInv, SendInv
<1>7. \A x \in Guests : \A k \in Nat : ReturnedBy(x, k) => ReturnedBy(x, k)'
  <2> SUFFICES ASSUME NEW x \in Guests, NEW k \in Nat, ReturnedBy(x, k)
               PROVE  ReturnedBy(x, k)'
    OBVIOUS
  <2>1. Returned(x, k)'
    BY <1>2 DEF ReturnedBy, Returned
  <2>2. ASSUME Answers(x)' PROVE Ahead(x, k, SenderEnd)'
    <3>1. Answers(x)
      BY <1>3, <2>2 DEF Answers
    <3>2. PICK y \in Guests : y = SenderEnd
      BY <3>1, Ends DEF Answers, SenderEnd, RelayInv, SelectInv, RelayTypeOK
    <3>3. Ahead(x, k, y)
      BY <3>1, <3>2 DEF ReturnedBy
    <3>4. Ahead(x, k, y)'
      BY <1>2, <3>3 DEF Ahead
    <3> QED
      BY <1>3, <3>2, <3>4
  <2> QED
    BY <2>1, <2>2 DEF ReturnedBy
<1>8. ReturnInv'
  BY <1>2, <1>7 DEF RelayInv, ReturnInv
<1>9. AscendInv' /\ EchoInv'
  BY <1>2 DEF RelayInv, AscendInv, Ascending, EchoInv
<1>10. StaleInv'
  BY <1>2, <1>3 DEF RelayInv, StaleInv, Idle
<1>11. PairInv'
  <2> SUFFICES ASSUME NEW s \in Guests, NEW r \in Guests, Early(s, r)'
               PROVE  Pair(s, r)'
    BY DEF PairInv
  <2>1. Pair(s, r)
    BY DEF Early, RelayInv, PairInv
  <2>2. PairEnds(s, r)'
    BY <1>2, <1>3, <2>1 DEF Pair, PairEnds
  <2>3. PairStreams(s, r)'
    BY <1>2, <2>1 DEF Pair, PairStreams
  <2> QED
    BY <2>2, <2>3 DEF Pair
<1> QED
  BY <1>1, <1>4, <1>6, <1>8, <1>9, <1>10, <1>11 DEF RelayInv

\* The inductive invariant holds.
LEMMA RelayInvariance == RelaySpec => []RelayInv
<1>1. (\E withRoles \in BOOLEAN : RelayInit(withRoles)) => RelayInv
  BY InitRelayInv
<1>2. RelayInv /\ [RelayNext]_relayVars => RelayInv'
  <2> SUFFICES ASSUME RelayInv, [RelayNext]_relayVars
               PROVE  RelayInv'
    OBVIOUS
  <2>1. CASE RelayNext
    <3>1. /\ SelectInv /\ TidyInv /\ SendInv /\ ReturnInv /\ AscendInv /\ StaleInv /\ PairInv
          /\ EchoInv
      BY DEF RelayInv
    <3>2. SelectInv' /\ TidyInv' /\ SendInv' /\ ReturnInv'
      BY <2>1, <3>1, NextSelectInv, NextTidyInv, NextSendInv, NextReturnInv
    <3>3. AscendInv' /\ StaleInv' /\ PairInv' /\ EchoInv'
      BY <2>1, <3>1, NextAscendInv, NextStaleInv, NextPairInv, NextEchoInv
    <3> QED
      BY <3>2, <3>3 DEF RelayInv
  <2>2. CASE UNCHANGED relayVars
    BY <2>2, RelayInvStutters
  <2> QED
    BY <2>1, <2>2
<1> QED
  BY <1>1, <1>2, PTL DEF RelaySpec

\* What a lone Sender and Receiver have got.
LEMMA AloneInOrder ==
  ASSUME RelayInv, NEW s \in Guests, NEW r \in Guests, Alone(s, r)
  PROVE  /\ \A i \in DOMAIN got[r] : got[r][i].n = got[r][1].n + i - 1
         /\ Len(got[s]) <= Len(got[r])
         /\ \A i \in DOMAIN got[s] : got[s][i] = got[r][i]
<1>1. RelayTypeOK /\ Pair(s, r)
  <2>1. Early(s, r)
    BY DEF Alone, Early
  <2> QED
    BY <2>1 DEF RelayInv, PairInv, SelectInv
<1>2. /\ Len(got[r]) \in Nat /\ DOMAIN got[r] = 1 .. Len(got[r])
      /\ Len(Recv(r)) \in Nat /\ DOMAIN Recv(r) = 1 .. Len(Recv(r)) /\ Len(got[r]) <= Len(Recv(r))
      /\ \A i \in 1 .. Len(got[r]) : Recv(r)[i] = got[r][i]
  BY <1>1, RecvParts
<1>3. /\ Len(got[s]) \in Nat /\ DOMAIN got[s] = 1 .. Len(got[s])
      /\ Len(Recv(s)) \in Nat /\ DOMAIN Recv(s) = 1 .. Len(Recv(s)) /\ Len(got[s]) <= Len(Recv(s))
      /\ \A i \in 1 .. Len(got[s]) : Recv(s)[i] = got[s][i]
  BY <1>1, RecvParts
<1>4. PICK b \in Int : b = Sent(s) - Len(up[s]) - Len(Recv(r))
  <2>1. PICK n \in Int, o \in Nat : n = next[s] /\ o = Owed(s)
    BY <1>1, RelayAssumption DEF RelayTypeOK, Owed
  <2>2. PICK j \in Nat, l \in Nat : j = Len(up[s]) /\ l = Len(Recv(r))
    BY <1>1, <1>2, UnitsUp
  <2>3. Sent(s) = n - o
    BY <2>1 DEF Sent
  <2>4. n - o - j - l \in Int
    OBVIOUS
  <2> QED
    BY <2>2, <2>3, <2>4
<1>5. \A i \in 1 .. Len(got[r]) : got[r][i].n = b + i
  <2> SUFFICES ASSUME NEW i \in 1 .. Len(got[r]) PROVE got[r][i].n = b + i
    OBVIOUS
  <2>1. i \in DOMAIN Recv(r)
    BY <1>2
  <2>2. Recv(r)[i] = Unit(s, b + i)
    BY <1>1, <1>4, <2>1 DEF Pair, PairStreams
  <2> QED
    BY <1>2, <2>2 DEF Unit
<1>6. \A i \in DOMAIN got[r] : got[r][i].n = got[r][1].n + i - 1
  <2> SUFFICES ASSUME NEW i \in 1 .. Len(got[r]) PROVE got[r][i].n = got[r][1].n + i - 1
    BY <1>2
  <2>1. 1 \in 1 .. Len(got[r]) /\ i \in Int
    BY <1>2
  <2>2. got[r][1].n = b + 1 /\ got[r][i].n = b + i
    BY <1>5, <2>1
  <2>3. b + i = b + 1 + i - 1
    BY <2>1
  <2> QED
    BY <2>2, <2>3
<1>7. \A i \in 1 .. Len(got[s]) : i <= Len(got[r]) /\ got[s][i] = got[r][i]
  <2> SUFFICES ASSUME NEW i \in 1 .. Len(got[s]) PROVE i <= Len(got[r]) /\ got[s][i] = got[r][i]
    OBVIOUS
  <2>1. i \in DOMAIN Recv(s)
    BY <1>3
  <2> QED
    BY <1>1, <1>3, <2>1 DEF Pair, PairStreams
<1>8. Len(got[s]) <= Len(got[r])
  <2>1. CASE Len(got[s]) = 0
    BY <1>2, <2>1
  <2>2. CASE Len(got[s]) # 0
    <3>1. Len(got[s]) \in 1 .. Len(got[s])
      BY <1>3, <2>2
    <3> QED
      BY <1>7, <3>1
  <2> QED
    BY <2>1, <2>2
<1> QED
  BY <1>3, <1>6, <1>7, <1>8

\* Nobody receives a Sender's blocks out of order or twice, whoever leaves, comes
\* late or takes over a role or a descriptor; between one Sender and one Receiver
\* none is left out, and they come back the same; an echo client receives what
\* it sent.
THEOREM RelayOrdered == RelaySpec => []RelayInOrder
<1>1. RelayInv => RelayInOrder
  <2> SUFFICES ASSUME RelayInv PROVE RelayInOrder
    OBVIOUS
  <2>1. ASSUME NEW c \in Guests PROVE Ascending(got[c])
    <3>1. /\ Len(got[c]) \in Nat /\ DOMAIN got[c] = 1 .. Len(got[c])
          /\ Len(Recv(c)) \in Nat /\ DOMAIN Recv(c) = 1 .. Len(Recv(c)) /\ Len(got[c]) <= Len(Recv(c))
          /\ \A i \in 1 .. Len(got[c]) : Recv(c)[i] = got[c][i]
      BY RecvParts DEF RelayInv, SelectInv
    <3>2. Ascending(Recv(c))
      BY DEF RelayInv, AscendInv
    <3>3. \A i \in DOMAIN got[c] : i \in DOMAIN Recv(c) /\ Recv(c)[i] = got[c][i]
      BY <3>1
    <3> QED
      BY <3>2, <3>3 DEF Ascending
  <2>2. ~relaying => \A c \in Guests : \A i \in DOMAIN got[c] : got[c][i] = Unit(c, i)
    BY DEF RelayInv, EchoInv
  <2> QED
    BY <2>1, <2>2, AloneInOrder DEF RelayInOrder
<1> QED
  BY <1>1, RelayInvariance, PTL

-----------------------------------------------------------------------------
(***************************************************************************)
(* The programs together.                                                  *)
(***************************************************************************)

\* Whichever program runs, each behaves as it does alone: the others leave its
\* variables as they are.
LEMMA EachAlone ==
  FairSpec => /\ PushSpec /\ GameSpec /\ SeqSpec /\ CalcSpec
              /\ ForkSpec /\ RelaySpec /\ ConvertSpec /\ FileSpec
<1>1. Init => /\ PushInit /\ GameInit /\ SeqInit /\ CalcInit /\ ConvertInit
              /\ FileInit
              /\ \E withStore \in BOOLEAN : ForkInit(withStore)
              /\ \E withRoles \in BOOLEAN : RelayInit(withRoles)
  BY DEF Init
<1>2. [Next]_labVars => [PushNext]_pushVars
  BY DEF Next, labVars
<1>3. [Next]_labVars => [GameNext]_gameVars
  BY DEF Next, labVars
<1>4. [Next]_labVars => [SeqNext]_seqVars
  BY DEF Next, labVars
<1>5. [Next]_labVars => [CalcNext]_calcVars
  BY DEF Next, labVars
<1>6. [Next]_labVars => [ForkNext]_forkVars
  BY DEF Next, labVars
<1>7. [Next]_labVars => [RelayNext]_relayVars
  BY DEF Next, labVars
<1>8. [Next]_labVars => [ConvertNext]_convVars
  BY DEF Next, labVars
<1>9. [Next]_labVars => [FileNext]_fileVars
  BY DEF Next, labVars
<1> QED
  BY <1>1, <1>2, <1>3, <1>4, <1>5, <1>6, <1>7, <1>8, <1>9, PTL
     DEF FairSpec, PushSpec, GameSpec, SeqSpec, CalcSpec, ForkSpec, RelaySpec, ConvertSpec,
         FileSpec

\* Whichever program runs, all variables keep their types.
THEOREM LabTypes == FairSpec => []TypeOK
<1>1. /\ PushTypeOK /\ GameTypeOK /\ SeqTypeOK /\ CalcTypeOK
      /\ ForkTypeOK /\ RelayTypeOK /\ ConvertTypeOK /\ FileTypeOK
      => TypeOK
  BY DEF TypeOK
<1> QED
  BY <1>1, EachAlone, PushTypes, GameTypes, SeqTypes, CalcTypes, ForkTypes, RelayTypes,
     ConvertTypes, FetchTypes, PTL

\* And what is proved of each of them holds of it among the others.
THEOREM LabCorrect ==
  FairSpec => /\ []PushInOrder /\ []TurnsAlternate /\ MarksKept /\ []TransferWhole
              /\ []CalculatedFromAll /\ []ZombiesAreMerged /\ []StoredInOrder
              /\ []SocketsCurrent /\ []RelayInOrder /\ []ShownIsAsked
              /\ []Prefix /\ []TotalsAgree /\ []OneServed
BY EachAlone, PushOrdered, GameTurns, GameMarks, SeqWhole, CalcWhole, ForkZombies, ForkStored,
   RelaySockets, RelayOrdered, ConvertShown, FetchPrefix, FetchTotals, FetchOneServed, PTL
=============================================================================

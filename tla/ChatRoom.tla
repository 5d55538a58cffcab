------------------------------ MODULE ChatRoom ------------------------------
(***************************************************************************)
(* What the chat server promises: a room.  Whatever a member says reaches  *)
(* every member of that moment, at once, the speaker included; members are *)
(* only removed after they hung up; nobody enters twice.                   *)
(***************************************************************************)
EXTENDS Naturals, Sequences

CONSTANTS Conn, MaxSent

VARIABLES here,     \* the clients that have not hung up
          joined,   \* the clients that ever entered
          members,  \* those in the room
          said,     \* how many messages each client has said
          log       \* what each client was told, in order

roomVars == <<here, joined, members, said, log>>

RoomInit ==
  /\ here = Conn
  /\ joined = {}
  /\ members = {}
  /\ said = [c \in Conn |-> 0]
  /\ log = [c \in Conn |-> <<>>]

HangUp(c) ==
  /\ here' = here \ {c}
  /\ UNCHANGED <<joined, members, said, log>>

Join(c) ==
  /\ c \notin joined
  /\ joined' = joined \cup {c}
  /\ members' = members \cup {c}
  /\ UNCHANGED <<here, said, log>>

Leave(c) ==
  /\ c \in members \ here
  /\ members' = members \ {c}
  /\ UNCHANGED <<here, joined, said, log>>

\* The next n messages of c, told to every member in one go.
Say(c, n) ==
  LET msgs == [i \in 1 .. n |-> [from |-> c, n |-> said[c] + i]]
  IN  /\ c \in members
      /\ said' = [said EXCEPT ![c] = @ + n]
      /\ log' = [d \in Conn |-> IF d \in members THEN log[d] \o msgs ELSE log[d]]
      /\ UNCHANGED <<here, joined, members>>

RoomNext ==
  \E c \in Conn :
    \/ HangUp(c) \/ Join(c) \/ Leave(c)
    \/ \E n \in 1 .. MaxSent - said[c] : Say(c, n)

RoomSpec == RoomInit /\ [][RoomNext]_roomVars

=============================================================================

---------------------------- MODULE SeatBooking ----------------------------
(***************************************************************************)
(* What the bus server promises: every request is decided in one step on   *)
(* the seat map of that moment.  Customers are known by their descriptor.  *)
(***************************************************************************)
EXTENDS Integers

CONSTANTS Customers, Seats

VARIABLES taken,    \* who has each seat, 0 for nobody
          verdict   \* the result of the last request

booking == <<taken, verdict>>

BookingInit == taken = [s \in Seats |-> 0] /\ verdict = 0

Inquire == verdict' = 0 /\ UNCHANGED taken

Book(f, s) ==
  \/ /\ taken[s] = 0
     /\ taken' = [taken EXCEPT ![s] = f]
     /\ verdict' = 0
  \/ /\ taken[s] # 0
     /\ verdict' = -2
     /\ UNCHANGED taken

Release(f, s) ==
  \/ taken[s] = 0 /\ verdict' = -3 /\ UNCHANGED taken
  \/ taken[s] \notin {0, f} /\ verdict' = -4 /\ UNCHANGED taken
  \/ taken[s] = f /\ verdict' = 0 /\ taken' = [taken EXCEPT ![s] = 0]

BookingNext ==
  \/ Inquire
  \/ \E f \in Customers, s \in Seats : Book(f, s) \/ Release(f, s)

BookingSpec == BookingInit /\ [][BookingNext]_booking

=============================================================================

---------------------------- MODULE BookingBoard ----------------------------
(***************************************************************************)
(* What the booking handlers promise together: a board on which a booking  *)
(* is entered, moved or taken off in one step, and is entered or moved     *)
(* only to seats that no other booking has at an overlapping time.         *)
(***************************************************************************)
EXTENDS Integers

CONSTANTS Bookings, Seats, Starts, Duration, None

VARIABLE board         \* board[b]: the seats and the start of booking b, or None

Entry == [seats : SUBSET Seats, start : Starts]

Clash(e, f) ==
    /\ e.seats \cap f.seats # {}
    /\ e.start < f.start + Duration
    /\ f.start < e.start + Duration

FreeFor(e, others) == \A o \in others : board[o] # None => ~Clash(e, board[o])

Init == board = [b \in Bookings |-> None]

Enter(b, e) ==
    /\ board[b] = None
    /\ FreeFor(e, Bookings)
    /\ board' = [board EXCEPT ![b] = e]

(* A booking is moved by entering a new one in its place.                  *)
Move(old, b, e) ==
    /\ board[b] = None
    /\ FreeFor(e, Bookings \ {old})
    /\ board' = [board EXCEPT ![b] = e, ![old] = None]

TakeOff(b) ==
    /\ board[b] # None
    /\ board' = [board EXCEPT ![b] = None]

Next ==
    \/ \E b \in Bookings : TakeOff(b)
    \/ \E b \in Bookings, e \in Entry :
          Enter(b, e) \/ \E old \in Bookings \ {b} : Move(old, b, e)

Spec == Init /\ [][Next]_board
=============================================================================

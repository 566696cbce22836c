------------------------- MODULE ReservationStatus -------------------------
(***************************************************************************)
(* The statuses of a reservation and the moves the staff may make by hand. *)
(***************************************************************************)

(* The statuses that occupy a slot.                                        *)
LiveStatus == {"Pending", "Confirmed"}

Status == LiveStatus \cup {"Completed", "Cancelled", "NoShow", "Modified"}

IsValidTransitionWithReopening(from, to) ==
    \/ from = "Pending"   /\ to \in {"Confirmed", "Cancelled"}
    \/ from = "Confirmed" /\ to \in {"Completed", "NoShow", "Cancelled", "Modified"}
    \/ from = "NoShow"    /\ to = "Confirmed"

(* UpdateReservationStatusCommandHandler.IsValidTransition                 *)
IsValidTransition(from, to) ==
    \/ from = "Pending"   /\ to \in {"Confirmed", "Cancelled"}
    \/ from = "Confirmed" /\ to \in {"Completed", "NoShow", "Cancelled", "Modified"}
=============================================================================

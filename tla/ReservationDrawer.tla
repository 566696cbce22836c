------------------------- MODULE ReservationDrawer -------------------------
(***************************************************************************)
(* The drawer that shows one reservation and sets its status, and the      *)
(* detail query behind it, whose answers are kept for minutes and are      *)
(* asked for again only after a change made on this page.  The handler of  *)
(* a change is one step here; its overlaps with others are in Lifecycle.   *)
(* The notes are shown only: the PUT that would save them has no endpoint. *)
(***************************************************************************)
EXTENDS Integers, FiniteSets, ReservationStatus

CONSTANTS Bookings, MaxRelabels     \* bound on status changes by this page

ASSUME DrawerAssumption == "none" \notin Bookings /\ MaxRelabels \in Nat

VARIABLES
    realStatus,     \* [Bookings -> Status], the server's
    detail,         \* [Bookings -> Status \cup {"none"}], the query's answers
    fetching,       \* [Bookings -> idle, sent, or the status that was read]
    selected,       \* the reservation of the drawer, or "none"
    drawerOpen,     \* a closed drawer goes on observing its reservation
    relabels,       \* status changes sent, saved or refused, not answered
    relabelled,     \* number of status changes so far
    foreign,        \* history: reservations changed by guests or other desks
    parted,         \* history: reservations left while being fetched
    blind           \* history: an answer was lost

looking == <<selected, drawerOpen>>
relabelling == <<relabels, relabelled>>
past == <<foreign, parted, blind>>
drawerVars == <<realStatus, detail, fetching, looking, relabelling, past>>

DrawerInit ==
    /\ realStatus \in [Bookings -> LiveStatus]
    /\ detail = [b \in Bookings |-> "none"] /\ fetching = [b \in Bookings |-> "idle"]
    /\ selected = "none" /\ drawerOpen = FALSE /\ relabels = {} /\ relabelled = 0
    /\ foreign = {} /\ parted = {} /\ blind = FALSE

Parted(b) ==
    parted' = IF selected \notin {"none", b} /\ fetching[selected] # "idle"
              THEN parted \cup {selected} ELSE parted

(* A click on a block of the timeline or of the list.  The query shows     *)
(* what it has, and asks when it has nothing or something old.             *)
OpenDrawer(b) ==
    /\ ~drawerOpen /\ drawerOpen' = TRUE /\ selected' = b
    /\ \/ fetching[b] = "idle" /\ fetching' = [fetching EXCEPT ![b] = "sent"]
       \/ (detail[b] # "none" \/ fetching[b] # "idle") /\ UNCHANGED fetching
    /\ Parted(b)
    /\ UNCHANGED <<realStatus, detail, relabelling, foreign, blind>>
CloseDrawer ==
    /\ drawerOpen /\ drawerOpen' = FALSE
    /\ UNCHANGED <<realStatus, detail, fetching, selected, relabelling, past>>
LeavePage ==
    /\ ~drawerOpen /\ selected' = "none" /\ Parted("none")
    /\ UNCHANGED <<realStatus, detail, fetching, drawerOpen, relabelling, foreign, blind>>

ReadDetail(b) ==
    /\ fetching[b] = "sent"
    /\ fetching' = [fetching EXCEPT ![b] = realStatus[b]]
    /\ UNCHANGED <<realStatus, detail, looking, relabelling, past>>
DetailArrives(b) ==
    /\ fetching[b] \in Status
    /\ detail' = [detail EXCEPT ![b] = fetching[b]]
    /\ fetching' = [fetching EXCEPT ![b] = "idle"]
    /\ UNCHANGED <<realStatus, looking, relabelling, past>>
DetailFails(b) ==
    /\ fetching[b] # "idle"
    /\ fetching' = [fetching EXCEPT ![b] = "idle"] /\ blind' = TRUE
    /\ UNCHANGED <<realStatus, detail, looking, relabelling, foreign, parted>>

(* A confirmed reservation has three buttons, any other has none; they can *)
(* be clicked again while a change is under way.                           *)
Offered(status) == IF status = "Confirmed" THEN {"Completed", "NoShow", "Cancelled"} ELSE {}
ClickStatus ==
    /\ drawerOpen /\ relabelled < MaxRelabels
    /\ \E s \in (IF detail[selected] = "none" THEN {} ELSE Offered(detail[selected])) :
          relabels' = relabels \cup
            {[id |-> relabelled + 1, of |-> selected, to |-> s, at |-> "sent"]}
    /\ relabelled' = relabelled + 1
    /\ UNCHANGED <<realStatus, detail, fetching, looking, past>>

Decided(c, at) == relabels' = (relabels \ {c}) \cup {[c EXCEPT !.at = at]}
HandleRelabel(c) ==
    /\ c.at = "sent"
    /\ IF IsValidTransition(realStatus[c.of], c.to)
       THEN realStatus' = [realStatus EXCEPT ![c.of] = c.to] /\ Decided(c, "saved")
       ELSE UNCHANGED realStatus /\ Decided(c, "refused")
    /\ UNCHANGED <<detail, fetching, looking, relabelled, past>>

InvalidateIfUnasked(b) ==
    IF selected = b
    THEN fetching' = [fetching EXCEPT ![b] = IF @ = "idle" THEN "sent" ELSE @] /\ UNCHANGED detail
    ELSE detail' = [detail EXCEPT ![b] = "none"] /\ UNCHANGED fetching

(* Invalidating drops a fetch under way of the reservation selected and    *)
(* asks again.  Of any other it only says that its detail is old; a fetch  *)
(* under way arrives, and passes for new.                                  *)
Invalidate(b) ==
    IF selected = b THEN fetching' = [fetching EXCEPT ![b] = "sent"] /\ UNCHANGED detail
    ELSE detail' = [detail EXCEPT ![b] = "none"] /\ UNCHANGED fetching
RelabelAnswered(c) ==
    /\ c.at # "sent" /\ relabels' = relabels \ {c}
    /\ IF c.at = "saved" THEN Invalidate(c.of) ELSE UNCHANGED <<fetching, detail>>
    /\ UNCHANGED <<realStatus, looking, relabelled, past>>
RelabelLost(c) ==
    /\ relabels' = relabels \ {c} /\ blind' = TRUE
    /\ UNCHANGED <<realStatus, detail, fetching, looking, relabelled, foreign, parted>>

(* Guests cancel and move, deposits are paid, another desk is at work;     *)
(* bounded to once per reservation.                                        *)
OthersRelabel(b) ==
    /\ b \notin foreign
    /\ \E s \in Status :
          /\ IsValidTransition(realStatus[b], s)
          /\ realStatus' = [realStatus EXCEPT ![b] = s]
    /\ foreign' = foreign \cup {b}
    /\ UNCHANGED <<detail, fetching, looking, relabelling, parted, blind>>

DrawerNext ==
    \/ \E b \in Bookings : \/ OpenDrawer(b) \/ ReadDetail(b)
                           \/ DetailArrives(b) \/ DetailFails(b) \/ OthersRelabel(b)
    \/ \E c \in relabels : HandleRelabel(c) \/ RelabelAnswered(c) \/ RelabelLost(c)
    \/ CloseDrawer \/ LeavePage \/ ClickStatus

DrawerSpec == DrawerInit /\ [][DrawerNext]_drawerVars
-----------------------------------------------------------------------------
DrawerTypeOK ==
    /\ realStatus \in [Bookings -> Status] /\ detail \in [Bookings -> Status \cup {"none"}]
    /\ fetching \in [Bookings -> Status \cup {"idle", "sent"}]
    /\ selected \in Bookings \cup {"none"} /\ {drawerOpen, blind} \subseteq BOOLEAN
    /\ foreign \subseteq Bookings /\ parted \subseteq Bookings
    /\ relabelled \in 0 .. MaxRelabels
    /\ relabels \subseteq [id : 1 .. MaxRelabels, of : Bookings, to : Status,
                           at : {"sent", "saved", "refused"}]

(* What the page itself has changed it shows as changed, once nothing is   *)
(* under way: however clicks, fetches, closing and opening again overlap,  *)
(* an answer read before the change never stays.  An old status is left on *)
(* show by a lost answer, by somebody else's change, or when the owner has *)
(* turned to another reservation in the middle of a fetch.                 *)
OwnChangesAreShown ==
    \A b \in Bookings \ (foreign \cup parted) :
        ~blind /\ fetching[b] = "idle" /\ (\A c \in relabels : c.of # b) =>
            detail[b] \in {"none", realStatus[b]}
=============================================================================

-------------------------- MODULE ReservationDesk --------------------------
(***************************************************************************)
(* The reservations page of the admin panel: a day's page of tables and    *)
(* hours, and the dialog that books by hand, with its rule check.  Hours   *)
(* are those of the venue's clock, instants count hours of UTC.  Guests'   *)
(* details are left out, and the search for a customer: the request that   *)
(* is sent names none.                                                     *)
(***************************************************************************)
EXTENDS Integers, FiniteSets

CONSTANTS
    DeskTables, DeskDays, DeskHours,
    UtcOffset,      \* of the venue, in hours
    PageSize,       \* rows the list endpoint returns when not told, 20
    MaxOpenings, MaxSubmits, MaxChecks  \* bounds: openings of the dialog,
                                        \* submits, checks under way

ASSUME DeskAssumption ==
    /\ DeskDays \subseteq Nat /\ DeskHours \subseteq 0 .. 23
    /\ {UtcOffset, PageSize, MaxOpenings, MaxSubmits, MaxChecks} \subseteq Nat

VARIABLES
    day,            \* selectedDate
    preset,         \* presetSlot: table and hour, never taken back
    dialog,         \* the booking dialog
    checking,       \* number of rule checks sent and not answered
    creating,       \* creations sent and not answered
    deskRows,       \* the server's reservations
    openings, submits,
    troubles        \* history: answers lost, dialogs left while creating

deskVars == <<day, preset, dialog, checking, creating, deskRows, openings, submits,
              troubles>>

BookingForm == [table : DeskTables \cup {"none"}, day : DeskDays \cup {0},
                hour : DeskHours \cup {24}, clicked : BOOLEAN]
NoHour == 24
NoForm == [table |-> "none", day |-> 0, hour |-> NoHour, clicked |-> FALSE]
Dialog == [open : BOOLEAN, form : BookingForm, result : {"none", "allowed", "blocked"},
           override : BOOLEAN, submitting : BOOLEAN]
DeskRow == [id : 1 .. MaxSubmits, of : 1 .. MaxOpenings, form : BookingForm, at : Int,
            live : BOOLEAN, bypass : BOOLEAN]

WallClock(d, h) == 24 * d + h

(* buildReservedForIso: the local date and time, as an instant.            *)
ReservedFor(d, h) == 24 * d + h - UtcOffset

(* useReservations asks for a UTC day, and the answer is the first rows of *)
(* that day; a table's row draws a block at its local hour.                *)
OfUtcDay(d) == {r \in deskRows : r.at >= 24 * d /\ r.at < 24 * (d + 1)}
OnPage(d) ==
    {r \in OfUtcDay(d) : Cardinality({x \in OfUtcDay(d) : x.at < r.at}) < PageSize}
DrawnAt(r) == (r.at + UtcOffset) % 24
TimeSlots == DeskHours \cap 10 .. 23

DeskInit ==
    /\ day \in DeskDays /\ preset = [table |-> "none", hour |-> NoHour]
    /\ dialog = [open |-> FALSE, form |-> NoForm, result |-> "none", override |-> FALSE,
                 submitting |-> FALSE]
    /\ checking = 0 /\ creating = {} /\ deskRows = {}
    /\ openings = 0 /\ submits = 0 /\ troubles = {}

calendar == <<day, preset>>
counts == <<openings, submits, troubles>>
booking == <<dialog, checking, creating, counts>>

(* A bound: the page is idle after the last submit.                        *)
AtWork == submits < MaxSubmits
AtDesk == ~dialog.open /\ AtWork

ChangeDay ==
    /\ AtDesk /\ day' \in DeskDays
    /\ UNCHANGED <<preset, booking, deskRows>>

-----------------------------------------------------------------------------
(* The booking dialog.                                                     *)

(* The effect on "open" clears everything a former opening left behind.    *)
Cleared(p) ==
    [open |-> TRUE, result |-> "none", override |-> FALSE, submitting |-> FALSE,
     form |-> [table |-> p.table, day |-> day, hour |-> p.hour, clicked |-> p.hour # NoHour]]

OpenDialog(p) ==
    /\ AtDesk /\ openings < MaxOpenings
    /\ preset' = p
    /\ dialog' = Cleared(p)
    /\ openings' = openings + 1
    /\ UNCHANGED <<day, checking, creating, deskRows, submits, troubles>>
ClickSlot == \E t \in DeskTables, h \in TimeSlots : OpenDialog([table |-> t, hour |-> h])
NewReservation == OpenDialog(preset)

EditForm ==
    /\ dialog.open /\ AtWork
    /\ \E t \in DeskTables, h \in DeskHours :
          dialog' = [dialog EXCEPT !.form.table = t, !.form.hour = h, !.form.clicked = FALSE]
    /\ UNCHANGED <<calendar, checking, creating, counts, deskRows>>

(* handleCheckRules.  The answer is shown by whatever dialog is there.     *)
CheckRules ==
    /\ dialog.open /\ AtWork /\ checking < MaxChecks
    /\ checking' = checking + 1
    /\ UNCHANGED <<calendar, dialog, creating, counts, deskRows>>
CheckAnswered ==
    /\ checking > 0 /\ checking' = checking - 1
    /\ \E verdict \in {"allowed", "blocked", dialog.result} :   \* or an error
          dialog' = [dialog EXCEPT !.result = verdict]
    /\ UNCHANGED <<calendar, creating, counts, deskRows>>

(* The box is drawn under a blocking verdict only, and keeps its tick when *)
(* it is not drawn.                                                        *)
TickOverride ==
    /\ dialog.open /\ AtWork /\ dialog.result = "blocked"
    /\ dialog' = [dialog EXCEPT !.override = ~@]
    /\ UNCHANGED <<calendar, checking, creating, openings, submits, troubles, deskRows>>

MayCreateTwice == dialog.result = "blocked" => dialog.override
MayCreate == ~dialog.submitting /\ (dialog.result = "blocked" => dialog.override)

SubmitReservation ==
    /\ dialog.open /\ MayCreate /\ submits < MaxSubmits
    /\ dialog.form.table # "none" /\ dialog.form.hour # NoHour
    /\ dialog' = [dialog EXCEPT !.submitting = TRUE]
    /\ submits' = submits + 1
    /\ creating' = creating \cup
         {[id |-> submits + 1, of |-> openings, form |-> dialog.form, bypass |-> dialog.override,
           at |-> "sent"]}
    /\ UNCHANGED <<calendar, checking, openings, troubles, deskRows>>

(* "Iptal", Escape, a click beside the dialog, at any time.                *)
CloseDialog ==
    /\ dialog.open
    /\ dialog' = [dialog EXCEPT !.open = FALSE]
    /\ troubles' = IF dialog.submitting THEN troubles \cup {"left"} ELSE troubles
    /\ UNCHANGED <<calendar, checking, creating, openings, submits, deskRows>>

Answer(c, at) == creating' = (creating \ {c}) \cup {[c EXCEPT !.at = at]}

(* CreateManualReservationCommandHandler; its race with other bookings is  *)
(* the subject of Booking.                                                 *)
CreateReservation(c) ==
    /\ c.at = "sent"
    /\ ~\E r \in deskRows : /\ r.form.table = c.form.table /\ r.live
                            /\ r.at = ReservedFor(c.form.day, c.form.hour)
    /\ deskRows' = deskRows \cup
         {[id |-> c.id, of |-> c.of, form |-> c.form, live |-> TRUE, bypass |-> c.bypass,
           at |-> ReservedFor(c.form.day, c.form.hour)]}
    /\ Answer(c, "made")
    /\ UNCHANGED <<calendar, dialog, checking, counts>>

(* No free table, a rule, a guest or a form the server does not accept.    *)
RefuseReservation(c) ==
    /\ c.at = "sent" /\ Answer(c, "refused")
    /\ UNCHANGED <<calendar, dialog, checking, counts, deskRows>>

(* Success closes the dialog, and either answer ends its "submitting",     *)
(* whichever opening it belongs to.                                        *)
CreationAnswered(c) ==
    /\ c.at # "sent"
    /\ creating' = creating \ {c}
    /\ dialog' = [dialog EXCEPT !.submitting = FALSE, !.open = @ /\ c.at = "refused"]
    /\ UNCHANGED <<calendar, checking, counts, deskRows>>
CreationLost(c) ==
    /\ creating' = creating \ {c}
    /\ dialog' = [dialog EXCEPT !.submitting = FALSE]
    /\ troubles' = troubles \cup {"lost"}
    /\ UNCHANGED <<calendar, checking, openings, submits, deskRows>>

(* Cancelled, by the guest or by the staff, or ended in another way.       *)
SlotComesFree ==
    /\ \E r \in deskRows : r.live /\ deskRows' = (deskRows \ {r}) \cup {[r EXCEPT !.live = FALSE]}
    /\ UNCHANGED <<calendar, booking>>

DeskNext ==
    \/ ChangeDay \/ ClickSlot \/ NewReservation \/ EditForm \/ CheckRules \/ CheckAnswered
    \/ TickOverride \/ SubmitReservation \/ CloseDialog
    \/ \E c \in creating : \/ CreateReservation(c) \/ RefuseReservation(c)
                           \/ CreationAnswered(c) \/ CreationLost(c)
    \/ SlotComesFree

DeskSpec == DeskInit /\ [][DeskNext]_deskVars
-----------------------------------------------------------------------------
DeskTypeOK ==
    /\ day \in DeskDays /\ dialog \in Dialog /\ deskRows \subseteq DeskRow
    /\ checking \in 0 .. MaxChecks
    /\ openings \in 0 .. MaxOpenings /\ submits \in 0 .. MaxSubmits
    /\ troubles \subseteq {"lost", "left"}

(* A reservation made in a clicked slot is on that day's page, under that  *)
(* hour, as long as the day has no more rows than one answer of the list   *)
(* holds: the page's UTC day and the form's local hour agree for all hours *)
(* that can be clicked.                                                    *)
BookedWhereClicked ==
    \A r \in deskRows : r.form.clicked /\ Cardinality(OfUtcDay(r.form.day)) <= PageSize =>
        r \in OnPage(r.form.day) /\ DrawnAt(r) = r.form.hour

(* One opening of the dialog makes one reservation, unless an answer was   *)
(* lost, or a dialog was left while it was creating: the answer that comes *)
(* then frees the button of the next dialog.                               *)
OneBookingPerOpening ==
    troubles = {} => \A r, x \in deskRows : r.of = x.of => r = x
=============================================================================

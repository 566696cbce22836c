---------------------------- MODULE GuestWizard ----------------------------
(***************************************************************************)
(* The guest's booking wizard (frontend/booking-ui): five steps that fill  *)
(* one BookingPage, the two queries and the mutation behind them, and the  *)
(* server's two views of a slot, the one that lists it and the one that    *)
(* accepts a reservation.  Step 4's fields are in GuestForm; the server's  *)
(* work on one POST is one step here and several in Booking.               *)
(* Dates are day numbers with today = 0, times are local hours.            *)
(***************************************************************************)
EXTENDS Integers, FiniteSets

CONSTANTS
    Days, Times, Tables, Combos,
    Members,            \* [Combos -> SUBSET Tables]
    Capacity,           \* [Tables \cup Combos -> Nat]
    MaxParty,           \* 20 in Step2TimeAndPeople
    AdvanceDays,        \* advanceBookingDays of the venue
    ClosedDays,         \* closed weekdays and closures, as days
    Now,                \* the hour of day 0 at which the wizard is used
    Offset, Duration,   \* UTC offset of the guest and venue; slot length
    MaxAttempts,        \* bound on clicks on "Rezervasyon Yap"
    OthersMay,          \* bound: what other guests may book, <<day, time, table>>
    None

Seats == Tables \cup Combos

ASSUME GuestAssumption ==
    /\ Days \subseteq Nat /\ Times \subseteq 0 .. 23 /\ None \notin Seats
    /\ Members \in [Combos -> SUBSET Tables] /\ Capacity \in [Seats -> Nat]
    /\ OthersMay \subseteq Days \X Times \X Tables
    /\ {MaxParty, AdvanceDays, Offset, Duration, MaxAttempts} \subseteq Nat
    /\ MaxParty >= 2    \* the size the page starts with

VARIABLES
    currentStep, selectedDate, partySize, selectedSlot, selectedTableIds,
    selectedCombinationId,  \* BookingPage's useState
    slots,          \* what the availability query holds for the current key
    blocked,        \* the evaluate query holds a blocking verdict for its key
    reserve,        \* the mutation in flight, None when it is not pending
    timers,         \* navigations set by setTimeout
    page,           \* "wizard", "confirm" (loading) or "blank"
    rows,           \* the server's reservations
    attempts,
    lost, hasty     \* history: answers lost, clicks made while a navigation was due

choices == <<selectedDate, partySize, selectedSlot, selectedTableIds,
             selectedCombinationId>>
queries == <<slots, blocked>>
sending == <<reserve, timers, rows, attempts, lost, hasty>>
vars == <<currentStep, choices, queries, sending, page>>

Slot == [time : Times, tables : SUBSET Tables, combos : SUBSET Combos]
Row == [of : 0 .. MaxAttempts, date : Days, time : Times, size : 1 .. MaxParty,
        table : Tables \cup {None}, combo : Combos \cup {None}]
Request == [date : Days, time : Times, size : 1 .. MaxParty,
            table : Tables \cup {None}, combo : Combos \cup {None}]
InFlight == [request : Request, at : {"sent", "committed", "refused"}]

ASSUME NoneAssumption == None \notin Days /\ None \notin Slot /\ None \notin InFlight

-----------------------------------------------------------------------------
(* The server.  A reservation is stored at its UTC instant.                *)

Overlap(a, b) == a < b + Duration /\ b < a + Duration
Instant(d, t) == 24 * d + t - Offset
At(r) == Instant(r.date, r.time)

(* GetAvailableSlotsAsync counts the hours of the day from midnight UTC,   *)
(* and looks at the reservations of that UTC day.                          *)
ListedInstant(d, t) == 24 * d + t
Meets(r, at) == At(r) \div 24 = at \div 24 /\ Overlap(At(r), at)

TableOccupied(t, at) ==
    \E r \in rows : /\ Meets(r, at)
                    /\ r.table = t \/ (r.combo # None /\ t \in Members[r.combo])
CombinationOccupied(c, at) ==
    \E r \in rows : Meets(r, at) /\ (r.combo = c \/ r.table \in Members[c])

SlotAt(d, t, size) ==
    [time |-> t,
     tables |-> {x \in Tables : Capacity[x] >= size /\ ~TableOccupied(x, ListedInstant(d, t))},
     combos |-> {c \in Combos : /\ Capacity[c] >= size
                                /\ ~CombinationOccupied(c, ListedInstant(d, t))}]
AvailableSlots(d, size) ==
    {s \in {SlotAt(d, t, size) : t \in Times} : s.tables # {} \/ s.combos # {}}

(* CheckSlotAvailabilityAsync: the tables and combinations it would settle *)
(* on.  A named table is looked up by TableId only; a named combination is *)
(* not looked up at all.                                                   *)
TakenTables(at) == {r.table : r \in {x \in rows : Overlap(At(x), at)}}
FreeTablesOfAnySize(at, size) == Tables \ TakenTables(at)
FreeTables(at, size) == {t \in Tables \ TakenTables(at) : Capacity[t] >= size}
FreeCombos(at, size) ==
    {c \in Combos : /\ Capacity[c] >= size
                    /\ Members[c] \cap TakenTables(at) = {}
                    /\ \A r \in rows : Overlap(At(r), at) => r.combo # c}
CheckSlot(q) ==
    LET at == Instant(q.date, q.time)
        tables == FreeTables(at, q.size)
    IN  IF q.table # None THEN {<<t, None>> : t \in tables \cap {q.table}}
        ELSE IF tables # {} THEN {<<t, None>> : t \in tables}
        ELSE {<<None, c>> : c \in FreeCombos(at, q.size)}

NewRow(q, n, seat) ==
    [of |-> n, date |-> q.date, time |-> q.time, size |-> q.size, table |-> seat[1],
     combo |-> IF q.combo # None THEN q.combo ELSE seat[2]]

OthersBook ==
    /\ \E o \in OthersMay :
          LET q == [date |-> o[1], time |-> o[2], size |-> 1, table |-> o[3], combo |-> None]
          IN  \E seat \in CheckSlot(q) : rows' = rows \cup {NewRow(q, 0, seat)}
    /\ UNCHANGED <<currentStep, choices, queries, reserve, timers, attempts, lost, hasty,
                   page>>

-----------------------------------------------------------------------------
(* Steps 1 to 3.                                                           *)

Goto(from, to) == page = "wizard" /\ currentStep = from /\ currentStep' = to

(* A calendar day the guest may click.                                     *)
Selectable(d) == d \in 0 .. AdvanceDays /\ d \notin ClosedDays

PickDate ==
    /\ Goto(1, 1)
    /\ \E d \in Days : Selectable(d) /\ selectedDate' = d
    /\ UNCHANGED <<partySize, selectedSlot, selectedTableIds, selectedCombinationId,
                   queries, sending, page>>

LeaveStep1 ==
    /\ Goto(1, 2)
    /\ selectedDate # None
    /\ UNCHANGED <<choices, queries, sending, page>>

(* The list of the current key arrives, the first time or again.  It is    *)
(* forgotten when the key changes and when the guest leaves the step: the  *)
(* query's minute of cache is a list that aged on this step as well.       *)
FetchAvailability ==
    /\ Goto(2, 2)
    /\ slots' = AvailableSlots(selectedDate, partySize)
    /\ UNCHANGED <<choices, blocked, sending, page>>

ChangePartySizeFreely ==
    /\ Goto(2, 2)
    /\ partySize' \in {partySize - 1, partySize + 1}
    /\ slots' = None
    /\ UNCHANGED <<selectedDate, selectedSlot, selectedTableIds, selectedCombinationId,
                   blocked, sending, page>>

(* The stepper stops at one and at MaxParty.                               *)
ChangePartySize ==
    /\ Goto(2, 2)
    /\ partySize' \in {partySize - 1, partySize + 1} \cap 1 .. MaxParty
    /\ slots' = None
    /\ UNCHANGED <<selectedDate, selectedSlot, selectedTableIds, selectedCombinationId,
                   blocked, sending, page>>

(* Today's list leaves out the hours that have passed.                     *)
VisibleSlots ==
    IF slots = None THEN {} ELSE {s \in slots : selectedDate = 0 => s.time > Now}

PickSlot ==
    /\ Goto(2, 2)
    /\ selectedSlot' \in VisibleSlots
    /\ UNCHANGED <<selectedDate, partySize, selectedTableIds, selectedCombinationId,
                   queries, sending, page>>

LeaveStep2 ==
    /\ Goto(2, 1) \/ (Goto(2, 3) /\ selectedSlot # None)
    /\ slots' = None
    /\ UNCHANGED <<choices, blocked, sending, page>>

(* Choosing "automatic", a table or a combination; a combination travels   *)
(* as its own only table (mapAvailabilityFromApi).                         *)
SelectSeat(tableIds, combination) ==
    /\ Goto(3, 3)
    /\ selectedTableIds' = tableIds
    /\ selectedCombinationId' = combination
    /\ UNCHANGED <<selectedDate, partySize, selectedSlot, queries, sending, page>>

AutoSelect == SelectSeat(None, None)
TableSelect == selectedSlot # None /\ \E t \in selectedSlot.tables : SelectSeat(t, None)
CombinationSelect == selectedSlot # None /\ \E c \in selectedSlot.combos : SelectSeat(c, c)

LeaveStep3 ==
    /\ Goto(3, 2) \/ Goto(3, 4)
    /\ UNCHANGED <<choices, queries, sending, page>>

-----------------------------------------------------------------------------
(* Steps 4 and 5.                                                          *)

(* The evaluate query's key is the request, which does not change between  *)
(* steps 4 and 5; on step 4 it is asked once the debounced fields are      *)
(* filled.  The verdict is forgotten on the way back: its half minute of   *)
(* cache only repeats what a new answer may say.                           *)
FetchEvaluation ==
    /\ page = "wizard" /\ currentStep \in {4, 5}
    /\ blocked' \in BOOLEAN
    /\ UNCHANGED <<currentStep, choices, slots, sending, page>>

(* handleSubmit: the form is valid, consent given; while the verdict is    *)
(* unknown the guest is not held back, and step 5 does not look at it.     *)
SubmitInfo ==
    /\ Goto(4, 5)
    /\ ~blocked
    /\ UNCHANGED <<choices, queries, sending, page>>

BackFromStep4 ==
    /\ Goto(4, 3)
    /\ blocked' = FALSE
    /\ UNCHANGED <<choices, slots, sending, page>>

(* "Geri" is disabled while the request is pending.                        *)
BackFromStep5 ==
    /\ Goto(5, 4)
    /\ reserve = None
    /\ UNCHANGED <<choices, queries, sending, page>>

ReservationRequest ==
    [date |-> selectedDate, time |-> selectedSlot.time, size |-> partySize,
     table |-> IF selectedCombinationId = None THEN selectedTableIds ELSE None,
     combo |-> selectedCombinationId]

ReserveAgain ==
    /\ Goto(5, 5)
    /\ attempts < MaxAttempts
    /\ attempts' = attempts + 1
    /\ reserve' = [request |-> ReservationRequest, at |-> "sent"]
    /\ hasty' = IF timers # {} THEN hasty + 1 ELSE hasty
    /\ UNCHANGED <<choices, queries, timers, rows, lost, page>>

(* handleReserve up to its await.  The interceptor stamps every POST with  *)
(* a new Idempotency-Key, so that no two attempts are one to the server.   *)
Reserve ==
    /\ Goto(5, 5)
    /\ reserve = None
    /\ attempts < MaxAttempts
    /\ attempts' = attempts + 1
    /\ reserve' = [request |-> ReservationRequest, at |-> "sent"]
    /\ hasty' = IF timers # {} THEN hasty + 1 ELSE hasty
    /\ UNCHANGED <<choices, queries, timers, rows, lost, page>>

Sent == reserve # None /\ reserve.at = "sent"
Decide(at) ==
    /\ reserve' = [reserve EXCEPT !.at = at]
    /\ UNCHANGED <<currentStep, choices, queries, timers, attempts, lost, hasty, page>>

(* ReserveCommand commits, or refuses: nothing free, a rule, an exception. *)
ServerCommits ==
    /\ Sent
    /\ \E seat \in CheckSlot(reserve.request) :
          rows' = rows \cup {NewRow(reserve.request, attempts, seat)}
    /\ Decide("committed")
ServerRefuses == Sent /\ Decide("refused") /\ UNCHANGED rows

(* navigate() does nothing once the page is blank.                         *)
Open(p) == page' = IF page = "blank" THEN page ELSE p

(* The answer of a commit: at once to the confirmation page, or, when a    *)
(* deposit is due, a second later, with the page usable until then.        *)
AnswerCommitted ==
    /\ reserve # None /\ reserve.at = "committed"
    /\ reserve' = None
    /\ \/ Open("confirm") /\ UNCHANGED timers
       \/ timers' = timers \cup {attempts} /\ UNCHANGED page
    /\ UNCHANGED <<currentStep, choices, queries, rows, attempts, lost, hasty>>

AnswerRefused ==
    /\ reserve # None /\ reserve.at = "refused"
    /\ reserve' = None
    /\ UNCHANGED <<currentStep, choices, queries, timers, rows, attempts, lost, hasty, page>>

(* The request or its answer is lost; the guest reads an error either way. *)
AnswerLost ==
    /\ reserve # None
    /\ reserve' = None
    /\ lost' = lost + 1
    /\ UNCHANGED <<currentStep, choices, queries, timers, rows, attempts, hasty, page>>

NavigateLaterNever == FALSE

(* setTimeout(() => navigate(...), 1000)                                   *)
NavigateLater ==
    /\ \E n \in timers : timers' = timers \ {n}
    /\ Open("confirm")
    /\ UNCHANGED <<currentStep, choices, queries, reserve, rows, attempts, lost, hasty>>

(* The pages opened by a confirmation code show fields that the detail     *)
(* endpoint does not send; formatDate(undefined) and maskEmail(undefined)  *)
(* throw, and no error boundary catches it.                                *)
DetailServed == {"confirmCode", "status", "guestName", "reservedFor", "endTime", "partySize",
                 "venueName", "tableName", "specialRequests", "depositStatus",
                 "depositAmount", "canModify", "canCancel"}
ConfirmPageNeeds == {"customerEmail", "date", "tables"}

OpenConfirmation ==
    /\ page = "confirm"
    /\ page' = IF ConfirmPageNeeds \subseteq DetailServed THEN "shown" ELSE "blank"
    /\ UNCHANGED <<currentStep, choices, queries, sending>>

-----------------------------------------------------------------------------
Init ==
    /\ currentStep = 1 /\ selectedDate = None /\ partySize = 2 /\ selectedSlot = None
    /\ selectedTableIds = None /\ selectedCombinationId = None
    /\ slots = None /\ blocked = FALSE
    /\ reserve = None /\ timers = {} /\ page = "wizard" /\ rows = {} /\ attempts = 0
    /\ lost = 0 /\ hasty = 0

Guest == \/ PickDate \/ LeaveStep1 \/ ChangePartySize \/ PickSlot \/ LeaveStep2
         \/ AutoSelect \/ TableSelect \/ CombinationSelect \/ LeaveStep3
         \/ SubmitInfo \/ BackFromStep4 \/ BackFromStep5 \/ Reserve
Network == \/ FetchAvailability \/ FetchEvaluation \/ AnswerCommitted \/ AnswerRefused
           \/ AnswerLost \/ NavigateLater \/ OpenConfirmation
Server == ServerCommits \/ ServerRefuses \/ OthersBook
Next == Guest \/ Network \/ Server

Spec == Init /\ [][Next]_vars

(* A request is decided or given up, an answer is handled and a timer      *)
(* fires; what the guest does is up to the guest.                          *)
Fairness == /\ WF_vars(ServerCommits \/ ServerRefuses)
            /\ WF_vars(AnswerCommitted \/ AnswerRefused \/ AnswerLost)
            /\ WF_vars(NavigateLater)
FairSpec == Spec /\ Fairness
-----------------------------------------------------------------------------
TypeOK ==
    /\ currentStep \in 1 .. 5 /\ selectedDate \in Days \cup {None}
    /\ partySize \in 1 .. MaxParty /\ selectedSlot \in Slot \cup {None}
    /\ selectedTableIds \in Seats \cup {None}
    /\ selectedCombinationId \in Combos \cup {None} /\ blocked \in BOOLEAN
    /\ reserve \in InFlight \cup {None}
    /\ rows \subseteq Row /\ page \in {"wizard", "confirm", "shown", "blank"}
    /\ {attempts, lost, hasty} \subseteq 0 .. MaxAttempts /\ timers \subseteq 1 .. MaxAttempts

Own == {r \in rows : r.of # 0}

(* A guest ends up with more bookings than one only if an answer was lost, *)
(* or if "Rezervasyon Yap" was clicked again in the second that a deposit  *)
(* booking waits for its navigation: nothing else in the wizard, going     *)
(* back and forth included, sends a second request after a first success.  *)
SecondBookingNeedsLostAnswer == Cardinality(Own) <= 1 + lost + hasty

(* Whatever day, size or list the chosen slot was taken from, a booking    *)
(* that names a table has one that is large enough, and no two bookings    *)
(* hold one table at overlapping instants.                                 *)
StalePickNeverSeats ==
    \A r \in rows : r.table # None =>
        /\ Capacity[r.table] >= r.size
        /\ \A x \in rows \ {r} : x.table = r.table => ~Overlap(At(x), At(r))

(* A booking the server committed brings the guest to its confirmation     *)
(* page, through the delayed navigation of a deposit too, unless its       *)
(* answer is lost.                                                         *)
BookedGuestIsTaken ==
    \A n \in 1 .. MaxAttempts :
        (\E r \in rows : r.of = n) ~> (page # "wizard" \/ lost > 0)
=============================================================================

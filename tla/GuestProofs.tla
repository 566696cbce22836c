---------------------------- MODULE GuestProofs -----------------------------
(***************************************************************************)
(* The guest's wizard, for any days, tables, parties and number of         *)
(* attempts.  Bookings apart: the check looks the table up at the instant  *)
(* that is stored, so what the wizard had on its page does not matter.     *)
(* One booking: a success is behind the guest for good when no answer is   *)
(* due, and a request is in flight at most once, so every booking but one  *)
(* is paid for by a lost answer or a hasty click.                          *)
(* The form: a verdict that is shown allows what it says only when the     *)
(* rules could not be read or refuse none of the facts told of the key,    *)
(* and a summary is reached with the verdict on what it shows.             *)
(***************************************************************************)
EXTENDS MCGuest, FiniteSetTheorems, TLAPS

(* What the server stores.                                                 *)
LEMMA OverlapSymmetric == \A s, t : Overlap(s, t) <=> Overlap(t, s)
BY DEF Overlap

(* A table that is stored is large enough and free.                        *)
LEMMA CheckedSeat ==
    ASSUME NEW q, NEW n, NEW seat \in CheckSlot(q), seat[1] # None
    PROVE  LET r == NewRow(q, n, seat) IN
           /\ r.table = seat[1] /\ Capacity[r.table] >= r.size
           /\ \A x \in rows : x.table = r.table => ~Overlap(At(x), At(r))
<1> DEFINE at == Instant(q.date, q.time)
           r == NewRow(q, n, seat)
<1>1. seat[1] \in FreeTables(at, q.size)
  BY DEF CheckSlot
<1>2. Capacity[seat[1]] >= q.size /\ seat[1] \notin TakenTables(at)
  BY <1>1 DEF FreeTables
<1>3. r.table = seat[1] /\ r.size = q.size /\ At(r) = at
  BY DEF NewRow, At
<1>4. \A x \in rows : x.table = seat[1] => ~Overlap(At(x), at)
  BY <1>2 DEF TakenTables
<1> QED  BY <1>2, <1>3, <1>4

LEMMA StoreStep ==
    ASSUME StalePickNeverSeats, NEW q, NEW n, NEW seat \in CheckSlot(q),
           rows' = rows \cup {NewRow(q, n, seat)}
    PROVE  StalePickNeverSeats'
<1> DEFINE r == NewRow(q, n, seat)
<1>1. r.table = seat[1]
  BY DEF NewRow
<1>2. r.table # None => /\ Capacity[r.table] >= r.size
                        /\ \A x \in rows : x.table = r.table => ~Overlap(At(x), At(r))
  BY <1>1, CheckedSeat
<1>3. rows' = rows \cup {r}
  OBVIOUS
<1> HIDE DEF r
<1>4. \A x \in rows' : At(x)' = At(x)
  BY DEF At, Instant
<1> QED  BY <1>2, <1>3, <1>4, OverlapSymmetric DEF StalePickNeverSeats, At, Instant, Overlap

LEMMA SeatsStep == StalePickNeverSeats /\ [Next]_vars => StalePickNeverSeats'
<1> SUFFICES ASSUME StalePickNeverSeats, [Next]_vars PROVE StalePickNeverSeats'
  OBVIOUS
<1>1. CASE OthersBook
  BY <1>1, StoreStep DEF OthersBook
<1>2. CASE ServerCommits
  BY <1>2, StoreStep DEF ServerCommits
<1>3. ASSUME UNCHANGED rows PROVE StalePickNeverSeats'
  BY <1>3 DEF StalePickNeverSeats, At, Instant, Overlap
<1>4. Guest => UNCHANGED rows
  BY DEF Guest, PickDate, LeaveStep1, ChangePartySize, PickSlot, LeaveStep2, AutoSelect,
         TableSelect, CombinationSelect, SelectSeat, LeaveStep3, SubmitInfo, BackFromStep4,
         BackFromStep5, Reserve, sending
<1>5. Network \/ ServerRefuses => UNCHANGED rows
  BY DEF Network, FetchAvailability, FetchEvaluation, AnswerCommitted, AnswerRefused,
         AnswerLost, NavigateLater, OpenConfirmation, ServerRefuses, sending
<1>6. UNCHANGED vars => UNCHANGED rows
  BY DEF vars, sending
<1> QED
  BY <1>1, <1>2, <1>3, <1>4, <1>5, <1>6 DEF Next, Server

(* Whatever the wizard shows and sends, for any days, tables and parties,  *)
(* a named table is large enough and held once at an instant.              *)
THEOREM SeatsAreChecked == Spec => []StalePickNeverSeats
<1>1. Init => StalePickNeverSeats
  BY DEF Init, StalePickNeverSeats
<1> QED
  BY <1>1, SeatsStep, PTL DEF Spec

-----------------------------------------------------------------------------
(* What the page holds.                                                    *)
ChoicesAreTyped ==
    /\ currentStep \in 1 .. 5 /\ selectedDate \in Days \cup {None}
    /\ partySize \in 1 .. MaxParty /\ selectedSlot \in Slot \cup {None}
    /\ selectedTableIds \in Seats \cup {None}
    /\ selectedCombinationId \in Combos \cup {None}
    /\ selectedCombinationId = None => selectedTableIds \in Tables \cup {None}
    /\ slots # None => slots \subseteq Slot
    /\ page \in {"wizard", "confirm", "shown", "blank"}

VerdictIsTyped == blocked \in BOOLEAN

(* No step is reached without what the one before it asks for.             *)
StepsAreInOrder ==
    /\ currentStep # 1 => selectedDate # None
    /\ currentStep \in 3 .. 5 => selectedSlot # None

Pending == IF reserve = None THEN 0 ELSE 1

SendingIsTyped ==
    /\ reserve \in InFlight \cup {None} /\ rows \subseteq Row
    /\ attempts \in 0 .. MaxAttempts /\ timers \subseteq 1 .. attempts
    /\ lost \in Nat /\ lost + Pending <= attempts
    /\ hasty \in 0 .. attempts

(* How many bookings of the guest's there are.                             *)
Behind == IF timers # {} \/ page # "wizard" THEN 1 ELSE 0
Paid == lost + hasty +
        (IF reserve = None THEN Behind ELSE IF reserve.at = "committed" THEN 1 ELSE 0)

OwnIsPaidFor == IsFiniteSet(Own) /\ Cardinality(Own) <= Paid

WizardInv ==
    ChoicesAreTyped /\ VerdictIsTyped /\ StepsAreInOrder /\ SendingIsTyped /\ OwnIsPaidFor

LEMMA WizardInitInv == Init => WizardInv
<1> SUFFICES ASSUME Init PROVE WizardInv
  OBVIOUS
<1>0. 2 \in 1 .. MaxParty /\ MaxAttempts \in Nat
  BY GuestAssumption
<1>1. ChoicesAreTyped /\ VerdictIsTyped /\ StepsAreInOrder /\ SendingIsTyped
  <2>1. ChoicesAreTyped
    BY <1>0 DEF Init, ChoicesAreTyped
  <2>3. StepsAreInOrder
    BY DEF Init, StepsAreInOrder
  <2>2. SendingIsTyped
    BY <1>0 DEF Init, SendingIsTyped, Pending
  <2>4. VerdictIsTyped
    BY DEF Init, VerdictIsTyped
  <2> QED
    BY <2>1, <2>2, <2>3, <2>4
<1>2. Own = {} /\ Paid = 0
  BY DEF Init, Own, Paid, Behind
<1> QED
  BY <1>1, <1>2, FS_EmptySet DEF WizardInv, OwnIsPaidFor

(* What a request asks for is a slot that can be stored.                   *)
LEMMA RequestTyped ==
    ASSUME WizardInv, currentStep = 5
    PROVE  [request |-> ReservationRequest, at |-> "sent"] \in InFlight
<1>1. selectedDate \in Days /\ partySize \in 1 .. MaxParty /\ selectedSlot \in Slot
  BY DEF WizardInv, ChoicesAreTyped, StepsAreInOrder
<1>2. selectedSlot.time \in Times
  BY <1>1 DEF Slot
<1>3. /\ selectedCombinationId \in Combos \cup {None}
      /\ (IF selectedCombinationId = None THEN selectedTableIds ELSE None) \in Tables \cup {None}
  BY DEF WizardInv, ChoicesAreTyped
<1>4. ReservationRequest \in Request
  BY <1>1, <1>2, <1>3 DEF ReservationRequest, Request
<1> QED
  BY <1>4 DEF InFlight

LEMMA SlotsTyped == \A d, size : AvailableSlots(d, size) \subseteq Slot
BY DEF AvailableSlots, SlotAt, Slot

LEMMA SeatTyped ==
    ASSUME NEW q, NEW seat \in CheckSlot(q)
    PROVE  seat[1] \in Tables \cup {None} /\ seat[2] \in Combos \cup {None}
BY DEF CheckSlot, FreeTables, FreeCombos

(* A step that leaves the requests alone.                                  *)
LEMMA SendingStays ==
    ASSUME WizardInv, UNCHANGED <<sending, page>>
    PROVE  SendingIsTyped' /\ OwnIsPaidFor'
<1>1. UNCHANGED <<reserve, timers, rows, attempts, lost, hasty>>
  BY DEF sending
<1>2. SendingIsTyped'
  BY <1>1 DEF WizardInv, SendingIsTyped, Pending
<1>3. Own' = Own
  BY <1>1 DEF Own
<1> QED
  BY <1>1, <1>2, <1>3 DEF WizardInv, OwnIsPaidFor, Paid, Behind

LEMMA WizardPageStep ==
    ASSUME WizardInv,
           \/ PickDate \/ LeaveStep1 \/ FetchAvailability \/ ChangePartySize \/ PickSlot
           \/ LeaveStep2 \/ AutoSelect \/ TableSelect \/ CombinationSelect \/ LeaveStep3
           \/ FetchEvaluation \/ SubmitInfo \/ BackFromStep4 \/ BackFromStep5
    PROVE  WizardInv'
<1>1. UNCHANGED <<sending, page>>
  BY DEF PickDate, LeaveStep1, FetchAvailability, ChangePartySize, PickSlot, LeaveStep2,
         AutoSelect, TableSelect, CombinationSelect, SelectSeat, LeaveStep3, FetchEvaluation,
         SubmitInfo, BackFromStep4, BackFromStep5
<1>2. SendingIsTyped' /\ OwnIsPaidFor'
  BY <1>1, SendingStays
<1>0. VerdictIsTyped'
  BY Zenon
  DEF WizardInv, VerdictIsTyped, queries, PickDate, LeaveStep1, FetchAvailability,
      ChangePartySize, PickSlot, LeaveStep2, AutoSelect, TableSelect, CombinationSelect,
      SelectSeat, LeaveStep3, FetchEvaluation, SubmitInfo, BackFromStep4, BackFromStep5
<1> USE <1>0 DEF WizardInv, ChoicesAreTyped, StepsAreInOrder, choices, queries, Goto
<1>3. CASE PickDate \/ LeaveStep1 \/ LeaveStep2 \/ LeaveStep3
  <2>1. None \notin Days
    BY NoneAssumption
  <2> QED
    BY <1>1, <1>2, <1>3, <2>1 DEF PickDate, LeaveStep1, LeaveStep2, LeaveStep3
<1>4. CASE FetchAvailability
  BY <1>1, <1>2, <1>4, SlotsTyped DEF FetchAvailability
<1>5. CASE ChangePartySize
  BY <1>1, <1>2, <1>5 DEF ChangePartySize
<1>6. CASE PickSlot
  <2>1. VisibleSlots \subseteq Slot /\ None \notin Slot
    BY NoneAssumption DEF VisibleSlots
  <2> QED
    BY <1>1, <1>2, <1>6, <2>1 DEF PickSlot
<1>7. CASE AutoSelect \/ TableSelect \/ CombinationSelect
  <2>1. selectedSlot # None =>
            selectedSlot.tables \subseteq Tables /\ selectedSlot.combos \subseteq Combos
    BY DEF Slot
  <2>2. PICK t \in Seats \cup {None}, c \in Combos \cup {None} :
            SelectSeat(t, c) /\ (c = None => t \in Tables \cup {None})
    <3>1. CASE AutoSelect
      BY <3>1 DEF AutoSelect
    <3>2. CASE TableSelect
      BY <2>1, <3>2 DEF TableSelect, Seats
    <3>3. CASE CombinationSelect
      BY <2>1, <3>3, GuestAssumption DEF CombinationSelect, Seats
    <3> QED
      BY <1>7, <3>1, <3>2, <3>3
  <2> QED
    BY <1>1, <1>2, <2>2 DEF SelectSeat
<1>8. CASE FetchEvaluation
  BY <1>1, <1>2, <1>8 DEF FetchEvaluation
<1>9. CASE SubmitInfo \/ BackFromStep4 \/ BackFromStep5
  <2>1. CASE SubmitInfo
    BY <1>1, <1>2, <2>1 DEF SubmitInfo
  <2>2. CASE BackFromStep4
    BY <1>1, <1>2, <2>2 DEF BackFromStep4
  <2>3. CASE BackFromStep5
    BY <1>1, <1>2, <2>3 DEF BackFromStep5
  <2> QED
    BY <1>9, <2>1, <2>2, <2>3
<1> QED
  BY <1>3, <1>4, <1>5, <1>6, <1>7, <1>8, <1>9

-----------------------------------------------------------------------------
(* The requests.                                                           *)
LEMMA ChoicesStay ==
    ASSUME WizardInv, UNCHANGED <<currentStep, choices, queries>>,
           page' \in {"wizard", "confirm", "shown", "blank"}
    PROVE  ChoicesAreTyped' /\ VerdictIsTyped' /\ StepsAreInOrder'
<1>1. ChoicesAreTyped' /\ StepsAreInOrder'
  BY DEF WizardInv, ChoicesAreTyped, StepsAreInOrder, choices, queries
<1>2. VerdictIsTyped'
  BY Zenon DEF WizardInv, VerdictIsTyped, queries
<1> QED
  BY <1>1, <1>2

LEMMA ReserveStep == ASSUME WizardInv, Reserve PROVE WizardInv'
<1>1. /\ page = "wizard" /\ currentStep = 5 /\ reserve = None
      /\ UNCHANGED <<currentStep, choices, queries, timers, rows, lost, page>>
  BY DEF Reserve, Goto
<1>2. ChoicesAreTyped' /\ VerdictIsTyped' /\ StepsAreInOrder'
  BY <1>1, ChoicesStay DEF WizardInv, ChoicesAreTyped
<1>3. reserve' \in InFlight /\ reserve' # None /\ reserve'.at = "sent"
  BY <1>1, RequestTyped, NoneAssumption DEF Reserve
<1>4. /\ attempts' = attempts + 1 /\ attempts' \in 0 .. MaxAttempts
      /\ hasty' = hasty + Behind
  BY <1>1, GuestAssumption DEF Reserve, Behind, WizardInv, SendingIsTyped
<1>5. SendingIsTyped'
  BY <1>1, <1>3, <1>4 DEF WizardInv, SendingIsTyped, Pending, Behind
<1>6. Paid' = Paid /\ Own' = Own
  BY <1>1, <1>3, <1>4 DEF Paid, Own, Behind, WizardInv, SendingIsTyped
<1> QED
  BY <1>2, <1>5, <1>6 DEF WizardInv, OwnIsPaidFor

LEMMA OneMore ==
    ASSUME NEW S, IsFiniteSet(S), NEW x
    PROVE  IsFiniteSet(S \cup {x}) /\ Cardinality(S \cup {x}) <= Cardinality(S) + 1
<1>1. Cardinality(S) \in Nat
  BY FS_CardinalityType
<1>2. /\ IsFiniteSet(S \cup {x})
      /\ \/ Cardinality(S \cup {x}) = Cardinality(S)
         \/ Cardinality(S \cup {x}) = Cardinality(S) + 1
  BY FS_AddElement
<1> QED
  BY <1>1, <1>2

(* The server stores a row that is typed, one of the guest's or another's. *)
LEMMA RowStep ==
    ASSUME WizardInv, NEW q \in Request, NEW n \in 0 .. MaxAttempts, NEW seat \in CheckSlot(q),
           rows' = rows \cup {NewRow(q, n, seat)}
    PROVE  /\ rows' \subseteq Row
           /\ n = 0 => Own' = Own
           /\ IsFiniteSet(Own') /\ Cardinality(Own') <= Cardinality(Own) + 1
<1> DEFINE r == NewRow(q, n, seat)
<1>1. r \in Row /\ r.of = n /\ rows' = rows \cup {r}
  BY SeatTyped DEF NewRow, Row, Request
<1>8. r.of = n
  BY <1>1
<1> HIDE DEF r
<1>2. rows' \subseteq Row
  BY <1>1 DEF WizardInv, SendingIsTyped
<1>3. n = 0 => Own' = Own
  BY <1>1 DEF Own
<1>4. Own' = Own \/ Own' = Own \cup {r}
  <2>1. CASE n = 0
    BY <1>3, <2>1
  <2>2. CASE n # 0
    BY <1>1, <2>2 DEF Own
  <2> QED
    BY <2>1, <2>2
<1>5. IsFiniteSet(Own) /\ Cardinality(Own) \in Nat
  BY FS_CardinalityType DEF WizardInv, OwnIsPaidFor
<1>6. IsFiniteSet(Own \cup {r}) /\ Cardinality(Own \cup {r}) <= Cardinality(Own) + 1
  BY <1>5, OneMore
<1> QED
  <2>1. CASE Own' = Own
    BY <1>2, <1>3, <1>5, <2>1
  <2>2. CASE Own' = Own \cup {r}
    BY <1>2, <1>3, <1>6, <2>2
  <2> QED
    BY <1>4, <2>1, <2>2

LEMMA OthersBookStep == ASSUME WizardInv, OthersBook PROVE WizardInv'
<1>1. PICK o \in OthersMay :
          LET q == [date |-> o[1], time |-> o[2], size |-> 1, table |-> o[3], combo |-> None]
          IN  \E seat \in CheckSlot(q) : rows' = rows \cup {NewRow(q, 0, seat)}
  BY DEF OthersBook
<1> DEFINE q == [date |-> o[1], time |-> o[2], size |-> 1, table |-> o[3], combo |-> None]
<1>2. q \in Request
  BY GuestAssumption DEF Request
<1>3. PICK seat \in CheckSlot(q) : rows' = rows \cup {NewRow(q, 0, seat)}
  BY <1>1
<1> HIDE DEF q
<1>4. rows' \subseteq Row /\ Own' = Own
  BY <1>2, <1>3, RowStep, GuestAssumption
<1>5. UNCHANGED <<currentStep, choices, queries, reserve, timers, attempts, lost, hasty, page>>
  BY DEF OthersBook
<1>6. ChoicesAreTyped' /\ VerdictIsTyped' /\ StepsAreInOrder'
  BY <1>5, ChoicesStay DEF WizardInv, ChoicesAreTyped
<1>7. SendingIsTyped' /\ Paid' = Paid
  BY <1>4, <1>5 DEF WizardInv, SendingIsTyped, Pending, Paid, Behind
<1> QED
  BY <1>4, <1>6, <1>7 DEF WizardInv, OwnIsPaidFor

LEMMA DecidedStep == ASSUME WizardInv, ServerCommits \/ ServerRefuses PROVE WizardInv'
<1>1. reserve \in InFlight /\ reserve # None /\ reserve.at = "sent" /\ reserve.request \in Request
  BY DEF ServerCommits, ServerRefuses, Sent, WizardInv, SendingIsTyped, InFlight
<1>2. PICK at \in {"committed", "refused"} :
          Decide(at) /\ (at = "committed" => ServerCommits) /\ (at = "refused" => UNCHANGED rows)
  BY DEF ServerCommits, ServerRefuses
<1>3. UNCHANGED <<currentStep, choices, queries, timers, attempts, lost, hasty, page>>
  BY <1>2 DEF Decide
<1>4. reserve' \in InFlight /\ reserve' # None /\ reserve'.at = at
  BY <1>1, <1>2, NoneAssumption DEF Decide, InFlight
<1>5. ChoicesAreTyped' /\ VerdictIsTyped' /\ StepsAreInOrder'
  BY <1>3, ChoicesStay DEF WizardInv, ChoicesAreTyped
<1>6. Paid' = Paid + (IF at = "committed" THEN 1 ELSE 0) /\ Paid \in Nat
  BY <1>1, <1>3, <1>4 DEF Paid, WizardInv, SendingIsTyped
<1>7. /\ rows' \subseteq Row /\ IsFiniteSet(Own')
      /\ Cardinality(Own') <= Cardinality(Own) + (IF at = "committed" THEN 1 ELSE 0)
  <2>1. CASE at = "committed"
    <3>1. PICK seat \in CheckSlot(reserve.request) :
              rows' = rows \cup {NewRow(reserve.request, attempts, seat)}
      BY <1>2, <2>1 DEF ServerCommits
    <3>2. attempts \in 0 .. MaxAttempts
      BY DEF WizardInv, SendingIsTyped
    <3> QED
      BY <1>1, <2>1, <3>1, <3>2, RowStep
  <2>2. CASE at = "refused"
    <3>1. UNCHANGED rows
      BY <1>2, <2>2
    <3>2. IsFiniteSet(Own) /\ Cardinality(Own) \in Nat
      BY FS_CardinalityType DEF WizardInv, OwnIsPaidFor
    <3> QED
      BY <2>2, <3>1, <3>2 DEF Own, WizardInv, SendingIsTyped
  <2> QED
    BY <2>1, <2>2
<1>8. SendingIsTyped'
  BY <1>1, <1>3, <1>4, <1>7 DEF WizardInv, SendingIsTyped, Pending
<1>9. Cardinality(Own) \in Nat /\ Cardinality(Own') \in Nat /\ Cardinality(Own) <= Paid
  BY <1>7, FS_CardinalityType DEF WizardInv, OwnIsPaidFor
<1> QED
  BY <1>5, <1>6, <1>7, <1>8, <1>9 DEF WizardInv, OwnIsPaidFor

(* An answer, or none, is handled: what was booked is behind the guest, or *)
(* is one more that a lost answer pays for.                                *)
LEMMA AnsweredStep ==
    ASSUME WizardInv, AnswerCommitted \/ AnswerRefused \/ AnswerLost
    PROVE  WizardInv'
<1>1. /\ reserve \in InFlight /\ reserve # None /\ reserve' = None
      /\ UNCHANGED <<currentStep, choices, queries, rows, attempts, hasty>>
  BY DEF AnswerCommitted, AnswerRefused, AnswerLost, WizardInv, SendingIsTyped
<1>2. /\ lost' \in Nat /\ attempts \in Nat /\ lost' <= attempts /\ attempts >= 1
      /\ lost' + Behind' >= lost + (IF reserve.at = "committed" THEN 1 ELSE 0)
      /\ timers' \subseteq 1 .. attempts
      /\ page' \in {"wizard", "confirm", "shown", "blank"}
  <2>1. /\ lost \in Nat /\ attempts \in Nat /\ lost + 1 <= attempts
        /\ timers \subseteq 1 .. attempts /\ page \in {"wizard", "confirm", "shown", "blank"}
    BY <1>1 DEF WizardInv, SendingIsTyped, Pending, ChoicesAreTyped
  <2>2. CASE AnswerCommitted
    <3>1. lost' = lost
      BY <2>2 DEF AnswerCommitted
    <3>2. CASE Open("confirm") /\ UNCHANGED timers
      BY <2>1, <3>1, <3>2 DEF Open, Behind
    <3>3. CASE timers' = timers \cup {attempts} /\ UNCHANGED page
      BY <2>1, <3>1, <3>3 DEF Behind
    <3> QED
      BY <2>2, <3>2, <3>3 DEF AnswerCommitted
  <2>3. CASE AnswerRefused
    BY <2>1, <2>3 DEF AnswerRefused, Behind
  <2>4. CASE AnswerLost
    BY <2>1, <2>4 DEF AnswerLost, Behind
  <2> QED
    BY <2>2, <2>3, <2>4
<1>3. ChoicesAreTyped' /\ VerdictIsTyped' /\ StepsAreInOrder'
  BY <1>1, <1>2, ChoicesStay
<1>4. SendingIsTyped'
  <2>1. Pending' = 0
    BY <1>1 DEF Pending
  <2>2. rows' \subseteq Row /\ attempts' \in 0 .. MaxAttempts /\ hasty' \in 0 .. attempts'
    BY <1>1 DEF WizardInv, SendingIsTyped
  <2>3. reserve' \in InFlight \cup {None} /\ timers' \subseteq 1 .. attempts'
    BY <1>1, <1>2
  <2>4. lost' \in Nat /\ lost' + Pending' <= attempts'
    <3> DEFINE p == Pending'
               l == lost'
               n == attempts'
    <3>1. p = 0 /\ l \in Nat /\ n \in Nat /\ l <= n
      BY <1>1, <1>2, <2>1
    <3> HIDE DEF p, l, n
    <3>2. l + p <= n
      BY <3>1
    <3> QED
      BY <3>1, <3>2 DEF p, l, n
  <2> QED
    BY <2>2, <2>3, <2>4 DEF SendingIsTyped
<1>5. /\ Paid' = lost' + hasty + Behind' /\ Own' = Own /\ hasty \in Nat /\ lost \in Nat
      /\ Paid = lost + hasty + (IF reserve.at = "committed" THEN 1 ELSE 0)
  BY <1>1 DEF Paid, Own, WizardInv, SendingIsTyped
<1>6. Behind' \in Nat
  BY DEF Behind
<1>7. Paid \in Nat /\ Paid' \in Nat /\ Paid <= Paid'
  <2> DEFINE one == IF reserve.at = "committed" THEN 1 ELSE 0
             due == Behind'
             p == Paid'
             l == lost'
  <2>1. one \in Nat /\ Paid = lost + hasty + one /\ hasty \in Nat /\ lost \in Nat
    BY <1>5
  <2>2. due \in Nat /\ l \in Nat
    BY <1>2, <1>6
  <2>3. p = l + hasty + due
    BY <1>5
  <2>4. l + due >= lost + one
    BY <1>2
  <2> HIDE DEF one, due, p, l
  <2>5. p \in Nat /\ Paid \in Nat /\ Paid <= p
    BY <2>1, <2>2, <2>3, <2>4
  <2> QED
    BY <2>5 DEF p
<1>8. IsFiniteSet(Own) /\ Cardinality(Own) \in Nat /\ Cardinality(Own) <= Paid
  BY FS_CardinalityType DEF WizardInv, OwnIsPaidFor
<1>9. OwnIsPaidFor'
  BY <1>5, <1>7, <1>8 DEF OwnIsPaidFor
<1> QED
  BY <1>3, <1>4, <1>9 DEF WizardInv

(* The page moves on, and does not come back.                              *)
LEMMA MovedOnStep == ASSUME WizardInv, NavigateLater \/ OpenConfirmation PROVE WizardInv'
<1>1. /\ UNCHANGED <<currentStep, choices, queries, reserve, rows, attempts, lost, hasty>>
      /\ timers' \subseteq timers
      /\ page' \in {"confirm", "shown", "blank"}
  BY DEF NavigateLater, OpenConfirmation, Open, sending
<1>2. ChoicesAreTyped' /\ VerdictIsTyped' /\ StepsAreInOrder'
  BY <1>1, ChoicesStay
<1>3. SendingIsTyped'
  BY <1>1 DEF WizardInv, SendingIsTyped, Pending
<1>4. Own' = Own /\ Paid \in Nat /\ Paid' \in Nat /\ Paid <= Paid'
  BY <1>1 DEF Own, Paid, Behind, WizardInv, SendingIsTyped
<1>5. IsFiniteSet(Own) /\ Cardinality(Own) \in Nat /\ Cardinality(Own) <= Paid
  BY FS_CardinalityType DEF WizardInv, OwnIsPaidFor
<1>6. OwnIsPaidFor'
  BY <1>4, <1>5 DEF OwnIsPaidFor
<1> QED
  BY <1>2, <1>3, <1>6 DEF WizardInv

LEMMA WizardStep == WizardInv /\ [Next]_vars => WizardInv'
<1> SUFFICES ASSUME WizardInv, [Next]_vars PROVE WizardInv'
  OBVIOUS
<1>1. CASE UNCHANGED vars
  <2>1. UNCHANGED <<currentStep, choices, queries, sending, page>>
    BY <1>1 DEF vars
  <2>2. ChoicesAreTyped' /\ VerdictIsTyped' /\ StepsAreInOrder'
    BY <2>1, ChoicesStay DEF WizardInv, ChoicesAreTyped
  <2> QED
    BY <2>1, <2>2, SendingStays DEF WizardInv
<1>2. CASE Guest
  BY <1>2, WizardPageStep, ReserveStep DEF Guest
<1>3. CASE Network
  BY <1>3, WizardPageStep, AnsweredStep, MovedOnStep DEF Network
<1>4. CASE Server
  BY <1>4, OthersBookStep, DecidedStep DEF Server
<1> QED
  BY <1>1, <1>2, <1>3, <1>4 DEF Next

(* The inductive invariant of the wizard.                                  *)
THEOREM WizardInvariant == Spec => []WizardInv
BY WizardInitInv, WizardStep, PTL DEF Spec

LEMMA WizardKeepsTypes == WizardInv => TypeOK
BY GuestAssumption DEF WizardInv, ChoicesAreTyped, VerdictIsTyped, SendingIsTyped, Pending, TypeOK

(* The wizard is type correct; no step reads a choice that was not made.   *)
THEOREM WizardTypeCorrect == Spec => []TypeOK
BY WizardKeepsTypes, WizardInvariant, PTL

(* A second booking needs a lost answer or a hasty click, for any number   *)
(* of attempts.                                                            *)
THEOREM BookedOnce == Spec => []SecondBookingNeedsLostAnswer
<1>1. WizardInv => SecondBookingNeedsLostAnswer
  <2> SUFFICES ASSUME WizardInv PROVE SecondBookingNeedsLostAnswer
    OBVIOUS
  <2>1. Paid <= 1 + lost + hasty /\ Paid \in Nat /\ lost \in Nat /\ hasty \in Nat
    BY DEF Paid, Behind, WizardInv, SendingIsTyped
  <2>2. Cardinality(Own) \in Nat /\ Cardinality(Own) <= Paid
    BY FS_CardinalityType DEF WizardInv, OwnIsPaidFor
  <2> QED
    BY <2>1, <2>2 DEF SecondBookingNeedsLostAnswer
<1> QED
  BY <1>1, WizardInvariant, PTL

-----------------------------------------------------------------------------
(* A verdict says what it is based on: it allows a key when the rules      *)
(* could not be read, or refuse none of the facts that are told of it.     *)
Grounded(key, v) ==
    /\ v.is \in {"allowed", "blocked"}
    /\ v.is = "allowed" => v.under = NotRead \/ EvaluatedFacts(key) \cap v.under = {}

FormIsTyped ==
    /\ step \in {"table", "info", "summary", "booked"} /\ place \in Places
    /\ {formData, fields, debounced} \subseteq Info /\ ruling \in Rulings
    /\ moves \in 0 .. MaxEdits /\ presses \in 0 .. MaxPresses
    /\ hurried \in BOOLEAN /\ late \in BOOLEAN

VerdictsAreGrounded ==
    /\ \A q, r \in asking : q.key = r.key => q = r
    /\ \A v, w \in verdicts : v.key = w.key => v = w
    /\ \A q \in asking : q.at = "read" => Grounded(q.key, q.verdict)
    /\ \A v \in verdicts : Grounded(v.key, v)

(* On step 5 a refusal of what is about to be booked came too late.        *)
SummaryIsForetold ==
    step = "summary" /\ ~hurried /\ ~late =>
        \A v \in verdicts : v.key = KeyOf(place, formData) => v.is # "blocked"

(* While a booking is under way the wizard stands still; a refusal has a   *)
(* reason in the rules it was judged under.                                *)
BookingIsGrounded ==
    reservation # NoBooking =>
        /\ step = "summary" /\ reservation.at \in {"sent", "refused", "stored"}
        /\ reservation.told.is \in {"unknown", "allowed", "blocked"}
        /\ reservation.told.is # "unknown" => Grounded(KeyOf(place, formData), reservation.told)
        /\ reservation.told.is = "blocked" => hurried \/ late
        /\ reservation.at = "refused" =>
              /\ reservation.under \in Rulings
              /\ \E seat \in SettledSeats(place) :
                    ReservedFacts(formData, seat) \cap reservation.under # {}

FormInv == FormIsTyped /\ VerdictsAreGrounded /\ SummaryIsForetold /\ BookingIsGrounded

LEMMA FormInitInv == FormInit => FormInv
<1> SUFFICES ASSUME FormInit PROVE FormInv
  OBVIOUS
<1>1. EmptyInfo \in Info
  BY DEF EmptyInfo, Info
<1>2. 0 \in 0 .. MaxEdits /\ 0 \in 0 .. MaxPresses
  BY FormAssumption
<1>3. FormIsTyped
  BY <1>1, <1>2 DEF FormInit, FormIsTyped
<1> QED  BY <1>3 DEF FormInit, FormInv, VerdictsAreGrounded, SummaryIsForetold, BookingIsGrounded

LEMMA VerdictIs ==
    ASSUME FormInv, NEW key
    PROVE  \/ VerdictOn(key) \in verdicts /\ VerdictOn(key).key = key
           \/ VerdictOn(key).is = "unknown" /\ \A v \in verdicts : v.key # key
<1>1. CASE \E v \in verdicts : v.key = key
  BY <1>1 DEF VerdictOn
<1>2. CASE ~\E v \in verdicts : v.key = key
  BY <1>2 DEF VerdictOn
<1> QED  BY <1>1, <1>2

(* What becomes current is asked for at most once.                         *)
LEMMA ObserveStep ==
    ASSUME FormInv, NEW key, Observe(key), UNCHANGED verdicts
    PROVE  VerdictsAreGrounded'
<1> DEFINE q == [key |-> key, at |-> "sent"]
<1>1. asking' = asking \/ (asking' = asking \cup {q} /\ \A r \in asking : r.key # key)
  BY DEF Observe
<1>2. q.key = key /\ q.at = "sent"
  OBVIOUS
<1> HIDE DEF q
<1>3. CASE asking' = asking
  BY <1>3 DEF FormInv, VerdictsAreGrounded, Grounded
<1>4. CASE asking' = asking \cup {q} /\ \A r \in asking : r.key # key
  BY <1>2, <1>4 DEF FormInv, VerdictsAreGrounded, Grounded
<1> QED  BY <1>1, <1>3, <1>4

(* The evaluation, on its way and back.                                    *)
LEMMA JudgeKeyStep == ASSUME FormInv, NEW q \in asking, JudgeKey(q) PROVE FormInv'
<1>1. PICK verdict :
          /\ \/ verdict = [is |-> "allowed", under |-> NotRead]
             \/ verdict = [is |-> IF EvaluatedFacts(q.key) \cap ruling = {} THEN "allowed"
                                  ELSE "blocked",
                           under |-> ruling]
          /\ asking' = (asking \ {q}) \cup {[key |-> q.key, at |-> "read", verdict |-> verdict]}
  BY DEF JudgeKey
<1>2. Grounded(q.key, verdict)
  BY <1>1 DEF Grounded
<1> DEFINE r == [key |-> q.key, at |-> "read", verdict |-> verdict]
<1>3. asking' = (asking \ {q}) \cup {r} /\ r.key = q.key /\ r.verdict = verdict
  BY <1>1
<1> HIDE DEF r
<1>4. UNCHANGED <<step, place, formData, fields, debounced, verdicts, ruling, reservation,
                  presses, moves, hurried, late>>
  BY DEF JudgeKey, infos, reserving
<1>5. VerdictsAreGrounded'
  BY <1>2, <1>3, <1>4 DEF FormInv, VerdictsAreGrounded, Grounded
<1> QED  BY <1>4, <1>5 DEF FormInv, FormIsTyped, SummaryIsForetold, BookingIsGrounded, Grounded

LEMMA ArrivesStep == ASSUME FormInv, NEW q \in asking, EvaluationArrives(q) PROVE FormInv'
<1> DEFINE v == [key |-> q.key, is |-> q.verdict.is, under |-> q.verdict.under]
<1>1. /\ q.at = "read" /\ asking' = asking \ {q}
      /\ verdicts' = {w \in verdicts : w.key # q.key} \cup {v}
      /\ UNCHANGED <<step, place, formData, fields, debounced, ruling, reservation, presses,
                     moves, hurried>>
      /\ late' = (late \/ (step = "summary" /\ q.key = CurrentKey /\ q.verdict.is = "blocked"))
  BY DEF EvaluationArrives, infos, reserving
<1>2. v.key = q.key /\ v.is = q.verdict.is /\ v.under = q.verdict.under
  OBVIOUS
<1> HIDE DEF v
<1>3. Grounded(q.key, v)
  BY <1>1, <1>2 DEF FormInv, VerdictsAreGrounded, Grounded
<1>4. VerdictsAreGrounded'
  BY <1>1, <1>2, <1>3 DEF FormInv, VerdictsAreGrounded, Grounded
<1>5. FormIsTyped'
  BY <1>1 DEF FormInv, FormIsTyped
<1>6. SummaryIsForetold'
  <2> SUFFICES ASSUME step = "summary", ~hurried, ~late', NEW w \in verdicts',
                      w.key = KeyOf(place, formData)
               PROVE  w.is # "blocked"
    BY <1>1 DEF SummaryIsForetold
  <2>1. CurrentKey = KeyOf(place, formData) /\ ~late
    BY <1>1 DEF CurrentKey
  <2> QED  BY <1>1, <1>2, <2>1 DEF FormInv, SummaryIsForetold
<1>7. BookingIsGrounded'
  BY <1>1 DEF FormInv, BookingIsGrounded
<1> QED  BY <1>4, <1>5, <1>6, <1>7 DEF FormInv

(* Nothing that the claims are about moves.                                *)
LEMMA QuietStep ==
    ASSUME FormInv, (\E q \in asking : EvaluationFails(q)) \/ ChangeRules
    PROVE  FormInv'
<1>1. /\ asking' \subseteq asking
      /\ UNCHANGED <<step, place, formData, fields, debounced, verdicts, reservation, presses,
                     hurried, late>>
  BY DEF EvaluationFails, ChangeRules, infos, evaluations, reserving
<1>2. ruling' \in Rulings /\ moves' \in 0 .. MaxEdits
  BY FormAssumption DEF EvaluationFails, ChangeRules, FormInv, FormIsTyped
<1>3. VerdictsAreGrounded'
  BY <1>1 DEF FormInv, VerdictsAreGrounded, Grounded
<1> QED  BY <1>1, <1>2, <1>3
         DEF FormInv, FormIsTyped, SummaryIsForetold, BookingIsGrounded, Grounded

(* Steps 3 and 4.  No booking is under way there.                          *)
LEMMA TypingStep ==
    ASSUME FormInv,
           \/ \E p \in Places : ChoosePlace(p)
           \/ BackToTable \/ Debounce \/ OpenInfo
           \/ \E f \in Info : Edit(f)
    PROVE  FormInv'
<1>1. /\ UNCHANGED <<formData, verdicts, ruling, reservation, presses>>
      /\ step # "summary" \/ reservation = NoBooking
      /\ step' \in {"table", "info"} /\ place' \in Places
  BY DEF ChoosePlace, BackToTable, Debounce, OpenInfo, Edit, infos, evaluations, reserving,
         FormInv, FormIsTyped
<1>2. fields' \in Info /\ debounced' \in Info /\ hurried' \in BOOLEAN /\ late' \in BOOLEAN
  <2>1. EmptyInfo \in Info
    BY DEF EmptyInfo, Info
  <2> QED  BY <2>1 DEF ChoosePlace, BackToTable, Debounce, OpenInfo, Edit, infos, FormInv,
                       FormIsTyped
<1>3. moves' \in 0 .. MaxEdits
  BY FormAssumption DEF ChoosePlace, BackToTable, Debounce, OpenInfo, Edit, FormInv, FormIsTyped
<1>4. VerdictsAreGrounded'
  <2>1. CASE Debounce \/ OpenInfo
    BY <1>1, <2>1, ObserveStep DEF Debounce, OpenInfo
  <2>2. CASE UNCHANGED asking
    BY <1>1, <2>2 DEF FormInv, VerdictsAreGrounded, Grounded
  <2> QED  BY <2>1, <2>2 DEF ChoosePlace, BackToTable, Edit, evaluations
<1>5. FormIsTyped'
  BY <1>1, <1>2, <1>3 DEF FormInv, FormIsTyped
<1>6. SummaryIsForetold' /\ BookingIsGrounded'
  <2>1. reservation = NoBooking
    BY <1>1 DEF FormInv, BookingIsGrounded
  <2> QED  BY <1>1, <2>1 DEF SummaryIsForetold, BookingIsGrounded
<1> QED  BY <1>4, <1>5, <1>6 DEF FormInv

(* The form is submitted under no known refusal of its fields, unless the  *)
(* debounced ones are others.                                              *)
LEMMA SubmitFormStep == ASSUME FormInv, SubmitForm PROVE FormInv'
<1>1. /\ step = "info" /\ step' = "summary" /\ formData' = fields /\ MayProceed
      /\ fields' = EmptyInfo /\ debounced' = EmptyInfo /\ Observe(KeyOf(place, fields))
      /\ hurried' = (CurrentKey # KeyOf(place, fields)) /\ late' = FALSE
      /\ UNCHANGED <<place, verdicts, ruling, reservation, presses, moves>>
  BY DEF SubmitForm, reserving
<1>2. VerdictsAreGrounded'
  BY <1>1, ObserveStep
<1>3. FormIsTyped'
  <2>1. EmptyInfo \in Info
    BY DEF EmptyInfo, Info
  <2> QED  BY <1>1, <2>1 DEF FormInv, FormIsTyped
<1>4. SummaryIsForetold'
  <2> SUFFICES ASSUME CurrentKey = KeyOf(place, fields), NEW v \in verdicts,
                      v.key = KeyOf(place, fields)
               PROVE  v.is # "blocked"
    BY <1>1 DEF SummaryIsForetold, KeyOf
  <2>1. VerdictOn(CurrentKey) = v
    BY VerdictIs DEF FormInv, VerdictsAreGrounded
  <2> QED  BY <1>1, <2>1 DEF MayProceed
<1>5. BookingIsGrounded'
  BY <1>1 DEF FormInv, BookingIsGrounded
<1> QED  BY <1>2, <1>3, <1>4, <1>5 DEF FormInv

(* "Rezervasyon Yap", and what the server makes of it.                     *)
LEMMA PressStep == ASSUME FormInv, PressReserve PROVE FormInv'
<1> DEFINE told == VerdictOn(CurrentKey)
           r == [at |-> "sent", told |-> told]
<1>1. /\ step = "summary" /\ presses < MaxPresses /\ presses' = presses + 1
      /\ reservation' = r /\ r.at = "sent" /\ r.told = told
      /\ UNCHANGED <<step, place, formData, fields, debounced, verdicts, asking, ruling, moves,
                     hurried, late>>
  BY DEF PressReserve, infos, evaluations
<1>2. CurrentKey = KeyOf(place, formData)
  BY <1>1 DEF CurrentKey
<1>3. \/ told \in verdicts /\ told.key = KeyOf(place, formData)
      \/ told.is = "unknown"
  BY <1>2, VerdictIs
<1> HIDE DEF told, r
<1>4. /\ told.is \in {"unknown", "allowed", "blocked"}
      /\ told.is # "unknown" => Grounded(KeyOf(place, formData), told)
      /\ told.is = "blocked" => hurried \/ late
  BY <1>1, <1>3 DEF FormInv, VerdictsAreGrounded, SummaryIsForetold, Grounded
<1>5. BookingIsGrounded'
  BY <1>1, <1>4 DEF BookingIsGrounded, Grounded, KeyOf, EvaluatedFacts
<1>6. FormIsTyped'
  BY <1>1, FormAssumption DEF FormInv, FormIsTyped
<1>7. VerdictsAreGrounded' /\ SummaryIsForetold'
  BY <1>1 DEF FormInv, VerdictsAreGrounded, SummaryIsForetold, Grounded
<1> QED  BY <1>5, <1>6, <1>7 DEF FormInv

LEMMA BookingStep ==
    ASSUME FormInv, Judge \/ JudgeFails \/ BookingAnswered \/ BookingUnanswered
    PROVE  FormInv'
<1>1. /\ UNCHANGED <<place, formData, fields, debounced, verdicts, asking, ruling, presses,
                     moves, hurried, late>>
      /\ reservation # NoBooking /\ step = "summary"
  BY DEF Judge, JudgeFails, BookingAnswered, BookingUnanswered, infos, evaluations, NoBooking,
         FormInv, BookingIsGrounded
<1>2. step' \in {"summary", "booked"}
  BY <1>1 DEF Judge, JudgeFails, BookingAnswered, BookingUnanswered
<1>3. BookingIsGrounded'
  <2>1. CASE reservation' = NoBooking
    BY <2>1 DEF BookingIsGrounded
  <2>2. CASE Judge
    <3>1. PICK seat \in SettledSeats(place) :
              reservation' = [at |-> IF ReservedFacts(formData, seat) \cap ruling = {}
                                     THEN "stored" ELSE "refused",
                              told |-> reservation.told, under |-> ruling]
      BY <2>2 DEF Judge
    <3>2. /\ reservation'.told = reservation.told /\ reservation'.under = ruling
          /\ reservation'.at \in {"refused", "stored"}
          /\ reservation'.at = "refused" => ReservedFacts(formData, seat) \cap ruling # {}
      BY <3>1
    <3>3. ruling \in Rulings /\ step' = step
      BY <2>2 DEF Judge, FormInv, FormIsTyped
    <3> QED  BY <1>1, <3>2, <3>3 DEF FormInv, BookingIsGrounded, Grounded
  <2>3. CASE JudgeFails
    <3>1. reservation'.told = reservation.told /\ reservation'.at = "stored" /\ step' = step
      BY <2>3 DEF JudgeFails
    <3> QED  BY <1>1, <3>1 DEF FormInv, BookingIsGrounded, Grounded
  <2> QED  BY <2>1, <2>2, <2>3 DEF BookingAnswered, BookingUnanswered
<1>4. FormIsTyped' /\ VerdictsAreGrounded'
  BY <1>1, <1>2 DEF FormInv, FormIsTyped, VerdictsAreGrounded, Grounded
<1>5. SummaryIsForetold'
  BY <1>1 DEF FormInv, SummaryIsForetold
<1> QED  BY <1>3, <1>4, <1>5 DEF FormInv

LEMMA FormStep == FormInv /\ [FormNext]_formVars => FormInv'
<1> SUFFICES ASSUME FormInv, [FormNext]_formVars PROVE FormInv'
  OBVIOUS
<1>1. CASE UNCHANGED formVars
  BY <1>1 DEF formVars, infos, evaluations, reserving, FormInv, FormIsTyped,
              VerdictsAreGrounded, SummaryIsForetold, BookingIsGrounded, Grounded
<1>2. ASSUME \/ \E c \in Guests \cup {"none"} : TypeContact(c)
             \/ \E g \in GroupsOffered : SelectGroup(g)
             \/ \E n \in {"few", "many"} : TypeCounts(n)
             \/ SkipGroup \/ AnswerExtra \/ ClearExtra
      PROVE  \E f \in Info : Edit(f)
  <2>1. /\ \A c \in Guests \cup {"none"} : [fields EXCEPT !.contact = c] \in Info
        /\ \A g \in GroupsOffered \cup {"none"} : [fields EXCEPT !.group = g] \in Info
        /\ \A n \in {"few", "many"} : [fields EXCEPT !.counts = n] \in Info
        /\ \A x \in {"none", "given"} : [fields EXCEPT !.extra = x] \in Info
    BY FormAssumption DEF FormInv, FormIsTyped, Info
  <2> QED  BY <1>2, <2>1
           DEF TypeContact, SelectGroup, TypeCounts, SkipGroup, AnswerExtra, ClearExtra
<1>3. CASE Judge \/ JudgeFails \/ BookingAnswered \/ BookingUnanswered
  BY <1>3, BookingStep
<1> QED  BY <1>1, <1>2, <1>3, JudgeKeyStep, ArrivesStep, QuietStep, TypingStep, SubmitFormStep,
            PressStep DEF FormNext

(* The inductive invariant of the guest's form.                            *)
THEOREM FormInvariant == FormSpec => []FormInv
BY FormInitInv, FormStep, PTL DEF FormSpec

LEMMA FormKeepsTypes == FormInv => FormTypeOK
BY DEF FormInv, FormIsTyped, VerdictsAreGrounded, BookingIsGrounded, Grounded, NoBooking,
       FormTypeOK

(* The form keeps its types, for any guests, places, rules and bounds.     *)
THEOREM FormTypeCorrect == FormSpec => []FormTypeOK
BY FormInvariant, FormKeepsTypes, PTL

(* What was allowed under the rules that then refuse it has counts, or is  *)
(* not for one table.                                                      *)
LEMMA AllowedFactsAreAccepted ==
    ASSUME FormInv, place \in FormTables, formData.counts = "none", NEW facts \in Rulings,
           facts = NotRead \/ EvaluatedFacts(KeyOf(place, formData)) \cap facts = {},
           NEW seat \in SettledSeats(place)
    PROVE  ReservedFacts(formData, seat) \cap facts = {}
<1>1. seat = place
  BY FormAssumption DEF SettledSeats
<1>2. formData.group \in {"none", "mixed", "male", "female", "family"}
  BY DEF FormInv, FormIsTyped, Info
<1>3. Composition(formData.group) = "none"
  BY <1>2 DEF Composition
<1>4. ReservedFacts(formData, seat) =
          {<<"guest", formData.contact>>, <<"place", place>>, <<"group", "none">>,
           <<"counts", "none">>}
  BY <1>1, <1>3 DEF ReservedFacts
<1>5. <<"group", "none">> \notin facts /\ <<"counts", "none">> \notin facts
  BY FormAssumption
<1>6. EvaluatedFacts(KeyOf(place, formData)) =
          {<<"guest", formData.contact>>, <<"place", place>>}
  BY DEF EvaluatedFacts, KeyOf
<1>7. CASE facts = NotRead
  BY <1>4, <1>7 DEF NotRead
<1>8. CASE EvaluatedFacts(KeyOf(place, formData)) \cap facts = {}
  BY <1>4, <1>5, <1>6, <1>8
<1> QED  BY <1>7, <1>8

(* Refusals are foretold, for any guests, places, rules and number of      *)
(* edits: a known one only reaches the server when the guest was faster    *)
(* than the debounce or it came on step 5, and what was allowed under the  *)
(* same rules is refused for what the evaluation is not told only.         *)
THEOREM RefusalsComeEarly == FormSpec => []RefusalsAreForetold
<1>1. FormInv => KnownRefusalStops
  BY DEF FormInv, BookingIsGrounded, KnownRefusalStops
<1>2. FormInv => AllowedIsAccepted
  <2> SUFFICES ASSUME FormInv, reservation.at = "refused", reservation.told.is = "allowed",
                      reservation.told.under = reservation.under,
                      place \in FormTables, formData.counts = "none"
               PROVE  FALSE
    BY DEF AllowedIsAccepted
  <2>1. reservation # NoBooking
    BY DEF NoBooking
  <2>2. /\ Grounded(KeyOf(place, formData), reservation.told)
        /\ reservation.under \in Rulings
    BY <2>1 DEF FormInv, BookingIsGrounded
  <2>3. PICK seat \in SettledSeats(place) :
            ReservedFacts(formData, seat) \cap reservation.under # {}
    BY <2>1 DEF FormInv, BookingIsGrounded
  <2>4. \/ reservation.under = NotRead
        \/ EvaluatedFacts(KeyOf(place, formData)) \cap reservation.under = {}
    BY <2>2 DEF Grounded
  <2> QED  BY <2>2, <2>3, <2>4, AllowedFactsAreAccepted
<1> QED  BY <1>1, <1>2, FormInvariant, PTL DEF RefusalsAreForetold

-----------------------------------------------------------------------------
(* In the composition each half behaves as its own module says, ...        *)
LEMMA HalvesAsSpecified == MCSpec => Spec /\ FormSpec
<1>1. MCInit => Init /\ FormInit
  BY DEF MCInit
<1>2. [MCNext]_<<part, vars, formVars>> => [Next]_vars /\ [FormNext]_formVars
  BY DEF MCNext
<1> QED  BY <1>1, <1>2, PTL DEF MCSpec, Spec, FormSpec

(* ... so either is well typed, whichever is looked at, ...                *)
THEOREM GuestTypeCorrect == MCSpec => []GuestTypeOK
<1>1. TypeOK /\ FormTypeOK => GuestTypeOK
  BY DEF GuestTypeOK
<1> QED  BY <1>1, HalvesAsSpecified, WizardTypeCorrect, FormTypeCorrect, PTL

(* ... and what was proved of the wizard and of the form holds of both.    *)
THEOREM GuestIsSound ==
    MCSpec => [](SecondBookingNeedsLostAnswer /\ StalePickNeverSeats /\ RefusalsAreForetold)
BY HalvesAsSpecified, BookedOnce, SeatsAreChecked, RefusalsComeEarly, PTL
=============================================================================

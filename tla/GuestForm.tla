------------------------------ MODULE GuestForm ------------------------------
(***************************************************************************)
(* The fourth step of the guest's wizard, the form, with the evaluation    *)
(* that runs beside it, and what becomes of its answer: on the fifth step, *)
(* and when the server judges the reservation itself.  GuestWizard has     *)
(* the other steps.  The rules are the facts they refuse; what a rule says *)
(* of the hour is left out (the two requests name different instants), and *)
(* so are discounts and deposits, which are only shown.                    *)
(***************************************************************************)
EXTENDS Integers, FiniteSets

CONSTANTS
    Guests,             \* name, e-mail, phone and consent, taken together
    FormTables, FormCombos,
    GroupRequired,      \* the venue's custom field group_composition,
    CountsRequired,     \* its fields male_count and female_count,
    ExtraKind, ExtraRequired,   \* and one more, with its fieldType
    Rulings,            \* bound: the sets of facts that are refused in turn
    GroupsOffered,      \* bound: the picker's cards that are tried
    MaxKeys,            \* bound on keys that are asked for
    MaxEdits, MaxPresses    \* bounds on changes of form, place and rules, and on
                            \* "Rezervasyon Yap"

AnyTable == "auto"
Places == FormTables \cup FormCombos \cup {AnyTable}
Clearable == {"text", "number", "date"}

ASSUME FormAssumption ==
    /\ Guests \cap {"none"} = {} /\ FormTables \cap (FormCombos \cup {AnyTable}) = {}
    /\ {GroupRequired, CountsRequired, ExtraRequired} \subseteq BOOLEAN
    /\ ExtraKind \in Clearable \cup {"boolean", "select"}
    /\ GroupsOffered \subseteq {"mixed", "male", "female", "family"}
    /\ Rulings # {} /\ {MaxKeys, MaxEdits, MaxPresses} \subseteq Nat
    \* A rule about groups does not apply where nothing is known of the group.
    /\ \A facts \in Rulings : {<<"group", "none">>, <<"counts", "none">>} \cap facts = {}

VARIABLES
    step,           \* "table", "info", "summary" (steps 3 to 5), "booked"
    place,          \* selectedTableIds and selectedCombinationId
    formData,       \* BookingPage's, as of the last submission
    fields,         \* the fields on the page
    debounced,      \* the fields half a second ago
    verdicts,       \* the evaluate queries' data
    asking,         \* evaluate requests that are not answered yet
    ruling,         \* the facts the venue's rules refuse now
    reservation,    \* the reserve mutation, NoBooking when it is not pending
    moves, presses,
    hurried,        \* history: the last submission came before the debounce
    late            \* history: a refusal reached step 5 since then

infos == <<formData, fields, debounced>>
evaluations == <<verdicts, asking>>
reserving == <<reservation, presses>>
formVars == <<step, place, infos, evaluations, ruling, reserving, moves, hurried, late>>

(* counts: both numbers; "many" are more men than a ratio rule accepts.    *)
Info == [contact : Guests \cup {"none"}, group : {"none", "mixed", "male", "female", "family"},
         counts : {"none", "few", "many"}, extra : {"none", "given"}]
NotRead == {<<"rules", "unread">>}
EmptyInfo == [contact |-> "none", group |-> "none", counts |-> "none", extra |-> "none"]
NoBooking == [at |-> "none"]

FormInit ==
    /\ step = "table" /\ place \in Places /\ formData = EmptyInfo /\ fields = EmptyInfo
    /\ debounced = EmptyInfo /\ verdicts = {} /\ asking = {} /\ ruling \in Rulings
    /\ reservation = NoBooking /\ moves = 0 /\ presses = 0 /\ hurried = FALSE /\ late = FALSE

-----------------------------------------------------------------------------
(* The evaluate query.  Its key is the whole request, the custom fields    *)
(* included, and it is asked once the contact is there.                    *)
KeyOf(p, f) == [place |-> p, contact |-> f.contact, group |-> f.group, counts |-> f.counts,
                extra |-> f.extra]
CurrentKey == IF step = "summary" THEN KeyOf(place, formData) ELSE KeyOf(place, debounced)
VerdictOn(key) ==
    IF \E v \in verdicts : v.key = key THEN CHOOSE v \in verdicts : v.key = key
    ELSE [is |-> "unknown", under |-> {}, key |-> key]

(* A key that becomes current is asked for, unless it is on its way, or    *)
(* its data is not yet thirty seconds old.                                 *)
Observe(key) ==
    LET mayAsk == key.contact # "none" /\ \A a \in asking : a.key # key
    IN  /\ \/ mayAsk /\ asking' = asking \cup {[key |-> key, at |-> "sent"]}
           \/ (mayAsk => VerdictOn(key).is # "unknown") /\ asking' = asking
        /\ Cardinality({a.key : a \in asking'} \cup {v.key : v \in verdicts}) <= MaxKeys

EvaluatedFactsOfTable(key) ==
    IF key.place \in FormTables THEN {<<"place", key.place>>} ELSE {}

(* What mapEvaluateRequestToApi tells of a key: no custom field, and the   *)
(* id of a combination as that of a table, which then is not found.        *)
EvaluatedFacts(key) ==
    {<<"guest", key.contact>>} \cup
    (IF key.place \in FormTables THEN {<<"place", key.place>>} ELSE {})

(* What createReservation tells, with the place the server settles on: the *)
(* answers are the picker's values, and ExtractGroupCompositionData knows  *)
(* the composition by other names.                                         *)
Composition(group) ==
    CASE group = "Karma (Kadin+Erkek)" -> "Mixed" [] group = "Sadece Erkek" -> "AllMale"
      [] group = "Sadece Kadin" -> "AllFemale"    [] group = "Aile" -> "Family"
      [] OTHER -> "none"
ReservedFacts(f, seat) ==
    {<<"guest", f.contact>>, <<"place", seat>>, <<"group", Composition(f.group)>>,
     <<"counts", f.counts>>}
SettledSeats(p) == IF p = AnyTable THEN FormTables ELSE {p}

(* EvaluateRules; an exception in the rules lets everything pass.          *)
JudgeKey(a) ==
    /\ a.at = "sent"
    /\ \E verdict \in {[is |-> "allowed", under |-> NotRead],
                       [is |-> IF EvaluatedFacts(a.key) \cap ruling = {} THEN "allowed"
                               ELSE "blocked",
                        under |-> ruling]} :
          asking' = (asking \ {a}) \cup {[key |-> a.key, at |-> "read", verdict |-> verdict]}
    /\ UNCHANGED <<step, place, infos, verdicts, ruling, reserving, moves, hurried, late>>

EvaluationArrives(a) ==
    /\ a.at = "read"
    /\ verdicts' = {v \in verdicts : v.key # a.key} \cup
          {[key |-> a.key, is |-> a.verdict.is, under |-> a.verdict.under]}
    /\ asking' = asking \ {a}
    /\ late' = (late \/ (step = "summary" /\ a.key = CurrentKey /\ a.verdict.is = "blocked"))
    /\ UNCHANGED <<step, place, infos, ruling, reserving, moves, hurried>>

(* Tried twice; then the page has what it had, or nothing.                 *)
EvaluationFails(a) ==
    /\ asking' = asking \ {a}
    /\ UNCHANGED <<step, place, infos, verdicts, ruling, reserving, moves, hurried, late>>

ChangeRules ==
    /\ moves < MaxEdits /\ ruling' \in Rulings \ {ruling} /\ moves' = moves + 1
    /\ UNCHANGED <<step, place, infos, evaluations, reserving, hurried, late>>

-----------------------------------------------------------------------------
(* Step 3, and the way into step 4: the fields start from formData, so     *)
(* what was typed and not submitted is gone.                               *)
ChoosePlace(p) ==
    /\ step = "table" /\ moves < MaxEdits /\ p # place
    /\ place' = p /\ moves' = moves + 1
    /\ UNCHANGED <<step, infos, evaluations, ruling, reserving, hurried, late>>

OpenInfo ==
    /\ \/ step = "table"
       \/ step = "summary" /\ reservation = NoBooking
    /\ step' = "info" /\ fields' = formData /\ debounced' = formData
    /\ hurried' = FALSE /\ late' = FALSE
    /\ Observe(KeyOf(place, formData))
    /\ UNCHANGED <<place, formData, verdicts, ruling, reserving, moves>>

BackToTable ==
    /\ step = "info"
    /\ step' = "table" /\ fields' = EmptyInfo /\ debounced' = EmptyInfo
    /\ UNCHANGED <<place, formData, evaluations, ruling, reserving, moves, hurried, late>>

(* The fields.                                                             *)
Edit(f) ==
    /\ step = "info" /\ moves < MaxEdits /\ f # fields
    /\ fields' = f /\ moves' = moves + 1
    /\ UNCHANGED <<step, place, formData, debounced, evaluations, ruling, reserving, hurried,
                   late>>

TypeContact(c) == Edit([fields EXCEPT !.contact = c])

(* The picker keeps the counts when another group than "mixed" hides them. *)
SelectGroup(g) == Edit([fields EXCEPT !.group = g])
SkipGroup == ~GroupRequired /\ Edit([fields EXCEPT !.group = "none"])
TypeCounts(n) == fields.group = "mixed" /\ Edit([fields EXCEPT !.counts = n])

AnswerExtra == Edit([fields EXCEPT !.extra = "given"])
ClearExtra == ExtraKind \in Clearable /\ Edit([fields EXCEPT !.extra = "none"])

(* useDebounce, half a second after the last edit.                         *)
Debounce ==
    /\ step = "info" /\ debounced # fields
    /\ debounced' = fields
    /\ Observe(KeyOf(place, fields))
    /\ UNCHANGED <<step, place, formData, fields, verdicts, ruling, reserving, moves, hurried,
                   late>>

(* createSchema; a required count the page does not show fails silently.   *)
Valid(f) ==
    /\ f.contact # "none"
    /\ GroupRequired => f.group # "none"
    /\ CountsRequired => f.counts # "none"
    /\ ExtraRequired => f.extra # "none"

(* "Devam Et" is disabled by hasBlockingAction || !canProceed, of the      *)
(* debounced fields; an unknown verdict disables nothing.                  *)
MayProceed == VerdictOn(CurrentKey).is # "blocked"

SubmitForm ==
    /\ step = "info" /\ Valid(fields) /\ MayProceed
    /\ formData' = fields /\ step' = "summary"
    /\ fields' = EmptyInfo /\ debounced' = EmptyInfo
    /\ Observe(KeyOf(place, fields))
    /\ hurried' = (CurrentKey # KeyOf(place, fields)) /\ late' = FALSE
    /\ UNCHANGED <<place, verdicts, ruling, reserving, moves>>

-----------------------------------------------------------------------------
(* Step 5 does not look at canProceed.                                     *)
PressReserve ==
    /\ step = "summary" /\ reservation = NoBooking /\ presses < MaxPresses
    /\ presses' = presses + 1
    /\ reservation' = [at |-> "sent", told |-> VerdictOn(CurrentKey)]
    /\ UNCHANGED <<step, place, infos, evaluations, ruling, moves, hurried, late>>

(* ReserveCommandHandler, as far as the rules go.                          *)
Judge ==
    /\ reservation.at = "sent"
    /\ \E seat \in SettledSeats(place) :
          reservation' = [at |-> IF ReservedFacts(formData, seat) \cap ruling = {}
                                 THEN "stored" ELSE "refused",
                          told |-> reservation.told, under |-> ruling]
    /\ UNCHANGED <<step, place, infos, evaluations, ruling, presses, moves, hurried, late>>

(* An exception in the rules lets it pass.                                 *)
JudgeFails ==
    /\ reservation.at = "sent"
    /\ reservation' = [at |-> "stored", told |-> reservation.told, under |-> NotRead]
    /\ UNCHANGED <<step, place, infos, evaluations, ruling, presses, moves, hurried, late>>

BookingAnswered ==
    /\ reservation.at \in {"refused", "stored"}
    /\ step' = IF reservation.at = "stored" THEN "booked" ELSE step
    /\ reservation' = NoBooking
    /\ UNCHANGED <<place, infos, evaluations, ruling, presses, moves, hurried, late>>

BookingUnanswered ==
    /\ reservation # NoBooking
    /\ reservation' = NoBooking
    /\ UNCHANGED <<step, place, infos, evaluations, ruling, presses, moves, hurried, late>>

FormNext ==
    \/ \E p \in Places : ChoosePlace(p)
    \/ OpenInfo \/ BackToTable \/ Debounce \/ SubmitForm
    \/ \E c \in Guests \cup {"none"} : TypeContact(c)
    \/ \E g \in GroupsOffered : SelectGroup(g)
    \/ \E n \in {"few", "many"} : TypeCounts(n)
    \/ SkipGroup \/ AnswerExtra \/ ClearExtra
    \/ \E a \in asking : JudgeKey(a) \/ EvaluationArrives(a) \/ EvaluationFails(a)
    \/ PressReserve \/ Judge \/ JudgeFails \/ BookingAnswered \/ BookingUnanswered
    \/ ChangeRules

FormSpec == FormInit /\ [][FormNext]_formVars
-----------------------------------------------------------------------------
FormTypeOK ==
    /\ step \in {"table", "info", "summary", "booked"} /\ place \in Places
    /\ {formData, fields, debounced} \subseteq Info
    /\ \A v \in verdicts : v.is \in {"allowed", "blocked"}
    /\ \A a, b \in asking : a.key = b.key => a = b
    /\ ruling \in Rulings /\ reservation.at \in {"none", "sent", "refused", "stored"}
    /\ moves \in 0 .. MaxEdits /\ presses \in 0 .. MaxPresses
    /\ hurried \in BOOLEAN /\ late \in BOOLEAN

(* The page and the server agree on what is refused.  A booking that the   *)
(* page knows to be refused is sent only if the guest was faster than the  *)
(* debounce, or if the refusal came while step 5 was open, whichever way   *)
(* the guest went back and forth.                                          *)
KnownRefusalStops ==
    reservation # NoBooking /\ reservation.told.is = "blocked" => hurried \/ late

(* And a booking that was evaluated and allowed under the rules that then  *)
(* refuse it was not for one table, or it has counts: these are what the   *)
(* evaluation is not told.                                                 *)
AllowedIsAccepted ==
    /\ reservation.at = "refused" /\ reservation.told.is = "allowed"
    /\ reservation.told.under = reservation.under
    => place \notin FormTables \/ formData.counts # "none"

RefusalsAreForetold == KnownRefusalStops /\ AllowedIsAccepted
=============================================================================

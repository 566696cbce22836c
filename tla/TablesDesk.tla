----------------------------- MODULE TablesDesk -----------------------------
(***************************************************************************)
(* TablesPage of the admin panel with its two dialogs: the tables of one   *)
(* venue as the page has them and as the server has them.  Editing a table *)
(* takes two requests, since the PUT does not carry the switch: when it    *)
(* has succeeded and the switch was moved, a second one says "toggle".     *)
(* Where a table stands in the list is left out, and so are the stored     *)
(* combinations.                                                           *)
(***************************************************************************)
EXTENDS Integers, FiniteSets, FiniteSetsExt

CONSTANTS
    Tables,
    SeatCounts,         \* capacities the owner types
    MaxTableChanges     \* bound on requests sent by the page

DefaultSeats == 4       \* in the form of a new table

ASSUME TablesAssumption ==
    /\ IsFiniteSet(Tables) /\ "none" \notin Tables
    /\ SeatCounts \subseteq Nat \ {0} /\ DefaultSeats \in SeatCounts
    /\ MaxTableChanges \in Nat

VARIABLES
    tableRows,          \* [Tables -> TableRow], the server's
    tablesListed,       \* [Tables -> TableRow], the cached list
    requests,           \* requests that are not answered yet
    sentSoFar,          \* number of requests sent
    tableFetch,         \* the list query
    tableForm,          \* TableFormDialog and editingTable
    combination,        \* TableCombinationDialog
    wanted,             \* history: where the owner last put a table's switch
    muddled,            \* history: tables touched again too soon, or left halfway
    unheard             \* history: an answer was lost

shown == <<tableForm, combination>>
sending == <<requests, sentSoFar>>
told == <<wanted, muddled, unheard>>
tablesVars == <<tableRows, tablesListed, sending, tableFetch, shown, told>>

TableRow == [is : {"none", "there", "deleted"}, active : BOOLEAN, seats : SeatCounts]
NoTable == [is |-> "none", active |-> TRUE, seats |-> DefaultSeats]
Known(list) == {t \in Tables : list[t].is = "there"}
SeatsOf(list, ts) == MapThenSumSet(LAMBDA t : list[t].seats, ts \cap Known(list))

(* ours: the page that sent it is still there to follow it up.             *)
Request == [id : 1 .. MaxTableChanges,
            kind : {"switch", "drag", "delete", "edit", "create", "combine"},
            table : Tables \cup {"none"}, seats : Nat, members : SUBSET Tables,
            toggle : BOOLEAN, ours : BOOLEAN,
            at : {"sent", "saved", "refused"}]
Blank(kind) == [id |-> sentSoFar + 1, kind |-> kind, table |-> "none", seats |-> 0,
                members |-> {}, toggle |-> FALSE, ours |-> TRUE, at |-> "sent"]
Ask(before, q) ==
    /\ sentSoFar < MaxTableChanges
    /\ sentSoFar' = sentSoFar + 1
    /\ requests' = before \cup {q}
SendRequest(q) == Ask(requests, q)
Drop(q) == requests' = requests \ {q} /\ UNCHANGED sentSoFar

Asking == [at |-> "sent"]
NotAsking == [at |-> "idle"]
Busy(kinds) == \E q \in requests : q.kind \in kinds /\ q.ours
Calm(t) == /\ tableFetch = NotAsking /\ ~unheard
           /\ \A q \in requests : q.kind = "drag" \/ q.kind = "combine" \/ q.table # t
Touch(t) == muddled' = IF Calm(t) THEN muddled ELSE muddled \cup {t}

EmptyForm == [open |-> FALSE, table |-> "none", was |-> NoTable,
              active |-> TRUE, seats |-> DefaultSeats]
EmptyCombination == [open |-> FALSE, members |-> {}, seats |-> 0]

(* A bound: the owner does nothing new after the last request, nor after a *)
(* lost answer, when nothing is claimed any more.                          *)
AtHand == ~unheard /\ sentSoFar < MaxTableChanges
AtTables == ~tableForm.open /\ ~combination.open /\ AtHand

TablesInit ==
    /\ \E there \in SUBSET Tables :
          tableRows = [t \in Tables |-> IF t \in there THEN [NoTable EXCEPT !.is = "there"]
                                        ELSE NoTable]
    /\ tablesListed = tableRows /\ requests = {} /\ sentSoFar = 0 /\ tableFetch = NotAsking
    /\ tableForm = EmptyForm /\ combination = EmptyCombination
    /\ wanted = [t \in Tables |-> TRUE] /\ muddled = {} /\ unheard = FALSE

-----------------------------------------------------------------------------
(* The cards: the switch shows the list, the request only says "toggle".   *)
SwitchTable(t) ==
    /\ AtTables /\ t \in Known(tablesListed)
    /\ SendRequest([Blank("switch") EXCEPT !.table = t])
    /\ wanted' = [wanted EXCEPT ![t] = ~tablesListed[t].active] /\ Touch(t)
    /\ UNCHANGED <<tableRows, tablesListed, tableFetch, shown, unheard>>

DragTable(t) ==
    /\ AtTables /\ t \in Known(tablesListed) /\ Cardinality(Known(tablesListed)) > 1
    /\ SendRequest([Blank("drag") EXCEPT !.table = t])
    /\ UNCHANGED <<tableRows, tablesListed, tableFetch, shown, told>>

DeleteTable(t) ==
    /\ AtTables /\ t \in Known(tablesListed)
    /\ SendRequest([Blank("delete") EXCEPT !.table = t])
    /\ UNCHANGED <<tableRows, tablesListed, tableFetch, shown, told>>

-----------------------------------------------------------------------------
(* TableFormDialog.  It is filled when editingTable becomes another        *)
(* object, not when it opens: opening the table of a cancelled edit again, *)
(* unchanged, or a second new table, finds what was typed before.          *)
FilledFrom(t, row) ==
    IF tableForm.table = t /\ tableForm.was = row THEN [tableForm EXCEPT !.open = TRUE]
    ELSE [open |-> TRUE, table |-> t, was |-> row, active |-> row.active, seats |-> row.seats]

EditTable(t) ==
    /\ AtTables /\ t \in Known(tablesListed)
    /\ tableForm' = FilledFrom(t, tablesListed[t]) /\ Touch(t)
    /\ UNCHANGED <<tableRows, tablesListed, sending, tableFetch, combination, wanted, unheard>>

NewTable ==
    /\ AtTables
    /\ tableForm' = FilledFrom("none", NoTable)
    /\ UNCHANGED <<tableRows, tablesListed, sending, tableFetch, combination, told>>

TypeTable(active, seats) ==
    /\ tableForm.open /\ AtHand
    /\ tableForm' = [tableForm EXCEPT !.active = active, !.seats = seats]
    /\ UNCHANGED <<tableRows, tablesListed, sending, tableFetch, combination, told>>

CloseTableForm ==
    /\ tableForm.open
    /\ tableForm' = [tableForm EXCEPT !.open = FALSE]
    /\ UNCHANGED <<tableRows, tablesListed, sending, tableFetch, combination, told>>

(* A new table is sent without its switch and the form is blank again      *)
(* before there is an answer; an edit keeps the form as it is.             *)
CreateTable(t) ==
    /\ tableForm.open /\ tableForm.table = "none" /\ ~Busy({"create", "edit"})
    /\ tableRows[t] = NoTable /\ \A q \in requests : q.table # t
    /\ SendRequest([Blank("create") EXCEPT !.table = t, !.seats = tableForm.seats])
    /\ tableForm' = [EmptyForm EXCEPT !.open = TRUE]
    /\ wanted' = [wanted EXCEPT ![t] = TRUE]
    /\ UNCHANGED <<tableRows, tablesListed, tableFetch, combination, muddled, unheard>>

SwitchWhenActive == tableForm.active

(* handleUpdateTable compares with the table it opened.                    *)
SwitchMoved == tableForm.active # tableForm.was.active

UpdateTable ==
    /\ tableForm.open /\ tableForm.table # "none" /\ ~Busy({"create", "edit"})
    /\ SendRequest([Blank("edit") EXCEPT !.table = tableForm.table, !.seats = tableForm.seats,
                                         !.toggle = SwitchMoved])
    /\ wanted' = [wanted EXCEPT ![tableForm.table] = tableForm.active]
    /\ UNCHANGED <<tableRows, tablesListed, tableFetch, shown, muddled, unheard>>

-----------------------------------------------------------------------------
(* TableCombinationDialog.  Its capacity is computed anew whenever the     *)
(* selection or the list changes, and may be typed over in between.        *)
Recount(c, list) == [c EXCEPT !.seats = SeatsOf(list, c.members)]

OpenCombination ==
    /\ AtTables /\ Cardinality(Known(tablesListed)) > 1
    /\ combination' = [EmptyCombination EXCEPT !.open = TRUE]
    /\ UNCHANGED <<tableRows, tablesListed, sending, tableFetch, tableForm, told>>

TickTable(t) ==
    /\ combination.open /\ AtHand /\ t \in Known(tablesListed) /\ tablesListed[t].active
    /\ combination' =
          Recount([combination EXCEPT !.members = IF t \in @ THEN @ \ {t} ELSE @ \cup {t}],
                  tablesListed)
    /\ UNCHANGED <<tableRows, tablesListed, sending, tableFetch, tableForm, told>>

TypeCapacity(n) ==
    /\ combination.open /\ AtHand
    /\ combination' = [combination EXCEPT !.seats = n]
    /\ UNCHANGED <<tableRows, tablesListed, sending, tableFetch, tableForm, told>>

CloseCombination ==
    /\ combination.open
    /\ combination' = EmptyCombination
    /\ UNCHANGED <<tableRows, tablesListed, sending, tableFetch, tableForm, told>>

(* Cleared at once, and open until there is a success.                     *)
SubmitCombination ==
    /\ combination.open /\ ~Busy({"combine"})
    /\ Cardinality(combination.members) >= 2 /\ combination.seats >= 1
    /\ Cardinality({t \in Known(tablesListed) : tablesListed[t].active}) >= 2
    /\ SendRequest([Blank("combine") EXCEPT !.members = combination.members,
                                            !.seats = combination.seats])
    /\ combination' = [EmptyCombination EXCEPT !.open = TRUE]
    /\ UNCHANGED <<tableRows, tablesListed, tableFetch, tableForm, told>>

-----------------------------------------------------------------------------
(* The server.  A combination needs tables that are there and active.      *)
TablesAccept(q) ==
    CASE q.kind = "combine" ->
            \A t \in q.members : t \in Known(tableRows) /\ tableRows[t].active
      [] q.kind = "create" -> TRUE
      [] OTHER -> q.table \in Known(tableRows)

TablesAfter(q) ==
    CASE q.kind = "switch" -> [tableRows EXCEPT ![q.table].active = ~@]
      [] q.kind = "delete" -> [tableRows EXCEPT ![q.table].is = "deleted"]
      [] q.kind = "edit" -> [tableRows EXCEPT ![q.table].seats = q.seats]
      [] q.kind = "create" ->
            [tableRows EXCEPT ![q.table] = [is |-> "there", active |-> TRUE, seats |-> q.seats]]
      [] OTHER -> tableRows

HandleRequest(q) ==
    /\ q.at = "sent" /\ TablesAccept(q)
    /\ tableRows' = TablesAfter(q)
    /\ requests' = (requests \ {q}) \cup {[q EXCEPT !.at = "saved"]}
    /\ UNCHANGED <<tablesListed, sentSoFar, tableFetch, shown, told>>

(* Also a table with reservations, a name that exists, a plan limit.       *)
RefuseRequest(q) ==
    /\ q.at = "sent"
    /\ requests' = (requests \ {q}) \cup {[q EXCEPT !.at = "refused"]}
    /\ UNCHANGED <<tableRows, tablesListed, sentSoFar, tableFetch, shown, told>>

-----------------------------------------------------------------------------
(* The answers.  An edit that was saved closes the form, whichever it is,  *)
(* and sends the switch if it was moved; so does a creation, and a         *)
(* combination closes its own dialog.  Nothing of this happens once the    *)
(* page was left.  A combination changes no table.                         *)
Saved(q) ==
    /\ q.at = "saved"
    /\ IF q.kind = "edit" /\ q.toggle /\ q.ours
       THEN Ask(requests \ {q}, [Blank("switch") EXCEPT !.table = q.table])
       ELSE Drop(q)
    /\ tableFetch' = IF q.kind = "combine" THEN tableFetch ELSE Asking
    /\ tableForm' = IF q.kind \in {"edit", "create"} /\ q.ours THEN EmptyForm ELSE tableForm
    /\ combination' = IF q.kind = "combine" /\ q.ours THEN EmptyCombination ELSE combination
    /\ UNCHANGED <<tableRows, tablesListed, told>>

(* The owner reads an error: the switch is what it was.                    *)
Refused(q) ==
    /\ q.at = "refused"
    /\ Drop(q)
    /\ wanted' = IF q.kind \in {"switch", "edit"}
                 THEN [wanted EXCEPT ![q.table] = tableRows[q.table].active] ELSE wanted
    /\ UNCHANGED <<tableRows, tablesListed, tableFetch, shown, muddled, unheard>>

RequestLost(q) ==
    /\ Drop(q)
    /\ unheard' = TRUE
    /\ UNCHANGED <<tableRows, tablesListed, tableFetch, shown, wanted, muddled>>

(* The owner leaves the page: requests under way go on, what was to follow *)
(* them does not.                                                          *)
LeaveTables ==
    /\ AtTables
    /\ requests' = {[q EXCEPT !.ours = FALSE] : q \in requests}
    /\ muddled' = muddled \cup {q.table : q \in {p \in requests : p.kind = "edit" /\ p.toggle}}
    /\ tableForm' = EmptyForm
    /\ UNCHANGED <<tableRows, tablesListed, sentSoFar, tableFetch, combination, wanted, unheard>>

ReadTables ==
    /\ tableFetch.at = "sent"
    /\ tableFetch' = [at |-> "read", rows |-> tableRows]
    /\ UNCHANGED <<tableRows, tablesListed, sending, shown, told>>

(* The effect of the combination dialog runs when the list changed.        *)
CountAgain(list) ==
    IF list = tablesListed THEN combination ELSE Recount(combination, list)

TablesArrive ==
    /\ tableFetch.at = "read"
    /\ tablesListed' = tableFetch.rows
    /\ combination' = CountAgain(tableFetch.rows)
    /\ tableFetch' = NotAsking
    /\ UNCHANGED <<tableRows, sending, tableForm, told>>

TablesFail ==
    /\ tableFetch.at # "idle"
    /\ tableFetch' = NotAsking
    /\ unheard' = TRUE
    /\ UNCHANGED <<tableRows, tablesListed, sending, shown, wanted, muddled>>

TablesNext ==
    \/ \E t \in Tables : \/ SwitchTable(t) \/ DragTable(t) \/ DeleteTable(t) \/ EditTable(t)
                         \/ CreateTable(t) \/ TickTable(t)
    \/ \E active \in BOOLEAN, seats \in SeatCounts : TypeTable(active, seats)
    \/ \E n \in SeatCounts : TypeCapacity(n)
    \/ NewTable \/ CloseTableForm \/ UpdateTable \/ LeaveTables
    \/ OpenCombination \/ CloseCombination \/ SubmitCombination
    \/ \E q \in requests : \/ HandleRequest(q) \/ RefuseRequest(q) \/ Saved(q) \/ Refused(q)
                           \/ RequestLost(q)
    \/ ReadTables \/ TablesArrive \/ TablesFail

TablesSpec == TablesInit /\ [][TablesNext]_tablesVars
-----------------------------------------------------------------------------
TablesTypeOK ==
    /\ tableRows \in [Tables -> TableRow] /\ tablesListed \in [Tables -> TableRow]
    /\ requests \subseteq Request /\ sentSoFar \in 0 .. MaxTableChanges
    /\ tableFetch.at \in {"idle", "sent", "read"}
    /\ tableForm \in [open : BOOLEAN, table : Tables \cup {"none"}, was : TableRow,
                      active : BOOLEAN, seats : SeatCounts]
    /\ combination \in [open : BOOLEAN, members : SUBSET Tables, seats : Nat]
    /\ wanted \in [Tables -> BOOLEAN] /\ muddled \subseteq Tables /\ unheard \in BOOLEAN

(* Both ways to a table's switch, the card and the form with its second    *)
(* request, leave it where the owner put it, if the owner waited for the   *)
(* list before touching that table again, did not leave the page between   *)
(* the two requests and no answer was lost.                                *)
TablesAreAsWanted ==
    \A t \in Known(tableRows) \ muddled :
        Calm(t) => tableRows[t].active = wanted[t]
=============================================================================

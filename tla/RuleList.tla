------------------------------ MODULE RuleList ------------------------------
(***************************************************************************)
(* The list of rules on RulesPage and its mutations (useRules.ts): what    *)
(* the page has cached, what the server has, and every switch, drag,       *)
(* deletion, edit and creation on its way between them.  What is in a rule *)
(* besides its switch and its priority is the subject of RuleBuilder.  The *)
(* owner stays on the page.                                                *)
(***************************************************************************)
EXTENDS Integers, FiniteSets

CONSTANTS
    Rules,
    MaxChanges      \* bound on changes made by the owner

ASSUME RuleListAssumption == MaxChanges \in Nat /\ "none" \notin Rules

NewPriority == 5    \* where the slider of a new rule stands

VARIABLES
    ruleRows,       \* [Rules -> RuleRow], the server's
    listed,         \* [Rules -> RuleRow], the cached list
    changes,        \* mutations that are not answered yet
    made,           \* number of changes made so far
    refetch,        \* the list query: idle, sent, or read with its result
    editing,        \* the rule in the builder
    snapshot,       \* that rule as it was listed then
    asked,          \* history: what the owner last set a rule's switch to
    hasty,          \* history: rules switched or opened while unsettled
    missed          \* history: an answer or a list was lost

mutations == <<changes, made>>
built == <<editing, snapshot>>
history == <<asked, hasty, missed>>
listVars == <<ruleRows, listed, mutations, refetch, built, history>>

RuleRow == [is : {"none", "there", "deleted"}, active : BOOLEAN, priority : Nat]
NoRow == [is |-> "none", active |-> FALSE, priority |-> NewPriority]
There(list) == {r \in Rules : list[r].is = "there"}

(* A change is sent, saved or refused, and gone when its answer is there   *)
(* or is lost.  Of a drag, order is the new priorities, 0 for rules that   *)
(* were not listed; of a rule in the form, its priority.                   *)
Change == [id : 1 .. MaxChanges, kind : {"switch", "drag", "delete", "edit", "create"},
           rule : Rules, active : BOOLEAN, order : [Rules -> Nat],
           at : {"sent", "saved", "refused"}]
NewChange(kind, r, active, order) ==
    /\ made < MaxChanges
    /\ made' = made + 1
    /\ changes' = changes \cup {[id |-> made + 1, kind |-> kind, rule |-> r, active |-> active,
                                 order |-> order, at |-> "sent"]}
SetChange(c, at) == changes' = (changes \ {c}) \cup {[c EXCEPT !.at = at]} /\ UNCHANGED made
Over(c) == changes' = changes \ {c} /\ UNCHANGED made

NoOrder == [r \in Rules |-> 0]
Idle == [at |-> "idle"]
Sent == [at |-> "sent"]

(* Nothing that sets the switch of r is under way, and r's switch is drawn *)
(* from a list that came after what was.                                   *)
Settled(r) ==
    /\ refetch.at = "idle" /\ ~missed
    /\ \A c \in changes : c.kind = "drag" \/ c.rule # r

ListInit ==
    /\ \E there \in SUBSET Rules :
          ruleRows = [r \in Rules |->
                        IF r \in there THEN [NoRow EXCEPT !.is = "there", !.active = TRUE]
                        ELSE NoRow]
    /\ listed = ruleRows /\ changes = {} /\ made = 0 /\ refetch = Idle
    /\ editing = "none" /\ snapshot = NoRow
    /\ asked = [r \in Rules |-> ruleRows[r].active] /\ hasty = {} /\ missed = FALSE

-----------------------------------------------------------------------------
(* The owner.  The switch shows the list, and stays where it is until a    *)
(* new list is there; the request only says "toggle".                      *)
AtList == editing = "none"

ToggleRule(r) ==
    /\ AtList /\ r \in There(listed)
    /\ NewChange("switch", r, FALSE, NoOrder)
    /\ asked' = [asked EXCEPT ![r] = ~listed[r].active]
    /\ hasty' = IF Settled(r) THEN hasty ELSE hasty \cup {r}
    /\ UNCHANGED <<ruleRows, listed, refetch, built, missed>>

(* handleDragEnd and useReorderRules: moved goes elsewhere, the others     *)
(* keep their order, and all are given multiples of ten.                   *)
Dragged(moved) ==
    LET L == There(listed) IN
    {f \in [L -> 1 .. Cardinality(L)] :
        /\ \A x, y \in L : f[x] = f[y] => x = y
        /\ \A x, y \in L \ {moved} : listed[x].priority > listed[y].priority => f[x] > f[y]}
DragRule(r) ==
    /\ AtList /\ r \in There(listed)
    /\ \E f \in Dragged(r) :
          NewChange("drag", r, FALSE,
                    [x \in Rules |-> IF x \in There(listed) THEN 10 * f[x] ELSE 0])
    /\ UNCHANGED <<ruleRows, listed, refetch, built, history>>

DeleteRule(r) ==
    /\ AtList /\ r \in There(listed)
    /\ NewChange("delete", r, FALSE, NoOrder)
    /\ UNCHANGED <<ruleRows, listed, refetch, built, history>>

CreateRule(r) ==
    /\ AtList /\ ruleRows[r] = NoRow /\ \A c \in changes : c.rule # r
    /\ \E active \in BOOLEAN :
          /\ NewChange("create", r, active, [NoOrder EXCEPT ![r] = NewPriority])
          /\ asked' = [asked EXCEPT ![r] = active]
    /\ UNCHANGED <<ruleRows, listed, refetch, built, hasty, missed>>

(* handleEditRule hands the listed rule to the builder, which keeps it     *)
(* whatever the list does.                                                 *)
OpenRule(r) ==
    /\ AtList /\ r \in There(listed)
    /\ editing' = r /\ snapshot' = listed[r]
    /\ hasty' = IF Settled(r) THEN hasty ELSE hasty \cup {r}
    /\ UNCHANGED <<ruleRows, listed, mutations, refetch, asked, missed>>

CloseRule ==
    /\ editing # "none"
    /\ editing' = "none" /\ snapshot' = NoRow
    /\ UNCHANGED <<ruleRows, listed, mutations, refetch, history>>

(* The PUT carries the switch and the priority of the form, touched or     *)
(* not; a priority above ten has to be set anew before the form submits.   *)
SubmitRule ==
    /\ editing # "none"
    /\ \E active \in BOOLEAN :
          /\ NewChange("edit", editing, active,
                 [NoOrder EXCEPT ![editing] =
                     IF snapshot.priority \in 1 .. 10 THEN snapshot.priority ELSE NewPriority])
          /\ asked' = IF active # snapshot.active THEN [asked EXCEPT ![editing] = active] ELSE asked
    /\ editing' = "none" /\ snapshot' = NoRow
    /\ UNCHANGED <<ruleRows, listed, refetch, hasty, missed>>

-----------------------------------------------------------------------------
(* The server.                                                             *)

SwitchAsSent(c) == [ruleRows EXCEPT ![c.rule].active = TRUE]

(* ToggleRuleCommandHandler inverts what it finds.                         *)
Switched(c) == [ruleRows EXCEPT ![c.rule].active = ~@]

(* What the five handlers leave of the rows.                               *)
RowsAfter(c) ==
    CASE c.kind = "switch" -> Switched(c)
      [] c.kind = "drag" ->
            [r \in Rules |-> IF c.order[r] = 0 THEN ruleRows[r]
                             ELSE [ruleRows[r] EXCEPT !.priority = c.order[r]]]
      [] c.kind = "delete" -> [ruleRows EXCEPT ![c.rule].is = "deleted"]
      [] OTHER -> [ruleRows EXCEPT ![c.rule] =
                      [is |-> "there", active |-> c.active, priority |-> c.order[c.rule]]]

(* A handler refuses a rule that is gone; the order of a drag is refused   *)
(* when any rule in it is gone.                                            *)
Accepts(c) ==
    CASE c.kind = "create" -> TRUE
      [] c.kind = "drag" -> \A r \in Rules : c.order[r] # 0 => r \in There(ruleRows)
      [] OTHER -> c.rule \in There(ruleRows)

HandleChange(c) ==
    /\ c.at = "sent" /\ Accepts(c)
    /\ ruleRows' = RowsAfter(c)
    /\ SetChange(c, "saved")
    /\ UNCHANGED <<listed, refetch, built, history>>

(* Also a name that exists, a plan limit, or a role other than owner.      *)
RefuseChange(c) ==
    /\ c.at = "sent"
    /\ SetChange(c, "refused")
    /\ UNCHANGED <<ruleRows, listed, refetch, built, history>>

-----------------------------------------------------------------------------
(* The page again.                                                         *)

RefetchIfIdle == refetch' = IF refetch = Idle THEN Sent ELSE refetch

(* invalidateQueries: a list under way is dropped and asked for again.     *)
InvalidateRules == refetch' = Sent

ChangeSaved(c) ==
    /\ c.at = "saved"
    /\ Over(c)
    /\ InvalidateRules
    /\ UNCHANGED <<ruleRows, listed, built, history>>

(* An error is a message, nothing more; the owner reads that the switch is *)
(* what it was.                                                            *)
ChangeRefused(c) ==
    /\ c.at = "refused"
    /\ Over(c)
    /\ asked' = IF c.kind \in {"switch", "edit"}
                THEN [asked EXCEPT ![c.rule] = ruleRows[c.rule].active] ELSE asked
    /\ UNCHANGED <<ruleRows, listed, refetch, built, hasty, missed>>

ChangeLost(c) ==
    /\ Over(c)
    /\ missed' = TRUE
    /\ UNCHANGED <<ruleRows, listed, refetch, built, asked, hasty>>

ReadRules ==
    /\ refetch.at = "sent"
    /\ refetch' = [at |-> "read", rows |-> ruleRows]
    /\ UNCHANGED <<ruleRows, listed, mutations, built, history>>

ListArrives ==
    /\ refetch.at = "read"
    /\ listed' = refetch.rows
    /\ refetch' = Idle
    /\ UNCHANGED <<ruleRows, mutations, built, history>>

(* Both tries failed: the old list stays on the page.                      *)
ListFails ==
    /\ refetch.at # "idle"
    /\ refetch' = Idle
    /\ missed' = TRUE
    /\ UNCHANGED <<ruleRows, listed, mutations, built, asked, hasty>>

ListNext ==
    \/ \E r \in Rules : \/ ToggleRule(r) \/ DragRule(r) \/ DeleteRule(r) \/ CreateRule(r)
                        \/ OpenRule(r)
    \/ CloseRule \/ SubmitRule \/ ReadRules \/ ListArrives \/ ListFails
    \/ \E c \in changes : \/ HandleChange(c) \/ RefuseChange(c) \/ ChangeSaved(c)
                          \/ ChangeRefused(c) \/ ChangeLost(c)

ListSpec == ListInit /\ [][ListNext]_listVars
-----------------------------------------------------------------------------
ListTypeOK ==
    /\ ruleRows \in [Rules -> RuleRow] /\ listed \in [Rules -> RuleRow]
    /\ changes \subseteq Change /\ made \in 0 .. MaxChanges
    /\ refetch.at \in {"idle", "sent", "read"}
    /\ editing \in Rules \cup {"none"} /\ snapshot \in RuleRow
    /\ asked \in [Rules -> BOOLEAN] /\ hasty \subseteq Rules /\ missed \in BOOLEAN

(* Once nothing is under way the page shows what the server has, however   *)
(* the changes and the lists they ask for overlapped, unless an answer or  *)
(* a list was lost: an error of a change never makes the page look again.  *)
ListIsServers ==
    changes = {} /\ refetch.at = "idle" /\ ~missed => listed = ruleRows

(* A rule's switch ends up where the owner last put it, though the request *)
(* only says "toggle" and an edit sends the switch it had found, as long   *)
(* as the owner waited for the list before touching that rule again.       *)
SwitchesAsAsked ==
    \A r \in There(ruleRows) \ hasty :
        Settled(r) => ruleRows[r].active = asked[r]
=============================================================================

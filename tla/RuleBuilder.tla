---------------------------- MODULE RuleBuilder ----------------------------
(***************************************************************************)
(* The rule builder of the admin panel: what a four-step dialog shows of a *)
(* template or of a saved rule, what the owner makes of it, what is sent,  *)
(* what the server stores, what the page's list shows of it and what is    *)
(* read back.  Names, messages and numbers are one word each: where they   *)
(* come from.                                                              *)
(***************************************************************************)
EXTENDS Integers, FiniteSets

CONSTANTS
    RuleIds,
    Gallery,            \* the templates on offer, a subset of RuleTemplates
    MaxSaves,           \* bound on submits, colleagues' edits and drags
    MaxTouched          \* bound on the fields that are changed in one dialog

(* data/ruleTemplates.ts: every template with its rule type and its        *)
(* default action: those of a built-in type, and those whose conditions    *)
(* are a form of their own or JSON.                                        *)
TypedTemplates ==
    {<<"early-booking", "EarlyBooking", "Discount">>, <<"vip-priority", "VipPriority", "Suggest">>,
     <<"large-group", "LargeGroup", "Warn">>, <<"deposit", "DepositRequired", "Deposit">>,
     <<"peak-hour", "PeakHour", "Warn">>, <<"table-cooldown", "TableCooldown", "Block">>}
OtherTemplates ==
    {<<"group-composition", "GroupComposition", "Block">>,
     <<"blacklist", "CustomCondition", "Block">>,
     <<"weekday-discount", "CustomCondition", "Discount">>,
     <<"full-house", "CustomCondition", "Block">>}
RuleTemplates == TypedTemplates \cup OtherTemplates

NoId == "none"
ASSUME BuilderAssumption ==
    NoId \notin RuleIds /\ Gallery \subseteq RuleTemplates
    /\ MaxSaves \in Nat /\ MaxTouched \in Nat

RuleType == {t[2] : t \in RuleTemplates}
ActionType == {"Block", "Warn", "Suggest", "Discount", "Deposit", "Redirect"}

(* Where the content of a form or of a stored rule comes from: nothing is  *)
(* there, conditions that this type of rule does not look at, a fallback   *)
(* written in the code, the template, the owner, unreadable JSON.          *)
Content == {"none", "foreign", "default", "template", "own", "invalid"}

(* figure: the percent of a discount, the amount of a deposit.  text: the  *)
(* message, or the label of an early-booking rule; a box left empty is not *)
(* the same as no message.                                                 *)
Action == [kind : ActionType \cup {"none"}, figure : {"none", "default", "template", "own"},
           text : {"none", "empty", "default", "template", "own", "invalid"}]
Act(k, figure, text) == [kind |-> k, figure |-> figure, text |-> text]
NoAction == Act("none", "none", "none")

(* Where the content of an action of this kind comes from: discounts and   *)
(* deposits have a figure and no message, the others a message.            *)
FiguredActions == {"Discount", "Deposit"}
ActionFrom(k, word) == IF k \in FiguredActions THEN Act(k, word, "none") ELSE Act(k, "none", word)

RuleForm == [type : RuleType, conditions : Content, action : Action,
             priority : {"slider", "dragged"}]
StoredRule == RuleForm
NoRule == [type |-> "none"]

VARIABLES
    storedRules,    \* [RuleIds -> StoredRule \cup {NoRule}]
    rulesShown,     \* the list on the page, the rules as they were read
    rulesFetch,     \* the list's query
    builder,        \* the dialog: open or not, its source, step and form
    saving,         \* the mutation in flight
    saves,
    kept            \* history: every update of a dialog that was not stale
                    \* kept the action its owner had not touched

listVarsOfBuilder == <<rulesShown, rulesFetch>>
builderVars == <<storedRules, listVarsOfBuilder, builder, saving, saves, kept>>

(* The JSON of a custom rule to begin with.                                *)
DefaultJson == Act("Warn", "none", "default")

(* stale, history: opened on a row of the list whose action was not the    *)
(* rule's any more, or while the rule was being saved, or changed by a     *)
(* colleague since.                                                        *)
Closed == [open |-> FALSE, editing |-> NoId, step |-> 1, touched |-> {}, stale |-> FALSE,
           form |-> [type |-> "CustomCondition", conditions |-> "default",
                     action |-> DefaultJson, priority |-> "slider"]]
NotSaving == [rule |-> NoId]

-----------------------------------------------------------------------------
(* From the form to the wire and back.                                     *)

(* buildTypedPayload: a typed rule takes the numbers it needs from the     *)
(* conditions, or else its fallback; the other two types send what is      *)
(* there.                                                                  *)
SentConditions(f) ==
    IF f.type \notin {"GroupComposition", "CustomCondition"}
          /\ f.conditions \in {"none", "foreign"}
    THEN "default" ELSE f.conditions

(* The same for the first action: its message if it has one, whatever its  *)
(* kind, or only if it is of the kind that is looked for.                  *)
MessageOf(a) == IF a.text = "none" THEN "default" ELSE a.text
MessageIf(a, kinds) == IF a.kind \in kinds THEN MessageOf(a) ELSE "default"
FigureIf(a, kind) == IF a.kind = kind THEN a.figure ELSE "default"
BlockOrWarn(a) == IF a.kind = "Block" THEN "Block" ELSE "Warn"

SentAction(f) ==
    LET a == f.action IN
    CASE f.type = "VipPriority" -> Act("Suggest", "none", "none")
      [] f.type = "EarlyBooking" -> Act("Discount", FigureIf(a, "Discount"), MessageOf(a))
      [] f.type = "LargeGroup" -> Act("Warn", "none", MessageIf(a, {"Warn", "Block"}))
      [] f.type = "DepositRequired" -> Act("Deposit", FigureIf(a, "Deposit"), "none")
      [] f.type = "TableCooldown" -> Act("Block", "none", MessageIf(a, {"Block"}))
      [] f.type = "PeakHour" -> Act(BlockOrWarn(a), "none", MessageOf(a))
      [] f.type = "GroupComposition" ->
            Act(IF a.kind \in {"Block", "Warn", "Suggest"} THEN BlockOrWarn(a) ELSE "none", "none",
                IF a.text = "empty" THEN "default" ELSE MessageOf(a))
      [] OTHER -> a

Payload(f) == [type |-> f.type, conditions |-> SentConditions(f), action |-> SentAction(f),
               priority |-> f.priority]

ReadActionWithoutText(r) ==
    IF r.type \in {"EarlyBooking", "PeakHour", "GroupComposition"} /\ r.action.kind # "none"
    THEN [r.action EXCEPT !.text = "none"] ELSE NoAction

(* tryParseActions knows the keys block, warn, discountPercent and         *)
(* requireDeposit, and the key message: the actions of four types have     *)
(* other keys, and so has the label of an early-booking rule.              *)
ReadAction(r) ==
    CASE r.type \in {"PeakHour", "GroupComposition"} /\ r.action.kind # "none" -> r.action
      [] r.type = "EarlyBooking" -> [r.action EXCEPT !.text = "none"]
      [] OTHER -> NoAction

(* The effect that fills the dialog: from a template, or from a rule as    *)
(* mapApiRuleDtoToRule hands it over, which reads the conditions of a      *)
(* group or custom rule only.                                              *)
FormOfTemplate(t) ==
    [type |-> t[2], priority |-> "slider",
     conditions |-> IF t[2] \in {"GroupComposition", "CustomCondition"} THEN "default"
                    ELSE "template",
     action |-> IF t[2] = "CustomCondition" THEN DefaultJson ELSE ActionFrom(t[3], "template")]
FormOfRule(r) ==
    [type |-> r.type, priority |-> r.priority,
     conditions |-> IF r.type \in {"GroupComposition", "CustomCondition"} THEN r.conditions
                    ELSE "none",
     action |-> IF r.type = "CustomCondition" THEN r.action ELSE ReadAction(r)]

(* The answer to the list's query, as useRules maps it.                    *)
Listed(rows) == [r \in RuleIds |-> IF rows[r] = NoRule THEN NoRule ELSE FormOfRule(rows[r])]

-----------------------------------------------------------------------------
(* A venue has the rules its owner made of templates before.               *)
BuilderInit ==
    /\ storedRules \in [RuleIds -> {NoRule} \cup {Payload(FormOfTemplate(t)) : t \in Gallery}]
    /\ rulesShown = Listed(storedRules) /\ rulesFetch = [at |-> "idle"]
    /\ builder = Closed
    /\ saving = NotSaving /\ saves = 0 /\ kept = TRUE

InFlight == saving # NotSaving /\ saving.at = "sent"

Open(edited, form, stale) ==
    /\ ~builder.open /\ saves < MaxSaves
    /\ builder' = [open |-> TRUE, editing |-> edited, step |-> 1, touched |-> {},
                   stale |-> stale, form |-> form]
    /\ UNCHANGED <<storedRules, listVarsOfBuilder, saving, saves, kept>>

(* handleSelectTemplate, handleNewCustomRule, and handleEditRule, which is *)
(* handed the rule as the list shows it.                                   *)
OpenTemplate == \E t \in Gallery : Open(NoId, FormOfTemplate(t), FALSE)
OpenBlank == Open(NoId, Closed.form, FALSE)
OpenEdit ==
    \E r \in RuleIds :
        /\ rulesShown[r] # NoRule
        /\ Open(r, rulesShown[r],
                \/ rulesShown[r].action # FormOfRule(storedRules[r]).action
                \/ InFlight /\ saving.rule = r)

(* Bounds: MaxTouched, and forms are left alone after the last submit.     *)
ChangeField(field, value) ==
    /\ saves < MaxSaves /\ Cardinality(builder.touched \cup {field}) <= MaxTouched
    /\ builder' = [builder EXCEPT !.form[field] = value, !.touched = @ \cup {field}]
    /\ UNCHANGED <<storedRules, listVarsOfBuilder, saving, saves, kept>>

SetPriority ==
    /\ builder.open /\ builder.step = 1 /\ builder.form.priority # "slider"
    /\ ChangeField("priority", "slider")

Custom == builder.form.type = "CustomCondition"

(* Step 2 of a built-in type: a list of conditions, of which the first one *)
(* that this type looks for counts, or the same list as JSON, where text   *)
(* that does not parse is not taken.                                       *)
Listing == builder.step = 2 /\ builder.form.type \notin {"GroupComposition", "CustomCondition"}
SetConditions(contents) == builder.open /\ \E c \in contents : ChangeField("conditions", c)

AddCondition ==
    /\ Listing
    /\ SetConditions(IF builder.form.conditions \in {"none", "foreign"} THEN {"own", "foreign"}
                     ELSE {builder.form.conditions})
UpdateCondition ==
    /\ Listing /\ builder.form.conditions # "none"
    /\ SetConditions({"own", "foreign", builder.form.conditions})
RemoveCondition ==
    /\ Listing /\ builder.form.conditions # "none"
    /\ SetConditions({"none", "foreign", builder.form.conditions})
EditConditionList == Listing /\ SetConditions({"own", "foreign", "none"})

(* The sliders and boxes of a group rule; the JSON of a custom rule.       *)
EditComposition ==
    /\ builder.step = 2 /\ builder.form.type = "GroupComposition"
    /\ SetConditions({"own"})
EditCustomConditions == builder.step = 2 /\ Custom /\ SetConditions({"own", "invalid"})

(* "Ornek yukle" replaces the actions of step 3 as well.                   *)
LoadExample ==
    /\ builder.open /\ builder.step = 2 /\ Custom /\ saves < MaxSaves
    /\ builder' = [builder EXCEPT !.form.conditions = "own",
                                  !.form.action = Act("Block", "none", "own"),
                                  !.touched = @ \cup {"conditions", "action"}]
    /\ UNCHANGED <<storedRules, listVarsOfBuilder, saving, saves, kept>>

(* Step 3: an action can be added when there is none, changed, thrown away *)
(* or, with "Baska Aksiyon Sec", chosen again.                             *)
NewAction(k) ==
    IF k \in {"Block", "Warn"} THEN Act(k, "none", "empty")
    ELSE IF k \in FiguredActions THEN Act(k, "default", "none")
    ELSE Act(k, "none", "none")

Acting == builder.open /\ builder.step = 3 /\ ~Custom
AddAction ==
    /\ Acting /\ builder.form.action = NoAction
    /\ \E k \in ActionType : ChangeField("action", NewAction(k))

(* Its slider or its box; the address of a redirect is sent to nobody.     *)
UpdateAction ==
    /\ Acting
    /\ LET a == builder.form.action IN
          \/ a.kind \in FiguredActions /\ ChangeField("action", [a EXCEPT !.figure = "own"])
          \/ /\ a.kind \in {"Block", "Warn", "Suggest"}
             /\ \E text \in {"own", "empty"} : ChangeField("action", [a EXCEPT !.text = text])
RemoveAction == Acting /\ builder.form.action # NoAction /\ ChangeField("action", NoAction)

(* The actions of a custom rule, as a form or as raw JSON: with every      *)
(* switch off, or as text that does not parse, they are not valid.         *)
EditCustomActions ==
    /\ builder.open /\ builder.step = 3 /\ Custom
    /\ \E a \in {Act("Block", "none", "own"), Act("none", "none", "invalid")} :
          ChangeField("action", a)

ConditionsValid == Custom => builder.form.conditions # "invalid"
ActionsValid == Custom => builder.form.action.text # "invalid"

GoTo(step) ==
    /\ saves < MaxSaves /\ builder' = [builder EXCEPT !.step = step]
    /\ UNCHANGED <<storedRules, listVarsOfBuilder, saving, saves, kept>>
NextStep ==
    /\ builder.open /\ builder.step < 4
    /\ builder.step = 2 => ConditionsValid
    /\ builder.step = 3 => ActionsValid
    /\ GoTo(builder.step + 1)
BackStep == builder.open /\ builder.step > 1 /\ GoTo(builder.step - 1)

(* "Iptal", Escape, a click beside the dialog: also while it is saved.     *)
CloseBuilder ==
    /\ builder.open /\ saves < MaxSaves
    /\ builder' = Closed
    /\ UNCHANGED <<storedRules, listVarsOfBuilder, saving, saves, kept>>

(* The button of step 4, and the schema behind it: a priority above ten,   *)
(* which dragging gives to all rules but the last, is not submitted.       *)
CanSubmit ==
    /\ builder.open /\ builder.step = 4
    /\ saving = NotSaving
    /\ IF Custom THEN ConditionsValid /\ ActionsValid ELSE builder.form.action # NoAction
    /\ builder.form.priority = "slider"

Submit ==
    /\ CanSubmit /\ saves < MaxSaves
    /\ saves' = saves + 1
    /\ saving' = [rule |-> builder.editing, body |-> Payload(builder.form), at |-> "sent",
                  touched |-> builder.touched, stale |-> builder.stale]
    /\ UNCHANGED <<storedRules, listVarsOfBuilder, builder, kept>>

(* The action as it was, except that an early-booking rule whose label was *)
(* somebody's own gets the label that is written in the code.              *)
PutBack(r) == IF r.type = "EarlyBooking" THEN [r.action EXCEPT !.text = "default"] ELSE r.action

KeepsUntouched(old, new) ==
    saving.stale \/ "action" \in saving.touched \/ new.action = PutBack(old)

(* POST and PUT /api/v1/rules: the row is made, or every field of it       *)
(* overwritten.                                                            *)
SaveRule ==
    /\ InFlight
    /\ \E r \in RuleIds :
          /\ IF saving.rule = NoId THEN storedRules[r] = NoRule ELSE r = saving.rule
          /\ storedRules' = [storedRules EXCEPT ![r] = saving.body]
          /\ kept' = IF saving.rule = NoId THEN kept
                     ELSE kept /\ KeepsUntouched(storedRules[r], saving.body)
    /\ saving' = [saving EXCEPT !.at = "saved"]
    /\ UNCHANGED <<listVarsOfBuilder, builder, saves>>

(* onSuccess closes the builder, whichever is open, and asks for the list  *)
(* again, dropping a query under way.                                      *)
SaveSucceeded ==
    /\ saving # NotSaving /\ saving.at = "saved"
    /\ saving' = NotSaving
    /\ builder' = Closed
    /\ rulesFetch' = [at |-> "sent"]
    /\ UNCHANGED <<storedRules, rulesShown, saves, kept>>

(* Refused (the name exists, the plan limit), or lost on either way: the   *)
(* list is not asked for.                                                  *)
SaveFailed ==
    /\ saving # NotSaving
    /\ saving' = NotSaving
    /\ UNCHANGED <<storedRules, listVarsOfBuilder, builder, saves, kept>>

(* Dragging the list gives multiples of ten (see RuleList).  Bounds: it is *)
(* done while no dialog is open, and counts as a submit.                   *)
DragRules ==
    /\ ~builder.open /\ saving = NotSaving
    /\ saves < MaxSaves /\ saves' = saves + 1
    /\ \E r \in RuleIds :
          /\ storedRules[r] # NoRule /\ storedRules[r].priority = "slider"
          /\ storedRules' = [storedRules EXCEPT ![r].priority = "dragged"]
    /\ UNCHANGED <<listVarsOfBuilder, builder, saving, kept>>

(* Another of the venue's staff gives the rule another action, in a dialog *)
(* of their own.  It counts as a submit.                                   *)
WithAction(f, a) == [f EXCEPT !.action = a, !.priority = "slider"]
Overtaken(x, rule, r) == [x EXCEPT !.stale = @ \/ rule = r]
ColleagueEdits ==
    /\ saves < MaxSaves /\ saves' = saves + 1
    /\ \E r \in RuleIds, k \in ActionType :
          /\ storedRules[r] # NoRule /\ storedRules[r].type # "CustomCondition"
          /\ storedRules' = [storedRules EXCEPT ![r] =
                Payload(WithAction(FormOfRule(@), ActionFrom(k, "own")))]
          /\ builder' = Overtaken(builder, builder.editing, r)
          /\ saving' = IF saving = NotSaving THEN saving ELSE Overtaken(saving, saving.rule, r)
    /\ UNCHANGED <<listVarsOfBuilder, kept>>

(* The list's query, asked for on a visit when it is five minutes old.     *)
(* Bounds: its answers come while no dialog is open, which would not look  *)
(* at them, and it is left alone, like the forms, after the last submit.   *)
ListMatters == ~builder.open /\ saves < MaxSaves
AskForRules ==
    /\ ListMatters /\ rulesFetch.at = "idle" /\ rulesShown # Listed(storedRules)
    /\ rulesFetch' = [at |-> "sent"]
    /\ UNCHANGED <<storedRules, rulesShown, builder, saving, saves, kept>>
AnswerWithRules ==
    /\ ListMatters /\ rulesFetch.at = "sent"
    /\ rulesFetch' = [at |-> "read", rows |-> Listed(storedRules)]
    /\ UNCHANGED <<storedRules, rulesShown, builder, saving, saves, kept>>
ShowRules ==
    /\ ListMatters /\ rulesFetch.at = "read"
    /\ rulesShown' = rulesFetch.rows /\ rulesFetch' = [at |-> "idle"]
    /\ UNCHANGED <<storedRules, builder, saving, saves, kept>>
RulesUnanswered ==
    /\ ListMatters /\ rulesFetch.at # "idle"
    /\ rulesFetch' = [at |-> "idle"]
    /\ UNCHANGED <<storedRules, rulesShown, builder, saving, saves, kept>>

BuilderNext ==
    \/ OpenTemplate \/ OpenBlank \/ OpenEdit \/ SetPriority
    \/ AddCondition \/ UpdateCondition \/ RemoveCondition \/ EditConditionList
    \/ EditComposition \/ EditCustomConditions \/ LoadExample
    \/ AddAction \/ UpdateAction \/ RemoveAction \/ EditCustomActions
    \/ NextStep \/ BackStep \/ CloseBuilder \/ Submit \/ SaveRule \/ SaveSucceeded \/ SaveFailed
    \/ DragRules \/ ColleagueEdits
    \/ AskForRules \/ AnswerWithRules \/ ShowRules \/ RulesUnanswered

BuilderSpec == BuilderInit /\ [][BuilderNext]_builderVars
-----------------------------------------------------------------------------
BuilderTypeOK ==
    /\ storedRules \in [RuleIds -> StoredRule \cup {NoRule}]
    /\ rulesShown \in [RuleIds -> RuleForm \cup {NoRule}]
    /\ rulesFetch.at \in {"idle", "sent", "read"}
    /\ builder.step \in 1 .. 4 /\ builder.form \in RuleForm
    /\ builder.editing \in RuleIds \cup {NoId}
    /\ saves \in 0 .. MaxSaves /\ kept \in BOOLEAN

(* A rule that is edited and saved with its action left alone keeps the    *)
(* kind, the figure and the message of that action, lost answers included: *)
(* what is read back is sent again as it was, and for the types whose      *)
(* actions cannot be read back the owner is made to choose one again.  The *)
(* label of an early-booking rule is not read back, and becomes the code's *)
(* own.  Nothing is claimed for a dialog that was opened on a row of the   *)
(* list with another action than the rule has, which is so between a save  *)
(* and the next list and stays so after a lost answer, that was opened     *)
(* while the rule was being saved, or that a colleague's save overtook.    *)
ActionsSurviveEdit == kept

(* When the dialog opens on a saved rule, it starts from the conditions of *)
(* that rule, as long as the list shows the rule as it is.                 *)
FormStartsFromItsSource ==
    builder.open /\ builder.touched = {} /\ builder.editing # NoId
        /\ rulesShown = Listed(storedRules)
    => builder.form.conditions = storedRules[builder.editing].conditions
=============================================================================

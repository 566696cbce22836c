------------------------------ MODULE PlanPrices ------------------------------
(***************************************************************************)
(* PricingPage of the super-admin panel: prices, limits and features of    *)
(* the plans.  What the admin types is kept per plan, as a whole copy of   *)
(* the plan as the page had it, where the limits and features that the     *)
(* plan does not have are filled with the page's defaults, and a save      *)
(* sends the whole copy.  The page remembers one save at a time            *)
(* (savingPlan).                                                           *)
(***************************************************************************)
EXTENDS Integers, FiniteSets

CONSTANTS
    Plans,
    PlanFields,         \* prices, limits, features that can be edited
    JsonFields,         \* those that are keys of LimitsJson or FeaturesJson
    PlanValues,         \* what a field may hold
    PageDefault,        \* that of a key which is not there, on this page
    MaxPlanSaves        \* bound on saves, the other admin's too

NotStored == "not_stored"
ASSUME PlanAssumption ==
    /\ IsFiniteSet(Plans) /\ MaxPlanSaves \in Nat
    /\ PageDefault \in PlanValues /\ NotStored \notin PlanValues

VARIABLES
    planRows,       \* [Plans -> StoredPlan], the server's
    plansListed,    \* the cached list
    edits,          \* [set of plans -> copy being edited]
    savingPlan,     \* the plan whose button spins, or "none"
    planPuts,       \* saves under way
    planSaves,      \* saves so far
    plansFetch,     \* the list's query
    typed,          \* history: the last value meant for each field
    outdated        \* history: a plan was edited on a page that did not show it as it
                    \* was, or while its save was under way

planVars == <<planRows, plansListed, edits, savingPlan, planPuts, planSaves, plansFetch,
              typed, outdated>>

(* A copy has all fields; the JSON of a stored plan may lack keys, as that *)
(* of the seeded plans does.                                               *)
PlanRow == [PlanFields -> PlanValues]
StoredPlan ==
    {row \in [PlanFields -> PlanValues \cup {NotStored}] :
        \A f \in PlanFields : row[f] = NotStored => f \in JsonFields}

(* open: the page that sent it is still there.                             *)
PlanPut == [id : 1 .. MaxPlanSaves, plan : Plans, body : PlanRow, open : BOOLEAN,
            at : {"sent", "saved", "refused"}]

PlansInit ==
    /\ planRows \in {[p \in Plans |-> row] : row \in StoredPlan}
    /\ plansListed = planRows /\ edits = [p \in {} |-> planRows[p]] /\ savingPlan = "none"
    /\ planPuts = {} /\ planSaves = 0 /\ plansFetch = [at |-> "idle"]
    /\ typed = planRows /\ outdated = FALSE

(* parseLimits, parseFeatures: the defaults, with what is stored over them.*)
Filled(row) == [f \in PlanFields |-> IF row[f] = NotStored THEN PageDefault ELSE row[f]]

(* getEdit                                                                 *)
EditOf(p) == IF p \in DOMAIN edits THEN edits[p] ELSE Filled(plansListed[p])

(* A bound: nobody does anything new after the last save, nor once nothing *)
(* is claimed any more.                                                    *)
MoreToSave == planSaves < MaxPlanSaves /\ ~outdated
UnderWay(p) == \E q \in planPuts : q.plan = p

(* patchEdit                                                               *)
TypePlan(p, f, v) ==
    /\ MoreToSave /\ EditOf(p)[f] # v
    /\ edits' = [x \in DOMAIN edits \cup {p} |->
                    IF x = p THEN [EditOf(p) EXCEPT ![f] = v] ELSE edits[x]]
    /\ typed' = [typed EXCEPT ![p][f] = v]
    /\ outdated' = (UnderWay(p) \/ (p \notin DOMAIN edits /\ plansListed[p] # planRows[p]))
    /\ UNCHANGED <<planRows, plansListed, savingPlan, planPuts, planSaves, plansFetch>>

(* handleSave: prices that are numbers and the whole of the two JSONs; a   *)
(* second plan's save takes the mark from the first.                       *)
SavePlan(p) ==
    /\ p \in DOMAIN edits /\ savingPlan # p /\ MoreToSave
    /\ planPuts' = planPuts \cup {[id |-> planSaves + 1, plan |-> p, body |-> edits[p],
                                   open |-> TRUE, at |-> "sent"]}
    /\ planSaves' = planSaves + 1
    /\ savingPlan' = p
    /\ UNCHANGED <<planRows, plansListed, edits, plansFetch, typed, outdated>>

HandlePlan(q) ==
    /\ q.at = "sent"
    /\ planRows' = [planRows EXCEPT ![q.plan] = q.body]
    /\ planPuts' = (planPuts \ {q}) \cup {[q EXCEPT !.at = "saved"]}
    /\ UNCHANGED <<plansListed, edits, savingPlan, planSaves, plansFetch, typed, outdated>>
RefusePlan(q) ==
    /\ q.at = "sent"
    /\ planPuts' = (planPuts \ {q}) \cup {[q EXCEPT !.at = "refused"]}
    /\ UNCHANGED <<planRows, plansListed, edits, savingPlan, planSaves, plansFetch, typed,
                   outdated>>

NoEdits(p) == [x \in {} |-> planRows[x]]

(* The copy is dropped, with what was typed into it since.                 *)
EditsAfter(p) == [x \in DOMAIN edits \ {p} |-> edits[x]]

PlanSaved(q) ==
    /\ q.at = "saved"
    /\ planPuts' = planPuts \ {q}
    /\ edits' = IF q.open THEN EditsAfter(q.plan) ELSE edits
    /\ savingPlan' = IF q.open THEN "none" ELSE savingPlan
    /\ plansFetch' = [at |-> "sent"]
    /\ UNCHANGED <<planRows, plansListed, planSaves, typed, outdated>>

(* An error, or no answer: the copy stays on the page, unsaved.            *)
PlanRefused(q) ==
    /\ q.at = "refused"
    /\ planPuts' = planPuts \ {q}
    /\ savingPlan' = IF q.open THEN "none" ELSE savingPlan
    /\ UNCHANGED <<planRows, plansListed, edits, planSaves, plansFetch, typed, outdated>>
PlanLost(q) ==
    /\ q.at # "refused"
    /\ planPuts' = planPuts \ {q}
    /\ savingPlan' = IF q.open THEN "none" ELSE savingPlan
    /\ UNCHANGED <<planRows, plansListed, edits, planSaves, plansFetch, typed, outdated>>

(* Off to another page: what was typed is gone, and the admin knows.       *)
LeavePrices ==
    /\ DOMAIN edits # {} /\ MoreToSave
    /\ edits' = [p \in {} |-> planRows[p]] /\ savingPlan' = "none"
    /\ planPuts' = {[q EXCEPT !.open = FALSE] : q \in planPuts}
    /\ typed' = planRows /\ outdated' = (planPuts # {})
    /\ UNCHANGED <<planRows, plansListed, planSaves, plansFetch>>

(* Another admin: what the admin here had meant for that plan is overtaken,*)
(* and a copy being edited is one of an older plan.  What is sent is the   *)
(* whole plan, as that admin's page filled it.                             *)
OtherAdminSaves(p, row) ==
    /\ row # planRows[p] /\ MoreToSave
    /\ planRows' = [planRows EXCEPT ![p] = row]
    /\ typed' = [typed EXCEPT ![p] = row]
    /\ outdated' = (p \in DOMAIN edits \/ UnderWay(p)) /\ planSaves' = planSaves + 1
    /\ UNCHANGED <<plansListed, edits, savingPlan, planPuts, plansFetch>>

(* The list is asked for again when it is old or the window is focused.    *)
AskPlans ==
    /\ plansFetch.at = "idle" /\ plansListed # planRows
    /\ plansFetch' = [at |-> "sent"]
    /\ UNCHANGED <<planRows, plansListed, edits, savingPlan, planPuts, planSaves, typed, outdated>>
ReadPlans ==
    /\ plansFetch.at = "sent"
    /\ plansFetch' = [at |-> "read", rows |-> planRows]
    /\ UNCHANGED <<planRows, plansListed, edits, savingPlan, planPuts, planSaves, typed, outdated>>
PlansShown ==
    /\ plansFetch.at = "read"
    /\ plansListed' = plansFetch.rows
    /\ plansFetch' = [at |-> "idle"]
    /\ UNCHANGED <<planRows, edits, savingPlan, planPuts, planSaves, typed, outdated>>
PlansFail ==
    /\ plansFetch.at # "idle"
    /\ plansFetch' = [at |-> "idle"]
    /\ UNCHANGED <<planRows, plansListed, edits, savingPlan, planPuts, planSaves, typed, outdated>>

PlansNext ==
    \/ \E p \in Plans :
          \/ \E f \in PlanFields, v \in PlanValues : TypePlan(p, f, v)
          \/ SavePlan(p)
          \/ \E row \in PlanRow : OtherAdminSaves(p, row)
    \/ \E q \in planPuts :
          HandlePlan(q) \/ RefusePlan(q) \/ PlanSaved(q) \/ PlanRefused(q) \/ PlanLost(q)
    \/ LeavePrices \/ AskPlans \/ ReadPlans \/ PlansShown \/ PlansFail

PlansSpec == PlansInit /\ [][PlansNext]_planVars
-----------------------------------------------------------------------------
PlansTypeOK ==
    /\ planRows \in [Plans -> StoredPlan] /\ plansListed \in [Plans -> StoredPlan]
    /\ DOMAIN edits \subseteq Plans /\ edits \in [DOMAIN edits -> PlanRow]
    /\ savingPlan \in Plans \cup {"none"} /\ planPuts \subseteq PlanPut
    /\ planSaves \in 0 .. MaxPlanSaves /\ plansFetch.at \in {"idle", "sent", "read"}
    /\ typed \in [Plans -> StoredPlan] /\ outdated \in BOOLEAN

(* A plan with nothing left to save has what the admin last typed, field   *)
(* by field, and where nothing was typed what it had, whatever became of   *)
(* the saves of it and of the other plans and in whatever order their      *)
(* answers came: a lost save leaves its copy on the page.  Only keys that  *)
(* its JSON lacked may have been added, all of them at once and with the   *)
(* page's defaults, by a save that was about another field.  Not claimed   *)
(* where the admin typed on while the plan's save was under way, typed     *)
(* onto an out of date page, or met another admin.                         *)
PlansAreAsTyped ==
    \A p \in Plans \ DOMAIN edits :
        ~outdated => planRows[p] \in {typed[p], Filled(typed[p])}
=============================================================================

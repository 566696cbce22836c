---------------------------- MODULE TenantDetail ----------------------------
(***************************************************************************)
(* TenantDetailPage of the platform's own panel (super-admin): a tenant is *)
(* suspended and let in again, given another plan, given limits of its own *)
(* and annotated.  The page is a super admin's; other admins suspend and   *)
(* let in, too.  A suspension is two columns, IsActive and PlanStatus:     *)
(* login asks for both, the page shows the second only.                    *)
(***************************************************************************)
EXTENDS Integers, FiniteSets

CONSTANTS
    LimitSets,          \* sets of limits an admin may type
    MaxOrders           \* bound on what admins do

NoLimits == "plan"      \* no limits but the plan's

ASSUME TenantAssumption == NoLimits \notin LimitSets /\ MaxOrders \in Nat

VARIABLES
    tenantRow,          \* the server's
    tenantShown,        \* the cached detail
    tenantFetch,        \* the detail query
    limitsForm,         \* customLimits
    limitsTouched,      \* typed into since the form was filled or saved
    suspendDialog,
    orders,             \* what is not answered yet
    ordersSent,
    elsewhere           \* history: another admin suspended the tenant, the
                        \* page was left too early, or an answer was lost

tenantPage == <<limitsForm, limitsTouched, suspendDialog>>
ordering == <<orders, ordersSent>>
tenantVars == <<tenantRow, tenantShown, tenantFetch, tenantPage, ordering, elsewhere>>

PlanStatus == {"Trial", "Active", "Suspended"}
Tenant == [status : PlanStatus, isActive : BOOLEAN, plan : {"starter", "pro"},
           limits : LimitSets \cup {NoLimits}, notes : 0 .. MaxOrders]

Unread == [status |-> "none"]

Order == [id : 1 .. MaxOrders, kind : {"suspend", "plan", "limits", "reset", "note"},
          suspend : BOOLEAN, limits : LimitSets \cup {NoLimits}, ours : BOOLEAN,
          saw : Tenant \cup {Unread}, at : {"pricing", "sent", "read", "saved", "refused"}]
(* A bound: nothing new is begun after the last order, nor once nothing is *)
(* claimed any more.                                                       *)
Begins == ordersSent < MaxOrders /\ ~elsewhere
Orders(kind, suspend, limits, ours, at) ==
    /\ Begins
    /\ ordersSent' = ordersSent + 1
    /\ orders' = orders \cup
         {[id |-> ordersSent + 1, kind |-> kind, suspend |-> suspend, limits |-> limits,
           ours |-> ours, saw |-> Unread, at |-> at]}
Stands(o, at) == orders' = (orders \ {o}) \cup {[o EXCEPT !.at = at]} /\ UNCHANGED ordersSent
TenantSettled == orders = {} /\ tenantFetch.at = "idle"
Loading(kinds) == \E o \in orders : o.ours /\ o.kind \in kinds

TenantInit ==
    /\ \E status \in PlanStatus, limits \in LimitSets \cup {NoLimits} :
          tenantRow = [status |-> status, isActive |-> status # "Suspended", plan |-> "starter",
                       limits |-> limits, notes |-> 0]
    /\ tenantShown = tenantRow /\ tenantFetch = [at |-> "idle"]
    /\ limitsForm = tenantRow.limits /\ limitsTouched = FALSE /\ suspendDialog = FALSE
    /\ orders = {} /\ ordersSent = 0 /\ elsewhere = FALSE

-----------------------------------------------------------------------------
(* The page.  statusBadge knows no "Trial", which is what a registered     *)
(* tenant has: for those the page throws instead of being drawn.           *)
Drawn == tenantShown.status \in {"Active", "Suspended"}
isSuspended == tenantShown.status = "Suspended"

OpenSuspend ==
    /\ Drawn /\ Begins /\ suspendDialog' = ~suspendDialog
    /\ UNCHANGED <<tenantRow, tenantShown, tenantFetch, limitsForm, limitsTouched, ordering,
                   elsewhere>>

(* handleSuspend says which of the two it wants.                           *)
ConfirmSuspend ==
    /\ Drawn /\ suspendDialog /\ ~Loading({"suspend"})
    /\ Orders("suspend", ~isSuspended, NoLimits, TRUE, "sent")
    /\ UNCHANGED <<tenantRow, tenantShown, tenantFetch, tenantPage, elsewhere>>

(* handlePlanUpdate asks for the plans' ids first.                         *)
ChangePlan ==
    /\ Drawn /\ ~Loading({"plan"})
    /\ Orders("plan", FALSE, NoLimits, TRUE, "pricing")
    /\ UNCHANGED <<tenantRow, tenantShown, tenantFetch, tenantPage, elsewhere>>
PlansArrive(o) ==
    /\ o.at = "pricing" /\ Stands(o, "sent")
    /\ UNCHANGED <<tenantRow, tenantShown, tenantFetch, tenantPage, elsewhere>>

AddNote ==
    /\ Drawn /\ ~Loading({"note"})
    /\ Orders("note", FALSE, NoLimits, TRUE, "sent")
    /\ UNCHANGED <<tenantRow, tenantShown, tenantFetch, tenantPage, elsewhere>>

TypeLimits(limits) ==
    /\ Drawn /\ Begins
    /\ limitsForm' = limits /\ limitsTouched' = TRUE
    /\ UNCHANGED <<tenantRow, tenantShown, tenantFetch, suspendDialog, ordering, elsewhere>>
SaveLimits ==
    /\ Drawn /\ ~Loading({"limits", "reset"})
    /\ Orders("limits", FALSE, limitsForm, TRUE, "sent")
    /\ UNCHANGED <<tenantRow, tenantShown, tenantFetch, tenantPage, elsewhere>>
ResetLimits ==
    /\ Drawn /\ ~Loading({"limits", "reset"})
    /\ Orders("reset", FALSE, NoLimits, TRUE, "sent")
    /\ UNCHANGED <<tenantRow, tenantShown, tenantFetch, tenantPage, elsewhere>>

(* The effect on "tenant" fills the fields, but never empties them.        *)
FilledLimits(form, row) == IF row.limits = NoLimits THEN form ELSE row.limits

(* The page is left and opened again, with what is cached.                 *)
LeaveTenant ==
    /\ Begins \/ (~TenantSettled /\ ~elsewhere)
    /\ orders' = {[o EXCEPT !.ours = FALSE] : o \in orders}
    /\ limitsForm' = FilledLimits(NoLimits, tenantShown)
    /\ limitsTouched' = FALSE /\ suspendDialog' = FALSE
    /\ elsewhere' = (elsewhere \/ ~TenantSettled)
    /\ UNCHANGED <<tenantRow, tenantShown, tenantFetch, ordersSent>>

(* Success closes the dialog, empties the fields after a reset, and asks   *)
(* for the detail again.                                                   *)
OrderSaved(o) ==
    /\ o.at = "saved"
    /\ orders' = orders \ {o}
    /\ tenantFetch' = [at |-> "sent"]
    /\ suspendDialog' = (suspendDialog /\ ~(o.ours /\ o.kind = "suspend"))
    /\ limitsForm' = IF o.ours /\ o.kind = "reset" THEN NoLimits ELSE limitsForm
    /\ limitsTouched' = IF o.ours /\ o.kind \in {"limits", "reset"} THEN limitsForm' # o.limits
                        ELSE limitsTouched
    /\ UNCHANGED <<tenantRow, tenantShown, ordersSent, elsewhere>>
OrderRefused(o) ==
    /\ o.at = "refused" /\ orders' = orders \ {o}
    /\ UNCHANGED <<tenantRow, tenantShown, tenantFetch, tenantPage, ordersSent, elsewhere>>
OrderLost(o) ==
    /\ orders' = orders \ {o} /\ elsewhere' = TRUE
    /\ UNCHANGED <<tenantRow, tenantShown, tenantFetch, tenantPage, ordersSent>>

AskTenant ==
    /\ tenantFetch.at = "idle" /\ Begins
    /\ tenantFetch' = [at |-> "sent"]
    /\ UNCHANGED <<tenantRow, tenantShown, tenantPage, ordering, elsewhere>>
ReadTenant ==
    /\ tenantFetch.at = "sent"
    /\ tenantFetch' = [at |-> "read", row |-> tenantRow]
    /\ UNCHANGED <<tenantRow, tenantShown, tenantPage, ordering, elsewhere>>
TenantArrives ==
    /\ tenantFetch.at = "read"
    /\ tenantShown' = tenantFetch.row
    /\ IF tenantShown' = tenantShown THEN UNCHANGED <<limitsForm, limitsTouched>>
       ELSE /\ limitsForm' = FilledLimits(limitsForm, tenantShown')
            /\ limitsTouched' = (limitsTouched /\ tenantShown'.limits = NoLimits)
    /\ tenantFetch' = [at |-> "idle"]
    /\ UNCHANGED <<tenantRow, suspendDialog, ordering, elsewhere>>
TenantFails ==
    /\ tenantFetch.at # "idle" /\ tenantFetch' = [at |-> "idle"] /\ elsewhere' = TRUE
    /\ UNCHANGED <<tenantRow, tenantShown, tenantPage, ordering>>

-----------------------------------------------------------------------------
(* The server.  A suspension reads the row and writes the columns that it  *)
(* changes; it touches the status of an active plan only, and lifting it   *)
(* that of a suspended one.                                                *)
OtherAdmin(suspend) ==
    /\ Orders("suspend", suspend, NoLimits, FALSE, "sent")
    /\ elsewhere' = TRUE
    /\ UNCHANGED <<tenantRow, tenantShown, tenantFetch, tenantPage>>

ReadForSuspension(o) ==
    /\ o.at = "sent" /\ o.kind = "suspend"
    /\ orders' = (orders \ {o}) \cup {[o EXCEPT !.at = "read", !.saw = tenantRow]}
    /\ UNCHANGED <<tenantRow, tenantShown, tenantFetch, tenantPage, ordersSent, elsewhere>>

StatusStays(o) == IF o.suspend /\ o.saw.status = "Active" THEN "Suspended" ELSE tenantRow.status
StatusAfter(o) ==
    IF o.suspend /\ o.saw.status = "Active" THEN "Suspended"
    ELSE IF ~o.suspend /\ o.saw.status = "Suspended" THEN "Active"
    ELSE tenantRow.status

SaveSuspension(o) ==
    /\ o.at = "read"
    /\ tenantRow' = [tenantRow EXCEPT
                        !.isActive = IF o.saw.isActive = o.suspend THEN ~o.suspend ELSE @,
                        !.status = StatusAfter(o)]
    /\ orders' = (orders \ {o}) \cup {[o EXCEPT !.at = "saved", !.saw = Unread]}
    /\ UNCHANGED <<tenantShown, tenantFetch, tenantPage, ordersSent, elsewhere>>

SaveOrder(o) ==
    /\ o.at = "sent" /\ o.kind # "suspend"
    /\ tenantRow' = CASE o.kind = "plan" -> [tenantRow EXCEPT !.plan = "pro"]
                      [] o.kind = "note" -> [tenantRow EXCEPT !.notes = @ + 1]
                      [] OTHER -> [tenantRow EXCEPT !.limits = o.limits]
    /\ Stands(o, "saved")
    /\ UNCHANGED <<tenantShown, tenantFetch, tenantPage, elsewhere>>

(* A plan that does not exist, a session that has run out.                 *)
RefuseOrder(o) ==
    /\ o.at \in {"pricing", "sent"} /\ Stands(o, "refused")
    /\ UNCHANGED <<tenantRow, tenantShown, tenantFetch, tenantPage, elsewhere>>

TenantNext ==
    \/ OpenSuspend \/ ConfirmSuspend \/ ChangePlan \/ AddNote \/ SaveLimits \/ ResetLimits
    \/ LeaveTenant \/ AskTenant \/ ReadTenant \/ TenantArrives \/ TenantFails
    \/ \E limits \in LimitSets \cup {NoLimits} : TypeLimits(limits)
    \/ \E suspend \in BOOLEAN : OtherAdmin(suspend)
    \/ \E o \in orders : \/ PlansArrive(o) \/ OrderSaved(o) \/ OrderRefused(o) \/ OrderLost(o)
                         \/ ReadForSuspension(o) \/ SaveSuspension(o) \/ SaveOrder(o)
                         \/ RefuseOrder(o)

TenantSpec == TenantInit /\ [][TenantNext]_tenantVars
-----------------------------------------------------------------------------
TenantTypeOK ==
    /\ {tenantRow, tenantShown} \subseteq Tenant /\ tenantFetch.at \in {"idle", "sent", "read"}
    /\ limitsForm \in LimitSets \cup {NoLimits}
    /\ {limitsTouched, suspendDialog, elsewhere} \subseteq BOOLEAN
    /\ orders \subseteq Order /\ ordersSent \in 0 .. MaxOrders

(* Once nothing is under way, a page that is drawn tells what holds: it    *)
(* offers to let the tenant in exactly when the tenant is locked out, and  *)
(* limits nobody is typing are those in force.  Not after another admin's  *)
(* suspension, a lost answer, or a page left before it had settled: limits *)
(* that were reset come back to it from the cache, and stay.               *)
PageTellsWhatHolds ==
    Drawn /\ TenantSettled /\ ~elsewhere =>
        /\ isSuspended <=> ~tenantRow.isActive
        /\ ~limitsTouched => limitsForm = tenantRow.limits
=============================================================================

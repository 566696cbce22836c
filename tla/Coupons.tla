------------------------------- MODULE Coupons --------------------------------
(***************************************************************************)
(* CouponsPage of the super-admin panel: a list that the server filters    *)
(* and pages, creation in a dialog, deactivation by a button on the row.   *)
(* Counting and reading a page are one step.  A view that was seen before  *)
(* is shown from the cache while it is read again; here it is only read    *)
(* again.                                                                  *)
(***************************************************************************)
EXTENDS Integers, Sequences, FiniteSets

CONSTANTS
    Codes,
    CouponPageSize,
    MaxCoupons          \* bound on coupons

ASSUME CouponAssumption ==
    /\ IsFiniteSet(Codes) /\ "" \notin Codes
    /\ CouponPageSize \in Nat \ {0} /\ MaxCoupons \in Nat \ {0, 1}

VARIABLES
    coupons,        \* the table, in the order of creation
    view,           \* search, activeFilter and page
    couponsShown,   \* the answer for this view, or NoAnswer
    couponFetch,    \* the query of this view
    couponDialog,   \* the dialog: open, and what was typed into it
    creation,       \* createMutation
    deactivation    \* deactivateMutation: the coupon, 0 when none is under way

couponVars == <<coupons, view, couponsShown, couponFetch, couponDialog, creation, deactivation>>

Coupon == [code : Codes, active : BOOLEAN]
NoAnswer == [rows |-> {}, live |-> {}, total |-> -1]
Unasked == [at |-> "idle"]
AskNow == [at |-> "sent"]
NoCreation == [at |-> "idle", code |-> ""]
NoDialog == [open |-> FALSE, code |-> ""]

CouponsInit ==
    /\ \E a, b \in Codes :
          coupons = IF a = b THEN <<[code |-> a, active |-> TRUE]>>
                    ELSE <<[code |-> a, active |-> TRUE], [code |-> b, active |-> TRUE]>>
    /\ view = [search |-> "", filter |-> "all", page |-> 1]
    /\ couponsShown = NoAnswer /\ couponFetch = AskNow
    /\ couponDialog = NoDialog /\ creation = NoCreation /\ deactivation = 0

(* GetCouponsQueryHandler: newest first, a page of those that match.       *)
Matching(v) == {c \in DOMAIN coupons : /\ v.search \in {"", coupons[c].code}
                                       /\ v.filter = "true" => coupons[c].active
                                       /\ v.filter = "false" => ~coupons[c].active}
Newer(c, all) == Cardinality({d \in all : d > c})
PageOf(v) ==
    {c \in Matching(v) : Newer(c, Matching(v)) \div CouponPageSize = v.page - 1}
TotalPages(total) == (total + CouponPageSize - 1) \div CouponPageSize

-----------------------------------------------------------------------------
(* Another search, filter or page is another query.                        *)
Look(v) ==
    /\ view' = v /\ v # view
    /\ couponsShown' = NoAnswer /\ couponFetch' = AskNow
    /\ UNCHANGED <<coupons, couponDialog, creation, deactivation>>

SearchKeepingPage(code) == Look([view EXCEPT !.search = code])

(* Both start on the first page again.                                     *)
SearchFor(code) == Look([view EXCEPT !.search = code, !.page = 1])
FilterBy(filter) == Look([view EXCEPT !.filter = filter, !.page = 1])

(* The pager is there when the list has several pages.                     *)
TurnPage(n) ==
    /\ couponsShown # NoAnswer /\ TotalPages(couponsShown.total) > 1
    /\ n \in {view.page - 1, view.page + 1} /\ n >= 1
    /\ n > view.page => view.page < TotalPages(couponsShown.total)
    /\ Look([view EXCEPT !.page = n])

ReadCoupons ==
    /\ couponFetch.at = "sent"
    /\ couponFetch' = [at |-> "read",
                       answer |-> [rows |-> PageOf(view), total |-> Cardinality(Matching(view)),
                                   live |-> {c \in PageOf(view) : coupons[c].active}]]
    /\ UNCHANGED <<coupons, view, couponsShown, couponDialog, creation, deactivation>>
CouponsArrive ==
    /\ couponFetch.at = "read"
    /\ couponsShown' = couponFetch.answer
    /\ couponFetch' = Unasked
    /\ UNCHANGED <<coupons, view, couponDialog, creation, deactivation>>
CouponsFail ==
    /\ couponFetch # Unasked
    /\ couponFetch' = Unasked
    /\ UNCHANGED <<coupons, view, couponsShown, couponDialog, creation, deactivation>>

-----------------------------------------------------------------------------
(* The dialog is blank when it is opened, and stays open while the coupon  *)
(* is being created, unless it is closed.                                  *)
OpenCouponDialog ==
    /\ ~couponDialog.open
    /\ couponDialog' = [open |-> TRUE, code |-> ""]
    /\ UNCHANGED <<coupons, view, couponsShown, couponFetch, creation, deactivation>>
TypeCode(code) ==
    /\ couponDialog.open /\ couponDialog.code # code
    /\ couponDialog' = [couponDialog EXCEPT !.code = code]
    /\ UNCHANGED <<coupons, view, couponsShown, couponFetch, creation, deactivation>>
CloseCouponDialog ==
    /\ couponDialog.open
    /\ couponDialog' = [couponDialog EXCEPT !.open = FALSE]
    /\ UNCHANGED <<coupons, view, couponsShown, couponFetch, creation, deactivation>>

SubmitCoupon ==
    /\ couponDialog.open /\ couponDialog.code # "" /\ creation.at = "idle"
    /\ creation' = [at |-> "sent", code |-> couponDialog.code]
    /\ UNCHANGED <<coupons, view, couponsShown, couponFetch, couponDialog, deactivation>>

(* The handler looks for the code and inserts later; no index backs it.    *)
Exists(code) == \E c \in DOMAIN coupons : coupons[c].code = code
CheckCode ==
    /\ creation.at = "sent"
    /\ creation' = [creation EXCEPT !.at = IF Exists(creation.code) THEN "refused" ELSE "checked"]
    /\ UNCHANGED <<coupons, view, couponsShown, couponFetch, couponDialog, deactivation>>
InsertCoupon ==
    /\ creation.at = "checked" /\ Len(coupons) < MaxCoupons
    /\ coupons' = Append(coupons, [code |-> creation.code, active |-> TRUE])
    /\ creation' = [creation EXCEPT !.at = "saved"]
    /\ UNCHANGED <<view, couponsShown, couponFetch, couponDialog, deactivation>>

(* onSuccess closes the dialog, also one that was opened again since.      *)
CreationSaved ==
    /\ creation.at = "saved"
    /\ creation' = NoCreation
    /\ couponDialog' = NoDialog /\ couponFetch' = AskNow
    /\ UNCHANGED <<coupons, view, couponsShown, deactivation>>
CreationFailed ==
    /\ creation.at # "idle"
    /\ creation' = NoCreation
    /\ UNCHANGED <<coupons, view, couponsShown, couponFetch, couponDialog, deactivation>>

(* One deactivation at a time, of a row that the list shows as active.     *)
Deactivate(c) ==
    /\ deactivation = 0 /\ c \in couponsShown.live
    /\ deactivation' = c
    /\ UNCHANGED <<coupons, view, couponsShown, couponFetch, couponDialog, creation>>
DeactivateCoupon ==
    /\ deactivation # 0
    /\ coupons' = [coupons EXCEPT ![deactivation].active = FALSE]
    /\ UNCHANGED <<view, couponsShown, couponFetch, couponDialog, creation, deactivation>>
DeactivationAnswered ==
    /\ deactivation # 0
    /\ deactivation' = 0
    /\ couponFetch' = IF coupons[deactivation].active THEN couponFetch ELSE AskNow
    /\ UNCHANGED <<coupons, view, couponsShown, couponDialog, creation>>

(* Another admin.                                                          *)
OtherCreates(code) ==
    /\ Len(coupons) < MaxCoupons /\ ~Exists(code)
    /\ coupons' = Append(coupons, [code |-> code, active |-> TRUE])
    /\ UNCHANGED <<view, couponsShown, couponFetch, couponDialog, creation, deactivation>>
OtherDeactivates(c) ==
    /\ coupons[c].active
    /\ coupons' = [coupons EXCEPT ![c].active = FALSE]
    /\ UNCHANGED <<view, couponsShown, couponFetch, couponDialog, creation, deactivation>>

CouponsNext ==
    \/ \E code \in Codes : SearchFor(code) \/ TypeCode(code) \/ OtherCreates(code)
    \/ SearchFor("") \/ \E f \in {"all", "true", "false"} : FilterBy(f)
    \/ \E n \in 1 .. MaxCoupons : TurnPage(n)
    \/ ReadCoupons \/ CouponsArrive \/ CouponsFail
    \/ OpenCouponDialog \/ CloseCouponDialog \/ SubmitCoupon
    \/ CheckCode \/ InsertCoupon \/ CreationSaved \/ CreationFailed
    \/ \E c \in DOMAIN coupons : Deactivate(c) \/ OtherDeactivates(c)
    \/ DeactivateCoupon \/ DeactivationAnswered

CouponsSpec == CouponsInit /\ [][CouponsNext]_couponVars
-----------------------------------------------------------------------------
CouponsTypeOK ==
    /\ coupons \in Seq(Coupon) /\ Len(coupons) <= MaxCoupons
    /\ view \in [search : Codes \cup {""}, filter : {"all", "true", "false"},
                 page : 1 .. MaxCoupons]
    /\ couponsShown.rows \subseteq DOMAIN coupons /\ couponsShown.total \in -1 .. MaxCoupons
    /\ couponFetch.at \in {"idle", "sent", "read"}
    /\ couponDialog \in [open : BOOLEAN, code : Codes \cup {""}]
    /\ creation.at \in {"idle", "sent", "checked", "saved", "refused"}
    /\ deactivation \in 0 .. MaxCoupons

(* An answer that the page shows as empty means that no coupon matches,    *)
(* except on a page of active coupons that deactivations have emptied: it  *)
(* is not left for the last one that is there, and the pager may be gone.  *)
EmptyMeansDeactivated ==
    /\ couponsShown # NoAnswer /\ couponsShown.rows = {} /\ couponsShown.total > 0
    => view.filter = "true" /\ \E c \in DOMAIN coupons : ~coupons[c].active
=============================================================================

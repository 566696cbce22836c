------------------------------ MODULE MCGuest ------------------------------
(***************************************************************************)
(* The guest's side: an instance of GuestWizard with two tables for two    *)
(* and their combination, or one of GuestForm; part says which is looked   *)
(* at, the other rests in an initial state.                                *)
(***************************************************************************)
EXTENDS GuestWizard, GuestForm, TLC

CONSTANTS a, b, ab

MCMembers == (ab :> {a, b})
MCCapacity == (a :> 1 @@ b :> 2 @@ ab :> 3)
OneOther == {<<1, 19, b>>}
MCRulings == {{<<"guest", "g">>}, {<<"place", "t1">>, <<"counts", "many">>}}

VARIABLE part

MCInit ==
    /\ part \in {"wizard", "form"}
    /\ Init
    /\ FormInit /\ place # "c1"
    /\ part = "form" \/ (place = AnyTable /\ ruling = {<<"guest", "g">>})

MCNext ==
    \/ part = "wizard" /\ Next /\ UNCHANGED <<part, formVars>>
    \/ part = "form" /\ FormNext /\ UNCHANGED <<part, vars>>

MCSpec == MCInit /\ [][MCNext]_<<part, vars, formVars>> /\ Fairness

(* Either part's state is well typed.                                      *)
GuestTypeOK == TypeOK /\ FormTypeOK
=============================================================================

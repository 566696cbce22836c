------------------------------ MODULE MCAdmin ------------------------------
(***************************************************************************)
(* Instances of the fourteen modules of the two panels, one at a time:     *)
(* part says which is looked at, the others rest in an initial state.      *)
(* Of several tables or coupon codes, which are alike, the first is there  *)
(* first, a rule that is stored at the start is an early-booking rule: the *)
(* others are made and opened again, and prices are low at the start.      *)
(***************************************************************************)
EXTENDS Sessions, Accounts, RuleBuilder, RuleList, ReservationDesk, ReservationDrawer,
        TablesDesk, Team, Customers, WhatsAppToggles, TenantDetail, PlanPrices, Coupons,
        PlatformTeam

CONSTANT t1
VARIABLE part

MCGallery == {t \in RuleTemplates : t[1] \in {"early-booking", "deposit", "group-composition"}}

Init ==
    /\ part \in {"sessions", "accounts", "builder", "list", "desk", "drawer", "tables",
                 "team", "customers", "whatsapp", "tenant", "prices", "coupons",
                 "platform"}
    /\ SessionInit
    /\ AccountsInit /\ (part = "accounts" \/ account.is = "none")
    /\ BuilderInit /\ \A r \in RuleIds :
           storedRules[r] = NoRule \/ (part = "builder" /\ storedRules[r].type = "EarlyBooking")
    /\ ListInit /\ (part = "list" \/ ruleRows = [r \in Rules |-> NoRow])
    /\ DeskInit
    /\ DrawerInit /\ (part = "drawer" \/ realStatus = [b \in Bookings |-> "Confirmed"])
    /\ TablesInit
    /\ IF part = "tables" THEN \A t \in Tables : tableRows[t] # NoTable => tableRows[t1] # NoTable
       ELSE tableRows = [t \in Tables |-> NoTable]
    /\ TeamInit /\ (part = "team" \/ \A p \in Staffers \ {Me} : users[p].is = "none")
    /\ CustomersInit
    /\ WhatsAppInit /\ (part = "whatsapp" \/ venueSwitches = [s \in Switches |-> FALSE])
    /\ TenantInit /\ (part = "tenant" \/ (tenantRow.status = "Active"
                                        /\ tenantRow.limits = NoLimits))
    /\ PlansInit /\ \A p \in Plans, f \in PlanFields :
           planRows[p][f] = "low" \/ (part = "prices" /\ f \in JsonFields)
    /\ CouponsInit /\ coupons[1].code = "A" /\ (part = "coupons" \/ Len(coupons) = 1)
    /\ PlatformInit /\ (part = "platform"
                         \/ \A a \in Admins \ {MyAccount} : platformUsers[a] = Nobody)

Next ==
    \/ /\ part = "sessions" /\ SessionNext
       /\ UNCHANGED <<part, accountVars, builderVars, listVars, deskVars, drawerVars,
                      tablesVars, teamVars, customerVars, whatsAppVars, tenantVars,
                      planVars, couponVars, teamOfVars>>
    \/ /\ part = "accounts" /\ AccountsNext
       /\ UNCHANGED <<part, sessionVars, builderVars, listVars, deskVars, drawerVars,
                      tablesVars, teamVars, customerVars, whatsAppVars, tenantVars,
                      planVars, couponVars, teamOfVars>>
    \/ /\ part = "builder" /\ BuilderNext
       /\ UNCHANGED <<part, sessionVars, accountVars, listVars, deskVars, drawerVars,
                      tablesVars, teamVars, customerVars, whatsAppVars, tenantVars,
                      planVars, couponVars, teamOfVars>>
    \/ /\ part = "list" /\ ListNext
       /\ UNCHANGED <<part, sessionVars, accountVars, builderVars, deskVars, drawerVars,
                      tablesVars, teamVars, customerVars, whatsAppVars, tenantVars,
                      planVars, couponVars, teamOfVars>>
    \/ /\ part = "desk" /\ DeskNext
       /\ UNCHANGED <<part, sessionVars, accountVars, builderVars, listVars, drawerVars,
                      tablesVars, teamVars, customerVars, whatsAppVars, tenantVars,
                      planVars, couponVars, teamOfVars>>
    \/ /\ part = "drawer" /\ DrawerNext
       /\ UNCHANGED <<part, sessionVars, accountVars, builderVars, listVars, deskVars,
                      tablesVars, teamVars, customerVars, whatsAppVars, tenantVars,
                      planVars, couponVars, teamOfVars>>
    \/ /\ part = "tables" /\ TablesNext
       /\ UNCHANGED <<part, sessionVars, accountVars, builderVars, listVars, deskVars,
                      drawerVars, teamVars, customerVars, whatsAppVars, tenantVars,
                      planVars, couponVars, teamOfVars>>
    \/ /\ part = "team" /\ TeamNext
       /\ UNCHANGED <<part, sessionVars, accountVars, builderVars, listVars, deskVars,
                      drawerVars, tablesVars, customerVars, whatsAppVars, tenantVars,
                      planVars, couponVars, teamOfVars>>
    \/ /\ part = "customers" /\ CustomersNext
       /\ UNCHANGED <<part, sessionVars, accountVars, builderVars, listVars, deskVars,
                      drawerVars, tablesVars, teamVars, whatsAppVars, tenantVars,
                      planVars, couponVars, teamOfVars>>
    \/ /\ part = "whatsapp" /\ WhatsAppNext
       /\ UNCHANGED <<part, sessionVars, accountVars, builderVars, listVars, deskVars,
                      drawerVars, tablesVars, teamVars, customerVars, tenantVars,
                      planVars, couponVars, teamOfVars>>
    \/ /\ part = "tenant" /\ TenantNext
       /\ UNCHANGED <<part, sessionVars, accountVars, builderVars, listVars, deskVars,
                      drawerVars, tablesVars, teamVars, customerVars, whatsAppVars,
                      planVars, couponVars, teamOfVars>>
    \/ /\ part = "prices" /\ PlansNext
       /\ UNCHANGED <<part, sessionVars, accountVars, builderVars, listVars, deskVars,
                      drawerVars, tablesVars, teamVars, customerVars, whatsAppVars,
                      tenantVars, couponVars, teamOfVars>>
    \/ /\ part = "coupons" /\ CouponsNext
       /\ UNCHANGED <<part, sessionVars, accountVars, builderVars, listVars, deskVars,
                      drawerVars, tablesVars, teamVars, customerVars, whatsAppVars,
                      tenantVars, planVars, teamOfVars>>
    \/ /\ part = "platform" /\ PlatformNext
       /\ UNCHANGED <<part, sessionVars, accountVars, builderVars, listVars, deskVars,
                      drawerVars, tablesVars, teamVars, customerVars, whatsAppVars,
                      tenantVars, planVars, couponVars>>

Spec == Init /\ [][Next]_<<part, sessionVars, accountVars, builderVars, listVars, deskVars,
                           drawerVars, tablesVars, teamVars, customerVars, whatsAppVars,
                           tenantVars, planVars, couponVars, teamOfVars>>

(* Every part's state is well typed.                                       *)
AdminTypeOK ==
    CASE part = "sessions" -> SessionTypeOK
      [] part = "accounts" -> AccountsTypeOK
      [] part = "builder" -> BuilderTypeOK
      [] part = "list" -> ListTypeOK
      [] part = "desk" -> DeskTypeOK
      [] part = "drawer" -> DrawerTypeOK
      [] part = "tables" -> TablesTypeOK
      [] part = "team" -> TeamTypeOK
      [] part = "customers" -> CustomersTypeOK
      [] part = "whatsapp" -> WhatsAppTypeOK
      [] part = "tenant" -> TenantTypeOK
      [] part = "prices" -> PlansTypeOK
      [] part = "coupons" -> CouponsTypeOK
      [] part = "platform" -> PlatformTypeOK
=============================================================================

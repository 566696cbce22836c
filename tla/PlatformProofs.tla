--------------------------- MODULE PlatformProofs ---------------------------
(***************************************************************************)
(* The super-admin panel, for any admins, plans, tenants, coupons and any  *)
(* number of commands.                                                     *)
(* The platform's team: an active SuperAdmin remains.  Besides the types,  *)
(* the argument needs to remember of a toggle that was read that it is not *)
(* aimed at the one who ordered it: then whoever has a command carried out *)
(* as an active SuperAdmin is one afterwards.                              *)
(* The prices: the copy that is edited, the saves and, where nothing is    *)
(* edited or a save was carried out, the row are all what was typed.       *)
(* A tenant: the page is told of the row it has not got, and of the limits *)
(* it has typed, by an order or a list that is still on its way.           *)
(* The coupons: while no deactivation takes one from the list it only      *)
(* grows, and the page and every answer taken for it stay within it.       *)
(***************************************************************************)
EXTENDS PlatformTeam, PlanPrices, TenantDetail, Coupons, AccessProofs

TogglesAreOfOthers ==
    \A q \in teamOrders : q.kind = "toggle" /\ q.at = "read" => q.target # q.who

PlatformRowsAreTyped ==
    /\ platformUsers \in [Admins -> PlatformUser]
    /\ teamOrders \subseteq TeamOrder
    /\ ordered \in 0 .. MaxTeamOrders

TeamPageIsTyped ==
    /\ teamShown \in [Admins -> PlatformUser]
    /\ roleTokens \in [Admins -> PlatformRoles \cup {"none"}]
    /\ teamFetch \in [at : {"idle", "sent"}] \cup
                     [at : {"read"}, rows : [Admins -> PlatformUser]]
    /\ stray \in BOOLEAN

PlatformInv == PlatformRowsAreTyped /\ TeamPageIsTyped /\ TogglesAreOfOthers /\ AnAdminRemains

LEMMA TeamRowTypes ==
    /\ Nobody \in PlatformUser /\ SeededAdmin \in PlatformUser
    /\ \A role \in PlatformRoles : [is |-> "there", role |-> role, active |-> TRUE] \in PlatformUser
    /\ \A row \in PlatformUser :
          /\ \A role \in PlatformRoles : [row EXCEPT !.role = role] \in PlatformUser
          /\ \A b \in BOOLEAN : [row EXCEPT !.active = b] \in PlatformUser
BY PlatformAssumption DEF PlatformUser, Nobody, SeededAdmin

LEMMA PlatformInitInv == PlatformInit => PlatformInv
<1> SUFFICES ASSUME PlatformInit PROVE PlatformInv
  OBVIOUS
<1>1. PICK others \in SUBSET (Admins \ {MyAccount}) :
          platformUsers = [a \in Admins |-> IF a \in others \cup {MyAccount}
                                            THEN SeededAdmin ELSE Nobody]
  BY DEF PlatformInit
<1>2. PlatformRowsAreTyped /\ TeamPageIsTyped
  <2>1. platformUsers \in [Admins -> PlatformUser] /\ teamShown \in [Admins -> PlatformUser]
    BY <1>1, TeamRowTypes DEF PlatformInit
  <2>2. teamFetch \in [at : {"idle", "sent"}]
    BY DEF PlatformInit
  <2>3. roleTokens \in [Admins -> PlatformRoles \cup {"none"}]
    BY DEF PlatformInit
  <2>4. teamOrders = {} /\ ordered \in 0 .. MaxTeamOrders
    BY PlatformAssumption DEF PlatformInit
  <2>5. stray \in BOOLEAN
    BY DEF PlatformInit
  <2> QED
    BY <2>1, <2>2, <2>3, <2>4, <2>5 DEF PlatformRowsAreTyped, TeamPageIsTyped
<1>3. IsAdmin(MyAccount)
  BY <1>1, PlatformAssumption DEF IsAdmin, SeededAdmin, Nobody
<1> QED
  BY <1>2, <1>3, PlatformAssumption
  DEF PlatformInit, PlatformInv, TogglesAreOfOthers, AnAdminRemains

(* A new command is typed and has not been read.                           *)
LEMMA SendOrderStep ==
    ASSUME PlatformInv, NEW who \in Admins, NEW kind \in {"role", "toggle", "invite"},
           NEW target \in Admins, NEW role \in PlatformRoles, SendOrder(who, kind, target, role)
    PROVE  PlatformInv'
<1> DEFINE q == [id |-> ordered + 1, who |-> who, kind |-> kind, target |-> target,
                 role |-> role, read |-> Nobody, at |-> "sent"]
<1>1. ordered + 1 \in 1 .. MaxTeamOrders
  BY PlatformAssumption DEF PlatformInv, PlatformRowsAreTyped, SendOrder
<1>2. q \in TeamOrder /\ q.at = "sent"
  BY <1>1, TeamRowTypes DEF TeamOrder
<1>3. /\ ordered' = ordered + 1 /\ teamOrders' = teamOrders \cup {q}
      /\ UNCHANGED <<platformUsers, roleTokens, teamShown, teamFetch, stray>>
  BY DEF SendOrder
<1> HIDE DEF q
<1> QED
  BY <1>1, <1>2, <1>3
  DEF PlatformInv, PlatformRowsAreTyped, TeamPageIsTyped, TogglesAreOfOthers, AnAdminRemains,
      IsAdmin

(* A command that reads the row passes the test of its handler.            *)
LEMMA ReadOrderStep ==
    ASSUME PlatformInv, NEW q \in teamOrders, ReadMember(q)
    PROVE  PlatformInv'
<1> DEFINE r == [q EXCEPT !.at = "read", !.read = platformUsers[q.target]]
<1>1. q \in TeamOrder
  BY DEF PlatformInv, PlatformRowsAreTyped
<1>2. r \in TeamOrder /\ r.kind = q.kind /\ r.target = q.target /\ r.who = q.who
  BY <1>1 DEF PlatformInv, PlatformRowsAreTyped, TeamOrder
<1>3. r.kind = "toggle" => r.target # r.who
  BY <1>2 DEF ReadMember, MayToggle
<1>4. /\ teamOrders' = (teamOrders \ {q}) \cup {r}
      /\ UNCHANGED <<platformUsers, roleTokens, teamShown, teamFetch, ordered, stray>>
  BY DEF ReadMember
<1> HIDE DEF r
<1> QED
  BY <1>2, <1>3, <1>4
  DEF PlatformInv, PlatformRowsAreTyped, TeamPageIsTyped, TogglesAreOfOthers, AnAdminRemains,
      IsAdmin

(* What is saved leaves the one who ordered it an admin, or is stray.      *)
LEMMA SaveTeamStep ==
    ASSUME PlatformInv, NEW q \in teamOrders, SaveMember(q)
    PROVE  PlatformInv'
<1> DEFINE row == platformUsers[q.target]
           new == CASE q.kind = "role" ->
                         IF q.read.role = q.role THEN row ELSE [row EXCEPT !.role = q.role]
                    [] q.kind = "toggle" -> [row EXCEPT !.active = ~q.read.active]
                    [] q.kind = "invite" -> [is |-> "there", role |-> q.role, active |-> TRUE]
           r == [q EXCEPT !.at = "saved"]
<1>1. /\ q \in TeamOrder /\ q.kind \in {"role", "toggle", "invite"}
      /\ q.target \in Admins /\ q.who \in Admins /\ q.role \in PlatformRoles
      /\ q.read.active \in BOOLEAN /\ row \in PlatformUser
  BY DEF PlatformInv, PlatformRowsAreTyped, TeamOrder, PlatformUser
<1>2. r \in TeamOrder /\ r.at = "saved"
  BY <1>1 DEF TeamOrder
<1>3. new \in PlatformUser
  <2>1. (~q.read.active) \in BOOLEAN
    BY <1>1
  <2>2. CASE q.kind = "role"
    BY <1>1, <2>2, TeamRowTypes
  <2>3. CASE q.kind = "toggle"
    BY <1>1, <2>1, <2>3, TeamRowTypes
  <2>4. CASE q.kind = "invite"
    BY <1>1, <2>4, TeamRowTypes
  <2> QED
    BY <1>1, <2>2, <2>3, <2>4
<1>4. /\ platformUsers' = [platformUsers EXCEPT ![q.target] = new]
      /\ teamOrders' = (teamOrders \ {q}) \cup {r}
      /\ stray' = (stray \/ ~IsAdmin(q.who) \/ (q.kind = "role" /\ q.target = q.who))
      /\ UNCHANGED <<roleTokens, teamShown, teamFetch, ordered>>
  BY DEF SaveMember
<1>5. ASSUME ~stray' PROVE IsAdmin(q.who)'
  <2>1. IsAdmin(q.who) /\ ~(q.kind = "role" /\ q.target = q.who)
    BY <1>4, <1>5
  <2>2. q.target # q.who
    BY <1>1, <2>1 DEF PlatformInv, TogglesAreOfOthers, SaveMember, IsAdmin
  <2> HIDE DEF new
  <2>3. platformUsers'[q.who] = platformUsers[q.who]
    BY <1>1, <1>4, <2>2 DEF PlatformInv, PlatformRowsAreTyped
  <2> QED
    BY <2>1, <2>3 DEF IsAdmin
<1> HIDE DEF new, r
<1>6. PlatformRowsAreTyped' /\ TeamPageIsTyped'
  BY <1>1, <1>2, <1>3, <1>4 DEF PlatformInv, PlatformRowsAreTyped, TeamPageIsTyped
<1>7. TogglesAreOfOthers'
  BY <1>2, <1>4 DEF PlatformInv, TogglesAreOfOthers
<1>8. AnAdminRemains'
  BY <1>1, <1>5 DEF AnAdminRemains
<1> QED
  BY <1>6, <1>7, <1>8 DEF PlatformInv

LEMMA TeamAnswerStep ==
    ASSUME PlatformInv, NEW q \in teamOrders,
           RefuseMember(q) \/ OrderAnswered(q) \/ OrderUnheard(q)
    PROVE  PlatformInv'
<1>1. CASE RefuseMember(q)
  <2> DEFINE r == [q EXCEPT !.at = "refused"]
  <2>1. q \in TeamOrder
    BY DEF PlatformInv, PlatformRowsAreTyped
  <2>2. r \in TeamOrder /\ r.at = "refused"
    BY <2>1 DEF TeamOrder
  <2>3. /\ teamOrders' = (teamOrders \ {q}) \cup {r}
        /\ UNCHANGED <<platformUsers, roleTokens, teamShown, teamFetch, ordered, stray>>
    BY <1>1 DEF RefuseMember
  <2> HIDE DEF r
  <2> QED
    BY <2>2, <2>3
    DEF PlatformInv, PlatformRowsAreTyped, TeamPageIsTyped, TogglesAreOfOthers, AnAdminRemains,
        IsAdmin
<1>2. CASE OrderAnswered(q) \/ OrderUnheard(q)
  BY <1>2 DEF OrderAnswered, OrderUnheard,
              PlatformInv, PlatformRowsAreTyped, TeamPageIsTyped, TogglesAreOfOthers,
                  AnAdminRemains, IsAdmin
<1> QED
  BY <1>1, <1>2

(* Signing in and out, and the list.                                       *)
LEMMA TeamPageStep ==
    ASSUME PlatformInv,
           (\E a \in Admins : SignIn(a) \/ SignedOut(a)) \/ AskTeam \/ ReadTeam \/ TeamArrives
    PROVE  PlatformInv'
<1>1. UNCHANGED <<platformUsers, teamOrders, ordered, stray>>
  BY DEF SignIn, SignedOut, AskTeam, ReadTeam, TeamArrives
<1>2. TeamPageIsTyped'
  <2>1. ASSUME NEW a \in Admins, SignIn(a) \/ SignedOut(a) PROVE TeamPageIsTyped'
    BY <2>1 DEF SignIn, SignedOut, PlatformInv, PlatformRowsAreTyped, TeamPageIsTyped, PlatformUser
  <2>2. CASE AskTeam \/ ReadTeam
    BY <2>2 DEF AskTeam, ReadTeam, PlatformInv, PlatformRowsAreTyped, TeamPageIsTyped
  <2>3. CASE TeamArrives
    BY <2>3 DEF TeamArrives, PlatformInv, TeamPageIsTyped
  <2> QED
    BY <2>1, <2>2, <2>3
<1> QED
  BY <1>1, <1>2 DEF PlatformInv, PlatformRowsAreTyped, TogglesAreOfOthers, AnAdminRemains, IsAdmin

LEMMA PlatformStep == PlatformInv /\ [PlatformNext]_teamOfVars => PlatformInv'
<1> SUFFICES ASSUME PlatformInv, [PlatformNext]_teamOfVars PROVE PlatformInv'
  OBVIOUS
<1>1. ASSUME NEW a \in Admins, SignIn(a) \/ SignedOut(a) PROVE PlatformInv'
  BY <1>1, TeamPageStep
<1>2. ASSUME NEW a \in Admins, PressToggle(a) PROVE PlatformInv'
  BY <1>2, SendOrderStep, PlatformAssumption DEF PressToggle
<1>3. ASSUME NEW a \in Admins, NEW role \in PlatformRoles,
             SelectRole(a, role) \/ InviteMember(a, role)
      PROVE  PlatformInv'
  BY <1>3, SendOrderStep, PlatformAssumption DEF SelectRole, InviteMember
<1>4. ASSUME NEW a \in Admins, NEW role \in PlatformRoles, NEW who \in Admins,
             NEW kind \in {"role", "toggle"}, OtherOrders(who, kind, a, role)
      PROVE  PlatformInv'
  BY <1>4, SendOrderStep DEF OtherOrders
<1>5. ASSUME NEW q \in teamOrders,
             \/ ReadMember(q) \/ SaveMember(q) \/ RefuseMember(q)
             \/ OrderAnswered(q) \/ OrderUnheard(q)
      PROVE  PlatformInv'
  BY <1>5, ReadOrderStep, SaveTeamStep, TeamAnswerStep
<1>6. CASE AskTeam \/ ReadTeam \/ TeamArrives
  BY <1>6, TeamPageStep
<1>7. CASE UNCHANGED teamOfVars
  BY <1>7 DEF teamOfVars, PlatformInv, PlatformRowsAreTyped, TeamPageIsTyped, TogglesAreOfOthers,
              AnAdminRemains, IsAdmin
<1> QED
  BY <1>1, <1>2, <1>3, <1>4, <1>5, <1>6, <1>7 DEF PlatformNext

(* The inductive invariant of the platform's team.                         *)
THEOREM PlatformInvariant == PlatformSpec => []PlatformInv
BY PlatformInitInv, PlatformStep, PTL DEF PlatformSpec

(* The platform's team is type correct.                                    *)
THEOREM PlatformTypeCorrect == PlatformSpec => []PlatformTypeOK
<1>1. PlatformInv => PlatformTypeOK
  BY DEF PlatformInv, PlatformRowsAreTyped, TeamPageIsTyped, PlatformTypeOK
<1> QED
  BY <1>1, PlatformInvariant, PTL

(* The platform keeps an active SuperAdmin as long as nobody changes his   *)
(* own role and every command is carried out for an active SuperAdmin.     *)
THEOREM AdminRemains == PlatformSpec => []AnAdminRemains
<1>1. PlatformInv => AnAdminRemains
  BY DEF PlatformInv
<1> QED
  BY <1>1, PlatformInvariant, PTL

-----------------------------------------------------------------------------
PlansAreTyped ==
    /\ planRows \in [Plans -> StoredPlan] /\ plansListed \in [Plans -> StoredPlan]
    /\ DOMAIN edits \subseteq Plans /\ edits \in [DOMAIN edits -> PlanRow]
    /\ savingPlan \in Plans \cup {"none"} /\ planPuts \subseteq PlanPut
    /\ planSaves \in 0 .. MaxPlanSaves /\ outdated \in BOOLEAN
    /\ plansFetch \in [at : {"idle", "sent"}]
                     \cup [at : {"read"}, rows : [Plans -> StoredPlan]]
    /\ typed \in [Plans -> StoredPlan]

(* Whatever is on the page, on its way or with the server is what was      *)
(* typed, but for the keys that were filled in: the copy that is edited,   *)
(* the saves and, where nothing is edited or a save was carried out, the   *)
(* row.                                                                    *)
AsTyped(p) == planRows[p] \in {typed[p], Filled(typed[p])}
AllAsTyped ==
    /\ \A p \in DOMAIN edits : edits[p] = Filled(typed[p])
    /\ \A p \in Plans \ DOMAIN edits : AsTyped(p)
    /\ \A q \in planPuts : /\ q.body = Filled(typed[q.plan])
                           /\ q.at = "saved" => AsTyped(q.plan)

PlansInv == PlansAreTyped /\ (~outdated => AllAsTyped)

(* A filled copy is a whole one, a whole one is as it was, and what is     *)
(* typed into the copy is typed into what it was made of.                  *)
LEMMA FilledRows ==
    /\ PlanRow \subseteq StoredPlan
    /\ \A row \in StoredPlan : Filled(row) \in PlanRow /\ Filled(Filled(row)) = Filled(row)
    /\ \A row \in PlanRow : Filled(row) = row
<1>1. ASSUME NEW row \in PlanRow PROVE row \in StoredPlan /\ Filled(row) = row
  <2>1. \A f \in PlanFields : row[f] \in PlanValues /\ row[f] # NotStored
    BY PlanAssumption DEF PlanRow
  <2> QED  BY <2>1 DEF PlanRow, StoredPlan, Filled
<1>2. ASSUME NEW row \in StoredPlan PROVE Filled(row) \in PlanRow
  BY PlanAssumption DEF StoredPlan, Filled, PlanRow
<1> QED  BY <1>1, <1>2

LEMMA TypedIntoFilled ==
    ASSUME NEW row \in StoredPlan, NEW f \in PlanFields, NEW v \in PlanValues
    PROVE  /\ [row EXCEPT ![f] = v] \in StoredPlan
           /\ Filled([row EXCEPT ![f] = v]) = [Filled(row) EXCEPT ![f] = v]
<1> DEFINE new == [row EXCEPT ![f] = v]
<1>1. /\ row \in [PlanFields -> PlanValues \cup {NotStored}]
      /\ \A g \in PlanFields : row[g] = NotStored => g \in JsonFields
      /\ v # NotStored
  BY PlanAssumption DEF StoredPlan
<1>2. new \in [PlanFields -> PlanValues \cup {NotStored}]
  BY <1>1
<1>3. \A g \in PlanFields : new[g] = IF g = f THEN v ELSE row[g]
  BY <1>1
<1>4. new \in StoredPlan
  BY <1>1, <1>2, <1>3 DEF StoredPlan
<1> HIDE DEF new
<1>5. Filled(new) = [Filled(row) EXCEPT ![f] = v]
  BY <1>1, <1>3 DEF Filled
<1> QED  BY <1>4, <1>5 DEF new

LEMMA PlansInitInv == PlansInit => PlansInv
<1> SUFFICES ASSUME PlansInit PROVE PlansInv
  OBVIOUS
<1>1. planRows \in [Plans -> StoredPlan]
  BY DEF PlansInit
<1>2. DOMAIN edits = {} /\ edits \in [DOMAIN edits -> PlanRow] /\ planPuts = {}
  BY DEF PlansInit
<1>3. plansFetch \in [at : {"idle", "sent"}] /\ planSaves \in 0 .. MaxPlanSaves
  BY PlanAssumption DEF PlansInit
<1> QED  BY <1>1, <1>2, <1>3 DEF PlansInit, PlansInv, PlansAreTyped, AllAsTyped, AsTyped

LEMMA TypePlanStep ==
    ASSUME PlansInv, NEW p \in Plans, NEW f \in PlanFields, NEW v \in PlanValues, TypePlan(p, f, v)
    PROVE  PlansInv'
<1>1. /\ edits' = [x \in DOMAIN edits \cup {p} |->
                      IF x = p THEN [EditOf(p) EXCEPT ![f] = v] ELSE edits[x]]
      /\ typed' = [typed EXCEPT ![p][f] = v]
      /\ outdated' = (UnderWay(p) \/ (p \notin DOMAIN edits /\ plansListed[p] # planRows[p]))
      /\ UNCHANGED <<planRows, plansListed, savingPlan, planPuts, planSaves, plansFetch>>
      /\ ~outdated
  BY DEF TypePlan, MoreToSave
<1>2. EditOf(p) \in PlanRow /\ typed[p] \in StoredPlan
  BY FilledRows DEF EditOf, PlansInv, PlansAreTyped
<1>3. [EditOf(p) EXCEPT ![f] = v] \in PlanRow /\ [typed[p] EXCEPT ![f] = v] \in StoredPlan
  BY <1>2, TypedIntoFilled DEF PlanRow
<1>4. /\ DOMAIN edits' = DOMAIN edits \cup {p}
      /\ edits'[p] = [EditOf(p) EXCEPT ![f] = v]
      /\ \A x \in DOMAIN edits \ {p} : edits'[x] = edits[x]
      /\ edits' \in [DOMAIN edits' -> PlanRow]
  BY <1>1, <1>3 DEF PlansInv, PlansAreTyped
<1>5. /\ typed'[p] = [typed[p] EXCEPT ![f] = v] /\ \A x \in Plans \ {p} : typed'[x] = typed[x]
      /\ typed' \in [Plans -> StoredPlan]
  BY <1>1, <1>3 DEF PlansInv, PlansAreTyped
<1>6. PlansAreTyped'
  <2>1. outdated' \in BOOLEAN /\ DOMAIN edits' \subseteq Plans
    BY <1>1, <1>4 DEF PlansInv, PlansAreTyped
  <2> QED  BY <1>1, <1>4, <1>5, <2>1 DEF PlansInv, PlansAreTyped
<1>7. ASSUME ~outdated' PROVE AllAsTyped'
  <2>1. AllAsTyped /\ ~UnderWay(p) /\ (p \notin DOMAIN edits => plansListed[p] = planRows[p])
    BY <1>1, <1>7 DEF PlansInv
  <2>2. EditOf(p) = Filled(typed[p])
    <3>1. CASE p \in DOMAIN edits
      BY <2>1, <3>1 DEF AllAsTyped, EditOf
    <3>2. CASE p \notin DOMAIN edits
      <4>1. EditOf(p) = Filled(planRows[p]) /\ planRows[p] \in {typed[p], Filled(typed[p])}
        BY <2>1, <3>2 DEF AllAsTyped, AsTyped, EditOf
      <4> QED  BY <1>2, <4>1, FilledRows
    <3> QED  BY <3>1, <3>2
  <2>3. \A q \in planPuts : q.plan \in Plans \ {p}
    BY <2>1 DEF UnderWay, PlansInv, PlansAreTyped, PlanPut
  <2>4. edits'[p] = Filled(typed'[p])
    BY <1>2, <1>4, <1>5, <2>2, TypedIntoFilled
  <2> QED  BY <1>1, <1>4, <1>5, <2>1, <2>3, <2>4 DEF AllAsTyped, AsTyped
<1> QED  BY <1>6, <1>7 DEF PlansInv

LEMMA SavePlanStep == ASSUME PlansInv, NEW p \in Plans, SavePlan(p) PROVE PlansInv'
<1> DEFINE q == [id |-> planSaves + 1, plan |-> p, body |-> edits[p], open |-> TRUE, at |-> "sent"]
<1>1. planSaves + 1 \in 1 .. MaxPlanSaves /\ planSaves + 1 \in 0 .. MaxPlanSaves
  BY PlanAssumption DEF SavePlan, MoreToSave, PlansInv, PlansAreTyped
<1>2. p \in DOMAIN edits /\ edits[p] \in PlanRow
  BY DEF SavePlan, PlansInv, PlansAreTyped
<1>3. q \in PlanPut /\ q.plan = p /\ q.body = edits[p] /\ q.at = "sent"
  BY <1>1, <1>2 DEF PlanPut
<1>4. /\ planPuts' = planPuts \cup {q} /\ planSaves' = planSaves + 1 /\ savingPlan' = p
      /\ UNCHANGED <<planRows, plansListed, edits, plansFetch, typed, outdated>>
  BY DEF SavePlan
<1> HIDE DEF q
<1> QED  BY <1>1, <1>2, <1>3, <1>4 DEF PlansInv, PlansAreTyped, AllAsTyped, AsTyped

(* What happens to a save.                                                 *)
LEMMA PlanPutStep ==
    ASSUME PlansInv, NEW q \in planPuts,
           \/ HandlePlan(q) \/ RefusePlan(q) \/ PlanSaved(q) \/ PlanRefused(q) \/ PlanLost(q)
    PROVE  PlansInv'
<1>1. q \in PlanPut /\ q.body \in PlanRow /\ q.plan \in Plans
  BY DEF PlansInv, PlansAreTyped, PlanPut
<1>2. \A at \in {"saved", "refused"} :
          /\ [q EXCEPT !.at = at] \in PlanPut /\ [q EXCEPT !.at = at].at = at
          /\ [q EXCEPT !.at = at].plan = q.plan /\ [q EXCEPT !.at = at].body = q.body
  BY <1>1 DEF PlanPut
<1>3. CASE HandlePlan(q)
  <2>1. PICK r \in PlanPut :
            planPuts' = (planPuts \ {q}) \cup {r} /\ r.plan = q.plan /\ r.body = q.body
    BY <1>2, <1>3 DEF HandlePlan
  <2>2. /\ planRows' = [planRows EXCEPT ![q.plan] = q.body]
        /\ UNCHANGED <<plansListed, edits, savingPlan, planSaves, plansFetch, typed, outdated>>
    BY <1>3 DEF HandlePlan
  <2>3. /\ planRows' \in [Plans -> StoredPlan] /\ planRows'[q.plan] = q.body
        /\ \A p \in Plans \ {q.plan} : planRows'[p] = planRows[p]
    BY <1>1, <2>2, FilledRows DEF PlansInv, PlansAreTyped
  <2>4. PlansAreTyped'
    BY <2>1, <2>2, <2>3 DEF PlansInv, PlansAreTyped
  <2>5. \A x \in planPuts : x.plan \in Plans
    BY DEF PlansInv, PlansAreTyped, PlanPut
  <2>6. AllAsTyped => AllAsTyped'
    BY <1>1, <2>1, <2>2, <2>3, <2>5 DEF AllAsTyped, AsTyped
  <2> QED  BY <2>2, <2>4, <2>6 DEF PlansInv
<1>4. CASE RefusePlan(q)
  <2>1. PICK r \in PlanPut :
            /\ planPuts' = (planPuts \ {q}) \cup {r} /\ r.plan = q.plan /\ r.body = q.body
            /\ r.at = "refused"
    BY <1>2, <1>4 DEF RefusePlan
  <2> QED  BY <1>4, <2>1 DEF RefusePlan, PlansInv, PlansAreTyped, AllAsTyped, AsTyped
<1>5. CASE PlanSaved(q)
  <2>1. /\ q.at = "saved" /\ planPuts' = planPuts \ {q}
        /\ edits' = IF q.open THEN EditsAfter(q.plan) ELSE edits
        /\ savingPlan' \in {"none", savingPlan} /\ plansFetch' = [at |-> "sent"]
        /\ UNCHANGED <<planRows, plansListed, planSaves, typed, outdated>>
    BY <1>5 DEF PlanSaved
  <2>2. /\ DOMAIN edits' \subseteq DOMAIN edits
        /\ DOMAIN edits \subseteq DOMAIN edits' \cup {q.plan}
        /\ \A p \in DOMAIN edits' : edits'[p] = edits[p]
        /\ edits' \in [DOMAIN edits' -> PlanRow]
    BY <2>1 DEF EditsAfter, PlansInv, PlansAreTyped
  <2>3. PlansAreTyped'
    BY <2>1, <2>2 DEF PlansInv, PlansAreTyped
  <2>4. AllAsTyped => AllAsTyped'
    BY <2>1, <2>2 DEF AllAsTyped, AsTyped
  <2> QED  BY <2>1, <2>3, <2>4 DEF PlansInv
<1>6. CASE PlanRefused(q) \/ PlanLost(q)
  BY <1>6 DEF PlanRefused, PlanLost, PlansInv, PlansAreTyped, AllAsTyped, AsTyped
<1> QED  BY <1>3, <1>4, <1>5, <1>6

LEMMA LeavePricesStep == ASSUME PlansInv, LeavePrices PROVE PlansInv'
<1>1. /\ edits' = [p \in {} |-> planRows[p]] /\ savingPlan' = "none"
      /\ planPuts' = {[q EXCEPT !.open = FALSE] : q \in planPuts}
      /\ typed' = planRows /\ outdated' = (planPuts # {})
      /\ UNCHANGED <<planRows, plansListed, planSaves, plansFetch>>
  BY DEF LeavePrices
<1>2. \A q \in planPuts : [q EXCEPT !.open = FALSE] \in PlanPut
  BY ZenonT(30) DEF PlansInv, PlansAreTyped, PlanPut
<1>3. DOMAIN edits' = {} /\ edits' \in [DOMAIN edits' -> PlanRow]
  BY <1>1
<1>4. PlansAreTyped'
  BY <1>1, <1>2, <1>3 DEF PlansInv, PlansAreTyped
<1>5. ~outdated' => AllAsTyped'
  BY <1>1, <1>3 DEF AllAsTyped, AsTyped
<1> QED  BY <1>4, <1>5 DEF PlansInv

LEMMA OtherAdminStep ==
    ASSUME PlansInv, NEW p \in Plans, NEW row \in PlanRow, OtherAdminSaves(p, row)
    PROVE  PlansInv'
<1>1. /\ planRows' = [planRows EXCEPT ![p] = row] /\ typed' = [typed EXCEPT ![p] = row]
      /\ outdated' = (p \in DOMAIN edits \/ UnderWay(p)) /\ planSaves' = planSaves + 1 /\ ~outdated
      /\ UNCHANGED <<plansListed, edits, savingPlan, planPuts, plansFetch>>
  BY DEF OtherAdminSaves, MoreToSave
<1>2. planSaves' \in 0 .. MaxPlanSaves
  BY <1>1, PlanAssumption DEF OtherAdminSaves, MoreToSave, PlansInv, PlansAreTyped
<1>3. /\ planRows' \in [Plans -> StoredPlan] /\ planRows'[p] = row
      /\ typed' \in [Plans -> StoredPlan] /\ typed'[p] = row
      /\ \A x \in Plans \ {p} : planRows'[x] = planRows[x] /\ typed'[x] = typed[x]
  BY <1>1, FilledRows DEF PlansInv, PlansAreTyped
<1>4. PlansAreTyped'
  <2>1. outdated' \in BOOLEAN
    BY <1>1
  <2> QED  BY <1>1, <1>2, <1>3, <2>1 DEF PlansInv, PlansAreTyped
<1>5. ASSUME ~outdated' PROVE AllAsTyped'
  <2>1. AllAsTyped /\ p \notin DOMAIN edits /\ DOMAIN edits \subseteq Plans
    BY <1>1, <1>5 DEF PlansInv, PlansAreTyped
  <2>2. \A q \in planPuts : q.plan \in Plans \ {p}
    BY <1>1, <1>5 DEF UnderWay, PlansInv, PlansAreTyped, PlanPut
  <2> QED  BY <1>1, <1>3, <2>1, <2>2 DEF AllAsTyped, AsTyped
<1> QED  BY <1>4, <1>5 DEF PlansInv

LEMMA PlansStep == PlansInv /\ [PlansNext]_planVars => PlansInv'
<1> SUFFICES ASSUME PlansInv, [PlansNext]_planVars PROVE PlansInv'
  OBVIOUS
<1>1. CASE AskPlans \/ ReadPlans \/ PlansShown \/ PlansFail
  BY <1>1 DEF AskPlans, ReadPlans, PlansShown, PlansFail, PlansInv, PlansAreTyped, AllAsTyped,
              AsTyped
<1>2. CASE UNCHANGED planVars
  BY <1>2 DEF planVars, PlansInv, PlansAreTyped, AllAsTyped, AsTyped
<1> QED  BY <1>1, <1>2, TypePlanStep, SavePlanStep, OtherAdminStep, PlanPutStep,
    LeavePricesStep DEF PlansNext

(* The inductive invariant of the prices page.                             *)
THEOREM PlansInvariant == PlansSpec => []PlansInv
BY PlansInitInv, PlansStep, PTL DEF PlansSpec

(* The prices' page is type correct for any plans, fields and saves.       *)
THEOREM PlansTypeCorrect == PlansSpec => []PlansTypeOK
<1>1. PlansInv => PlansTypeOK
  BY DEF PlansInv, PlansAreTyped, PlansTypeOK
<1> QED  BY <1>1, PlansInvariant, PTL

(* A plan with nothing left to save is as the admin last typed it, or has  *)
(* the page's defaults besides for the keys it lacked, for any plans,      *)
(* fields and number of saves, whatever became of the saves.               *)
THEOREM PlansEndAsTyped == PlansSpec => []PlansAreAsTyped
<1>1. PlansInv => PlansAreAsTyped
  BY DEF PlansInv, AllAsTyped, AsTyped, PlansAreAsTyped
<1> QED  BY <1>1, PlansInvariant, PTL

-----------------------------------------------------------------------------
TenantIsTyped ==
    /\ tenantRow \in Tenant /\ tenantShown \in Tenant
    /\ tenantFetch \in [at : {"idle", "sent"}] \cup [at : {"read"}, row : Tenant]
    /\ limitsForm \in LimitSets \cup {NoLimits} /\ limitsTouched \in BOOLEAN
    /\ suspendDialog \in BOOLEAN /\ elsewhere \in BOOLEAN
    /\ orders \subseteq Order /\ ordersSent \in 0 .. MaxOrders

(* Orders are numbered, and only a suspension has read before it saves.    *)
OrdersAreNumbered ==
    /\ \A o \in orders : o.id \in 1 .. ordersSent
    /\ \A o, p \in orders : o.id = p.id => o = p
    /\ \A o \in orders : o.at = "read" => o.kind = "suspend" /\ o.saw \in Tenant

(* A note that is there was ordered, and is not among those to be written. *)
Unwritten == {o.id : o \in {p \in orders : p.kind = "note" /\ p.at \in {"pricing", "sent"}}}
NotesAreOrdered == tenantRow.notes + Cardinality(Unwritten) <= ordersSent

(* The buttons let one order of each lane be under way, ...                *)
Lane(o) == IF o.kind = "reset" THEN "limits" ELSE o.kind
OneOrderPerLane ==
    /\ \A o \in orders : o.ours
    /\ \A o, p \in orders : Lane(o) = Lane(p) => o = p

(* ... so that a suspension finds what it has read, and limits that were   *)
(* saved are still those in force; and the two columns agree.              *)
OrdersStand ==
    /\ \A o \in orders : /\ o.at = "read" => /\ o.saw.status = tenantRow.status
                                             /\ o.saw.isActive = tenantRow.isActive
                         /\ o.at = "saved" /\ Lane(o) = "limits" => o.limits = tenantRow.limits
    /\ tenantRow.status # "Trial" => (tenantRow.status = "Suspended" <=> ~tenantRow.isActive)

(* A row the page has not got is announced, ...                            *)
NewsOnItsWay ==
    \/ \E o \in orders : o.at = "saved"
    \/ tenantFetch.at = "sent"
    \/ tenantFetch.at = "read" /\ tenantFetch.row = tenantRow
    \/ tenantFetch.at = "idle" /\ tenantShown = tenantRow

(* ... and so are limits that the fields do not hold.                      *)
LimitsOnTheirWay ==
    \/ \E o \in orders : o.at = "saved" /\ Lane(o) = "limits"
    \/ /\ ~limitsTouched => limitsForm = tenantRow.limits
       /\ tenantFetch.at = "read" => tenantFetch.row.limits = tenantRow.limits

TenantInv ==
    /\ TenantIsTyped /\ OrdersAreNumbered /\ NotesAreOrdered
    /\ ~elsewhere => OneOrderPerLane /\ OrdersStand /\ NewsOnItsWay /\ LimitsOnTheirWay

-----------------------------------------------------------------------------
LEMMA UnwrittenOrders ==
    ASSUME TenantInv
    PROVE  /\ tenantRow.notes \in Nat /\ ordersSent \in Nat
           /\ Unwritten \in SUBSET (1 .. ordersSent)
           /\ tenantRow.notes + Cardinality(Unwritten) <= ordersSent
<1>1. tenantRow.notes \in Nat /\ ordersSent \in Nat
  BY DEF TenantInv, TenantIsTyped, Tenant
<1>2. Unwritten \in SUBSET (1 .. ordersSent)
  BY DEF TenantInv, OrdersAreNumbered, Unwritten
<1> QED  BY <1>1, <1>2 DEF TenantInv, NotesAreOrdered

(* Nothing new to be written, and no note written.                         *)
LEMMA NotesKept ==
    ASSUME TenantInv, Unwritten' \subseteq Unwritten, tenantRow'.notes = tenantRow.notes,
           ordersSent' = ordersSent
    PROVE  NotesAreOrdered'
<1> DEFINE n == tenantRow.notes
           k == ordersSent
           S == Unwritten
           T == Unwritten'
<1>1. n \in Nat /\ k \in Nat /\ S \in SUBSET (1 .. k) /\ n + Cardinality(S) <= k
  BY UnwrittenOrders
<1>2. T \in SUBSET S /\ tenantRow'.notes = n /\ ordersSent' = k
  OBVIOUS
<1> HIDE DEF n, k, S
<1>3. n + Cardinality(T) <= k
  BY <1>1, <1>2, CountKept
<1> QED  BY <1>2, <1>3 DEF NotesAreOrdered

LEMMA TenantInitInv == TenantInit => TenantInv
<1> SUFFICES ASSUME TenantInit PROVE TenantInv
  OBVIOUS
<1>1. PICK status \in PlanStatus, limits \in LimitSets \cup {NoLimits} :
          tenantRow = [status |-> status, isActive |-> status # "Suspended", plan |-> "starter",
                       limits |-> limits, notes |-> 0]
  BY DEF TenantInit
<1>2. tenantRow \in Tenant /\ tenantRow.notes = 0
  BY <1>1, TenantAssumption DEF Tenant
<1>3. /\ tenantFetch \in [at : {"idle", "sent"}] /\ tenantFetch.at = "idle"
      /\ orders = {} /\ ordersSent = 0 /\ tenantShown = tenantRow /\ elsewhere = FALSE
      /\ limitsForm = tenantRow.limits /\ limitsTouched = FALSE /\ suspendDialog = FALSE
  BY DEF TenantInit
<1>4. tenantRow.limits \in LimitSets \cup {NoLimits}
  BY <1>2 DEF Tenant
<1>5. TenantIsTyped
  <2>1. 0 \in 0 .. MaxOrders
    BY TenantAssumption
  <2> QED  BY <1>2, <1>3, <1>4, <2>1 DEF TenantIsTyped
<1>6. NotesAreOrdered
  <2>1. Unwritten = {}
    BY <1>3 DEF Unwritten
  <2> QED  BY <1>2, <1>3, <2>1, FS_EmptySet DEF NotesAreOrdered
<1>7. OrdersAreNumbered /\ OneOrderPerLane
  BY <1>3 DEF OrdersAreNumbered, OneOrderPerLane
<1>8. OrdersStand
  <2>1. tenantRow.status = status /\ tenantRow.isActive = (status # "Suspended")
    BY <1>1
  <2> QED  BY <1>3, <2>1 DEF OrdersStand
<1>9. NewsOnItsWay /\ LimitsOnTheirWay
  BY <1>3 DEF NewsOnItsWay, LimitsOnTheirWay
<1> QED  BY <1>5, <1>6, <1>7, <1>8, <1>9 DEF TenantInv

-----------------------------------------------------------------------------
(* An order that is given: a number of its own, and the lane was free.     *)
LEMMA OrderStep ==
    ASSUME TenantInv, NEW kind \in {"suspend", "plan", "limits", "reset", "note"},
           NEW suspend \in BOOLEAN, NEW limits \in LimitSets \cup {NoLimits},
           NEW ours \in BOOLEAN, NEW at \in {"pricing", "sent"},
           Orders(kind, suspend, limits, ours, at),
           UNCHANGED <<tenantRow, tenantShown, tenantFetch, tenantPage>>,
           \/ elsewhere' = TRUE
           \/ /\ elsewhere' = elsewhere /\ ours
              /\ \A o \in orders : o.ours => Lane(o) # IF kind = "reset" THEN "limits" ELSE kind
    PROVE  TenantInv'
<1> DEFINE d == [id |-> ordersSent + 1, kind |-> kind, suspend |-> suspend, limits |-> limits,
                 ours |-> ours, saw |-> Unread, at |-> at]
           k == ordersSent
<1>1. /\ k \in Nat /\ k + 1 \in 1 .. MaxOrders /\ k + 1 \in 0 .. MaxOrders
      /\ k + 1 \in 1 .. (k + 1) /\ ~(k + 1 \in 1 .. k) /\ 1 .. k \subseteq 1 .. (k + 1)
  BY TenantAssumption DEF Orders, Begins, TenantInv, TenantIsTyped
<1>2. /\ d \in Order /\ d.id = k + 1 /\ d.kind = kind /\ d.ours = ours /\ d.at = at
      /\ Lane(d) = IF kind = "reset" THEN "limits" ELSE kind
  BY <1>1 DEF Order, Lane
<1>3. /\ orders' = orders \cup {d} /\ ordersSent' = k + 1
      /\ UNCHANGED <<tenantRow, tenantShown, tenantFetch, limitsForm, limitsTouched, suspendDialog>>
  BY DEF Orders, tenantPage
<1> HIDE DEF d
<1>4. TenantIsTyped'
  BY <1>1, <1>2, <1>3 DEF TenantInv, TenantIsTyped
<1>5. OrdersAreNumbered'
  <2> HIDE DEF k
  <2>1. \A o \in orders : o.id \in 1 .. k
    BY DEF TenantInv, OrdersAreNumbered, k
  <2> QED  BY <1>1, <1>2, <1>3, <2>1 DEF TenantInv, OrdersAreNumbered
<1>6. NotesAreOrdered'
  <2> DEFINE n == tenantRow.notes
             S == Unwritten
             T == Unwritten'
  <2>1. n \in Nat /\ k \in Nat /\ S \in SUBSET (1 .. k) /\ n + Cardinality(S) <= k
    BY UnwrittenOrders
  <2>2. T \in SUBSET (S \cup {k + 1}) /\ tenantRow'.notes = n /\ ordersSent' = k + 1
    BY <1>2, <1>3 DEF Unwritten
  <2> HIDE DEF n, k, S
  <2>3. n + Cardinality(T) <= k + 1
    BY <2>1, <2>2, CountKept
  <2> QED  BY <2>2, <2>3 DEF NotesAreOrdered
<1>7. ASSUME ~elsewhere'
      PROVE  OneOrderPerLane' /\ OrdersStand' /\ NewsOnItsWay' /\ LimitsOnTheirWay'
  <2>1. /\ OneOrderPerLane /\ OrdersStand /\ NewsOnItsWay /\ LimitsOnTheirWay
        /\ ours /\ \A o \in orders : o.ours => Lane(o) # Lane(d)
    BY <1>2, <1>7 DEF TenantInv
  <2>2. OneOrderPerLane'
    <3>1. \A o \in orders : Lane(o)' = Lane(o)
      BY DEF Lane
    <3> QED  BY <1>2, <1>3, <2>1, <3>1 DEF OneOrderPerLane
  <2>3. OrdersStand' /\ NewsOnItsWay' /\ LimitsOnTheirWay'
    BY <1>2, <1>3, <2>1 DEF OrdersStand, NewsOnItsWay, LimitsOnTheirWay
  <2> QED  BY <2>2, <2>3
<1> QED  BY <1>4, <1>5, <1>6, <1>7 DEF TenantInv

(* The buttons, and another admin.                                         *)
LEMMA TenantButtonStep ==
    ASSUME TenantInv,
           \/ ConfirmSuspend \/ ChangePlan \/ AddNote \/ SaveLimits \/ ResetLimits
           \/ \E suspend \in BOOLEAN : OtherAdmin(suspend)
    PROVE  TenantInv'
<1>1. /\ NoLimits \in LimitSets \cup {NoLimits} /\ limitsForm \in LimitSets \cup {NoLimits}
      /\ (~isSuspended) \in BOOLEAN
  BY DEF TenantInv, TenantIsTyped
<1>2. ASSUME NEW kinds, ~Loading(kinds)
      PROVE  \A o \in orders : o.ours => o.kind \notin kinds
  BY <1>2 DEF Loading
<1>3. CASE ConfirmSuspend
  <2>1. \A o \in orders : o.ours => Lane(o) # "suspend"
    BY <1>2, <1>3 DEF ConfirmSuspend, Lane
  <2> QED  BY <1>1, <1>3, <2>1, OrderStep DEF ConfirmSuspend
<1>4. CASE ChangePlan
  <2>1. \A o \in orders : o.ours => Lane(o) # "plan"
    BY <1>2, <1>4 DEF ChangePlan, Lane
  <2> QED  BY <1>1, <1>4, <2>1, OrderStep DEF ChangePlan
<1>5. CASE AddNote
  <2>1. \A o \in orders : o.ours => Lane(o) # "note"
    BY <1>2, <1>5 DEF AddNote, Lane
  <2> QED  BY <1>1, <1>5, <2>1, OrderStep DEF AddNote
<1>6. CASE SaveLimits \/ ResetLimits
  <2>1. \A o \in orders : o.ours => Lane(o) # "limits"
    BY <1>2, <1>6 DEF SaveLimits, ResetLimits, Lane
  <2> QED  BY <1>1, <1>6, <2>1, OrderStep DEF SaveLimits, ResetLimits
<1>7. ASSUME NEW suspend \in BOOLEAN, OtherAdmin(suspend) PROVE TenantInv'
  BY <1>1, <1>7, OrderStep DEF OtherAdmin
<1> QED  BY <1>3, <1>4, <1>5, <1>6, <1>7

(* An order that goes on to its next stage keeps its number and its lane.  *)
LEMMA OrderStageStep ==
    ASSUME TenantInv, NEW o \in orders, NEW d \in Order,
           d.id = o.id, d.kind = o.kind, d.ours = o.ours,
           d.at = "read" => d.kind = "suspend" /\ d.saw \in Tenant,
           orders' = (orders \ {o}) \cup {d}, ordersSent' = ordersSent
    PROVE  /\ orders' \subseteq Order /\ OrdersAreNumbered'
           /\ OneOrderPerLane => OneOrderPerLane'
<1>1. orders' \subseteq Order
  BY DEF TenantInv, TenantIsTyped
<1>2. OrdersAreNumbered'
  BY DEF TenantInv, OrdersAreNumbered
<1>3. ASSUME OneOrderPerLane PROVE OneOrderPerLane'
  <2>1. Lane(d) = Lane(o) /\ \A p \in orders : Lane(p)' = Lane(p)
    BY DEF Lane
  <2> QED  BY <1>3, <2>1 DEF OneOrderPerLane
<1> QED  BY <1>1, <1>2, <1>3

LEMMA OrderFields ==
    ASSUME TenantInv, NEW o \in orders
    PROVE  /\ o \in Order /\ o.suspend \in BOOLEAN /\ o.limits \in LimitSets \cup {NoLimits}
           /\ o.kind \in {"suspend", "plan", "limits", "reset", "note"}
           /\ \A at \in {"sent", "saved", "refused"} :
                 LET d == [o EXCEPT !.at = at]
                 IN  /\ d \in Order /\ d.id = o.id /\ d.kind = o.kind /\ d.ours = o.ours
                     /\ d.limits = o.limits /\ d.at = at /\ Lane(d) = Lane(o)
BY DEF TenantInv, TenantIsTyped, Order, Lane

(* A step that leaves the row, the page and what is saved alone.           *)
LEMMA WaitingOrderStep ==
    ASSUME TenantInv, NEW o \in orders, PlansArrive(o) \/ RefuseOrder(o)
    PROVE  TenantInv'
<1>1. PICK at \in {"sent", "refused"} :
          /\ orders' = (orders \ {o}) \cup {[o EXCEPT !.at = at]} /\ ordersSent' = ordersSent
          /\ o.at \in {"pricing", "sent"} /\ (o.at = "pricing" \/ at = "refused")
          /\ UNCHANGED <<tenantRow, tenantShown, tenantFetch, limitsForm, limitsTouched,
                         suspendDialog, elsewhere>>
  BY DEF PlansArrive, RefuseOrder, Stands, tenantPage
<1> DEFINE d == [o EXCEPT !.at = at]
<1>2. /\ d \in Order /\ d.id = o.id /\ d.kind = o.kind /\ d.ours = o.ours /\ d.at = at
      /\ orders' = (orders \ {o}) \cup {d}
  <2>1. /\ d \in Order /\ d.id = o.id /\ d.kind = o.kind /\ d.ours = o.ours /\ d.at = at
    BY <1>1 DEF TenantInv, TenantIsTyped, Order
  <2> QED  BY <1>1, <2>1
<1> HIDE DEF d
<1>3. /\ orders' \subseteq Order /\ OrdersAreNumbered'
      /\ OneOrderPerLane => OneOrderPerLane'
  BY <1>1, <1>2, OrderStageStep
<1>4. TenantIsTyped'
  BY <1>1, <1>3 DEF TenantInv, TenantIsTyped
<1>5. NotesAreOrdered'
  <2>1. Unwritten' \subseteq Unwritten
    BY <1>1, <1>2 DEF Unwritten
  <2> QED  BY <1>1, <2>1, NotesKept
<1>6. OrdersStand /\ NewsOnItsWay /\ LimitsOnTheirWay
          => OrdersStand' /\ NewsOnItsWay' /\ LimitsOnTheirWay'
  BY <1>1, <1>2 DEF OrdersStand, NewsOnItsWay, LimitsOnTheirWay
<1> QED  BY <1>1, <1>3, <1>4, <1>5, <1>6 DEF TenantInv

(* A suspension reads the row, ...                                         *)
LEMMA ReadSuspensionStep ==
    ASSUME TenantInv, NEW o \in orders, ReadForSuspension(o)
    PROVE  TenantInv'
<1> DEFINE d == [o EXCEPT !.at = "read", !.saw = tenantRow]
<1>1. /\ orders' = (orders \ {o}) \cup {d} /\ o.kind = "suspend" /\ o.at = "sent"
      /\ UNCHANGED <<tenantRow, tenantShown, tenantFetch, limitsForm, limitsTouched,
                     suspendDialog, elsewhere, ordersSent>>
  BY DEF ReadForSuspension, tenantPage
<1>2. /\ d \in Order /\ d.id = o.id /\ d.kind = o.kind /\ d.ours = o.ours /\ d.at = "read"
      /\ d.saw = tenantRow /\ d.saw \in Tenant
  BY DEF TenantInv, TenantIsTyped, Order
<1> HIDE DEF d
<1>3. /\ orders' \subseteq Order /\ OrdersAreNumbered'
      /\ OneOrderPerLane => OneOrderPerLane'
  BY <1>1, <1>2, OrderStageStep
<1>4. TenantIsTyped'
  BY <1>1, <1>3 DEF TenantInv, TenantIsTyped
<1>5. NotesAreOrdered'
  <2>1. Unwritten' \subseteq Unwritten
    BY <1>1, <1>2 DEF Unwritten
  <2> QED  BY <1>1, <2>1, NotesKept
<1>6. OrdersStand /\ NewsOnItsWay /\ LimitsOnTheirWay
          => OrdersStand' /\ NewsOnItsWay' /\ LimitsOnTheirWay'
  BY <1>1, <1>2 DEF OrdersStand, NewsOnItsWay, LimitsOnTheirWay
<1> QED  BY <1>1, <1>3, <1>4, <1>5, <1>6 DEF TenantInv

(* ... which nobody changes before it saves, so that it leaves the two     *)
(* columns agreeing.                                                       *)
LEMMA SuspensionStep ==
    ASSUME TenantInv, NEW o \in orders, SaveSuspension(o)
    PROVE  TenantInv'
<1> DEFINE d == [o EXCEPT !.at = "saved", !.saw = Unread]
<1>1. /\ orders' = (orders \ {o}) \cup {d} /\ o.at = "read"
      /\ tenantRow' = [tenantRow EXCEPT
                        !.isActive = IF o.saw.isActive = o.suspend THEN ~o.suspend ELSE @,
                        !.status = StatusAfter(o)]
      /\ UNCHANGED <<tenantShown, tenantFetch, limitsForm, limitsTouched, suspendDialog,
                     elsewhere, ordersSent>>
  BY DEF SaveSuspension, tenantPage
<1>2. d \in Order /\ d.id = o.id /\ d.kind = o.kind /\ d.ours = o.ours /\ d.at = "saved"
  BY DEF TenantInv, TenantIsTyped, Order
<1> HIDE DEF d
<1>3. /\ tenantRow \in Tenant /\ o.saw \in Tenant /\ o.kind = "suspend" /\ o.suspend \in BOOLEAN
  BY <1>1, OrderFields DEF TenantInv, TenantIsTyped, OrdersAreNumbered
<1>4. /\ tenantRow' \in Tenant /\ tenantRow'.notes = tenantRow.notes
      /\ tenantRow'.limits = tenantRow.limits /\ tenantRow'.status = StatusAfter(o)
      /\ tenantRow'.isActive = IF o.saw.isActive = o.suspend THEN ~o.suspend ELSE tenantRow.isActive
  BY <1>1, <1>3 DEF Tenant, PlanStatus, StatusAfter
<1>5. /\ orders' \subseteq Order /\ OrdersAreNumbered'
      /\ OneOrderPerLane => OneOrderPerLane'
  BY <1>1, <1>2, OrderStageStep
<1>6. TenantIsTyped'
  BY <1>1, <1>4, <1>5 DEF TenantInv, TenantIsTyped
<1>7. NotesAreOrdered'
  <2>1. Unwritten' \subseteq Unwritten
    BY <1>1, <1>2 DEF Unwritten
  <2> QED  BY <1>1, <1>4, <2>1, NotesKept
<1>8. ASSUME ~elsewhere'
      PROVE  OneOrderPerLane' /\ OrdersStand' /\ NewsOnItsWay' /\ LimitsOnTheirWay'
  <2>1. OneOrderPerLane /\ OrdersStand /\ LimitsOnTheirWay
    BY <1>1, <1>8 DEF TenantInv
  <2>2. OrdersStand'
    <3>1. /\ o.saw.status = tenantRow.status /\ o.saw.isActive = tenantRow.isActive
          /\ tenantRow.status # "Trial" => (tenantRow.status = "Suspended" <=> ~tenantRow.isActive)
          /\ tenantRow.status \in PlanStatus /\ tenantRow.isActive \in BOOLEAN
      BY <1>1, <1>3, <2>1 DEF OrdersStand, Tenant
    <3>2. tenantRow'.status # "Trial" => (tenantRow'.status = "Suspended" <=> ~tenantRow'.isActive)
      BY <1>3, <1>4, <3>1 DEF StatusAfter, PlanStatus
    <3>3. \A p \in orders' : p.at # "read"
      BY <1>1, <1>2, <1>3, <2>1 DEF OneOrderPerLane, TenantInv, OrdersAreNumbered, Lane
    <3>4. \A p \in orders' : p.at = "saved" /\ Lane(p) = "limits" => p.limits = tenantRow.limits
      BY <1>1, <1>2, <1>3, <2>1 DEF OrdersStand, Lane
    <3> QED  BY <1>4, <3>2, <3>3, <3>4 DEF OrdersStand
  <2>3. NewsOnItsWay'
    BY <1>1, <1>2 DEF NewsOnItsWay
  <2>4. LimitsOnTheirWay'
    BY <1>1, <1>2, <1>4, <2>1 DEF LimitsOnTheirWay
  <2> QED  BY <1>5, <2>1, <2>2, <2>3, <2>4
<1> QED  BY <1>6, <1>5, <1>7, <1>8 DEF TenantInv

(* The other orders write what they were given.                            *)
LEMMA SaveOrderStep ==
    ASSUME TenantInv, NEW o \in orders, SaveOrder(o)
    PROVE  TenantInv'
<1> DEFINE d == [o EXCEPT !.at = "saved"]
           row == CASE o.kind = "plan" -> [tenantRow EXCEPT !.plan = "pro"]
                    [] o.kind = "note" -> [tenantRow EXCEPT !.notes = @ + 1]
                    [] OTHER -> [tenantRow EXCEPT !.limits = o.limits]
<1>1. /\ orders' = (orders \ {o}) \cup {d} /\ o.at = "sent" /\ o.kind # "suspend"
      /\ tenantRow' = row
      /\ UNCHANGED <<tenantShown, tenantFetch, limitsForm, limitsTouched, suspendDialog,
                     elsewhere, ordersSent>>
  BY DEF SaveOrder, Stands, tenantPage
<1>2. /\ d \in Order /\ d.id = o.id /\ d.kind = o.kind /\ d.ours = o.ours /\ d.at = "saved"
      /\ d.limits = o.limits /\ Lane(d) = Lane(o)
  BY OrderFields
<1>3. /\ tenantRow \in Tenant /\ o.limits \in LimitSets \cup {NoLimits}
      /\ o.kind \in {"plan", "limits", "reset", "note"}
  BY <1>1, OrderFields DEF TenantInv, TenantIsTyped
<1>4. /\ \A n \in 0 .. MaxOrders : [tenantRow EXCEPT !.notes = n] \in Tenant
      /\ [tenantRow EXCEPT !.plan = "pro"] \in Tenant
      /\ [tenantRow EXCEPT !.limits = o.limits] \in Tenant
  BY <1>3 DEF Tenant
<1> DEFINE n == tenantRow.notes
           k == ordersSent
           S == Unwritten
<1>5. n \in Nat /\ k \in Nat /\ S \in SUBSET (1 .. k) /\ n + Cardinality(S) <= k
  BY UnwrittenOrders
<1>6. k \in 0 .. MaxOrders
  BY DEF TenantInv, TenantIsTyped
<1>7. o.kind = "note" => o.id \in S
  BY <1>1 DEF Unwritten
<1>8. o.kind = "note" => n + 1 \in 0 .. MaxOrders
  <2> HIDE DEF n, k, S
  <2>1. ASSUME o.kind = "note" PROVE n + 1 <= k
    BY <1>5, <1>7, <2>1, CountKept
  <2> QED  BY <1>5, <1>6, <2>1, TenantAssumption
<1>9. /\ tenantRow' \in Tenant /\ tenantRow'.status = tenantRow.status
      /\ tenantRow'.isActive = tenantRow.isActive
      /\ tenantRow'.notes = IF o.kind = "note" THEN n + 1 ELSE n
      /\ tenantRow'.limits = IF Lane(o) = "limits" THEN o.limits ELSE tenantRow.limits
  <2> HIDE DEF d
  <2>1. CASE o.kind = "plan"
    BY <1>1, <1>3, <1>4, <2>1 DEF Tenant, Lane
  <2>2. CASE o.kind = "note"
    <3>1. tenantRow' = [tenantRow EXCEPT !.notes = n + 1]
      BY <1>1, <2>2
    <3>2. tenantRow' \in Tenant
      BY <1>4, <1>8, <2>2, <3>1
    <3> QED  BY <1>3, <2>2, <3>1, <3>2 DEF Tenant, Lane
  <2>3. CASE o.kind \in {"limits", "reset"}
    BY <1>1, <1>3, <1>4, <2>3 DEF Tenant, Lane
  <2> QED  BY <1>3, <2>1, <2>2, <2>3
<1> HIDE DEF d, row
<1>10. /\ orders' \subseteq Order /\ OrdersAreNumbered'
       /\ OneOrderPerLane => OneOrderPerLane'
  BY <1>1, <1>2, OrderStageStep
<1>11. TenantIsTyped'
  BY <1>1, <1>9, <1>10 DEF TenantInv, TenantIsTyped
<1>12. NotesAreOrdered'
  <2>1. CASE o.kind # "note"
    <3>1. Unwritten' \subseteq Unwritten
      BY <1>1, <1>2 DEF Unwritten
    <3> QED  BY <1>1, <1>9, <2>1, <3>1, NotesKept
  <2>2. CASE o.kind = "note"
    <3> DEFINE T == Unwritten'
    <3>1. T \in SUBSET (S \ {o.id}) /\ ordersSent' = k /\ tenantRow'.notes = n + 1
      BY <1>1, <1>2, <1>9, <2>2 DEF Unwritten, TenantInv, OrdersAreNumbered
    <3>2. n + 1 + Cardinality(T) <= k
      <4> HIDE DEF n, k, S, T
      <4>1. \A x \in S : \A U \in SUBSET (S \ {x}) : (n + 1) + Cardinality(U) <= k
        BY <1>5, CountKept
      <4> QED  BY <1>7, <2>2, <3>1, <4>1
    <3> HIDE DEF n, k
    <3> QED  BY <3>1, <3>2 DEF NotesAreOrdered
  <2> QED  BY <2>1, <2>2
<1>13. ASSUME ~elsewhere'
       PROVE  OneOrderPerLane' /\ OrdersStand' /\ NewsOnItsWay' /\ LimitsOnTheirWay'
  <2>1. OneOrderPerLane /\ OrdersStand /\ LimitsOnTheirWay
    BY <1>1, <1>13 DEF TenantInv
  <2>2. OrdersStand'
    <3>1. \A p \in orders' : p.at = "saved" /\ Lane(p) = "limits" => p.limits = tenantRow'.limits
      BY <1>1, <1>2, <1>9, <2>1 DEF OneOrderPerLane, OrdersStand, Lane
    <3>2. \A p \in orders' : p.at = "read" => /\ p.saw.status = tenantRow'.status
                                              /\ p.saw.isActive = tenantRow'.isActive
      BY <1>1, <1>2, <1>9, <2>1 DEF OrdersStand
    <3> QED  BY <1>9, <2>1, <3>1, <3>2 DEF OrdersStand, Lane
  <2>3. NewsOnItsWay'
    BY <1>1, <1>2 DEF NewsOnItsWay
  <2>4. LimitsOnTheirWay'
    BY <1>1, <1>2, <1>9, <2>1 DEF LimitsOnTheirWay, Lane
  <2> QED  BY <1>10, <2>1, <2>2, <2>3, <2>4
<1> QED  BY <1>11, <1>10, <1>12, <1>13 DEF TenantInv

(* The answers.  That of an order that was saved asks for the detail, and  *)
(* compares the limits in the fields with those it has saved.              *)
LEMMA OrderAnswerStep ==
    ASSUME TenantInv, NEW o \in orders, OrderSaved(o) \/ OrderRefused(o) \/ OrderLost(o)
    PROVE  TenantInv'
<1>1. orders' = orders \ {o} /\ UNCHANGED <<tenantRow, tenantShown, ordersSent>>
  BY DEF OrderSaved, OrderRefused, OrderLost
<1>2. OrdersAreNumbered' /\ NotesAreOrdered' /\ (OneOrderPerLane => OneOrderPerLane')
      /\ (OrdersStand => OrdersStand')
  <2>1. OrdersAreNumbered'
    BY <1>1 DEF TenantInv, OrdersAreNumbered
  <2>2. Unwritten' \subseteq Unwritten
    BY <1>1 DEF Unwritten
  <2>3. OneOrderPerLane => OneOrderPerLane'
    BY <1>1 DEF OneOrderPerLane, Lane
  <2>4. OrdersStand => OrdersStand'
    BY <1>1 DEF OrdersStand, Lane
  <2> QED  BY <1>1, <2>1, <2>2, <2>3, <2>4, NotesKept
<1>3. CASE OrderSaved(o)
  <2>1. /\ o.at = "saved" /\ tenantFetch' = [at |-> "sent"] /\ tenantFetch'.at = "sent"
        /\ suspendDialog' \in BOOLEAN /\ elsewhere' = elsewhere
        /\ limitsForm' = IF o.ours /\ o.kind = "reset" THEN NoLimits ELSE limitsForm
        /\ limitsTouched' = IF o.ours /\ o.kind \in {"limits", "reset"}
                            THEN limitsForm' # o.limits ELSE limitsTouched
    BY <1>3 DEF OrderSaved
  <2>2. limitsForm' \in LimitSets \cup {NoLimits} /\ limitsTouched' \in BOOLEAN
    BY <2>1 DEF TenantInv, TenantIsTyped
  <2>3. TenantIsTyped'
    BY <1>1, <2>1, <2>2 DEF TenantInv, TenantIsTyped
  <2>4. NewsOnItsWay'
    BY <2>1 DEF NewsOnItsWay
  <2>5. ASSUME ~elsewhere PROVE LimitsOnTheirWay'
    <3>1. /\ o.ours /\ LimitsOnTheirWay
          /\ Lane(o) = "limits" => o.limits = tenantRow.limits
      BY <2>1, <2>5 DEF TenantInv, OneOrderPerLane, OrdersStand
    <3>2. CASE Lane(o) = "limits"
      <4>1. o.kind \in {"limits", "reset"}
        BY <3>2 DEF Lane
      <4> QED  BY <1>1, <2>1, <3>1, <3>2, <4>1 DEF LimitsOnTheirWay
    <3>3. CASE Lane(o) # "limits"
      <4>1. limitsForm' = limitsForm /\ limitsTouched' = limitsTouched
        BY <2>1, <3>3 DEF Lane
      <4> QED  BY <1>1, <2>1, <3>1, <3>3, <4>1 DEF LimitsOnTheirWay, Lane
    <3> QED  BY <3>2, <3>3
  <2> QED  BY <1>2, <2>1, <2>3, <2>4, <2>5 DEF TenantInv
<1>4. CASE OrderRefused(o)
  <2>1. /\ o.at = "refused"
        /\ UNCHANGED <<tenantFetch, limitsForm, limitsTouched, suspendDialog, elsewhere>>
    BY <1>4 DEF OrderRefused, tenantPage
  <2> QED  BY <1>1, <1>2, <2>1 DEF TenantInv, TenantIsTyped, NewsOnItsWay, LimitsOnTheirWay, Lane
<1>5. CASE OrderLost(o)
  BY <1>1, <1>2, <1>5 DEF OrderLost, tenantPage, TenantInv, TenantIsTyped
<1> QED  BY <1>3, <1>4, <1>5

(* The dialog and the fields.                                              *)
LEMMA LimitsFieldStep ==
    ASSUME TenantInv,
           OpenSuspend \/ \E limits \in LimitSets \cup {NoLimits} : TypeLimits(limits)
    PROVE  TenantInv'
<1>1. /\ UNCHANGED <<tenantRow, tenantShown, tenantFetch, orders, ordersSent, elsewhere>>
      /\ suspendDialog' \in BOOLEAN /\ limitsForm' \in LimitSets \cup {NoLimits}
      /\ limitsTouched' \in BOOLEAN
      /\ limitsTouched' \/ (limitsTouched' = limitsTouched /\ limitsForm' = limitsForm)
  BY DEF OpenSuspend, TypeLimits, ordering, TenantInv, TenantIsTyped
<1>2. Unwritten' \subseteq Unwritten
  BY <1>1 DEF Unwritten
<1>3. NotesAreOrdered'
  BY <1>1, <1>2, NotesKept
<1>4. OneOrderPerLane /\ OrdersStand => OneOrderPerLane' /\ OrdersStand'
  BY <1>1 DEF OneOrderPerLane, OrdersStand, Lane
<1> QED  BY <1>1, <1>3, <1>4
         DEF TenantInv, TenantIsTyped, OrdersAreNumbered, NewsOnItsWay, LimitsOnTheirWay, Lane

(* Leaving the page when it has settled finds the row in the cache.        *)
LEMMA LeaveTenantStep == ASSUME TenantInv, LeaveTenant PROVE TenantInv'
<1>1. /\ orders' = {[o EXCEPT !.ours = FALSE] : o \in orders}
      /\ limitsForm' = FilledLimits(NoLimits, tenantShown)
      /\ limitsTouched' = FALSE /\ suspendDialog' = FALSE
      /\ elsewhere' = (elsewhere \/ ~TenantSettled)
      /\ UNCHANGED <<tenantRow, tenantShown, tenantFetch, ordersSent>>
  BY DEF LeaveTenant
<1>2. \A o \in orders : LET d == [o EXCEPT !.ours = FALSE]
                        IN  /\ d \in Order /\ d.id = o.id /\ d.kind = o.kind /\ d.at = o.at
                            /\ d.saw = o.saw
  BY DEF TenantInv, TenantIsTyped, Order
<1>3. limitsForm' = tenantShown.limits /\ limitsForm' \in LimitSets \cup {NoLimits}
  BY <1>1 DEF FilledLimits, TenantInv, TenantIsTyped, Tenant
<1>4. TenantIsTyped'
  <2>1. orders' \subseteq Order /\ elsewhere' \in BOOLEAN
    BY <1>1, <1>2
  <2> QED  BY <1>1, <1>3, <2>1 DEF TenantInv, TenantIsTyped
<1>5. \A x \in orders' : \E o \in orders :
          /\ x = [o EXCEPT !.ours = FALSE]
          /\ x.id = o.id /\ x.kind = o.kind /\ x.at = o.at /\ x.saw = o.saw
  <2> TAKE x \in orders'
  <2>1. PICK o \in orders : x = [o EXCEPT !.ours = FALSE]
    BY <1>1
  <2> QED  BY <1>2, <2>1
<1>6. OrdersAreNumbered' /\ NotesAreOrdered'
  <2>1. \A x \in orders' : /\ x.id \in 1 .. ordersSent
                           /\ x.at = "read" => x.kind = "suspend" /\ x.saw \in Tenant
    BY <1>5 DEF TenantInv, OrdersAreNumbered
  <2>2. ASSUME NEW x \in orders', NEW y \in orders', x.id = y.id PROVE x = y
    <3>1. PICK o \in orders : x = [o EXCEPT !.ours = FALSE] /\ x.id = o.id
      BY <1>5
    <3>2. PICK p \in orders : y = [p EXCEPT !.ours = FALSE] /\ y.id = p.id
      BY <1>5
    <3>3. o = p
      BY <2>2, <3>1, <3>2 DEF TenantInv, OrdersAreNumbered
    <3> QED  BY <3>1, <3>2, <3>3
  <2>3. Unwritten' \subseteq Unwritten
    BY <1>5 DEF Unwritten
  <2> QED  BY <1>1, <2>1, <2>2, <2>3, NotesKept DEF OrdersAreNumbered
<1>7. ASSUME ~elsewhere'
      PROVE  OneOrderPerLane' /\ OrdersStand' /\ NewsOnItsWay' /\ LimitsOnTheirWay'
  <2>1. ~elsewhere /\ orders = {} /\ orders' = {} /\ tenantFetch.at = "idle"
    BY <1>1, <1>7 DEF TenantSettled, TenantInv, TenantIsTyped
  <2>2. OrdersStand /\ NewsOnItsWay
    BY <2>1 DEF TenantInv
  <2> QED  BY <1>1, <1>3, <2>1, <2>2
           DEF OneOrderPerLane, OrdersStand, NewsOnItsWay, LimitsOnTheirWay
<1> QED  BY <1>4, <1>6, <1>7 DEF TenantInv

(* The detail's own query.                                                 *)
LEMMA TenantDetailStep ==
    ASSUME TenantInv, AskTenant \/ ReadTenant \/ TenantArrives \/ TenantFails
    PROVE  TenantInv'
<1>1. UNCHANGED <<tenantRow, orders, ordersSent, suspendDialog>>
  BY DEF AskTenant, ReadTenant, TenantArrives, TenantFails, tenantPage, ordering
<1>2. /\ OrdersAreNumbered' /\ NotesAreOrdered' /\ (OneOrderPerLane => OneOrderPerLane')
      /\ OrdersStand => OrdersStand'
  <2>1. OrdersAreNumbered'
    BY <1>1 DEF TenantInv, OrdersAreNumbered
  <2>2. Unwritten' \subseteq Unwritten
    BY <1>1 DEF Unwritten
  <2>3. OneOrderPerLane => OneOrderPerLane'
    BY <1>1 DEF OneOrderPerLane, Lane
  <2>4. OrdersStand => OrdersStand'
    BY <1>1 DEF OrdersStand, Lane
  <2> QED  BY <1>1, <2>1, <2>2, <2>3, <2>4, NotesKept
<1>3. CASE AskTenant
  BY <1>1, <1>2, <1>3 DEF AskTenant, tenantPage, TenantInv, TenantIsTyped, NewsOnItsWay,
                          LimitsOnTheirWay, Lane
<1>4. CASE ReadTenant
  BY <1>1, <1>2, <1>4 DEF ReadTenant, tenantPage, TenantInv, TenantIsTyped, NewsOnItsWay,
                          LimitsOnTheirWay, Lane
<1>5. CASE TenantArrives
  <2>1. /\ tenantFetch.at = "read" /\ tenantShown' = tenantFetch.row
        /\ tenantFetch' = [at |-> "idle"] /\ UNCHANGED elsewhere
        /\ \/ UNCHANGED <<limitsForm, limitsTouched>>
           \/ /\ limitsForm' = FilledLimits(limitsForm, tenantShown')
              /\ limitsTouched' = (limitsTouched /\ tenantShown'.limits = NoLimits)
    BY <1>5 DEF TenantArrives
  <2>2. tenantFetch.row \in Tenant /\ tenantFetch.row.limits \in LimitSets \cup {NoLimits}
    BY <2>1 DEF TenantInv, TenantIsTyped, Tenant
  <2>3. TenantIsTyped'
    <3>1. limitsForm' \in LimitSets \cup {NoLimits} /\ limitsTouched' \in BOOLEAN
      BY <2>1, <2>2 DEF FilledLimits, TenantInv, TenantIsTyped
    <3> QED  BY <1>1, <2>1, <2>2, <3>1 DEF TenantInv, TenantIsTyped
  <2>4. NewsOnItsWay => NewsOnItsWay'
    BY <1>1, <2>1 DEF NewsOnItsWay
  <2>5. LimitsOnTheirWay => LimitsOnTheirWay'
    BY <1>1, <2>1 DEF LimitsOnTheirWay, FilledLimits, Lane
  <2> QED  BY <1>2, <2>1, <2>3, <2>4, <2>5 DEF TenantInv
<1>6. CASE TenantFails
  BY <1>1, <1>2, <1>6 DEF TenantFails, tenantPage, TenantInv, TenantIsTyped
<1> QED  BY <1>3, <1>4, <1>5, <1>6

LEMMA TenantStep == TenantInv /\ [TenantNext]_tenantVars => TenantInv'
<1> SUFFICES ASSUME TenantInv, [TenantNext]_tenantVars PROVE TenantInv'
  OBVIOUS
<1>1. CASE UNCHANGED tenantVars
  <2>1. UNCHANGED <<tenantRow, tenantShown, tenantFetch, orders, ordersSent, elsewhere,
                    limitsForm, limitsTouched, suspendDialog>>
    BY <1>1 DEF tenantVars, tenantPage, ordering
  <2>2. Unwritten' = Unwritten
    BY <2>1 DEF Unwritten
  <2>3. TenantIsTyped' /\ OrdersAreNumbered' /\ NotesAreOrdered'
    BY <2>1, <2>2 DEF TenantInv, TenantIsTyped, OrdersAreNumbered, NotesAreOrdered
  <2> QED  BY <2>1, <2>3 DEF TenantInv, OneOrderPerLane, OrdersStand, NewsOnItsWay,
                             LimitsOnTheirWay, Lane
<1>2. CASE LeaveTenant
  BY <1>2, LeaveTenantStep
<1> QED  BY <1>1, <1>2, TenantButtonStep, WaitingOrderStep, ReadSuspensionStep, SuspensionStep,
    SaveOrderStep,
            OrderAnswerStep, LimitsFieldStep, TenantDetailStep DEF TenantNext

(* The inductive invariant of the tenant's page.                           *)
THEOREM TenantInvariant == TenantSpec => []TenantInv
BY TenantInitInv, TenantStep, PTL DEF TenantSpec

(* The tenant's page is type correct.                                      *)
THEOREM TenantTypeCorrect == TenantSpec => []TenantTypeOK
<1>1. TenantInv => TenantTypeOK
  BY DEF TenantInv, TenantIsTyped, TenantTypeOK
<1> QED  BY <1>1, TenantInvariant, PTL

(* Once nothing is under way, a page that is drawn tells whether the       *)
(* tenant is locked out, and the limits in force.                          *)
THEOREM TenantPageTells == TenantSpec => []PageTellsWhatHolds
<1>1. TenantInv => PageTellsWhatHolds
  BY DEF TenantInv, NewsOnItsWay, LimitsOnTheirWay, OrdersStand, PageTellsWhatHolds,
         TenantSettled, Drawn, isSuspended
<1> QED  BY <1>1, TenantInvariant, PTL

-----------------------------------------------------------------------------
(* A search or the dialog's text, which may be blank.                      *)
Written == Codes \cup {""}

Answers == [rows : SUBSET DOMAIN coupons, live : SUBSET DOMAIN coupons, total : 0 .. MaxCoupons]

CouponsAreTyped ==
    /\ coupons \in Seq(Coupon) /\ Len(coupons) <= MaxCoupons
    /\ view \in [search : Written, filter : {"all", "true", "false"},
                 page : 1 .. MaxCoupons]
    /\ couponsShown \in {NoAnswer} \cup Answers
    /\ couponFetch \in {Unasked, AskNow} \cup [at : {"read"}, answer : Answers]
    /\ couponDialog \in [open : BOOLEAN, code : Written]
    /\ creation \in [at : {"idle", "sent", "checked", "saved", "refused"}, code : Written]
    /\ creation.at # "idle" => creation.code \in Codes
    /\ deactivation \in 0 .. Len(coupons)

(* No deactivation takes a coupon from the list: then it only grows.       *)
Steady == view.filter = "true" => \A c \in DOMAIN coupons : coupons[c].active

(* The page begins within the list, or it is the first.                    *)
PageIsThere ==
    view.page = 1 \/ (view.page - 1) * CouponPageSize < Cardinality(Matching(view))

AnswerStands(a) ==
    /\ a.total <= Cardinality(Matching(view))
    /\ a.total > 0 => a.rows # {}

ListOnlyGrows ==
    Steady => /\ PageIsThere
              /\ couponsShown # NoAnswer => AnswerStands(couponsShown)
              /\ couponFetch.at = "read" => AnswerStands(couponFetch.answer)

CouponsInv == CouponsAreTyped /\ ListOnlyGrows
-----------------------------------------------------------------------------
LEMMA BlankIsWritten == "" \in Written /\ Codes \subseteq Written
BY Zenon DEF Written

LEMMA PagesHoldSome == CouponPageSize \in Nat /\ CouponPageSize > 0
<1>1. CouponPageSize \in Nat /\ CouponPageSize # 0
  BY Zenon, CouponAssumption
<1> QED  BY <1>1

LEMMA TwoCouponsFit == MaxCoupons \in Nat /\ MaxCoupons >= 2 /\ 1 \in 1 .. MaxCoupons
<1>1. MaxCoupons \in Nat /\ MaxCoupons # 0 /\ MaxCoupons # 1
  BY Zenon, CouponAssumption
<1> QED  BY <1>1

LEMMA OneOrTwo ==
    ASSUME NEW S, NEW x \in S, NEW y \in S, NEW s, s = <<x>> \/ s = <<x, y>>
    PROVE  s \in Seq(S) /\ Len(s) \in Nat /\ Len(s) >= 0 /\ Len(s) <= 2
<1>1. <<x>> \in Seq(S) /\ Len(<<x>>) = 1
  OBVIOUS
<1>2. <<x, y>> \in Seq(S) /\ Len(<<x, y>>) = 2
  OBVIOUS
<1>3. s \in Seq(S) /\ Len(s) \in {1, 2}
  BY Zenon, <1>1, <1>2
<1>4. \A n \in {1, 2} : n \in Nat /\ n >= 0 /\ n <= 2
  OBVIOUS
<1> QED  BY Zenon, <1>3, <1>4

LEMMA PagesReach ==
    ASSUME NEW p \in Nat, NEW total \in Nat, p <= TotalPages(total)
    PROVE  (p - 1) * CouponPageSize < total
<1> DEFINE P == CouponPageSize
           q == TotalPages(total)
<1>1. P \in Nat /\ P > 0
  BY PagesHoldSome
<1>2. q \in Int /\ q * P <= total + P - 1
  BY <1>1 DEF TotalPages
<1>3. p * P <= q * P
  <2> HIDE DEF P, q
  <2>1. \A a, b, c \in Int : a <= b /\ c > 0 => a * c <= b * c
    OBVIOUS
  <2> QED  BY <1>1, <1>2, <2>1 DEF q
<1>4. (p - 1) * P = p * P - P
  BY <1>1
<1>5. p * P \in Int /\ q * P \in Int
  BY <1>1, <1>2
<1> HIDE DEF P, q
<1> QED  BY <1>1, <1>2, <1>3, <1>4, <1>5 DEF P

LEMMA MatchingIsFinite ==
    ASSUME coupons \in Seq(Coupon), NEW v
    PROVE  /\ Matching(v) \subseteq DOMAIN coupons /\ Matching(v) \subseteq Nat
           /\ IsFiniteSet(Matching(v)) /\ Cardinality(Matching(v)) \in Nat
           /\ Cardinality(Matching(v)) <= Len(coupons)
<1>1. Len(coupons) \in Nat /\ DOMAIN coupons = 1 .. Len(coupons)
  OBVIOUS
<1>2. Matching(v) \in SUBSET (1 .. Len(coupons))
  BY <1>1 DEF Matching
<1>3. IsFiniteSet(1 .. Len(coupons)) /\ Cardinality(1 .. Len(coupons)) = Len(coupons)
  BY <1>1, FS_Interval
<1>4. IsFiniteSet(Matching(v)) /\ Cardinality(Matching(v)) <= Cardinality(1 .. Len(coupons))
  BY <1>2, <1>3, FS_Subset
<1>5. Cardinality(Matching(v)) \in Nat
  BY <1>4, FS_CardinalityType
<1> QED  BY <1>1, <1>2, <1>3, <1>4, <1>5

(* The newest has no newer one, the next has one, and so on to the oldest. *)
LEMMA EveryPlaceIsTaken ==
    ASSUME NEW M \in SUBSET Nat, IsFiniteSet(M), NEW k \in Nat, k < Cardinality(M)
    PROVE  \E c \in M : Newer(c, M) = k
<1> DEFINE n == Cardinality(M)
           f == [c \in M |-> Newer(c, M)]
<1>1. n \in Nat
  BY FS_CardinalityType
<1>2. \A c \in M : /\ IsFiniteSet({d \in M : d > c}) /\ Newer(c, M) \in 0 .. n - 1
  <2> SUFFICES ASSUME NEW c \in M
               PROVE  IsFiniteSet({d \in M : d > c}) /\ Newer(c, M) \in 0 .. n - 1
    OBVIOUS
  <2>1. IsFiniteSet(M \ {c}) /\ Cardinality(M \ {c}) = n - 1
    BY FS_RemoveElement
  <2>2. {d \in M : d > c} \in SUBSET (M \ {c})
    OBVIOUS
  <2>3. /\ IsFiniteSet({d \in M : d > c})
        /\ Cardinality({d \in M : d > c}) <= Cardinality(M \ {c})
    BY <2>1, <2>2, FS_Subset
  <2>4. Cardinality({d \in M : d > c}) \in Nat
    BY <2>3, FS_CardinalityType
  <2> QED  BY <1>1, <2>1, <2>3, <2>4 DEF Newer
<1>3. ASSUME NEW a \in M, NEW b \in M, a < b PROVE Newer(b, M) # Newer(a, M)
  <2>0. \A d \in M : d > b => d > a
    <3>1. \A d \in M : d \in Nat /\ a \in Nat /\ b \in Nat
      OBVIOUS
    <3> QED  BY <1>3, <3>1
  <2>1. {d \in M : d > b} \in SUBSET {d \in M : d > a}
    BY <2>0
  <2>2. b \in {d \in M : d > a} /\ b \notin {d \in M : d > b}
    BY <1>3
  <2>3. Cardinality({d \in M : d > a}) = Cardinality({d \in M : d > b}) =>
            {d \in M : d > a} = {d \in M : d > b}
    BY <1>2, <2>1, FS_Subset
  <2> QED  BY <2>2, <2>3 DEF Newer
<1>4. f \in [M -> 0 .. n - 1]
  BY <1>2
<1>5. \A a, b \in M : f[a] = f[b] => a = b
  <2>1. \A a, b \in M : a < b \/ b < a \/ a = b
    OBVIOUS
  <2> QED  BY <1>3, <2>1
<1>6. f \in Injection(M, 0 .. n - 1)
  BY <1>4, <1>5 DEF Injection, IsInjective
<1>7. IsFiniteSet(0 .. n - 1) /\ Cardinality(0 .. n - 1) = n
  <2>1. n - 1 \in Int /\ 0 \in Int
    BY <1>1
  <2>2. IsFiniteSet(0 .. n - 1)
        /\ Cardinality(0 .. n - 1) = IF 0 > n - 1 THEN 0 ELSE (n - 1) - 0 + 1
    BY <2>1, FS_Interval
  <2> QED  BY <1>1, <2>2
<1>8. f \in Surjection(M, 0 .. n - 1)
  <2> HIDE DEF f, n
  <2>1. Cardinality(M) = Cardinality(0 .. n - 1) <=> f \in Surjection(M, 0 .. n - 1)
    BY <1>6, <1>7, FS_Injection
  <2> QED  BY <1>7, <2>1 DEF n
<1>9. k \in 0 .. n - 1
  BY <1>1
<1>10. \E c \in M : f[c] = k
  <2> HIDE DEF f, n
  <2> QED  BY <1>8, <1>9 DEF Surjection
<1> QED  BY <1>10

(* A page that begins within the list is not empty.                        *)
LEMMA PageIsNotEmpty ==
    ASSUME coupons \in Seq(Coupon), view.page \in Nat \ {0}, PageIsThere,
           Cardinality(Matching(view)) > 0
    PROVE  PageOf(view) # {}
<1> DEFINE M == Matching(view)
           k == (view.page - 1) * CouponPageSize
<1>1. M \subseteq Nat /\ IsFiniteSet(M) /\ Cardinality(M) \in Nat
  BY MatchingIsFinite
<1>2. CouponPageSize \in Nat /\ CouponPageSize > 0
  BY PagesHoldSome
<1>3. k \in Nat /\ k < Cardinality(M)
  <2>1. CASE view.page = 1
    <3>1. k = 0
      BY <1>2, <2>1
    <3> QED  BY <3>1
  <2>2. CASE k < Cardinality(M)
    <3>1. k \in Nat
      BY <1>2
    <3> QED  BY <2>2, <3>1
  <2> QED  BY <2>1, <2>2 DEF PageIsThere
<1>4. \E c \in M : Newer(c, M) = k
  <2> HIDE DEF M, k
  <2> QED  BY <1>1, <1>3, EveryPlaceIsTaken
<1>5. k \div CouponPageSize = view.page - 1
  <2>1. \A m \in Nat, P \in Nat \ {0} : (m * P) \div P = m
    OBVIOUS
  <2>2. view.page - 1 \in Nat
    OBVIOUS
  <2> QED  BY <1>2, <2>1, <2>2
<1> QED  BY <1>4, <1>5 DEF PageOf
-----------------------------------------------------------------------------
LEMMA CouponTypes ==
    ASSUME CouponsAreTyped
    PROVE  /\ Len(coupons) \in Nat /\ DOMAIN coupons = 1 .. Len(coupons) /\ MaxCoupons \in Nat
           /\ \A c \in DOMAIN coupons : coupons[c] \in Coupon
<1>1. coupons \in Seq(Coupon)
  BY DEF CouponsAreTyped
<1>2. MaxCoupons \in Nat
  BY Zenon, CouponAssumption
<1> QED  BY <1>1, <1>2

LEMMA CouponsInitInv == CouponsInit => CouponsInv
<1> SUFFICES ASSUME CouponsInit PROVE CouponsInv
  OBVIOUS
<1>2. PICK a, b \in Codes :
          coupons = IF a = b THEN <<[code |-> a, active |-> TRUE]>>
                    ELSE <<[code |-> a, active |-> TRUE], [code |-> b, active |-> TRUE]>>
  BY DEF CouponsInit
<1>3. coupons \in Seq(Coupon) /\ Len(coupons) \in Nat /\ Len(coupons) >= 0 /\ Len(coupons) <= 2
  <2> DEFINE first == [code |-> a, active |-> TRUE]
             second == [code |-> b, active |-> TRUE]
  <2>1. first \in Coupon /\ second \in Coupon
    BY DEF Coupon
  <2>2. coupons = <<first>> \/ coupons = <<first, second>>
    BY <1>2
  <2> HIDE DEF first, second
  <2> QED  BY <2>1, <2>2, OneOrTwo
<1>4. Len(coupons) <= MaxCoupons /\ 0 \in 0 .. Len(coupons) /\ 1 \in 1 .. MaxCoupons
  <2> DEFINE n == Len(coupons)
  <2>1. n \in Nat /\ n >= 0 /\ n <= 2
    BY <1>3
  <2> HIDE DEF n
  <2>2. n <= MaxCoupons /\ 0 \in 0 .. n /\ 1 \in 1 .. MaxCoupons
    BY <2>1, TwoCouponsFit
  <2> QED  BY <2>2 DEF n
<1>5. view \in [search : Written, filter : {"all", "true", "false"},
                page : 1 .. MaxCoupons]
  BY <1>4, BlankIsWritten DEF CouponsInit
<1>6. CouponsAreTyped
  BY <1>3, <1>4, <1>5, BlankIsWritten DEF CouponsInit, CouponsAreTyped, NoDialog, NoCreation
<1>7. ListOnlyGrows
  BY DEF CouponsInit, ListOnlyGrows, PageIsThere, AskNow
<1> QED  BY <1>6, <1>7 DEF CouponsInv

(* While no deactivation takes a coupon from the list, it grows.           *)
LEMMA ListGrows ==
    ASSUME CouponsInv, CouponsAreTyped', UNCHANGED view, Steady',
           \A c \in DOMAIN coupons : /\ c \in DOMAIN coupons'
                                     /\ coupons'[c].code = coupons[c].code
                                     /\ coupons'[c].active => coupons[c].active
    PROVE  Steady /\ Cardinality(Matching(view)) <= Cardinality(Matching(view)')
<1>1. Steady
  BY DEF Steady
<1>2. Matching(view) \in SUBSET (Matching(view)')
  <2> SUFFICES ASSUME NEW c \in Matching(view) PROVE c \in Matching(view)'
    OBVIOUS
  <2>1. c \in DOMAIN coupons /\ c \in DOMAIN coupons'
    BY DEF Matching
  <2>2. view'.filter = "true" => coupons'[c].active
    BY <2>1 DEF Steady
  <2>3. view'.filter = "false" => ~coupons'[c].active
    BY <2>1 DEF Matching
  <2>4. view'.search \in {"", coupons'[c].code}
    BY <2>1 DEF Matching
  <2> QED  BY <2>1, <2>2, <2>3, <2>4 DEF Matching
<1>3. IsFiniteSet(Matching(view)')
  <2>1. coupons' \in Seq(Coupon)
    BY DEF CouponsAreTyped
  <2>2. Len(coupons') \in Nat /\ DOMAIN coupons' = 1 .. Len(coupons')
    BY <2>1
  <2>3. Matching(view)' \in SUBSET (1 .. Len(coupons'))
    BY <2>2 DEF Matching
  <2>4. IsFiniteSet(1 .. Len(coupons'))
    BY <2>2, FS_Interval
  <2> QED  BY <2>3, <2>4, FS_Subset
<1>4. Cardinality(Matching(view)) <= Cardinality(Matching(view)')
  BY <1>2, <1>3, FS_Subset
<1> QED  BY <1>1, <1>4

(* A step that does not read the list, and changes it as above.            *)
LEMMA OtherCouponSteps ==
    ASSUME CouponsInv, CouponsAreTyped', UNCHANGED view,
           \A c \in DOMAIN coupons : /\ c \in DOMAIN coupons'
                                     /\ coupons'[c].code = coupons[c].code
                                     /\ coupons'[c].active => coupons[c].active,
           \/ couponsShown' = couponsShown
           \/ couponFetch.at = "read" /\ couponsShown' = couponFetch.answer,
           couponFetch' = couponFetch \/ couponFetch' = AskNow \/ couponFetch' = Unasked
    PROVE  CouponsInv'
<1> DEFINE m == Cardinality(Matching(view))
           n == Cardinality(Matching(view)')
           P == CouponPageSize
<1>1. ASSUME Steady'
      PROVE  /\ PageIsThere'
             /\ couponsShown' # NoAnswer => AnswerStands(couponsShown)'
             /\ couponFetch'.at = "read" => AnswerStands(couponFetch.answer)'
  <2>1. Steady /\ m <= n
    BY <1>1, ListGrows
  <2>2. m \in Nat /\ n \in Nat
    <3>1. m \in Nat
      BY MatchingIsFinite DEF CouponsInv, CouponsAreTyped
    <3>2. n \in Nat
      <4>1. coupons' \in Seq(Coupon)
        BY DEF CouponsAreTyped
      <4>2. Len(coupons') \in Nat /\ DOMAIN coupons' = 1 .. Len(coupons')
        BY <4>1
      <4>3. Matching(view)' \in SUBSET (1 .. Len(coupons'))
        BY <4>2 DEF Matching
      <4>4. IsFiniteSet(1 .. Len(coupons'))
        BY <4>2, FS_Interval
      <4>5. IsFiniteSet(Matching(view)')
        BY <4>3, <4>4, FS_Subset
      <4> QED  BY <4>5, FS_CardinalityType
    <3> QED  BY <3>1, <3>2
  <2>3. PageIsThere'
    <3>1. view.page = 1 \/ (view.page - 1) * P < m
      BY <2>1 DEF CouponsInv, ListOnlyGrows, PageIsThere
    <3>2. view.page \in Nat /\ P \in Nat
      <4>1. view.page \in 1 .. MaxCoupons
        BY DEF CouponsInv, CouponsAreTyped
      <4>2. MaxCoupons \in Nat
        BY Zenon, CouponAssumption
      <4> QED  BY <4>1, <4>2, PagesHoldSome
    <3>3. view.page = 1 \/ (view.page - 1) * P < n
      <4> HIDE DEF m, n, P
      <4>1. (view.page - 1) * P \in Int
        BY <3>2
      <4> QED  BY <2>1, <2>2, <3>1, <4>1
    <3> QED  BY <3>3 DEF PageIsThere
  <2>4. ASSUME NEW a \in Answers, AnswerStands(a)
        PROVE  a.total <= n /\ (a.total > 0 => a.rows # {})
    <3>1. a.total <= m /\ (a.total > 0 => a.rows # {})
      BY <2>4 DEF AnswerStands
    <3>2. a.total \in Int
      BY CouponTypes DEF Answers, CouponsInv
    <3> HIDE DEF m, n
    <3> QED  BY <2>1, <2>2, <3>1, <3>2
  <2>5. /\ couponsShown # NoAnswer => couponsShown \in Answers /\ AnswerStands(couponsShown)
        /\ couponFetch.at = "read" =>
              couponFetch.answer \in Answers /\ AnswerStands(couponFetch.answer)
    <3>1. /\ couponsShown \in {NoAnswer} \cup Answers
          /\ couponFetch \in {Unasked, AskNow} \cup [at : {"read"}, answer : Answers]
      BY DEF CouponsInv, CouponsAreTyped
    <3>2. /\ couponsShown # NoAnswer => AnswerStands(couponsShown)
          /\ couponFetch.at = "read" => AnswerStands(couponFetch.answer)
      BY <2>1 DEF CouponsInv, ListOnlyGrows
    <3> HIDE DEF Answers
    <3>3. couponFetch.at = "read" => couponFetch.answer \in Answers
      BY <3>1 DEF Unasked, AskNow
    <3> QED  BY <3>1, <3>2, <3>3
  <2>6. couponsShown' # NoAnswer => AnswerStands(couponsShown)'
    BY <2>4, <2>5 DEF AnswerStands
  <2>7. couponFetch'.at = "read" => AnswerStands(couponFetch.answer)'
    <3>1. couponFetch'.at = "read" => couponFetch' = couponFetch
      BY DEF AskNow, Unasked
    <3> QED  BY <2>4, <2>5, <3>1 DEF AnswerStands
  <2> QED  BY <2>3, <2>6, <2>7
<1>2. ListOnlyGrows'
  BY <1>1 DEF ListOnlyGrows
<1> QED  BY <1>2 DEF CouponsInv
-----------------------------------------------------------------------------
LEMMA LookForStep ==
    ASSUME CouponsInv, NEW v \in [search : Written, filter : {"all", "true", "false"},
                                  page : 1 .. MaxCoupons],
           Look(v),
           Steady' => v.page = 1 \/ (v.page - 1) * CouponPageSize < Cardinality(Matching(v))
    PROVE  CouponsInv'
<1>1. /\ view' = v /\ couponsShown' = NoAnswer /\ couponFetch' = AskNow
      /\ UNCHANGED <<coupons, couponDialog, creation, deactivation>>
  BY DEF Look
<1>2. CouponsAreTyped'
  BY <1>1 DEF CouponsInv, CouponsAreTyped, Answers
<1>3. Matching(view)' = Matching(v)
  BY <1>1 DEF Matching
<1>4. PageIsThere' <=> (v.page = 1 \/ (v.page - 1) * CouponPageSize < Cardinality(Matching(v)))
  BY <1>1, <1>3 DEF PageIsThere
<1>5. ListOnlyGrows'
  BY <1>1, <1>4 DEF ListOnlyGrows, AskNow
<1> QED  BY <1>2, <1>5 DEF CouponsInv

LEMMA SearchCouponsStep ==
    ASSUME CouponsInv,
           \/ \E code \in Written : SearchFor(code)
           \/ \E f \in {"all", "true", "false"} : FilterBy(f)
    PROVE  CouponsInv'
<1> DEFINE Views == [search : Written, filter : {"all", "true", "false"},
                     page : 1 .. MaxCoupons]
<1>1. 1 \in 1 .. MaxCoupons
  BY TwoCouponsFit
<1>2. view \in Views
  BY DEF CouponsInv, CouponsAreTyped
<1>3. \E v \in Views : Look(v) /\ v.page = 1
  <2>1. ASSUME NEW code \in Written, SearchFor(code)
        PROVE  \E v \in Views : Look(v) /\ v.page = 1
    <3> DEFINE v == [view EXCEPT !.search = code, !.page = 1]
    <3>1. v \in Views /\ v.page = 1
      BY <1>1, <1>2
    <3>2. Look(v)
      BY <2>1 DEF SearchFor
    <3> HIDE DEF v
    <3> QED  BY <3>1, <3>2
  <2>2. ASSUME NEW f \in {"all", "true", "false"}, FilterBy(f)
        PROVE  \E v \in Views : Look(v) /\ v.page = 1
    <3> DEFINE v == [view EXCEPT !.filter = f, !.page = 1]
    <3>1. v \in Views /\ v.page = 1
      BY <1>1, <1>2
    <3>2. Look(v)
      BY <2>2 DEF FilterBy
    <3> HIDE DEF v
    <3> QED  BY <3>1, <3>2
  <2> QED  BY <2>1, <2>2
<1> QED  BY <1>3, LookForStep

(* The pager goes no further than the answer it counts, and the list has   *)
(* not shrunk since.                                                       *)
LEMMA TurnPageStep == ASSUME CouponsInv, NEW n \in 1 .. MaxCoupons, TurnPage(n) PROVE CouponsInv'
<1> DEFINE v == [view EXCEPT !.page = n]
           P == CouponPageSize
           m == Cardinality(Matching(view))
<1>1. /\ couponsShown # NoAnswer /\ n \in {view.page - 1, view.page + 1} /\ n >= 1
      /\ n > view.page => view.page < TotalPages(couponsShown.total)
      /\ Look(v)
  BY DEF TurnPage
<1>2. /\ v \in [search : Written, filter : {"all", "true", "false"},
                page : 1 .. MaxCoupons]
      /\ v.page = n /\ v.search = view.search /\ v.filter = view.filter
  BY DEF CouponsInv, CouponsAreTyped
<1>3. Matching(v) = Matching(view)
  BY <1>2 DEF Matching
<1>4. MaxCoupons \in Nat /\ n \in Nat /\ view.page \in Nat /\ view.page >= 1 /\ P \in Nat /\ P > 0
  <2>1. MaxCoupons \in Nat
    BY Zenon, CouponAssumption
  <2>2. view.page \in 1 .. MaxCoupons
    BY DEF CouponsInv, CouponsAreTyped
  <2> QED  BY <2>1, <2>2, PagesHoldSome
<1>5. m \in Nat
  BY MatchingIsFinite DEF CouponsInv, CouponsAreTyped
<1>6. ASSUME Steady PROVE n = 1 \/ (n - 1) * P < m
  <2>1. CASE n = view.page - 1
    <3>1. (view.page - 1) * P < m
      BY <1>1, <1>4, <1>6, <2>1 DEF CouponsInv, ListOnlyGrows, PageIsThere
    <3>2. (n - 1) * P = (view.page - 1) * P - P
      BY <1>4, <2>1
    <3>3. (view.page - 1) * P \in Int
      BY <1>4
    <3> HIDE DEF m, P
    <3> QED  BY <1>4, <1>5, <3>1, <3>2, <3>3
  <2>2. CASE n = view.page + 1
    <3>1. couponsShown.total \in Nat /\ couponsShown.total <= m
      <4>1. couponsShown \in Answers
        BY <1>1 DEF CouponsInv, CouponsAreTyped
      <4>2. couponsShown.total <= m
        BY <1>1, <1>6 DEF CouponsInv, ListOnlyGrows, AnswerStands
      <4>3. couponsShown.total \in 0 .. MaxCoupons
        BY <4>1 DEF Answers
      <4> QED  BY <1>4, <4>2, <4>3
    <3>2. TotalPages(couponsShown.total) \in Int
      BY <1>4, <3>1 DEF TotalPages
    <3>3. n <= TotalPages(couponsShown.total)
      BY <1>1, <1>4, <2>2, <3>2
    <3>4. (n - 1) * P < couponsShown.total
      BY <1>4, <3>1, <3>3, PagesReach
    <3>5. (n - 1) * P \in Int
      BY <1>4
    <3> HIDE DEF m, P
    <3> QED  BY <1>5, <3>1, <3>4, <3>5
  <2> QED  BY <1>1, <2>1, <2>2
<1>7. Steady' => Steady
  BY <1>1, <1>2 DEF Steady, Look
<1>8. Steady' => v.page = 1 \/ (v.page - 1) * CouponPageSize < Cardinality(Matching(v))
  BY <1>2, <1>3, <1>6, <1>7
<1> HIDE DEF v
<1> QED  BY <1>1, <1>2, <1>8, LookForStep

(* The count and the page are read together.                               *)
LEMMA ReadCouponsStep == ASSUME CouponsInv, ReadCoupons PROVE CouponsInv'
<1> DEFINE a == [rows |-> PageOf(view), total |-> Cardinality(Matching(view)),
                 live |-> {c \in PageOf(view) : coupons[c].active}]
<1>1. /\ couponFetch' = [at |-> "read", answer |-> a]
      /\ UNCHANGED <<coupons, view, couponsShown, couponDialog, creation, deactivation>>
  BY DEF ReadCoupons
<1>2. /\ Matching(view) \subseteq DOMAIN coupons /\ Cardinality(Matching(view)) \in Nat
      /\ Cardinality(Matching(view)) <= Len(coupons)
  BY MatchingIsFinite DEF CouponsInv, CouponsAreTyped
<1>3. Cardinality(Matching(view)) \in 0 .. MaxCoupons
  <2>1. Len(coupons) <= MaxCoupons /\ Len(coupons) \in Nat /\ MaxCoupons \in Nat
    BY CouponTypes DEF CouponsInv, CouponsAreTyped
  <2> DEFINE m == Cardinality(Matching(view))
  <2>2. m \in Nat /\ m <= Len(coupons)
    BY <1>2
  <2> HIDE DEF m
  <2>3. m \in 0 .. MaxCoupons
    BY <2>1, <2>2
  <2> QED  BY <2>3 DEF m
<1>4. PageOf(view) \subseteq DOMAIN coupons
  BY <1>2 DEF PageOf
<1>5. a \in Answers
  BY <1>3, <1>4 DEF Answers
<1>6. a.total = Cardinality(Matching(view)) /\ a.rows = PageOf(view)
  OBVIOUS
<1>7. Steady => AnswerStands(a)
  <2>1. view.page \in Nat \ {0}
    <3>1. view.page \in 1 .. MaxCoupons
      BY DEF CouponsInv, CouponsAreTyped
    <3> QED  BY <3>1, CouponTypes DEF CouponsInv
  <2>2. Steady => PageIsThere
    BY DEF CouponsInv, ListOnlyGrows
  <2>3. Steady /\ Cardinality(Matching(view)) > 0 => PageOf(view) # {}
    BY <2>1, <2>2, PageIsNotEmpty DEF CouponsInv, CouponsAreTyped
  <2> HIDE DEF a
  <2> QED  BY <1>2, <1>6, <2>3 DEF AnswerStands
<1> HIDE DEF a
<1>8. CouponsAreTyped'
  BY <1>1, <1>5 DEF CouponsInv, CouponsAreTyped, Answers
<1>9. Matching(view)' = Matching(view)
  BY <1>1 DEF Matching
<1>10. ListOnlyGrows'
  BY <1>1, <1>7, <1>9 DEF CouponsInv, ListOnlyGrows, PageIsThere, AnswerStands, Steady
<1> QED  BY <1>8, <1>10 DEF CouponsInv

(* The list's answers, the dialog, and the requests that change nothing.   *)
LEMMA CouponDialogStep ==
    ASSUME CouponsInv,
           \/ CouponsArrive \/ CouponsFail \/ OpenCouponDialog \/ CloseCouponDialog
           \/ \E code \in Codes : TypeCode(code)
           \/ SubmitCoupon \/ CheckCode \/ CreationSaved \/ CreationFailed
           \/ \E c \in DOMAIN coupons : Deactivate(c)
           \/ DeactivationAnswered \/ UNCHANGED couponVars
    PROVE  CouponsInv'
<1>1. UNCHANGED <<coupons, view>>
  BY DEF CouponsArrive, CouponsFail, OpenCouponDialog, CloseCouponDialog, TypeCode, SubmitCoupon,
         CheckCode, CreationSaved, CreationFailed, Deactivate, DeactivationAnswered, couponVars
<1>2. /\ \/ couponsShown' = couponsShown
         \/ couponFetch.at = "read" /\ couponsShown' = couponFetch.answer
      /\ couponFetch' = couponFetch \/ couponFetch' = AskNow \/ couponFetch' = Unasked
  BY DEF CouponsArrive, CouponsFail, OpenCouponDialog, CloseCouponDialog, TypeCode, SubmitCoupon,
         CheckCode, CreationSaved, CreationFailed, Deactivate, DeactivationAnswered, couponVars
<1>3. CouponsAreTyped'
  <2>0. CouponsAreTyped
    BY DEF CouponsInv
  <2>1. couponsShown' \in {NoAnswer} \cup Answers'
    <3>1. Answers' = Answers
      BY <1>1 DEF Answers
    <3>2. /\ couponsShown \in {NoAnswer} \cup Answers
          /\ couponFetch \in {Unasked, AskNow} \cup [at : {"read"}, answer : Answers]
      BY <2>0 DEF CouponsAreTyped
    <3> HIDE DEF Answers
    <3>3. couponFetch.at = "read" => couponFetch.answer \in Answers
      BY <3>2 DEF Unasked, AskNow
    <3> QED  BY <1>2, <3>1, <3>2, <3>3
  <2>2. couponFetch' \in {Unasked, AskNow} \cup [at : {"read"}, answer : Answers']
    BY <1>1, <1>2, <2>0 DEF CouponsAreTyped, Answers
  <2>3. couponDialog' \in [open : BOOLEAN, code : Written]
    <3>1. CASE \E code \in Codes : TypeCode(code)
      BY <2>0, <3>1, BlankIsWritten DEF CouponsAreTyped, TypeCode
    <3>2. CASE OpenCouponDialog \/ CloseCouponDialog
      <4>1. couponDialog \in [open : BOOLEAN, code : Written]
        BY <2>0 DEF CouponsAreTyped
      <4>2. CASE OpenCouponDialog
        BY <4>2, BlankIsWritten DEF OpenCouponDialog
      <4>3. CASE CloseCouponDialog
        BY <4>1, <4>3 DEF CloseCouponDialog
      <4> QED  BY <3>2, <4>2, <4>3
    <3>3. CASE CreationSaved
      BY <3>3, BlankIsWritten DEF CreationSaved, NoDialog
    <3>4. CASE UNCHANGED couponDialog
      BY <2>0, <3>4 DEF CouponsAreTyped
    <3> QED  BY <3>1, <3>2, <3>3, <3>4
             DEF CouponsArrive, CouponsFail, SubmitCoupon, CheckCode, CreationFailed, Deactivate,
                 DeactivationAnswered, couponVars
  <2>4. /\ creation' \in [at : {"idle", "sent", "checked", "saved", "refused"},
                          code : Written]
        /\ creation'.at # "idle" => creation'.code \in Codes
    <3>1. CASE SubmitCoupon
      <4>1. couponDialog.code \in Codes
        BY <2>0, <3>1 DEF CouponsAreTyped, SubmitCoupon, Written
      <4> QED  BY <3>1, <4>1, BlankIsWritten DEF SubmitCoupon
    <3>2. CASE CheckCode
      <4>1. \E s \in {"checked", "refused"} : creation' = [creation EXCEPT !.at = s]
        BY <3>2 DEF CheckCode
      <4>2. creation.at = "sent"
        BY <3>2 DEF CheckCode
      <4> QED  BY <2>0, <4>1, <4>2 DEF CouponsAreTyped
    <3>3. CASE CreationSaved \/ CreationFailed
      <4>1. creation' = [at |-> "idle", code |-> ""]
        BY <3>3 DEF CreationSaved, CreationFailed, NoCreation
      <4>2. \A code \in Written :
                [at |-> "idle", code |-> code] \in
                    [at : {"idle", "sent", "checked", "saved", "refused"}, code : Written]
        OBVIOUS
      <4> QED  BY <4>1, <4>2, BlankIsWritten
    <3>4. CASE UNCHANGED creation
      BY <2>0, <3>4 DEF CouponsAreTyped
    <3> QED  BY <3>1, <3>2, <3>3, <3>4
             DEF CouponsArrive, CouponsFail, OpenCouponDialog, CloseCouponDialog, TypeCode,
                 Deactivate, DeactivationAnswered, couponVars
  <2>5. deactivation' \in 0 .. Len(coupons)
    <3>1. CASE \E c \in DOMAIN coupons : Deactivate(c)
      <4>1. PICK c \in DOMAIN coupons : deactivation' = c
        BY <3>1 DEF Deactivate
      <4> QED  BY <2>0, <4>1, CouponTypes
    <3>2. CASE DeactivationAnswered
      <4>1. deactivation' = 0
        BY <3>2 DEF DeactivationAnswered
      <4> QED  BY <2>0, <4>1, CouponTypes
    <3>3. CASE UNCHANGED deactivation
      BY <2>0, <3>3 DEF CouponsAreTyped
    <3> QED  BY <3>1, <3>2, <3>3
             DEF CouponsArrive, CouponsFail, OpenCouponDialog, CloseCouponDialog, TypeCode,
                 SubmitCoupon, CheckCode, CreationSaved, CreationFailed, couponVars
  <2> QED  BY <1>1, <2>0, <2>1, <2>2, <2>3, <2>4, <2>5 DEF CouponsAreTyped
<1> QED  BY <1>1, <1>2, <1>3, OtherCouponSteps

LEMMA AddCouponStep ==
    ASSUME CouponsInv, InsertCoupon \/ \E code \in Codes : OtherCreates(code)
    PROVE  CouponsInv'
<1>1. PICK code \in Codes :
          /\ coupons' = Append(coupons, [code |-> code, active |-> TRUE])
          /\ Len(coupons) < MaxCoupons
          /\ UNCHANGED <<view, couponsShown, couponFetch, couponDialog, deactivation>>
          /\ creation' = creation \/ creation' = [creation EXCEPT !.at = "saved"]
          /\ creation' # creation => creation.at = "checked"
  BY DEF InsertCoupon, OtherCreates, CouponsInv, CouponsAreTyped
<1>2. [code |-> code, active |-> TRUE] \in Coupon
  BY DEF Coupon
<1>3. /\ coupons' \in Seq(Coupon) /\ Len(coupons') = Len(coupons) + 1
      /\ DOMAIN coupons' = 1 .. Len(coupons) + 1
      /\ \A c \in DOMAIN coupons : coupons'[c] = coupons[c]
      /\ Len(coupons) \in Nat /\ DOMAIN coupons = 1 .. Len(coupons)
  <2> DEFINE row == [code |-> code, active |-> TRUE]
  <2>1. coupons \in Seq(Coupon)
    BY DEF CouponsInv, CouponsAreTyped
  <2>2. row \in Coupon /\ coupons' = Append(coupons, row)
    BY <1>1, <1>2
  <2> HIDE DEF row
  <2> QED  BY <2>1, <2>2
<1>4. Len(coupons') <= MaxCoupons /\ DOMAIN coupons \subseteq DOMAIN coupons'
  BY <1>1, <1>3, CouponTypes DEF CouponsInv
<1>5. Answers \subseteq Answers'
  BY <1>4 DEF Answers
<1>6. /\ creation' \in [at : {"idle", "sent", "checked", "saved", "refused"},
                        code : Written]
      /\ creation'.at # "idle" => creation'.code \in Codes
  BY <1>1 DEF CouponsInv, CouponsAreTyped
<1>7. deactivation' \in 0 .. Len(coupons')
  <2>1. deactivation \in 0 .. Len(coupons)
    BY DEF CouponsInv, CouponsAreTyped
  <2> QED  BY <1>1, <1>3, <2>1
<1>8. CouponsAreTyped'
  BY <1>1, <1>3, <1>4, <1>5, <1>6, <1>7 DEF CouponsInv, CouponsAreTyped
<1> QED  BY <1>1, <1>3, <1>4, <1>8, OtherCouponSteps

LEMMA DeactivateStep ==
    ASSUME CouponsInv, DeactivateCoupon \/ \E c \in DOMAIN coupons : OtherDeactivates(c)
    PROVE  CouponsInv'
<1>1. PICK c \in DOMAIN coupons :
          /\ coupons' = [coupons EXCEPT ![c].active = FALSE]
          /\ UNCHANGED <<view, couponsShown, couponFetch, couponDialog, creation, deactivation>>
  <2>1. CASE DeactivateCoupon
    <3>1. deactivation \in DOMAIN coupons
      <4>1. deactivation \in 0 .. Len(coupons) /\ deactivation # 0
        BY <2>1 DEF DeactivateCoupon, CouponsInv, CouponsAreTyped
      <4> QED  BY <4>1, CouponTypes DEF CouponsInv
    <3> QED  BY <2>1, <3>1 DEF DeactivateCoupon
  <2> QED  BY <2>1 DEF OtherDeactivates
<1>2. coupons \in Seq(Coupon) /\ Len(coupons) \in Nat /\ DOMAIN coupons = 1 .. Len(coupons)
      /\ coupons[c] \in Coupon
  BY CouponTypes DEF CouponsInv, CouponsAreTyped
<1> DEFINE row == [coupons[c] EXCEPT !.active = FALSE]
<1>3. row \in Coupon /\ row.code = coupons[c].code /\ ~row.active
  BY <1>2 DEF Coupon
<1>4. coupons' = [coupons EXCEPT ![c] = row]
  BY <1>1
<1> HIDE DEF row
<1>5. /\ coupons' \in Seq(Coupon) /\ Len(coupons') = Len(coupons)
      /\ DOMAIN coupons' = DOMAIN coupons
      /\ \A d \in DOMAIN coupons : coupons'[d] = IF d = c THEN row ELSE coupons[d]
  BY <1>2, <1>3, <1>4
<1>6. \A d \in DOMAIN coupons : /\ d \in DOMAIN coupons' /\ coupons'[d].code = coupons[d].code
                                /\ coupons'[d].active => coupons[d].active
  BY <1>3, <1>5
<1>7. Answers' = Answers
  BY <1>5 DEF Answers
<1>8. CouponsAreTyped'
  BY <1>1, <1>5, <1>7 DEF CouponsInv, CouponsAreTyped
<1> QED  BY <1>1, <1>6, <1>8, OtherCouponSteps

LEMMA CouponsStep == CouponsInv /\ [CouponsNext]_couponVars => CouponsInv'
<1> SUFFICES ASSUME CouponsInv, [CouponsNext]_couponVars PROVE CouponsInv'
  OBVIOUS
<1>1. CASE \/ \E code \in Written : SearchFor(code)
           \/ \E f \in {"all", "true", "false"} : FilterBy(f)
  BY <1>1, SearchCouponsStep
<1>2. CASE \E n \in 1 .. MaxCoupons : TurnPage(n)
  BY <1>2, TurnPageStep
<1>3. CASE ReadCoupons
  BY <1>3, ReadCouponsStep
<1>4. CASE InsertCoupon \/ \E code \in Codes : OtherCreates(code)
  BY <1>4, AddCouponStep
<1>5. CASE DeactivateCoupon \/ \E c \in DOMAIN coupons : OtherDeactivates(c)
  BY <1>5, DeactivateStep
<1>6. CASE \/ CouponsArrive \/ CouponsFail \/ OpenCouponDialog \/ CloseCouponDialog
           \/ \E code \in Codes : TypeCode(code)
           \/ SubmitCoupon \/ CheckCode \/ CreationSaved \/ CreationFailed
           \/ \E c \in DOMAIN coupons : Deactivate(c)
           \/ DeactivationAnswered \/ UNCHANGED couponVars
  BY <1>6, CouponDialogStep
<1> QED  BY <1>1, <1>2, <1>3, <1>4, <1>5, <1>6, BlankIsWritten DEF CouponsNext

(* The inductive invariant of the coupons page: while no deactivation      *)
(* takes a coupon from the list, the list only grows, so that the page the *)
(* view is on and every answer that was taken for it stay within it.       *)
THEOREM CouponsInvariant == CouponsSpec => []CouponsInv
BY CouponsInitInv, CouponsStep, PTL DEF CouponsSpec

(* The table, the view, its answer and the requests of CouponsPage have    *)
(* their types.                                                            *)
THEOREM CouponsTypeCorrect == CouponsSpec => []CouponsTypeOK
<1>1. CouponsInv => CouponsTypeOK
  <2> SUFFICES ASSUME CouponsInv PROVE CouponsTypeOK
    OBVIOUS
  <2>1. MaxCoupons \in Nat /\ Len(coupons) \in Nat /\ Len(coupons) <= MaxCoupons
    BY CouponTypes DEF CouponsInv, CouponsAreTyped
  <2>2. deactivation \in 0 .. MaxCoupons
    <3>1. deactivation \in 0 .. Len(coupons)
      BY DEF CouponsInv, CouponsAreTyped
    <3> QED  BY <2>1, <3>1
  <2>3. couponsShown.rows \subseteq DOMAIN coupons /\ couponsShown.total \in -1 .. MaxCoupons
    <3>1. CASE couponsShown = NoAnswer
      <4>1. couponsShown.rows = {} /\ couponsShown.total = -1
        BY <3>1 DEF NoAnswer
      <4>2. -1 \in -1 .. MaxCoupons
        BY <2>1
      <4> QED  BY <4>1, <4>2
    <3>2. CASE couponsShown \in Answers
      <4>1. couponsShown.rows \subseteq DOMAIN coupons /\ couponsShown.total \in 0 .. MaxCoupons
        BY <3>2 DEF Answers
      <4> QED  BY <2>1, <4>1
    <3> QED  BY <3>1, <3>2 DEF CouponsInv, CouponsAreTyped
  <2>4. couponFetch.at \in {"idle", "sent", "read"}
    <3>1. couponFetch \in {Unasked, AskNow} \cup [at : {"read"}, answer : Answers]
      BY DEF CouponsInv, CouponsAreTyped
    <3> HIDE DEF Answers
    <3> QED  BY <3>1 DEF Unasked, AskNow
  <2>5. creation.at \in {"idle", "sent", "checked", "saved", "refused"}
    BY DEF CouponsInv, CouponsAreTyped
  <2> QED  BY <2>2, <2>3, <2>4, <2>5 DEF CouponsInv, CouponsAreTyped, CouponsTypeOK, Written
<1> QED  BY <1>1, CouponsInvariant, PTL

(* For any page size and any coupons: what CouponsPage shows as empty      *)
(* though coupons match is a page of active ones that deactivations have   *)
(* emptied, as EmptyMeansDeactivated says.                                 *)
THEOREM EmptyPagesAreExplained == CouponsSpec => []EmptyMeansDeactivated
<1>1. CouponsInv => EmptyMeansDeactivated
  BY DEF CouponsInv, ListOnlyGrows, AnswerStands, Steady, EmptyMeansDeactivated
<1> QED  BY <1>1, CouponsInvariant, PTL
=============================================================================

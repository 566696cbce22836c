----------------------------- MODULE PlatformTeam -----------------------------
(***************************************************************************)
(* TeamPage of the super-admin panel in one admin's browser, the signing   *)
(* in that it depends on, and the commands of this and the other admins.   *)
(* The role is checked on the token, which lives on after a demotion or a  *)
(* deactivation; handlers read a row and save it later.                    *)
(***************************************************************************)
EXTENDS Integers, FiniteSets

CONSTANTS
    Admins,             \* accounts of the platform
    MyAccount,          \* the one whose browser is looked at
    PlatformRoles,
    MaxTeamOrders       \* bound on commands

ASSUME PlatformAssumption ==
    /\ IsFiniteSet(Admins) /\ MyAccount \in Admins /\ "SuperAdmin" \in PlatformRoles
    /\ MaxTeamOrders \in Nat

VARIABLES
    platformUsers,  \* [Admins -> rows]
    roleTokens,         \* [Admins -> role on the token a browser holds, or "none"]
    teamShown,      \* what the page lists
    teamFetch,      \* the list's query
    teamOrders,     \* commands under way
    ordered,        \* commands so far
    stray           \* history: a command was carried out for somebody who was no active
                    \* SuperAdmin any more, or somebody changed his own role

teamOfVars == <<platformUsers, roleTokens, teamShown, teamFetch, teamOrders, ordered, stray>>

PlatformUser == [is : {"none", "there"}, role : PlatformRoles, active : BOOLEAN]
Nobody == [is |-> "none", role |-> "SuperAdmin", active |-> FALSE]
SeededAdmin == [Nobody EXCEPT !.is = "there", !.active = TRUE]
TeamOrder == [id : 1 .. MaxTeamOrders, who : Admins, kind : {"role", "toggle", "invite"},
              target : Admins, role : PlatformRoles, read : PlatformUser,
              at : {"sent", "read", "saved", "refused"}]

IsAdmin(a) == platformUsers[a].is = "there" /\ platformUsers[a].active
              /\ platformUsers[a].role = "SuperAdmin"

PlatformInit ==
    /\ \E others \in SUBSET (Admins \ {MyAccount}) :
          platformUsers = [a \in Admins |-> IF a \in others \cup {MyAccount}
                                            THEN SeededAdmin ELSE Nobody]
    /\ roleTokens = [a \in Admins |-> "none"]
    /\ teamShown = [a \in Admins |-> Nobody] /\ teamFetch = [at |-> "idle"]
    /\ teamOrders = {} /\ ordered = 0 /\ stray = FALSE

-----------------------------------------------------------------------------
(* PlatformLogin; there is no refresh: an expired token leads to the login.*)
SignIn(a) ==
    /\ roleTokens[a] = "none" /\ platformUsers[a].is = "there" /\ platformUsers[a].active
    /\ roleTokens' = [roleTokens EXCEPT ![a] = platformUsers[a].role]
    /\ UNCHANGED <<platformUsers, teamShown, teamFetch, teamOrders, ordered, stray>>
SignedOut(a) ==
    /\ roleTokens[a] # "none"
    /\ roleTokens' = [roleTokens EXCEPT ![a] = "none"]
    /\ UNCHANGED <<platformUsers, teamShown, teamFetch, teamOrders, ordered, stray>>

(* The controls are there for a SuperAdmin by the token, and busy while    *)
(* their own request is under way.                                         *)
OrderFree(kind, target) ==
    /\ roleTokens[MyAccount] = "SuperAdmin"
    /\ ~\E q \in teamOrders : q.who = MyAccount /\ q.kind = kind /\ q.target = target

SendOrder(who, kind, target, role) ==
    /\ ordered < MaxTeamOrders
    /\ ordered' = ordered + 1
    /\ teamOrders' = teamOrders \cup
          {[id |-> ordered + 1, who |-> who, kind |-> kind, target |-> target, role |-> role,
            read |-> Nobody, at |-> "sent"]}
    /\ UNCHANGED <<platformUsers, roleTokens, teamShown, teamFetch, stray>>

(* RoleSelect, for every user, also oneself.                               *)
SelectRole(a, role) ==
    /\ OrderFree("role", a) /\ teamShown[a].is = "there" /\ role # teamShown[a].role
    /\ SendOrder(MyAccount, "role", a, role)

(* ToggleActiveButton, not for oneself.                                    *)
PressToggle(a) ==
    /\ OrderFree("toggle", a) /\ teamShown[a].is = "there" /\ a # MyAccount
    /\ SendOrder(MyAccount, "toggle", a, "SuperAdmin")

InviteMember(a, role) ==
    /\ roleTokens[MyAccount] = "SuperAdmin"
    /\ ~\E q \in teamOrders : q.who = MyAccount /\ q.kind = "invite"
    /\ SendOrder(MyAccount, "invite", a, role)

(* Another admin's browser sends the same requests.                        *)
OtherOrders(who, kind, a, role) ==
    /\ who # MyAccount /\ roleTokens[who] = "SuperAdmin"
    /\ SendOrder(who, kind, a, role)

-----------------------------------------------------------------------------
TogglesAnybody(q) == TRUE

(* TogglePlatformUserActiveCommandHandler refuses one's own account.       *)
MayToggle(q) == q.target # q.who

ReadMember(q) ==
    /\ q.at = "sent"
    /\ CASE q.kind = "invite" -> platformUsers[q.target].is = "none"
         [] q.kind = "toggle" -> platformUsers[q.target].is = "there" /\ MayToggle(q)
         [] OTHER -> platformUsers[q.target].is = "there"
    /\ teamOrders' = (teamOrders \ {q}) \cup
          {[q EXCEPT !.at = "read", !.read = platformUsers[q.target]]}
    /\ UNCHANGED <<platformUsers, roleTokens, teamShown, teamFetch, ordered, stray>>

(* Each writes the column it changed; a toggle inverts what it has read.   *)
(* The unique index on the address stops a second invitation.              *)
SaveMember(q) ==
    /\ q.at = "read"
    /\ q.kind = "invite" => platformUsers[q.target].is = "none"
    /\ platformUsers' = [platformUsers EXCEPT ![q.target] =
          CASE q.kind = "role" -> IF q.read.role = q.role THEN @ ELSE [@ EXCEPT !.role = q.role]
            [] q.kind = "toggle" -> [@ EXCEPT !.active = ~q.read.active]
            [] q.kind = "invite" -> [is |-> "there", role |-> q.role, active |-> TRUE]]
    /\ teamOrders' = (teamOrders \ {q}) \cup {[q EXCEPT !.at = "saved"]}
    /\ stray' = (stray \/ ~IsAdmin(q.who) \/ (q.kind = "role" /\ q.target = q.who))
    /\ UNCHANGED <<roleTokens, teamShown, teamFetch, ordered>>

RefuseMember(q) ==
    /\ q.at \in {"sent", "read"}
    /\ teamOrders' = (teamOrders \ {q}) \cup {[q EXCEPT !.at = "refused"]}
    /\ UNCHANGED <<platformUsers, roleTokens, teamShown, teamFetch, ordered, stray>>

(* Only a success asks for the list again; a lost answer reads as failure. *)
OrderAnswered(q) ==
    /\ q.at \in {"saved", "refused"}
    /\ teamOrders' = teamOrders \ {q}
    /\ teamFetch' = IF q.who = MyAccount /\ q.at = "saved" THEN [at |-> "sent"] ELSE teamFetch
    /\ UNCHANGED <<platformUsers, roleTokens, teamShown, ordered, stray>>
OrderUnheard(q) ==
    /\ q.at \in {"saved", "sent"}
    /\ teamOrders' = teamOrders \ {q}
    /\ UNCHANGED <<platformUsers, roleTokens, teamShown, teamFetch, ordered, stray>>

AskTeam ==
    /\ teamFetch.at = "idle" /\ roleTokens[MyAccount] # "none" /\ teamShown # platformUsers
    /\ teamFetch' = [at |-> "sent"]
    /\ UNCHANGED <<platformUsers, roleTokens, teamShown, teamOrders, ordered, stray>>
ReadTeam ==
    /\ teamFetch.at = "sent"
    /\ teamFetch' = [at |-> "read", rows |-> platformUsers]
    /\ UNCHANGED <<platformUsers, roleTokens, teamShown, teamOrders, ordered, stray>>
TeamArrives ==
    /\ teamFetch.at = "read"
    /\ teamShown' = teamFetch.rows /\ teamFetch' = [at |-> "idle"]
    /\ UNCHANGED <<platformUsers, roleTokens, teamOrders, ordered, stray>>

PlatformNext ==
    \/ \E a \in Admins :
          \/ SignIn(a) \/ SignedOut(a) \/ PressToggle(a)
          \/ \E role \in PlatformRoles :
                \/ SelectRole(a, role) \/ InviteMember(a, role)
                \/ \E who \in Admins, kind \in {"role", "toggle"} : OtherOrders(who, kind, a, role)
    \/ \E q \in teamOrders :
          \/ ReadMember(q) \/ SaveMember(q) \/ RefuseMember(q)
          \/ OrderAnswered(q) \/ OrderUnheard(q)
    \/ AskTeam \/ ReadTeam \/ TeamArrives

PlatformSpec == PlatformInit /\ [][PlatformNext]_teamOfVars
-----------------------------------------------------------------------------
PlatformTypeOK ==
    /\ platformUsers \in [Admins -> PlatformUser] /\ teamShown \in [Admins -> PlatformUser]
    /\ roleTokens \in [Admins -> PlatformRoles \cup {"none"}]
    /\ teamFetch.at \in {"idle", "sent", "read"} /\ teamOrders \subseteq TeamOrder
    /\ ordered \in 0 .. MaxTeamOrders /\ stray \in BOOLEAN

(* The platform keeps an active SuperAdmin: whoever removes another stays. *)
(* Nothing counts the SuperAdmins, so this fails once one of them gives up *)
(* his own role, or a token outlives its owner's removal, for instance     *)
(* when two SuperAdmins remove each other at once.                         *)
AnAdminRemains == ~stray => \E a \in Admins : IsAdmin(a)
=============================================================================

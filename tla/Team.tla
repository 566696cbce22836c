-------------------------------- MODULE Team --------------------------------
(***************************************************************************)
(* The team of one tenant: StaffPage and InvitePage of the admin panel and *)
(* the six staff commands, each of which reads, decides and saves later.   *)
(* Who may do what is read from the role in the caller's access token,     *)
(* which is as old as the token.  One owner's page is modelled with its    *)
(* lists; what other owners send from theirs is not restricted, as their   *)
(* lists may be of any age.                                                *)
(***************************************************************************)
EXTENDS Integers, FiniteSets

CONSTANTS
    Staffers,               \* people, by e-mail address
    Me,                     \* whose page is modelled
    MaxCommands, MaxInvites, MaxMails   \* bounds on commands, invitations and
                                        \* mails of one invitation

ASSUME TeamAssumption ==
    Me \in Staffers /\ {MaxCommands, MaxInvites} \subseteq Nat /\ MaxMails \in Nat \ {0}

VARIABLES
    users,          \* [Staffers -> User]
    claims,         \* [Staffers -> Role \cup {"none"}]: in their access tokens
    invitations,    \* rows of UserInvitation
    commands,       \* sent, read, done or failed, not answered yet
    commandsSent,
    members,        \* the page's list: [Staffers -> Role \cup {"none"}]
    pending,        \* the page's list of invitations
    invitePages,    \* pages opened by a mailed link: <<invitation, link>>
    crossed         \* history: two commands that cost somebody the owner role
                    \* had both read before one of them saved

teamPage == <<members, pending>>
people == <<users, claims, invitations>>
teamVars == <<people, commands, commandsSent, teamPage, invitePages, crossed>>

Role == {"Owner", "Staff"}
User == [is : {"none", "there", "removed"}, role : Role]
OnTeam(p) == users[p].is = "there"
Owners == {p \in Staffers : OnTeam(p) /\ users[p].role = "Owner"}

(* link counts the tokens an invitation has had; the last one works.       *)
Invitation == [id : 1 .. MaxInvites, email : Staffers, role : Role, link : 1 .. MaxMails,
               accepted : BOOLEAN, deleted : BOOLEAN, expired : BOOLEAN]
IsOpen(i) == ~i.accepted /\ ~i.deleted
InviteRow(id) == CHOOSE i \in invitations : i.id = id
SetInvite(i) == invitations' = (invitations \ {InviteRow(i.id)}) \cup {i}

Command == [id : 1 .. MaxCommands, by : Staffers,
            kind : {"role", "remove", "invite", "resend", "cancel", "accept"},
            who : Staffers, role : Role, inv : 0 .. MaxInvites, link : 0 .. MaxMails,
            was : Role, at : {"sent", "read", "done", "failed"}]
SendCommand(by, kind, who, role, inv, link) ==
    /\ commandsSent < MaxCommands
    /\ commandsSent' = commandsSent + 1
    /\ commands' = commands \cup
         {[id |-> commandsSent + 1, by |-> by, kind |-> kind, who |-> who, role |-> role,
           inv |-> inv, link |-> link, was |-> "Staff", at |-> "sent"]}
(* A bound: pages are idle after the last command.                         *)
Going == commandsSent < MaxCommands
Waits(kind) == \E c \in commands : c.by = Me /\ c.kind = kind
Stage(c, stage) == commands' = (commands \ {c}) \cup {[c EXCEPT !.at = stage]}

TeamInit ==
    /\ \E others \in [Staffers \ {Me} -> {"none", "Owner", "Staff"}] :
          users = [p \in Staffers |->
                     IF p = Me THEN [is |-> "there", role |-> "Owner"]
                     ELSE IF others[p] = "none" THEN [is |-> "none", role |-> "Staff"]
                     ELSE [is |-> "there", role |-> others[p]]]
    /\ claims = [p \in Staffers |-> IF OnTeam(p) THEN users[p].role ELSE "none"]
    /\ members = claims /\ invitations = {} /\ pending = {}
    /\ commands = {} /\ commandsSent = 0 /\ invitePages = {} /\ crossed = FALSE

-----------------------------------------------------------------------------
(* StaffPage.                                                              *)
LastOwner(p) == {q \in Staffers : members[q] = "Owner"} = {p}

(* "Owner Yap" and "Staff Yap": one at a time, on any row.                 *)
ChangeRole(p) ==
    /\ members[p] # "none" /\ ~LastOwner(p) /\ ~Waits("role")
    /\ SendCommand(Me, "role", p, IF members[p] = "Owner" THEN "Staff" ELSE "Owner", 0, 0)
    /\ UNCHANGED <<people, teamPage, invitePages, crossed>>

RemoveMember(p) ==
    /\ members[p] # "none" /\ ~LastOwner(p) /\ ~Waits("remove") /\ ~Waits("role")
    /\ SendCommand(Me, "remove", p, "Staff", 0, 0)
    /\ UNCHANGED <<people, teamPage, invitePages, crossed>>

ResendInvite(i) ==
    /\ i \in pending /\ ~Waits("resend")
    /\ SendCommand(Me, "resend", i.email, i.role, i.id, 0)
    /\ UNCHANGED <<people, teamPage, invitePages, crossed>>

CancelInvite(i) ==
    /\ i \in pending /\ ~Waits("cancel")
    /\ SendCommand(Me, "cancel", i.email, i.role, i.id, 0)
    /\ UNCHANGED <<people, teamPage, invitePages, crossed>>

(* InviteStaffDialog, which opens and closes at will.                      *)
SubmitInvite(p, role) ==
    /\ ~Waits("invite")
    /\ SendCommand(Me, "invite", p, role, 0, 0)
    /\ UNCHANGED <<people, teamPage, invitePages, crossed>>

(* The two lists, read and shown in one step.                              *)
ListStaff ==
    /\ Going /\ claims[Me] = "Owner"
    /\ members' = [p \in Staffers |-> IF OnTeam(p) THEN users[p].role ELSE "none"]
    /\ pending' = {i \in invitations : IsOpen(i) /\ ~i.expired}
    /\ UNCHANGED <<people, commands, commandsSent, invitePages, crossed>>

(* An answer ends the waiting; who has accepted is logged in.              *)
CommandAnswered(c) ==
    /\ c.at \in {"done", "failed"}
    /\ commands' = commands \ {c}
    /\ claims' = IF c.kind = "accept" /\ c.at = "done"
                 THEN [claims EXCEPT ![c.by] = c.role] ELSE claims
    /\ UNCHANGED <<users, invitations, commandsSent, members, pending, invitePages, crossed>>

-----------------------------------------------------------------------------
(* InvitePage: a preview of the invitation, then a form.  TenantResolver   *)
(* lets its requests pass only with a token of the tenant: the invitee's   *)
(* browser is one where somebody of the tenant is signed in.               *)
OpenInvite(i) ==
    /\ Going /\ IsOpen(i) /\ ~i.expired
    /\ invitePages' = invitePages \cup {<<i.id, i.link>>}
    /\ UNCHANGED <<people, commands, commandsSent, teamPage, crossed>>

AcceptInvite(id, link) ==
    /\ <<id, link>> \in invitePages
    /\ ~\E c \in commands : c.kind = "accept" /\ <<c.inv, c.link>> = <<id, link>>
    /\ SendCommand(InviteRow(id).email, "accept", InviteRow(id).email, InviteRow(id).role, id, link)
    /\ UNCHANGED <<people, teamPage, invitePages, crossed>>

-----------------------------------------------------------------------------
(* Other owners, and people whose token still says so.                     *)
OtherOwner(p) ==
    /\ p # Me /\ claims[p] = "Owner"
    /\ \/ \E q \in Staffers, role \in Role : SendCommand(p, "role", q, role, 0, 0)
       \/ \E q \in Staffers : SendCommand(p, "remove", q, "Staff", 0, 0)
    /\ UNCHANGED <<people, teamPage, invitePages, crossed>>

(* A token is refreshed, or runs out: a removed user has none any more.    *)
RefreshClaim(p) ==
    /\ claims[p] # "none"
    /\ claims' = [claims EXCEPT ![p] = IF OnTeam(p) THEN users[p].role ELSE "none"]
    /\ UNCHANGED <<users, invitations, commands, commandsSent, teamPage, invitePages, crossed>>

InvitationExpires(i) ==
    /\ IsOpen(i) /\ ~i.expired
    /\ SetInvite([i EXCEPT !.expired = TRUE])
    /\ UNCHANGED <<users, claims, commands, commandsSent, teamPage, invitePages, crossed>>

-----------------------------------------------------------------------------
(* The handlers.  What they read and decide:                               *)
OwnerCountUnchecked(c) == TRUE
OwnerCountAllows(c) == users[c.who].role = "Owner" => Cardinality(Owners) > 1

MayDo(c) ==
    LET i == InviteRow(c.inv) IN
    /\ c.kind # "accept" => claims[c.by] = "Owner"
    /\ CASE c.kind = "role" ->
              OnTeam(c.who) /\ (c.role = "Staff" => c.who # c.by /\ OwnerCountAllows(c))
         [] c.kind = "remove" -> OnTeam(c.who) /\ c.who # c.by /\ OwnerCountAllows(c)
         [] c.kind = "invite" ->
              ~OnTeam(c.who) /\ ~\E j \in invitations : IsOpen(j) /\ ~j.expired /\ j.email = c.who
         [] c.kind \in {"resend", "cancel"} -> IsOpen(i)
         [] OTHER -> IsOpen(i) /\ ~i.expired /\ i.link = c.link /\ ~OnTeam(c.who)

CostsOwner(c) == c.kind \in {"remove", "role"} /\ c.role = "Staff"
ReadCommand(c) ==
    /\ c.at = "sent"
    /\ IF MayDo(c)
       THEN commands' = (commands \ {c}) \cup {[c EXCEPT !.at = "read", !.was = users[c.who].role]}
       ELSE Stage(c, "failed")
    /\ crossed' = (crossed \/ \E d \in commands : CostsOwner(c) /\ CostsOwner(d) /\ d.at = "read")
    /\ UNCHANGED <<people, commandsSent, teamPage, invitePages>>

(* What they save: the columns they have changed, no others.               *)
SaveRole(c) ==
    users' = IF c.was = c.role THEN users ELSE [users EXCEPT ![c.who].role = c.role]
SaveInvitation(c) ==
    CASE c.kind = "invite" ->
            invitations' = invitations \cup
              {[id |-> Cardinality(invitations) + 1, email |-> c.who, role |-> c.role, link |-> 1,
                accepted |-> FALSE, deleted |-> FALSE, expired |-> FALSE]}
      [] c.kind = "resend" -> SetInvite([InviteRow(c.inv) EXCEPT !.link = @ + 1, !.expired = FALSE])
      [] c.kind = "cancel" -> SetInvite([InviteRow(c.inv) EXCEPT !.deleted = TRUE])
      [] OTHER -> SetInvite([InviteRow(c.inv) EXCEPT !.accepted = TRUE])

SaveCommand(c) ==
    /\ c.at = "read"
    /\ c.kind = "invite" => Cardinality(invitations) < MaxInvites
    /\ c.kind = "resend" => InviteRow(c.inv).link < MaxMails
    /\ c.kind = "accept" => users[c.who].is = "none"
    /\ CASE c.kind = "role" -> SaveRole(c)
         [] c.kind = "remove" -> users' = [users EXCEPT ![c.who].is = "removed"]
         [] c.kind = "accept" ->
              users' = [users EXCEPT ![c.who] = [is |-> "there", role |-> c.role]]
         [] OTHER -> UNCHANGED users
    /\ IF c.kind \in {"role", "remove"} THEN UNCHANGED invitations ELSE SaveInvitation(c)
    /\ Stage(c, "done")
    /\ UNCHANGED <<claims, commandsSent, teamPage, invitePages, crossed>>

(* The unique index on e-mail and tenant: also a removed user takes the    *)
(* address, so that an invitation to come back cannot be accepted.         *)
AddressIsTaken(c) ==
    /\ c.at = "read" /\ c.kind = "accept" /\ users[c.who].is # "none"
    /\ Stage(c, "failed")
    /\ UNCHANGED <<people, commandsSent, teamPage, invitePages, crossed>>

TeamNext ==
    \/ \E p \in Staffers : \/ ChangeRole(p) \/ RemoveMember(p) \/ OtherOwner(p) \/ RefreshClaim(p)
                           \/ \E role \in Role : SubmitInvite(p, role)
    \/ \E i \in pending : ResendInvite(i) \/ CancelInvite(i)
    \/ \E i \in invitations : OpenInvite(i) \/ InvitationExpires(i)
    \/ \E x \in invitePages : AcceptInvite(x[1], x[2])
    \/ ListStaff
    \/ \E c \in commands : \/ ReadCommand(c) \/ SaveCommand(c) \/ AddressIsTaken(c)
                           \/ CommandAnswered(c)

TeamSpec == TeamInit /\ [][TeamNext]_teamVars
-----------------------------------------------------------------------------
TeamTypeOK ==
    /\ users \in [Staffers -> User] /\ claims \in [Staffers -> Role \cup {"none"}]
    /\ invitations \subseteq Invitation /\ pending \subseteq Invitation
    /\ commands \subseteq Command /\ commandsSent \in 0 .. MaxCommands
    /\ members \in [Staffers -> Role \cup {"none"}] /\ crossed \in BOOLEAN
    /\ invitePages \subseteq (1 .. MaxInvites) \X (1 .. MaxMails)

(* A tenant keeps an owner, though roles are checked against old tokens    *)
(* and pages are out of date, and whatever is invited, joined or promoted  *)
(* meanwhile: only two demotions or removals at the same moment can leave  *)
(* none, since each counts the owners before it saves.                     *)
OwnerRemains == Owners = {} => crossed
=============================================================================

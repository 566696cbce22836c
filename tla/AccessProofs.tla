---------------------------- MODULE AccessProofs ----------------------------
(***************************************************************************)
(* Who is let in, and who is known, for any number of people, tabs, calls, *)
(* tokens and of requests at once.                                         *)
(* A tenant's staff: of the demotions and removals that have counted the   *)
(* owners at most one has not saved yet, unless two crossed.               *)
(* An account: a session that was stored in time is of the password of the *)
(* account, and every reset that has looked at the sessions has found it.  *)
(* A session: numbers name what has been issued, a rotation that is about  *)
(* to be saved is alone with its login, and until something goes wrong one *)
(* refresh at most is under way, with the token of the store.              *)
(* A customer: of one who is not confused one save at most is under way,   *)
(* whose steps that are written are in the row.                            *)
(***************************************************************************)
EXTENDS Team, Accounts, Sessions, Customers, FiniteSetTheorems, TLAPS

(* The staff of a tenant.  Owners are only lost by a demotion or a removal *)
(* that is saved, and of these at most one has read and not yet saved as   *)
(* long as none crossed another; so what it counted, namely an owner other *)
(* than the one it is about, still holds when it saves: everything else    *)
(* that is saved meanwhile only adds owners.                               *)
InviteIds == {i.id : i \in invitations}
OfInvitation == {"resend", "cancel", "accept"}

(* Demotions and removals that have counted the owners and not saved.      *)
Costly == {c \in commands : c.at = "read" /\ CostsOwner(c)}

PeopleAreTyped ==
    /\ users \in [Staffers -> User]
    /\ claims \in [Staffers -> Role \cup {"none"}]
    /\ members \in [Staffers -> Role \cup {"none"}]
    /\ commandsSent \in 0 .. MaxCommands
    /\ crossed \in BOOLEAN

(* What refers to an invitation refers to one that there is.               *)
InvitationsAreKnown ==
    /\ invitations \subseteq Invitation /\ IsFiniteSet(invitations)
    /\ pending \subseteq Invitation /\ \A i \in pending : i.id \in InviteIds
    /\ invitePages \subseteq (1 .. MaxInvites) \X (1 .. MaxMails)
    /\ \A x \in invitePages : x[1] \in InviteIds

Sound(c) ==
    /\ c.kind \in OfInvitation => c.inv \in InviteIds
    /\ c.kind = "remove" => c.role = "Staff"

CommandsAreSound == commands \subseteq Command /\ \A c \in commands : Sound(c)

OwnersAreKept ==
    ~crossed =>
        /\ Owners # {}
        /\ \A c, d \in Costly : c = d
        /\ \A c \in Costly : Owners \ {c.who} # {}

TeamInv == PeopleAreTyped /\ InvitationsAreKnown /\ CommandsAreSound /\ OwnersAreKept

LEMMA TeamInitInv == TeamInit => TeamInv
<1> SUFFICES ASSUME TeamInit PROVE TeamInv
  OBVIOUS
<1>1. PICK others \in [Staffers \ {Me} -> {"none", "Owner", "Staff"}] :
          users = [p \in Staffers |->
                     IF p = Me THEN [is |-> "there", role |-> "Owner"]
                     ELSE IF others[p] = "none" THEN [is |-> "none", role |-> "Staff"]
                     ELSE [is |-> "there", role |-> others[p]]]
  BY DEF TeamInit
<1>2. users \in [Staffers -> User]
  <2>1. ASSUME NEW p \in Staffers PROVE users[p] \in User
    <3>1. CASE p = Me
      BY <1>1, <3>1 DEF User, Role
    <3>2. CASE p # Me
      BY <1>1, <3>2 DEF User, Role
    <3> QED
      BY <3>1, <3>2
  <2> QED
    BY <1>1, <2>1
<1>3. claims \in [Staffers -> Role \cup {"none"}]
  BY <1>2 DEF TeamInit, User
<1>4. Me \in Owners
  BY <1>1, TeamAssumption DEF Owners, OnTeam
<1>5. PeopleAreTyped
  <2>1. members = claims /\ commandsSent \in 0 .. MaxCommands
    BY TeamAssumption DEF TeamInit
  <2>2. crossed \in BOOLEAN
    BY DEF TeamInit
  <2> QED
    BY <1>2, <1>3, <2>1, <2>2 DEF PeopleAreTyped
<1>6. InvitationsAreKnown
  BY FS_EmptySet DEF TeamInit, InvitationsAreKnown
<1>7. CommandsAreSound /\ Costly = {}
  BY DEF TeamInit, CommandsAreSound, Costly
<1> QED
  BY <1>4, <1>5, <1>6, <1>7 DEF TeamInv, OwnersAreKept

(* The row of a known invitation.                                          *)
LEMMA KnownRow ==
    ASSUME InvitationsAreKnown, NEW id \in InviteIds
    PROVE  InviteRow(id) \in invitations /\ InviteRow(id).id = id /\ InviteRow(id) \in Invitation
<1>1. PICK i \in invitations : i.id = id
  BY DEF InviteIds
<1> QED
  BY <1>1 DEF InviteRow, InvitationsAreKnown

(* An invitation that is changed stays known.                              *)
LEMMA SetInviteKeeps ==
    ASSUME InvitationsAreKnown, NEW i \in Invitation, i.id \in InviteIds, SetInvite(i)
    PROVE  /\ invitations' \subseteq Invitation /\ IsFiniteSet(invitations')
           /\ InviteIds \subseteq InviteIds'
<1> DEFINE old == InviteRow(i.id)
<1>1. old \in invitations /\ old.id = i.id
  BY KnownRow
<1>2. invitations' = (invitations \ {old}) \cup {i}
  BY DEF SetInvite
<1> HIDE DEF old
<1>3. IsFiniteSet(invitations')
  BY <1>2, FS_AddElement, FS_RemoveElement DEF InvitationsAreKnown
<1>4. ASSUME NEW j \in invitations PROVE j.id \in InviteIds'
  BY <1>1, <1>2 DEF InviteIds
<1> QED
  BY <1>2, <1>3, <1>4 DEF InvitationsAreKnown, InviteIds

LEMMA KnownStays ==
    ASSUME TeamInv, InviteIds \subseteq InviteIds',
           invitations' \subseteq Invitation, IsFiniteSet(invitations'),
           UNCHANGED <<teamPage, invitePages>>
    PROVE  /\ InvitationsAreKnown'
           /\ \A c \in commands : Sound(c)'
BY DEF TeamInv, InvitationsAreKnown, CommandsAreSound, Sound, teamPage

-----------------------------------------------------------------------------
(* A new command is sound and has not been read.                           *)
LEMMA StaffSendStep ==
    ASSUME TeamInv, NEW by \in Staffers, NEW who \in Staffers, NEW role \in Role,
           NEW kind \in {"role", "remove", "invite", "resend", "cancel", "accept"},
           NEW inv \in 0 .. MaxInvites, NEW link \in 0 .. MaxMails,
           kind \in OfInvitation => inv \in InviteIds,
           kind = "remove" => role = "Staff",
           SendCommand(by, kind, who, role, inv, link),
           UNCHANGED <<people, teamPage, invitePages, crossed>>
    PROVE  TeamInv'
<1> DEFINE c == [id |-> commandsSent + 1, by |-> by, kind |-> kind, who |-> who, role |-> role,
                 inv |-> inv, link |-> link, was |-> "Staff", at |-> "sent"]
<1>1. commandsSent + 1 \in 1 .. MaxCommands
  BY TeamAssumption DEF TeamInv, PeopleAreTyped, SendCommand
<1>2. c \in Command /\ Sound(c) /\ c.at = "sent"
  BY <1>1 DEF Command, Role, Sound
<1>3. commandsSent' = commandsSent + 1 /\ commands' = commands \cup {c}
  BY DEF SendCommand
<1>4. UNCHANGED <<users, claims, invitations, members, pending, invitePages, crossed>>
  BY DEF people, teamPage
<1> HIDE DEF c
<1>5. PeopleAreTyped' /\ InvitationsAreKnown'
  BY <1>1, <1>3, <1>4 DEF TeamInv, PeopleAreTyped, InvitationsAreKnown, InviteIds
<1>6. CommandsAreSound'
  BY <1>2, <1>3, <1>4 DEF TeamInv, CommandsAreSound, Sound, InviteIds
<1>7. Costly' = Costly /\ Owners' = Owners
  BY <1>2, <1>3, <1>4 DEF Costly, CostsOwner, Owners, OnTeam
<1> QED
  BY <1>4, <1>5, <1>6, <1>7 DEF TeamInv, OwnersAreKept

(* Who sends what.                                                         *)
LEMMA MembersStep ==
    ASSUME TeamInv, NEW p \in Staffers, NEW newRole \in Role,
           ChangeRole(p) \/ RemoveMember(p) \/ OtherOwner(p) \/ SubmitInvite(p, newRole)
    PROVE  TeamInv'
<1>0. 0 \in 0 .. MaxInvites /\ 0 \in 0 .. MaxMails /\ {"Owner", "Staff"} = Role /\ Me \in Staffers
  BY TeamAssumption DEF Role
<1>1. CASE ChangeRole(p)
  <2>1. PICK role \in Role : SendCommand(Me, "role", p, role, 0, 0)
    BY <1>0, <1>1 DEF ChangeRole
  <2> QED
    BY <1>0, <1>1, <2>1, StaffSendStep DEF ChangeRole, OfInvitation
<1>2. CASE RemoveMember(p)
  BY <1>0, <1>2, StaffSendStep DEF RemoveMember, OfInvitation
<1>3. CASE OtherOwner(p)
  <2>1. ASSUME NEW q \in Staffers, NEW role \in Role, SendCommand(p, "role", q, role, 0, 0)
        PROVE  TeamInv'
    BY <1>0, <1>3, <2>1, StaffSendStep DEF OtherOwner, OfInvitation
  <2>2. ASSUME NEW q \in Staffers, SendCommand(p, "remove", q, "Staff", 0, 0) PROVE TeamInv'
    BY <1>0, <1>3, <2>2, StaffSendStep DEF OtherOwner, OfInvitation
  <2> QED
    BY <1>3, <2>1, <2>2 DEF OtherOwner
<1>4. CASE SubmitInvite(p, newRole)
  BY <1>0, <1>4, StaffSendStep DEF SubmitInvite, OfInvitation
<1> QED
  BY <1>1, <1>2, <1>3, <1>4

LEMMA InvitesStep ==
    ASSUME TeamInv,
           \/ \E i \in pending : ResendInvite(i) \/ CancelInvite(i)
           \/ \E x \in invitePages : AcceptInvite(x[1], x[2])
    PROVE  TeamInv'
<1>0. Me \in Staffers /\ 0 \in 0 .. MaxMails
  BY TeamAssumption
<1>1. ASSUME NEW i \in pending, ResendInvite(i) \/ CancelInvite(i) PROVE TeamInv'
  <2>1. i.email \in Staffers /\ i.role \in Role /\ i.id \in 0 .. MaxInvites /\ i.id \in InviteIds
    BY DEF TeamInv, InvitationsAreKnown, Invitation
  <2>2. CASE ResendInvite(i)
    BY <1>0, <2>1, <2>2, StaffSendStep DEF ResendInvite
  <2>3. CASE CancelInvite(i)
    BY <1>0, <2>1, <2>3, StaffSendStep DEF CancelInvite
  <2> QED
    BY <1>1, <2>2, <2>3
<1>2. ASSUME NEW x \in invitePages, AcceptInvite(x[1], x[2]) PROVE TeamInv'
  <2>1. x[1] \in InviteIds /\ x[1] \in 0 .. MaxInvites /\ x[2] \in 0 .. MaxMails
    BY DEF TeamInv, InvitationsAreKnown
  <2>2. InviteRow(x[1]).email \in Staffers /\ InviteRow(x[1]).role \in Role
    BY <2>1, KnownRow DEF TeamInv, Invitation
  <2> QED
    BY <1>2, <2>1, <2>2, StaffSendStep DEF AcceptInvite
<1> QED
  BY <1>1, <1>2

(* The lists, the pages, the tokens and the clock.                         *)
LEMMA OthersStep ==
    ASSUME TeamInv,
           \/ ListStaff
           \/ \E p \in Staffers : RefreshClaim(p)
           \/ \E i \in invitations : OpenInvite(i) \/ InvitationExpires(i)
    PROVE  TeamInv'
<1>1. UNCHANGED <<users, commands, commandsSent, crossed>>
  BY DEF ListStaff, RefreshClaim, OpenInvite, InvitationExpires, people
<1>2. Costly' = Costly /\ Owners' = Owners
  BY <1>1 DEF Costly, CostsOwner, Owners, OnTeam
<1>3. \A p \in Staffers : users[p].role \in Role
  BY DEF TeamInv, PeopleAreTyped, User
<1>4. PeopleAreTyped'
  BY <1>1, <1>3 DEF ListStaff, RefreshClaim, OpenInvite, InvitationExpires, people, teamPage,
                    TeamInv, PeopleAreTyped
<1>5. InvitationsAreKnown' /\ \A c \in commands : Sound(c)'
  <2>1. CASE ListStaff
    BY <2>1 DEF ListStaff, people, TeamInv, InvitationsAreKnown, InviteIds, CommandsAreSound, Sound
  <2>2. ASSUME NEW p \in Staffers, RefreshClaim(p)
        PROVE  InvitationsAreKnown' /\ \A c \in commands : Sound(c)'
    BY <2>2 DEF RefreshClaim, teamPage, TeamInv, InvitationsAreKnown, InviteIds, CommandsAreSound,
                Sound
  <2>3. ASSUME NEW i \in invitations, OpenInvite(i)
        PROVE  InvitationsAreKnown' /\ \A c \in commands : Sound(c)'
    <3>1. <<i.id, i.link>> \in (1 .. MaxInvites) \X (1 .. MaxMails) /\ i.id \in InviteIds
      BY DEF TeamInv, InvitationsAreKnown, Invitation, InviteIds
    <3> QED
      BY <2>3, <3>1 DEF OpenInvite, people, teamPage, TeamInv, InvitationsAreKnown, InviteIds,
                        CommandsAreSound, Sound
  <2>4. ASSUME NEW i \in invitations, InvitationExpires(i)
        PROVE  InvitationsAreKnown' /\ \A c \in commands : Sound(c)'
    <3> DEFINE j == [i EXCEPT !.expired = TRUE]
    <3>1. j \in Invitation /\ j.id \in InviteIds
      BY DEF TeamInv, InvitationsAreKnown, Invitation, InviteIds
    <3>2. SetInvite(j) /\ UNCHANGED <<teamPage, invitePages>>
      BY <2>4 DEF InvitationExpires
    <3> HIDE DEF j
    <3> QED
      BY <3>1, <3>2, SetInviteKeeps, KnownStays DEF TeamInv
  <2> QED
    BY <2>1, <2>2, <2>3, <2>4
<1> QED
  BY <1>1, <1>2, <1>4, <1>5 DEF TeamInv, CommandsAreSound, OwnersAreKept

-----------------------------------------------------------------------------
(* The handlers.                                                           *)

(* Who else is an owner when a demotion or removal has counted them.       *)
LEMMA AnotherOwner ==
    ASSUME NEW p, Cardinality(Owners) > 1
    PROVE  Owners \ {p} # {}
<1> SUFFICES ASSUME Owners \subseteq {p} PROVE FALSE
  OBVIOUS
<1>1. IsFiniteSet({p}) /\ Cardinality({p}) = 1
  BY FS_Singleton
<1>2. Cardinality(Owners) <= 1 /\ IsFiniteSet(Owners)
  BY <1>1, FS_Subset
<1>3. Cardinality(Owners) \in Nat
  BY <1>2, FS_CardinalityType
<1> QED
  BY <1>2, <1>3

(* A command c goes on as d: what is then of the others.                   *)
LEMMA StageSound ==
    ASSUME TeamInv, NEW c \in commands, NEW d \in Command,
           d.kind = c.kind, d.role = c.role, d.inv = c.inv,
           commands' = (commands \ {c}) \cup {d}, \A x \in commands : Sound(x)'
    PROVE  CommandsAreSound'
<1>1. Sound(d)'
  BY DEF Sound
<1> QED
  BY <1>1 DEF TeamInv, CommandsAreSound

LEMMA FailStep ==
    ASSUME TeamInv, NEW c \in commands, Stage(c, "failed"), crossed' \in BOOLEAN,
           crossed => crossed', UNCHANGED <<people, commandsSent, teamPage, invitePages>>
    PROVE  TeamInv'
<1> DEFINE d == [c EXCEPT !.at = "failed"]
<1>1. d \in Command /\ d.at = "failed" /\ d.kind = c.kind /\ d.role = c.role /\ d.inv = c.inv
  BY DEF TeamInv, CommandsAreSound, Command
<1>2. commands' = (commands \ {c}) \cup {d}
  BY DEF Stage
<1> HIDE DEF d
<1>3. UNCHANGED <<users, claims, invitations, members, pending>>
  BY DEF people, teamPage
<1>4. PeopleAreTyped' /\ InvitationsAreKnown' /\ \A x \in commands : Sound(x)'
  BY <1>3 DEF TeamInv, PeopleAreTyped, InvitationsAreKnown, InviteIds, CommandsAreSound, Sound
<1>5. CommandsAreSound'
  BY <1>1, <1>2, <1>4, StageSound
<1>6. Costly' \subseteq Costly /\ Owners' = Owners
  BY <1>1, <1>2, <1>3 DEF Costly, CostsOwner, Owners, OnTeam
<1> QED
  BY <1>4, <1>5, <1>6 DEF TeamInv, OwnersAreKept

LEMMA StaffReadStep ==
    ASSUME TeamInv, NEW c \in commands, ReadCommand(c)
    PROVE  TeamInv'
<1>0. /\ c \in Command /\ c.who \in Staffers /\ users[c.who].role \in Role
      /\ crossed' \in BOOLEAN /\ (crossed => crossed')
      /\ UNCHANGED <<people, commandsSent, teamPage, invitePages>>
  BY DEF TeamInv, CommandsAreSound, Command, PeopleAreTyped, User, ReadCommand
<1>1. CASE ~MayDo(c)
  BY <1>0, <1>1, FailStep DEF ReadCommand
<1>2. CASE MayDo(c)
  <2> DEFINE d == [c EXCEPT !.at = "read", !.was = users[c.who].role]
  <2>1. /\ d \in Command /\ d.kind = c.kind /\ d.role = c.role /\ d.inv = c.inv
        /\ d.who = c.who
    BY <1>0 DEF Command
  <2>2. commands' = (commands \ {c}) \cup {d} /\ c.at = "sent"
    BY <1>2 DEF ReadCommand
  <2> HIDE DEF d
  <2>3. UNCHANGED <<users, claims, invitations, members, pending>>
    BY <1>0 DEF people, teamPage
  <2>4. PeopleAreTyped' /\ InvitationsAreKnown' /\ \A x \in commands : Sound(x)'
    BY <1>0, <2>3
    DEF TeamInv, PeopleAreTyped, InvitationsAreKnown, InviteIds, CommandsAreSound, Sound
  <2>5. CommandsAreSound'
    BY <2>1, <2>2, <2>4, StageSound
  <2>6. /\ Owners' = Owners /\ Costly' \subseteq Costly \cup {d}
        /\ ~CostsOwner(c) => Costly' \subseteq Costly
    BY <2>1, <2>2, <2>3 DEF Costly, CostsOwner, Owners, OnTeam
  <2>7. OwnersAreKept'
    <3> SUFFICES ASSUME ~crossed' PROVE OwnersAreKept'
      BY DEF OwnersAreKept
    <3>1. /\ Owners # {} /\ \A x, y \in Costly : x = y
          /\ \A x \in Costly : Owners \ {x.who} # {}
      BY <1>0 DEF TeamInv, OwnersAreKept
    <3>2. CASE ~CostsOwner(c)
      BY <2>6, <3>1, <3>2 DEF OwnersAreKept
    <3>3. CASE CostsOwner(c)
      <4>1. Costly = {}
        BY <3>3 DEF ReadCommand, Costly
      <4>2. OnTeam(c.who) /\ OwnerCountAllows(c)
        BY <1>2, <3>3 DEF MayDo, CostsOwner
      <4>3. Owners \ {c.who} # {}
        <5>1. CASE users[c.who].role = "Owner"
          BY <4>2, <5>1, AnotherOwner DEF OwnerCountAllows
        <5>2. CASE users[c.who].role # "Owner"
          BY <3>1, <5>2 DEF Owners
        <5> QED
          BY <5>1, <5>2
      <4> QED
        BY <2>1, <2>6, <3>1, <4>1, <4>3 DEF OwnersAreKept
    <3> QED
      BY <3>2, <3>3
  <2> QED
    BY <2>4, <2>5, <2>7 DEF TeamInv
<1> QED
  BY <1>1, <1>2

(* What a command that is saved does to the invitations.                   *)
LEMMA SaveInvitationKeeps ==
    ASSUME TeamInv, NEW c \in commands, SaveCommand(c)
    PROVE  /\ invitations' \subseteq Invitation /\ IsFiniteSet(invitations')
           /\ InviteIds \subseteq InviteIds'
<1>0. c \in Command /\ Sound(c) /\ InvitationsAreKnown
  BY DEF TeamInv, CommandsAreSound
<1>1. CASE c.kind \in {"role", "remove"}
  BY <1>0, <1>1 DEF SaveCommand, InvitationsAreKnown, InviteIds
<1>2. CASE c.kind = "invite"
  <2> DEFINE i == [id |-> Cardinality(invitations) + 1, email |-> c.who, role |-> c.role,
                   link |-> 1, accepted |-> FALSE, deleted |-> FALSE, expired |-> FALSE]
  <2>1. Cardinality(invitations) \in Nat
    BY <1>0, FS_CardinalityType DEF InvitationsAreKnown
  <2>2. Cardinality(invitations) + 1 \in 1 .. MaxInvites
    BY <1>2, <2>1, TeamAssumption DEF SaveCommand
  <2>3. i \in Invitation
    BY <1>0, <2>2, TeamAssumption DEF Invitation, Command
  <2>4. invitations' = invitations \cup {i}
    BY <1>2 DEF SaveCommand, SaveInvitation
  <2> HIDE DEF i
  <2> QED
    BY <1>0, <2>3, <2>4, FS_AddElement DEF InvitationsAreKnown, InviteIds
<1>3. CASE c.kind \in OfInvitation
  <2> DEFINE i == InviteRow(c.inv)
  <2>1. i \in Invitation /\ i.id = c.inv /\ c.inv \in InviteIds
    BY <1>0, <1>3, KnownRow DEF Sound
  <2>2. PICK j \in Invitation : j.id = i.id /\ SetInvite(j)
    <3>1. CASE c.kind = "resend"
      <4>1. i.link + 1 \in 1 .. MaxMails
        BY <2>1, <3>1, TeamAssumption DEF SaveCommand, Invitation
      <4>2. [i EXCEPT !.link = @ + 1, !.expired = FALSE] \in Invitation
        BY <2>1, <4>1 DEF Invitation
      <4>3. [i EXCEPT !.link = @ + 1, !.expired = FALSE].id = i.id
        BY <2>1 DEF Invitation
      <4>4. SetInvite([i EXCEPT !.link = @ + 1, !.expired = FALSE])
        BY <3>1 DEF SaveCommand, SaveInvitation
      <4> QED
        BY <4>2, <4>3, <4>4
    <3>2. CASE c.kind = "cancel"
      <4>1. [i EXCEPT !.deleted = TRUE] \in Invitation /\ [i EXCEPT !.deleted = TRUE].id = i.id
        BY <2>1 DEF Invitation
      <4>2. SetInvite([i EXCEPT !.deleted = TRUE])
        BY <3>2 DEF SaveCommand, SaveInvitation
      <4> QED
        BY <4>1, <4>2
    <3>3. CASE c.kind = "accept"
      <4>1. [i EXCEPT !.accepted = TRUE] \in Invitation /\ [i EXCEPT !.accepted = TRUE].id = i.id
        BY <2>1 DEF Invitation
      <4>2. SetInvite([i EXCEPT !.accepted = TRUE])
        BY <3>3 DEF SaveCommand, SaveInvitation
      <4> QED
        BY <4>1, <4>2
    <3> QED
      BY <1>3, <3>1, <3>2, <3>3 DEF OfInvitation
  <2> HIDE DEF i
  <2> QED
    BY <1>0, <2>1, <2>2, SetInviteKeeps
<1> QED
  BY <1>0, <1>1, <1>2, <1>3 DEF Command, OfInvitation

(* And to the people: only a demotion or a removal costs an owner, the one *)
(* it is about.                                                            *)
LEMMA SavePeopleKeeps ==
    ASSUME TeamInv, NEW c \in commands, SaveCommand(c)
    PROVE  /\ users' \in [Staffers -> User]
           /\ Owners \ {c.who} \subseteq Owners'
           /\ ~CostsOwner(c) => Owners \subseteq Owners'
<1>0. c \in Command /\ Sound(c) /\ users \in [Staffers -> User]
  BY DEF TeamInv, CommandsAreSound, PeopleAreTyped
<1>1. c.who \in Staffers /\ c.role \in Role
  BY <1>0 DEF Command
<1>2. CASE c.kind = "role"
  <2>1. [users[c.who] EXCEPT !.role = c.role] \in User
    BY <1>0, <1>1 DEF User
  <2>2. users' \in {users, [users EXCEPT ![c.who] = [users[c.who] EXCEPT !.role = c.role]]}
    BY <1>2 DEF SaveCommand, SaveRole
  <2>3. \A p \in Staffers \ {c.who} : users'[p] = users[p]
    BY <1>0, <2>2
  <2>4. c.role = "Owner" => users'[c.who] = users[c.who]
                             \/ (users'[c.who].is = users[c.who].is /\ users'[c.who].role = "Owner")
    BY <1>0, <1>1, <2>2 DEF User
  <2>5. users' \in [Staffers -> User]
    BY <1>0, <1>1, <2>1, <2>2
  <2>6. ~CostsOwner(c) => c.role = "Owner"
    BY <1>1, <1>2 DEF CostsOwner, Role
  <2> QED
    BY <2>3, <2>4, <2>5, <2>6 DEF Owners, OnTeam
<1>3. CASE c.kind = "remove"
  <2>1. [users[c.who] EXCEPT !.is = "removed"] \in User
    BY <1>0, <1>1 DEF User
  <2>2. users' = [users EXCEPT ![c.who] = [users[c.who] EXCEPT !.is = "removed"]]
    BY <1>3 DEF SaveCommand
  <2>3. users' \in [Staffers -> User] /\ \A p \in Staffers \ {c.who} : users'[p] = users[p]
    BY <1>0, <1>1, <2>1, <2>2
  <2>4. CostsOwner(c)
    BY <1>0, <1>3 DEF Sound, CostsOwner
  <2> QED
    BY <2>3, <2>4 DEF Owners, OnTeam
<1>4. CASE c.kind = "accept"
  <2>1. [is |-> "there", role |-> c.role] \in User
    BY <1>1 DEF User
  <2>2. users' = [users EXCEPT ![c.who] = [is |-> "there", role |-> c.role]]
    BY <1>4 DEF SaveCommand
  <2>3. users' \in [Staffers -> User] /\ \A p \in Staffers \ {c.who} : users'[p] = users[p]
    BY <1>0, <1>1, <2>1, <2>2
  <2>4. c.who \notin Owners
    BY <1>4 DEF SaveCommand, Owners, OnTeam
  <2> QED
    BY <2>3, <2>4 DEF Owners, OnTeam
<1>5. CASE c.kind \in {"invite", "resend", "cancel"}
  BY <1>0, <1>5 DEF SaveCommand, Owners, OnTeam
<1> QED
  BY <1>0, <1>2, <1>3, <1>4, <1>5 DEF Command

LEMMA StaffSaveStep ==
    ASSUME TeamInv, NEW c \in commands, SaveCommand(c)
    PROVE  TeamInv'
<1> DEFINE d == [c EXCEPT !.at = "done"]
<1>1. d \in Command /\ d.at = "done" /\ d.kind = c.kind /\ d.role = c.role /\ d.inv = c.inv
  BY DEF TeamInv, CommandsAreSound, Command
<1>2. /\ c.at = "read" /\ commands' = (commands \ {c}) \cup {d}
      /\ UNCHANGED <<claims, commandsSent, teamPage, invitePages, crossed>>
  BY DEF SaveCommand, Stage
<1> HIDE DEF d
<1>3. PeopleAreTyped'
  BY <1>2, SavePeopleKeeps DEF TeamInv, PeopleAreTyped, teamPage
<1>4. InvitationsAreKnown' /\ \A x \in commands : Sound(x)'
  BY <1>2, SaveInvitationKeeps, KnownStays
<1>5. CommandsAreSound'
  BY <1>1, <1>2, <1>4, StageSound
<1>6. Costly' \subseteq Costly \ {c}
  BY <1>1, <1>2 DEF Costly, CostsOwner
<1>7. OwnersAreKept'
  <2> SUFFICES ASSUME ~crossed PROVE OwnersAreKept'
    BY <1>2 DEF OwnersAreKept
  <2>1. /\ Owners # {} /\ \A x, y \in Costly : x = y
        /\ \A x \in Costly : Owners \ {x.who} # {}
    BY DEF TeamInv, OwnersAreKept
  <2>2. CASE CostsOwner(c)
    <3>1. c \in Costly
      BY <1>2, <2>2 DEF Costly
    <3>2. Costly' = {} /\ Owners' # {}
      BY <1>6, <2>1, <3>1, SavePeopleKeeps
    <3> QED
      BY <3>2 DEF OwnersAreKept
  <2>3. CASE ~CostsOwner(c)
    <3>1. Owners \subseteq Owners'
      BY <2>3, SavePeopleKeeps
    <3> QED
      BY <1>6, <2>1, <3>1 DEF OwnersAreKept
  <2> QED
    BY <2>2, <2>3
<1> QED
  BY <1>3, <1>4, <1>5, <1>7 DEF TeamInv

LEMMA StaffAnswerStep ==
    ASSUME TeamInv, NEW c \in commands, CommandAnswered(c)
    PROVE  TeamInv'
<1>1. /\ commands' = commands \ {c}
      /\ UNCHANGED <<users, invitations, commandsSent, members, pending, invitePages, crossed>>
  BY DEF CommandAnswered
<1>2. claims' \in [Staffers -> Role \cup {"none"}]
  BY DEF CommandAnswered, TeamInv, PeopleAreTyped, CommandsAreSound, Command
<1>3. PeopleAreTyped' /\ InvitationsAreKnown' /\ CommandsAreSound'
  BY <1>1, <1>2
  DEF TeamInv, PeopleAreTyped, InvitationsAreKnown, InviteIds, CommandsAreSound, Sound
<1>4. Costly' \subseteq Costly /\ Owners' = Owners
  BY <1>1 DEF Costly, CostsOwner, Owners, OnTeam
<1> QED
  BY <1>1, <1>3, <1>4 DEF TeamInv, OwnersAreKept

LEMMA TeamStep == TeamInv /\ [TeamNext]_teamVars => TeamInv'
<1> SUFFICES ASSUME TeamInv, [TeamNext]_teamVars PROVE TeamInv'
  OBVIOUS
<1>1. ASSUME NEW p \in Staffers, NEW role \in Role,
             ChangeRole(p) \/ RemoveMember(p) \/ OtherOwner(p) \/ SubmitInvite(p, role)
      PROVE  TeamInv'
  BY <1>1, MembersStep
<1>2. ASSUME \/ \E i \in pending : ResendInvite(i) \/ CancelInvite(i)
             \/ \E x \in invitePages : AcceptInvite(x[1], x[2])
      PROVE  TeamInv'
  BY <1>2, InvitesStep
<1>3. ASSUME \/ ListStaff
             \/ \E p \in Staffers : RefreshClaim(p)
             \/ \E i \in invitations : OpenInvite(i) \/ InvitationExpires(i)
      PROVE  TeamInv'
  BY <1>3, OthersStep
<1>4. ASSUME NEW c \in commands,
             ReadCommand(c) \/ SaveCommand(c) \/ AddressIsTaken(c) \/ CommandAnswered(c)
      PROVE  TeamInv'
  <2>1. CASE AddressIsTaken(c)
    <3>1. crossed' \in BOOLEAN /\ (crossed => crossed')
      BY <2>1 DEF AddressIsTaken, TeamInv, PeopleAreTyped
    <3> QED
      BY <2>1, <3>1, FailStep DEF AddressIsTaken
  <2> QED
    BY <1>4, <2>1, StaffReadStep, StaffSaveStep, StaffAnswerStep
<1>5. CASE UNCHANGED teamVars
  BY <1>5 DEF teamVars, people, teamPage, TeamInv, PeopleAreTyped, InvitationsAreKnown, InviteIds,
     CommandsAreSound, Sound, OwnersAreKept, Costly, CostsOwner, Owners, OnTeam
<1>6. \E role : role \in Role
  BY DEF Role
<1> QED
  BY <1>1, <1>2, <1>3, <1>4, <1>5, <1>6 DEF TeamNext

(* The inductive invariant of the team.                                    *)
THEOREM TeamInvariant == TeamSpec => []TeamInv
BY TeamInitInv, TeamStep, PTL DEF TeamSpec

(* The team is type correct.                                               *)
THEOREM TeamTypeCorrect == TeamSpec => []TeamTypeOK
<1>1. TeamInv => TeamTypeOK
  BY DEF TeamInv, PeopleAreTyped, InvitationsAreKnown, CommandsAreSound, TeamTypeOK
<1> QED
  BY <1>1, TeamInvariant, PTL

(* A tenant keeps an owner unless two demotions or removals crossed, for   *)
(* any people, invitations and commands.                                   *)
THEOREM TeamKeepsOwner == TeamSpec => []OwnerRemains
<1>1. TeamInv => OwnerRemains
  BY DEF TeamInv, PeopleAreTyped, OwnersAreKept, OwnerRemains
<1> QED
  BY <1>1, TeamInvariant, PTL

-----------------------------------------------------------------------------
(* Only an account that is there has sessions, logins and resets.          *)
NothingBeforeAccount ==
    account.is = "none" =>
        /\ sessions = {}
        /\ \A t \in Tabs : tabs[t].page # "reset"
        /\ \A q \in forms : q.kind # "reset" /\ (q.kind = "login" => q.at # "read")

(* A session in use that was not stored late is of today's password, and   *)
(* every reset that has looked at the sessions has found it.               *)
SessionsAreToday ==
    \A s \in sessions : s.usable /\ ~s.late =>
        /\ s.password = account.password
        /\ \A q \in forms : q.kind = "reset" /\ q.at = "read" => s.id \in q.revokes

AccountsInv == AccountsTypeOK /\ NothingBeforeAccount /\ SessionsAreToday

(* A request of a tab, and what becomes of it.                             *)
LEMMA FormTypes ==
    ASSUME NEW q \in Form
    PROVE  /\ q.tab \in Tabs /\ q.id \in Numbers /\ q.password \in Numbers /\ q.ours \in BOOLEAN
           /\ q.kind \in Pages \ {"dashboard"}
           /\ \A at \in {"sent", "read", "done", "refused"} :
                 /\ [q EXCEPT !.at = at] \in Form /\ [q EXCEPT !.at = at].at = at
                 /\ [q EXCEPT !.at = at].kind = q.kind
                 /\ [q EXCEPT !.at = at].revokes = q.revokes
           /\ [q EXCEPT !.ours = FALSE] \in Form /\ [q EXCEPT !.ours = FALSE].at = q.at
           /\ [q EXCEPT !.ours = FALSE].kind = q.kind
           /\ [q EXCEPT !.ours = FALSE].revokes = q.revokes
BY DEF Form

LEMMA TabTypes ==
    /\ \A page \in Pages : At(page) \in Tab /\ At(page).page = page
    /\ \A token \in Numbers : [At("reset") EXCEPT !.token = token] \in Tab
    /\ \A tab \in Tab : /\ tab.page \in Pages
                        /\ \A said \in {"nothing", "success", "error"} :
                              /\ [tab EXCEPT !.said = said] \in Tab
                              /\ [tab EXCEPT !.said = said].page = tab.page
BY AccountsAssumption DEF Tab, At, Numbers, Pages

LEMMA LeftForms ==
    ASSUME AccountsTypeOK, NEW t \in Tabs
    PROVE  /\ Left(t) \subseteq Form
           /\ \A r \in Left(t) : \E q \in forms :
                 r.kind = q.kind /\ r.at = q.at /\ r.revokes = q.revokes
<1>1. \A q \in forms : q \in Form
  BY DEF AccountsTypeOK
<1>2. ASSUME NEW r \in Left(t)
      PROVE  /\ r \in Form
             /\ \E q \in forms : r.kind = q.kind /\ r.at = q.at /\ r.revokes = q.revokes
  <2>1. PICK q \in forms : r = IF q.tab = t THEN [q EXCEPT !.ours = FALSE] ELSE q
    BY DEF Left
  <2>2. q \in Form
    BY <1>1
  <2> QED  BY <2>1, <2>2, FormTypes
<1> QED  BY <1>2

(* Nothing new is read or stored: the forms that are left are forms that   *)
(* were there, or have not been read.                                      *)
LEMMA SameAccount ==
    ASSUME AccountsInv, UNCHANGED <<account, sessions>>,
           forms' \subseteq Form, sentForms' \in Numbers, tabs' \in [Tabs -> Tab],
           \A r \in forms' :
              \/ \E q \in forms : r.kind = q.kind /\ r.at = q.at /\ r.revokes = q.revokes
              \/ /\ r.at = "read" => r.kind # "reset" /\ account.is # "none"
                 /\ account.is = "none" => r.kind # "reset",
           account.is = "none" => \A t \in Tabs : tabs'[t].page # "reset"
    PROVE  AccountsInv'
<1>1. AccountsTypeOK' /\ NothingBeforeAccount'
  BY DEF AccountsInv, AccountsTypeOK, NothingBeforeAccount
<1>2. SessionsAreToday'
  BY DEF AccountsInv, SessionsAreToday
<1> QED  BY <1>1, <1>2 DEF AccountsInv

(* Links.                                                                  *)
LEMMA GoStep ==
    ASSUME AccountsInv, NEW t \in Tabs, NEW page \in Pages, NEW token \in Numbers,
           GoToPage(t, page) \/ OpenReset(t, token)
    PROVE  AccountsInv'
<1>0. AccountsTypeOK /\ tabs \in [Tabs -> Tab]
  BY DEF AccountsInv, AccountsTypeOK
<1>1. PICK tab \in Tab : /\ tabs' = [tabs EXCEPT ![t] = tab]
                         /\ account.is = "none" => tab.page # "reset"
  <2>1. CASE GoToPage(t, page)
    BY <2>1, TabTypes DEF GoToPage
  <2>2. CASE OpenReset(t, token)
    BY <2>2, TabTypes DEF OpenReset
  <2> QED  BY <2>1, <2>2
<1>2. /\ tabs' \in [Tabs -> Tab]
      /\ account.is = "none" => \A x \in Tabs : tabs'[x].page # "reset"
  BY <1>0, <1>1 DEF AccountsInv, NothingBeforeAccount
<1>3. forms' = Left(t) /\ UNCHANGED <<account, sessions, sentForms>>
  BY DEF GoToPage, OpenReset
<1>4. sentForms' \in Numbers
  BY <1>0, <1>3 DEF AccountsTypeOK
<1> QED  BY <1>0, <1>2, <1>3, <1>4, LeftForms, SameAccount

(* A form that is sent has not been read.                                  *)
LEMMA SendFormStep ==
    ASSUME AccountsInv, NEW t \in Tabs, NEW kind \in Pages \ {"dashboard"}, NEW token \in Numbers,
           NEW password \in Numbers, NEW others \in {forms, Left(t)},
           SendForm(t, kind, token, password, others),
           account.is = "none" => kind # "reset",
           tabs' \in [Tabs -> Tab],
           account.is = "none" => \A x \in Tabs : tabs'[x].page # "reset"
    PROVE  AccountsInv'
<1> DEFINE q == [id |-> sentForms + 1, tab |-> t, kind |-> kind, token |-> token, at |-> "sent",
                 password |-> password, ours |-> TRUE, revokes |-> {}]
<1>1. sentForms + 1 \in Numbers
  BY AccountsAssumption DEF SendForm, Numbers, AccountsInv, AccountsTypeOK
<1>2. q \in Form /\ q.at = "sent" /\ q.kind = kind
  BY <1>1 DEF Form
<1>3. /\ forms' = others \cup {q} /\ sentForms' = sentForms + 1
      /\ UNCHANGED <<account, sessions>>
  BY DEF SendForm
<1>4. /\ others \subseteq Form
      /\ \A r \in others : \E x \in forms :
            r.kind = x.kind /\ r.at = x.at /\ r.revokes = x.revokes
  BY LeftForms DEF AccountsInv, AccountsTypeOK
<1> HIDE DEF q
<1> QED  BY <1>1, <1>2, <1>3, <1>4, SameAccount

LEMMA SubmitStep ==
    ASSUME AccountsInv, NEW t \in Tabs,
           \/ \E password \in 0 .. sentForms : SubmitLogin(t, password)
           \/ SubmitRegister(t) \/ SubmitForgot(t) \/ SubmitReset(t) \/ OpenVerify(t)
    PROVE  AccountsInv'
<1>0. /\ tabs \in [Tabs -> Tab] /\ tabs[t] \in Tab /\ tabs[t].token \in Numbers
      /\ account.is = "none" => \A x \in Tabs : tabs[x].page # "reset"
      /\ {"register", "login", "forgot", "reset", "verify"} = Pages \ {"dashboard"}
  BY DEF AccountsInv, AccountsTypeOK, NothingBeforeAccount, Tab, Pages
<1>1. 0 \in Numbers /\ \A n \in 0 .. sentForms : n \in Numbers
  BY AccountsAssumption DEF Numbers, AccountsInv, AccountsTypeOK
<1>2. sentForms < MaxForms => sentForms + 1 \in Numbers
  BY AccountsAssumption DEF Numbers, AccountsInv, AccountsTypeOK
<1>3. ASSUME NEW password \in 0 .. sentForms, SubmitLogin(t, password) PROVE AccountsInv'
  BY <1>0, <1>1, <1>3, SendFormStep DEF SubmitLogin
<1>4. CASE SubmitRegister(t)
  <2>1. sentForms + 1 \in Numbers
    BY <1>2, <1>4 DEF SubmitRegister, SendForm
  <2> QED  BY <1>0, <1>1, <1>4, <2>1, SendFormStep DEF SubmitRegister
<1>5. CASE SubmitForgot(t)
  BY <1>0, <1>1, <1>5, SendFormStep DEF SubmitForgot
<1>6. CASE SubmitReset(t)
  <2>1. sentForms + 1 \in Numbers /\ account.is # "none"
    BY <1>0, <1>2, <1>6 DEF SubmitReset, SendForm
  <2>2. tabs' \in [Tabs -> Tab]
    <3>1. tabs' = [tabs EXCEPT ![t] = [tabs[t] EXCEPT !.said = "nothing"]]
      BY <1>0, <1>6 DEF SubmitReset
    <3> QED  BY <1>0, <3>1, TabTypes
  <2> QED  BY <1>0, <1>1, <1>6, <2>1, <2>2, SendFormStep DEF SubmitReset
<1>7. CASE OpenVerify(t)
  <2>1. account.is # "none" /\ tabs' = [tabs EXCEPT ![t] = At("verify")]
    BY <1>7 DEF OpenVerify
  <2>2. tabs' \in [Tabs -> Tab]
    BY <1>0, <2>1, TabTypes DEF Pages
  <2> QED  BY <1>0, <1>1, <1>7, <2>1, <2>2, SendFormStep DEF OpenVerify
<1> QED  BY <1>3, <1>4, <1>5, <1>6, <1>7

(* A request that changes no session: it is refused, or a login is read.   *)
LEMMA LookStep ==
    ASSUME AccountsInv, NEW q \in forms, RefuseForm(q) \/ ReadLogin(q)
    PROVE  AccountsInv'
<1>1. q \in Form /\ tabs \in [Tabs -> Tab] /\ sentForms \in Numbers
  BY DEF AccountsInv, AccountsTypeOK
<1>2. PICK r \in Form :
          /\ forms' = (forms \ {q}) \cup {r} /\ r.kind = q.kind
          /\ r.at = "read" => r.kind # "reset" /\ account.is # "none"
  <2>1. CASE RefuseForm(q)
    BY <1>1, <2>1, FormTypes DEF RefuseForm, Become
  <2>2. CASE ReadLogin(q)
    <3>1. q.kind = "login" /\ account.is # "none" /\ forms' = Become(q, "read")
      BY <2>2 DEF ReadLogin
    <3>2. [q EXCEPT !.at = "read"] \in Form /\ [q EXCEPT !.at = "read"].kind = q.kind
      BY <1>1, FormTypes
    <3> QED  BY <3>1, <3>2 DEF Become
  <2> QED  BY <2>1, <2>2
<1>3. UNCHANGED <<account, sessions, sentForms, tabs>>
  BY DEF RefuseForm, ReadLogin
<1>4. forms' \subseteq Form
  BY <1>2 DEF AccountsInv, AccountsTypeOK
<1>5. account.is = "none" => /\ \A t \in Tabs : tabs'[t].page # "reset"
                            /\ q.kind # "reset"
  BY <1>3 DEF AccountsInv, NothingBeforeAccount
<1> QED  BY <1>1, <1>2, <1>3, <1>4, <1>5, SameAccount

(* A reset looks at the sessions and finds those that are in use.          *)
LEMMA ReadResetStep ==
    ASSUME AccountsInv, NEW q \in forms, ReadReset(q)
    PROVE  AccountsInv'
<1> DEFINE r == [q EXCEPT !.at = "read", !.revokes = Revoked]
<1>1. q \in Form /\ sessions \subseteq Session /\ q.kind = "reset"
  BY DEF ReadReset, AccountsInv, AccountsTypeOK
<1>2. Revoked \in SUBSET Numbers /\ \A s \in sessions : s.usable => s.id \in Revoked
  BY <1>1 DEF Revoked, Session
<1> HIDE DEF Revoked
<1>3. r \in Form /\ r.kind = "reset" /\ r.at = "read" /\ r.revokes = Revoked
  BY <1>1, <1>2 DEF Form
<1>4. /\ forms' = (forms \ {q}) \cup {r} /\ UNCHANGED <<account, sessions, sentForms, tabs>>
  BY DEF ReadReset
<1> HIDE DEF r
<1>5. AccountsTypeOK'
  BY <1>3, <1>4 DEF AccountsInv, AccountsTypeOK
<1>6. NothingBeforeAccount'
  BY <1>1, <1>4 DEF AccountsInv, NothingBeforeAccount
<1>7. SessionsAreToday'
  BY <1>2, <1>3, <1>4 DEF AccountsInv, SessionsAreToday
<1> QED  BY <1>5, <1>6, <1>7 DEF AccountsInv

(* A reset saves the new password; the sessions it found are over.         *)
LEMMA SaveResetStep ==
    ASSUME AccountsInv, NEW q \in forms, SaveReset(q)
    PROVE  AccountsInv'
<1> DEFINE r == [q EXCEPT !.at = "done"]
<1>1. /\ q \in Form /\ q.kind = "reset" /\ q.at = "read" /\ account \in Account
      /\ sessions \subseteq Session /\ account.is # "none"
  BY DEF SaveReset, AccountsInv, AccountsTypeOK, NothingBeforeAccount
<1>2. r \in Form /\ r.at = "done"
  BY <1>1, FormTypes
<1>3. /\ forms' = (forms \ {q}) \cup {r} /\ UNCHANGED <<sentForms, tabs>>
      /\ account' = [account EXCEPT !.password = q.password, !.resetToken = 0]
      /\ sessions' = {[s EXCEPT !.usable = s.usable /\ s.id \notin q.revokes] : s \in sessions}
  BY DEF SaveReset, Become
<1> HIDE DEF r
<1>4. account' \in Account /\ account'.is = account.is
  <2>1. q.password \in Numbers
    BY <1>1, FormTypes
  <2>2. 0 \in Numbers
    BY AccountsAssumption DEF Numbers
  <2> QED  BY <1>1, <1>3, <2>1, <2>2 DEF Account
<1>5. ASSUME NEW x \in sessions'
      PROVE  /\ x \in Session
             /\ \E s \in sessions : /\ x.late = s.late
                                    /\ x.usable => s.usable /\ s.id \notin q.revokes
  <2>1. PICK s \in sessions : x = [s EXCEPT !.usable = s.usable /\ s.id \notin q.revokes]
    BY <1>3
  <2>2. s \in Session /\ (s.usable /\ s.id \notin q.revokes) \in BOOLEAN
    BY <1>1
  <2>3. \A b \in BOOLEAN : /\ [s EXCEPT !.usable = b] \in Session
                           /\ [s EXCEPT !.usable = b].late = s.late
                           /\ [s EXCEPT !.usable = b].usable = b
    BY <2>2 DEF Session
  <2> QED  BY <2>1, <2>2, <2>3
<1>6. AccountsTypeOK'
  BY <1>2, <1>3, <1>4, <1>5 DEF AccountsInv, AccountsTypeOK
<1>7. NothingBeforeAccount'
  BY <1>1, <1>4 DEF NothingBeforeAccount
<1>8. ASSUME NEW x \in sessions', x.usable, ~x.late PROVE FALSE
  <2>1. PICK s \in sessions : x.late = s.late /\ s.usable /\ s.id \notin q.revokes
    BY <1>5, <1>8
  <2>2. s.usable /\ ~s.late
    BY <1>8, <2>1
  <2>3. s.id \in q.revokes
    BY <1>1, <2>2 DEF AccountsInv, SessionsAreToday
  <2> QED  BY <2>1, <2>3
<1> QED  BY <1>6, <1>7, <1>8 DEF AccountsInv, SessionsAreToday

(* A login is stored: in time, if no reset has looked and the password is  *)
(* still the one that was checked.                                         *)
LEMMA SaveLoginStep ==
    ASSUME AccountsInv, NEW q \in forms, SaveLogin(q)
    PROVE  AccountsInv'
<1> DEFINE r == [q EXCEPT !.at = "done"]
           late == \/ q.password # account.password
                   \/ \E x \in forms : x.kind = "reset" /\ x.at = "read"
           s == [id |-> q.id, password |-> q.password, usable |-> TRUE, late |-> late]
<1>1. q \in Form /\ q.kind = "login" /\ q.at = "read" /\ account.is # "none"
  BY DEF SaveLogin, AccountsInv, AccountsTypeOK, NothingBeforeAccount
<1>2. r \in Form /\ r.at = "done"
  BY <1>1, FormTypes
<1>3. late \in BOOLEAN
  OBVIOUS
<1> HIDE DEF late
<1>4. s \in Session /\ s.password = q.password /\ s.late = late
  BY <1>1, <1>3, FormTypes DEF Session
<1>5. /\ forms' = (forms \ {q}) \cup {r} /\ sessions' = sessions \cup {s}
      /\ UNCHANGED <<account, sentForms, tabs>>
  BY DEF SaveLogin, Become, late
<1> HIDE DEF r, s
<1>6. AccountsTypeOK' /\ NothingBeforeAccount'
  BY <1>1, <1>2, <1>4, <1>5 DEF AccountsInv, AccountsTypeOK, NothingBeforeAccount
<1>7. ~late => /\ s.password = account.password
               /\ \A x \in forms' : ~(x.kind = "reset" /\ x.at = "read")
  BY <1>2, <1>4, <1>5 DEF late
<1>8. SessionsAreToday'
  BY <1>2, <1>4, <1>5, <1>7 DEF AccountsInv, SessionsAreToday
<1> QED  BY <1>6, <1>8 DEF AccountsInv

(* The account comes into being, with its first session.                   *)
LEMMA RegisterStep ==
    ASSUME AccountsInv, NEW q \in forms, Register(q)
    PROVE  AccountsInv'
<1> DEFINE r == [q EXCEPT !.at = "done"]
           s == [id |-> q.id, password |-> q.password, usable |-> TRUE, late |-> FALSE]
           a == [is |-> "unverified", password |-> q.password, resetToken |-> 0]
<1>1. /\ q \in Form /\ account.is = "none" /\ sessions = {}
      /\ \A x \in forms : x.kind # "reset"
  BY DEF Register, AccountsInv, AccountsTypeOK, NothingBeforeAccount
<1>2. r \in Form /\ r.kind # "reset"
  <2>1. q.kind # "reset" /\ r \in Form /\ r.kind = q.kind
    BY <1>1, FormTypes
  <2> QED  BY <2>1
<1>3. s \in Session /\ s.password = q.password
  BY <1>1, FormTypes DEF Session
<1>4. a \in Account /\ a.is # "none" /\ a.password = q.password
  <2>1. q.password \in Numbers
    BY <1>1, FormTypes
  <2>2. 0 \in Numbers
    BY AccountsAssumption DEF Numbers
  <2> QED  BY <2>1, <2>2 DEF Account
<1>5. /\ forms' = (forms \ {q}) \cup {r} /\ sessions' = sessions \cup {s} /\ account' = a
      /\ UNCHANGED <<sentForms, tabs>>
  BY DEF Register, Become
<1> HIDE DEF r, s, a
<1> QED  BY <1>1, <1>2, <1>3, <1>4, <1>5
         DEF AccountsInv, AccountsTypeOK, NothingBeforeAccount, SessionsAreToday

(* The mailed tokens.                                                      *)
LEMMA TokenStep ==
    ASSUME AccountsInv, NEW q \in forms, VerifyEmail(q) \/ ForgotPassword(q)
    PROVE  AccountsInv'
<1>1. q \in Form /\ account \in Account
  BY DEF AccountsInv, AccountsTypeOK
<1>2. PICK r \in Form : forms' = (forms \ {q}) \cup {r} /\ r.at # "read" /\ r.kind = q.kind
  BY ZenonT(40), <1>1, FormTypes DEF VerifyEmail, ForgotPassword, Become
<1>3. /\ account' \in Account /\ account'.password = account.password
      /\ account'.is = "none" => account.is = "none"
  <2>1. q.id \in Numbers
    BY <1>1, FormTypes
  <2>2. CASE VerifyEmail(q)
    BY <1>1, <2>2 DEF VerifyEmail, Account
  <2>3. CASE ForgotPassword(q)
    BY <1>1, <2>1, <2>3 DEF ForgotPassword, Account
  <2> QED  BY <2>2, <2>3
<1>4. UNCHANGED <<sessions, sentForms, tabs>>
  BY DEF VerifyEmail, ForgotPassword
<1> QED  BY <1>2, <1>3, <1>4
         DEF AccountsInv, AccountsTypeOK, NothingBeforeAccount, SessionsAreToday

(* The answers.                                                            *)
LEMMA FormAnswerStep ==
    ASSUME AccountsInv, NEW q \in forms, FormDone(q) \/ FormRefused(q) \/ FormLost(q)
    PROVE  AccountsInv'
<1>0. /\ q \in Form /\ tabs \in [Tabs -> Tab] /\ q.tab \in Tabs /\ sentForms \in Numbers
      /\ q.kind \in Pages \ {"dashboard"} /\ AccountsTypeOK
      /\ account.is = "none" => \A t \in Tabs : tabs[t].page # "reset"
  BY FormTypes DEF AccountsInv, AccountsTypeOK, NothingBeforeAccount
<1>1. PICK tab \in Tab : /\ tabs' = [tabs EXCEPT ![q.tab] = tab]
                         /\ tab.page = "reset" => tabs[q.tab].page = "reset"
  <2>1. tabs[q.tab] \in Tab /\ \A said \in {"success", "error"} :
            /\ [tabs[q.tab] EXCEPT !.said = said] \in Tab
            /\ [tabs[q.tab] EXCEPT !.said = said].page = tabs[q.tab].page
    BY <1>0, TabTypes
  <2>2. CASE FormDone(q)
    <3>1. tabs' = [tabs EXCEPT ![q.tab] = After(q)]
      BY <2>2 DEF FormDone
    <3>2. After(q) \in Tab /\ (After(q).page = "reset" => tabs[q.tab].page = "reset")
      BY <2>1, TabTypes DEF After, Pages
    <3> QED  BY <3>1, <3>2
  <2>3. CASE FormRefused(q) \/ FormLost(q)
    <3>1. tabs' = IF q.ours THEN [tabs EXCEPT ![q.tab] = [tabs[q.tab] EXCEPT !.said = "error"]]
                  ELSE tabs
      BY <2>3 DEF FormRefused, FormLost, Sorry
    <3>2. tabs = [tabs EXCEPT ![q.tab] = tabs[q.tab]]
      BY <1>0
    <3> QED  BY <2>1, <3>1, <3>2
  <2> QED  BY <2>2, <2>3
<1>2. /\ tabs' \in [Tabs -> Tab]
      /\ account.is = "none" => \A t \in Tabs : tabs'[t].page # "reset"
  BY <1>0, <1>1
<1>3. UNCHANGED <<account, sessions, sentForms>> /\ forms' \subseteq forms \cup Left(q.tab)
  BY DEF FormDone, FormRefused, FormLost
<1>4. forms' \subseteq Form
  BY <1>0, <1>3, LeftForms DEF AccountsTypeOK
<1>5. \A r \in forms' : \E x \in forms : r.kind = x.kind /\ r.at = x.at /\ r.revokes = x.revokes
  BY <1>0, <1>3, LeftForms
<1> QED  BY <1>0, <1>2, <1>3, <1>4, <1>5, SameAccount

LEMMA AccountsInitInv == AccountsInit => AccountsInv
<1> SUFFICES ASSUME AccountsInit PROVE AccountsInv
  OBVIOUS
<1>1. account \in Account /\ 0 \in Numbers
  BY AccountsAssumption DEF AccountsInit, Account, Numbers
<1>2. tabs \in [Tabs -> Tab] /\ \A t \in Tabs : tabs[t].page = "login"
  BY TabTypes DEF AccountsInit, Pages
<1> QED  BY <1>1, <1>2
         DEF AccountsInit, AccountsInv, AccountsTypeOK, NothingBeforeAccount, SessionsAreToday

LEMMA AccountsStep == AccountsInv /\ [AccountsNext]_accountVars => AccountsInv'
<1> SUFFICES ASSUME AccountsInv, [AccountsNext]_accountVars PROVE AccountsInv'
  OBVIOUS
<1>1. CASE UNCHANGED accountVars
  BY <1>1 DEF accountVars, AccountsInv, AccountsTypeOK, NothingBeforeAccount, SessionsAreToday
<1>2. ASSUME NEW t \in Tabs,
             \/ \E page \in Pages : GoToPage(t, page)
             \/ \E token \in Numbers : OpenReset(t, token)
      PROVE  AccountsInv'
  BY <1>2, GoStep, AccountsAssumption DEF Pages, Numbers
<1>3. ASSUME NEW t \in Tabs,
             \/ \E password \in 0 .. sentForms : SubmitLogin(t, password)
             \/ SubmitRegister(t) \/ SubmitForgot(t) \/ SubmitReset(t) \/ OpenVerify(t)
      PROVE  AccountsInv'
  BY <1>3, SubmitStep
<1>4. ASSUME NEW q \in forms,
             \/ Register(q) \/ VerifyEmail(q) \/ ForgotPassword(q) \/ ReadReset(q) \/ SaveReset(q)
             \/ ReadLogin(q) \/ SaveLogin(q) \/ RefuseForm(q)
             \/ FormDone(q) \/ FormRefused(q) \/ FormLost(q)
      PROVE  AccountsInv'
  BY <1>4, LookStep, ReadResetStep, SaveResetStep, SaveLoginStep, RegisterStep, TokenStep,
     FormAnswerStep
<1> QED  BY <1>1, <1>2, <1>3, <1>4 DEF AccountsNext

(* The inductive invariant of an account.                                  *)
THEOREM AccountsInvariant == AccountsSpec => []AccountsInv
BY AccountsInitInv, AccountsStep, PTL DEF AccountsSpec

(* An account, its sessions and the tabs are type correct for any tabs.    *)
THEOREM AccountsTypeCorrect == AccountsSpec => []AccountsTypeOK
<1>1. AccountsInv => AccountsTypeOK
  BY DEF AccountsInv
<1> QED  BY <1>1, AccountsInvariant, PTL

(* A new password ends the sessions opened with an older one, for any      *)
(* number of tabs and of requests, but for logins stored late.             *)
THEOREM NewPasswordEndsSessions == AccountsSpec => []OldPasswordsOpenNothing
<1>1. AccountsInv => OldPasswordsOpenNothing
  BY DEF AccountsInv, SessionsAreToday, OldPasswordsOpenNothing
<1> QED  BY <1>1, AccountsInvariant, PTL

-----------------------------------------------------------------------------
(* Numbers name what has been issued: a token of a call, of the store or   *)
(* of the table is one of the pairs issued so far, and its login one of    *)
(* the logins so far.                                                      *)
TokensExist ==
    /\ tokens <= issued /\ \A n \in usable : n <= issued
    /\ \A c \in Calls : calls[c].tok <= issued /\ calls[c].new <= issued
    /\ \A c \in Calls : Refreshing(c) => calls[c].tok # 0
    /\ \A n \in Pairs : line[n] <= logins

Rotating(c) == calls[c].at = "rotating"

(* As long as no two refreshes carried one token, a refresh that is about  *)
(* to be saved is the only thing that stands for its login.                *)
RotationsAlone ==
    "overlap" \notin mishaps =>
        /\ \A c, d \in Calls :
              Refreshing(c) /\ Refreshing(d) /\ calls[c].tok = calls[d].tok => c = d
        /\ \A c \in Calls, n \in usable :
              Rotating(c) /\ line[n] = line[calls[c].tok] => n = calls[c].tok
        /\ \A c, d \in Calls :
              Rotating(c) /\ Rotating(d) /\ line[calls[c].tok] = line[calls[d].tok] => c = d

(* As long as nothing went wrong, one refresh at most is under way, it     *)
(* carries the token of the store, and that token is usable or has just    *)
(* been replaced by it.                                                    *)
StoreIsGood ==
    mishaps = {} =>
        /\ session = 0 <=> tokens = 0
        /\ \A c \in Calls : calls[c].at # "refused" /\ ~calls[c].gone
        /\ \A c, d \in Calls : Refreshing(c) /\ Refreshing(d) => c = d
        /\ \A c \in Calls : Refreshing(c) => calls[c].tok = tokens
        /\ \A c \in Calls : calls[c].at = "rotated" => calls[c].new \in usable
        /\ tokens # 0 => tokens \in usable \/ \E c \in Calls : calls[c].at = "rotated"

SessionInv ==
    /\ SessionTypeOK /\ TokensExist /\ RotationsAlone /\ StoreIsGood
    /\ OneTokenPerLogin /\ SessionLossNeedsMishap

USE DEF Pairs, Call, Mishap, SetCall, Refreshing, Rotating, store, server, ClearStore

(* What a call becomes.                                                    *)
LEMMA CallStays ==
    ASSUME SessionTypeOK, NEW c \in Calls
    PROVE  /\ calls[c] \in Call /\ c \in DOMAIN calls
           /\ \A s : calls' = [calls EXCEPT ![c] = s] =>
                  /\ calls'[c] = s /\ \A d \in Calls \ {c} : calls'[d] = calls[d]
                  /\ s \in Call => calls' \in [Calls -> Call]
BY DEF SessionTypeOK

LEMMA SessionTypes ==
    ASSUME SessionTypeOK
    PROVE  /\ tokens \in 0 .. MaxPairs /\ issued \in 0 .. MaxPairs
           /\ session \in 0 .. MaxLogins /\ logins \in 0 .. MaxLogins
           /\ \A c \in Calls : calls[c].tok \in Pairs \cup {0} /\ calls[c].new \in Pairs \cup {0}
           /\ \A n \in Pairs : line[n] \in 0 .. MaxLogins /\ n \in DOMAIN line
<1>1. \A c \in Calls : calls[c] \in Call
  BY CallStays
<1> QED  BY <1>1 DEF SessionTypeOK

(* The calls that are made.                                                *)
LEMMA NoCallType ==
    NoCall \in Call /\ NoCall.at = "idle" /\ NoCall.tok = 0 /\ NoCall.new = 0 /\ ~NoCall.gone
BY DEF NoCall

LEMMA CallTypes ==
    ASSUME NEW k \in Call, NEW t \in Pairs \cup {0}
    PROVE  /\ [k EXCEPT !.at = "sent", !.tok = t] \in Call
           /\ [k EXCEPT !.at = "sent", !.tok = t, !.retried = TRUE] \in Call
OBVIOUS

(* A new pair.                                                             *)
LEMMA IssueTypes ==
    ASSUME SessionTypeOK, NEW l \in 0 .. MaxLogins, Issue(l)
    PROVE  /\ issued + 1 \in Pairs /\ issued' = issued + 1 /\ issued' \in 0 .. MaxPairs
           /\ line' \in [Pairs -> 0 .. MaxLogins] /\ line'[issued + 1] = l
           /\ \A n \in Pairs \ {issued + 1} : line'[n] = line[n]
<1>1. issued \in 0 .. MaxPairs /\ line \in [Pairs -> 0 .. MaxLogins]
  BY DEF SessionTypeOK
<1>2. issued < MaxPairs /\ issued' = issued + 1 /\ line' = [line EXCEPT ![issued + 1] = l]
  BY DEF Issue
<1>3. issued + 1 \in Pairs /\ issued + 1 \in 0 .. MaxPairs
  BY <1>1, <1>2, SessionAssumption
<1> QED
  BY <1>1, <1>2, <1>3

LEMMA LoginStep == ASSUME SessionInv, Login PROVE SessionInv'
<1> USE SessionAssumption DEF SessionInv
<1>0. SessionTypeOK /\ logins + 1 \in 0 .. MaxLogins /\ Issue(logins + 1)
  BY SessionTypes DEF Login
<1>1. /\ issued + 1 \in Pairs /\ issued' = issued + 1 /\ issued' \in 0 .. MaxPairs
      /\ line' \in [Pairs -> 0 .. MaxLogins] /\ line'[issued + 1] = logins + 1
      /\ \A n \in Pairs \ {issued + 1} : line'[n] = line[n]
  BY <1>0, IssueTypes
<1>2. SessionTypeOK'
  BY <1>0, <1>1 DEF SessionTypeOK, Login
<1>3. TokensExist'
  <2>1. /\ tokens' = issued + 1 /\ usable' = usable \cup {issued + 1}
        /\ logins' = logins + 1 /\ calls' = calls
    BY DEF Login
  <2>2. \A n \in Pairs : line'[n] <= logins'
    <3>1. \A n \in Pairs : line[n] \in Int /\ line[n] <= logins
      BY <1>0, SessionTypes DEF TokensExist
    <3>2. logins \in Int
      BY <1>0, SessionTypes
    <3> QED  BY SMTT(30), <1>1, <2>1, <3>1, <3>2
  <2>3. \A n \in usable' : n <= issued'
    BY SMTT(30), <1>0, <1>1, <2>1, SessionTypes DEF TokensExist, SessionTypeOK
  <2>4. \A c \in Calls : calls'[c].tok <= issued' /\ calls'[c].new <= issued'
    <3>1. \A k \in Pairs \cup {0} : k <= issued => k <= issued + 1
      BY <1>0, SessionTypes
    <3>2. \A c \in Calls : /\ calls[c].tok \in Pairs \cup {0} /\ calls[c].tok <= issued
                          /\ calls[c].new \in Pairs \cup {0} /\ calls[c].new <= issued
      BY <1>0, SessionTypes DEF TokensExist
    <3> QED  BY <1>1, <2>1, <3>1, <3>2
  <2> QED  BY <1>0, <1>1, <2>1, <2>2, <2>3, <2>4, SessionTypes DEF TokensExist
<1>4. \A c \in Calls : Rotating(c) =>
          calls[c].tok \in Pairs \ {issued + 1} /\ line[calls[c].tok] <= logins
  BY SMTT(30), <1>0, <1>1, SessionTypes DEF TokensExist
<1>5. \A n \in usable : n \in Pairs \ {issued + 1} /\ line[n] <= logins
  BY <1>0, <1>1 DEF TokensExist, SessionTypeOK
<1>6. RotationsAlone' /\ OneTokenPerLogin'
  <2>1. /\ usable' = usable \cup {issued + 1} /\ calls' = calls /\ mishaps' = mishaps
    BY DEF Login
  <2>2. /\ \A n \in usable : line'[n] = line[n] /\ line'[n] # line'[issued + 1]
        /\ \A c \in Calls : Rotating(c) =>
               line'[calls[c].tok] = line[calls[c].tok] /\ line'[calls[c].tok] # line'[issued + 1]
    <3>1. \A n \in Pairs \ {issued + 1} :
              line[n] <= logins => line'[n] = line[n] /\ line'[n] # line'[issued + 1]
      <4>1. logins \in Int /\ \A n \in Pairs : line[n] \in Int
        BY <1>0, SessionTypes
      <4> QED  BY <1>1, <4>1
    <3> QED  BY <1>4, <1>5, <3>1
  <2>3. RotationsAlone'
    BY <2>1, <2>2 DEF RotationsAlone
  <2>4. OneTokenPerLogin'
    BY <2>1, <2>2 DEF OneTokenPerLogin
  <2> QED  BY <2>3, <2>4
<1>7. StoreIsGood'
  BY <1>0, <1>1, SessionTypes DEF StoreIsGood, TokensExist, Login
<1>8. SessionLossNeedsMishap'
  BY DEF SessionLossNeedsMishap, Login
<1> QED  BY <1>2, <1>3, <1>6, <1>7, <1>8

LEMMA SendCallStep ==
    ASSUME SessionInv, NEW c \in Calls, Send(c) \/ Answered(c) \/ NobodyWaits(c)
    PROVE  SessionInv'
<1> USE SessionAssumption DEF SessionInv
<1>0. SessionTypeOK /\ UNCHANGED <<store, leaving, server, mishaps, lostSession>>
  BY DEF Send, Answered, NobodyWaits
<1>1. PICK s \in Call :
          /\ calls' = [calls EXCEPT ![c] = s] /\ s.at \in {"idle", "sent"}
          /\ s.new = 0 /\ s.tok \in {0, tokens} /\ ~s.gone
  <2>1. CASE Send(c)
    <3> DEFINE s == [NoCall EXCEPT !.at = "sent", !.tok = tokens]
    <3>1. tokens \in Pairs \cup {0} /\ calls' = [calls EXCEPT ![c] = s]
      BY <1>0, <2>1, SessionTypes DEF Send
    <3>2. s \in Call /\ s.at = "sent" /\ s.tok = tokens /\ s.new = 0 /\ ~s.gone
      BY <3>1, NoCallType, CallTypes
    <3> HIDE DEF s
    <3> QED  BY <3>1, <3>2
  <2>2. CASE Answered(c) \/ NobodyWaits(c)
    BY <2>2, NoCallType DEF Answered, NobodyWaits
  <2> QED  BY <1>0, <2>1, <2>2 DEF Send, Answered, NobodyWaits
<1>2. /\ calls'[c] = s /\ \A d \in Calls \ {c} : calls'[d] = calls[d]
      /\ calls' \in [Calls -> Call]
  BY <1>0, <1>1, CallStays
<1>3. mishaps = {} => calls[c].at # "rotated"
  BY NoCallType DEF StoreIsGood, Send, Answered, NobodyWaits
<1>4. SessionTypeOK'
  BY <1>0, <1>2 DEF SessionTypeOK
<1>5. TokensExist'
  BY <1>0, <1>1, <1>2, SessionTypes DEF TokensExist
<1>6. RotationsAlone' /\ OneTokenPerLogin'
  BY <1>0, <1>1, <1>2 DEF RotationsAlone, OneTokenPerLogin
<1>7. StoreIsGood'
  BY <1>0, <1>1, <1>2, <1>3 DEF StoreIsGood
<1> QED  BY <1>0, <1>4, <1>5, <1>6, <1>7 DEF SessionLossNeedsMishap

LEMMA UnauthorizedStep == ASSUME SessionInv, NEW c \in Calls, Unauthorized(c) PROVE SessionInv'
<1> USE SessionAssumption DEF SessionInv
<1>0. SessionTypeOK /\ UNCHANGED server /\ calls[c].at = "sent"
  BY DEF Unauthorized
<1>1. CASE tokens = 0
  <2>1. /\ calls' = [calls EXCEPT ![c] = NoCall] /\ mishaps' = mishaps
        /\ tokens' = 0 /\ session' = 0 /\ leaving' = TRUE
        /\ lostSession' = (lostSession \/ session # 0)
    BY <1>1 DEF Unauthorized, DropSession
  <2>2. /\ calls'[c] = NoCall /\ \A d \in Calls \ {c} : calls'[d] = calls[d]
        /\ calls' \in [Calls -> Call]
    BY <1>0, <2>1, CallStays, NoCallType
  <2>3. SessionTypeOK'
    BY <1>0, <2>1, <2>2 DEF SessionTypeOK
  <2>4. TokensExist'
    BY <1>0, <2>1, <2>2, SessionTypes, NoCallType DEF TokensExist
  <2>5. RotationsAlone' /\ OneTokenPerLogin'
    BY <1>0, <2>1, <2>2, NoCallType DEF RotationsAlone, OneTokenPerLogin
  <2>6. StoreIsGood' /\ SessionLossNeedsMishap'
    BY <1>0, <1>1, <2>1, <2>2, NoCallType DEF StoreIsGood, SessionLossNeedsMishap, TokensExist
  <2> QED  BY <2>3, <2>4, <2>5, <2>6
<1>2. CASE tokens # 0
  <2> DEFINE s == [calls[c] EXCEPT !.at = "refreshing", !.tok = tokens, !.retried = TRUE]
  <2>1. /\ calls' = [calls EXCEPT ![c] = s] /\ UNCHANGED <<store, leaving, lostSession>>
        /\ mishaps \subseteq mishaps' /\ mishaps' \subseteq mishaps \cup {"overlap"}
        /\ "overlap" \notin mishaps' => \A d \in Calls : Refreshing(d) => calls[d].tok # tokens
    BY <1>2 DEF Unauthorized
  <2>2. /\ s \in Call /\ s.at = "refreshing" /\ s.tok = tokens /\ s.new = calls[c].new
        /\ s.gone = calls[c].gone
    <3>1. calls[c] \in Call /\ tokens \in Pairs \cup {0}
      BY <1>0, CallStays, SessionTypes
    <3>2. \A k \in Call, t \in Pairs \cup {0} :
              [k EXCEPT !.at = "refreshing", !.tok = t, !.retried = TRUE] \in Call
      OBVIOUS
    <3> QED  BY <3>1, <3>2
  <2>3. /\ calls'[c] = s /\ \A d \in Calls \ {c} : calls'[d] = calls[d]
        /\ calls' \in [Calls -> Call]
    BY <1>0, <2>1, <2>2, CallStays
  <2> HIDE DEF s
  <2>4. SessionTypeOK'
    BY <1>0, <2>1, <2>3 DEF SessionTypeOK
  <2>5. TokensExist'
    BY <1>0, <1>2, <2>1, <2>2, <2>3, SessionTypes DEF TokensExist
  <2>6. RotationsAlone' /\ OneTokenPerLogin'
    BY <1>0, <2>1, <2>2, <2>3 DEF RotationsAlone, OneTokenPerLogin
  <2>7. StoreIsGood'
    BY <1>0, <1>2, <2>1, <2>2, <2>3 DEF StoreIsGood
  <2> QED  BY <2>1, <2>4, <2>5, <2>6, <2>7 DEF SessionLossNeedsMishap
<1> QED  BY <1>1, <1>2

LEMMA FindTokenStep == ASSUME SessionInv, NEW c \in Calls, FindToken(c) PROVE SessionInv'
<1> USE SessionAssumption DEF SessionInv
<1> DEFINE s == [calls[c] EXCEPT !.at = IF calls[c].tok \in usable THEN "rotating" ELSE "refused"]
<1>0. /\ SessionTypeOK /\ UNCHANGED <<store, leaving, server, mishaps, lostSession>>
      /\ calls[c].at = "refreshing" /\ calls' = [calls EXCEPT ![c] = s]
  BY DEF FindToken
<1>1. /\ s \in Call /\ s.tok = calls[c].tok /\ s.new = calls[c].new /\ s.gone = calls[c].gone
      /\ s.at = IF calls[c].tok \in usable THEN "rotating" ELSE "refused"
  BY <1>0, CallStays
<1>2. /\ calls'[c] = s /\ \A d \in Calls \ {c} : calls'[d] = calls[d]
      /\ calls' \in [Calls -> Call]
  BY <1>0, <1>1, CallStays
<1> HIDE DEF s
<1>3. SessionTypeOK'
  BY <1>0, <1>2 DEF SessionTypeOK
<1>4. TokensExist'
  BY <1>0, <1>1, <1>2 DEF TokensExist
<1>5. RotationsAlone' /\ OneTokenPerLogin'
  BY <1>0, <1>1, <1>2 DEF RotationsAlone, OneTokenPerLogin
<1>6. StoreIsGood'
  BY <1>0, <1>1, <1>2 DEF StoreIsGood, TokensExist
<1> QED  BY <1>0, <1>3, <1>4, <1>5, <1>6 DEF SessionLossNeedsMishap

LEMMA RotateStep == ASSUME SessionInv, NEW c \in Calls, Rotate(c) PROVE SessionInv'
<1> USE SessionAssumption DEF SessionInv
<1> DEFINE n == issued + 1
           t == calls[c].tok
           s == [calls[c] EXCEPT !.at = "rotated", !.new = n]
<1>0. /\ SessionTypeOK /\ UNCHANGED <<store, leaving, expired, logins, mishaps, lostSession>>
      /\ calls[c].at = "rotating" /\ calls' = [calls EXCEPT ![c] = s]
      /\ Issue(line[t]) /\ usable' = (usable \ {t}) \cup {n}
  BY DEF Rotate
<1>1. t \in Pairs /\ t <= issued /\ line[t] \in 0 .. MaxLogins /\ line[t] <= logins
  BY <1>0, SessionTypes DEF TokensExist
<1>2. /\ n \in Pairs /\ issued' = n /\ issued' \in 0 .. MaxPairs
      /\ line' \in [Pairs -> 0 .. MaxLogins] /\ line'[n] = line[t]
      /\ \A k \in Pairs \ {n} : line'[k] = line[k]
  BY <1>0, <1>1, IssueTypes
<1>3. /\ s \in Call /\ s.tok = t /\ s.new = n /\ s.gone = calls[c].gone /\ s.at = "rotated"
  <2>1. calls[c] \in Call /\ n \in Pairs
    BY <1>0, <1>2, CallStays
  <2>2. \A k \in Call, m \in Pairs : [k EXCEPT !.at = "rotated", !.new = m] \in Call
    OBVIOUS
  <2> HIDE DEF n
  <2> QED  BY <2>1, <2>2
<1>4. /\ calls'[c] = s /\ \A d \in Calls \ {c} : calls'[d] = calls[d]
      /\ calls' \in [Calls -> Call]
  BY <1>0, <1>3, CallStays
<1>5. /\ n \notin usable /\ t # n /\ usable \subseteq Pairs
      /\ \A d \in Calls : Refreshing(d) => calls[d].tok \in Pairs \ {n}
      /\ \A k \in usable : line'[k] = line[k]
      /\ \A d \in Calls : Rotating(d) => line'[calls[d].tok] = line[calls[d].tok]
  <2>1. \A k \in Pairs : k <= issued => k \in Pairs \ {n}
    BY <1>0, SessionTypes
  <2>2. \A d \in Calls : Refreshing(d) => calls[d].tok \in Pairs /\ calls[d].tok <= issued
    BY <1>0, SessionTypes DEF TokensExist
  <2>3. usable \subseteq Pairs /\ \A k \in usable : k <= issued
    BY <1>0 DEF TokensExist, SessionTypeOK
  <2> HIDE DEF n
  <2> QED  BY <1>1, <1>2, <2>1, <2>2, <2>3
<1> HIDE DEF s, n, t
<1>6. SessionTypeOK'
  BY ZenonT(40), <1>0, <1>2, <1>4, <1>5 DEF SessionTypeOK
<1>7. TokensExist'
  <2>1. n = issued + 1 /\ issued \in 0 .. MaxPairs /\ logins \in 0 .. MaxLogins
    BY <1>0, SessionTypes DEF n
  <2>2. \A k \in Pairs : line'[k] <= logins'
    BY <1>0, <1>1, <1>2 DEF TokensExist
  <2>3. \A k \in usable' : k <= issued'
    BY <1>0, <1>2, <1>5, <2>1 DEF TokensExist
  <2>4. \A d \in Calls : calls'[d].tok <= issued' /\ calls'[d].new <= issued'
    <3>1. \A k \in Pairs \cup {0} : k <= issued => k <= n
      BY <2>1
    <3>2. \A d \in Calls : /\ calls[d].tok \in Pairs \cup {0} /\ calls[d].tok <= issued
                          /\ calls[d].new \in Pairs \cup {0} /\ calls[d].new <= issued
      BY <1>0, SessionTypes DEF TokensExist
    <3>3. n <= n
      BY <2>1
    <3> QED  BY <1>1, <1>2, <1>3, <1>4, <3>1, <3>2, <3>3
  <2> QED  BY SMTT(30), <1>0, <1>1, <1>2, <1>3, <1>4, <2>1, <2>2, <2>3, <2>4,
      SessionTypes DEF TokensExist
<1>8. RotationsAlone' /\ OneTokenPerLogin'
  <2> SUFFICES ASSUME "overlap" \notin mishaps PROVE RotationsAlone' /\ OneTokenPerLogin'
    BY <1>0 DEF RotationsAlone, OneTokenPerLogin
  <2>1. \A k \in usable \ {t} : line[k] # line[t]
    BY <1>0 DEF RotationsAlone, t
  <2>2. \A d \in Calls \ {c} : Rotating(d) => line[calls[d].tok] # line[t]
    BY <1>0 DEF RotationsAlone, t
  <2>3. OneTokenPerLogin'
    BY <1>0, <1>2, <1>5, <2>1 DEF OneTokenPerLogin
  <2>4. RotationsAlone'
    BY <1>0, <1>2, <1>3, <1>4, <1>5, <2>1, <2>2 DEF RotationsAlone, t
  <2> QED  BY <2>3, <2>4
<1>9. StoreIsGood'
  BY <1>0, <1>3, <1>4 DEF StoreIsGood, t
<1> QED  BY <1>0, <1>6, <1>7, <1>8, <1>9 DEF SessionLossNeedsMishap

(* The answer of a rotation replaces what the store holds.                 *)
LEMMA RefreshedStep == ASSUME SessionInv, NEW c \in Calls, Refreshed(c) PROVE SessionInv'
<1> USE SessionAssumption DEF SessionInv
<1> DEFINE n == calls[c].new
           s == [NoCall EXCEPT !.at = "sent", !.tok = n, !.retried = TRUE]
<1>0. /\ SessionTypeOK /\ UNCHANGED <<session, leaving, server, mishaps, lostSession>>
      /\ calls[c].at = "rotated" /\ calls' = [calls EXCEPT ![c] = s] /\ tokens' = n
  BY DEF Refreshed
<1>1. n \in Pairs \cup {0} /\ n <= issued /\ n \in 0 .. MaxPairs
  BY <1>0, SessionTypes DEF TokensExist
<1> HIDE DEF n
<1>2. s \in Call /\ s.at = "sent" /\ s.tok = n /\ s.new = 0 /\ ~s.gone
  BY <1>1, NoCallType, CallTypes
<1>3. /\ calls'[c] = s /\ \A d \in Calls \ {c} : calls'[d] = calls[d]
      /\ calls' \in [Calls -> Call]
  BY ZenonT(40), <1>0, <1>2, CallStays
<1> HIDE DEF s
<1>4. SessionTypeOK'
  BY <1>0, <1>1, <1>3 DEF SessionTypeOK
<1>5. TokensExist'
  BY <1>0, <1>1, <1>2, <1>3, SessionTypes DEF TokensExist
<1>6. RotationsAlone' /\ OneTokenPerLogin'
  BY <1>0, <1>2, <1>3 DEF RotationsAlone, OneTokenPerLogin
<1>7. ASSUME mishaps = {} PROVE session # 0 /\ n # 0 /\ n \in usable
  <2>1. n \in usable /\ calls[c].tok = tokens /\ calls[c].tok # 0
    BY <1>0, <1>7 DEF StoreIsGood, TokensExist, n
  <2> QED  BY <1>0, <1>7, <2>1 DEF StoreIsGood, SessionTypeOK
<1>8. StoreIsGood'
  BY <1>0, <1>2, <1>3, <1>7 DEF StoreIsGood
<1> QED  BY <1>0, <1>4, <1>5, <1>6, <1>8 DEF SessionLossNeedsMishap

(* The panel drops the session: a refusal shows that something went wrong  *)
(* before, a lost answer is remembered.                                    *)
LEMMA DropStep ==
    ASSUME SessionInv, NEW c \in Calls, RefreshRefused(c) \/ RefreshLost(c)
    PROVE  SessionInv'
<1> USE SessionAssumption DEF SessionInv
<1>0. /\ SessionTypeOK /\ UNCHANGED server /\ mishaps' \subseteq Mishap
      /\ tokens' = 0 /\ session' = 0 /\ leaving' = TRUE
      /\ lostSession' = (lostSession \/ session # 0) /\ mishaps \subseteq mishaps'
  BY DEF RefreshRefused, RefreshLost, DropSession, SessionTypeOK
<1>1. mishaps' # {}
  BY DEF RefreshRefused, RefreshLost, StoreIsGood
<1>2. PICK s \in Call :
          /\ calls' = [calls EXCEPT ![c] = s]
          /\ \/ s.at = "idle" /\ s.tok = 0 /\ s.new = 0
             \/ s.at = calls[c].at /\ s.tok = calls[c].tok /\ s.new = calls[c].new
  <2>1. CASE calls' = [calls EXCEPT ![c] = NoCall]
    BY <2>1, NoCallType
  <2>2. CASE calls' = [calls EXCEPT ![c] = [calls[c] EXCEPT !.gone = TRUE]]
    <3>1. \A k \in Call : [k EXCEPT !.gone = TRUE] \in Call
      OBVIOUS
    <3>2. calls[c] \in Call
      BY <1>0, CallStays
    <3> QED  BY <2>2, <3>1, <3>2
  <2> QED  BY <2>1, <2>2 DEF RefreshRefused, RefreshLost
<1>3. /\ calls'[c] = s /\ \A d \in Calls \ {c} : calls'[d] = calls[d]
      /\ calls' \in [Calls -> Call]
  BY <1>0, <1>2, CallStays
<1>4. SessionTypeOK'
  BY <1>0, <1>3 DEF SessionTypeOK
<1>5. TokensExist'
  BY <1>0, <1>2, <1>3, SessionTypes DEF TokensExist
<1>6. RotationsAlone' /\ OneTokenPerLogin'
  BY <1>0, <1>2, <1>3 DEF RotationsAlone, OneTokenPerLogin
<1> QED  BY <1>1, <1>4, <1>5, <1>6 DEF StoreIsGood, SessionLossNeedsMishap

(* The user signs out: what is on its way still is remembered.             *)
LEMMA LogoutStep == ASSUME SessionInv, UserLogout PROVE SessionInv'
<1> USE SessionAssumption DEF SessionInv
<1>0. /\ SessionTypeOK /\ UNCHANGED <<calls, leaving, server, lostSession>>
      /\ tokens' = 0 /\ session' = 0 /\ mishaps \subseteq mishaps' /\ mishaps' \subseteq Mishap
      /\ mishaps' = {} => mishaps = {} /\ \A c \in Calls : Refreshing(c) => calls[c].gone
  BY DEF UserLogout, SessionTypeOK
<1>1. SessionTypeOK' /\ TokensExist'
  BY SMTT(30), <1>0, SessionTypes DEF SessionTypeOK, TokensExist
<1>2. RotationsAlone' /\ OneTokenPerLogin'
  BY <1>0 DEF RotationsAlone, OneTokenPerLogin
<1>3. StoreIsGood'
  BY <1>0 DEF StoreIsGood
<1> QED  BY <1>0, <1>1, <1>2, <1>3 DEF SessionLossNeedsMishap

(* A reload ends the calls; refreshes go on, for nobody.                   *)
LEMMA ReloadStep == ASSUME SessionInv, Reload PROVE SessionInv'
<1> USE SessionAssumption DEF SessionInv
<1>0. /\ SessionTypeOK /\ UNCHANGED <<store, server, lostSession>> /\ leaving' = FALSE
      /\ mishaps \subseteq mishaps' /\ mishaps' \subseteq Mishap
      /\ mishaps' = {} => mishaps = {} /\ \A c \in Calls : Refreshing(c) => calls[c].gone
  BY DEF Reload, SessionTypeOK
<1>1. /\ calls' \in [Calls -> Call]
      /\ \A c \in Calls :
            \/ calls'[c] = NoCall /\ ~Refreshing(c) /\ calls[c].at # "refused"
            \/ /\ calls[c].at \notin {"idle", "sent"} /\ calls'[c].at = calls[c].at
               /\ calls'[c].tok = calls[c].tok /\ calls'[c].new = calls[c].new
  <2>1. \A k \in Call : /\ [k EXCEPT !.gone = TRUE] \in Call
                         /\ [k EXCEPT !.gone = TRUE].at = k.at
                         /\ [k EXCEPT !.gone = TRUE].tok = k.tok
                         /\ [k EXCEPT !.gone = TRUE].new = k.new
    OBVIOUS
  <2>2. \A c \in Calls : calls[c] \in Call
    BY <1>0, CallStays
  <2>3. calls' = [c \in Calls |-> IF calls[c].at \in {"idle", "sent"} THEN NoCall
                                  ELSE [calls[c] EXCEPT !.gone = TRUE]]
    BY DEF Reload
  <2> QED  BY <2>1, <2>2, <2>3, NoCallType
<1>2. SessionTypeOK'
  BY <1>0, <1>1 DEF SessionTypeOK
<1>3. TokensExist'
  BY <1>0, <1>1, NoCallType, SessionTypes DEF TokensExist
<1>4. RotationsAlone' /\ OneTokenPerLogin'
  BY <1>0, <1>1, NoCallType DEF RotationsAlone, OneTokenPerLogin
<1>5. StoreIsGood'
  BY <1>0, <1>1, NoCallType DEF StoreIsGood
<1> QED  BY <1>0, <1>2, <1>3, <1>4, <1>5 DEF SessionLossNeedsMishap

(* What happens elsewhere: a reset of the password and the clock.          *)
LEMMA OutsideStep ==
    ASSUME SessionInv, ResetPassword \/ AccessTokenExpires \/ UNCHANGED sessionVars
    PROVE  SessionInv'
<1> USE SessionAssumption DEF SessionInv
<1>1. CASE ResetPassword
  BY <1>1 DEF ResetPassword, SessionTypeOK, TokensExist, RotationsAlone, StoreIsGood,
              OneTokenPerLogin, SessionLossNeedsMishap
<1>2. CASE AccessTokenExpires
  <2>1. PICK n \in ({tokens} \cup {calls[c].tok : c \in Calls}) :
            n # 0 /\ expired' = expired \cup {n}
    BY <1>2 DEF AccessTokenExpires
  <2>2. n \in Pairs
    BY <2>1, SessionTypes
  <2>3. /\ expired' \subseteq Pairs
        /\ UNCHANGED <<store, calls, leaving, usable, line, issued, logins, mishaps, lostSession>>
    BY <1>2, <2>1, <2>2 DEF AccessTokenExpires, SessionTypeOK
  <2>4. SessionTypeOK' /\ TokensExist'
    BY <2>3 DEF SessionTypeOK, TokensExist
  <2>5. RotationsAlone' /\ OneTokenPerLogin'
    BY <2>3 DEF RotationsAlone, OneTokenPerLogin
  <2>6. StoreIsGood' /\ SessionLossNeedsMishap'
    BY <2>3 DEF StoreIsGood, SessionLossNeedsMishap
  <2> QED  BY <2>4, <2>5, <2>6
<1>3. CASE UNCHANGED sessionVars
  <2>1. UNCHANGED <<tokens, session, calls, leaving, usable, line, expired, issued, logins,
                    mishaps, lostSession>>
    BY <1>3 DEF sessionVars
  <2>2. SessionTypeOK' /\ TokensExist'
    BY <2>1 DEF SessionTypeOK, TokensExist
  <2>3. RotationsAlone' /\ OneTokenPerLogin'
    BY <2>1 DEF RotationsAlone, OneTokenPerLogin
  <2>4. StoreIsGood' /\ SessionLossNeedsMishap'
    BY <2>1 DEF StoreIsGood, SessionLossNeedsMishap
  <2> QED  BY <2>2, <2>3, <2>4
<1> QED  BY <1>1, <1>2, <1>3

LEMMA SessionInitInv == SessionInit => SessionInv
<1> SUFFICES ASSUME SessionInit PROVE SessionInv
  OBVIOUS
<1>1. \A c \in Calls : calls[c] = NoCall
  BY DEF SessionInit
<1>2. SessionTypeOK
  <2>1. calls \in [Calls -> Call]
    BY NoCallType DEF SessionInit
  <2>2. line \in [Pairs -> 0 .. MaxLogins] /\ 0 \in 0 .. MaxPairs
    BY SessionAssumption DEF SessionInit
  <2>3. tokens = 0 /\ issued = 0 /\ session = 0 /\ logins = 0 /\ 0 \in 0 .. MaxLogins
    BY SessionAssumption DEF SessionInit
  <2>4. /\ leaving \in BOOLEAN /\ lostSession \in BOOLEAN
        /\ usable = {} /\ expired = {} /\ mishaps = {}
    BY DEF SessionInit
  <2> QED  BY <2>1, <2>2, <2>3, <2>4 DEF SessionTypeOK
<1>3. TokensExist /\ RotationsAlone /\ StoreIsGood
  BY <1>1, NoCallType DEF SessionInit, TokensExist, RotationsAlone, StoreIsGood
<1> QED  BY <1>2, <1>3 DEF SessionInit, SessionInv, OneTokenPerLogin, SessionLossNeedsMishap

LEMMA SessionStep == SessionInv /\ [SessionNext]_sessionVars => SessionInv'
<1> SUFFICES ASSUME SessionInv, [SessionNext]_sessionVars PROVE SessionInv'
  OBVIOUS
<1>1. ASSUME NEW c \in Calls, Send(c) \/ Answered(c) \/ NobodyWaits(c) PROVE SessionInv'
  BY <1>1, SendCallStep
<1>2. ASSUME NEW c \in Calls, Unauthorized(c) \/ FindToken(c) \/ Rotate(c) PROVE SessionInv'
  BY <1>2, UnauthorizedStep, FindTokenStep, RotateStep
<1>3. ASSUME NEW c \in Calls, Refreshed(c) \/ RefreshRefused(c) \/ RefreshLost(c)
      PROVE  SessionInv'
  BY <1>3, RefreshedStep, DropStep
<1>4. CASE Login \/ UserLogout \/ Reload
  BY <1>4, LoginStep, LogoutStep, ReloadStep
<1>5. CASE ResetPassword \/ AccessTokenExpires \/ UNCHANGED sessionVars
  BY <1>5, OutsideStep
<1> QED  BY <1>1, <1>2, <1>3, <1>4, <1>5 DEF SessionNext, Handle

(* The inductive invariant of a session.                                   *)
THEOREM SessionInvariant == SessionSpec => []SessionInv
BY SessionInitInv, SessionStep, PTL DEF SessionSpec

(* The session's state is type correct.                                    *)
THEOREM SessionTypeCorrect == SessionSpec => []SessionTypeOK
<1>1. SessionInv => SessionTypeOK
  BY DEF SessionInv
<1> QED  BY <1>1, SessionInvariant, PTL

(* The panel drops a session by itself only after a mishap, for any number *)
(* of calls at once, of logins and of token pairs: expiry alone never      *)
(* costs the user the session.                                             *)
THEOREM ExpiryKeepsSession == SessionSpec => []SessionLossNeedsMishap
<1>1. SessionInv => SessionLossNeedsMishap
  BY DEF SessionInv
<1> QED  BY <1>1, SessionInvariant, PTL

(* A login has one usable refresh token at most, as long as no two         *)
(* refreshes carried one token.                                            *)
THEOREM RotationRetires == SessionSpec => []OneTokenPerLogin
<1>1. SessionInv => OneTokenPerLogin
  BY DEF SessionInv
<1> QED  BY <1>1, SessionInvariant, PTL

-----------------------------------------------------------------------------
CustomerRead == [at : {"idle", "sent"}] \cup [at : {"read"}, row : Stamped]

CustomersAreTyped ==
    /\ customerRows \in [Customers -> Stamped]
    /\ known \in [Customers -> Stamped \cup {Unknown}] /\ reads \in [Customers -> CustomerRead]
    /\ invalid \subseteq Customers /\ drawn \in Customers \cup {"none"}
    /\ customerForm \in Entry /\ customerSaves \subseteq CustomerSave
    /\ savesBegun \in 0 .. MaxCustomerSaves
    /\ meant \in [Customers -> Entry] /\ confused \subseteq Customers

SavesAreNumbered ==
    /\ \A q \in customerSaves : q.id \in 1 .. savesBegun
    /\ \A p, q \in customerSaves : p.id = q.id => p = q

(* How many of its steps a save has written, and a number for each that it *)
(* may still write: every stamp of a row was one of these.                 *)
WrittenSteps(q) == IF q.at = "sent" THEN q.step - 1 ELSE q.step
ToWrite == UNION {{3 * (q.id - 1) + k : k \in WrittenSteps(q) + 1 .. 3} : q \in customerSaves}
StampsAreCounted ==
    \A c \in Customers : customerRows[c].updatedAt + Cardinality(ToWrite) <= 3 * savesBegun

(* A customer nobody is confused about: one save at most is under way, ... *)
OneSave == \A p, q \in customerSaves : p.who = q.who /\ p.who \notin confused => p = q

(* ... the row has what it has written, and the rest is as it was when the *)
(* button was pressed; ...                                                 *)
SaveIsHalfway ==
    \A q \in customerSaves : q.who \notin confused /\ q.at # "refused" =>
        /\ q.want = meant[q.who]
        /\ \A i \in 1 .. 3 : customerRows[q.who].entry[Steps[i]] =
               IF i <= WrittenSteps(q) THEN q.want[Steps[i]] ELSE q.base[Steps[i]]

(* ... and between saves the row is as the form was.                       *)
CustomersInv ==
    /\ CustomersAreTyped /\ SavesAreNumbered /\ StampsAreCounted
    /\ OneSave /\ SaveIsHalfway /\ SavedAsEntered

-----------------------------------------------------------------------------
(* What is counted against a total stays below it, whether something is    *)
(* taken off the list, added to both, or written.                          *)
LEMMA CountKept ==
    ASSUME NEW n \in Nat, NEW k \in Nat, NEW S \in SUBSET (1 .. k), n + Cardinality(S) <= k
    PROVE  /\ \A T \in SUBSET S : n + Cardinality(T) <= k
           /\ \A T \in SUBSET (S \cup {k + 1}) : n + Cardinality(T) <= k + 1
           /\ \A x \in S : n + 1 <= k /\ \A T \in SUBSET (S \ {x}) : (n + 1) + Cardinality(T) <= k
<1>1. IsFiniteSet(S) /\ Cardinality(S) \in Nat
  <2>1. IsFiniteSet(1 .. k)
    BY FS_Interval
  <2>2. IsFiniteSet(S)
    BY <2>1, FS_Subset
  <2> QED  BY <2>2, FS_CardinalityType
<1>2. ASSUME NEW T \in SUBSET S PROVE n + Cardinality(T) <= k
  <2>1. IsFiniteSet(T) /\ Cardinality(T) <= Cardinality(S)
    BY <1>1, FS_Subset
  <2>2. Cardinality(T) \in Nat
    BY <2>1, FS_CardinalityType
  <2> QED  BY <1>1, <2>1, <2>2
<1>3. ASSUME NEW T \in SUBSET (S \cup {k + 1}) PROVE n + Cardinality(T) <= k + 1
  <2>1. /\ IsFiniteSet(S \cup {k + 1})
        /\ \/ Cardinality(S \cup {k + 1}) = Cardinality(S)
           \/ Cardinality(S \cup {k + 1}) = Cardinality(S) + 1
    <3>1. Cardinality(S \cup {k + 1}) =
              IF k + 1 \in S THEN Cardinality(S) ELSE Cardinality(S) + 1
      BY <1>1, FS_AddElement
    <3> QED  BY <1>1, <3>1, FS_AddElement
  <2>2. IsFiniteSet(T) /\ Cardinality(T) <= Cardinality(S \cup {k + 1})
    BY <2>1, FS_Subset
  <2>3. Cardinality(S \cup {k + 1}) \in Nat /\ Cardinality(T) \in Nat
    BY <2>1, <2>2, FS_CardinalityType
  <2> QED  BY <1>1, <2>1, <2>2, <2>3
<1>4. ASSUME NEW x \in S PROVE n + 1 <= k /\ \A T \in SUBSET (S \ {x}) : (n + 1) + Cardinality(T) <= k
  <2>1. /\ IsFiniteSet(S \ {x}) /\ Cardinality(S \ {x}) = Cardinality(S) - 1
    BY <1>1, FS_RemoveElement
  <2>2. Cardinality(S \ {x}) \in Nat
    BY <2>1, FS_CardinalityType
  <2>3. ASSUME NEW T \in SUBSET (S \ {x}) PROVE (n + 1) + Cardinality(T) <= k
    <3>1. IsFiniteSet(T) /\ Cardinality(T) <= Cardinality(S \ {x})
      BY <2>1, FS_Subset
    <3>2. Cardinality(T) \in Nat
      BY <3>1, FS_CardinalityType
    <3> QED  BY <1>1, <2>1, <2>2, <3>1, <3>2
  <2> QED  BY <1>1, <2>1, <2>2, <2>3
<1> QED  BY <1>2, <1>3, <1>4

LEMMA StepsAre ==
    /\ \A i \in 1 .. 3 : Steps[i] \in {"tier", "blacklist", "notes"}
    /\ \A i, j \in 1 .. 3 : Steps[i] = Steps[j] => i = j
    /\ \A d, e \in Entry : (\A i \in 1 .. 3 : d[Steps[i]] = e[Steps[i]]) => d = e
    /\ \A e \in Entry, i \in 1 .. 3 : e[Steps[i]] \in {0, 1}
    /\ AsAtFirst \in Entry
<1>1. Steps[1] = "tier" /\ Steps[2] = "blacklist" /\ Steps[3] = "notes"
  BY DEF Steps
<1>2. 1 .. 3 = {1, 2, 3}
  OBVIOUS
<1>3. ASSUME NEW d \in Entry, NEW e \in Entry, \A i \in 1 .. 3 : d[Steps[i]] = e[Steps[i]]
      PROVE  d = e
  <2>1. d["tier"] = e["tier"] /\ d["blacklist"] = e["blacklist"] /\ d["notes"] = e["notes"]
    BY <1>1, <1>2, <1>3
  <2> QED  BY <2>1 DEF Entry
<1>4. \A i \in 1 .. 3 : Steps[i] \in {"tier", "blacklist", "notes"}
  BY <1>1, <1>2
<1>5. \A i, j \in 1 .. 3 : Steps[i] = Steps[j] => i = j
  BY <1>1, <1>2
<1>6. \A e \in Entry, i \in 1 .. 3 : e[Steps[i]] \in {0, 1}
  BY <1>4 DEF Entry
<1>7. AsAtFirst \in Entry
  BY DEF AsAtFirst, Entry
<1> QED  BY <1>3, <1>4, <1>5, <1>6, <1>7

(* The next request is the first of the rest that has something to change. *)
LEMMA NextRequestIs ==
    ASSUME NEW q, NEW k \in 1 .. 4
    PROVE  LET n == NextRequest(q, k)
           IN  /\ n \in k .. 4
               /\ n < 4 => q.want[Steps[n]] # q.base[Steps[n]]
               /\ \A i \in k .. n - 1 : q.want[Steps[i]] = q.base[Steps[i]]
<1> DEFINE Is(n) == /\ n \in k .. 4
                    /\ n < 4 => q.want[Steps[n]] # q.base[Steps[n]]
                    /\ \A i \in k .. n - 1 : q.want[Steps[i]] = q.base[Steps[i]]
<1>1. \E n \in k .. 4 : Is(n)
  <2>1. CASE k = 4
    <3>1. Is(4)
      BY <2>1
    <3> QED  BY <2>1, <3>1
  <2>2. CASE k <= 3 /\ q.want[Steps[3]] # q.base[Steps[3]]
    <3>1. Is(3) \/ (k <= 2 /\ q.want[Steps[2]] # q.base[Steps[2]])
          \/ (k <= 1 /\ q.want[Steps[1]] # q.base[Steps[1]])
      BY <2>2
    <3>2. (k <= 2 /\ q.want[Steps[2]] # q.base[Steps[2]])
             => Is(2) \/ (k <= 1 /\ q.want[Steps[1]] # q.base[Steps[1]])
      OBVIOUS
    <3>3. (k <= 1 /\ q.want[Steps[1]] # q.base[Steps[1]]) => Is(1)
      OBVIOUS
    <3> QED  BY <2>2, <3>1, <3>2, <3>3
  <2>3. CASE k <= 3 /\ q.want[Steps[3]] = q.base[Steps[3]]
    <3>1. Is(4) \/ (k <= 2 /\ q.want[Steps[2]] # q.base[Steps[2]])
          \/ (k <= 1 /\ q.want[Steps[1]] # q.base[Steps[1]])
      BY <2>3
    <3>2. (k <= 2 /\ q.want[Steps[2]] # q.base[Steps[2]])
             => Is(2) \/ (k <= 1 /\ q.want[Steps[1]] # q.base[Steps[1]])
      OBVIOUS
    <3>3. (k <= 1 /\ q.want[Steps[1]] # q.base[Steps[1]]) => Is(1)
      OBVIOUS
    <3> QED  BY <2>3, <3>1, <3>2, <3>3
  <2> QED  BY <2>1, <2>2, <2>3
<1> QED  BY <1>1 DEF NextRequest

LEMMA ProceedIs ==
    ASSUME NEW q \in CustomerSave, NEW k \in 1 .. 4, NEW others
    PROVE  \/ /\ Proceed(q, k, others) = others
              /\ \A i \in k .. 3 : q.want[Steps[i]] = q.base[Steps[i]]
           \/ \E d \in CustomerSave :
                 /\ Proceed(q, k, others) = others \cup {d}
                 /\ d.id = q.id /\ d.who = q.who /\ d.base = q.base /\ d.want = q.want
                 /\ d.at = "sent" /\ d.step \in k .. 3
                 /\ \A i \in k .. d.step - 1 : q.want[Steps[i]] = q.base[Steps[i]]
<1> DEFINE n == NextRequest(q, k)
<1>1. n \in k .. 4 /\ \A i \in k .. n - 1 : q.want[Steps[i]] = q.base[Steps[i]]
  BY NextRequestIs
<1> HIDE DEF n
<1>2. CASE n = 4
  <2>1. k .. n - 1 = k .. 3
    BY <1>2
  <2> QED  BY <1>1, <1>2, <2>1 DEF Proceed, n
<1>3. CASE n # 4
  <2> DEFINE d == [q EXCEPT !.step = n, !.at = "sent"]
  <2>1. n \in k .. 3 /\ n \in 1 .. 3
    BY <1>1, <1>3
  <2>2. /\ d \in CustomerSave /\ d.id = q.id /\ d.who = q.who /\ d.base = q.base
        /\ d.want = q.want /\ d.at = "sent" /\ d.step = n
    BY <2>1 DEF CustomerSave
  <2>3. Proceed(q, k, others) = others \cup {d}
    BY <1>3 DEF Proceed, n
  <2> HIDE DEF d
  <2> QED  BY <1>1, <2>1, <2>2, <2>3
<1> QED  BY <1>2, <1>3

-----------------------------------------------------------------------------
LEMMA SaveFields ==
    ASSUME CustomersInv, NEW q \in customerSaves
    PROVE  /\ q \in CustomerSave /\ q.who \in Customers /\ q.want \in Entry /\ q.base \in Entry
           /\ q.step \in 1 .. 3 /\ q.at \in {"sent", "saved", "refused"}
           /\ q.id \in 1 .. savesBegun /\ q.id \in Nat /\ WrittenSteps(q) \in 0 .. 3
           /\ \A at \in {"saved", "refused"} :
                 LET d == [q EXCEPT !.at = at]
                 IN  /\ d \in CustomerSave /\ d.id = q.id /\ d.who = q.who /\ d.base = q.base
                     /\ d.want = q.want /\ d.step = q.step /\ d.at = at /\ WrittenSteps(d) = q.step
<1>1. /\ q \in CustomerSave /\ q.who \in Customers /\ q.want \in Entry /\ q.base \in Entry
      /\ q.step \in 1 .. 3 /\ q.at \in {"sent", "saved", "refused"}
      /\ q.id \in 1 .. savesBegun /\ savesBegun \in Nat
  BY DEF CustomersInv, CustomersAreTyped, SavesAreNumbered, CustomerSave
<1>2. q.id \in Nat /\ WrittenSteps(q) \in 0 .. 3
  BY <1>1 DEF WrittenSteps
<1>3. ASSUME NEW at \in {"saved", "refused"}
      PROVE  LET d == [q EXCEPT !.at = at]
             IN  /\ d \in CustomerSave /\ d.id = q.id /\ d.who = q.who /\ d.base = q.base
                 /\ d.want = q.want /\ d.step = q.step /\ d.at = at /\ WrittenSteps(d) = q.step
  BY <1>1 DEF CustomerSave, WrittenSteps
<1> QED  BY <1>1, <1>2, <1>3

LEMMA Stamps ==
    ASSUME CustomersInv
    PROVE  /\ 3 * savesBegun \in Nat /\ ToWrite \in SUBSET (1 .. 3 * savesBegun)
           /\ \A c \in Customers :
                 /\ customerRows[c].updatedAt \in Nat
                 /\ customerRows[c].updatedAt + Cardinality(ToWrite) <= 3 * savesBegun
<1>1. savesBegun \in Nat /\ 3 * savesBegun \in Nat
  BY DEF CustomersInv, CustomersAreTyped
<1>2. ASSUME NEW q \in customerSaves, NEW k \in WrittenSteps(q) + 1 .. 3
      PROVE  3 * (q.id - 1) + k \in 1 .. 3 * savesBegun
  <2> DEFINE w == WrittenSteps(q)
             i == q.id
             n == savesBegun
  <2>1. w \in 0 .. 3 /\ i \in 1 .. n /\ n \in Nat /\ k \in w + 1 .. 3
    BY <1>1, SaveFields
  <2> HIDE DEF w, i, n
  <2>2. 3 * (i - 1) + k \in 1 .. 3 * n
    BY <2>1
  <2> QED  BY <2>2 DEF i, n
<1>3. ToWrite \in SUBSET (1 .. 3 * savesBegun)
  BY <1>2 DEF ToWrite
<1>4. \A c \in Customers : customerRows[c].updatedAt \in Nat
  BY DEF CustomersInv, CustomersAreTyped, Stamped
<1> QED  BY <1>1, <1>3, <1>4 DEF CustomersInv, StampsAreCounted

(* Nothing more to be written, and no row written.                         *)
LEMMA StampsKept ==
    ASSUME CustomersInv, ToWrite' \subseteq ToWrite, customerRows' = customerRows,
           savesBegun' = savesBegun
    PROVE  StampsAreCounted'
<1> DEFINE S == ToWrite
           T == ToWrite'
           k == 3 * savesBegun
<1>1. k \in Nat /\ S \in SUBSET (1 .. k) /\ T \in SUBSET S /\ k = 3 * savesBegun'
  BY Stamps
<1>2. ASSUME NEW c \in Customers
      PROVE  customerRows'[c].updatedAt + Cardinality(T) <= k
  <2> DEFINE n == customerRows[c].updatedAt
  <2>1. n \in Nat /\ n + Cardinality(S) <= k
    BY Stamps
  <2> HIDE DEF S, T, k, n
  <2>2. n + Cardinality(T) <= k
    BY <1>1, <2>1, CountKept
  <2> QED  BY <2>2 DEF n
<1> HIDE DEF k
<1> QED  BY <1>1, <1>2 DEF StampsAreCounted

LEMMA CustomersInitInv == CustomersInit => CustomersInv
<1> SUFFICES ASSUME CustomersInit PROVE CustomersInv
  OBVIOUS
<1>1. AsAtFirst \in Entry /\ 0 \in 0 .. MaxCustomerSaves /\ 0 \in 0 .. 3 * MaxCustomerSaves
  BY StepsAre, CustomersAssumption
<1>2. [entry |-> AsAtFirst, updatedAt |-> 0] \in Stamped /\ QueryIdle \in CustomerRead
  BY <1>1 DEF Stamped, QueryIdle, CustomerRead
<1>3. CustomersAreTyped
  BY <1>1, <1>2 DEF CustomersInit, CustomersAreTyped
<1>4. SavesAreNumbered /\ OneSave /\ SaveIsHalfway
  BY DEF CustomersInit, SavesAreNumbered, OneSave, SaveIsHalfway
<1>5. StampsAreCounted
  <2>1. ToWrite = {}
    BY DEF CustomersInit, ToWrite
  <2>2. Cardinality(ToWrite) = 0
    BY <2>1, FS_EmptySet
  <2>3. \A c \in Customers : customerRows[c].updatedAt = 0
    BY DEF CustomersInit
  <2>4. savesBegun = 0
    BY DEF CustomersInit
  <2> QED  BY <2>2, <2>3, <2>4 DEF StampsAreCounted
<1>6. SavedAsEntered
  BY DEF CustomersInit, SavedAsEntered
<1> QED  BY <1>3, <1>4, <1>5, <1>6 DEF CustomersInv

(* What only the page sees.                                                *)
LEMMA CustomersPageStep ==
    ASSUME CustomersInv,
           UNCHANGED <<customerRows, customerSaves, savesBegun, meant, confused>>,
           known' \in [Customers -> Stamped \cup {Unknown}], reads' \in [Customers -> CustomerRead],
           invalid' \subseteq Customers, drawn' \in Customers \cup {"none"}, customerForm' \in Entry
    PROVE  CustomersInv'
<1>1. ToWrite' = ToWrite
  BY DEF ToWrite, WrittenSteps
<1>2. StampsAreCounted'
  BY <1>1, StampsKept
<1>3. CustomersAreTyped' /\ SavesAreNumbered' /\ OneSave'
  BY DEF CustomersInv, CustomersAreTyped, SavesAreNumbered, OneSave
<1>4. SaveIsHalfway' /\ SavedAsEntered'
  BY DEF CustomersInv, SaveIsHalfway, SavedAsEntered, WrittenSteps
<1> QED  BY <1>2, <1>3, <1>4 DEF CustomersInv

LEMMA LookAtStep ==
    ASSUME CustomersInv, NEW c \in Customers,
           SelectCustomer(c) \/ ReadCustomer(c) \/ CustomerArrives(c) \/ ReadFails(c)
    PROVE  CustomersInv'
<1>1. /\ known \in [Customers -> Stamped \cup {Unknown}] /\ reads \in [Customers -> CustomerRead]
      /\ customerRows[c] \in Stamped /\ invalid \subseteq Customers
      /\ drawn \in Customers \cup {"none"} /\ customerForm \in Entry
  BY DEF CustomersInv, CustomersAreTyped
<1>2. /\ QueryIdle \in CustomerRead /\ QuerySent \in CustomerRead
      /\ [at |-> "read", row |-> customerRows[c]] \in CustomerRead
  BY <1>1 DEF QueryIdle, QuerySent, CustomerRead
<1>3. CASE SelectCustomer(c)
  <2>1. reads' \in [Customers -> CustomerRead]
    BY <1>1, <1>2, <1>3 DEF SelectCustomer
  <2>2. customerForm' \in Entry
    BY <1>1, <1>3 DEF SelectCustomer, Stamped
  <2> QED  BY <1>1, <1>3, <2>1, <2>2, CustomersPageStep DEF SelectCustomer
<1>4. CASE ReadCustomer(c)
  <2>1. reads' \in [Customers -> CustomerRead]
    BY <1>1, <1>2, <1>4 DEF ReadCustomer
  <2> QED  BY <1>1, <1>4, <2>1, CustomersPageStep DEF ReadCustomer
<1>5. CASE CustomerArrives(c)
  <2>1. reads[c].row \in Stamped /\ reads[c].row.entry \in Entry
    BY <1>1, <1>5 DEF CustomerArrives, CustomerRead, Stamped
  <2>2. reads' \in [Customers -> CustomerRead] /\ known' \in [Customers -> Stamped \cup {Unknown}]
    BY <1>1, <1>2, <1>5, <2>1 DEF CustomerArrives
  <2>3. customerForm' \in Entry
    BY <1>1, <1>5, <2>1 DEF CustomerArrives
  <2> QED  BY <1>1, <1>5, <2>2, <2>3, CustomersPageStep DEF CustomerArrives
<1>6. CASE ReadFails(c)
  <2>1. reads' \in [Customers -> CustomerRead]
    BY <1>1, <1>2, <1>6 DEF ReadFails
  <2> QED  BY <1>1, <1>6, <2>1, CustomersPageStep DEF ReadFails
<1> QED  BY <1>3, <1>4, <1>5, <1>6

LEMMA TypeEntryStep ==
    ASSUME CustomersInv, NEW f \in Touched, TypeEntry(f)
    PROVE  CustomersInv'
<1>1. f \in {"tier", "blacklist", "notes"}
  BY CustomersAssumption
<1>2. customerForm \in Entry
  BY DEF CustomersInv, CustomersAreTyped
<1>3. 1 - customerForm[f] \in {0, 1}
  BY <1>1, <1>2 DEF Entry
<1>4. customerForm' = [customerForm EXCEPT ![f] = 1 - customerForm[f]]
  BY DEF TypeEntry
<1>5. customerForm' \in Entry
  BY <1>1, <1>2, <1>3, <1>4 DEF Entry
<1> QED  BY <1>5, CustomersPageStep DEF TypeEntry, CustomersInv, CustomersAreTyped

-----------------------------------------------------------------------------
LEMMA CountThree ==
    ASSUME NEW n \in Nat, NEW k \in Nat, NEW S \in SUBSET (1 .. k), n + Cardinality(S) <= k
    PROVE  \A T \in SUBSET (S \cup {k + 1, k + 2, k + 3}) : n + Cardinality(T) <= k + 3
<1> DEFINE S1 == S \cup {k + 1}
           S2 == S1 \cup {k + 2}
           S3 == S2 \cup {k + 3}
<1>1. S1 \in SUBSET (1 .. k + 1) /\ n + Cardinality(S1) <= k + 1
  BY CountKept
<1>2. S2 \in SUBSET (1 .. k + 2) /\ n + Cardinality(S2) <= k + 2
  <2>1. k + 1 \in Nat /\ (k + 1) + 1 = k + 2
    OBVIOUS
  <2>2. S2 \in SUBSET (1 .. k + 2)
    BY <1>1
  <2> HIDE DEF S1
  <2>3. \A T \in SUBSET (S1 \cup {k + 2}) : n + Cardinality(T) <= k + 2
    BY <1>1, <2>1, CountKept
  <2> QED  BY <2>2, <2>3
<1>3. \A T \in SUBSET S3 : n + Cardinality(T) <= k + 3
  <2>1. k + 2 \in Nat /\ (k + 2) + 1 = k + 3
    OBVIOUS
  <2> HIDE DEF S2
  <2> QED  BY <1>2, <2>1, CountKept
<1> QED  BY <1>3

LEMMA PressSaveStep == ASSUME CustomersInv, PressSave PROVE CustomersInv'
<1> DEFINE n == savesBegun
           p == [id |-> n + 1, who |-> drawn, step |-> 1, at |-> "sent",
                 base |-> known[drawn].entry, want |-> customerForm]
<1>1. /\ n + 1 \in 1 .. MaxCustomerSaves /\ n + 1 \in 0 .. MaxCustomerSaves /\ n \in Nat
      /\ drawn \in Customers /\ known[drawn] \in Stamped /\ customerForm \in Entry
      /\ known[drawn].entry \in Entry
  BY CustomersAssumption DEF PressSave, ShowsCustomer, CustomersInv, CustomersAreTyped, Stamped
<1>2. /\ p \in CustomerSave /\ p.id = n + 1 /\ p.who = drawn /\ p.base = known[drawn].entry
      /\ p.want = customerForm
  BY <1>1 DEF CustomerSave
<1>3. /\ customerSaves' = Proceed(p, 1, customerSaves) /\ savesBegun' = n + 1
      /\ meant' = [meant EXCEPT ![drawn] = customerForm]
      /\ confused' = IF \/ known[drawn] # customerRows[drawn]
                        \/ \E q \in customerSaves : q.who = drawn
                     THEN confused \cup {drawn} ELSE confused \ {drawn}
      /\ UNCHANGED <<customerRows, known, reads, invalid, drawn, customerForm>>
  BY DEF PressSave
<1> HIDE DEF p
<1>4. \/ /\ customerSaves' = customerSaves
         /\ \A i \in 1 .. 3 : p.want[Steps[i]] = p.base[Steps[i]]
      \/ \E d \in CustomerSave :
            /\ customerSaves' = customerSaves \cup {d}
            /\ d.id = p.id /\ d.who = p.who /\ d.base = p.base /\ d.want = p.want
            /\ d.at = "sent" /\ d.step \in 1 .. 3
            /\ \A i \in 1 .. d.step - 1 : p.want[Steps[i]] = p.base[Steps[i]]
  BY <1>2, <1>3, ProceedIs
<1>5. /\ meant' \in [Customers -> Entry] /\ meant'[drawn] = customerForm
      /\ \A c \in Customers \ {drawn} : meant'[c] = meant[c]
      /\ confused' \subseteq Customers
      /\ \A c \in Customers \ {drawn} : c \in confused' <=> c \in confused
      /\ drawn \notin confused' => /\ known[drawn] = customerRows[drawn]
                                   /\ \A q \in customerSaves : q.who # drawn
  BY <1>1, <1>3 DEF CustomersInv, CustomersAreTyped
<1>6. CustomersAreTyped'
  <2>1. customerSaves' \subseteq CustomerSave
    BY <1>4 DEF CustomersInv, CustomersAreTyped
  <2> QED  BY <1>1, <1>3, <1>5, <2>1 DEF CustomersInv, CustomersAreTyped
<1>7. SavesAreNumbered'
  <2>1. /\ \A q \in customerSaves : q.id \in 1 .. n /\ q.id \in 1 .. n + 1 /\ q.id # n + 1
        /\ \A q, r \in customerSaves : q.id = r.id => q = r
    BY <1>1 DEF CustomersInv, SavesAreNumbered
  <2>2. n + 1 \in 1 .. n + 1
    BY <1>1
  <2> HIDE DEF n
  <2> QED  BY <1>2, <1>3, <1>4, <2>1, <2>2 DEF SavesAreNumbered
<1>8. StampsAreCounted'
  <2> DEFINE k == 3 * n
             S == ToWrite
             T == ToWrite'
  <2>1. T \in SUBSET (S \cup {k + 1, k + 2, k + 3})
    <3>1. \A q \in customerSaves : WrittenSteps(q)' = WrittenSteps(q)
      BY DEF WrittenSteps
    <3>2. CASE customerSaves' = customerSaves
      BY <3>1, <3>2 DEF ToWrite
    <3>3. ASSUME NEW d \in CustomerSave, customerSaves' = customerSaves \cup {d}, d.id = n + 1,
                 d.at = "sent", d.step \in 1 .. 3
          PROVE  T \subseteq S \cup {k + 1, k + 2, k + 3}
      <4>1. WrittenSteps(d)' \in 0 .. 2
        BY <3>3 DEF WrittenSteps
      <4>2. \A j \in WrittenSteps(d)' + 1 .. 3 : 3 * (d.id - 1) + j \in {k + 1, k + 2, k + 3}
        <5> DEFINE w == WrittenSteps(d)'
        <5>1. w \in 0 .. 2 /\ d.id = n + 1 /\ n \in Nat
          BY <1>1, <3>3, <4>1
        <5> HIDE DEF w, n
        <5>2. d.id - 1 = n
          BY <5>1
        <5>3. \A j \in w + 1 .. 3 : 3 * n + j \in {3 * n + 1, 3 * n + 2, 3 * n + 3}
          BY <5>1
        <5> QED  BY <5>2, <5>3 DEF w
      <4>3. ASSUME NEW x \in T PROVE x \in S \cup {k + 1, k + 2, k + 3}
        <5>1. PICK q \in customerSaves' : \E j \in WrittenSteps(q)' + 1 .. 3 : x = 3 * (q.id - 1) + j
          BY DEF ToWrite
        <5>2. CASE q = d
          BY <4>2, <5>1, <5>2
        <5>3. CASE q \in customerSaves
          BY <3>1, <5>1, <5>3 DEF ToWrite
        <5> QED  BY <3>3, <5>2, <5>3
      <4> QED  BY <4>3
    <3> QED  BY <1>2, <1>4, <3>2, <3>3
  <2>2. k \in Nat /\ S \in SUBSET (1 .. k) /\ k + 3 = 3 * savesBegun'
    BY <1>1, <1>3, Stamps
  <2>3. ASSUME NEW c \in Customers
        PROVE  customerRows'[c].updatedAt + Cardinality(T) <= k + 3
    <3> DEFINE m == customerRows[c].updatedAt
    <3>1. m \in Nat /\ m + Cardinality(S) <= k
      BY Stamps
    <3>2. customerRows' = customerRows
      BY <1>3
    <3> HIDE DEF S, T, k, m
    <3>3. m + Cardinality(T) <= k + 3
      BY <2>1, <2>2, <3>1, CountThree
    <3> QED  BY <3>2, <3>3 DEF m
  <2> HIDE DEF k
  <2> QED  BY <2>2, <2>3 DEF StampsAreCounted
<1>9. OneSave'
  <2>1. \A q \in customerSaves : q.who \in Customers
    BY SaveFields
  <2>2. ASSUME NEW q \in customerSaves, NEW r \in customerSaves, q.who = r.who,
               q.who \notin confused'
        PROVE  q = r
    BY <1>5, <2>1, <2>2 DEF CustomersInv, OneSave
  <2>3. \A q \in customerSaves : q.who \notin confused' => q.who # drawn
    BY <1>5
  <2>4. CASE customerSaves' = customerSaves
    BY <2>2, <2>4 DEF OneSave
  <2>5. ASSUME NEW d, d.who = drawn, customerSaves' = customerSaves \cup {d}
        PROVE  OneSave'
    BY <2>2, <2>3, <2>5 DEF OneSave
  <2> QED  BY <1>2, <1>4, <2>4, <2>5
<1>10. ASSUME drawn \notin confused'
       PROVE  customerRows'[drawn].entry = p.base /\ meant'[drawn] = p.want
  BY <1>2, <1>3, <1>5, <1>10
<1>11. SaveIsHalfway'
  <2> SUFFICES ASSUME NEW q \in customerSaves', q.who \notin confused', q.at # "refused"
               PROVE  /\ q.want = meant'[q.who]
                      /\ \A i \in 1 .. 3 : customerRows'[q.who].entry[Steps[i]] =
                             IF i <= WrittenSteps(q) THEN q.want[Steps[i]] ELSE q.base[Steps[i]]
    BY DEF SaveIsHalfway, WrittenSteps
  <2>1. CASE q \in customerSaves
    <3>0. q.who \in Customers
      BY <2>1, SaveFields
    <3>1. q.who # drawn /\ q.who \in Customers
      BY <1>5, <2>1, <3>0
    <3>2. q.who \notin confused /\ meant'[q.who] = meant[q.who]
      BY <1>5, <3>1
    <3> QED  BY <1>3, <2>1, <3>2 DEF CustomersInv, SaveIsHalfway
  <2>2. CASE q \notin customerSaves
    <3>1. /\ q.who = drawn /\ q.base = p.base /\ q.want = p.want
          /\ q.at = "sent" /\ q.step \in 1 .. 3
          /\ \A i \in 1 .. q.step - 1 : p.want[Steps[i]] = p.base[Steps[i]]
      BY <1>2, <1>4, <2>2
    <3>2. WrittenSteps(q) = q.step - 1
      BY <3>1 DEF WrittenSteps
    <3>3. customerRows'[drawn].entry = p.base /\ meant'[drawn] = p.want
      BY <1>10, <3>1
    <3>4. ASSUME NEW i \in 1 .. 3
          PROVE  customerRows'[q.who].entry[Steps[i]] =
                     IF i <= WrittenSteps(q) THEN q.want[Steps[i]] ELSE q.base[Steps[i]]
      BY <3>1, <3>2, <3>3
    <3> QED  BY <3>1, <3>3, <3>4
  <2> QED  BY <2>1, <2>2
<1>12. SavedAsEntered'
  <2> SUFFICES ASSUME NEW c \in Customers \ confused', \A q \in customerSaves' : q.who # c
               PROVE  customerRows'[c].entry = meant'[c]
    BY DEF SavedAsEntered
  <2>1. CASE c = drawn
    <3>1. \A i \in 1 .. 3 : p.want[Steps[i]] = p.base[Steps[i]]
      BY <1>2, <1>4, <2>1
    <3>2. p.want = p.base
      BY <1>1, <1>2, <3>1, StepsAre
    <3> QED  BY <1>10, <2>1, <3>2
  <2>2. CASE c # drawn
    BY <1>3, <1>4, <1>5, <2>2 DEF CustomersInv, SavedAsEntered
  <2> QED  BY <2>1, <2>2
<1> QED  BY <1>6, <1>7, <1>8, <1>9, <1>11, <1>12 DEF CustomersInv

(* A handler writes the next field.                                        *)
LEMMA HandleSaveStep ==
    ASSUME CustomersInv, NEW q \in customerSaves, HandleCustomer(q)
    PROVE  CustomersInv'
<1> DEFINE d == [q EXCEPT !.at = "saved"]
           f == Steps[q.step]
           row == customerRows[q.who]
           S == ToWrite
           T == ToWrite'
           k == 3 * savesBegun
           x == 3 * (q.id - 1) + q.step
           m == row.updatedAt
<1>1. /\ q \in CustomerSave /\ q.who \in Customers /\ q.want \in Entry /\ q.step \in 1 .. 3
      /\ q.at = "sent" /\ WrittenSteps(q) = q.step - 1 /\ q.id \in Nat
      /\ f \in {"tier", "blacklist", "notes"} /\ q.want[f] \in {0, 1}
      /\ row \in Stamped /\ row.entry \in Entry /\ m \in Nat
  <2>1. /\ q \in CustomerSave /\ q.who \in Customers /\ q.want \in Entry /\ q.step \in 1 .. 3
        /\ q.at = "sent" /\ q.id \in Nat
    BY SaveFields DEF HandleCustomer
  <2>2. f \in {"tier", "blacklist", "notes"} /\ q.want[f] \in {0, 1}
    BY <2>1, StepsAre
  <2>3. row \in Stamped
    BY <2>1 DEF CustomersInv, CustomersAreTyped
  <2> QED  BY <2>1, <2>2, <2>3 DEF WrittenSteps, Stamped
<1>2. /\ d \in CustomerSave /\ d.id = q.id /\ d.who = q.who /\ d.base = q.base /\ d.want = q.want
      /\ d.step = q.step /\ d.at = "saved" /\ WrittenSteps(d) = q.step
  BY SaveFields
<1>3. /\ customerSaves' = (customerSaves \ {q}) \cup {d}
      /\ customerRows' = [customerRows EXCEPT ![q.who] =
                             [entry |-> [row.entry EXCEPT ![f] = q.want[f]], updatedAt |-> m + 1]]
      /\ UNCHANGED <<known, reads, invalid, drawn, customerForm, savesBegun, meant, confused>>
  BY DEF HandleCustomer, ValueToSend
<1> HIDE DEF d
<1>4. /\ k \in Nat /\ S \in SUBSET (1 .. k)
      /\ \A c \in Customers : /\ customerRows[c].updatedAt \in Nat
                              /\ customerRows[c].updatedAt + Cardinality(S) <= k
  BY Stamps
<1>5. x \in S /\ T \in SUBSET (S \ {x})
  <2>1. x \in S
    BY <1>1 DEF ToWrite
  <2>2. \A r \in customerSaves : WrittenSteps(r)' = WrittenSteps(r)
    BY DEF WrittenSteps
  <2>3. ASSUME NEW y \in T PROVE y \in S \ {x}
    <3>0. PICK r \in customerSaves' : \E j \in WrittenSteps(r)' + 1 .. 3 : y = 3 * (r.id - 1) + j
      BY DEF ToWrite
    <3>1. PICK j \in WrittenSteps(r)' + 1 .. 3 : y = 3 * (r.id - 1) + j
      BY <3>0
    <3>2. CASE r = d
      <4>1. WrittenSteps(r)' = q.step
        BY <1>2, <3>2 DEF WrittenSteps
      <4>2. j \in WrittenSteps(q) + 1 .. 3 /\ j # q.step /\ y = 3 * (q.id - 1) + j /\ j \in Int
        BY <1>1, <1>2, <3>1, <3>2, <4>1
      <4>3. y \in S
        BY <4>2 DEF ToWrite
      <4>4. y # x
        BY <1>1, <4>2
      <4> QED  BY <4>3, <4>4
    <3>3. CASE r \in customerSaves /\ r # q
      <4>1. r.id # q.id
        BY <3>3 DEF CustomersInv, SavesAreNumbered
      <4>2. y \in S
        BY <2>2, <3>1, <3>3 DEF ToWrite
      <4>3. r.id \in Nat /\ WrittenSteps(r) \in 0 .. 3 /\ WrittenSteps(r)' = WrittenSteps(r)
        BY <2>2, <3>3, SaveFields
      <4>4. j \in 1 .. 3
        BY <3>1, <4>3
      <4>5. y # x
        <5> DEFINE a == r.id
                   b == q.id
                   s == q.step
        <5>1. a \in Nat /\ b \in Nat /\ a # b /\ s \in 1 .. 3 /\ j \in 1 .. 3
          BY <1>1, <4>1, <4>3, <4>4
        <5> HIDE DEF a, b, s
        <5>2. 3 * (a - 1) + j # 3 * (b - 1) + s
          BY <5>1
        <5> QED  BY <3>1, <5>2 DEF a, b, s
      <4> QED  BY <4>2, <4>5
    <3> QED  BY <1>3, <3>2, <3>3
  <2> QED  BY <2>1, <2>3
<1>6. \A c \in Customers : customerRows[c].updatedAt + 1 <= k
  <2> HIDE DEF S, T, k, x
  <2> QED  BY <1>4, <1>5, CountKept
<1>7. /\ customerRows'[q.who].entry = [row.entry EXCEPT ![f] = q.want[f]]
      /\ customerRows'[q.who].updatedAt = m + 1
      /\ \A c \in Customers \ {q.who} : customerRows'[c] = customerRows[c]
  BY <1>1, <1>3 DEF CustomersInv, CustomersAreTyped
<1>8. CustomersAreTyped'
  <2>1. m + 1 \in 0 .. 3 * MaxCustomerSaves
    <3>1. savesBegun \in 0 .. MaxCustomerSaves /\ m + 1 <= 3 * savesBegun
      BY <1>1, <1>6 DEF CustomersInv, CustomersAreTyped
    <3> HIDE DEF m
    <3> QED  BY <1>1, <3>1, CustomersAssumption
  <2>2. [row.entry EXCEPT ![f] = q.want[f]] \in Entry
    BY <1>1 DEF Entry
  <2>3. [entry |-> [row.entry EXCEPT ![f] = q.want[f]], updatedAt |-> m + 1] \in Stamped
    BY <2>1, <2>2 DEF Stamped
  <2>4. customerRows' \in [Customers -> Stamped]
    BY <1>3, <2>3 DEF CustomersInv, CustomersAreTyped
  <2>5. customerSaves' \subseteq CustomerSave
    BY <1>2, <1>3 DEF CustomersInv, CustomersAreTyped
  <2> QED  BY <1>3, <2>4, <2>5 DEF CustomersInv, CustomersAreTyped
<1>9. SavesAreNumbered' /\ OneSave'
  BY <1>2, <1>3 DEF CustomersInv, SavesAreNumbered, OneSave
<1>10. StampsAreCounted'
  <2>1. ASSUME NEW c \in Customers PROVE customerRows'[c].updatedAt + Cardinality(T) <= k
    <3> DEFINE v == customerRows[c].updatedAt
               w == customerRows'[c].updatedAt
    <3>1. w = v \/ w = v + 1
      BY <1>7
    <3>2. v \in Nat /\ v + Cardinality(S) <= k
      BY <1>4
    <3> HIDE DEF S, T, k, x, v, w
    <3>3. T \in SUBSET S
      BY <1>5
    <3>4. v + Cardinality(T) <= k
      BY <1>4, <3>2, <3>3, CountKept
    <3>5. \A z \in S : \A U \in SUBSET (S \ {z}) : (v + 1) + Cardinality(U) <= k
      BY <1>4, <3>2, CountKept
    <3>6. (v + 1) + Cardinality(T) <= k
      BY <1>5, <3>5
    <3> QED  BY <3>1, <3>4, <3>6 DEF w
  <2>2. k = 3 * savesBegun'
    BY <1>3
  <2> HIDE DEF k
  <2> QED  BY <2>1, <2>2 DEF StampsAreCounted
<1>11. SaveIsHalfway'
  <2> SUFFICES ASSUME NEW r \in customerSaves', r.who \notin confused, r.at # "refused"
               PROVE  /\ r.want = meant[r.who]
                      /\ \A i \in 1 .. 3 : customerRows'[r.who].entry[Steps[i]] =
                             IF i <= WrittenSteps(r) THEN r.want[Steps[i]] ELSE r.base[Steps[i]]
    BY <1>3 DEF SaveIsHalfway, WrittenSteps
  <2>1. CASE r = d
    <3>1. /\ q.want = meant[q.who]
          /\ \A i \in 1 .. 3 : row.entry[Steps[i]] =
                 IF i <= WrittenSteps(q) THEN q.want[Steps[i]] ELSE q.base[Steps[i]]
      BY <1>1, <1>2, <2>1 DEF CustomersInv, SaveIsHalfway
    <3>2. ASSUME NEW i \in 1 .. 3
          PROVE  customerRows'[q.who].entry[Steps[i]] =
                     IF i <= q.step THEN q.want[Steps[i]] ELSE q.base[Steps[i]]
      <4>1. /\ i # q.step => Steps[i] # f
            /\ Steps[i] \in {"tier", "blacklist", "notes"}
        BY <1>1, StepsAre
      <4>2. customerRows'[q.who].entry[Steps[i]] =
                IF i = q.step THEN q.want[Steps[i]] ELSE row.entry[Steps[i]]
        BY <1>1, <1>7, <4>1 DEF Entry
      <4>3. i # q.step => (i <= WrittenSteps(q) <=> i <= q.step)
        BY <1>1
      <4>4. CASE i = q.step
        BY <1>1, <4>2, <4>4
      <4>5. CASE i # q.step
        BY <3>1, <4>2, <4>3, <4>5
      <4> QED  BY <4>4, <4>5
    <3> QED  BY <1>2, <2>1, <3>1, <3>2
  <2>2. CASE r \in customerSaves /\ r # q
    <3>0. r.who \in Customers
      BY <2>2, SaveFields
    <3>1. r.who # q.who /\ r.who \in Customers
      BY <2>2, <3>0 DEF CustomersInv, OneSave
    <3> QED  BY <1>7, <2>2, <3>1 DEF CustomersInv, SaveIsHalfway
  <2> QED  BY <1>3, <2>1, <2>2
<1>12. SavedAsEntered'
  <2> SUFFICES ASSUME NEW c \in Customers \ confused, \A r \in customerSaves' : r.who # c
               PROVE  customerRows'[c].entry = meant[c]
    BY <1>3 DEF SavedAsEntered
  <2>1. c # q.who /\ \A r \in customerSaves : r.who # c
    BY <1>2, <1>3
  <2> QED  BY <1>7, <2>1 DEF CustomersInv, SavedAsEntered
<1> QED  BY <1>8, <1>9, <1>10, <1>11, <1>12 DEF CustomersInv

(* What leaves the rows alone, and what is asked and meant.                *)
LEMMA RefuseSaveStep ==
    ASSUME CustomersInv, NEW q \in customerSaves, RefuseCustomer(q)
    PROVE  CustomersInv'
<1> DEFINE d == [q EXCEPT !.at = "refused"]
<1>1. /\ d \in CustomerSave /\ d.id = q.id /\ d.who = q.who /\ d.at = "refused"
      /\ WrittenSteps(d) = q.step /\ q.step \in 1 .. 3 /\ q.at = "sent"
  BY SaveFields DEF RefuseCustomer
<1>2. /\ customerSaves' = (customerSaves \ {q}) \cup {d}
      /\ UNCHANGED <<customerRows, known, reads, invalid, drawn, customerForm, savesBegun,
                     meant, confused>>
  BY DEF RefuseCustomer
<1> HIDE DEF d
<1>3. \A r \in customerSaves : WrittenSteps(r)' = WrittenSteps(r)
  BY DEF WrittenSteps
<1>4. ToWrite' \subseteq ToWrite
  <2>1. WrittenSteps(d)' = q.step /\ WrittenSteps(q) = q.step - 1
    BY <1>1 DEF WrittenSteps
  <2>2. \A j \in q.step + 1 .. 3 : j \in WrittenSteps(q) + 1 .. 3
    BY <1>1, <2>1
  <2>3. ASSUME NEW y \in ToWrite' PROVE y \in ToWrite
    <3>1. PICK r \in customerSaves' : \E j \in WrittenSteps(r)' + 1 .. 3 : y = 3 * (r.id - 1) + j
      BY DEF ToWrite
    <3>2. CASE r = d
      BY <1>1, <2>1, <2>2, <3>1, <3>2 DEF ToWrite
    <3>3. CASE r \in customerSaves
      BY <1>3, <3>1, <3>3 DEF ToWrite
    <3> QED  BY <1>2, <3>2, <3>3
  <2> QED  BY <2>3
<1>5. StampsAreCounted'
  BY <1>2, <1>4, StampsKept
<1>6. CustomersAreTyped' /\ SavesAreNumbered' /\ OneSave'
  BY <1>1, <1>2 DEF CustomersInv, CustomersAreTyped, SavesAreNumbered, OneSave
<1>7. SaveIsHalfway' /\ SavedAsEntered'
  BY <1>1, <1>2, <1>3 DEF CustomersInv, SaveIsHalfway, SavedAsEntered
<1> QED  BY <1>5, <1>6, <1>7 DEF CustomersInv

(* A failure, or no answer: the customer is confused from then on.         *)
LEMMA StopSaveStep ==
    ASSUME CustomersInv, NEW q \in customerSaves, SaveStops(q)
    PROVE  CustomersInv'
<1>1. /\ customerSaves' = customerSaves \ {q} /\ confused' = confused \cup {q.who}
      /\ UNCHANGED <<customerRows, known, reads, invalid, drawn, customerForm, savesBegun, meant>>
      /\ q.who \in Customers
  BY SaveFields DEF SaveStops
<1>2. \A r \in customerSaves : WrittenSteps(r)' = WrittenSteps(r)
  BY DEF WrittenSteps
<1>3. ToWrite' \subseteq ToWrite
  BY <1>1, <1>2 DEF ToWrite
<1>4. StampsAreCounted'
  BY <1>1, <1>3, StampsKept
<1>5. CustomersAreTyped' /\ SavesAreNumbered' /\ OneSave'
  BY <1>1 DEF CustomersInv, CustomersAreTyped, SavesAreNumbered, OneSave
<1>6. SaveIsHalfway' /\ SavedAsEntered'
  BY <1>1, <1>2 DEF CustomersInv, SaveIsHalfway, SavedAsEntered
<1> QED  BY <1>4, <1>5, <1>6 DEF CustomersInv

(* A saved field: the next request, or the end of the save.                *)
LEMMA SaveAnsweredStep ==
    ASSUME CustomersInv, NEW q \in customerSaves, CustomerSaved(q)
    PROVE  CustomersInv'
<1> DEFINE k == q.step + 1
           rest == customerSaves \ {q}
<1>1. /\ q \in CustomerSave /\ q.who \in Customers /\ q.step \in 1 .. 3 /\ q.at = "saved"
      /\ WrittenSteps(q) = q.step /\ k \in 1 .. 4 /\ k \in 2 .. 4
      /\ q.want \in Entry /\ q.base \in Entry
  <2>1. /\ q \in CustomerSave /\ q.who \in Customers /\ q.step \in 1 .. 3 /\ q.at = "saved"
        /\ q.want \in Entry /\ q.base \in Entry
    BY SaveFields DEF CustomerSaved
  <2> QED  BY <2>1 DEF WrittenSteps
<1>2. /\ customerSaves' = Proceed(q, k, rest)
      /\ reads' = IF q.who = drawn THEN [reads EXCEPT ![q.who] = QuerySent] ELSE reads
      /\ invalid' = IF q.who = drawn THEN invalid ELSE invalid \cup {q.who}
      /\ UNCHANGED <<customerRows, known, drawn, customerForm, savesBegun, meant, confused>>
  BY DEF CustomerSaved
<1>3. \/ /\ customerSaves' = rest
         /\ \A i \in k .. 3 : q.want[Steps[i]] = q.base[Steps[i]]
      \/ \E d \in CustomerSave :
            /\ customerSaves' = rest \cup {d}
            /\ d.id = q.id /\ d.who = q.who /\ d.base = q.base /\ d.want = q.want
            /\ d.at = "sent" /\ d.step \in k .. 3
            /\ \A i \in k .. d.step - 1 : q.want[Steps[i]] = q.base[Steps[i]]
  <2> HIDE DEF k, rest
  <2>1. \/ /\ Proceed(q, k, rest) = rest
           /\ \A i \in k .. 3 : q.want[Steps[i]] = q.base[Steps[i]]
        \/ \E d \in CustomerSave :
              /\ Proceed(q, k, rest) = rest \cup {d}
              /\ d.id = q.id /\ d.who = q.who /\ d.base = q.base /\ d.want = q.want
              /\ d.at = "sent" /\ d.step \in k .. 3
              /\ \A i \in k .. d.step - 1 : q.want[Steps[i]] = q.base[Steps[i]]
    BY <1>1, ProceedIs
  <2> QED  BY <1>2, <2>1
<1>4. \A r \in customerSaves : WrittenSteps(r)' = WrittenSteps(r)
  BY DEF WrittenSteps
<1>5. StampsAreCounted'
  <2>1. ASSUME NEW y \in ToWrite' PROVE y \in ToWrite
    <3>1. PICK r \in customerSaves' : \E j \in WrittenSteps(r)' + 1 .. 3 : y = 3 * (r.id - 1) + j
      BY DEF ToWrite
    <3>2. CASE r \in customerSaves
      BY <1>4, <3>1, <3>2 DEF ToWrite
    <3>3. CASE r \notin customerSaves
      <4>1. r.id = q.id /\ r.at = "sent" /\ r.step \in k .. 3
        BY <1>3, <3>3
      <4>2. WrittenSteps(r)' = r.step - 1
        BY <4>1 DEF WrittenSteps
      <4>3. \A j \in r.step - 1 + 1 .. 3 : j \in WrittenSteps(q) + 1 .. 3
        BY <1>1, <4>1
      <4> QED  BY <3>1, <4>1, <4>2, <4>3 DEF ToWrite
    <3> QED  BY <3>2, <3>3
  <2> QED  BY <1>2, <2>1, StampsKept
<1>6. CustomersAreTyped'
  <2>1. customerSaves' \subseteq CustomerSave
    BY <1>3 DEF CustomersInv, CustomersAreTyped
  <2>2. QuerySent \in CustomerRead
    BY DEF QuerySent, CustomerRead
  <2>3. reads' \in [Customers -> CustomerRead] /\ invalid' \subseteq Customers
    BY <1>1, <1>2, <2>2 DEF CustomersInv, CustomersAreTyped
  <2> QED  BY <1>2, <2>1, <2>3 DEF CustomersInv, CustomersAreTyped
<1>7. SavesAreNumbered' /\ OneSave'
  <2>1. CASE customerSaves' = rest
    BY <1>2, <2>1 DEF CustomersInv, SavesAreNumbered, OneSave
  <2>2. ASSUME NEW d, d.id = q.id, d.who = q.who, customerSaves' = rest \cup {d}
        PROVE  SavesAreNumbered' /\ OneSave'
    BY <1>2, <2>2 DEF CustomersInv, SavesAreNumbered, OneSave
  <2> QED  BY <1>3, <2>1, <2>2
<1>8. ASSUME q.who \notin confused
      PROVE  /\ q.want = meant[q.who]
             /\ \A i \in 1 .. 3 : customerRows[q.who].entry[Steps[i]] =
                    IF i <= q.step THEN q.want[Steps[i]] ELSE q.base[Steps[i]]
             /\ \A r \in rest : r.who # q.who
  BY <1>1, <1>8 DEF CustomersInv, SaveIsHalfway, OneSave
<1>9. SaveIsHalfway'
  <2> SUFFICES ASSUME NEW r \in customerSaves', r.who \notin confused, r.at # "refused"
               PROVE  /\ r.want = meant[r.who]
                      /\ \A i \in 1 .. 3 : customerRows[r.who].entry[Steps[i]] =
                             IF i <= WrittenSteps(r) THEN r.want[Steps[i]] ELSE r.base[Steps[i]]
    BY <1>2 DEF SaveIsHalfway, WrittenSteps
  <2>1. CASE r \in customerSaves
    BY <2>1 DEF CustomersInv, SaveIsHalfway
  <2>2. CASE r \notin customerSaves
    <3>1. /\ r.who = q.who /\ r.base = q.base /\ r.want = q.want
          /\ r.at = "sent" /\ r.step \in k .. 3 /\ WrittenSteps(r) = r.step - 1
          /\ \A i \in k .. r.step - 1 : q.want[Steps[i]] = q.base[Steps[i]]
      BY <1>3, <2>2 DEF WrittenSteps
    <3>2. ASSUME NEW i \in 1 .. 3
          PROVE  customerRows[q.who].entry[Steps[i]] =
                     IF i <= r.step - 1 THEN q.want[Steps[i]] ELSE q.base[Steps[i]]
      <4>1. customerRows[q.who].entry[Steps[i]] =
                IF i <= q.step THEN q.want[Steps[i]] ELSE q.base[Steps[i]]
        BY <1>8, <3>1
      <4>2. CASE i <= q.step
        BY <1>1, <3>1, <4>1, <4>2
      <4>3. CASE i > q.step /\ i <= r.step - 1
        BY <1>1, <3>1, <4>1, <4>3
      <4>4. CASE i > r.step - 1
        BY <1>1, <3>1, <4>1, <4>4
      <4> QED  BY <1>1, <3>1, <4>2, <4>3, <4>4
    <3> QED  BY <1>8, <3>1, <3>2
  <2> QED  BY <2>1, <2>2
<1>10. SavedAsEntered'
  <2> SUFFICES ASSUME NEW c \in Customers \ confused, \A r \in customerSaves' : r.who # c
               PROVE  customerRows[c].entry = meant[c]
    BY <1>2 DEF SavedAsEntered
  <2>1. CASE c = q.who
    <3>1. \A i \in k .. 3 : q.want[Steps[i]] = q.base[Steps[i]]
      BY <1>3, <2>1
    <3>2. ASSUME NEW i \in 1 .. 3 PROVE customerRows[q.who].entry[Steps[i]] = q.want[Steps[i]]
      <4>1. customerRows[q.who].entry[Steps[i]] =
                IF i <= q.step THEN q.want[Steps[i]] ELSE q.base[Steps[i]]
        BY <1>8, <2>1
      <4>2. CASE i <= q.step
        BY <4>1, <4>2
      <4>3. CASE ~(i <= q.step)
        <5>1. i \in k .. 3
          BY <1>1, <4>3
        <5> QED  BY <3>1, <4>1, <4>3, <5>1
      <4> QED  BY <4>2, <4>3
    <3>3. customerRows[q.who].entry \in Entry
      BY <1>1 DEF CustomersInv, CustomersAreTyped, Stamped
    <3> QED  BY <1>1, <1>8, <2>1, <3>2, <3>3, StepsAre
  <2>2. CASE c # q.who
    BY <1>3, <2>2 DEF CustomersInv, SavedAsEntered
  <2> QED  BY <2>1, <2>2
<1> QED  BY <1>5, <1>6, <1>7, <1>9, <1>10 DEF CustomersInv

(* A colleague's change, which is meant, too.                              *)
LEMMA ColleagueStep ==
    ASSUME CustomersInv, NEW c \in Customers, NEW f \in Touched, ColleagueSaves(c, f)
    PROVE  CustomersInv'
<1> DEFINE row == customerRows[c]
           v == 1 - row.entry[f]
           m == row.updatedAt
           n == savesBegun
           k == 3 * n
           S == ToWrite
           T == ToWrite'
<1>1. f \in {"tier", "blacklist", "notes"} /\ row \in Stamped /\ row.entry \in Entry /\ m \in Nat
  BY CustomersAssumption DEF CustomersInv, CustomersAreTyped, Stamped
<1>2. v \in {0, 1} /\ [row.entry EXCEPT ![f] = v] \in Entry /\ [meant[c] EXCEPT ![f] = v] \in Entry
  <2>1. v \in {0, 1}
    BY <1>1 DEF Entry
  <2>2. meant[c] \in Entry
    BY DEF CustomersInv, CustomersAreTyped
  <2> HIDE DEF v
  <2> QED  BY <1>1, <2>1, <2>2 DEF Entry
<1>3. /\ n \in Nat /\ n + 1 \in 0 .. MaxCustomerSaves
      /\ savesBegun' = n + 1
      /\ customerRows' = [customerRows EXCEPT ![c] =
                             [entry |-> [row.entry EXCEPT ![f] = v], updatedAt |-> m + 1]]
      /\ meant' = [meant EXCEPT ![c] = [meant[c] EXCEPT ![f] = v]]
      /\ confused' = IF \E q \in customerSaves : q.who = c THEN confused \cup {c} ELSE confused
      /\ UNCHANGED <<known, reads, invalid, drawn, customerForm, customerSaves>>
  <2>1. n \in 0 .. MaxCustomerSaves /\ n < MaxCustomerSaves
    BY DEF ColleagueSaves, CustomersInv, CustomersAreTyped
  <2>2. n \in Nat /\ n + 1 \in 0 .. MaxCustomerSaves
    BY <2>1, CustomersAssumption
  <2>3. meant' = [meant EXCEPT ![c] = [meant[c] EXCEPT ![f] = v]]
    BY DEF ColleagueSaves, CustomersInv, CustomersAreTyped
  <2>4. customerRows' = [customerRows EXCEPT ![c] =
                             [entry |-> [row.entry EXCEPT ![f] = v], updatedAt |-> m + 1]]
    BY DEF ColleagueSaves
  <2>5. /\ savesBegun' = n + 1
        /\ confused' = IF \E q \in customerSaves : q.who = c THEN confused \cup {c} ELSE confused
        /\ UNCHANGED <<known, reads, invalid, drawn, customerForm, customerSaves>>
    BY DEF ColleagueSaves
  <2> HIDE DEF v, m, n
  <2> QED  BY <2>2, <2>3, <2>4, <2>5
<1>4. /\ k \in Nat /\ S \in SUBSET (1 .. k)
      /\ \A x \in Customers : /\ customerRows[x].updatedAt \in Nat
                              /\ customerRows[x].updatedAt + Cardinality(S) <= k
  BY Stamps
<1>5. T = S /\ \A r \in customerSaves : WrittenSteps(r)' = WrittenSteps(r)
  BY <1>3 DEF ToWrite, WrittenSteps
<1>6. Cardinality(S) \in Nat
  <2>1. IsFiniteSet(1 .. k)
    BY <1>4, FS_Interval
  <2>2. IsFiniteSet(S)
    BY <1>4, <2>1, FS_Subset
  <2> QED  BY <2>2, FS_CardinalityType
<1>7. /\ customerRows'[c] = [entry |-> [row.entry EXCEPT ![f] = v], updatedAt |-> m + 1]
      /\ customerRows'[c].entry = [row.entry EXCEPT ![f] = v]
      /\ customerRows'[c].updatedAt = m + 1
      /\ \A x \in Customers \ {c} : customerRows'[x] = customerRows[x] /\ meant'[x] = meant[x]
      /\ meant'[c] = [meant[c] EXCEPT ![f] = v]
  <2> HIDE DEF v, m
  <2> QED  BY <1>3 DEF CustomersInv, CustomersAreTyped
<1>8. CustomersAreTyped'
  <2>1. m + 1 \in 0 .. 3 * MaxCustomerSaves
    <3> DEFINE a == Cardinality(S)
    <3>1. a \in Nat /\ m + a <= 3 * n /\ n + 1 \in 0 .. MaxCustomerSaves /\ n \in Nat
      BY <1>3, <1>4, <1>6
    <3> HIDE DEF a, m, n
    <3> QED  BY <1>1, <3>1, CustomersAssumption
  <2> HIDE DEF v, m, n
  <2>2. [entry |-> [row.entry EXCEPT ![f] = v], updatedAt |-> m + 1] \in Stamped
    BY <1>2, <2>1 DEF Stamped
  <2>3. customerRows' \in [Customers -> Stamped] /\ meant' \in [Customers -> Entry]
    BY <1>2, <1>3, <2>2 DEF CustomersInv, CustomersAreTyped
  <2> QED  BY <1>3, <2>3 DEF CustomersInv, CustomersAreTyped
<1>9. SavesAreNumbered' /\ OneSave'
  <2>1. \A q \in customerSaves : q.id \in 1 .. n + 1
    BY <1>3 DEF CustomersInv, SavesAreNumbered
  <2> HIDE DEF n, v, m
  <2> QED  BY <1>3, <2>1 DEF CustomersInv, SavesAreNumbered, OneSave
<1>10. StampsAreCounted'
  <2>1. ASSUME NEW x \in Customers PROVE customerRows'[x].updatedAt + Cardinality(T) <= 3 * savesBegun'
    <3> DEFINE a == Cardinality(S)
               u == customerRows[x].updatedAt
               w == customerRows'[x].updatedAt
    <3>1. w = u \/ w = u + 1
      BY <1>7
    <3>2. u \in Nat /\ a \in Nat /\ u + a <= 3 * n /\ n \in Nat
      BY <1>3, <1>4, <1>6
    <3>3. w + a <= 3 * (n + 1)
      <4> HIDE DEF a, u, w, n
      <4> QED  BY <3>1, <3>2
    <3> HIDE DEF n, S, T
    <3> QED  BY <1>3, <1>5, <3>3
  <2> QED  BY <2>1 DEF StampsAreCounted
<1>11. SaveIsHalfway'
  <2> SUFFICES ASSUME NEW r \in customerSaves, r.who \notin confused', r.at # "refused"
               PROVE  /\ r.want = meant'[r.who]
                      /\ \A i \in 1 .. 3 : customerRows'[r.who].entry[Steps[i]] =
                             IF i <= WrittenSteps(r) THEN r.want[Steps[i]] ELSE r.base[Steps[i]]
    BY <1>3, <1>5 DEF SaveIsHalfway
  <2>1. r.who \in Customers \ {c} /\ r.who \notin confused
    BY <1>3, SaveFields
  <2> QED  BY <1>7, <2>1 DEF CustomersInv, SaveIsHalfway
<1>12. SavedAsEntered'
  <2> SUFFICES ASSUME NEW x \in Customers \ confused', \A r \in customerSaves : r.who # x
               PROVE  customerRows'[x].entry = meant'[x]
    BY <1>3 DEF SavedAsEntered
  <2>1. customerRows[x].entry = meant[x]
    BY <1>3 DEF CustomersInv, SavedAsEntered
  <2> HIDE DEF v
  <2> QED  BY <1>7, <2>1
<1> QED  BY <1>8, <1>9, <1>10, <1>11, <1>12 DEF CustomersInv

LEMMA CustomersStep == CustomersInv /\ [CustomersNext]_customerVars => CustomersInv'
<1> SUFFICES ASSUME CustomersInv, [CustomersNext]_customerVars PROVE CustomersInv'
  OBVIOUS
<1>1. CASE UNCHANGED customerVars
  BY <1>1, CustomersPageStep DEF customerVars, CustomersInv, CustomersAreTyped
<1>2. ASSUME NEW q \in customerSaves, CustomerRefused(q) \/ CustomerUnheard(q)
      PROVE  CustomersInv'
  BY <1>2, StopSaveStep DEF CustomerRefused, CustomerUnheard
<1>3. CASE PressSave
  BY <1>3, PressSaveStep
<1> QED  BY <1>1, <1>2, <1>3, LookAtStep, TypeEntryStep, HandleSaveStep, RefuseSaveStep,
    SaveAnsweredStep,
            ColleagueStep DEF CustomersNext

(* The inductive invariant of the customers' page.                         *)
THEOREM CustomersInvariant == CustomersSpec => []CustomersInv
BY CustomersInitInv, CustomersStep, PTL DEF CustomersSpec

(* The customers' page is type correct.                                    *)
THEOREM CustomersTypeCorrect == CustomersSpec => []CustomersTypeOK
<1>1. CustomersInv => CustomersTypeOK
  BY DEF CustomersInv, CustomersAreTyped, CustomersTypeOK
<1> QED  BY <1>1, CustomersInvariant, PTL

(* A save that is through has stored every field as the form held it when  *)
(* the button was pressed, for any customers and any number of saves.      *)
THEOREM EntriesAreSaved == CustomersSpec => []SavedAsEntered
<1>1. CustomersInv => SavedAsEntered
  BY DEF CustomersInv
<1> QED  BY <1>1, CustomersInvariant, PTL
=============================================================================

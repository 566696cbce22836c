------------------------------- MODULE Accounts -------------------------------
(***************************************************************************)
(* One owner's account, from registration to a new password: the pages of  *)
(* features/auth in the tabs of the owner's browser, and the commands of   *)
(* AuthService behind them.  Each command reads the user, works on what it *)
(* has read and saves later; nothing orders the saves.  Lock-out after     *)
(* wrong passwords is part of a refusal.                                   *)
(***************************************************************************)
EXTENDS Integers, FiniteSets

CONSTANTS
    Tabs,               \* tabs of one browser
    MaxForms            \* bound on requests sent

ASSUME AccountsAssumption == IsFiniteSet(Tabs) /\ MaxForms \in Nat

VARIABLES
    account,        \* the user's row
    sessions,       \* refresh tokens in the table
    forms,          \* requests that have no answer yet
    sentForms,      \* requests sent so far
    tabs            \* [Tabs -> what a tab shows]

accountVars == <<account, sessions, forms, sentForms, tabs>>

Pages == {"register", "login", "forgot", "reset", "verify", "dashboard"}
Numbers == 0 .. MaxForms

(* A password and a mailed token are named by the request they come from;  *)
(* welcome is the verification token, resetToken the newest reset token.   *)
Account == [is : {"none", "unverified", "verified"}, password : Numbers, resetToken : Numbers]

(* late is a history: some reset had read the sessions already, or the     *)
(* password was no longer the one checked, when this session was stored.   *)
Session == [id : Numbers, password : Numbers, usable : BOOLEAN, late : BOOLEAN]

(* A request of tab: token is the mailed token it carries, password the    *)
(* one that was typed.  ours: the form that sent it is still on the tab.   *)
(* revokes: the sessions that a reset has read.                            *)
Form == [id : Numbers, tab : Tabs, kind : Pages \ {"dashboard"}, token : Numbers,
         password : Numbers, at : {"sent", "read", "done", "refused"}, ours : BOOLEAN,
         revokes : SUBSET Numbers]

(* said: what the page tells after an answer.                              *)
Tab == [page : Pages, token : Numbers, said : {"nothing", "success", "error"}]

At(page) == [page |-> page, token |-> 0, said |-> "nothing"]
Asks(t) == \E q \in forms : q.tab = t /\ q.ours
Become(q, at) == (forms \ {q}) \cup {[q EXCEPT !.at = at]}
Left(t) == {IF q.tab = t THEN [q EXCEPT !.ours = FALSE] ELSE q : q \in forms}

AccountsInit ==
    /\ account \in {[is |-> "none", password |-> 0, resetToken |-> 0],
                    [is |-> "verified", password |-> 0, resetToken |-> 0]}
    /\ sessions = {} /\ forms = {} /\ sentForms = 0
    /\ tabs = [t \in Tabs |-> At("login")]

-----------------------------------------------------------------------------
(* Links between the pages, and the address bar.  A link as AuthService    *)
(* words it, /reset-password?token=..., leads to the login page: the       *)
(* router wants the token as a part of the path.                           *)
GoToPage(t, page) ==
    /\ page \in {"register", "login", "forgot"} /\ tabs[t].page # page
    /\ tabs' = [tabs EXCEPT ![t] = At(page)]
    /\ forms' = Left(t)
    /\ UNCHANGED <<account, sessions, sentForms>>

(* The address with the token in its path, typed by hand: no mail of a     *)
(* request without a tenant is queued, so the owner got it by other means. *)
OpenReset(t, token) ==
    /\ token \in 1 .. sentForms /\ account.is # "none"
    /\ tabs' = [tabs EXCEPT ![t] = [At("reset") EXCEPT !.token = token]]
    /\ forms' = Left(t)
    /\ UNCHANGED <<account, sessions, sentForms>>

-----------------------------------------------------------------------------
(* The forms: one request per tab at a time (isLoading, submitLockRef).    *)
SendForm(t, kind, token, password, others) ==
    /\ sentForms < MaxForms
    /\ sentForms' = sentForms + 1
    /\ forms' = others \cup
          {[id |-> sentForms + 1, tab |-> t, kind |-> kind, token |-> token, at |-> "sent",
            password |-> password, ours |-> TRUE, revokes |-> {}]}
    /\ UNCHANGED <<account, sessions>>

SubmitRegister(t) ==
    /\ tabs[t].page = "register" /\ ~Asks(t)
    /\ SendForm(t, "register", 0, sentForms + 1, forms)
    /\ UNCHANGED tabs

(* The owner types a password of his, maybe an older one.                  *)
SubmitLogin(t, password) ==
    /\ tabs[t].page = "login" /\ ~Asks(t)
    /\ SendForm(t, "login", 0, password, forms)
    /\ UNCHANGED tabs

SubmitForgot(t) ==
    /\ tabs[t].page = "forgot" /\ ~Asks(t) /\ tabs[t].said # "success"
    /\ SendForm(t, "forgot", 0, 0, forms)
    /\ UNCHANGED tabs

SubmitReset(t) ==
    /\ tabs[t].page = "reset" /\ ~Asks(t)
    /\ SendForm(t, "reset", tabs[t].token, sentForms + 1, forms)
    /\ tabs' = [tabs EXCEPT ![t].said = "nothing"]

(* The page that verifies sends its request as it opens.                   *)
OpenVerify(t) ==
    /\ account.is # "none"
    /\ SendForm(t, "verify", 0, 0, Left(t))
    /\ tabs' = [tabs EXCEPT ![t] = At("verify")]

-----------------------------------------------------------------------------
(* The server.  Registration looks for the address and is backed by a      *)
(* unique index; the session it creates is of no use to the page, which    *)
(* drops it, and never expires before the others.                          *)
Register(q) ==
    /\ q.kind = "register" /\ q.at = "sent" /\ account.is = "none"
    /\ account' = [is |-> "unverified", password |-> q.password, resetToken |-> 0]
    /\ sessions' = sessions \cup {[id |-> q.id, password |-> q.password,
                                   usable |-> TRUE, late |-> FALSE]}
    /\ forms' = Become(q, "done")
    /\ UNCHANGED <<sentForms, tabs>>

(* The token is deleted with the first use.                                *)
VerifyEmail(q) ==
    /\ q.kind = "verify" /\ q.at = "sent" /\ account.is = "unverified"
    /\ account' = [account EXCEPT !.is = "verified"]
    /\ forms' = Become(q, "done")
    /\ UNCHANGED <<sessions, sentForms, tabs>>

(* Says yes for an address that nobody has.  For the owner's the token is  *)
(* saved first; then the mail is queued under the request's tenant, which  *)
(* this request does not have, and that is an exception.                   *)
ForgotPassword(q) ==
    /\ q.kind = "forgot" /\ q.at = "sent"
    /\ IF account.is = "none"
       THEN account' = account /\ forms' = Become(q, "done")
       ELSE /\ account' = [account EXCEPT !.resetToken = q.id]
            /\ forms' = Become(q, "refused")
    /\ UNCHANGED <<sessions, sentForms, tabs>>

RevokesNothing == {}

(* RevokeAllUserTokensAsync                                                *)
Revoked == {s.id : s \in {x \in sessions : x.usable}}

ReadReset(q) ==
    /\ q.kind = "reset" /\ q.at = "sent" /\ q.token = account.resetToken
    /\ forms' = (forms \ {q}) \cup {[q EXCEPT !.at = "read", !.revokes = Revoked]}
    /\ UNCHANGED <<account, sessions, sentForms, tabs>>

(* Whatever token is there by now is deleted.                              *)
SaveReset(q) ==
    /\ q.kind = "reset" /\ q.at = "read"
    /\ account' = [account EXCEPT !.password = q.password, !.resetToken = 0]
    /\ sessions' = {[s EXCEPT !.usable = @ /\ s.id \notin q.revokes] : s \in sessions}
    /\ forms' = Become(q, "done")
    /\ UNCHANGED <<sentForms, tabs>>

ReadLogin(q) ==
    /\ q.kind = "login" /\ q.at = "sent"
    /\ account.is = "verified" /\ q.password = account.password
    /\ forms' = Become(q, "read")
    /\ UNCHANGED <<account, sessions, sentForms, tabs>>

SaveLogin(q) ==
    /\ q.kind = "login" /\ q.at = "read"
    /\ sessions' = sessions \cup
          {[id |-> q.id, password |-> q.password, usable |-> TRUE,
            late |-> \/ q.password # account.password
                     \/ \E r \in forms : r.kind = "reset" /\ r.at = "read"]}
    /\ forms' = Become(q, "done")
    /\ UNCHANGED <<account, sentForms, tabs>>

(* Also a link that is too old, a tenant that is suspended, too many       *)
(* wrong passwords or too many requests.                                   *)
RefuseForm(q) ==
    /\ q.at = "sent"
    /\ forms' = Become(q, "refused")
    /\ UNCHANGED <<account, sessions, sentForms, tabs>>

-----------------------------------------------------------------------------
(* A form that was left still navigates when its answer is good, except    *)
(* that of the verification, which the effect's clean-up cuts off.         *)
After(q) ==
    CASE q.kind \in {"register", "reset"} -> At("login")
      [] q.kind = "login" -> At("dashboard")
      [] OTHER -> IF q.ours THEN [tabs[q.tab] EXCEPT !.said = "success"] ELSE tabs[q.tab]

FormDone(q) ==
    /\ q.at = "done"
    /\ tabs' = [tabs EXCEPT ![q.tab] = After(q)]
    /\ forms' = IF After(q).page = tabs[q.tab].page
                THEN forms \ {q}
                ELSE Left(q.tab) \ {q, [q EXCEPT !.ours = FALSE]}
    /\ UNCHANGED <<account, sessions, sentForms>>

Sorry(q) == IF q.ours THEN [tabs EXCEPT ![q.tab].said = "error"] ELSE tabs

FormRefused(q) ==
    /\ q.at = "refused"
    /\ tabs' = Sorry(q) /\ forms' = forms \ {q}
    /\ UNCHANGED <<account, sessions, sentForms>>

(* No answer, before or after the command was carried out; a command that  *)
(* was read is carried out.                                                *)
FormLost(q) ==
    /\ q.at \in {"sent", "done"}
    /\ tabs' = Sorry(q) /\ forms' = forms \ {q}
    /\ UNCHANGED <<account, sessions, sentForms>>

AccountsNext ==
    \/ \E t \in Tabs :
          \/ \E page \in Pages : GoToPage(t, page)
          \/ \E token \in Numbers : OpenReset(t, token)
          \/ \E password \in 0 .. sentForms : SubmitLogin(t, password)
          \/ SubmitRegister(t) \/ SubmitForgot(t) \/ SubmitReset(t) \/ OpenVerify(t)
    \/ \E q \in forms :
          \/ Register(q) \/ VerifyEmail(q) \/ ForgotPassword(q) \/ ReadReset(q) \/ SaveReset(q)
          \/ ReadLogin(q) \/ SaveLogin(q) \/ RefuseForm(q)
          \/ FormDone(q) \/ FormRefused(q) \/ FormLost(q)

AccountsSpec == AccountsInit /\ [][AccountsNext]_accountVars
-----------------------------------------------------------------------------
AccountsTypeOK ==
    /\ account \in Account /\ sessions \subseteq Session /\ forms \subseteq Form
    /\ sentForms \in Numbers /\ tabs \in [Tabs -> Tab]

(* A new password ends the sessions that were opened with an older one:    *)
(* only a login that was stored while a reset was between its look at the  *)
(* sessions and its commit, or after it with a password checked before it, *)
(* outlives the reset.                                                     *)
OldPasswordsOpenNothing ==
    \A s \in sessions : s.usable /\ s.password # account.password => s.late
=============================================================================

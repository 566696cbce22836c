------------------------------ MODULE Sessions ------------------------------
(***************************************************************************)
(* The session of one browser page of the admin panel (lib/api.ts,         *)
(* authStore.ts) and the refresh-token rows behind it (AuthService.cs).    *)
(* Every call that is answered with 401 refreshes the session by itself    *)
(* and is sent again once; a refresh replaces the token it was sent, in a  *)
(* read and a later save.  Token pairs are numbered: pair n is access      *)
(* token n and refresh token n, and 0 is no token.                         *)
(***************************************************************************)
EXTENDS Integers, FiniteSets

CONSTANTS
    Calls,              \* API calls under way on the page
    MaxPairs, MaxLogins \* bounds on token pairs and on logins

ASSUME SessionAssumption == MaxPairs \in Nat /\ MaxLogins \in Nat

Pairs == 1 .. MaxPairs

VARIABLES
    tokens,         \* the pair in the store (persisted: it survives a reload)
    session,        \* the login that the store's user is from, 0: none
    calls,          \* [Calls -> Call]
    leaving,        \* /login was assigned to window.location
    usable,         \* refresh-token rows that are not revoked
    line,           \* the login that a pair goes back to
    expired,        \* access tokens that have expired
    issued, logins,
    mishaps,        \* history: what may have cost the user the session
    lostSession     \* history: a session was dropped without being asked to

store == <<tokens, session>>
server == <<usable, line, expired, issued, logins>>
sessionVars == <<store, calls, leaving, server, mishaps, lostSession>>

(* A call: its request is sent, its refresh is sent, read by the server    *)
(* (rotating), saved (rotated) or refused.  A call is gone when its page   *)
(* was reloaded; the server goes on.                                       *)
Call == [at : {"idle", "sent", "refreshing", "rotating", "rotated", "refused"},
         tok : Pairs \cup {0}, new : Pairs \cup {0}, retried : BOOLEAN, gone : BOOLEAN]
NoCall == [at |-> "idle", tok |-> 0, new |-> 0, retried |-> FALSE, gone |-> FALSE]

Mishap == {"overlap", "lost", "reload", "logout", "reset"}
Refreshing(c) == calls[c].at \in {"refreshing", "rotating", "rotated"}
SetCall(c, s) == calls' = [calls EXCEPT ![c] = s]

SessionInit ==
    /\ tokens = 0 /\ session = 0 /\ calls = [c \in Calls |-> NoCall] /\ leaving = FALSE
    /\ usable = {} /\ line = [n \in Pairs |-> 0] /\ expired = {}
    /\ issued = 0 /\ logins = 0 /\ mishaps = {} /\ lostSession = FALSE

(* A new refresh-token row of login l.                                     *)
Issue(l) ==
    /\ issued < MaxPairs
    /\ issued' = issued + 1
    /\ line' = [line EXCEPT ![issued + 1] = l]

(* LoginPage: LoginAsync adds a row, the store takes the pair and user.    *)
Login ==
    /\ session = 0 /\ ~leaving /\ logins < MaxLogins
    /\ logins' = logins + 1
    /\ Issue(logins + 1)
    /\ usable' = usable \cup {issued + 1}
    /\ tokens' = issued + 1
    /\ session' = logins + 1
    /\ UNCHANGED <<calls, leaving, expired, mishaps, lostSession>>

(* A page behind ProtectedRoute asks for something.                        *)
Send(c) ==
    /\ session # 0 /\ calls[c] = NoCall
    /\ SetCall(c, [NoCall EXCEPT !.at = "sent", !.tok = tokens])
    /\ UNCHANGED <<store, leaving, server, mishaps, lostSession>>

ClearStore == tokens' = 0 /\ session' = 0

(* logout() and a redirect, out of the response interceptor.               *)
DropSession ==
    /\ ClearStore
    /\ leaving' = TRUE
    /\ lostSession' = (lostSession \/ session # 0)

(* Any answer but 401, and the second 401, end the call.                   *)
Answered(c) ==
    /\ calls[c].at = "sent"
    /\ calls[c].tok \in expired \cup {0} => calls[c].retried
    /\ SetCall(c, NoCall)
    /\ UNCHANGED <<store, leaving, server, mishaps, lostSession>>

(* The first 401 sends the refresh token the store holds by then.          *)
Unauthorized(c) ==
    /\ calls[c].at = "sent" /\ ~calls[c].retried /\ calls[c].tok \in expired \cup {0}
    /\ IF tokens = 0 THEN SetCall(c, NoCall) /\ DropSession /\ UNCHANGED mishaps
       ELSE /\ SetCall(c, [calls[c] EXCEPT !.at = "refreshing", !.tok = tokens, !.retried = TRUE])
            /\ mishaps' = IF \E d \in Calls : Refreshing(d) /\ calls[d].tok = tokens
                          THEN mishaps \cup {"overlap"} ELSE mishaps
            /\ UNCHANGED <<store, leaving, lostSession>>
    /\ UNCHANGED server

(* RefreshTokenAsync reads the row.  Of a token that is used already it    *)
(* says that all rows of the user are revoked, but that is never saved.    *)
FindToken(c) ==
    /\ calls[c].at = "refreshing"
    /\ SetCall(c, [calls[c] EXCEPT !.at = IF calls[c].tok \in usable THEN "rotating"
                                         ELSE "refused"])
    /\ UNCHANGED <<store, leaving, server, mishaps, lostSession>>

RotateKeepingOld(c) ==
    /\ calls[c].at = "rotating"
    /\ Issue(line[calls[c].tok])
    /\ usable' = usable \cup {issued + 1}
    /\ SetCall(c, [calls[c] EXCEPT !.at = "rotated", !.new = issued + 1])
    /\ UNCHANGED <<store, leaving, expired, logins, mishaps, lostSession>>

(* ... and saves its rotation, whatever happened to the row since.         *)
Rotate(c) ==
    /\ calls[c].at = "rotating"
    /\ Issue(line[calls[c].tok])
    /\ usable' = (usable \ {calls[c].tok}) \cup {issued + 1}
    /\ SetCall(c, [calls[c] EXCEPT !.at = "rotated", !.new = issued + 1])
    /\ UNCHANGED <<store, leaving, expired, logins, mishaps, lostSession>>

RefreshedForOne(c) ==
    /\ calls[c].at = "rotated" /\ ~calls[c].gone
    /\ SetCall(c, [NoCall EXCEPT !.at = "sent", !.tok = calls[c].new, !.retried = TRUE])
    /\ UNCHANGED <<store, leaving, server, mishaps, lostSession>>

(* setTokens, whoever is logged in by now, and the call is sent again.     *)
Refreshed(c) ==
    /\ calls[c].at = "rotated" /\ ~calls[c].gone
    /\ tokens' = calls[c].new
    /\ SetCall(c, [NoCall EXCEPT !.at = "sent", !.tok = calls[c].new, !.retried = TRUE])
    /\ UNCHANGED <<session, leaving, server, mishaps, lostSession>>

RefreshRefused(c) ==
    /\ calls[c].at = "refused" /\ ~calls[c].gone
    /\ SetCall(c, NoCall)
    /\ DropSession
    /\ UNCHANGED <<server, mishaps>>

(* The connection breaks; the server may have rotated or still do so.      *)
RefreshLost(c) ==
    /\ Refreshing(c) /\ ~calls[c].gone
    /\ SetCall(c, IF calls[c].at = "rotated" THEN NoCall ELSE [calls[c] EXCEPT !.gone = TRUE])
    /\ DropSession
    /\ mishaps' = mishaps \cup {"lost"}
    /\ UNCHANGED server

NobodyWaits(c) ==
    /\ calls[c].gone /\ calls[c].at \in {"rotated", "refused"}
    /\ SetCall(c, NoCall)
    /\ UNCHANGED <<store, leaving, server, mishaps, lostSession>>

(* "Cikis" clears the store; it does not call /auth/logout, and what the   *)
(* page is waiting for still arrives.                                      *)
UserLogout ==
    /\ session # 0
    /\ ClearStore
    /\ mishaps' = IF \E c \in Calls : Refreshing(c) /\ ~calls[c].gone
                  THEN mishaps \cup {"logout"} ELSE mishaps
    /\ UNCHANGED <<calls, leaving, server, lostSession>>

(* The page is loaded anew, by the redirect or by the user.                *)
Reload ==
    /\ leaving \/ \E c \in Calls : calls[c] # NoCall /\ ~calls[c].gone
    /\ leaving' = FALSE
    /\ calls' = [c \in Calls |-> IF calls[c].at \in {"idle", "sent"} THEN NoCall
                                 ELSE [calls[c] EXCEPT !.gone = TRUE]]
    /\ mishaps' = IF \E c \in Calls : Refreshing(c) /\ ~calls[c].gone
                  THEN mishaps \cup {"reload"} ELSE mishaps
    /\ UNCHANGED <<store, server, lostSession>>

(* ResetPasswordAsync, from the mailed link.                               *)
ResetPassword ==
    /\ usable # {} /\ "reset" \notin mishaps
    /\ usable' = {}
    /\ mishaps' = mishaps \cup {"reset"}
    /\ UNCHANGED <<store, calls, leaving, line, expired, issued, logins, lostSession>>

(* Of tokens nobody has, or has yet, it would not be noticed.              *)
AccessTokenExpires ==
    /\ \E n \in ({tokens} \cup {calls[c].tok : c \in Calls}) \ expired :
          n # 0 /\ expired' = expired \cup {n}
    /\ UNCHANGED <<store, calls, leaving, usable, line, issued, logins, mishaps, lostSession>>

Handle(c) ==
    \/ Answered(c) \/ Unauthorized(c) \/ FindToken(c) \/ Rotate(c)
    \/ Refreshed(c) \/ RefreshRefused(c) \/ RefreshLost(c) \/ NobodyWaits(c)
SessionNext ==
    \/ \E c \in Calls : Send(c) \/ Handle(c)
    \/ Login \/ UserLogout \/ Reload \/ ResetPassword \/ AccessTokenExpires

SessionSpec == SessionInit /\ [][SessionNext]_sessionVars
-----------------------------------------------------------------------------
SessionTypeOK ==
    /\ {tokens, issued} \subseteq 0 .. MaxPairs /\ {session, logins} \subseteq 0 .. MaxLogins
    /\ calls \in [Calls -> Call] /\ leaving \in BOOLEAN /\ lostSession \in BOOLEAN
    /\ usable \subseteq Pairs /\ expired \subseteq Pairs /\ mishaps \subseteq Mishap
    /\ line \in [Pairs -> 0 .. MaxLogins]

(* The panel drops a session by itself only after two refreshes carried    *)
(* one token, a refresh whose answer was lost or cut off by a reload or a  *)
(* logout, or a password reset: expiry alone, at any moment and in any     *)
(* mixture of calls, never costs the user the session.                     *)
SessionLossNeedsMishap == lostSession => mishaps # {}

(* A login has one usable refresh token at most, as long as no two         *)
(* refreshes carried the same token: rotation retires what it replaces,    *)
(* whatever answers are lost.                                              *)
OneTokenPerLogin ==
    "overlap" \notin mishaps =>
        \A m, n \in usable : line[m] = line[n] => m = n
=============================================================================

---------------------------- MODULE Idempotency ----------------------------
(***************************************************************************)
(* One Idempotency-Key: the attempts a client makes to place one booking,  *)
(* as IdempotencyMiddleware and IdempotencyService handle them.  The       *)
(* response to an attempt that booked is kept for a minute in Redis and    *)
(* for a day in a database record, and is replayed to later attempts.      *)
(***************************************************************************)
EXTENDS Naturals, FiniteSets

CONSTANTS
    Attempts,        \* the POST requests that carry the key
    None,
    ClientWaits,     \* TRUE: an attempt is sent only when no other is being handled
    ServerFails      \* TRUE: the server may fail after a commit, or fail to store

ASSUME IdempotencyAssumption ==
    /\ None \notin Attempts
    /\ ClientWaits \in BOOLEAN
    /\ ServerFails \in BOOLEAN

VARIABLES
    pc,              \* how far the handling of each attempt has come
    booked,          \* the attempts whose reservation is committed
    cache,           \* the attempt whose response Redis holds, or None
    record,          \* the IdempotencyKeys row: whose response, and whether it has expired
    answer,          \* the attempt whose response was written to attempt a, or None
    late             \* history: the attempts sent while an unexpired record existed

vars == <<pc, booked, cache, record, answer, late>>

InProgress == {"lookingInRedis", "lookingInDb", "handling", "committed", "storing",
               "replying"}

NoRecord == [of |-> None, expired |-> FALSE]

RecordLives == record.of # None /\ ~record.expired

Goto(a, label) == pc' = [pc EXCEPT ![a] = label]

Init ==
    /\ pc = [a \in Attempts |-> "unsent"]
    /\ booked = {}
    /\ cache = None
    /\ record = NoRecord
    /\ answer = [a \in Attempts |-> None]
    /\ late = {}

Send(a) ==
    /\ pc[a] = "unsent"
    /\ ClientWaits => \A b \in Attempts : pc[b] \notin InProgress
    /\ Goto(a, "lookingInRedis")
    /\ late' = IF RecordLives THEN late \cup {a} ELSE late
    /\ UNCHANGED <<booked, cache, record, answer>>

Replay(a, b) ==
    /\ Goto(a, "ended")
    /\ answer' = [answer EXCEPT ![a] = b]
    /\ UNCHANGED <<booked, cache, record, late>>

FindInRedis(a) == pc[a] = "lookingInRedis" /\ cache # None /\ Replay(a, cache)

(* The key is not there, or Redis cannot be reached.                       *)
MissInRedis(a) ==
    /\ pc[a] = "lookingInRedis"
    /\ Goto(a, "lookingInDb")
    /\ UNCHANGED <<booked, cache, record, answer, late>>

FindInDb(a) == pc[a] = "lookingInDb" /\ RecordLives /\ Replay(a, record.of)

MissInDbUnconditionally(a) ==
    /\ pc[a] = "lookingInDb"
    /\ Goto(a, "handling")
    /\ UNCHANGED <<booked, cache, record, answer, late>>

MissInDb(a) ==
    /\ pc[a] = "lookingInDb"
    /\ ~RecordLives
    /\ Goto(a, "handling")
    /\ UNCHANGED <<booked, cache, record, answer, late>>

(* ReserveCommandHandler commits the reservation.                          *)
Book(a) ==
    /\ pc[a] = "handling"
    /\ booked' = booked \cup {a}
    /\ Goto(a, "committed")
    /\ UNCHANGED <<cache, record, answer, late>>

RefuseAndKeep(a) ==
    /\ pc[a] = "handling"
    /\ Goto(a, "committed")
    /\ UNCHANGED <<booked, cache, record, answer, late>>

(* Any failure before the commit; its response is not kept.                *)
Refuse(a) ==
    /\ pc[a] \in {"lookingInRedis", "lookingInDb", "handling"}
    /\ Goto(a, "ended")
    /\ UNCHANGED <<booked, cache, record, answer, late>>

(* The handler throws after its commit (the Redis counter cannot be        *)
(* reached, the client has gone away) or the process dies.                 *)
FailAfterCommit(a) ==
    /\ ServerFails
    /\ pc[a] \in {"committed", "storing", "replying"}
    /\ Goto(a, "ended")
    /\ UNCHANGED <<booked, cache, record, answer, late>>

(* The minute in Redis.  An unreachable Redis is passed over.              *)
StoreInRedis(a) ==
    /\ pc[a] = "committed"
    /\ cache' \in {a, cache}
    /\ Goto(a, "storing")
    /\ UNCHANGED <<booked, record, answer, late>>

(* The day in the database.  Keys are unique and expired rows stay, so     *)
(* when there is a row already the insert fails, which is swallowed.       *)
StoreInDb(a) ==
    /\ pc[a] = "storing"
    /\ record' = IF record.of = None THEN [of |-> a, expired |-> FALSE] ELSE record
    /\ Goto(a, "replying")
    /\ UNCHANGED <<booked, cache, answer, late>>

(* Any other failure of the insert is swallowed as well: the client has    *)
(* closed the connection, the request's DbContext is used by the           *)
(* notification that the handler left running, or another tenant's record  *)
(* has the key (lookups are by tenant, the unique index is not).           *)
StoreInDbFails(a) ==
    /\ ServerFails
    /\ pc[a] = "storing"
    /\ Goto(a, "replying")
    /\ UNCHANGED <<booked, cache, record, answer, late>>

(* Whether the response reaches the client is not known here.              *)
Reply(a) == pc[a] = "replying" /\ Replay(a, a)

ExpireCache ==
    /\ cache # None
    /\ cache' = None
    /\ UNCHANGED <<pc, booked, record, answer, late>>

ExpireRecord ==
    /\ RecordLives
    /\ record' = [record EXCEPT !.expired = TRUE]
    /\ UNCHANGED <<pc, booked, cache, answer, late>>

Next ==
    \/ \E a \in Attempts :
          \/ Send(a) \/ FindInRedis(a) \/ MissInRedis(a) \/ FindInDb(a) \/ MissInDb(a)
          \/ Book(a) \/ Refuse(a) \/ FailAfterCommit(a)
          \/ StoreInRedis(a) \/ StoreInDb(a) \/ StoreInDbFails(a) \/ Reply(a)
    \/ ExpireCache \/ ExpireRecord

Spec == Init /\ [][Next]_vars

-----------------------------------------------------------------------------
TypeOK ==
    /\ pc \in [Attempts -> InProgress \cup {"unsent", "ended"}]
    /\ booked \subseteq Attempts
    /\ cache \in Attempts \cup {None}
    /\ record \in [of : Attempts \cup {None}, expired : BOOLEAN]
    /\ answer \in [Attempts -> Attempts \cup {None}]
    /\ late \subseteq Attempts

(* However attempts overlap and whatever fails: a response that is written *)
(* to the client, its own or a replay, is that of a booking that exists,   *)
(* and so is every response that is kept to be replayed.                   *)
RepliesAreOfBookings ==
    \A a \in Attempts : {answer[a], cache, record.of} \subseteq booked \cup {None}

(* Once the record is written, and until it expires, the key is spent: an  *)
(* attempt that is sent while the record exists books nothing, whatever    *)
(* happens to Redis meanwhile.                                             *)
RecordStopsLaterAttempts == ~record.expired => late \cap booked = {}

(* The same key places at most one booking while its record has not        *)
(* expired, as IdempotencyKey and IdempotencyMiddleware say of it.         *)
OneBookingPerKey == ~record.expired => Cardinality(booked) <= 1
=============================================================================

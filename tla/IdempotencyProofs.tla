------------------------- MODULE IdempotencyProofs --------------------------
(***************************************************************************)
(* What the kept response of a key guarantees for any number of attempts:  *)
(* with overlapping attempts and failures, and with neither.               *)
(***************************************************************************)
EXTENDS Idempotency, FiniteSetTheorems, TLAPS

AfterCommit == {"committed", "storing", "replying"}

CommittedBooked == \A a \in Attempts : pc[a] \in AfterCommit => a \in booked

ExpiredIsWritten == record.expired => record.of # None

UnsentNew == \A a \in Attempts : pc[a] = "unsent" => a \notin booked

(* An attempt sent under the record never gets past the database lookup.   *)
LateStopped ==
    \A a \in late :
        ~record.expired =>
            /\ record.of # None
            /\ a \notin booked
            /\ pc[a] \in {"lookingInRedis", "lookingInDb", "ended"}

KeyInv ==
    /\ TypeOK /\ RepliesAreOfBookings
    /\ CommittedBooked /\ ExpiredIsWritten /\ UnsentNew /\ LateStopped

Steps(a) ==
    \/ Send(a) \/ FindInRedis(a) \/ MissInRedis(a) \/ FindInDb(a) \/ MissInDb(a)
    \/ Book(a) \/ Refuse(a) \/ FailAfterCommit(a)
    \/ StoreInRedis(a) \/ StoreInDb(a) \/ StoreInDbFails(a) \/ Reply(a)

LEMMA KeyInit == Init => KeyInv
BY DEF Init, KeyInv, TypeOK, RepliesAreOfBookings, CommittedBooked, ExpiredIsWritten, UnsentNew,
       LateStopped, AfterCommit, NoRecord, InProgress

LEMMA RecordWritten ==
    ASSUME TypeOK, NEW a \in Attempts, StoreInDb(a)
    PROVE  /\ record.of = None => record'.of = a
           /\ record.of # None => record' = record
           /\ record'.of # None
           /\ record'.expired \in BOOLEAN
           /\ record'.expired => record.expired
           /\ record' \in [of : Attempts \cup {None}, expired : BOOLEAN]
<1> DEFINE new == [of |-> a, expired |-> FALSE]
<1>1. new.of = a /\ new.expired = FALSE /\ new \in [of : Attempts \cup {None}, expired : BOOLEAN]
  OBVIOUS
<1>2. record' = IF record.of = None THEN new ELSE record
  BY DEF StoreInDb
<1> HIDE DEF new
<1> QED
  BY <1>1, <1>2, IdempotencyAssumption DEF TypeOK

LEMMA AttemptStep ==
    ASSUME KeyInv, NEW a \in Attempts, Steps(a)
    PROVE  KeyInv'
<1> USE IdempotencyAssumption
    DEF KeyInv, TypeOK, RepliesAreOfBookings, CommittedBooked, ExpiredIsWritten, UnsentNew,
        LateStopped, AfterCommit, InProgress, Goto, RecordLives
<1>1. CASE Send(a)
  BY <1>1 DEF Send
<1>2. CASE FindInRedis(a)
  BY <1>2 DEF FindInRedis, Replay
<1>3. CASE MissInRedis(a)
  BY <1>3 DEF MissInRedis
<1>4. CASE FindInDb(a)
  BY <1>4 DEF FindInDb, Replay
<1>5. CASE MissInDb(a)
  BY <1>5 DEF MissInDb
<1>6. CASE Book(a)
  BY <1>6 DEF Book
<1>7. CASE Refuse(a)
  BY <1>7 DEF Refuse
<1>8. CASE FailAfterCommit(a)
  BY <1>8 DEF FailAfterCommit
<1>9. CASE StoreInRedis(a)
  BY <1>9 DEF StoreInRedis
<1>10. CASE StoreInDb(a)
  <2>1. /\ pc[a] = "storing"
        /\ pc' = [pc EXCEPT ![a] = "replying"]
        /\ UNCHANGED <<booked, cache, answer, late>>
    BY <1>10 DEF StoreInDb
  <2> QED
    BY <1>10, <2>1, RecordWritten
<1>11. CASE StoreInDbFails(a)
  BY <1>11 DEF StoreInDbFails
<1>12. CASE Reply(a)
  BY <1>12 DEF Reply, Replay
<1> QED
  BY <1>1, <1>2, <1>3, <1>4, <1>5, <1>6, <1>7, <1>8, <1>9, <1>10, <1>11, <1>12 DEF Steps

LEMMA KeyStep == KeyInv /\ [Next]_vars => KeyInv'
<1> SUFFICES ASSUME KeyInv, [Next]_vars PROVE KeyInv'
  OBVIOUS
<1> USE DEF KeyInv, TypeOK, RepliesAreOfBookings, CommittedBooked, ExpiredIsWritten, UnsentNew,
            LateStopped
<1>1. CASE \E a \in Attempts : Steps(a)
  BY <1>1, AttemptStep
<1>2. CASE ExpireCache
  BY <1>2 DEF ExpireCache
<1>3. CASE ExpireRecord
  BY <1>3 DEF ExpireRecord, RecordLives
<1>4. CASE UNCHANGED vars
  BY <1>4 DEF vars
<1> QED
  BY <1>1, <1>2, <1>3, <1>4 DEF Next, Steps

(* The inductive invariant of the key, for any set of attempts.            *)
THEOREM KeyInvariant == Spec => []KeyInv
BY KeyInit, KeyStep, PTL DEF Spec

(* However attempts overlap and whatever fails, every response written or  *)
(* kept is that of a committed booking.                                    *)
THEOREM RepliesTrue == Spec => []RepliesAreOfBookings
<1>1. KeyInv => RepliesAreOfBookings
  BY DEF KeyInv
<1> QED
  BY <1>1, KeyInvariant, PTL

(* An attempt sent while the record exists books nothing before the record *)
(* expires.                                                                *)
THEOREM RecordSpendsKey == Spec => []RecordStopsLaterAttempts
<1>1. KeyInv => RecordStopsLaterAttempts
  BY DEF KeyInv, LateStopped, RecordStopsLaterAttempts
<1> QED
  BY <1>1, KeyInvariant, PTL

-----------------------------------------------------------------------------
(* A client that waits and a server that does not fail after its commit.   *)

OneInProgress ==
    \A a, b \in Attempts : pc[a] \in InProgress /\ pc[b] \in InProgress => a = b

(* Until the record expires: before it is written only the attempt that is *)
(* about to write it has booked; afterwards nothing gets to the handler.   *)
BookedOnce ==
    ~record.expired =>
        /\ record.of = None => \A b \in booked : pc[b] \in {"committed", "storing"}
        /\ record.of # None => \A a \in Attempts : pc[a] # "handling"
        /\ \A a, b \in booked : a = b

LEMMA WaitingStep ==
    ASSUME ClientWaits, ~ServerFails, KeyInv, OneInProgress, BookedOnce, [Next]_vars
    PROVE  OneInProgress' /\ BookedOnce'
<1> USE IdempotencyAssumption
    DEF OneInProgress, BookedOnce, KeyInv, TypeOK, InProgress, Goto, RecordLives
<1>1. ASSUME NEW a \in Attempts, Steps(a) PROVE OneInProgress' /\ BookedOnce'
  <2>1. CASE Send(a)
    BY <2>1 DEF Send, UnsentNew
  <2>2. CASE FindInRedis(a) \/ FindInDb(a) \/ Reply(a)
    BY <2>2 DEF FindInRedis, FindInDb, Reply, Replay
  <2>3. CASE MissInRedis(a)
    BY <2>3 DEF MissInRedis
  <2>4. CASE MissInDb(a)
    BY <2>4 DEF MissInDb
  <2>5. CASE Book(a)
    BY <2>5 DEF Book
  <2>6. CASE Refuse(a)
    BY <2>6 DEF Refuse
  <2>7. CASE StoreInRedis(a)
    BY <2>7 DEF StoreInRedis
  <2>8. CASE StoreInDb(a)
    <3>1. /\ pc[a] = "storing"
          /\ pc' = [pc EXCEPT ![a] = "replying"]
          /\ UNCHANGED booked
      BY <2>8 DEF StoreInDb
    <3> QED
      BY <2>8, <3>1, RecordWritten DEF ExpiredIsWritten
  <2> QED
    BY <1>1, <2>1, <2>2, <2>3, <2>4, <2>5, <2>6, <2>7, <2>8
    DEF Steps, FailAfterCommit, StoreInDbFails
<1>2. CASE ExpireCache
  BY <1>2 DEF ExpireCache
<1>3. CASE ExpireRecord
  BY <1>3 DEF ExpireRecord
<1>4. CASE UNCHANGED vars
  BY <1>4 DEF vars
<1> QED
  BY <1>1, <1>2, <1>3, <1>4 DEF Next, Steps

LEMMA AtMostOne == ASSUME NEW S, \A a, b \in S : a = b PROVE Cardinality(S) <= 1
<1>1. CASE S = {}
  BY <1>1, FS_EmptySet
<1>2. ASSUME NEW a \in S PROVE Cardinality(S) <= 1
  <2>1. S = {a}
    BY <1>2
  <2> QED
    BY <2>1, FS_Singleton
<1> QED
  BY <1>1, <1>2

(* A client that sends its retries one at a time, and a server that does   *)
(* not fail between its commit and its reply, place one booking per key,   *)
(* with Redis or without: the database record alone is enough.             *)
THEOREM RetriesBookOnce ==
    ASSUME ClientWaits, ~ServerFails
    PROVE  Spec => []OneBookingPerKey
<1>1. Init => OneInProgress /\ BookedOnce
  BY DEF Init, OneInProgress, BookedOnce, InProgress, NoRecord
<1>2. KeyInv /\ OneInProgress /\ BookedOnce /\ [Next]_vars => OneInProgress' /\ BookedOnce'
  BY WaitingStep
<1>3. BookedOnce => OneBookingPerKey
  BY AtMostOne DEF BookedOnce, OneBookingPerKey
<1> QED
  BY <1>1, <1>2, <1>3, KeyInvariant, PTL DEF Spec
=============================================================================

------------------------------ MODULE SlotLock ------------------------------
(***************************************************************************)
(* The Redis lock of DistributedLockService: one key per venue and start   *)
(* minute, written with SET NX and a time to live, deleted by a script     *)
(* that compares the stored value with the handle's own.                   *)
(*                                                                         *)
(* The random value a handle stores is represented by the worker that owns *)
(* the handle.  A value whose handle is gone (its process died, the delete *)
(* failed and was swallowed, or the reply to SET was lost) is Orphan: no   *)
(* compare-and-delete will ever match it, only its expiry removes it.      *)
(***************************************************************************)
CONSTANTS
    Workers,               \* requests being handled at the same time
    Starts,                \* start minutes: the key is reserve:{venue}:{start}
    None, Orphan,
    LockOutlivesHandler    \* TRUE: no handler runs longer than the 30 s expiry

ASSUME LockAssumption ==
    /\ None \notin Workers
    /\ Orphan \notin Workers
    /\ None # Orphan
    /\ LockOutlivesHandler \in BOOLEAN

VARIABLE lock              \* lock[s]: the value stored under the key of s

LockTypeOK == lock \in [Starts -> Workers \cup {None, Orphan}]

LockInit == lock = [s \in Starts |-> None]

(* TryAcquireAsync: StringSet with When.NotExists.                         *)
TryAcquire(w, s) ==
    /\ lock[s] = None
    /\ lock' = [lock EXCEPT ![s] = w]

(* The SET took effect but its reply was lost: TryAcquireAsync catches the *)
(* connection error and reports the lock as not acquired.                  *)
AcquireReplyLost(s) ==
    /\ lock[s] = None
    /\ lock' = [lock EXCEPT ![s] = Orphan]

ReleaseUnchecked(w, s) == lock' = [lock EXCEPT ![s] = None]

(* RedisLockHandle.ReleaseAsync: delete the key only if it is still ours.  *)
ReleaseLock(w, s) ==
    lock' = IF lock[s] = w THEN [lock EXCEPT ![s] = None] ELSE lock

(* The owner is gone without a delete: what it stored stays.               *)
AbandonLock(w) ==
    lock' = [s \in Starts |-> IF lock[s] = w THEN Orphan ELSE lock[s]]

ExpireNever(s) == lock[s] = Orphan /\ FALSE /\ lock' = lock

(* The time to live runs out.  Nothing renews it, so a handler that takes  *)
(* longer than the expiry loses its lock unless LockOutlivesHandler.       *)
Expire(s) ==
    /\ lock[s] # None
    /\ LockOutlivesHandler => lock[s] = Orphan
    /\ lock' = [lock EXCEPT ![s] = None]
=============================================================================

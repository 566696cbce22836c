------------------------------- MODULE Booking -------------------------------
(***************************************************************************)
(* Reservations of one venue on one day: the handlers that create, move,   *)
(* cancel and re-label them, running concurrently against the database and *)
(* the slot lock.  A worker is one HTTP request in a handler; each awaited *)
(* read or write that another request can get in front of is a step.       *)
(***************************************************************************)
EXTENDS Integers, SlotLock, ReservationStatus

CONSTANTS
    ResIds,            \* rows the Reservations table can come to hold
    Tables, Combos,    \* active tables and table combinations of the venue
    Members,           \* Members[c]: the tables joined by combination c
    Capacity,          \* seats of a table or combination
    Duration,          \* Venue.SlotDurationMinutes
    Parties,           \* party sizes asked for
    CombosNamed,       \* combinations that requests name themselves
    Operations,        \* the kinds of request the venue receives
    DepositEnabled,    \* Venue.DepositEnabled
    ModifySeesVenue    \* the tenant filter lets a confirm-code request see its venue

Locking == {"reserve", "modify"}
Kinds == Locking \cup {"manual", "cancel", "staffCancel", "setStatus"}

ASSUME BookingAssumption ==
    /\ Starts \subseteq Int
    /\ Duration \in Nat \ {0}
    /\ Parties \subseteq Nat
    /\ CombosNamed \subseteq Combos
    /\ Operations \subseteq Kinds
    /\ Members \in [Combos -> SUBSET Tables]
    /\ Capacity \in [Tables \cup Combos -> Nat]
    /\ None \notin ResIds \cup Tables \cup Combos
    /\ None \notin [seats : SUBSET Tables, start : Starts]
    /\ DepositEnabled \in BOOLEAN
    /\ ModifySeesVenue \in BOOLEAN

VARIABLES
    reservations,      \* the Reservations table; status "none" is a row not yet inserted
    pc,                \* where each worker stands in its handler
    req                \* the handler's locals: the request and what it has read so far

vars == <<lock, reservations, pc, req>>

(* A row.  "guarded" is history: the write that made the row live happened *)
(* while the writer still held the lock of the row's start.                *)
Row == [status : Status \cup {"none"}, table : Tables \cup {None},
        combo : Combos \cup {None}, start : Starts \cup {None}, guarded : BOOLEAN]

NoRow == [status |-> "none", table |-> None, combo |-> None, start |-> None,
          guarded |-> FALSE]

(* A handler's locals: "of" is the row it has read, "occupied" the tables  *)
(* it has seen taken, "to" the status it is about to write.  What a request*)
(* asks for is drawn when the handler first looks at it.                   *)
Request == [kind : Kinds \cup {"none"}, of : ResIds \cup {None},
            start : Starts \cup {None}, table : Tables \cup {None},
            combo : Combos \cup {None}, party : Parties \cup {0},
            occupied : SUBSET Tables, to : Status \cup {"none"}]

NoRequest == [kind |-> "none", of |-> None, start |-> None, table |-> None,
              combo |-> None, party |-> 0, occupied |-> {}, to |-> "none"]

-----------------------------------------------------------------------------
(* SlotAvailabilityService: which rows stand in the way of a slot.         *)

Live(r) == reservations[r].status \in LiveStatus

Overlaps(s1, s2) == s1 < s2 + Duration /\ s1 + Duration > s2

BlocksUnlessPending(r, s, x) ==
    reservations[r].status = "Confirmed" /\ r # x /\ Overlaps(reservations[r].start, s)

(* Row r takes up the slot at s; x is the row a modification leaves out.   *)
Blocks(r, s, x) == Live(r) /\ r # x /\ Overlaps(reservations[r].start, s)

(* TableId of the blocking rows.  A row that books a combination has no    *)
(* TableId, so the tables joined by it are not in this set.                *)
OccupiedTables(s, x) ==
    {reservations[r].table : r \in {q \in ResIds : Blocks(q, s, x)}} \ {None}

OccupiedCombos(s, x) ==
    {reservations[r].combo : r \in {q \in ResIds : Blocks(q, s, x)}} \ {None}

Fits(seat, party) == Capacity[seat] >= party

-----------------------------------------------------------------------------
(* Steps shared by the handlers.                                           *)

Goto(w, label) == pc' = [pc EXCEPT ![w] = label]

Begin(w, kind, label, r) ==
    /\ pc[w] = "idle"
    /\ kind \in Operations
    /\ Goto(w, label)
    /\ req' = [req EXCEPT ![w] = r]
    /\ UNCHANGED <<lock, reservations>>

Answered(w) ==
    /\ Goto(w, "idle")
    /\ req' = [req EXCEPT ![w] = NoRequest]

(* The end of the try block, reached by its return and by every exception: *)
(* the lock handle, if the handler took one, is still to be disposed.      *)
Leave(w) ==
    IF req[w].kind \in Locking
    THEN /\ Goto(w, "releasing")
         /\ req' = [req EXCEPT ![w] = [NoRequest EXCEPT !.start = req[w].start]]
    ELSE Answered(w)

-----------------------------------------------------------------------------
(* ReserveCommandHandler, ModifyReservationCommandHandler and              *)
(* CreateManualReservationCommandHandler: choose a slot, check it, save.   *)

BeginReserve(w) ==
    \E s \in Starts :
        Begin(w, "reserve", "waiting",
              [NoRequest EXCEPT !.kind = "reserve", !.start = s])

(* The row is read, and its status tested, before the lock is taken, and   *)
(* is not read again.  It may keep its start: a change of table or party   *)
(* size is a modification too.                                             *)
BeginModify(w) ==
    \E r \in ResIds, s \in Starts :
        /\ reservations[r].status = "Confirmed"
        /\ Begin(w, "modify", "waiting",
                 [NoRequest EXCEPT !.kind = "modify", !.of = r, !.start = s])

(* No lock: the handler goes straight to the availability check.           *)
BeginManual(w) ==
    \E s \in Starts :
        Begin(w, "manual", "checking",
              [NoRequest EXCEPT !.kind = "manual", !.start = s])

AcquireWithoutWaiting(w) ==
    /\ pc[w] = "waiting"
    /\ lock' = [lock EXCEPT ![req[w].start] = w]
    /\ Goto(w, "checking")
    /\ UNCHANGED <<reservations, req>>

Acquire(w) ==
    /\ pc[w] = "waiting"
    /\ TryAcquire(w, req[w].start)
    /\ Goto(w, "checking")
    /\ UNCHANGED <<reservations, req>>

AcquireUnknown(w) ==
    /\ pc[w] = "waiting"
    /\ AcquireReplyLost(req[w].start)
    /\ UNCHANGED <<reservations, pc, req>>

GiveUpNever(w) == pc[w] = "waiting" /\ FALSE /\ UNCHANGED vars

(* Ten seconds without the lock: ConflictException.                        *)
GiveUp(w) ==
    /\ pc[w] = "waiting"
    /\ Answered(w)
    /\ UNCHANGED <<lock, reservations>>

Visible(w) == req[w].kind = "modify" => ModifySeesVenue

(* A table: the one the request names, the one its old row has, or, when   *)
(* there is neither, any that is large enough; and no row with that        *)
(* TableId blocks the slot.                                                *)
CheckTable(w) ==
    /\ pc[w] = "checking"
    /\ Visible(w)
    /\ \E t \in Tables \ OccupiedTables(req[w].start, req[w].of), p \in Parties :
          /\ Fits(t, p)
          /\ req' = [req EXCEPT ![w].table = t]
    /\ Goto(w, "saving")
    /\ UNCHANGED <<lock, reservations>>

TableOfOldRow(w) == IF req[w].of = None THEN None ELSE reservations[req[w].of].table

(* No table is named and none is free: the handler keeps the occupied      *)
(* tables it has seen and turns to the combinations.                       *)
NoTableFree(w) ==
    LET occupied == OccupiedTables(req[w].start, req[w].of)
    IN  /\ pc[w] = "checking"
        /\ Visible(w)
        /\ TableOfOldRow(w) = None
        /\ \E p \in Parties :
              /\ \A t \in Tables \ occupied : ~Fits(t, p)
              /\ req' = [req EXCEPT ![w].occupied = occupied, ![w].party = p]
        /\ Goto(w, "combining")
        /\ UNCHANGED <<lock, reservations>>

CheckCombination(w) ==
    /\ pc[w] = "combining"
    /\ \E c \in Combos \ OccupiedCombos(req[w].start, req[w].of) :
          /\ Fits(c, req[w].party)
          /\ Members[c] \cap req[w].occupied = {}
          /\ req' = [req EXCEPT ![w].combo = c, ![w].occupied = {}, ![w].party = 0]
    /\ Goto(w, "saving")
    /\ UNCHANGED <<lock, reservations>>

(* Everything that throws between the lock and the save: venue not found,  *)
(* closed or outside its hours, nothing free, a blocking rule, a unique    *)
(* index or the connection failing in SaveChanges.                         *)
Refuse(w) ==
    /\ pc[w] \in {"checking", "combining", "saving"}
    /\ Leave(w)
    /\ UNCHANGED <<lock, reservations>>

(* A deposit leaves a booking Pending; whether one is due also depends on  *)
(* the venue's amount and on the rules.                                    *)
NewStatus(kind) ==
    IF kind = "reserve" /\ DepositEnabled THEN LiveStatus ELSE {"Confirmed"}

HoldsLock(w) == req[w].kind \in Locking /\ lock[req[w].start] = w

(* TableCombinationId: the one a request names, or the old row's, wins     *)
(* over the combination the check found, and is not checked.               *)
CombosToSave(w) ==
    IF req[w].kind = "modify" /\ reservations[req[w].of].combo # None
    THEN {reservations[req[w].of].combo}
    ELSE {req[w].combo} \cup (IF req[w].kind = "modify" THEN {} ELSE CombosNamed)

NewRow(w, status, combo) ==
    [status |-> status, table |-> req[w].table, combo |-> combo,
     start |-> req[w].start, guarded |-> HoldsLock(w)]

SaveKeepingOld(w) ==
    /\ pc[w] = "saving"
    /\ \E n \in ResIds, status \in NewStatus(req[w].kind), c \in CombosToSave(w) :
          /\ reservations[n].status = "none"
          /\ reservations' = [reservations EXCEPT ![n] = NewRow(w, status, c)]
    /\ Leave(w)
    /\ UNCHANGED lock

(* SaveChanges: one transaction inserts the new row and, in a              *)
(* modification, writes Modified over whatever the old row's status is now.*)
Save(w) ==
    /\ pc[w] = "saving"
    /\ \E n \in ResIds, status \in NewStatus(req[w].kind), c \in CombosToSave(w) :
          /\ reservations[n].status = "none"
          /\ reservations' = [r \in ResIds |->
                IF r = n THEN NewRow(w, status, c)
                ELSE IF r = req[w].of THEN [reservations[r] EXCEPT !.status = "Modified"]
                ELSE reservations[r]]
    /\ Leave(w)
    /\ UNCHANGED lock

Release(w) ==
    /\ pc[w] = "releasing"
    /\ ReleaseLock(w, req[w].start)
    /\ Answered(w)
    /\ UNCHANGED reservations

-----------------------------------------------------------------------------
(* Handlers that read a row, test its status, and write another status.    *)

ReadRow(w, kind, r, to) ==
    Begin(w, kind, "writing", [NoRequest EXCEPT !.of = r, !.to = to])

(* CancelPublicReservationCommandHandler (24 hours ahead or more).         *)
BeginCancel(w) ==
    \E r \in ResIds : Live(r) /\ ReadRow(w, "cancel", r, "Cancelled")

(* CancelReservationByStaffCommandHandler                                  *)
BeginStaffCancel(w) ==
    \E r \in ResIds :
        /\ reservations[r].status \notin {"none", "Cancelled", "Completed"}
        /\ ReadRow(w, "staffCancel", r, "Cancelled")

(* UpdateReservationStatusCommandHandler                                   *)
BeginSetStatus(w) ==
    \E r \in ResIds, to \in Status :
        /\ IsValidTransition(reservations[r].status, to)
        /\ ReadRow(w, "setStatus", r, to)

(* SaveChanges updates the Status column by primary key, whatever it holds *)
(* by now.  A row brought back to life this way is not guarded.            *)
WriteStatus(w) ==
    LET r == req[w].of
    IN  /\ pc[w] = "writing"
        /\ reservations' = [reservations EXCEPT ![r].status = req[w].to,
                ![r].guarded = @ /\ (req[w].to \in LiveStatus => Live(r))]
        /\ Answered(w)
        /\ UNCHANGED lock

-----------------------------------------------------------------------------
(* The process dies, or the request ends with its lock still stored        *)
(* because the release failed and the failure was swallowed.               *)
Crash(w) ==
    /\ pc[w] # "idle"
    /\ AbandonLock(w)
    /\ Answered(w)
    /\ UNCHANGED reservations

ExpireLock(s) == Expire(s) /\ UNCHANGED <<reservations, pc, req>>

Init ==
    /\ LockInit
    /\ reservations = [r \in ResIds |-> NoRow]
    /\ pc = [w \in Workers |-> "idle"]
    /\ req = [w \in Workers |-> NoRequest]

Proceed(w) ==
    \/ Acquire(w) \/ GiveUp(w)
    \/ CheckTable(w) \/ NoTableFree(w) \/ CheckCombination(w)
    \/ Refuse(w) \/ Save(w) \/ Release(w) \/ WriteStatus(w)

Arrive(w) ==
    \/ BeginReserve(w) \/ BeginModify(w) \/ BeginManual(w)
    \/ BeginCancel(w) \/ BeginStaffCancel(w) \/ BeginSetStatus(w)

Next ==
    \/ \E w \in Workers : Arrive(w) \/ Proceed(w) \/ AcquireUnknown(w) \/ Crash(w)
    \/ \E s \in Starts : ExpireLock(s)

Spec == Init /\ [][Next]_vars

(* A handler that has started goes on (its wait for the lock is bounded by *)
(* a clock), and Redis expires keys.  Requests need not arrive.            *)
FairSpec ==
    /\ Spec
    /\ \A w \in Workers : WF_vars(Proceed(w))
    /\ \A s \in Starts : WF_vars(ExpireLock(s))

-----------------------------------------------------------------------------
TypeOK ==
    /\ LockTypeOK
    /\ reservations \in [ResIds -> Row]
    /\ pc \in [Workers -> {"idle", "waiting", "checking", "combining", "saving",
                          "releasing", "writing"}]
    /\ req \in [Workers -> Request]

(* Whatever the venue's configuration and however the requests interleave, *)
(* crash or outlive their locks: two live rows that were each written by a *)
(* worker still holding the slot lock never have the same table and start. *)
(* So a table booked twice for one start is always the work of a lock-free *)
(* handler, of a handler that lost its lock, or of a stale status write.   *)
GuardedExclusive ==
    \A r1, r2 \in ResIds :
        /\ r1 # r2
        /\ Live(r1) /\ reservations[r1].guarded
        /\ Live(r2) /\ reservations[r2].guarded
        /\ reservations[r1].start = reservations[r2].start
        /\ reservations[r1].table # None
        => reservations[r1].table # reservations[r2].table

(* A stored lock leaves the worker that owns it only by a step of that     *)
(* worker or by running out: a handler that comes late to its release does *)
(* not delete the lock that the next one has taken meanwhile.              *)
LockLeavesItsOwnerOnly ==
    [][\A w \in Workers, s \in Starts :
          lock[s] = w /\ lock'[s] # w => pc'[w] # pc[w] \/ pc' = pc]_vars

SeatsOf(r) ==
    LET row == reservations[r]
    IN  ({row.table} \ {None}) \cup (IF row.combo = None THEN {} ELSE Members[row.combo])

(* No two live reservations ever take the same physical table at           *)
(* overlapping times: a row takes its table and, if it books a             *)
(* combination, every table joined by it.                                  *)
NoSharedSeat ==
    \A r1, r2 \in ResIds :
        r1 # r2 /\ Live(r1) /\ Live(r2)
            /\ Overlaps(reservations[r1].start, reservations[r2].start)
        => SeatsOf(r1) \cap SeatsOf(r2) = {}

(* The conditions under which the lock and the check suffice: no lock-free *)
(* bookings, no handler slower than its lock, no stale status write that   *)
(* can revive a row, no combinations, and starts that either coincide or   *)
(* lie a whole slot apart.                                                 *)
Protected ==
    /\ "manual" \notin Operations
    /\ LockOutlivesHandler
    /\ DepositEnabled => "setStatus" \notin Operations
    /\ Combos = {}
    /\ \A s1, s2 \in Starts : s1 # s2 => ~Overlaps(s1, s2)

EntryOf(r) == [seats |-> SeatsOf(r), start |-> reservations[r].start]

(* The board that the rows amount to: the live ones, by seats and start.   *)
OnBoard == [r \in ResIds |-> IF Live(r) THEN EntryOf(r) ELSE None]

Board == INSTANCE BookingBoard WITH Bookings <- ResIds, Seats <- Tables, board <- OnBoard

(* The handlers implement the board: however they interleave, each step    *)
(* enters, moves or takes off at most one booking, and never onto seats    *)
(* that another booking has.                                               *)
ImplementsBoard == Board!Spec

(* A request that has reached its handler is answered (or its process      *)
(* dies): no wait for a slot lock lasts for ever.                          *)
EveryRequestAnswered == \A w \in Workers : pc[w] # "idle" ~> pc[w] = "idle"

(* A slot never stays locked, not even after a crash between taking and    *)
(* releasing the lock or after a reply of Redis that was lost.             *)
LockComesFree == \A s \in Starts : lock[s] # None ~> lock[s] = None
=============================================================================

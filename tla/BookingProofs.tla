---------------------------- MODULE BookingProofs ----------------------------
(***************************************************************************)
(* Proofs about Booking, for any set of workers, rows, tables, starts and  *)
(* any mix of operations, and of what it implements.                       *)
(***************************************************************************)
EXTENDS Booking, TLAPS

CheckPhase == {"checking", "combining", "saving"}

Begun == {"waiting"} \cup CheckPhase

(* What a handler has in its locals fits the place it has reached.         *)
WorkerFits(w) ==
    /\ pc[w] \in Begun =>
          /\ req[w].kind \in (Locking \cup {"manual"}) \cap Operations
          /\ req[w].start \in Starts
          /\ pc[w] = "waiting" => req[w].kind \in Locking
          /\ pc[w] # "saving" => req[w].table = None
          /\ req[w].kind = "modify" <=> req[w].of # None
          /\ req[w].of # None => reservations[req[w].of].status # "none"
    /\ pc[w] = "releasing" => req[w].start \in Starts
    /\ pc[w] = "writing" =>
          /\ req[w].of \in ResIds
          /\ req[w].to \in Status
          /\ reservations[req[w].of].status # "none"

RowsFit == \A r \in ResIds : reservations[r].status # "none" => reservations[r].start \in Starts

LocalsFit == RowsFit /\ \A w \in Workers : WorkerFits(w)

(* A stored lock names a worker only between its Acquire and its Release,  *)
(* and under the start that worker is booking.                             *)
LockFits ==
    \A w \in Workers, s \in Starts :
        lock[s] = w =>
            /\ pc[w] \in CheckPhase \cup {"releasing"}
            /\ pc[w] \in CheckPhase => req[w].kind \in Locking
            /\ req[w].start = s

(* While a worker that found its table free still holds the lock, no other *)
(* guarded row comes to take that table at that start.                     *)
CheckHolds ==
    \A w \in Workers, r \in ResIds :
        /\ pc[w] = "saving"
        /\ HoldsLock(w)
        /\ req[w].table # None
        /\ Live(r) /\ reservations[r].guarded
        /\ reservations[r].start = req[w].start
        /\ reservations[r].table = req[w].table
        => r = req[w].of

IndInv == TypeOK /\ LocalsFit /\ LockFits /\ CheckHolds /\ GuardedExclusive

-----------------------------------------------------------------------------
LEMMA InitInd == Init => IndInv
BY LockAssumption, BookingAssumption
DEF Init, IndInv, TypeOK, LockTypeOK, LockInit, NoRow, Row, NoRequest, Request, LocalsFit,
    RowsFit, WorkerFits, Begun, LockFits, CheckHolds, GuardedExclusive, Live, LiveStatus,
        CheckPhase, Kinds, Locking, Status

(* A handler's locals keep their type when it starts and when it is done.  *)
LEMMA RequestType == NoRequest \in Request
BY DEF NoRequest, Request

LEMMA BeginType ==
    ASSUME TypeOK, NEW w \in Workers, NEW kind, NEW r \in Request,
           NEW label \in {"waiting", "checking", "writing"}, Begin(w, kind, label, r)
    PROVE  TypeOK'
BY DEF TypeOK, LockTypeOK, Begin, Goto

LEMMA ArriveType == ASSUME TypeOK, NEW w \in Workers, Arrive(w) PROVE TypeOK'
<1>1. CASE BeginReserve(w)
  <2>1. PICK s \in Starts : Begin(w, "reserve", "waiting",
                                 [NoRequest EXCEPT !.kind = "reserve", !.start = s])
    BY <1>1 DEF BeginReserve
  <2>2. [NoRequest EXCEPT !.kind = "reserve", !.start = s] \in Request
    BY DEF NoRequest, Request, Kinds, Locking
  <2> QED
    BY <2>1, <2>2, BeginType
<1>2. CASE BeginModify(w)
  <2>1. PICK r \in ResIds, s \in Starts :
           Begin(w, "modify", "waiting",
                 [NoRequest EXCEPT !.kind = "modify", !.of = r, !.start = s])
    BY <1>2 DEF BeginModify
  <2>2. [NoRequest EXCEPT !.kind = "modify", !.of = r, !.start = s] \in Request
    BY DEF NoRequest, Request, Kinds, Locking
  <2> QED
    BY <2>1, <2>2, BeginType
<1>3. CASE BeginManual(w)
  <2>1. PICK s \in Starts : Begin(w, "manual", "checking",
                                 [NoRequest EXCEPT !.kind = "manual", !.start = s])
    BY <1>3 DEF BeginManual
  <2>2. [NoRequest EXCEPT !.kind = "manual", !.start = s] \in Request
    BY DEF NoRequest, Request, Kinds
  <2> QED
    BY <2>1, <2>2, BeginType
<1>4. ASSUME NEW kind, NEW r \in ResIds, NEW to \in Status, ReadRow(w, kind, r, to)
      PROVE TypeOK'
  <2>1. [NoRequest EXCEPT !.of = r, !.to = to] \in Request
    BY DEF NoRequest, Request
  <2> QED
    BY <1>4, <2>1, BeginType DEF ReadRow
<1>5. CASE BeginCancel(w)
  BY <1>4, <1>5 DEF BeginCancel, Status
<1>6. CASE BeginStaffCancel(w)
  BY <1>4, <1>6 DEF BeginStaffCancel, Status
<1>7. CASE BeginSetStatus(w)
  BY <1>4, <1>7 DEF BeginSetStatus
<1> QED
  BY <1>1, <1>2, <1>3, <1>5, <1>6, <1>7 DEF Arrive

Labels == {"idle", "waiting", "checking", "combining", "saving", "releasing", "writing"}

LEMMA AnsweredType ==
    ASSUME TypeOK, NEW w \in Workers, Answered(w)
    PROVE  pc' \in [Workers -> Labels] /\ req' \in [Workers -> Request]
BY RequestType DEF TypeOK, Answered, Goto, Labels

LEMMA LeaveType ==
    ASSUME TypeOK, NEW w \in Workers, Leave(w)
    PROVE  pc' \in [Workers -> Labels] /\ req' \in [Workers -> Request]
<1>1. CASE req[w].kind \in Locking
  <2>1. req[w] \in Request
    BY DEF TypeOK
  <2>2. [NoRequest EXCEPT !.start = req[w].start] \in Request
    BY <2>1 DEF NoRequest, Request
  <2>3. /\ pc' = [pc EXCEPT ![w] = "releasing"]
        /\ req' = [req EXCEPT ![w] = [NoRequest EXCEPT !.start = req[w].start]]
    BY <1>1 DEF Leave, Goto
  <2> QED
    BY <2>2, <2>3 DEF TypeOK, Labels
<1>2. CASE req[w].kind \notin Locking
  BY <1>2, AnsweredType DEF Leave
<1> QED
  BY <1>1, <1>2

(* A row that Save may insert is a row of the table.                       *)
LEMMA NewRowType ==
    ASSUME TypeOK, LocalsFit, NEW w \in Workers, pc[w] = "saving",
           NEW status \in NewStatus(req[w].kind), NEW c \in CombosToSave(w)
    PROVE  NewRow(w, status, c) \in Row
<1>1. req[w] \in Request
  BY DEF TypeOK
<1>2. req[w].table \in Tables \cup {None} /\ req[w].start \in Starts \cup {None}
  BY <1>1 DEF Request
<1>3. status \in Status
  BY DEF NewStatus, LiveStatus, Status
<1>4. c \in Combos \cup {None}
  <2>1. CASE req[w].kind = "modify" /\ reservations[req[w].of].combo # None
    <3>1. c = reservations[req[w].of].combo
      BY <2>1 DEF CombosToSave
    <3>2. req[w].of \in ResIds
      BY <2>1, <1>1 DEF LocalsFit, WorkerFits, Begun, CheckPhase, Request
    <3> QED
      BY <3>1, <3>2 DEF TypeOK, Row
  <2>2. CASE ~(req[w].kind = "modify" /\ reservations[req[w].of].combo # None)
    BY <2>2, <1>1, BookingAssumption DEF CombosToSave, Request
  <2> QED
    BY <2>1, <2>2
<1>5. HoldsLock(w) \in BOOLEAN
  BY DEF HoldsLock
<1> QED
  BY <1>2, <1>3, <1>4, <1>5 DEF NewRow, Row, Status

LEMMA ProceedType == ASSUME TypeOK, LocalsFit, NEW w \in Workers, Proceed(w) PROVE TypeOK'
<1> USE DEF Labels
<1>0. req[w] \in Request
  BY DEF TypeOK
<1>1. CASE Acquire(w)
  BY <1>1 DEF TypeOK, LockTypeOK, Acquire, TryAcquire, Goto
<1>2. CASE GiveUp(w)
  BY <1>2, AnsweredType DEF TypeOK, LockTypeOK, GiveUp
<1>3. CASE CheckTable(w)
  <2>1. PICK t \in Tables : req' = [req EXCEPT ![w].table = t]
    BY <1>3 DEF CheckTable
  <2>2. req' \in [Workers -> Request]
    BY <2>1, <1>0 DEF TypeOK, Request
  <2> QED
    BY <1>3, <2>2 DEF CheckTable, TypeOK, LockTypeOK, Goto
<1>4. CASE NoTableFree(w)
  <2> DEFINE occupied == OccupiedTables(req[w].start, req[w].of)
  <2>1. PICK p \in Parties :
           req' = [req EXCEPT ![w].occupied = occupied, ![w].party = p]
    BY <1>4 DEF NoTableFree
  <2>2. occupied \in SUBSET Tables
    BY DEF OccupiedTables, TypeOK, Row
  <2> HIDE DEF occupied
  <2>3. req' \in [Workers -> Request]
    BY <2>1, <2>2, <1>0 DEF TypeOK, Request
  <2> QED
    BY <1>4, <2>3 DEF NoTableFree, TypeOK, LockTypeOK, Goto
<1>5. CASE CheckCombination(w)
  <2>1. PICK c \in Combos :
           req' = [req EXCEPT ![w].combo = c, ![w].occupied = {}, ![w].party = 0]
    BY <1>5 DEF CheckCombination
  <2>2. req' \in [Workers -> Request]
    BY <2>1, <1>0 DEF TypeOK, Request
  <2> QED
    BY <1>5, <2>2 DEF CheckCombination, TypeOK, LockTypeOK, Goto
<1>6. CASE Refuse(w)
  BY <1>6, LeaveType DEF TypeOK, LockTypeOK, Refuse
<1>7. CASE Save(w)
  <2>1. PICK n \in ResIds, status \in NewStatus(req[w].kind), c \in CombosToSave(w) :
           reservations' = [r \in ResIds |->
                IF r = n THEN NewRow(w, status, c)
                ELSE IF r = req[w].of THEN [reservations[r] EXCEPT !.status = "Modified"]
                ELSE reservations[r]]
    BY <1>7 DEF Save
  <2>2. NewRow(w, status, c) \in Row
    BY <1>7, NewRowType DEF Save
  <2>3. \A r \in ResIds : [reservations[r] EXCEPT !.status = "Modified"] \in Row
    BY DEF TypeOK, Row, Status
  <2>4. reservations' \in [ResIds -> Row]
    BY <2>1, <2>2, <2>3 DEF TypeOK
  <2> QED
    BY <1>7, <2>4, LeaveType DEF Save, TypeOK, LockTypeOK
<1>8. CASE Release(w)
  BY <1>8, AnsweredType DEF TypeOK, LockTypeOK, Release, ReleaseLock
<1>9. CASE WriteStatus(w)
  <2> DEFINE r == req[w].of
             row == [reservations[r] EXCEPT !.status = req[w].to,
                        !.guarded = @ /\ (req[w].to \in LiveStatus => Live(r))]
  <2>1. r \in ResIds /\ req[w].to \in Status
    BY <1>9 DEF WriteStatus, LocalsFit, WorkerFits
  <2>2. reservations' = [reservations EXCEPT ![r] = row]
    BY <1>9, <2>1 DEF WriteStatus, TypeOK
  <2>3. row \in Row
    BY <2>1 DEF TypeOK, Row, Live
  <2> HIDE DEF r, row
  <2>4. reservations' \in [ResIds -> Row]
    BY <2>1, <2>2, <2>3 DEF TypeOK
  <2> QED
    BY <1>9, <2>4, AnsweredType DEF WriteStatus, TypeOK, LockTypeOK
<1> QED
  BY <1>1, <1>2, <1>3, <1>4, <1>5, <1>6, <1>7, <1>8, <1>9 DEF Proceed

LEMMA TypeStep == ASSUME TypeOK, LocalsFit, [Next]_vars PROVE TypeOK'
<1> USE DEF Labels
<1>1. ASSUME NEW w \in Workers, AcquireUnknown(w) PROVE TypeOK'
  BY <1>1 DEF AcquireUnknown, AcquireReplyLost, TypeOK, LockTypeOK
<1>2. ASSUME NEW w \in Workers, Crash(w) PROVE TypeOK'
  BY <1>2, AnsweredType DEF Crash, AbandonLock, TypeOK, LockTypeOK
<1>3. ASSUME NEW s \in Starts, ExpireLock(s) PROVE TypeOK'
  BY <1>3 DEF ExpireLock, Expire, TypeOK, LockTypeOK
<1>4. CASE UNCHANGED vars
  BY <1>4 DEF vars, TypeOK, LockTypeOK
<1> QED
  BY <1>1, <1>2, <1>3, <1>4, ArriveType, ProceedType DEF Next

-----------------------------------------------------------------------------
(* Rows, once inserted, stay, and no step changes the start of one.        *)
Inserted(r) == reservations[r].status # "none"

LEMMA RowsStep ==
    ASSUME TypeOK, LocalsFit, [Next]_vars
    PROVE  /\ RowsFit'
           /\ \A r \in ResIds : Inserted(r) => Inserted(r)'
<1>1. CASE UNCHANGED reservations
  BY <1>1 DEF LocalsFit, RowsFit, Inserted
<1>2. ASSUME NEW w \in Workers, Save(w)
      PROVE  RowsFit' /\ \A r \in ResIds : Inserted(r) => Inserted(r)'
  <2>1. PICK n \in ResIds, status \in NewStatus(req[w].kind), c \in CombosToSave(w) :
           /\ reservations[n].status = "none"
           /\ reservations' = [r \in ResIds |->
                IF r = n THEN NewRow(w, status, c)
                ELSE IF r = req[w].of THEN [reservations[r] EXCEPT !.status = "Modified"]
                ELSE reservations[r]]
    BY <1>2 DEF Save
  <2>2. req[w].start \in Starts /\ status # "none"
    BY <1>2 DEF Save, LocalsFit, WorkerFits, Begun, CheckPhase, NewStatus, LiveStatus
  <2>3. NewRow(w, status, c).start \in Starts
    BY <2>2 DEF NewRow
  <2>4. \A r \in ResIds : /\ r = req[w].of => reservations[r].status # "none"
                          /\ [reservations[r] EXCEPT !.status = "Modified"].start = reservations[r].start
                          /\ [reservations[r] EXCEPT !.status = "Modified"].status = "Modified"
    <3>1. pc[w] = "saving" /\ None \notin ResIds
      BY <1>2, BookingAssumption DEF Save
    <3>2. \A r \in ResIds : r = req[w].of => reservations[r].status # "none"
      BY <3>1 DEF LocalsFit, WorkerFits, Begun, CheckPhase
    <3>3. \A r \in ResIds : reservations[r] \in Row
      BY DEF TypeOK
    <3> QED
      BY <3>2, <3>3 DEF Row
  <2>5. NewRow(w, status, c).status # "none"
    BY <2>2 DEF NewRow
  <2> QED
    BY <2>1, <2>3, <2>4, <2>5 DEF LocalsFit, RowsFit, Inserted
<1>3. ASSUME NEW w \in Workers, WriteStatus(w)
      PROVE  RowsFit' /\ \A r \in ResIds : Inserted(r) => Inserted(r)'
  BY <1>3 DEF WriteStatus, LocalsFit, WorkerFits, RowsFit, Inserted, Status, LiveStatus, TypeOK, Row
<1> QED
  BY <1>1, <1>2, <1>3
  DEF Next, vars, Arrive, Proceed, BeginReserve, BeginModify, BeginManual, BeginCancel,
      BeginStaffCancel, BeginSetStatus, ReadRow, Begin, Acquire, AcquireUnknown, GiveUp,
      CheckTable, NoTableFree, CheckCombination, Refuse, Release, Crash, ExpireLock

-----------------------------------------------------------------------------
(* A step of one worker leaves the other workers where they are.           *)
LEMMA Bystander ==
    ASSUME TypeOK, LocalsFit, \A r \in ResIds : Inserted(r) => Inserted(r)',
           NEW v \in Workers, pc'[v] = pc[v], req'[v] = req[v]
    PROVE  WorkerFits(v)'
<1>1. req[v] \in Request
  BY DEF TypeOK
<1>2. req[v].of # None => req[v].of \in ResIds
  BY <1>1 DEF Request
<1> QED
  BY <1>2 DEF LocalsFit, WorkerFits, Inserted, Begun, CheckPhase

LEMMA BeginOthers ==
    ASSUME TypeOK, NEW w \in Workers, NEW kind, NEW label, NEW r, Begin(w, kind, label, r)
    PROVE  /\ kind \in Operations
           /\ pc[w] = "idle"
           /\ pc'[w] = label /\ req'[w] = r
           /\ \A v \in Workers \ {w} : pc'[v] = pc[v] /\ req'[v] = req[v]
           /\ UNCHANGED <<lock, reservations>>
BY DEF Begin, Goto, TypeOK

LEMMA AnsweredOthers ==
    ASSUME TypeOK, NEW w \in Workers, Answered(w)
    PROVE  /\ pc'[w] = "idle"
           /\ \A v \in Workers \ {w} : pc'[v] = pc[v] /\ req'[v] = req[v]
BY DEF Answered, Goto, TypeOK

LEMMA LeaveOthers ==
    ASSUME TypeOK, NEW w \in Workers, Leave(w)
    PROVE  /\ req[w].kind \in Locking => pc'[w] = "releasing" /\ req'[w].start = req[w].start
           /\ req[w].kind \notin Locking => pc'[w] = "idle"
           /\ \A v \in Workers \ {w} : pc'[v] = pc[v] /\ req'[v] = req[v]
BY AnsweredOthers DEF Leave, Goto, TypeOK, NoRequest

LEMMA ArriveLocals ==
    ASSUME TypeOK, LocalsFit, NEW w \in Workers, Arrive(w)
    PROVE  /\ WorkerFits(w)'
           /\ pc[w] = "idle" /\ pc'[w] \in {"waiting", "checking", "writing"}
           /\ \A v \in Workers \ {w} : pc'[v] = pc[v] /\ req'[v] = req[v]
           /\ UNCHANGED <<lock, reservations>>
           /\ pc'[w] = "checking" => req'[w].kind = "manual" /\ "manual" \in Operations
<1> USE DEF WorkerFits, Begun, CheckPhase
<1>1. CASE BeginReserve(w)
  <2>1. PICK s \in Starts :
           Begin(w, "reserve", "waiting", [NoRequest EXCEPT !.kind = "reserve", !.start = s])
    BY <1>1 DEF BeginReserve
  <2> DEFINE q == [NoRequest EXCEPT !.kind = "reserve", !.start = s]
  <2>2. q.kind = "reserve" /\ q.start = s /\ q.of = None /\ q.table = None
    BY DEF NoRequest
  <2> HIDE DEF q
  <2>3. /\ "reserve" \in Operations
        /\ pc[w] = "idle" /\ pc'[w] = "waiting" /\ req'[w] = q
        /\ \A v \in Workers \ {w} : pc'[v] = pc[v] /\ req'[v] = req[v]
        /\ UNCHANGED <<lock, reservations>>
    BY <2>1, BeginOthers DEF q
  <2> QED
    BY <2>1, <2>2, <2>3, BookingAssumption DEF Locking
<1>2. CASE BeginModify(w)
  <2>1. PICK r \in ResIds, s \in Starts :
           /\ reservations[r].status = "Confirmed"
           /\ Begin(w, "modify", "waiting", [NoRequest EXCEPT !.kind = "modify", !.of = r, !.start = s])
    BY <1>2 DEF BeginModify
  <2> DEFINE q == [NoRequest EXCEPT !.kind = "modify", !.of = r, !.start = s]
  <2>2. q.kind = "modify" /\ q.start = s /\ q.of = r /\ q.table = None
    BY DEF NoRequest
  <2> HIDE DEF q
  <2>3. /\ "modify" \in Operations
        /\ pc[w] = "idle" /\ pc'[w] = "waiting" /\ req'[w] = q
        /\ \A v \in Workers \ {w} : pc'[v] = pc[v] /\ req'[v] = req[v]
        /\ UNCHANGED <<lock, reservations>>
    BY <2>1, BeginOthers DEF q
  <2> QED
    BY <2>1, <2>2, <2>3, BookingAssumption DEF Locking
<1>3. CASE BeginManual(w)
  <2>1. PICK s \in Starts :
           Begin(w, "manual", "checking", [NoRequest EXCEPT !.kind = "manual", !.start = s])
    BY <1>3 DEF BeginManual
  <2> DEFINE q == [NoRequest EXCEPT !.kind = "manual", !.start = s]
  <2>2. q.kind = "manual" /\ q.start = s /\ q.of = None /\ q.table = None
    BY DEF NoRequest
  <2> HIDE DEF q
  <2>3. /\ "manual" \in Operations
        /\ pc[w] = "idle" /\ pc'[w] = "checking" /\ req'[w] = q
        /\ \A v \in Workers \ {w} : pc'[v] = pc[v] /\ req'[v] = req[v]
        /\ UNCHANGED <<lock, reservations>>
    BY <2>1, BeginOthers DEF q
  <2> QED
    BY <2>1, <2>2, <2>3, BookingAssumption DEF Locking
<1>4. ASSUME NEW kind, NEW r \in ResIds, NEW to \in Status, ReadRow(w, kind, r, to), Inserted(r)
      PROVE  /\ WorkerFits(w)'
             /\ pc[w] = "idle" /\ pc'[w] = "writing"
             /\ \A v \in Workers \ {w} : pc'[v] = pc[v] /\ req'[v] = req[v]
             /\ UNCHANGED <<lock, reservations>>
  <2> DEFINE q == [NoRequest EXCEPT !.of = r, !.to = to]
  <2>1. q.of = r /\ q.to = to
    BY DEF NoRequest
  <2> HIDE DEF q
  <2>2. /\ pc[w] = "idle" /\ pc'[w] = "writing" /\ req'[w] = q
        /\ \A v \in Workers \ {w} : pc'[v] = pc[v] /\ req'[v] = req[v]
        /\ UNCHANGED <<lock, reservations>>
    BY <1>4, BeginOthers DEF ReadRow, q
  <2> QED
    BY <1>4, <2>1, <2>2 DEF Inserted
<1>5. CASE BeginCancel(w)
  BY <1>4, <1>5 DEF BeginCancel, Status, LiveStatus, Live, Inserted
<1>6. CASE BeginStaffCancel(w)
  BY <1>4, <1>6 DEF BeginStaffCancel, Status, Inserted
<1>7. CASE BeginSetStatus(w)
  BY <1>4, <1>7 DEF BeginSetStatus, IsValidTransition, Inserted
<1> QED
  BY <1>1, <1>2, <1>3, <1>5, <1>6, <1>7 DEF Arrive

(* The search for a table or combination leaves the rest of the locals.    *)
LEMMA SearchKeeps ==
    ASSUME TypeOK, NEW w \in Workers,
           CheckTable(w) \/ NoTableFree(w) \/ CheckCombination(w)
    PROVE  /\ req'[w].kind = req[w].kind
           /\ req'[w].start = req[w].start
           /\ req'[w].of = req[w].of
           /\ pc'[w] # "saving" => req'[w].table = req[w].table
           /\ pc[w] \in {"checking", "combining"} /\ pc'[w] \in {"combining", "saving"}
           /\ \A v \in Workers \ {w} : pc'[v] = pc[v] /\ req'[v] = req[v]
           /\ UNCHANGED <<lock, reservations>>
<1>0. req[w] \in Request
  BY DEF TypeOK
<1>1. CASE CheckTable(w)
  <2>1. PICK t \in Tables : req' = [req EXCEPT ![w].table = t]
    BY <1>1 DEF CheckTable
  <2> QED
    BY <1>0, <1>1, <2>1 DEF CheckTable, Goto, TypeOK, Request
<1>2. CASE NoTableFree(w)
  <2> DEFINE occupied == OccupiedTables(req[w].start, req[w].of)
  <2>1. PICK p \in Parties :
           req' = [req EXCEPT ![w].occupied = occupied, ![w].party = p]
    BY <1>2 DEF NoTableFree
  <2> HIDE DEF occupied
  <2> QED
    BY <1>0, <1>2, <2>1 DEF NoTableFree, Goto, TypeOK, Request
<1>3. CASE CheckCombination(w)
  <2>1. PICK c \in Combos :
           req' = [req EXCEPT ![w].combo = c, ![w].occupied = {}, ![w].party = 0]
    BY <1>3 DEF CheckCombination
  <2> QED
    BY <1>0, <1>3, <2>1 DEF CheckCombination, Goto, TypeOK, Request
<1> QED
  BY <1>1, <1>2, <1>3

LEMMA ProceedLocals ==
    ASSUME TypeOK, LocalsFit, NEW w \in Workers, Proceed(w)
    PROVE  /\ WorkerFits(w)'
           /\ \A v \in Workers \ {w} : pc'[v] = pc[v] /\ req'[v] = req[v]
<1> USE DEF WorkerFits, Begun, CheckPhase
<1>0. WorkerFits(w) /\ req[w] \in Request
  BY DEF LocalsFit, TypeOK
<1>1. CASE Acquire(w)
  BY <1>0, <1>1 DEF Acquire, Goto, TypeOK
<1>2. CASE GiveUp(w)
  BY <1>2, AnsweredOthers DEF GiveUp
<1>3. CASE CheckTable(w) \/ NoTableFree(w) \/ CheckCombination(w)
  BY <1>0, <1>3, SearchKeeps
<1>4. CASE Refuse(w)
  BY <1>0, <1>4, LeaveOthers DEF Refuse
<1>5. CASE Save(w)
  BY <1>0, <1>5, LeaveOthers DEF Save
<1>6. CASE Release(w)
  BY <1>6, AnsweredOthers DEF Release
<1>7. CASE WriteStatus(w)
  BY <1>7, AnsweredOthers DEF WriteStatus
<1> QED
  BY <1>1, <1>2, <1>3, <1>4, <1>5, <1>6, <1>7 DEF Proceed

LEMMA LocalsStep == ASSUME TypeOK, LocalsFit, [Next]_vars PROVE LocalsFit'
<1>1. RowsFit' /\ \A r \in ResIds : Inserted(r) => Inserted(r)'
  BY RowsStep
<1>2. ASSUME NEW w \in Workers, WorkerFits(w)',
             \A v \in Workers \ {w} : pc'[v] = pc[v] /\ req'[v] = req[v]
      PROVE  LocalsFit'
  <2>1. \A v \in Workers \ {w} : WorkerFits(v)'
    BY <1>1, <1>2, Bystander
  <2> QED
    BY <1>1, <1>2, <2>1 DEF LocalsFit
<1>3. CASE UNCHANGED <<pc, req>>
  <2>1. \A v \in Workers : WorkerFits(v)'
    BY <1>1, <1>3, Bystander
  <2> QED
    BY <1>1, <2>1 DEF LocalsFit
<1>4. ASSUME NEW w \in Workers, Crash(w) PROVE LocalsFit'
  <2>1. pc'[w] = "idle" /\ \A v \in Workers \ {w} : pc'[v] = pc[v] /\ req'[v] = req[v]
    BY <1>4, AnsweredOthers DEF Crash
  <2>2. WorkerFits(w)'
    BY <2>1 DEF WorkerFits, Begun, CheckPhase
  <2> QED
    BY <1>2, <2>1, <2>2
<1>5. ASSUME NEW w \in Workers, Arrive(w) PROVE LocalsFit'
  BY <1>2, <1>5, ArriveLocals
<1>6. ASSUME NEW w \in Workers, Proceed(w) PROVE LocalsFit'
  BY <1>2, <1>6, ProceedLocals
<1> QED
  BY <1>3, <1>4, <1>5, <1>6 DEF Next, vars, AcquireUnknown, ExpireLock

-----------------------------------------------------------------------------
(* The lock.                                                               *)

(* A worker comes to own a stored lock only by its Acquire.                *)
LEMMA LockComes ==
    ASSUME TypeOK, LocalsFit, [Next]_vars,
           NEW w \in Workers, NEW s \in Starts, lock'[s] = w, lock[s] # w
    PROVE  Acquire(w) /\ s = req[w].start /\ lock[s] = None
<1> USE LockAssumption
<1>1. ASSUME NEW v \in Workers, Acquire(v) PROVE Acquire(w) /\ s = req[w].start /\ lock[s] = None
  <2>1. /\ lock[req[v].start] = None
        /\ lock' = [lock EXCEPT ![req[v].start] = v]
    BY <1>1 DEF Acquire, TryAcquire
  <2> QED
    BY <1>1, <2>1 DEF TypeOK, LockTypeOK
<1>2. ASSUME NEW v \in Workers, AcquireUnknown(v) \/ Crash(v) \/ Release(v) PROVE FALSE
  BY <1>2 DEF AcquireUnknown, AcquireReplyLost, Crash, AbandonLock, Release, ReleaseLock,
              TypeOK, LockTypeOK
<1>3. ASSUME NEW t \in Starts, ExpireLock(t) PROVE FALSE
  BY <1>3 DEF ExpireLock, Expire, TypeOK, LockTypeOK
<1>4. ASSUME NEW v \in Workers, Arrive(v) PROVE FALSE
  BY <1>4, ArriveLocals
<1>5. CASE UNCHANGED lock
  BY <1>5
<1> QED
  BY <1>1, <1>2, <1>3, <1>4, <1>5
  DEF Next, vars, Proceed, GiveUp, CheckTable, NoTableFree, CheckCombination, Refuse, Save,
      WriteStatus

(* ... and ceases to own it only by its own step or by the expiry.         *)
LEMMA LockGoes ==
    ASSUME TypeOK, [Next]_vars, LocalsFit,
           NEW w \in Workers, NEW s \in Starts, lock[s] = w, lock'[s] # w
    PROVE  Release(w) \/ Crash(w) \/ (~LockOutlivesHandler /\ \E t \in Starts : ExpireLock(t))
<1> USE LockAssumption
<1>1. ASSUME NEW v \in Workers, Acquire(v) \/ AcquireUnknown(v) PROVE FALSE
  BY <1>1 DEF Acquire, TryAcquire, AcquireUnknown, AcquireReplyLost, TypeOK, LockTypeOK
<1>2. ASSUME NEW v \in Workers, Crash(v) \/ Release(v) PROVE v = w
  BY <1>2 DEF Crash, AbandonLock, Release, ReleaseLock, TypeOK, LockTypeOK
<1>3. ASSUME NEW t \in Starts, ExpireLock(t) PROVE ~LockOutlivesHandler
  BY <1>3 DEF ExpireLock, Expire, TypeOK, LockTypeOK
<1>4. ASSUME NEW v \in Workers, Arrive(v) PROVE FALSE
  BY <1>4, ArriveLocals
<1>5. CASE UNCHANGED lock
  BY <1>5
<1> QED
  BY <1>1, <1>2, <1>3, <1>4, <1>5
  DEF Next, vars, Proceed, GiveUp, CheckTable, NoTableFree, CheckCombination, Refuse, Save,
      WriteStatus

LEMMA LockStep == ASSUME TypeOK, LocalsFit, LockFits, [Next]_vars PROVE LockFits'
<1> USE DEF CheckPhase
<1>1. SUFFICES ASSUME NEW w \in Workers, NEW s \in Starts, lock'[s] = w
      PROVE  /\ pc'[w] \in CheckPhase \cup {"releasing"}
             /\ pc'[w] \in CheckPhase => req'[w].kind \in Locking
             /\ req'[w].start = s
  BY DEF LockFits
<1>2. CASE lock[s] # w
  <2>1. Acquire(w) /\ s = req[w].start
    BY <1>1, <1>2, LockComes
  <2> QED
    BY <2>1 DEF Acquire, Goto, LocalsFit, WorkerFits, Begun, TypeOK
<1>3. CASE lock[s] = w
  <2>0. /\ pc[w] \in CheckPhase \cup {"releasing"}
        /\ pc[w] \in CheckPhase => req[w].kind \in Locking
        /\ req[w].start = s
    BY <1>3 DEF LockFits
  <2>1. CASE pc'[w] = pc[w] /\ req'[w] = req[w]
    BY <2>0, <2>1
  <2>2. ASSUME NEW v \in Workers, Arrive(v) PROVE pc'[w] = pc[w] /\ req'[w] = req[w]
    BY <2>0, <2>2, ArriveLocals
  <2>3. ASSUME Proceed(w)
        PROVE  /\ pc'[w] \in CheckPhase \cup {"releasing"}
               /\ pc'[w] \in CheckPhase => req'[w].kind \in Locking
               /\ req'[w].start = s
    <3>1. CASE Acquire(w) \/ GiveUp(w) \/ WriteStatus(w)
      BY <2>0, <3>1 DEF Acquire, GiveUp, WriteStatus
    <3>2. CASE CheckTable(w) \/ NoTableFree(w) \/ CheckCombination(w)
      BY <2>0, <3>2, SearchKeeps
    <3>3. CASE Refuse(w) \/ Save(w)
      BY <2>0, <3>3, LeaveOthers DEF Refuse, Save
    <3>4. CASE Release(w)
      BY <1>1, <2>0, <3>4, LockAssumption DEF Release, ReleaseLock, TypeOK, LockTypeOK
    <3> QED
      BY <2>3, <3>1, <3>2, <3>3, <3>4 DEF Proceed
  <2>4. ASSUME NEW v \in Workers, v # w, Proceed(v) PROVE pc'[w] = pc[w] /\ req'[w] = req[w]
    BY <2>4, ProceedLocals
  <2>5. ASSUME NEW v \in Workers, Crash(v) PROVE pc'[w] = pc[w] /\ req'[w] = req[w]
    <3>1. v # w
      BY <1>1, <1>3, <2>5, LockAssumption DEF Crash, AbandonLock
    <3> QED
      BY <2>5, <3>1, AnsweredOthers DEF Crash
  <2> QED
    BY <2>1, <2>2, <2>3, <2>4, <2>5 DEF Next, vars, AcquireUnknown, ExpireLock
<1> QED
  BY <1>2, <1>3

-----------------------------------------------------------------------------
(* The tables.                                                             *)

(* What Save writes: one new row, and nothing else that lives.             *)
LEMMA SaveWrites ==
    ASSUME TypeOK, LocalsFit, NEW w \in Workers, Save(w)
    PROVE  \E n \in ResIds, status \in NewStatus(req[w].kind), c \in CombosToSave(w) :
              /\ ~Inserted(n)
              /\ n # req[w].of
              /\ reservations'[n] = NewRow(w, status, c)
              /\ req[w].of \in ResIds =>
                    reservations'[req[w].of] = [reservations[req[w].of] EXCEPT !.status = "Modified"]
              /\ \A r \in ResIds \ {n, req[w].of} : reservations'[r] = reservations[r]
<1>1. PICK n \in ResIds, status \in NewStatus(req[w].kind), c \in CombosToSave(w) :
         /\ reservations[n].status = "none"
         /\ reservations' = [r \in ResIds |->
              IF r = n THEN NewRow(w, status, c)
              ELSE IF r = req[w].of THEN [reservations[r] EXCEPT !.status = "Modified"]
              ELSE reservations[r]]
  BY DEF Save
<1>2. n # req[w].of
  BY <1>1, BookingAssumption DEF Save, LocalsFit, WorkerFits, Begun, CheckPhase
<1>3. /\ req[w].of \in ResIds =>
            reservations'[req[w].of] = [reservations[req[w].of] EXCEPT !.status = "Modified"]
      /\ \A r \in ResIds \ {n, req[w].of} : reservations'[r] = reservations[r]
      /\ reservations'[n] = NewRow(w, status, c)
  BY <1>1, <1>2
<1> QED
  BY <1>1, <1>2, <1>3 DEF Inserted

(* Where a live, guarded row comes from: it was one before, or it has just *)
(* been saved by a worker that holds the lock of its start.                *)
LEMMA GuardedRows ==
    ASSUME TypeOK, LocalsFit, [Next]_vars, NEW r \in ResIds, Live(r)', reservations'[r].guarded
    PROVE  \/ /\ Live(r) /\ reservations[r].guarded
              /\ reservations'[r].start = reservations[r].start
              /\ reservations'[r].table = reservations[r].table
           \/ \E w \in Workers :
                 /\ Save(w) /\ HoldsLock(w)
                 /\ reservations'[r].start = req[w].start
                 /\ reservations'[r].table = req[w].table
                 /\ \A q \in ResIds \ {r} :
                       Live(q)' => q # req[w].of /\ reservations'[q] = reservations[q]
<1>1. CASE UNCHANGED reservations
  BY <1>1 DEF Live
<1>2. ASSUME NEW w \in Workers, Save(w), ~(Live(r) /\ reservations'[r] = reservations[r])
      PROVE  /\ HoldsLock(w)
             /\ reservations'[r].start = req[w].start
             /\ reservations'[r].table = req[w].table
             /\ \A q \in ResIds \ {r} :
                   Live(q)' => q # req[w].of /\ reservations'[q] = reservations[q]
  <2>1. PICK n \in ResIds, status \in NewStatus(req[w].kind), c \in CombosToSave(w) :
              /\ reservations'[n] = NewRow(w, status, c)
              /\ req[w].of \in ResIds =>
                    reservations'[req[w].of] = [reservations[req[w].of] EXCEPT !.status = "Modified"]
              /\ \A q \in ResIds \ {n, req[w].of} : reservations'[q] = reservations[q]
    BY <1>2, SaveWrites
  <2>2. \A q \in ResIds : q = req[w].of => reservations'[q].status = "Modified"
    BY <2>1 DEF TypeOK, Row
  <2>3. \A q \in ResIds : Live(q)' => q # req[w].of
    BY <2>2 DEF Live, LiveStatus
  <2>4. r = n
    BY <1>2, <2>1, <2>3 DEF Live
  <2>5. HoldsLock(w) /\ reservations'[r].start = req[w].start /\ reservations'[r].table = req[w].table
    BY <2>1, <2>4 DEF NewRow
  <2> QED
    BY <2>1, <2>3, <2>4, <2>5
<1>3. ASSUME NEW w \in Workers, WriteStatus(w)
      PROVE  /\ Live(r) /\ reservations[r].guarded
             /\ reservations'[r].start = reservations[r].start
             /\ reservations'[r].table = reservations[r].table
  <2> DEFINE o == req[w].of
             g == reservations[o].guarded /\ (req[w].to \in LiveStatus => Live(o))
             row == [reservations[o] EXCEPT !.status = req[w].to, !.guarded = g]
  <2>1. o \in ResIds /\ reservations' = [reservations EXCEPT ![o] = row]
    BY <1>3 DEF WriteStatus, LocalsFit, WorkerFits, TypeOK
  <2>2. g => reservations[o].guarded /\ (req[w].to \in LiveStatus => Live(o))
    OBVIOUS
  <2> HIDE DEF g
  <2>3. /\ row.status = req[w].to
        /\ row.guarded = g
        /\ row.start = reservations[o].start /\ row.table = reservations[o].table
    BY <2>1 DEF TypeOK, Row
  <2> HIDE DEF o, row
  <2> QED
    BY <2>1, <2>2, <2>3 DEF Live, TypeOK
<1> QED
  BY <1>1, <1>2, <1>3
  DEF Next, vars, Arrive, Proceed, BeginReserve, BeginModify, BeginManual, BeginCancel,
      BeginStaffCancel, BeginSetStatus, ReadRow, Begin, Acquire, AcquireUnknown, GiveUp,
      CheckTable, NoTableFree, CheckCombination, Refuse, Release, Crash, ExpireLock

LEMMA CheckStep ==
    ASSUME TypeOK, LocalsFit, CheckHolds, [Next]_vars
    PROVE  CheckHolds'
<1>1. SUFFICES ASSUME NEW w \in Workers, NEW r \in ResIds,
                      pc'[w] = "saving", HoldsLock(w)', req'[w].table # None,
                      Live(r)', reservations'[r].guarded,
                      reservations'[r].start = req'[w].start,
                      reservations'[r].table = req'[w].table
               PROVE  r = req'[w].of
  BY DEF CheckHolds
<1>2. CASE CheckTable(w)
  <2>1. PICK t \in Tables \ OccupiedTables(req[w].start, req[w].of) :
           req' = [req EXCEPT ![w].table = t]
    BY <1>2 DEF CheckTable
  <2>2. req'[w].table = t
    BY <2>1 DEF TypeOK, Request
  <2>3. Live(r) /\ reservations[r].start = req[w].start /\ reservations[r].table = t
    BY <1>1, <1>2, <2>2, SearchKeeps DEF Live
  <2>4. req[w].start \in Int
    BY <1>2, BookingAssumption DEF CheckTable, LocalsFit, WorkerFits, Begun, CheckPhase
  <2>5. Overlaps(reservations[r].start, req[w].start)
    BY <2>3, <2>4, BookingAssumption DEF Overlaps
  <2>6. t # None
    BY <1>1, <2>2
  <2>7. r = req[w].of
    BY <2>1, <2>3, <2>5, <2>6 DEF OccupiedTables, Blocks
  <2> QED
    BY <1>2, <2>7, SearchKeeps
<1>3. CASE NoTableFree(w) \/ CheckCombination(w)
  <2>1. CheckCombination(w) /\ req[w].table = None
    BY <1>1, <1>3 DEF NoTableFree, Goto, TypeOK, CheckCombination, LocalsFit, WorkerFits, Begun,
                      CheckPhase
  <2>2. PICK c \in Combos :
           req' = [req EXCEPT ![w].combo = c, ![w].occupied = {}, ![w].party = 0]
    BY <2>1 DEF CheckCombination
  <2>3. req'[w].table = req[w].table
    BY <2>2 DEF TypeOK, Request
  <2> QED
    BY <1>1, <2>1, <2>3
<1>4. CASE pc[w] = "saving" /\ req'[w] = req[w]
  <2>1. req[w].start \in Starts /\ req[w].kind \in Locking /\ lock'[req[w].start] = w
    BY <1>1, <1>4 DEF HoldsLock, LocalsFit, WorkerFits, Begun, CheckPhase
  <2>2. lock[req[w].start] = w
    BY <1>4, <2>1, LockComes DEF Acquire
  <2>3. HoldsLock(w)
    BY <2>1, <2>2 DEF HoldsLock
  <2>4. CASE /\ Live(r) /\ reservations[r].guarded
             /\ reservations'[r].start = reservations[r].start
             /\ reservations'[r].table = reservations[r].table
    BY <1>1, <1>4, <2>3, <2>4 DEF CheckHolds
  <2>5. ASSUME NEW v \in Workers, Save(v), HoldsLock(v), reservations'[r].start = req[v].start
        PROVE  FALSE
    <3>1. v = w
      BY <1>1, <1>4, <2>2, <2>5 DEF HoldsLock
    <3> QED
      BY <1>1, <2>1, <2>5, <3>1, LeaveOthers DEF Save
  <2> QED
    BY <1>1, <2>4, <2>5, GuardedRows
<1>5. ASSUME NEW v \in Workers, Crash(v) PROVE pc[w] = "saving" /\ req'[w] = req[w]
  BY <1>1, <1>5, AnsweredOthers DEF Crash
<1>6. ASSUME NEW v \in Workers, Arrive(v) PROVE pc[w] = "saving" /\ req'[w] = req[w]
  BY <1>1, <1>6, ArriveLocals
<1>7. ASSUME NEW v \in Workers \ {w}, Proceed(v) PROVE pc[w] = "saving" /\ req'[w] = req[w]
  BY <1>1, <1>7, ProceedLocals
<1>8. ~(Acquire(w) \/ GiveUp(w) \/ Refuse(w) \/ Save(w) \/ Release(w) \/ WriteStatus(w))
  BY <1>1, AnsweredOthers, LeaveOthers
  DEF Acquire, Goto, GiveUp, Refuse, Save, Release, WriteStatus, TypeOK
<1> QED
  BY <1>1, <1>2, <1>3, <1>4, <1>5, <1>6, <1>7, <1>8
  DEF Next, vars, AcquireUnknown, ExpireLock, Proceed

LEMMA GuardStep ==
    ASSUME TypeOK, LocalsFit, CheckHolds, GuardedExclusive, [Next]_vars
    PROVE  GuardedExclusive'
<1>1. SUFFICES ASSUME NEW r1 \in ResIds, NEW r2 \in ResIds, r1 # r2,
                      Live(r1)', reservations'[r1].guarded,
                      Live(r2)', reservations'[r2].guarded,
                      reservations'[r1].start = reservations'[r2].start,
                      reservations'[r1].table # None,
                      reservations'[r1].table = reservations'[r2].table
               PROVE  FALSE
  BY DEF GuardedExclusive
<1>2. ASSUME NEW a \in ResIds, NEW b \in ResIds, a # b, NEW w \in Workers,
             Save(w), HoldsLock(w),
             reservations'[a].start = req[w].start, reservations'[a].table = req[w].table,
             reservations'[a].table # None,
             \A q \in ResIds \ {a} : Live(q)' => q # req[w].of /\ reservations'[q] = reservations[q],
             Live(b)', reservations'[b].guarded,
             reservations'[b].start = reservations'[a].start,
             reservations'[b].table = reservations'[a].table
      PROVE  FALSE
  BY <1>2 DEF CheckHolds, Save, Live
<1>3. CASE /\ Live(r1) /\ reservations[r1].guarded
           /\ reservations'[r1].start = reservations[r1].start
           /\ reservations'[r1].table = reservations[r1].table
           /\ Live(r2) /\ reservations[r2].guarded
           /\ reservations'[r2].start = reservations[r2].start
           /\ reservations'[r2].table = reservations[r2].table
  BY <1>1, <1>3 DEF GuardedExclusive
<1> QED
  BY <1>1, <1>2, <1>3, GuardedRows

-----------------------------------------------------------------------------
(* The state stays well formed, whatever the constants.                    *)
LEMMA IndStep == IndInv /\ [Next]_vars => IndInv'
BY TypeStep, LocalsStep, LockStep, CheckStep, GuardStep DEF IndInv

(* A booking's bookkeeping and lock agree with the rows in every state.    *)
THEOREM Inductive == Spec => []IndInv
BY InitInd, IndStep, PTL DEF Spec

(* Every variable keeps its type, for any number of workers, rows, tables  *)
(* and starts.                                                             *)
THEOREM TypeCorrect == Spec => []TypeOK
<1>1. IndInv => TypeOK
  BY DEF IndInv
<1> QED
  BY <1>1, Inductive, PTL

(* Two live rows written under the slot lock never share table and start,  *)
(* for any number of workers, rows, tables and starts, whether or not      *)
(* handlers outlive their locks.                                           *)
THEOREM GuardedRowsExclusive == Spec => []GuardedExclusive
<1>1. IndInv => GuardedExclusive
  BY DEF IndInv
<1> QED
  BY <1>1, Inductive, PTL

(* No step of one worker deletes the lock another worker owns.             *)
THEOREM LocksLeaveOwnersOnly == Spec => LockLeavesItsOwnerOnly
<1>1. ASSUME IndInv, [Next]_vars
      PROVE  [\A w \in Workers, s \in Starts :
                lock[s] = w /\ lock'[s] # w => pc'[w] # pc[w] \/ pc' = pc]_vars
  <2>1. SUFFICES ASSUME NEW w \in Workers, NEW s \in Starts, lock[s] = w, lock'[s] # w
                 PROVE  pc'[w] # pc[w] \/ pc' = pc
    OBVIOUS
  <2>2. TypeOK /\ LocalsFit
    BY <1>1 DEF IndInv
  <2>3. CASE Release(w) \/ Crash(w)
    BY <2>2, <2>3, AnsweredOthers DEF Release, Crash
  <2>4. CASE \E t \in Starts : ExpireLock(t)
    BY <2>4 DEF ExpireLock
  <2> QED
    BY <1>1, <2>1, <2>2, <2>3, <2>4, LockGoes
<1> QED
  BY <1>1, Inductive, PTL DEF Spec, LockLeavesItsOwnerOnly

-----------------------------------------------------------------------------
(* Where the lock and the check suffice (Protected), no two live bookings  *)
(* share a seat and the handlers implement the board of BookingBoard.      *)

(* A worker past its Acquire still has the lock, every row that lives was  *)
(* written under it, and no status write brings a row to life.             *)
LockHeld == \A w \in Workers : pc[w] \in CheckPhase => HoldsLock(w)

AllGuarded == \A r \in ResIds : Live(r) => reservations[r].guarded

NoPending == ~DepositEnabled => \A r \in ResIds : reservations[r].status # "Pending"

NoRevival == \A w \in Workers : pc[w] = "writing" => req[w].to \notin LiveStatus

ProtInv == LockHeld /\ AllGuarded /\ NoPending /\ NoRevival

LEMMA ProtInit == Init => ProtInv
BY DEF Init, ProtInv, LockHeld, AllGuarded, NoPending, NoRevival, CheckPhase, NoRow, Live,
       LiveStatus

LEMMA LockHeldStep ==
    ASSUME Protected, IndInv, ProtInv, [Next]_vars
    PROVE  LockHeld'
<1> USE DEF CheckPhase
<1>0. TypeOK /\ LocalsFit /\ LockFits
  BY DEF IndInv
<1>1. SUFFICES ASSUME NEW w \in Workers, pc'[w] \in CheckPhase
               PROVE  HoldsLock(w)'
  BY DEF LockHeld
<1>2. ASSUME pc[w] \in CheckPhase, req'[w].kind = req[w].kind, req'[w].start = req[w].start
      PROVE  HoldsLock(w)'
  <2>1. HoldsLock(w) /\ req[w].start \in Starts
    BY <1>0, <1>2 DEF ProtInv, LockHeld, LocalsFit, WorkerFits, Begun
  <2>2. ~Release(w) /\ ~Crash(w)
    BY <1>0, <1>1, <1>2, AnsweredOthers DEF Release, Crash
  <2>3. lock'[req[w].start] = w
    BY <1>0, <2>1, <2>2, LockGoes DEF Protected, HoldsLock
  <2> QED
    BY <1>2, <2>1, <2>3 DEF HoldsLock
<1>3. ASSUME NEW v \in Workers, Arrive(v) PROVE HoldsLock(w)'
  <2>1. v # w
    BY <1>0, <1>1, <1>3, ArriveLocals DEF Protected
  <2> QED
    BY <1>0, <1>1, <1>2, <1>3, <2>1, ArriveLocals
<1>4. ASSUME NEW v \in Workers \ {w}, Proceed(v) \/ Crash(v) PROVE HoldsLock(w)'
  BY <1>0, <1>1, <1>2, <1>4, ProceedLocals, AnsweredOthers DEF Crash
<1>5. CASE Acquire(w)
  BY <1>0, <1>5 DEF Acquire, TryAcquire, HoldsLock, TypeOK, LockTypeOK, LocalsFit, WorkerFits, Begun
<1>6. CASE CheckTable(w) \/ NoTableFree(w) \/ CheckCombination(w)
  BY <1>0, <1>2, <1>6, SearchKeeps
<1>7. ~(GiveUp(w) \/ Refuse(w) \/ Save(w) \/ Release(w) \/ WriteStatus(w) \/ Crash(w))
  BY <1>0, <1>1, AnsweredOthers, LeaveOthers
  DEF GiveUp, Refuse, Save, Release, WriteStatus, Crash
<1>8. CASE UNCHANGED <<pc, req>>
  BY <1>1, <1>2, <1>8
<1> QED
  BY <1>1, <1>3, <1>4, <1>5, <1>6, <1>7, <1>8
  DEF Next, vars, AcquireUnknown, ExpireLock, Proceed

LEMMA NoRevivalStep ==
    ASSUME Protected, IndInv, ProtInv, [Next]_vars
    PROVE  NoRevival'
<1>0. TypeOK /\ LocalsFit
  BY DEF IndInv
<1>1. SUFFICES ASSUME NEW w \in Workers, pc'[w] = "writing"
               PROVE  req'[w].to \notin LiveStatus
  BY DEF NoRevival
<1>2. CASE pc[w] = "writing" /\ req'[w] = req[w]
  BY <1>2 DEF ProtInv, NoRevival
<1>3. ASSUME NEW kind, NEW r \in ResIds, NEW to \in Status, ReadRow(w, kind, r, to)
      PROVE  kind \in Operations /\ req'[w].to = to
  <2> DEFINE q == [NoRequest EXCEPT !.of = r, !.to = to]
  <2>1. q.to = to
    BY DEF NoRequest
  <2> HIDE DEF q
  <2>2. kind \in Operations /\ req'[w] = q
    BY <1>0, <1>3, BeginOthers DEF ReadRow, q
  <2> QED
    BY <2>1, <2>2
<1>4. CASE BeginCancel(w) \/ BeginStaffCancel(w)
  BY <1>3, <1>4 DEF BeginCancel, BeginStaffCancel, Status, LiveStatus
<1>5. CASE BeginSetStatus(w)
  <2>1. PICK r \in ResIds, to \in Status :
           IsValidTransition(reservations[r].status, to) /\ ReadRow(w, "setStatus", r, to)
    BY <1>5 DEF BeginSetStatus
  <2>2. ~DepositEnabled
    BY <1>3, <2>1 DEF Protected
  <2>3. to \notin LiveStatus
    BY <2>1, <2>2 DEF ProtInv, NoPending, IsValidTransition, LiveStatus
  <2> QED
    BY <1>3, <2>1, <2>3
<1>6. ~(BeginReserve(w) \/ BeginModify(w) \/ BeginManual(w))
  BY <1>0, <1>1 DEF BeginReserve, BeginModify, BeginManual, Begin, Goto, TypeOK
<1>7. ASSUME NEW v \in Workers \ {w}, Arrive(v) \/ Proceed(v) \/ Crash(v)
      PROVE  pc[w] = "writing" /\ req'[w] = req[w]
  BY <1>0, <1>1, <1>7, ArriveLocals, ProceedLocals, AnsweredOthers DEF Crash
<1>8. ~(Proceed(w) \/ Crash(w))
  BY <1>0, <1>1, AnsweredOthers, LeaveOthers, SearchKeeps
  DEF Proceed, Acquire, Goto, GiveUp, Refuse, Save, Release, WriteStatus, Crash, TypeOK
<1> QED
  BY <1>1, <1>2, <1>4, <1>5, <1>6, <1>7, <1>8 DEF Next, vars, AcquireUnknown, ExpireLock, Arrive

LEMMA RowsGuardedStep ==
    ASSUME Protected, IndInv, ProtInv, [Next]_vars
    PROVE  AllGuarded' /\ NoPending'
<1>0. TypeOK /\ LocalsFit
  BY DEF IndInv
<1>1. CASE UNCHANGED reservations
  BY <1>1 DEF ProtInv, AllGuarded, NoPending, Live
<1>2. ASSUME NEW w \in Workers, Save(w) PROVE AllGuarded' /\ NoPending'
  <2>1. PICK n \in ResIds, status \in NewStatus(req[w].kind), c \in CombosToSave(w) :
              /\ reservations'[n] = NewRow(w, status, c)
              /\ req[w].of \in ResIds =>
                    reservations'[req[w].of] = [reservations[req[w].of] EXCEPT !.status = "Modified"]
              /\ \A q \in ResIds \ {n, req[w].of} : reservations'[q] = reservations[q]
    BY <1>0, <1>2, SaveWrites
  <2>2. HoldsLock(w)
    BY <1>2 DEF Save, ProtInv, LockHeld, CheckPhase
  <2>3. reservations'[n].guarded /\ (~DepositEnabled => reservations'[n].status = "Confirmed")
    BY <2>1, <2>2 DEF NewRow, NewStatus
  <2>4. req[w].of \in ResIds => reservations'[req[w].of].status = "Modified"
    BY <1>0, <2>1 DEF TypeOK, Row
  <2> QED
    BY <2>1, <2>3, <2>4 DEF ProtInv, AllGuarded, NoPending, Live, LiveStatus
<1>3. ASSUME NEW w \in Workers, WriteStatus(w) PROVE AllGuarded' /\ NoPending'
  <2>1. req[w].of \in ResIds /\ req[w].to \notin LiveStatus
    BY <1>0, <1>3 DEF WriteStatus, LocalsFit, WorkerFits, ProtInv, NoRevival
  <2>2. /\ reservations'[req[w].of].status = req[w].to
        /\ \A q \in ResIds \ {req[w].of} : reservations'[q] = reservations[q]
    BY <1>0, <1>3, <2>1 DEF WriteStatus, TypeOK, Row
  <2> QED
    BY <2>1, <2>2 DEF ProtInv, AllGuarded, NoPending, Live, LiveStatus
<1> QED
  BY <1>1, <1>2, <1>3
  DEF Next, vars, Arrive, Proceed, BeginReserve, BeginModify, BeginManual, BeginCancel,
      BeginStaffCancel, BeginSetStatus, ReadRow, Begin, Acquire, AcquireUnknown, GiveUp,
      CheckTable, NoTableFree, CheckCombination, Refuse, Release, Crash, ExpireLock

LEMMA ProtStep == ASSUME Protected, IndInv, ProtInv, [Next]_vars PROVE ProtInv'
BY LockHeldStep, NoRevivalStep, RowsGuardedStep DEF ProtInv

LEMMA SeatsApart == Protected /\ IndInv /\ ProtInv => NoSharedSeat
<1> SUFFICES ASSUME Protected, IndInv, ProtInv, NEW r1 \in ResIds, NEW r2 \in ResIds,
                    r1 # r2, Live(r1), Live(r2),
                    Overlaps(reservations[r1].start, reservations[r2].start)
             PROVE  SeatsOf(r1) \cap SeatsOf(r2) = {}
  BY DEF NoSharedSeat
<1>1. reservations[r1].combo = None /\ reservations[r2].combo = None
  BY DEF IndInv, TypeOK, Row, Protected
<1>2. reservations[r1].start \in Starts /\ reservations[r2].start \in Starts
  BY DEF IndInv, LocalsFit, RowsFit, Live, LiveStatus
<1>3. reservations[r1].start = reservations[r2].start
  BY <1>2 DEF Protected
<1>4. reservations[r1].table # None => reservations[r1].table # reservations[r2].table
  BY <1>3 DEF IndInv, GuardedExclusive, ProtInv, AllGuarded
<1> QED
  BY <1>1, <1>4 DEF SeatsOf

(* Under the conditions of Protected no two live reservations that overlap *)
(* ever share a seat, for any number of requests, rows, tables and starts. *)
THEOREM ProtectedSeats == ASSUME Protected PROVE Spec => []NoSharedSeat
<1>1. Init => ProtInv
  BY ProtInit
<1>2. IndInv /\ ProtInv /\ [Next]_vars => ProtInv'
  BY ProtStep
<1>3. IndInv /\ ProtInv => NoSharedSeat
  BY SeatsApart
<1> QED
  BY <1>1, <1>2, <1>3, Inductive, PTL DEF Spec

-----------------------------------------------------------------------------
(* The board.                                                              *)

LEMMA EntryType ==
    TypeOK /\ RowsFit => \A r \in ResIds : Live(r) => EntryOf(r) \in Board!Entry
<1> SUFFICES ASSUME TypeOK, RowsFit, NEW r \in ResIds, Live(r) PROVE EntryOf(r) \in Board!Entry
  OBVIOUS
<1>1. reservations[r] \in Row
  BY DEF TypeOK
<1>2. SeatsOf(r) \subseteq Tables
  BY <1>1, BookingAssumption DEF Row, SeatsOf
<1>3. reservations[r].start \in Starts
  BY DEF RowsFit, Live, LiveStatus
<1> QED
  BY <1>2, <1>3 DEF EntryOf, Board!Entry

(* Where no seat is shared, no live row clashes with another on the board. *)
LEMMA NoClash ==
    TypeOK /\ RowsFit /\ NoSharedSeat =>
        \A n, o \in ResIds : n # o /\ Live(n) /\ Live(o) => ~Board!Clash(EntryOf(n), EntryOf(o))
<1> SUFFICES ASSUME TypeOK, RowsFit, NoSharedSeat, NEW n \in ResIds, NEW o \in ResIds, n # o,
                    Live(n), Live(o)
             PROVE  ~Board!Clash(EntryOf(n), EntryOf(o))
  OBVIOUS
<1>1. reservations[n].start \in Int /\ reservations[o].start \in Int
  BY BookingAssumption DEF RowsFit, Live, LiveStatus
<1>2. Overlaps(reservations[n].start, reservations[o].start) => SeatsOf(n) \cap SeatsOf(o) = {}
  BY DEF NoSharedSeat
<1>3. ASSUME NEW sn \in Int, NEW so \in Int, sn < so + Duration, so < sn + Duration
      PROVE  Overlaps(sn, so)
  BY <1>3, BookingAssumption DEF Overlaps
<1> QED
  BY <1>1, <1>2, <1>3 DEF Board!Clash, EntryOf

LEMMA SaveOnBoard ==
    ASSUME TypeOK, LocalsFit,
           \A r \in ResIds : Live(r)' => EntryOf(r)' \in Board!Entry,
           \A n, o \in ResIds :
              n # o /\ Live(n)' /\ Live(o)' => ~Board!Clash(EntryOf(n)', EntryOf(o)'),
           NEW w \in Workers, Save(w)
    PROVE  Board!Next
<1>1. PICK n \in ResIds, status \in NewStatus(req[w].kind), c \in CombosToSave(w) :
         /\ ~Inserted(n)
         /\ n # req[w].of
         /\ reservations'[n] = NewRow(w, status, c)
         /\ req[w].of \in ResIds =>
               reservations'[req[w].of] = [reservations[req[w].of] EXCEPT !.status = "Modified"]
         /\ \A q \in ResIds \ {n, req[w].of} : reservations'[q] = reservations[q]
  BY SaveWrites
<1> DEFINE e == EntryOf(n)'
<1>2. ~Live(n) /\ Live(n)'
  BY <1>1 DEF Live, LiveStatus, Inserted, NewRow, NewStatus
<1>3. \A q \in ResIds : q = req[w].of => ~Live(q)'
  <2>1. req[w].of \in ResIds => reservations'[req[w].of].status = "Modified"
    BY <1>1 DEF TypeOK, Row
  <2> QED
    BY <2>1 DEF Live, LiveStatus
<1>4. \A q \in ResIds \ {n, req[w].of} : (Live(q)' <=> Live(q)) /\ EntryOf(q)' = EntryOf(q)
  BY <1>1 DEF Live, EntryOf, SeatsOf
<1>5. e \in Board!Entry /\ OnBoard[n] = None
  BY <1>2 DEF OnBoard
<1>6. \A q \in ResIds \ {n, req[w].of} : OnBoard[q] # None => ~Board!Clash(e, OnBoard[q])
  <2> SUFFICES ASSUME NEW q \in ResIds \ {n, req[w].of}, OnBoard[q] # None
               PROVE  ~Board!Clash(e, OnBoard[q])
    OBVIOUS
  <2>1. Live(q) /\ OnBoard[q] = EntryOf(q)
    BY DEF OnBoard
  <2> QED
    BY <1>2, <1>4, <2>1
<1> HIDE DEF e
<1>7. CASE req[w].of \in ResIds
  <2> DEFINE old == req[w].of
  <2>0. /\ OnBoard'[n] = e
        /\ OnBoard'[old] = None
        /\ \A q \in ResIds \ {n, old} : OnBoard'[q] = OnBoard[q]
    BY <1>2, <1>3, <1>4, <1>7 DEF OnBoard, e
  <2>1. OnBoard' = [OnBoard EXCEPT ![n] = e, ![old] = None]
    <3> HIDE DEF old
    <3>1. DOMAIN OnBoard = ResIds /\ DOMAIN OnBoard' = ResIds
      BY DEF OnBoard
    <3>2. OnBoard' = [q \in ResIds |-> OnBoard'[q]] /\ OnBoard = [q \in ResIds |-> OnBoard[q]]
      BY DEF OnBoard
    <3> QED
      BY <2>0, <3>1, <3>2, <1>1 DEF old
  <2>2. Board!FreeFor(e, ResIds \ {req[w].of})
    BY <1>5, <1>6 DEF Board!FreeFor
  <2>3. Board!Move(req[w].of, n, e)
    BY <1>5, <2>1, <2>2 DEF Board!Move
  <2> QED
    BY <1>1, <1>5, <1>7, <2>3 DEF Board!Next
<1>8. CASE req[w].of \notin ResIds
  <2>1. OnBoard' = [OnBoard EXCEPT ![n] = e]
    BY <1>1, <1>2, <1>4, <1>8 DEF OnBoard, e
  <2>2. Board!FreeFor(e, ResIds)
    BY <1>5, <1>6, <1>8 DEF Board!FreeFor
  <2>3. Board!Enter(n, e)
    BY <1>5, <2>1, <2>2 DEF Board!Enter
  <2> QED
    BY <1>1, <1>5, <2>3 DEF Board!Next
<1> QED
  BY <1>7, <1>8

LEMMA BoardStep ==
    ASSUME TypeOK, LocalsFit, ProtInv, [Next]_vars,
           \A r \in ResIds : Live(r)' => EntryOf(r)' \in Board!Entry,
           \A n, o \in ResIds :
              n # o /\ Live(n)' /\ Live(o)' => ~Board!Clash(EntryOf(n)', EntryOf(o)')
    PROVE  [Board!Next]_OnBoard
<1>1. CASE UNCHANGED reservations
  BY <1>1 DEF OnBoard, EntryOf, SeatsOf, Live
<1>2. ASSUME NEW w \in Workers, Save(w) PROVE Board!Next
  BY <1>2, SaveOnBoard
<1>3. ASSUME NEW w \in Workers, WriteStatus(w) PROVE [Board!Next]_OnBoard
  <2> DEFINE o == req[w].of
  <2>1. o \in ResIds /\ req[w].to \notin LiveStatus
    BY <1>3 DEF WriteStatus, LocalsFit, WorkerFits, ProtInv, NoRevival
  <2>2. /\ reservations'[o].status = req[w].to
        /\ \A q \in ResIds \ {o} : reservations'[q] = reservations[q]
    BY <1>3, <2>1 DEF WriteStatus, TypeOK, Row
  <2>3. \A q \in ResIds \ {o} : (Live(q)' <=> Live(q)) /\ EntryOf(q)' = EntryOf(q)
    BY <2>2 DEF Live, EntryOf, SeatsOf
  <2>4. \A q \in ResIds : q = o => ~Live(q)'
    BY <2>1, <2>2 DEF Live
  <2> HIDE DEF o
  <2>5. OnBoard' = [OnBoard EXCEPT ![o] = None]
    BY <2>1, <2>3, <2>4 DEF OnBoard
  <2>6. CASE OnBoard[o] = None
    BY <2>5, <2>6 DEF OnBoard
  <2>7. CASE OnBoard[o] # None
    BY <2>1, <2>5, <2>7 DEF Board!Next, Board!TakeOff
  <2> QED
    BY <2>6, <2>7
<1> QED
  BY <1>1, <1>2, <1>3
  DEF Next, vars, Arrive, Proceed, BeginReserve, BeginModify, BeginManual, BeginCancel,
      BeginStaffCancel, BeginSetStatus, ReadRow, Begin, Acquire, AcquireUnknown, GiveUp,
      CheckTable, NoTableFree, CheckCombination, Refuse, Release, Crash, ExpireLock

(* Under the conditions of Protected the concurrent handlers implement the *)
(* board: every step enters, moves or takes off one booking, and never     *)
(* onto seats that another booking has at an overlapping time.             *)
THEOREM HandlersImplementBoard == ASSUME Protected PROVE Spec => ImplementsBoard
<1>1. Init => Board!Init
  BY DEF Init, Board!Init, OnBoard, Live, LiveStatus, NoRow
<1>2. Init => ProtInv
  BY ProtInit
<1>3. IndInv /\ ProtInv /\ [Next]_vars => ProtInv'
  BY ProtStep
<1> DEFINE Sound ==
        /\ \A r \in ResIds : Live(r) => EntryOf(r) \in Board!Entry
        /\ \A n, o \in ResIds : n # o /\ Live(n) /\ Live(o) => ~Board!Clash(EntryOf(n), EntryOf(o))
<1>4. IndInv /\ ProtInv => Sound
  BY EntryType, NoClash, SeatsApart DEF IndInv, LocalsFit
<1>5. IndInv /\ ProtInv /\ Sound' /\ [Next]_vars => [Board!Next]_OnBoard
  BY BoardStep DEF IndInv
<1> HIDE DEF Sound
<1> QED
  BY <1>1, <1>2, <1>3, <1>4, <1>5, Inductive, PTL DEF Spec, ImplementsBoard, Board!Spec
=============================================================================

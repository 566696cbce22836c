----------------------------- MODULE Lifecycle -----------------------------
(***************************************************************************)
(* What becomes of the reservations of one guest after they are made: the  *)
(* handlers that read a row, test its status, and later write another one, *)
(* together with the status log and the guest's number of visits.  They    *)
(* take no lock and rows have no concurrency token, so each works on the   *)
(* status it has read.                                                     *)
(*                                                                         *)
(* ModifyReservationCommandHandler is left to Booking: its requests carry  *)
(* no tenant, so in the deployed pipeline it never gets as far as a write. *)
(***************************************************************************)
EXTENDS Naturals, Sequences, FiniteSets, ReservationStatus

CONSTANTS
    Rows,              \* reservations of the guest
    Workers,           \* requests being handled at the same time
    None,
    FirstStatus        \* statuses that reservations are made with

ASSUME LifecycleAssumption ==
    /\ None \notin Rows
    /\ FirstStatus \subseteq LiveStatus

VARIABLES
    status,            \* Reservation.Status, or "none" before the row exists
    log,               \* ReservationStatusLogs of each row, in the order of the commits
    visits,            \* Customer.TotalVisits
    pc, req            \* where each worker stands, and what it has read

vars == <<status, log, visits, pc, req>>

Entry == [from : Status, to : Status]

Request == [row : Rows \cup {None}, from : Status \cup {"none"},
            to : Status \cup {"none"}, visits : Nat]

NoRequest == [row |-> None, from |-> "none", to |-> "none", visits |-> 0]

Init ==
    /\ status = [r \in Rows |-> "none"]
    /\ log = [r \in Rows |-> <<>>]
    /\ visits = 0
    /\ pc = [w \in Workers |-> "idle"]
    /\ req = [w \in Workers |-> NoRequest]

(* ReserveCommandHandler, CreateManualReservationCommandHandler            *)
Make(r) ==
    /\ status[r] = "none"
    /\ \E s \in FirstStatus :
          /\ status' = [status EXCEPT ![r] = s]
          /\ log' = [log EXCEPT ![r] = <<[from |-> "Pending", to |-> s]>>]
    /\ UNCHANGED <<visits, pc, req>>

Read(w, r, to, next) ==
    /\ pc[w] = "idle"
    /\ pc' = [pc EXCEPT ![w] = next]
    /\ req' = [req EXCEPT ![w] = [row |-> r, from |-> status[r], to |-> to, visits |-> 0]]
    /\ UNCHANGED <<status, log, visits>>

(* CancelPublicReservationCommandHandler                                   *)
BeginCancel(w, r) ==
    /\ status[r] \in LiveStatus
    /\ Read(w, r, "Cancelled", "writing")

(* CancelReservationByStaffCommandHandler refuses no other status.         *)
BeginStaffCancel(w, r) ==
    /\ status[r] \notin {"none", "Cancelled", "Completed"}
    /\ Read(w, r, "Cancelled", "writing")

(* UpdateReservationStatusCommandHandler: a completion goes on to read the *)
(* customer.                                                               *)
BeginSetStatus(w, r) ==
    \E to \in Status :
        /\ IsValidTransition(status[r], to)
        /\ Read(w, r, to, IF to = "Completed" THEN "readingCustomer" ELSE "writing")

ReadCustomer(w) ==
    /\ pc[w] = "readingCustomer"
    /\ pc' = [pc EXCEPT ![w] = "writing"]
    /\ req' = [req EXCEPT ![w].visits = visits]
    /\ UNCHANGED <<status, log, visits>>

Done(w) ==
    /\ pc' = [pc EXCEPT ![w] = "idle"]
    /\ req' = [req EXCEPT ![w] = NoRequest]

LogEntryAfterAssignment(q) == [from |-> q.to, to |-> q.to]

LogEntry(q) == [from |-> q.from, to |-> q.to]

VisitsAfterNoShowToo(q) == IF q.to \in {"Completed", "NoShow"} THEN q.visits + 1 ELSE visits

VisitsAfter(q) == IF q.to = "Completed" THEN q.visits + 1 ELSE visits

(* SaveChanges: the status, the log entry and the visits in one            *)
(* transaction, whatever the row and the customer hold by now.             *)
Write(w) ==
    /\ pc[w] = "writing"
    /\ status' = [status EXCEPT ![req[w].row] = req[w].to]
    /\ log' = [log EXCEPT ![req[w].row] = Append(@, LogEntry(req[w]))]
    /\ visits' = VisitsAfter(req[w])
    /\ Done(w)

(* A refusal, an error, or the end of the process.                         *)
Fail(w) ==
    /\ pc[w] # "idle"
    /\ Done(w)
    /\ UNCHANGED <<status, log, visits>>

Next ==
    \/ \E r \in Rows :
          \/ Make(r)
          \/ \E w \in Workers : BeginCancel(w, r) \/ BeginStaffCancel(w, r) \/ BeginSetStatus(w, r)
    \/ \E w \in Workers : ReadCustomer(w) \/ Write(w) \/ Fail(w)

Spec == Init /\ [][Next]_vars

-----------------------------------------------------------------------------
TypeOK ==
    /\ status \in [Rows -> Status \cup {"none"}]
    /\ log \in [Rows -> Seq(Entry)]
    /\ visits \in Nat
    /\ pc \in [Workers -> {"idle", "readingCustomer", "writing"}]
    /\ req \in [Workers -> Request]

Made(r) == log[r] # <<>>

(* The status log is a true account although its writers overtake one      *)
(* another: its last entry says what the row's status is, and each later   *)
(* entry moves from a status that an earlier entry had brought about, even *)
(* where it is no longer the one that entry replaces.                      *)
LogIsTrue ==
    \A r \in Rows :
        /\ Made(r) => status[r] = log[r][Len(log[r])].to
        /\ \A i \in 2..Len(log[r]) : \E j \in 1..i - 1 : log[r][i].from = log[r][j].to

Completions ==
    UNION {{r} \X {i \in DOMAIN log[r] : log[r][i].to = "Completed"} : r \in Rows}

(* No visit is credited that no log entry accounts for: handlers that read *)
(* the customer at the same time may lose visits, never invent them.       *)
VisitsAreLogged == visits <= Cardinality(Completions)

(* A reservation that was made as Confirmed never takes up a slot again    *)
(* once it has been completed, cancelled or missed, however late the       *)
(* handlers are that had read it as Confirmed.                             *)
ConfirmedStaysEnded ==
    [][\A r \in Rows :
          Made(r) /\ log[r][1].to = "Confirmed" /\ status[r] \notin LiveStatus
              => status'[r] \notin LiveStatus]_vars

(* The same of every reservation, as the transitions that the handlers     *)
(* test for say: nothing leads from an ended status back to a live one.    *)
EndedStaysEnded ==
    [][\A r \in Rows :
          Made(r) /\ status[r] \notin LiveStatus => status'[r] \notin LiveStatus]_vars
=============================================================================

-------------------------- MODULE LifecycleProofs ---------------------------
(***************************************************************************)
(* A guest's reservations and the messages about them, for any number of   *)
(* reservations, requests, mails and failures.                             *)
(* The status log and the visits: what a request has read of a row is in   *)
(* its log, and what it has read of the visits was accounted for.          *)
(* The reminders: one has to remember in which stages, and with which row  *)
(* in the table or in the DbContext, the guest has had no more than the    *)
(* server missed.  The mails: the same of the one that the worker holds.   *)
(***************************************************************************)
EXTENDS MCReservations, FiniteSetTheorems, TLAPS

(* Exactly the rows that were made have a log.                             *)
LogStarts == \A r \in Rows : Made(r) <=> status[r] # "none"

(* A log l that accounts for the status s of its row.                      *)
TrueLog(l, s) ==
    /\ l # <<>> => s = l[Len(l)].to
    /\ \A i \in 2..Len(l) : \E j \in 1..i - 1 : l[i].from = l[j].to

LEMMA TrueLogs == LogIsTrue => \A r \in Rows : TrueLog(log[r], status[r])
BY DEF LogIsTrue, TrueLog, Made

(* What a worker has read was once so, and is in the log.                  *)
Witnessed(r, s) == \E j \in DOMAIN log[r] : log[r][j].to = s

ReadOfMade(w) ==
    pc[w] # "idle" =>
        /\ req[w].row \in Rows
        /\ req[w].to \in Status
        /\ Witnessed(req[w].row, req[w].from)

ReadsAreTrue == \A w \in Workers : ReadOfMade(w)

LogInv == TypeOK /\ LogStarts /\ ReadsAreTrue /\ LogIsTrue

LEMMA LogInit == Init => LogInv
BY DEF Init, LogInv, TypeOK, LogStarts, ReadsAreTrue, ReadOfMade, LogIsTrue, Made, Request,
    NoRequest,
       Entry

LEMMA MadeNow ==
    ASSUME LogInv, NEW r \in Rows, status[r] # "none"
    PROVE  /\ Made(r)
           /\ Witnessed(r, status[r])
           /\ status[r] \in Status
<1>1. Made(r) /\ status[r] \in Status /\ log[r] \in Seq(Entry)
  BY DEF LogInv, LogStarts, TypeOK
<1>2. Len(log[r]) \in DOMAIN log[r]
  BY <1>1 DEF Made
<1>3. status[r] = log[r][Len(log[r])].to
  BY <1>1 DEF LogInv, LogIsTrue
<1> QED
  BY <1>1, <1>2, <1>3 DEF Witnessed

LEMMA LiveIsStatus == LiveStatus \subseteq Status /\ "none" \notin Status
BY DEF LiveStatus, Status

(* A worker begins only on a row that exists, and takes down its status.   *)
LEMMA BeginReads ==
    ASSUME LogInv, NEW w \in Workers, NEW r \in Rows,
           BeginCancel(w, r) \/ BeginStaffCancel(w, r) \/ BeginSetStatus(w, r)
    PROVE  /\ pc[w] = "idle"
           /\ status[r] # "none"
           /\ UNCHANGED <<status, log, visits>>
           /\ \E to \in Status, next \in {"readingCustomer", "writing"} :
                 /\ Read(w, r, to, next)
                 /\ to \in LiveStatus => status[r] = "Pending"
<1>1. CASE BeginCancel(w, r)
  BY <1>1, LiveIsStatus DEF BeginCancel, Read, Status, LiveStatus
<1>2. CASE BeginStaffCancel(w, r)
  BY <1>2 DEF BeginStaffCancel, Read, Status, LiveStatus
<1>3. CASE BeginSetStatus(w, r)
  BY <1>3 DEF BeginSetStatus, Read, IsValidTransition, LiveStatus
<1> QED
  BY <1>1, <1>2, <1>3

LEMMA ReadStep ==
    ASSUME LogInv, NEW w \in Workers, NEW r \in Rows, status[r] # "none",
           NEW to \in Status, NEW next \in {"readingCustomer", "writing"}, Read(w, r, to, next)
    PROVE  LogInv'
<1> DEFINE q == [row |-> r, from |-> status[r], to |-> to, visits |-> 0]
<1>1. q \in Request /\ q.row = r /\ q.from = status[r] /\ q.to = to
  BY MadeNow DEF Request
<1>2. /\ req' = [req EXCEPT ![w] = q]
      /\ pc' = [pc EXCEPT ![w] = next]
      /\ UNCHANGED <<status, log, visits>>
  BY DEF Read
<1> HIDE DEF q
<1>3. TypeOK'
  BY <1>1, <1>2 DEF LogInv, TypeOK
<1>4. LogStarts' /\ LogIsTrue'
  BY <1>2 DEF LogInv, LogStarts, LogIsTrue, Made
<1>5. ReadOfMade(w)'
  BY <1>1, <1>2, MadeNow DEF LogInv, TypeOK, ReadOfMade, Witnessed
<1>6. ASSUME NEW v \in Workers \ {w} PROVE ReadOfMade(v)'
  BY <1>2 DEF LogInv, TypeOK, ReadsAreTrue, ReadOfMade, Witnessed
<1> QED
  BY <1>3, <1>4, <1>5, <1>6 DEF LogInv, ReadsAreTrue

LEMMA MakeStep == ASSUME LogInv, NEW r \in Rows, Make(r) PROVE LogInv'
<1>1. PICK s \in FirstStatus :
          /\ status' = [status EXCEPT ![r] = s]
          /\ log' = [log EXCEPT ![r] = <<[from |-> "Pending", to |-> s]>>]
  BY DEF Make
<1> DEFINE e == [from |-> "Pending", to |-> s]
<1>2. s \in Status /\ s # "none" /\ e \in Entry /\ e.to = s
  BY LifecycleAssumption DEF Entry, LiveStatus, Status
<1> HIDE DEF e
<1>3. <<e>> \in Seq(Entry) /\ Len(<<e>>) = 1 /\ <<e>>[1] = e
  BY <1>2
<1>4. log' = [log EXCEPT ![r] = <<e>>]
  BY <1>1 DEF e
<1>5. TypeOK'
  BY <1>1, <1>2, <1>3, <1>4 DEF LogInv, TypeOK, Make
<1>6. log'[r] = <<e>> /\ \A x \in Rows \ {r} : log'[x] = log[x] /\ status'[x] = status[x]
  BY <1>1, <1>4 DEF LogInv, TypeOK
<1>7. status'[r] = s
  BY <1>1 DEF LogInv, TypeOK
<1>8. LogStarts'
  BY <1>2, <1>3, <1>6, <1>7 DEF LogInv, LogStarts, Made
<1>9. LogIsTrue'
  BY <1>2, <1>3, <1>6, <1>7 DEF LogInv, LogIsTrue, Made
<1>10. ~Made(r)
  BY DEF LogInv, LogStarts, Make
<1>11. ReadsAreTrue'
  BY <1>6, <1>10 DEF LogInv, ReadsAreTrue, ReadOfMade, Witnessed, Made, Make
<1> QED
  BY <1>5, <1>8, <1>9, <1>11 DEF LogInv

(* What a write leaves in the row it writes to.                            *)
LEMMA WriteAppends ==
    ASSUME LogInv, NEW w \in Workers, Write(w)
    PROVE  LET r == req[w].row
               n == Len(log[r])
           IN  /\ r \in Rows
               /\ Witnessed(r, req[w].from)
               /\ n \in Nat /\ n # 0
               /\ status' = [status EXCEPT ![r] = req[w].to]
               /\ Len(log'[r]) = n + 1
               /\ DOMAIN log[r] = 1..n /\ DOMAIN log'[r] = 1..(n + 1)
               /\ \A i \in 1..n : log'[r][i] = log[r][i]
               /\ log'[r][n + 1].from = req[w].from
               /\ log'[r][n + 1].to = req[w].to
               /\ \A x \in Rows \ {r} : log'[x] = log[x]
               /\ log' \in [Rows -> Seq(Entry)]
<1> DEFINE r == req[w].row
           n == Len(log[r])
           e == [from |-> req[w].from, to |-> req[w].to]
<1>1. /\ r \in Rows
      /\ req[w].to \in Status
      /\ Witnessed(r, req[w].from)
  BY DEF LogInv, ReadsAreTrue, ReadOfMade, Write
<1>2. log[r] \in Seq(Entry)
  BY <1>1 DEF LogInv, TypeOK
<1>3. n \in Nat /\ n # 0 /\ DOMAIN log[r] = 1..n
  BY <1>1, <1>2 DEF Witnessed
<1>4. req[w].from \in Status
  <2>1. PICK j \in DOMAIN log[r] : log[r][j].to = req[w].from
    BY <1>1 DEF Witnessed
  <2>2. log[r][j] \in Entry
    BY <1>2, <2>1
  <2> QED
    BY <2>1, <2>2 DEF Entry
<1>5. e \in Entry /\ e.from = req[w].from /\ e.to = req[w].to
  BY <1>1, <1>4 DEF Entry
<1>6. log' = [log EXCEPT ![r] = Append(log[r], e)] /\ status' = [status EXCEPT ![r] = req[w].to]
  BY DEF Write, LogEntry
<1> HIDE DEF e
<1>7. log'[r] = Append(log[r], e) /\ \A x \in Rows \ {r} : log'[x] = log[x]
  BY <1>1, <1>6 DEF LogInv, TypeOK
<1>8. /\ log'[r] \in Seq(Entry)
      /\ Len(log'[r]) = n + 1
      /\ DOMAIN log'[r] = 1..(n + 1)
      /\ \A i \in 1..n : log'[r][i] = log[r][i]
      /\ log'[r][n + 1] = e
  BY <1>2, <1>3, <1>5, <1>7
<1>9. log' \in [Rows -> Seq(Entry)]
  BY <1>1, <1>6, <1>7, <1>8 DEF LogInv, TypeOK
<1> QED
  BY <1>1, <1>3, <1>5, <1>6, <1>7, <1>8, <1>9

LEMMA WriteStep ==
    ASSUME LogInv, NEW w \in Workers, Write(w), visits' \in Nat
    PROVE  LogInv'
<1> DEFINE r == req[w].row
           n == Len(log[r])
<1>1. /\ r \in Rows
      /\ Witnessed(r, req[w].from)
      /\ n \in Nat /\ n # 0
      /\ status' = [status EXCEPT ![r] = req[w].to]
      /\ Len(log'[r]) = n + 1
      /\ DOMAIN log[r] = 1..n /\ DOMAIN log'[r] = 1..(n + 1)
      /\ \A i \in 1..n : log'[r][i] = log[r][i]
      /\ log'[r][n + 1].from = req[w].from
      /\ log'[r][n + 1].to = req[w].to
      /\ \A x \in Rows \ {r} : log'[x] = log[x]
      /\ log' \in [Rows -> Seq(Entry)]
  BY WriteAppends
<1> HIDE DEF r, n
<1>2. req[w].to \in Status
  BY DEF LogInv, ReadsAreTrue, ReadOfMade, Write
<1>3. /\ pc' = [pc EXCEPT ![w] = "idle"]
      /\ req' = [req EXCEPT ![w] = NoRequest]
  BY DEF Write, Done
<1>4. status'[r] = req[w].to /\ \A x \in Rows \ {r} : status'[x] = status[x]
  BY <1>1 DEF LogInv, TypeOK
<1>5. TypeOK'
  <2>1. NoRequest \in Request
    BY DEF NoRequest, Request
  <2> QED
    BY <1>1, <1>2, <1>3, <2>1 DEF LogInv, TypeOK
<1>6. LogStarts'
  <2>1. ASSUME NEW x \in Rows \ {r} PROVE Made(x)' <=> status'[x] # "none"
    BY <1>1, <1>4, <2>1 DEF LogInv, LogStarts, Made
  <2>2. status'[r] \in Status /\ status'[r] # "none"
    BY <1>2, <1>4, LiveIsStatus
  <2>3. log'[r] # << >>
    <3>1. Len(log'[r]) # 0
      BY <1>1
    <3> QED
      BY <3>1
  <2>4. \A x \in Rows : x = r \/ x \in Rows \ {r}
    OBVIOUS
  <2>5. \A x \in Rows : Made(x)' <=> status'[x] # "none"
    BY <2>1, <2>2, <2>3, <2>4 DEF Made
  <2> QED
    BY <2>5 DEF LogStarts
<1>7. LogIsTrue'
  <2>1. ASSUME NEW x \in Rows \ {r} PROVE TrueLog(log'[x], status'[x])
    <3>1. log'[x] = log[x] /\ status'[x] = status[x]
      BY <1>1, <1>4
    <3>2. TrueLog(log[x], status[x])
      BY TrueLogs DEF LogInv
    <3> QED
      BY <3>1, <3>2
  <2>2. status'[r] = log'[r][Len(log'[r])].to
    BY <1>1, <1>4
  <2>3. ASSUME NEW i \in 2..(n + 1)
        PROVE  \E j \in 1..i - 1 : log'[r][i].from = log'[r][j].to
    <3>1. CASE i = n + 1
      <4>1. PICK j \in 1..n : log[r][j].to = req[w].from
        BY <1>1 DEF Witnessed
      <4> QED
        BY <1>1, <3>1, <4>1
    <3>2. CASE i # n + 1
      <4>1. PICK j \in 1..i - 1 : log[r][i].from = log[r][j].to
        BY <1>1, <3>2 DEF LogInv, LogIsTrue
      <4> QED
        BY <1>1, <3>2, <4>1
    <3> QED
      BY <3>1, <3>2
  <2>4. TrueLog(log'[r], status'[r])
    BY <1>1, <2>2, <2>3 DEF TrueLog
  <2>5. \A x \in Rows : TrueLog(log'[x], status'[x])
    <3>1. \A x \in Rows : x = r \/ x \in Rows \ {r}
      OBVIOUS
    <3> QED
      BY <2>1, <2>4, <3>1
  <2> QED
    BY <2>5 DEF TrueLog, LogIsTrue, Made
<1>8. ASSUME NEW v \in Workers PROVE ReadOfMade(v)'
  <2>1. CASE v = w
    BY <1>3, <2>1 DEF LogInv, TypeOK, ReadOfMade
  <2>2. CASE v # w
    <3>1. pc'[v] = pc[v] /\ req'[v] = req[v] /\ ReadOfMade(v)
      BY <1>3, <2>2 DEF LogInv, TypeOK, ReadsAreTrue
    <3>2. ASSUME NEW x \in Rows, NEW s, Witnessed(x, s) PROVE Witnessed(x, s)'
      <4>1. PICK j \in DOMAIN log[x] : log[x][j].to = s
        BY <3>2 DEF Witnessed
      <4>2. CASE x = r
        <5>1. j \in DOMAIN log'[r] /\ log'[r][j] = log[r][j]
          BY <1>1, <4>1, <4>2
        <5> QED
          BY <4>1, <4>2, <5>1 DEF Witnessed
      <4>3. CASE x # r
        BY <1>1, <4>1, <4>3 DEF Witnessed
      <4> QED
        BY <4>2, <4>3
    <3> QED
      BY <3>1, <3>2 DEF ReadOfMade
  <2> QED
    BY <2>1, <2>2
<1> QED
  BY <1>5, <1>6, <1>7, <1>8 DEF LogInv, ReadsAreTrue

LEMMA OtherStep ==
    ASSUME LogInv, NEW w \in Workers, ReadCustomer(w) \/ Fail(w)
    PROVE  LogInv'
<1>1. CASE ReadCustomer(w)
  <2>1. req' = [req EXCEPT ![w].visits = visits]
    BY <1>1 DEF ReadCustomer
  <2>2. /\ req' \in [Workers -> Request]
        /\ \A v \in Workers : /\ req'[v].row = req[v].row /\ req'[v].from = req[v].from
                              /\ req'[v].to = req[v].to
                              /\ pc'[v] # "idle" => pc[v] # "idle"
    <3>1. req[w] \in Request /\ visits \in Nat
      BY DEF LogInv, TypeOK
    <3>2. /\ [req[w] EXCEPT !.visits = visits] \in Request
          /\ [req[w] EXCEPT !.visits = visits].row = req[w].row
          /\ [req[w] EXCEPT !.visits = visits].from = req[w].from
          /\ [req[w] EXCEPT !.visits = visits].to = req[w].to
      BY <3>1 DEF Request
    <3>3. req' = [req EXCEPT ![w] = [req[w] EXCEPT !.visits = visits]]
      BY <2>1
    <3> DEFINE q == [req[w] EXCEPT !.visits = visits]
    <3> HIDE DEF q
    <3>4. /\ req' = [req EXCEPT ![w] = q]
          /\ q \in Request /\ q.row = req[w].row /\ q.from = req[w].from /\ q.to = req[w].to
      BY <3>2, <3>3 DEF q
    <3> QED
      BY <1>1, <3>4 DEF LogInv, TypeOK, ReadCustomer
  <2> QED
    BY <1>1, <2>1, <2>2
    DEF ReadCustomer, LogInv, TypeOK, LogStarts, ReadsAreTrue, ReadOfMade, LogIsTrue, Made,
        Witnessed
<1>2. CASE Fail(w)
  <2>1. NoRequest \in Request
    BY DEF NoRequest, Request
  <2>2. /\ pc' = [pc EXCEPT ![w] = "idle"]
        /\ req' = [req EXCEPT ![w] = NoRequest]
        /\ UNCHANGED <<status, log, visits>>
    BY <1>2 DEF Fail, Done
  <2> QED
    BY <2>1, <2>2
    DEF LogInv, TypeOK, LogStarts, ReadsAreTrue, ReadOfMade, LogIsTrue, Made, Witnessed
<1> QED
  BY <1>1, <1>2

LEMMA VisitsStep ==
    ASSUME LogInv, NEW w \in Workers, Write(w)
    PROVE  visits' \in Nat
BY DEF LogInv, TypeOK, Write, VisitsAfter, Request

LEMMA LogStep == LogInv /\ [Next]_vars => LogInv'
<1> SUFFICES ASSUME LogInv, [Next]_vars PROVE LogInv'
  OBVIOUS
<1>1. ASSUME NEW r \in Rows, Make(r) PROVE LogInv'
  BY <1>1, MakeStep
<1>2. ASSUME NEW r \in Rows, NEW w \in Workers,
             BeginCancel(w, r) \/ BeginStaffCancel(w, r) \/ BeginSetStatus(w, r)
      PROVE  LogInv'
  <2>1. /\ status[r] # "none"
        /\ \E to \in Status, next \in {"readingCustomer", "writing"} : Read(w, r, to, next)
    BY <1>2, BeginReads
  <2> QED
    BY <2>1, ReadStep
<1>3. ASSUME NEW w \in Workers, ReadCustomer(w) \/ Write(w) \/ Fail(w) PROVE LogInv'
  BY <1>3, WriteStep, VisitsStep, OtherStep
<1>4. CASE UNCHANGED vars
  BY <1>4 DEF vars, LogInv, TypeOK, LogStarts, ReadsAreTrue, ReadOfMade, LogIsTrue, Made, Witnessed
<1> QED
  BY <1>1, <1>2, <1>3, <1>4 DEF Next

(* The inductive invariant of the log.                                     *)
THEOREM LogInvariant == Spec => []LogInv
BY LogInit, LogStep, PTL DEF Spec

(* The lifecycle is type correct.                                          *)
THEOREM LifecycleTypeCorrect == Spec => []TypeOK
<1>1. LogInv => TypeOK
  BY DEF LogInv
<1> QED
  BY <1>1, LogInvariant, PTL

(* The status log is a true account, however its writers interleave.       *)
THEOREM StatusLogTrue == Spec => []LogIsTrue
<1>1. LogInv => LogIsTrue
  BY DEF LogInv
<1> QED
  BY <1>1, LogInvariant, PTL

-----------------------------------------------------------------------------
(* Visits.                                                                 *)

Credited == \A w \in Workers : req[w].visits <= Cardinality(Completions)

VisitInv == IsFiniteSet(Completions) /\ VisitsAreLogged /\ Credited

LEMMA InCompletions ==
    \A r, i : <<r, i>> \in Completions
                <=> r \in Rows /\ i \in DOMAIN log[r] /\ log[r][i].to = "Completed"
BY DEF Completions

LEMMA PairsOnly == \A p \in Completions : p = <<p[1], p[2]>>
BY DEF Completions

LEMMA VisitInit == Init => VisitInv
<1> SUFFICES ASSUME Init PROVE VisitInv
  OBVIOUS
<1>1. Completions = {}
  BY DEF Init, Completions
<1>2. IsFiniteSet(Completions) /\ Cardinality(Completions) = 0
  BY <1>1, FS_EmptySet
<1> QED
  BY <1>2 DEF Init, VisitInv, VisitsAreLogged, Credited, NoRequest

(* A new row has no completion, so its log adds none.                      *)
LEMMA MakeCompletes ==
    ASSUME LogInv, NEW r \in Rows, Make(r)
    PROVE  Completions' = Completions
<1>1. PICK s \in FirstStatus :
          log' = [log EXCEPT ![r] = <<[from |-> "Pending", to |-> s]>>]
  BY DEF Make
<1>2. s # "Completed"
  BY LifecycleAssumption DEF LiveStatus
<1>3. log[r] = <<>>
  BY DEF LogInv, LogStarts, Made, Make
<1>4. log'[r] = <<[from |-> "Pending", to |-> s]>> /\ \A x \in Rows \ {r} : log'[x] = log[x]
  BY <1>1 DEF LogInv, TypeOK
<1>5. {i \in DOMAIN log[r] : log[r][i].to = "Completed"} = {}
  BY <1>3
<1>6. {i \in DOMAIN log'[r] : log'[r][i].to = "Completed"} = {}
  BY <1>2, <1>4
<1>7. \A x \in Rows : {i \in DOMAIN log'[x] : log'[x][i].to = "Completed"}
                       = {i \in DOMAIN log[x] : log[x][i].to = "Completed"}
  BY <1>4, <1>5, <1>6
<1> QED
  BY <1>7 DEF Completions

(* A write adds the entry it appends, if that is a completion.             *)
LEMMA WriteCompletes ==
    ASSUME LogInv, NEW w \in Workers, Write(w), IsFiniteSet(Completions)
    PROVE  /\ IsFiniteSet(Completions')
           /\ Cardinality(Completions') =
                 Cardinality(Completions) + (IF req[w].to = "Completed" THEN 1 ELSE 0)
<1> DEFINE r == req[w].row
           n == Len(log[r])
<1>1. /\ r \in Rows
      /\ n \in Nat
      /\ DOMAIN log[r] = 1..n /\ DOMAIN log'[r] = 1..(n + 1)
      /\ \A i \in 1..n : log'[r][i] = log[r][i]
      /\ log'[r][n + 1].to = req[w].to
      /\ \A x \in Rows \ {r} : log'[x] = log[x]
  BY WriteAppends
<1> HIDE DEF r, n
<1> DEFINE C(l) == {i \in DOMAIN l : l[i].to = "Completed"}
           new == IF req[w].to = "Completed" THEN {<<r, n + 1>>} ELSE {}
<1>2. /\ Completions = UNION {{x} \X C(log[x]) : x \in Rows}
      /\ Completions' = UNION {{x} \X C(log'[x]) : x \in Rows}
  BY DEF Completions
<1>3. C(log'[r]) = C(log[r]) \cup (IF req[w].to = "Completed" THEN {n + 1} ELSE {})
  BY <1>1
<1>4. \A x \in Rows \ {r} : C(log'[x]) = C(log[x])
  BY <1>1
<1>5. n + 1 \notin C(log[r])
  BY <1>1
<1> HIDE DEF C
<1>6. Completions' = Completions \cup new
  BY <1>1, <1>2, <1>3, <1>4
<1>7. <<r, n + 1>> \notin Completions
  BY <1>2, <1>5
<1>8. CASE req[w].to = "Completed"
  <2>1. Completions' = Completions \cup {<<r, n + 1>>}
    BY <1>6, <1>8
  <2> QED
    BY <1>7, <1>8, <2>1, FS_AddElement
<1>9. CASE req[w].to # "Completed"
  <2>1. Completions' = Completions
    BY <1>6, <1>9
  <2>2. Cardinality(Completions) \in Nat
    BY FS_CardinalityType
  <2> QED
    BY <1>9, <2>1, <2>2
<1> QED
  BY <1>8, <1>9

LEMMA VisitStep == LogInv /\ VisitInv /\ [Next]_vars => VisitInv'
<1> SUFFICES ASSUME LogInv, VisitInv, [Next]_vars PROVE VisitInv'
  OBVIOUS
<1>0. Cardinality(Completions) \in Nat /\ visits \in Nat /\ req \in [Workers -> Request]
  BY FS_CardinalityType DEF VisitInv, LogInv, TypeOK
<1>1. ASSUME NEW r \in Rows, Make(r) PROVE VisitInv'
  BY <1>1, MakeCompletes DEF VisitInv, VisitsAreLogged, Credited, Make
<1>2. ASSUME log' = log, visits' = visits,
             NEW w \in Workers, NEW q, req' = [req EXCEPT ![w] = q],
             q.visits = 0 \/ q.visits = visits
      PROVE  VisitInv'
  <2>1. Completions' = Completions
    BY <1>2 DEF Completions
  <2>2. \A v \in Workers : req'[v] = req[v] \/ req'[v].visits \in {0, visits}
    BY <1>0, <1>2
  <2> QED
    BY <1>0, <1>2, <2>1, <2>2 DEF VisitInv, VisitsAreLogged, Credited
<1>3. ASSUME NEW r \in Rows, NEW w \in Workers,
             BeginCancel(w, r) \/ BeginStaffCancel(w, r) \/ BeginSetStatus(w, r)
      PROVE  VisitInv'
  <2>1. PICK to : \E next : Read(w, r, to, next)
    BY <1>3, BeginReads
  <2> DEFINE q == [row |-> r, from |-> status[r], to |-> to, visits |-> 0]
  <2>2. q.visits = 0
    OBVIOUS
  <2>3. log' = log /\ visits' = visits /\ req' = [req EXCEPT ![w] = q]
    BY <2>1 DEF Read
  <2> HIDE DEF q
  <2> QED
    BY <1>2, <2>2, <2>3
<1>4. ASSUME NEW w \in Workers, ReadCustomer(w) PROVE VisitInv'
  <2> DEFINE q == [req[w] EXCEPT !.visits = visits]
  <2>1. q.visits = visits
    BY <1>0 DEF Request
  <2>2. log' = log /\ visits' = visits /\ req' = [req EXCEPT ![w] = q]
    BY <1>4 DEF ReadCustomer
  <2> HIDE DEF q
  <2> QED
    BY <1>2, <2>1, <2>2
<1>5. ASSUME NEW w \in Workers, Fail(w) PROVE VisitInv'
  <2>1. log' = log /\ visits' = visits /\ req' = [req EXCEPT ![w] = NoRequest]
    BY <1>5 DEF Fail, Done
  <2>2. NoRequest.visits = 0
    BY DEF NoRequest
  <2> QED
    BY <1>2, <2>1, <2>2
<1>6. ASSUME NEW w \in Workers, Write(w) PROVE VisitInv'
  <2>1. /\ IsFiniteSet(Completions')
        /\ Cardinality(Completions') =
              Cardinality(Completions) + (IF req[w].to = "Completed" THEN 1 ELSE 0)
    BY <1>6, WriteCompletes DEF VisitInv
  <2>2. req' = [req EXCEPT ![w] = NoRequest] /\ NoRequest.visits = 0
    BY <1>6 DEF Write, Done, NoRequest
  <2>3. visits' = IF req[w].to = "Completed" THEN req[w].visits + 1 ELSE visits
    BY <1>6 DEF Write, VisitsAfter
  <2>4. req[w].visits \in Nat /\ req[w].visits <= Cardinality(Completions)
    BY <1>0 DEF VisitInv, Credited, Request
  <2>5. VisitsAreLogged'
    BY <1>0, <2>1, <2>3, <2>4 DEF VisitInv, VisitsAreLogged
  <2>6. ASSUME NEW v \in Workers PROVE req'[v].visits <= Cardinality(Completions')
    <3>1. req'[v] = req[v] \/ req'[v].visits = 0
      BY <1>0, <2>2
    <3>2. req[v].visits \in Nat /\ req[v].visits <= Cardinality(Completions)
      BY <1>0 DEF VisitInv, Credited, Request
    <3> QED
      BY <1>0, <2>1, <3>1, <3>2
  <2> QED
    BY <2>1, <2>5, <2>6 DEF VisitInv, Credited
<1>7. CASE UNCHANGED vars
  BY <1>7 DEF vars, VisitInv, VisitsAreLogged, Credited, Completions
<1> QED
  BY <1>1, <1>3, <1>4, <1>5, <1>6, <1>7 DEF Next

(* Every visit credited to the guest is accounted for by a completion in   *)
(* the log, however many completions read the guest at the same time.      *)
THEOREM VisitsAccounted == Spec => []VisitsAreLogged
<1>1. VisitInv => VisitsAreLogged
  BY DEF VisitInv
<1> QED
  BY <1>1, VisitInit, VisitStep, LogInvariant, PTL DEF Spec

-----------------------------------------------------------------------------
(* Rows made as Confirmed.                                                 *)

MadePending(r) == Made(r) => log[r][1].to = "Pending"

(* Only a row that was made Pending is ever Pending, and only a worker that*)
(* has read Pending writes a live status.                                  *)
PendingFromStart ==
    /\ \A r \in Rows : status[r] = "Pending" => MadePending(r)
    /\ \A w \in Workers : pc[w] # "idle" /\ req[w].to \in LiveStatus => MadePending(req[w].row)

LEMMA FirstEntryStays ==
    ASSUME LogInv, [Next]_vars, NEW r \in Rows, Made(r)
    PROVE  Made(r)' /\ log'[r][1] = log[r][1]
<1>1. CASE log' = log
  BY <1>1 DEF Made
<1>2. ASSUME NEW x \in Rows, Make(x) PROVE Made(r)' /\ log'[r][1] = log[r][1]
  <2>1. r # x
    BY <1>2 DEF LogInv, LogStarts, Make
  <2>2. PICK s : log' = [log EXCEPT ![x] = <<[from |-> "Pending", to |-> s]>>]
    BY <1>2 DEF Make
  <2>3. log'[r] = log[r]
    BY <2>1, <2>2 DEF LogInv, TypeOK
  <2> QED
    BY <2>3 DEF Made
<1>3. ASSUME NEW w \in Workers, Write(w) PROVE Made(r)' /\ log'[r][1] = log[r][1]
  <2> DEFINE q == req[w].row
             n == Len(log[q])
  <2>1. /\ n \in Nat /\ n # 0
        /\ Len(log'[q]) = n + 1
        /\ \A i \in 1..n : log'[q][i] = log[q][i]
        /\ \A x \in Rows \ {q} : log'[x] = log[x]
    BY <1>3, WriteAppends
  <2>2. CASE r = q
    BY <2>1, <2>2 DEF Made
  <2>3. CASE r # q
    BY <2>1, <2>3 DEF Made
  <2> QED
    BY <2>2, <2>3
<1> QED
  BY <1>1, <1>2, <1>3 DEF Next, vars, BeginCancel, BeginStaffCancel, BeginSetStatus, Read,
                          ReadCustomer, Fail

LEMMA PendingStays ==
    ASSUME LogInv, [Next]_vars, NEW r \in Rows, Made(r), MadePending(r)
    PROVE  MadePending(r)'
BY FirstEntryStays DEF MadePending

LEMMA ReadRowsAreMade ==
    ASSUME LogInv, NEW w \in Workers, pc[w] # "idle"
    PROVE  req[w].row \in Rows /\ Made(req[w].row)
BY DEF LogInv, ReadsAreTrue, ReadOfMade, Witnessed, Made

LEMMA PendingStep == LogInv /\ PendingFromStart /\ [Next]_vars => PendingFromStart'
<1> SUFFICES ASSUME LogInv, PendingFromStart, [Next]_vars PROVE PendingFromStart'
  OBVIOUS
<1>0. TypeOK
  BY DEF LogInv
<1>1. ASSUME NEW r \in Rows, status'[r] = "Pending" PROVE MadePending(r)'
  <2>1. CASE status[r] = "Pending"
    <3>1. Made(r) /\ MadePending(r)
      BY <2>1, MadeNow DEF PendingFromStart
    <3> QED
      BY <3>1, PendingStays
  <2>2. CASE status[r] # "Pending"
    <3>1. ASSUME NEW x \in Rows, Make(x) PROVE MadePending(r)'
      <4>1. PICK s \in FirstStatus :
                /\ status' = [status EXCEPT ![x] = s]
                /\ log' = [log EXCEPT ![x] = <<[from |-> "Pending", to |-> s]>>]
        BY <3>1 DEF Make
      <4>2. x = r /\ s = "Pending"
        BY <1>0, <1>1, <2>2, <4>1 DEF TypeOK
      <4> QED
        BY <1>0, <4>1, <4>2 DEF TypeOK, MadePending
    <3>2. ASSUME NEW w \in Workers, Write(w) PROVE MadePending(r)'
      <4>1. status' = [status EXCEPT ![req[w].row] = req[w].to] /\ pc[w] # "idle"
        BY <3>2 DEF Write
      <4>2. r = req[w].row /\ req[w].to = "Pending"
        BY <1>0, <1>1, <2>2, <4>1 DEF TypeOK
      <4>3. MadePending(r) /\ Made(r)
        BY <4>1, <4>2, ReadRowsAreMade DEF PendingFromStart, LiveStatus
      <4> QED
        BY <4>3, PendingStays
    <3> QED
      BY <1>1, <2>2, <3>1, <3>2 DEF Next, vars, BeginCancel, BeginStaffCancel, BeginSetStatus, Read,
                                    ReadCustomer, Fail
  <2> QED
    BY <2>1, <2>2
<1>2. ASSUME NEW w \in Workers, pc'[w] # "idle", req'[w].to \in LiveStatus
      PROVE  MadePending(req[w].row)'
  <2>1. CASE pc[w] # "idle" /\ req'[w].row = req[w].row /\ req'[w].to = req[w].to
    <3>1. Made(req[w].row) /\ req[w].row \in Rows /\ MadePending(req[w].row)
      BY <1>2, <2>1, ReadRowsAreMade DEF PendingFromStart
    <3>2. PICK r \in Rows : r = req[w].row
      BY <3>1
    <3>3. MadePending(r)' /\ r = req'[w].row
      BY <2>1, <3>1, <3>2, PendingStays
    <3> QED
      BY <3>3 DEF MadePending, Made
  <2>2. ASSUME NEW r \in Rows, BeginCancel(w, r) \/ BeginStaffCancel(w, r) \/ BeginSetStatus(w, r)
        PROVE  MadePending(req[w].row)'
    <3>1. PICK to \in Status, next \in {"readingCustomer", "writing"} :
              Read(w, r, to, next) /\ (to \in LiveStatus => status[r] = "Pending")
      BY <2>2, BeginReads
    <3>2. req'[w] = [row |-> r, from |-> status[r], to |-> to, visits |-> 0]
      BY <1>0, <3>1 DEF Read, TypeOK
    <3>3. status[r] = "Pending" /\ req'[w].row = r
      BY <1>2, <3>1, <3>2
    <3>4. Made(r) /\ MadePending(r)
      BY <3>3, MadeNow DEF PendingFromStart
    <3>5. MadePending(r)'
      BY <3>4, PendingStays
    <3> QED
      BY <3>3, <3>5 DEF MadePending, Made
  <2>3. CASE ReadCustomer(w)
    BY <1>0, <2>1, <2>3 DEF ReadCustomer, TypeOK, Request
  <2>4. ~Write(w) /\ ~Fail(w)
    BY <1>0, <1>2 DEF Write, Fail, Done, TypeOK
  <2>5. ASSUME NEW v \in Workers \ {w}, ReadCustomer(v) \/ Write(v) \/ Fail(v)
        PROVE  MadePending(req[w].row)'
    <3>1. req'[w] = req[w] /\ pc'[w] = pc[w]
      BY <1>0, <2>5 DEF ReadCustomer, Write, Fail, Done, TypeOK
    <3> QED
      BY <1>2, <2>1, <3>1
  <2>6. ASSUME NEW v \in Workers \ {w}, NEW r \in Rows,
               BeginCancel(v, r) \/ BeginStaffCancel(v, r) \/ BeginSetStatus(v, r)
        PROVE  MadePending(req[w].row)'
    <3>1. PICK to, next : Read(v, r, to, next)
      BY <2>6, BeginReads
    <3>2. req'[w] = req[w] /\ pc'[w] = pc[w]
      BY <1>0, <2>6, <3>1 DEF Read, TypeOK
    <3> QED
      BY <1>2, <2>1, <3>2
  <2>7. CASE UNCHANGED <<pc, req>>
    BY <1>2, <2>1, <2>7
  <2> QED
    BY <2>2, <2>3, <2>4, <2>5, <2>6, <2>7 DEF Next, vars, Make
<1> QED
  BY <1>1, <1>2 DEF PendingFromStart

(* A reservation that was made as Confirmed never becomes live again after *)
(* it has ended, whatever its writers had read.                            *)
THEOREM ConfirmedRowsStayEnded == Spec => ConfirmedStaysEnded
<1>1. Init => PendingFromStart
  BY DEF Init, PendingFromStart, NoRequest
<1>2. ASSUME LogInv, PendingFromStart, [Next]_vars, NEW r \in Rows,
             Made(r), log[r][1].to = "Confirmed", status[r] \notin LiveStatus
      PROVE  status'[r] \notin LiveStatus
  <2>1. status[r] # "none" /\ TypeOK
    BY <1>2 DEF LogInv, LogStarts
  <2>2. ASSUME NEW w \in Workers, Write(w) PROVE status'[r] \notin LiveStatus
    <3>1. status' = [status EXCEPT ![req[w].row] = req[w].to] /\ pc[w] # "idle"
      BY <2>2 DEF Write
    <3>2. req[w].row = r => req[w].to \notin LiveStatus
      BY <1>2, <3>1 DEF PendingFromStart, MadePending
    <3> QED
      BY <1>2, <2>1, <3>1, <3>2 DEF TypeOK
  <2>3. ASSUME NEW x \in Rows, Make(x) PROVE status'[r] \notin LiveStatus
    BY <1>2, <2>1, <2>3 DEF Make, TypeOK
  <2> QED
    BY <1>2, <2>2, <2>3 DEF Next, vars, BeginCancel, BeginStaffCancel, BeginSetStatus, Read,
                            ReadCustomer, Fail
<1>3. LogInv /\ PendingFromStart /\ [Next]_vars
          => [\A r \in Rows :
                 Made(r) /\ log[r][1].to = "Confirmed" /\ status[r] \notin LiveStatus
                     => status'[r] \notin LiveStatus]_vars
  BY <1>2
<1> QED
  BY <1>1, <1>3, PendingStep, LogInvariant, PTL DEF Spec, ConfirmedStaysEnded

-----------------------------------------------------------------------------
(* What each reservation's reminder stands at.                             *)
SentOnce(r) == reminded[r] <= slips[r] + 1

StillToSend(r) ==
    \/ stage[r] \in {"todo", "calling", "failing"} \/ message[r] \in {"none", "failed"}
    \/ unsaved[r] # "nothing"

Unsent(r) == StillToSend(r) => reminded[r] <= slips[r]

HandIsRecorded(r) ==
    stage[r] \in {"calling", "noting", "failing"} =>
        message[r] \in {"queued", "sent"} /\ unsaved[r] = "nothing"

NotingIsSent(r) == stage[r] = "noting" => reminded[r] > 0

SilenceExplained(r) ==
    message[r] \in {"queued", "sent"} /\ reminded[r] = 0 =>
        r \in broken \/ stage[r] \in {"calling", "noting", "failing"}

UnsavedIsBroken(r) == unsaved[r] = "queued" => r \in broken

ReminderOK(r) ==
    /\ SentOnce(r) /\ Unsent(r) /\ HandIsRecorded(r) /\ NotingIsSent(r)
    /\ SilenceExplained(r) /\ UnsavedIsBroken(r)

(* One message at a time, and no call without a try left.                  *)
OneInHand ==
    /\ \A r, x \in InHand : r = x
    /\ \A r \in Reservations : stage[r] = "calling" => triesLeft > 0

PassInv == RemindersTypeOK /\ OneInHand /\ (~passRuns => stage = Nowhere)

USE DEF Stages, Nowhere, NothingUnsaved, To, Mishap, rowVars, historyVars, InHand

(* The pass, step by step.                                                 *)
LEMMA PassStep == PassInv /\ [RemindersNext]_reminderVars => PassInv'
<1> SUFFICES ASSUME PassInv, [RemindersNext]_reminderVars PROVE PassInv'
    OBVIOUS
<1> USE RemindersAssumption DEF PassInv, RemindersTypeOK, OneInHand
<1>1. CASE StartPass
  BY <1>1 DEF StartPass
<1>2. CASE EndPass
  BY <1>2 DEF EndPass, LeavePass
<1>3. CASE ProcessEnds
  <2>1. broken' \subseteq Reservations /\ mishaps' \in Nat
    BY <1>3 DEF ProcessEnds
  <2> QED  BY <1>3, <2>1 DEF ProcessEnds, LeavePass
<1>4. ASSUME NEW r \in Reservations, ComesNear(r) \/ Passes(r) \/ FallBackToMail(r)
      PROVE  PassInv'
  BY <1>4 DEF ComesNear, Passes, FallBackToMail
<1>5. ASSUME NEW r \in Reservations, Record(r) \/ RecordFails(r) \/ RecordUnheard(r)
      PROVE  PassInv'
  <2>1. Saved(r, "queued") \in [Reservations -> {"none", "queued", "sent", "failed"}]
    BY DEF Saved
  <2>2. CASE Record(r)
    <3>1. RemindersTypeOK'
      BY <2>1, <2>2 DEF Record
    <3>3. passRuns'
      BY <2>2 DEF Record
    <3>2. OneInHand'
      BY <2>2 DEF Record
    <3> QED  BY <3>1, <3>2, <3>3
  <2>3. CASE RecordFails(r)
    <3>1. mishaps' \in Nat
      BY <2>3 DEF RecordFails
    <3>2. RemindersTypeOK'
      BY <2>3, <3>1 DEF RecordFails
    <3>3. OneInHand' /\ passRuns'
      BY <2>3 DEF RecordFails
    <3> QED  BY <3>2, <3>3
  <2>4. CASE RecordUnheard(r)
    <3>1. RemindersTypeOK'
      BY <2>1, <2>4 DEF RecordUnheard
    <3>2. OneInHand' /\ passRuns'
      BY <2>4 DEF RecordUnheard
    <3> QED  BY <3>1, <3>2
  <2> QED  BY <1>5, <2>2, <2>3, <2>4
<1>6. ASSUME NEW r \in Reservations, Accept(r) PROVE PassInv'
  BY <1>6 DEF Accept
<1>7. ASSUME NEW r \in Reservations, AcceptUnheard(r) \/ RefuseCall(r) PROVE PassInv'
  BY <1>7 DEF AcceptUnheard, RefuseCall, NextTry
<1>8. ASSUME NEW r \in Reservations,
             NoteSent(r) \/ NoteSentFails(r) \/ NoteFailed(r) \/ NoteFailedFails(r)
      PROVE  PassInv'
  BY <1>8 DEF NoteSent, NoteSentFails, NoteFailed, NoteFailedFails
<1>9. CASE UNCHANGED reminderVars
  BY <1>9 DEF reminderVars
<1> QED
  BY <1>1, <1>2, <1>3, <1>4, <1>5, <1>6, <1>7, <1>8, <1>9 DEF RemindersNext

RemindersInv == PassInv /\ \A r \in Reservations : ReminderOK(r)

(* No step takes what is known of a reservation away.                      *)
LEMMA ReminderStep ==
    ASSUME RemindersInv, [RemindersNext]_reminderVars, NEW x \in Reservations
    PROVE  ReminderOK(x)'
<1>0. PassInv' /\ PassInv /\ RemindersTypeOK
  BY PassStep DEF RemindersInv, PassInv
<1>1. ReminderOK(x) /\ x \in DOMAIN message
  BY <1>0 DEF RemindersInv, RemindersTypeOK
<1> USE DEF ReminderOK, SentOnce, Unsent, StillToSend, HandIsRecorded, NotingIsSent,
            SilenceExplained, UnsavedIsBroken, RemindersTypeOK
<1>2. CASE StartPass
  <2>1. stage[x] = "out"
    BY <1>0, <1>2 DEF StartPass, PassInv
  <2> QED  BY <1>0, <1>1, <1>2, <2>1 DEF StartPass, AlreadySent
<1>3. CASE EndPass
  BY <1>0, <1>1, <1>3 DEF EndPass, LeavePass
<1>4. CASE ProcessEnds
  BY <1>0, <1>1, <1>4 DEF ProcessEnds, LeavePass
<1>5. ASSUME NEW r \in Reservations, ComesNear(r) \/ Passes(r) PROVE ReminderOK(x)'
  BY <1>1, <1>5 DEF ComesNear, Passes
<1>6. ASSUME NEW r \in Reservations, FallBackToMail(r) PROVE ReminderOK(x)'
  BY <1>0, <1>1, <1>6 DEF FallBackToMail
<1>7. ASSUME NEW r \in Reservations, Record(r) PROVE ReminderOK(x)'
  BY <1>0, <1>1, <1>7 DEF Record, Saved
<1>8. ASSUME NEW r \in Reservations, RecordFails(r) PROVE ReminderOK(x)'
  BY <1>0, <1>1, <1>8 DEF RecordFails
<1>9. ASSUME NEW r \in Reservations, RecordUnheard(r) PROVE ReminderOK(x)'
  BY <1>0, <1>1, <1>9 DEF RecordUnheard, Saved
<1>10. ASSUME NEW r \in Reservations, Accept(r) PROVE ReminderOK(x)'
  BY <1>0, <1>1, <1>10 DEF Accept
<1>11. ASSUME NEW r \in Reservations, AcceptUnheard(r) PROVE ReminderOK(x)'
  BY <1>0, <1>1, <1>11 DEF AcceptUnheard, NextTry
<1>12. ASSUME NEW r \in Reservations, RefuseCall(r) PROVE ReminderOK(x)'
  BY <1>0, <1>1, <1>12 DEF RefuseCall, NextTry
<1>13. ASSUME NEW r \in Reservations, NoteSent(r) PROVE ReminderOK(x)'
  BY <1>0, <1>1, <1>13 DEF NoteSent
<1>14. ASSUME NEW r \in Reservations, NoteSentFails(r) PROVE ReminderOK(x)'
  BY <1>0, <1>1, <1>14 DEF NoteSentFails
<1>15. ASSUME NEW r \in Reservations, NoteFailed(r) PROVE ReminderOK(x)'
  BY <1>0, <1>1, <1>15 DEF NoteFailed
<1>16. ASSUME NEW r \in Reservations, NoteFailedFails(r) PROVE ReminderOK(x)'
  BY <1>0, <1>1, <1>16 DEF NoteFailedFails
<1>17. CASE UNCHANGED reminderVars
  BY <1>1, <1>17 DEF reminderVars
<1> QED
  BY <1>2, <1>3, <1>4, <1>5, <1>6, <1>7, <1>8, <1>9, <1>10, <1>11, <1>12, <1>13, <1>14, <1>15,
     <1>16, <1>17 DEF RemindersNext

(* The invariant of the reminders.                                         *)
THEOREM RemindersInvariant == RemindersSpec => []RemindersInv
<1>1. ASSUME RemindersInit PROVE RemindersInv
  <2>1. PassInv
    BY <1>1 DEF RemindersInit, PassInv, OneInHand, RemindersTypeOK
  <2>2. ASSUME NEW r \in Reservations PROVE ReminderOK(r)
    BY <1>1 DEF RemindersInit, ReminderOK, SentOnce, Unsent, StillToSend, HandIsRecorded,
                NotingIsSent, SilenceExplained, UnsavedIsBroken
  <2> QED  BY <2>1, <2>2 DEF RemindersInv
<1>2. RemindersInv /\ [RemindersNext]_reminderVars => RemindersInv'
  BY PassStep, ReminderStep DEF RemindersInv
<1> QED  BY <1>1, <1>2, PTL DEF RemindersSpec

(* Reminders are typed as they should be, for any number of reservations.  *)
THEOREM RemindersTypeCorrect == RemindersSpec => []RemindersTypeOK
<1>1. RemindersInv => RemindersTypeOK
  BY DEF RemindersInv, PassInv
<1> QED  BY <1>1, RemindersInvariant, PTL

(* Nobody is reminded a second time but for an accepted message that the   *)
(* server took for a failed one, and nobody's reminder is left out while   *)
(* the table says otherwise but for a failure that cut it short, however   *)
(* many reservations, passes and restarts there are.                       *)
THEOREM RemindedOnceAlways == RemindersSpec => []RemindedOnce
<1>1. RemindersInv => RemindedOnce
  BY DEF RemindersInv, PassInv, RemindersTypeOK, ReminderOK, SentOnce, SilenceExplained,
         RemindedOnce, AlreadySent
<1> QED  BY <1>1, RemindersInvariant, PTL

-----------------------------------------------------------------------------
(* The queue of mails.                                                     *)

(* The queue holds mails in the order in which they came.                  *)
QueueInOrder ==
    /\ \A i \in DOMAIN mailQueue : mailQueue[i] \in 1 .. mailsQueued
    /\ \A i, j \in DOMAIN mailQueue : i < j => mailQueue[i] < mailQueue[j]

InQueue(m) == \E i \in DOMAIN mailQueue : mailQueue[i] = m

(* The worker has one mail or none, and keeps back at most its Sent entry. *)
WorkerOK ==
    /\ worker.at = "waiting" => worker = Waiting /\ unwritten = {}
    /\ worker.at # "waiting" => worker.mail \in 1 .. mailsQueued
    /\ worker.at \in {"sending", "sent"} => unwritten = {}
    /\ worker.at = "sending" => worker.left > 0
    /\ unwritten \subseteq {<<worker.mail, "Sent">>}

(* A mail that the worker has not had yet was never tried.                 *)
Untouched(m) == accepted[m] = 0 /\ unheard[m] = 0 /\ ~Logged(m) /\ worker.mail # m

(* What is known of the mail that the worker has.                          *)
HeldOK ==
    LET m == worker.mail IN
    /\ worker.at \in {"sending", "sent"} \/ (worker.at = "failed" /\ unwritten = {}) => ~Logged(m)
    /\ worker.at = "sending" \/ (worker.at = "failed" /\ unwritten = {}) =>
           accepted[m] = unheard[m]
    /\ worker.at = "sent" \/ (worker.at = "failed" /\ unwritten # {}) =>
           accepted[m] = unheard[m] + 1
    /\ <<m, "Failed">> \notin mailLog \/ worker.at = "waiting"

MailOK(m) ==
    /\ accepted[m] <= unheard[m] + 1
    /\ <<m, "Sent">> \in mailLog => accepted[m] > 0
    /\ Logged(m) /\ <<m, "Sent">> \notin mailLog => accepted[m] = unheard[m]
    /\ InQueue(m) \/ m > mailsQueued => Untouched(m)
    /\ m <= mailsQueued => InQueue(m) \/ worker.mail = m \/ Logged(m) \/ m \in mislaid

MailTyped == MailTypeOK /\ QueueInOrder /\ WorkerOK /\ HeldOK
MailInv == MailTyped /\ \A m \in Mail : MailOK(m)

USE DEF Mail, LogStatus, Worker, Waiting, Trouble

(* What RPOP takes and what it leaves.                                     *)
LEMMA Popped ==
    ASSUME MailTypeOK, QueueInOrder, mailQueue # <<>>
    PROVE  /\ AfterPop \in Seq(Mail) /\ Head(mailQueue) \in 1 .. mailsQueued
           /\ Head(mailQueue) \in Mail
           /\ DOMAIN AfterPop = 1 .. Len(mailQueue) - 1 /\ 1 \in DOMAIN mailQueue
           /\ Head(mailQueue) = mailQueue[1]
           /\ \A i \in DOMAIN AfterPop :
                  AfterPop[i] = mailQueue[i + 1] /\ i + 1 \in DOMAIN mailQueue
           /\ \A i \in DOMAIN mailQueue : i = 1 \/ i - 1 \in DOMAIN AfterPop
<1> USE DEF MailTypeOK, QueueInOrder, AfterPop
<1>1. /\ AfterPop \in Seq(Mail) /\ Len(AfterPop) = Len(mailQueue) - 1 /\ Len(mailQueue) \in Nat
      /\ Len(mailQueue) > 0 /\ Head(mailQueue) = mailQueue[1]
  OBVIOUS
<1>2. 1 \in DOMAIN mailQueue /\ DOMAIN AfterPop = 1 .. Len(mailQueue) - 1
  BY <1>1
<1>3. \A i \in DOMAIN AfterPop : AfterPop[i] = mailQueue[i + 1] /\ i + 1 \in DOMAIN mailQueue
  BY <1>1
<1>4. \A i \in DOMAIN mailQueue : i = 1 \/ i - 1 \in DOMAIN AfterPop
  BY <1>1, <1>2
<1>5. Head(mailQueue) \in 1 .. mailsQueued /\ Head(mailQueue) \in Mail
  <2>1. 1 \in DOMAIN mailQueue /\ mailsQueued \in 0 .. MaxQueued
    BY <1>2
  <2>2. mailQueue[1] \in 1 .. mailsQueued
    BY <2>1
  <2> QED  BY <1>1, <2>1, <2>2, MailAssumption
<1> QED  BY <1>1, <1>2, <1>3, <1>4, <1>5

(* The same, said of the mails.                                            *)
LEMMA PoppedMails ==
    ASSUME MailTypeOK, QueueInOrder, mailQueue # <<>>, NEW m \in Mail
    PROVE  (\E i \in DOMAIN AfterPop : AfterPop[i] = m) <=> InQueue(m) /\ m # Head(mailQueue)
<1>1. ASSUME InQueue(m), m # Head(mailQueue)
      PROVE  \E i \in DOMAIN AfterPop : AfterPop[i] = m
  <2>1. PICK i \in DOMAIN mailQueue : mailQueue[i] = m
    BY <1>1 DEF InQueue
  <2>2. i # 1 /\ i - 1 \in DOMAIN AfterPop /\ (i - 1) + 1 = i
    <3>1. i # 1
      BY <1>1, <2>1, Popped
    <3>2. i \in Nat
      BY <2>1, Popped DEF MailTypeOK
    <3> QED  BY <2>1, <3>1, <3>2, Popped
  <2> QED  BY <2>1, <2>2, Popped
<1>2. ASSUME NEW i \in DOMAIN AfterPop, AfterPop[i] = m
      PROVE  InQueue(m) /\ m # Head(mailQueue)
  <2>1. m = mailQueue[i + 1] /\ i + 1 \in DOMAIN mailQueue /\ 1 < i + 1
    BY <1>2, Popped
  <2>2. mailQueue[1] < m /\ mailQueue[1] = Head(mailQueue)
    BY <2>1, Popped DEF QueueInOrder
  <2>3. m # Head(mailQueue)
    BY <2>2
  <2> QED  BY <2>1, <2>3 DEF InQueue
<1> QED  BY <1>1, <1>2

(* The worker's states are typed.                                          *)
LEMMA WaitingTyped == Waiting \in Worker
BY MailAssumption

(* A call of SendGrid always has a try to use up.                          *)
LEMMA NextTryTyped ==
    ASSUME MailTypeOK, WorkerOK, worker.at = "sending", NextMailTry PROVE worker' \in Worker
<1>1. worker.left \in 1 .. MailTries /\ worker.mail \in 0 .. MaxQueued
  BY MailAssumption DEF MailTypeOK, WorkerOK
<1>2. worker.left - 1 \in 0 .. MailTries
  BY <1>1, MailAssumption
<1> QED  BY <1>1, <1>2 DEF NextMailTry, MailTypeOK

(* The queue, the worker and the mail it holds, step by step.              *)
LEMMA MailTypedStep == MailInv /\ [MailNext]_mailVars => MailTyped'
<1> SUFFICES ASSUME MailInv, [MailNext]_mailVars PROVE MailTyped'
    OBVIOUS
<1>0. MailTypeOK /\ QueueInOrder /\ WorkerOK /\ HeldOK /\ \A m \in Mail : MailOK(m)
  BY DEF MailInv, MailTyped
<1> USE DEF MailTyped
<1>1. CASE Enqueue
  <2>0. mailsQueued + 1 \in Mail /\ mailsQueued' = mailsQueued + 1
    BY <1>0, <1>1, MailAssumption DEF Enqueue, MailTypeOK
  <2>1. /\ mailQueue' \in Seq(Mail) /\ Len(mailQueue) \in Nat
        /\ DOMAIN mailQueue' = 1 .. Len(mailQueue) + 1 /\ DOMAIN mailQueue = 1 .. Len(mailQueue)
        /\ mailQueue'[Len(mailQueue) + 1] = mailsQueued + 1
        /\ \A i \in DOMAIN mailQueue : mailQueue'[i] = mailQueue[i]
    BY <1>0, <1>1, <2>0 DEF Enqueue, MailTypeOK
  <2>2. MailTypeOK'
    BY <1>0, <1>1, <2>1, MailAssumption, SMTT(40) DEF Enqueue, MailTypeOK
  <2>3. QueueInOrder'
    <3>1. \A i \in DOMAIN mailQueue' : mailQueue'[i] \in 1 .. mailsQueued'
      BY <1>0, <2>0, <2>1 DEF QueueInOrder, MailTypeOK
    <3>2. ASSUME NEW i \in DOMAIN mailQueue', NEW j \in DOMAIN mailQueue', i < j
          PROVE  mailQueue'[i] < mailQueue'[j]
      <4>1. i \in DOMAIN mailQueue
        BY <2>1, <3>2
      <4>2. CASE j \in DOMAIN mailQueue
        BY <1>0, <2>1, <3>2, <4>1, <4>2 DEF QueueInOrder
      <4>3. CASE j = Len(mailQueue) + 1
        BY <1>0, <2>1, <4>1, <4>3 DEF QueueInOrder, MailTypeOK
      <4> QED  BY <2>1, <4>2, <4>3
    <3> QED  BY <3>1, <3>2 DEF QueueInOrder
  <2>4. WorkerOK' /\ HeldOK'
    BY <1>0, <1>1 DEF Enqueue, WorkerOK, HeldOK, Logged, MailTypeOK
  <2> QED  BY <2>2, <2>3, <2>4
<1>2. CASE Dequeue
  <2>1. MailTypeOK'
    <3>1. mailQueue' \in Seq(Mail) /\ worker' \in Worker
      BY <1>0, <1>2, Popped, MailAssumption DEF Dequeue
    <3> QED  BY <1>0, <1>2, <3>1 DEF Dequeue, MailTypeOK
  <2>2. QueueInOrder'
    BY <1>0, <1>2, Popped DEF Dequeue, QueueInOrder
  <2>3. WorkerOK'
    BY <1>0, <1>2, Popped, MailAssumption DEF Dequeue, WorkerOK
  <2>4. Untouched(Head(mailQueue))
    BY <1>0, <1>2, Popped DEF Dequeue, MailOK, InQueue
  <2>5. HeldOK'
    BY <1>0, <1>2, <2>4 DEF Dequeue, HeldOK, Untouched, Logged, WorkerOK
  <2> QED  BY <2>1, <2>2, <2>3, <2>5
<1>3. CASE DequeueUnheard
  <2>1. MailTypeOK'
    <3>1. mailQueue' \in Seq(Mail) /\ mislaid' \subseteq Mail
      BY <1>0, <1>3, Popped DEF DequeueUnheard, MailTypeOK
    <3> QED  BY <1>0, <1>3, <3>1 DEF DequeueUnheard, MailTypeOK
  <2>2. QueueInOrder'
    BY <1>0, <1>3, Popped DEF DequeueUnheard, QueueInOrder
  <2>3. WorkerOK' /\ HeldOK'
    BY <1>0, <1>3 DEF DequeueUnheard, WorkerOK, HeldOK, Logged
  <2> QED  BY <2>1, <2>2, <2>3
<1>4. CASE AcceptMail
  <2>1. worker.mail \in Mail /\ worker.mail \in 1 .. mailsQueued
    BY <1>0, <1>4 DEF AcceptMail, WorkerOK, MailTypeOK
  <2>2. MailTypeOK'
    <3>1. accepted' \in [Mail -> Nat] /\ worker' \in Worker
      BY <1>0, <1>4, <2>1, SMTT(40) DEF AcceptMail, MailTypeOK
    <3> QED  BY <1>0, <1>4, <3>1, SMTT(40) DEF AcceptMail, MailTypeOK
  <2>3. QueueInOrder' /\ WorkerOK'
    BY <1>0, <1>4 DEF AcceptMail, QueueInOrder, WorkerOK, MailTypeOK
  <2>4. HeldOK'
    BY <1>0, <1>4, <2>1 DEF AcceptMail, HeldOK, MailTypeOK, Logged, WorkerOK
  <2> QED  BY <2>2, <2>3, <2>4
<1>5. CASE AcceptMailUnheard
  <2>0. worker' \in Worker
    BY <1>0, <1>5, NextTryTyped DEF AcceptMailUnheard
  <2>1. worker.mail \in Mail /\ worker.mail \in 1 .. mailsQueued
    BY <1>0, <1>5 DEF AcceptMailUnheard, WorkerOK, MailTypeOK
  <2>2. MailTypeOK'
    <3>1. accepted' \in [Mail -> Nat] /\ unheard' \in [Mail -> Nat] /\ troubles' \in Nat
      BY <1>0, <1>5, <2>1 DEF AcceptMailUnheard, MailTypeOK
    <3> QED  BY <1>0, <1>5, <2>0, <3>1 DEF AcceptMailUnheard, MailTypeOK
  <2>3. QueueInOrder' /\ WorkerOK'
    BY <1>0, <1>5 DEF AcceptMailUnheard, NextMailTry, QueueInOrder, WorkerOK, MailTypeOK
  <2>4. HeldOK'
    BY <1>0, <1>5, <2>1 DEF AcceptMailUnheard, NextMailTry, HeldOK, MailTypeOK, Logged, WorkerOK
  <2> QED  BY <2>2, <2>3, <2>4
<1>6. CASE RefuseMail
  <2>1. worker' \in Worker
    BY <1>0, <1>6, NextTryTyped DEF RefuseMail
  <2>2. MailTypeOK'
    BY <1>0, <1>6, <2>1 DEF RefuseMail, MailTypeOK
  <2>3. QueueInOrder' /\ WorkerOK'
    BY <1>0, <1>6 DEF RefuseMail, NextMailTry, QueueInOrder, WorkerOK, MailTypeOK
  <2>4. HeldOK'
    BY <1>0, <1>6 DEF RefuseMail, NextMailTry, HeldOK, MailTypeOK, Logged, WorkerOK
  <2> QED  BY <2>2, <2>3, <2>4
<1>7. CASE WriteLog
  <2>1. worker.mail \in Mail
    BY <1>0, <1>7 DEF WriteLog, WorkerOK, MailTypeOK
  <2>2. Entries(StatusToLog) \subseteq Mail \X LogStatus
    BY <1>0, <2>1 DEF Entries, StatusToLog, MailTypeOK
  <2>3. MailTypeOK'
    BY <1>0, <1>7, <2>2, MailAssumption, SMTT(40) DEF WriteLog, MailTypeOK
  <2>4. QueueInOrder' /\ WorkerOK' /\ HeldOK'
    BY <1>0, <1>7 DEF WriteLog, QueueInOrder, WorkerOK, HeldOK
  <2> QED  BY <2>3, <2>4
<1>8. CASE WriteLogFails
  <2>1. worker.mail \in Mail /\ worker.mail \in 1 .. mailsQueued
    BY <1>0, <1>8 DEF WriteLogFails, WorkerOK, MailTypeOK
  <2>2. /\ Entries(StatusToLog) \subseteq Mail \X LogStatus
        /\ Entries("Sent") \subseteq Mail \X LogStatus
    BY <1>0, <2>1 DEF Entries, StatusToLog, MailTypeOK
  <2>3. mailLog' \subseteq Mail \X LogStatus
    BY <1>0, <1>8, <2>2 DEF WriteLogFails, MailTypeOK
  <2>4. CASE worker.at = "sent"
    <3>1. /\ worker' = [worker EXCEPT !.at = "failed"] /\ unwritten' = Entries("Sent")
          /\ UNCHANGED <<mailQueue, mailsQueued, accepted, unheard, mislaid>>
      BY <1>8, <2>4 DEF WriteLogFails
    <3>2. troubles' \in Nat
      BY <1>0, <1>8 DEF WriteLogFails, MailTypeOK
    <3>3. worker' \in Worker /\ worker'.at = "failed" /\ worker'.mail = worker.mail
      BY <1>0, <3>1 DEF MailTypeOK
    <3>4. unwritten = {} /\ unwritten' = {<<worker.mail, "Sent">>}
      BY <1>0, <2>4, <3>1 DEF WorkerOK, Entries
    <3>5. MailTypeOK' /\ QueueInOrder'
      BY <1>0, <2>2, <2>3, <3>1, <3>2, <3>3 DEF MailTypeOK, QueueInOrder
    <3>6. WorkerOK'
      BY <1>0, <2>1, <3>1, <3>3, <3>4 DEF WorkerOK
    <3>7. mailLog' \subseteq mailLog \cup {<<worker.mail, "Sent">>}
      BY <1>8, <2>4, <3>4 DEF WriteLogFails, Entries, StatusToLog
    <3>8. HeldOK'
      BY <1>0, <2>1, <2>4, <3>1, <3>3, <3>4, <3>7 DEF HeldOK
    <3> QED  BY <3>5, <3>6, <3>8
  <2>5. CASE worker.at = "failed"
    <3>1. /\ worker' = Waiting /\ unwritten' = {} /\ mislaid' = mislaid \cup {worker.mail}
          /\ UNCHANGED <<mailQueue, mailsQueued, accepted, unheard>>
      BY <1>8, <2>5 DEF WriteLogFails
    <3>2. troubles' \in Nat
      BY <1>0, <1>8 DEF WriteLogFails, MailTypeOK
    <3>3. MailTypeOK' /\ QueueInOrder'
      BY <1>0, <2>1, <2>3, <3>1, <3>2, WaitingTyped DEF MailTypeOK, QueueInOrder
    <3>4. WorkerOK' /\ HeldOK'
      BY <3>1 DEF WorkerOK, HeldOK
    <3> QED  BY <3>3, <3>4
  <2> QED  BY <1>8, <2>4, <2>5 DEF WriteLogFails
<1>9. CASE WorkerEnds
  <2>0. worker.mail \in Mail
    BY <1>0, <1>9 DEF WorkerEnds, WorkerOK, MailTypeOK
  <2>1. MailTypeOK'
    <3>1. worker' \in Worker /\ mislaid' \subseteq Mail
      BY <1>0, <1>9, <2>0, WaitingTyped DEF WorkerEnds, MailTypeOK
    <3>2. troubles' \in Nat
      BY <1>0, <1>9 DEF WorkerEnds, MailTypeOK
    <3> QED  BY <1>0, <1>9, <3>1, <3>2 DEF WorkerEnds, MailTypeOK
  <2>2. QueueInOrder' /\ WorkerOK' /\ HeldOK'
    BY <1>0, <1>9 DEF WorkerEnds, QueueInOrder, WorkerOK, HeldOK
  <2> QED  BY <2>1, <2>2
<1>10. CASE UNCHANGED mailVars
  BY <1>0, <1>10 DEF mailVars, MailTypeOK, QueueInOrder, WorkerOK, HeldOK, Logged
<1> QED
  BY <1>1, <1>2, <1>3, <1>4, <1>5, <1>6, <1>7, <1>8, <1>9, <1>10 DEF MailNext

(* The entries that a logged mail has.                                     *)
LEMMA LoggedAs ==
    ASSUME NEW m
    PROVE  Logged(m) <=> <<m, "Sent">> \in mailLog \/ <<m, "Failed">> \in mailLog
BY DEF Logged

(* No step takes what is known of a mail away.                             *)
LEMMA MailStep ==
    ASSUME MailInv, [MailNext]_mailVars, NEW m \in Mail PROVE MailOK(m)'
<1>0. MailTypeOK /\ QueueInOrder /\ WorkerOK /\ HeldOK /\ MailOK(m)
  BY DEF MailInv, MailTyped
<1>t. accepted[m] \in Nat /\ unheard[m] \in Nat /\ mailsQueued \in Nat /\ m \in Nat
  BY <1>0, MailAssumption DEF MailTypeOK
<1> USE DEF MailOK, Untouched
<1>1. CASE Enqueue
  <2>1. /\ mailsQueued' = mailsQueued + 1 /\ worker' = worker /\ mislaid' = mislaid
        /\ accepted' = accepted /\ unheard' = unheard /\ Logged(m)' = Logged(m)
        /\ mailLog' = mailLog
    BY <1>1 DEF Enqueue, Logged
  <2>2. InQueue(m)' <=> InQueue(m) \/ m = mailsQueued + 1
    <3>0. mailsQueued + 1 \in Mail
      BY <1>0, <1>1, MailAssumption DEF Enqueue, MailTypeOK
    <3>1. /\ Len(mailQueue) \in Nat /\ DOMAIN mailQueue = 1 .. Len(mailQueue)
          /\ DOMAIN mailQueue' = 1 .. Len(mailQueue) + 1
          /\ mailQueue'[Len(mailQueue) + 1] = mailsQueued + 1
          /\ \A i \in DOMAIN mailQueue : mailQueue'[i] = mailQueue[i]
      BY <1>0, <1>1, <3>0 DEF Enqueue, MailTypeOK
    <3> QED  BY <3>1 DEF InQueue
  <2> QED  BY <1>0, <1>t, <2>1, <2>2
<1>2. CASE Dequeue
  <2>1. InQueue(m)' <=> InQueue(m) /\ m # Head(mailQueue)
    BY <1>0, <1>2, PoppedMails DEF Dequeue, InQueue
  <2>2. /\ worker'.mail = Head(mailQueue) /\ worker.mail = 0 /\ m # 0
        /\ UNCHANGED <<mailsQueued, mailLog, accepted, unheard, mislaid>>
        /\ Logged(m)' = Logged(m) /\ Head(mailQueue) \in 1 .. mailsQueued
    BY <1>0, <1>2, Popped DEF Dequeue, Logged
  <2> QED  BY <1>0, <1>t, <2>1, <2>2
<1>3. CASE DequeueUnheard
  <2>1. InQueue(m)' <=> InQueue(m) /\ m # Head(mailQueue)
    BY <1>0, <1>3, PoppedMails DEF DequeueUnheard, InQueue
  <2>2. /\ UNCHANGED <<mailsQueued, worker, mailLog, accepted, unheard>>
        /\ Logged(m)' = Logged(m) /\ mislaid' = mislaid \cup {Head(mailQueue)}
    BY <1>3 DEF DequeueUnheard, Logged
  <2> QED  BY <1>0, <1>t, <2>1, <2>2
<1>4. CASE AcceptMail
  <2>1. /\ worker'.mail = worker.mail /\ accepted' = [accepted EXCEPT ![worker.mail] = @ + 1]
        /\ UNCHANGED <<mailQueue, mailsQueued, mailLog, unheard, mislaid>>
        /\ Logged(m)' = Logged(m) /\ InQueue(m)' = InQueue(m) /\ worker.at = "sending"
    BY <1>0, <1>4 DEF AcceptMail, MailTypeOK, Logged, InQueue
  <2>2. accepted'[m] = IF m = worker.mail THEN accepted[m] + 1 ELSE accepted[m]
    BY <1>0, <2>1 DEF MailTypeOK
  <2>3. m = worker.mail => accepted[m] = unheard[m] /\ ~Logged(m)
    BY <1>0, <2>1 DEF HeldOK
  <2> QED  BY <1>0, <1>t, <2>1, <2>2, <2>3, LoggedAs
<1>5. CASE AcceptMailUnheard
  <2>1. /\ worker'.mail = worker.mail /\ accepted' = [accepted EXCEPT ![worker.mail] = @ + 1]
        /\ unheard' = [unheard EXCEPT ![worker.mail] = @ + 1]
        /\ UNCHANGED <<mailQueue, mailsQueued, mailLog, mislaid>>
        /\ Logged(m)' = Logged(m) /\ InQueue(m)' = InQueue(m) /\ worker.at = "sending"
    BY <1>0, <1>5 DEF AcceptMailUnheard, NextMailTry, MailTypeOK, Logged, InQueue
  <2>2. /\ accepted'[m] = IF m = worker.mail THEN accepted[m] + 1 ELSE accepted[m]
        /\ unheard'[m] = IF m = worker.mail THEN unheard[m] + 1 ELSE unheard[m]
    BY <1>0, <2>1 DEF MailTypeOK
  <2>3. m = worker.mail => accepted[m] = unheard[m] /\ ~Logged(m)
    BY <1>0, <2>1 DEF HeldOK
  <2> QED  BY <1>0, <1>t, <2>1, <2>2, <2>3, LoggedAs
<1>6. CASE RefuseMail
  <2>1. /\ worker'.mail = worker.mail
        /\ UNCHANGED <<mailQueue, mailsQueued, mailLog, accepted, unheard, mislaid>>
        /\ Logged(m)' = Logged(m) /\ InQueue(m)' = InQueue(m)
    BY <1>0, <1>6 DEF RefuseMail, NextMailTry, MailTypeOK, Logged, InQueue
  <2> QED  BY <1>0, <1>t, <2>1
<1>7. CASE WriteLog
  <2>1. /\ mailLog' = mailLog \cup unwritten \cup {<<worker.mail, StatusToLog>>}
        /\ worker'.mail = 0 /\ unwritten \subseteq {<<worker.mail, "Sent">>}
        /\ UNCHANGED <<mailQueue, mailsQueued, accepted, unheard, mislaid>>
        /\ InQueue(m)' = InQueue(m) /\ worker.at \in {"sent", "failed"}
        /\ worker.mail \in 1 .. mailsQueued
    BY <1>0, <1>7 DEF WriteLog, Entries, WorkerOK, InQueue
  <2>2. CASE m # worker.mail
    <3>1. \A s \in LogStatus : <<m, s>> \in mailLog' <=> <<m, s>> \in mailLog
      BY <2>1, <2>2
    <3>2. Logged(m)' = Logged(m)
      BY <3>1 DEF Logged
    <3> QED  BY <1>0, <1>t, <2>1, <2>2, <3>1, <3>2
  <2>3. CASE m = worker.mail
    <3>1. Logged(m)' /\ ~InQueue(m) /\ m <= mailsQueued
      BY <1>0, <2>1, <2>3 DEF Logged, StatusToLog
    <3>2. <<m, "Sent">> \in mailLog' => accepted[m] > 0
      BY <1>0, <1>t, <2>1, <2>3 DEF HeldOK, StatusToLog
    <3>3. <<m, "Sent">> \notin mailLog' => accepted[m] = unheard[m]
      BY <1>0, <2>1, <2>3 DEF HeldOK, StatusToLog
    <3> QED  BY <1>0, <1>t, <2>1, <3>1, <3>2, <3>3
  <2> QED  BY <2>2, <2>3
<1>8. CASE WriteLogFails
  <2>1. /\ mailLog' \subseteq mailLog \cup unwritten \cup {<<worker.mail, StatusToLog>>}
        /\ mailLog \subseteq mailLog' /\ unwritten \subseteq {<<worker.mail, "Sent">>}
        /\ UNCHANGED <<mailQueue, mailsQueued, accepted, unheard>>
        /\ InQueue(m)' = InQueue(m) /\ worker.at \in {"sent", "failed"}
        /\ worker.mail \in 1 .. mailsQueued
    BY <1>0, <1>8 DEF WriteLogFails, Entries, WorkerOK, InQueue
  <2>2. /\ worker.at = "sent" => worker'.mail = worker.mail /\ mislaid' = mislaid
        /\ worker.at = "failed" => worker'.mail = 0 /\ mislaid' = mislaid \cup {worker.mail}
    BY <1>0, <1>8 DEF WriteLogFails, MailTypeOK
  <2>3. CASE m # worker.mail
    <3>1. \A s \in LogStatus : <<m, s>> \in mailLog' <=> <<m, s>> \in mailLog
      BY <2>1, <2>3
    <3>2. Logged(m)' = Logged(m)
      BY <3>1 DEF Logged
    <3> QED  BY <1>0, <1>t, <2>1, <2>2, <2>3, <3>1, <3>2
  <2>4. CASE m = worker.mail
    <3>1. ~InQueue(m) /\ m <= mailsQueued
      BY <1>0, <2>1, <2>4
    <3>2. <<m, "Sent">> \in mailLog' => accepted[m] > 0
      BY <1>0, <1>t, <2>1, <2>4 DEF HeldOK, StatusToLog
    <3>3. Logged(m)' /\ <<m, "Sent">> \notin mailLog' => accepted[m] = unheard[m]
      BY <1>0, <1>8, <2>1, <2>4, LoggedAs DEF HeldOK, StatusToLog, WriteLogFails, Logged, Entries
    <3> QED  BY <1>0, <1>t, <2>1, <2>2, <2>4, <3>1, <3>2, <3>3
  <2> QED  BY <2>3, <2>4
<1>9. CASE WorkerEnds
  <2>1. /\ worker'.mail = 0 /\ mislaid' = mislaid \cup {worker.mail}
        /\ UNCHANGED <<mailQueue, mailsQueued, mailLog, accepted, unheard>>
        /\ Logged(m)' = Logged(m) /\ InQueue(m)' = InQueue(m)
    BY <1>9 DEF WorkerEnds, Logged, InQueue
  <2> QED  BY <1>0, <1>t, <2>1
<1>10. CASE UNCHANGED mailVars
  BY <1>0, <1>10 DEF mailVars, Logged, InQueue
<1> QED
  BY <1>1, <1>2, <1>3, <1>4, <1>5, <1>6, <1>7, <1>8, <1>9, <1>10 DEF MailNext

(* The invariant of the mail queue.                                        *)
THEOREM MailInvariant == MailSpec => []MailInv
<1>1. ASSUME MailInit PROVE MailInv
  <2>1. MailTypeOK
    BY <1>1, WaitingTyped, MailAssumption DEF MailInit, MailTypeOK
  <2>2. QueueInOrder /\ WorkerOK /\ HeldOK
    BY <1>1 DEF MailInit, QueueInOrder, WorkerOK, HeldOK
  <2>3. ASSUME NEW m \in Mail PROVE MailOK(m)
    BY <1>1 DEF MailInit, MailOK, Untouched, Logged, InQueue
  <2> QED  BY <2>1, <2>2, <2>3 DEF MailInv, MailTyped
<1>2. MailInv /\ [MailNext]_mailVars => MailInv'
  BY MailTypedStep, MailStep DEF MailInv
<1> QED  BY <1>1, <1>2, PTL DEF MailSpec

(* The queue and its worker are typed as they should be.                   *)
THEOREM MailTypeCorrect == MailSpec => []MailTypeOK
<1>1. MailInv => MailTypeOK
  BY DEF MailInv, MailTyped
<1> QED  BY <1>1, MailInvariant, PTL

(* No mail is lost, sent again or logged as what it was not but for the    *)
(* failures that are named, however many mails, retries and restarts.      *)
THEOREM MailsAccounted == MailSpec => []MailsAreAccounted
<1>1. ASSUME MailInv PROVE MailsAreAccounted
  <2>1. \A m \in 1 .. mailsQueued : m \in Mail
    BY <1>1, MailAssumption DEF MailInv, MailTyped, MailTypeOK
  <2>2. ASSUME NEW m \in 1 .. mailsQueued PROVE MailOK(m) /\ m <= mailsQueued
    BY <1>1, <2>1 DEF MailInv
  <2> QED  BY <2>2 DEF MailOK, MailsAreAccounted, InQueue
<1> QED  BY <1>1, MailInvariant, PTL

-----------------------------------------------------------------------------
(* In the composition each part behaves as its own module says, ...        *)
LEMMA ReservationPartsAsSpecified == MCSpec => Spec /\ RemindersSpec /\ MailSpec
<1>1. MCInit => Init /\ RemindersInit /\ MailInit
  BY DEF MCInit
<1>2. [MCNext]_<<part, vars, reminderVars, mailVars>> =>
          [Next]_vars /\ [RemindersNext]_reminderVars /\ [MailNext]_mailVars
  BY DEF MCNext
<1> QED  BY <1>1, <1>2, PTL DEF MCSpec, Spec, RemindersSpec, MailSpec

(* ... so what was proved of the status, of the reminders and of the mails *)
(* holds of all that becomes of a reservation.                             *)
THEOREM ReservationsAreSound ==
    MCSpec => /\ [](LogIsTrue /\ VisitsAreLogged /\ RemindedOnce /\ MailsAreAccounted)
              /\ ConfirmedStaysEnded
BY ReservationPartsAsSpecified, StatusLogTrue, VisitsAccounted, RemindedOnceAlways,
   MailsAccounted, ConfirmedRowsStayEnded, PTL
=============================================================================

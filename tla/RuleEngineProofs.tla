-------------------------- MODULE RuleEngineProofs --------------------------
(***************************************************************************)
(* The cached list and the counters, for any number of rules, requests and *)
(* commands of the owner.                                                  *)
(***************************************************************************)
EXTENDS RuleEngine, FiniteSetTheorems, TLAPS

(* A rule in a list, being evaluated, or triggered has been created.       *)
RulesExist ==
    \A r \in Rules : status[r] = "none" =>
        /\ r \notin cache
        /\ \A q \in Requests : r \notin req[q].held /\ r \notin req[q].outcome

(* What a request has still to write of a counter is at least one.         *)
WritesCount == \A q \in Requests : \A r \in req[q].dirty : req[q].tracked[r] > 0

(* A booking about to be saved carries a count of each rule it triggered.  *)
SavesCount ==
    \A q \in Requests : pc[q] = "saving" /\ req[q].kind = "booking" =>
        \A r \in req[q].outcome : r \in req[q].dirty \/ status[r] = "deleted"

RuleInv ==
    /\ TypeOK /\ StaleHasAReason /\ RulesExist
    /\ WritesCount /\ SavesCount /\ BookedRulesAreCounted

LEMMA RuleInit == Init => RuleInv
<1> SUFFICES ASSUME Init PROVE RuleInv
  OBVIOUS
<1>1. NoRequest \in Request
  BY DEF NoRequest, Request, Kinds
<1>2. TypeOK
  BY <1>1 DEF Init, TypeOK, Kept
<1> QED
  BY <1>2 DEF Init, RuleInv, StaleHasAReason, RulesExist, WritesCount, SavesCount,
              BookedRulesAreCounted, NoRequest

-----------------------------------------------------------------------------
(* Commands of the owner.                                                  *)

LEMMA CommitStep ==
    ASSUME RuleInv, NEW e \in Edits, NEW r \in Rules, NEW s \in Kept \cup {"deleted"},
           Commit(e, r, s), status[r] # "deleted"
    PROVE  RuleInv'
<1> USE DEF RuleInv, Commit
<1>1. TypeOK'
  BY DEF TypeOK
<1>2. StaleHasAReason'
  BY DEF TypeOK, StaleHasAReason
<1>3. RulesExist' /\ WritesCount'
  BY DEF TypeOK, RulesExist, WritesCount, Kept
<1>4. SavesCount' /\ BookedRulesAreCounted'
  BY DEF TypeOK, SavesCount, BookedRulesAreCounted
<1> QED
  BY <1>1, <1>2, <1>3, <1>4

LEMMA ChangeStep == ASSUME RuleInv, NEW e \in Edits, Change(e) PROVE RuleInv'
<1>1. PICK r \in Rules : \/ CreateRule(e, r) \/ UpdateRule(e, r) \/ ToggleRule(e, r)
                         \/ DeleteRule(e, r) \/ ReorderRules(e, r)
  BY DEF Change
<1>2. PICK s \in Kept \cup {"deleted"} : Commit(e, r, s)
  BY <1>1 DEF CreateRule, UpdateRule, ToggleRule, DeleteRule, ReorderRules, Kept
<1>3. status[r] # "deleted"
  BY <1>1 DEF CreateRule, UpdateRule, ToggleRule, DeleteRule, ReorderRules, Kept
<1> QED
  BY <1>2, <1>3, CommitStep

LEMMA DropStep ==
    ASSUME RuleInv, NEW e \in Edits, Drop(e)
    PROVE  RuleInv'
<1> USE DEF RuleInv, Drop, Invalidate, InvalidateFails, ClearCache
<1>1. TypeOK'
  BY DEF TypeOK
<1>2. StaleHasAReason' /\ RulesExist'
  BY DEF StaleHasAReason, RulesExist
<1>3. WritesCount' /\ SavesCount' /\ BookedRulesAreCounted'
  BY DEF WritesCount, SavesCount, BookedRulesAreCounted
<1> QED
  BY <1>1, <1>2, <1>3

-----------------------------------------------------------------------------
(* Requests.                                                               *)

(* The request's own part of the invariant, for what it holds (h) at l.    *)
Fits(l, h) ==
    /\ \A r \in Rules : status[r] = "none" => r \notin h.held /\ r \notin h.outcome
    /\ \A r \in h.dirty : h.tracked[r] > 0
    /\ l = "saving" /\ h.kind = "booking" =>
          \A r \in h.outcome : r \in h.dirty \/ status[r] = "deleted"

Labels == {"unsent", "lookingUp", "querying", "filling", "evaluating", "counting",
           "countSaving", "recounting", "saving", "ended", "booked"}

(* A step of q that writes a list no worse than StaleHasAReason allows and *)
(* loses no counter altogether.                                            *)
LEMMA RequestStep ==
    ASSUME RuleInv, NEW q \in Requests, NEW l \in Labels, NEW h \in Request,
           pc' = [pc EXCEPT ![q] = l], req' = [req EXCEPT ![q] = h], Fits(l, h),
           UNCHANGED <<status, edit>>,
           cache' \subseteq Rules, late' \in BOOLEAN, StaleHasAReason',
           \A r \in Rules : status[r] = "none" => r \notin cache',
           timesTriggered' \in [Rules -> Nat],
           \A r \in Rules : timesTriggered[r] > 0 => timesTriggered'[r] > 0,
           l = "booked" /\ h.kind = "booking" =>
              \A r \in h.outcome : timesTriggered'[r] > 0 \/ status[r] = "deleted"
    PROVE  RuleInv'
<1> USE DEF RuleInv
<1>1. TypeOK'
  BY DEF TypeOK, Labels
<1>2. RulesExist'
  BY DEF TypeOK, RulesExist, Fits
<1>3. WritesCount'
  BY DEF TypeOK, WritesCount, Fits
<1>4. SavesCount'
  BY DEF TypeOK, SavesCount, Fits
<1>5. BookedRulesAreCounted'
  <2> SUFFICES ASSUME NEW p \in Requests, pc'[p] = "booked", req'[p].kind = "booking",
                      NEW r \in req'[p].outcome
               PROVE  timesTriggered'[r] > 0 \/ status'[r] = "deleted"
    BY DEF BookedRulesAreCounted
  <2>1. CASE p = q
    BY <2>1 DEF TypeOK
  <2>2. CASE p # q
    <3>1. pc[p] = "booked" /\ req[p].kind = "booking" /\ r \in req[p].outcome
      BY <2>2 DEF TypeOK
    <3>2. r \in Rules
      BY <3>1 DEF TypeOK, Request
    <3> QED
      BY <3>1, <3>2 DEF BookedRulesAreCounted
  <2> QED
    BY <2>1, <2>2
<1> QED
  BY <1>1, <1>2, <1>3, <1>4, <1>5

(* A step of q that leaves the counters and the list alone.                *)
LEMMA QuietStep ==
    ASSUME RuleInv, NEW q \in Requests, NEW l \in Labels \ {"booked"}, NEW h \in Request,
           pc' = [pc EXCEPT ![q] = l], req' = [req EXCEPT ![q] = h], Fits(l, h),
           UNCHANGED <<status, cache, late, timesTriggered, edit>>
    PROVE  RuleInv'
<1>1. StaleHasAReason'
  BY DEF RuleInv, StaleHasAReason, Active
<1>2. /\ cache' \subseteq Rules /\ late' \in BOOLEAN
      /\ timesTriggered' \in [Rules -> Nat]
      /\ \A r \in Rules : status[r] = "none" => r \notin cache'
  BY DEF RuleInv, TypeOK, RulesExist
<1> QED
  BY <1>1, <1>2, RequestStep

LEMMA ForgottenFits ==
    ASSUME RuleInv, NEW q \in Requests
    PROVE  Forgotten(q) \in Request /\ Fits("ended", Forgotten(q))
<1>1. req[q] \in Request
  BY DEF RuleInv, TypeOK
<1>2. Forgotten(q) \in Request
  BY <1>1 DEF Forgotten, Request
<1>3. Fits("ended", Forgotten(q))
  BY DEF Fits, Forgotten, RuleInv, RulesExist
<1> QED
  BY <1>2, <1>3

(* Whatever the request goes on with after the pipeline.                   *)
LEMMA AfterPipelineFits ==
    ASSUME RuleInv, NEW q \in Requests, NEW h \in Request, Fits("recounting", h),
           AfterPipeline(q, h)
    PROVE  \E l \in Labels \ {"booked"}, k \in Request :
              pc' = [pc EXCEPT ![q] = l] /\ req' = [req EXCEPT ![q] = k] /\ Fits(l, k)
<1>1. CASE h.kind = "preview" \/ h.outcome \cap Blocking # {}
  BY <1>1, ForgottenFits DEF AfterPipeline, Goto, Labels
<1>2. CASE ~(h.kind = "preview" \/ h.outcome \cap Blocking # {})
  <2> DEFINE l == IF h.kind = "booking" /\ h.outcome # {} THEN "recounting" ELSE "saving"
  <2>1. pc' = [pc EXCEPT ![q] = l] /\ req' = [req EXCEPT ![q] = h]
    BY <1>2 DEF AfterPipeline, Goto
  <2>2. Fits(l, h)
    BY DEF Fits
  <2>3. l \in Labels \ {"booked"}
    BY DEF Labels
  <2> QED
    BY <2>1, <2>2, <2>3
<1> QED
  BY <1>1, <1>2

(* What a request holds, as the invariant has it.                          *)
LEMMA HeldFits ==
    ASSUME RuleInv, NEW q \in Requests
    PROVE  /\ req[q] \in Request
           /\ Fits("recounting", req[q])
           /\ [req[q] EXCEPT !.held = {}] \in Request
           /\ Fits("recounting", [req[q] EXCEPT !.held = {}])
           /\ [req[q] EXCEPT !.dirty = {}] \in Request
           /\ Fits("recounting", [req[q] EXCEPT !.dirty = {}])
<1>1. req[q] \in Request
  BY DEF RuleInv, TypeOK
<1>2. Fits("recounting", req[q])
  BY DEF RuleInv, RulesExist, WritesCount, Fits
<1> QED
  BY <1>1, <1>2 DEF Request, Fits

(* A request that reads: the list, the table, its rules.                   *)
LEMMA ReadStep ==
    ASSUME RuleInv, NEW q \in Requests,
           \/ Arrive(q) \/ FindInCache(q) \/ MissInCache(q) \/ QueryRules(q)
    PROVE  RuleInv'
<1>1. req[q] \in Request /\ Fits("recounting", req[q])
  BY HeldFits
<1>2. req \in [Requests -> Request] /\ cache \subseteq Rules
  BY DEF RuleInv, TypeOK
<1>3. CASE Arrive(q)
  <2>1. PICK kind \in Kinds : req' = [req EXCEPT ![q].kind = kind]
    BY <1>3 DEF Arrive
  <2> DEFINE h == [req[q] EXCEPT !.kind = kind]
  <2>2. h \in Request /\ Fits("lookingUp", h)
    BY <1>1 DEF Request, Fits
  <2>3. req' = [req EXCEPT ![q] = h]
    BY <2>1, <1>2
  <2> QED
    BY <1>3, <2>2, <2>3, QuietStep DEF Arrive, Goto, Labels
<1>4. CASE FindInCache(q)
  <2> DEFINE h == [req[q] EXCEPT !.held = cache]
  <2>1. h \in Request /\ Fits("evaluating", h)
    BY <1>1, <1>2 DEF Request, Fits, RuleInv, RulesExist
  <2>2. req' = [req EXCEPT ![q] = h]
    BY <1>4, <1>2 DEF FindInCache
  <2> QED
    BY <1>4, <2>1, <2>2, QuietStep DEF FindInCache, Goto, Labels
<1>5. CASE MissInCache(q)
  <2>1. Fits("querying", req[q])
    BY <1>1 DEF Fits
  <2>2. req' = [req EXCEPT ![q] = req[q]]
    BY <1>5, <1>2 DEF MissInCache
  <2> QED
    BY <1>1, <1>5, <2>1, <2>2, QuietStep DEF MissInCache, Goto, Labels
<1>6. CASE QueryRules(q)
  <2> DEFINE h == [req[q] EXCEPT !.held = Active]
             l == IF Active = {} THEN "evaluating" ELSE "filling"
  <2>1. h \in Request /\ Fits(l, h)
    BY <1>1 DEF Request, Fits, Active
  <2>2. req' = [req EXCEPT ![q] = h] /\ pc' = [pc EXCEPT ![q] = l]
    BY <1>6, <1>2 DEF QueryRules, Goto
  <2>3. l \in Labels \ {"booked"}
    BY DEF Labels
  <2> QED
    BY <1>6, <2>1, <2>2, <2>3, QuietStep DEF QueryRules
<1> QED
  BY <1>3, <1>4, <1>5, <1>6

(* A list that is written late says so.                                    *)
LEMMA WriteCacheFits ==
    ASSUME RuleInv, NEW q \in Requests, UNCHANGED <<status, edit>>,
           WriteCache(q) \/ UNCHANGED <<cache, late>>
    PROVE  /\ cache' \subseteq Rules /\ late' \in BOOLEAN /\ StaleHasAReason'
           /\ \A r \in Rules : status[r] = "none" => r \notin cache'
<1>1. CASE WriteCache(q)
  <2>1. req[q].held \subseteq Rules
    BY DEF RuleInv, TypeOK, Request
  <2> QED
    BY <1>1, <2>1 DEF WriteCache, RuleInv, RulesExist, StaleHasAReason, Active
<1>2. CASE UNCHANGED <<cache, late>>
  BY <1>2 DEF RuleInv, TypeOK, RulesExist, StaleHasAReason, Active
<1> QED
  BY <1>1, <1>2

LEMMA FillStep ==
    ASSUME RuleInv, NEW q \in Requests, FillCache(q) \/ FailOpen(q)
    PROVE  RuleInv'
<1>1. /\ cache' \subseteq Rules /\ late' \in BOOLEAN /\ StaleHasAReason'
      /\ \A r \in Rules : status[r] = "none" => r \notin cache'
  BY WriteCacheFits DEF FillCache, FailOpen
<1>2. UNCHANGED <<status, timesTriggered, edit>>
  BY DEF FillCache, FailOpen
<1>3. timesTriggered' \in [Rules -> Nat]
  BY <1>2 DEF RuleInv, TypeOK
<1>4. CASE FillCache(q)
  <2>1. req' = [req EXCEPT ![q] = req[q]] /\ pc' = [pc EXCEPT ![q] = "evaluating"]
    BY <1>4 DEF FillCache, Goto, RuleInv, TypeOK
  <2>2. req[q] \in Request /\ Fits("evaluating", req[q])
    BY HeldFits DEF Fits
  <2> QED
    BY <1>1, <1>2, <1>3, <2>1, <2>2, RequestStep DEF Labels
<1>5. CASE FailOpen(q)
  <2>1. PICK l \in Labels \ {"booked"}, k \in Request :
           pc' = [pc EXCEPT ![q] = l] /\ req' = [req EXCEPT ![q] = k] /\ Fits(l, k)
    BY <1>5, HeldFits, AfterPipelineFits DEF FailOpen
  <2> QED
    BY <1>1, <1>2, <1>3, <2>1, RequestStep
<1> QED
  BY <1>4, <1>5

LEMMA EvaluateStep == ASSUME RuleInv, NEW q \in Requests, Evaluate(q) PROVE RuleInv'
<1>1. UNCHANGED <<status, cache, late, timesTriggered, edit>>
  BY DEF Evaluate
<1>2. PICK outcome \in SUBSET req[q].held :
         IF outcome = {}
         THEN AfterPipeline(q, [req[q] EXCEPT !.held = {}])
         ELSE /\ Goto(q, "counting")
              /\ req' = [req EXCEPT ![q].outcome = outcome, ![q].held = {}]
  BY DEF Evaluate
<1>3. CASE outcome = {}
  <2>1. PICK l \in Labels \ {"booked"}, k \in Request :
           pc' = [pc EXCEPT ![q] = l] /\ req' = [req EXCEPT ![q] = k] /\ Fits(l, k)
    BY <1>2, <1>3, HeldFits, AfterPipelineFits
  <2> QED
    BY <1>1, <2>1, QuietStep
<1>4. CASE outcome # {}
  <2> DEFINE h == [req[q] EXCEPT !.outcome = outcome, !.held = {}]
  <2>1. h \in Request /\ Fits("counting", h)
    <3>1. req[q] \in Request /\ Fits("recounting", req[q])
      BY HeldFits
    <3>2. req[q].held \subseteq Rules /\ outcome \subseteq req[q].held
      BY <1>2, <3>1 DEF Request
    <3>3. h \in Request
      BY <3>1, <3>2 DEF Request
    <3>4. /\ h.held = {} /\ h.outcome = outcome
          /\ h.tracked = req[q].tracked /\ h.dirty = req[q].dirty
      BY <3>1 DEF Request
    <3>5. /\ \A r \in Rules : status[r] = "none" => r \notin req[q].held
          /\ \A r \in req[q].dirty : req[q].tracked[r] > 0
      BY <3>1 DEF Fits
    <3> HIDE DEF h
    <3>6. \A r \in Rules : status[r] = "none" => r \notin h.held /\ r \notin h.outcome
      BY <3>2, <3>4, <3>5
    <3>7. \A r \in h.dirty : h.tracked[r] > 0
      BY <3>4, <3>5
    <3> QED
      BY <3>3, <3>6, <3>7 DEF Fits
  <2>2. req' = [req EXCEPT ![q] = h] /\ pc' = [pc EXCEPT ![q] = "counting"]
    BY <1>2, <1>4 DEF Goto, RuleInv, TypeOK
  <2> QED
    BY <1>1, <2>1, <2>2, QuietStep DEF Labels
<1> QED
  BY <1>3, <1>4

(* Loaded and incremented, every rule that triggered is due for writing,   *)
(* unless it was deleted.                                                  *)
LEMMA IncrementFits ==
    ASSUME RuleInv, NEW q \in Requests, Increment(q)
    PROVE  \E h \in Request :
              /\ req' = [req EXCEPT ![q] = h]
              /\ \A l \in Labels : Fits(l, h)
<1> DEFINE counts == [r \in Rules |->
              IF r \notin Found(q) THEN req[q].tracked[r]
              ELSE IF req[q].tracked[r] # 0 THEN req[q].tracked[r] + 1
              ELSE timesTriggered[r] + 1]
           h == [req[q] EXCEPT !.tracked = counts, !.dirty = @ \cup Found(q)]
<1>1. req[q] \in Request /\ Fits("recounting", req[q])
  BY HeldFits
<1>2. req[q].tracked \in [Rules -> Nat] /\ req[q].outcome \subseteq Rules
      /\ req[q].dirty \subseteq Rules
  BY <1>1 DEF Request
<1>3. timesTriggered \in [Rules -> Nat]
  BY DEF RuleInv, TypeOK
<1>4. counts \in [Rules -> Nat]
  BY <1>2, <1>3
<1>5. Found(q) \subseteq Rules
  BY <1>2 DEF Found
<1>6. h \in Request
  BY <1>1, <1>4, <1>5 DEF Request
<1>7. req' = [req EXCEPT ![q] = h]
  BY DEF Increment, RuleInv, TypeOK
<1>8. h.tracked = counts /\ h.dirty = req[q].dirty \cup Found(q)
      /\ h.outcome = req[q].outcome /\ h.held = req[q].held
  BY <1>1 DEF Request
<1>9. \A r \in h.dirty : h.tracked[r] > 0
  <2> SUFFICES ASSUME NEW r \in h.dirty PROVE counts[r] > 0
    BY <1>8
  <2>1. r \in Rules
    BY <1>2, <1>5, <1>8
  <2>2. CASE r \in Found(q)
    BY <2>1, <2>2, <1>2, <1>3
  <2>3. CASE r \notin Found(q)
    BY <2>1, <2>3, <1>1, <1>8 DEF Fits
  <2> QED
    BY <2>2, <2>3
<1>10. \A r \in h.outcome : r \in h.dirty \/ status[r] = "deleted"
  BY <1>1, <1>2, <1>8 DEF Found, Fits, RuleInv, TypeOK, Kept
<1>11. \A l \in Labels : Fits(l, h)
  BY <1>1, <1>8, <1>9, <1>10 DEF Fits
<1> QED
  BY <1>6, <1>7, <1>11

LEMMA CountStep ==
    ASSUME RuleInv, NEW q \in Requests, LoadCounts(q) \/ Recount(q)
    PROVE  RuleInv'
<1>1. PICK h \in Request : /\ req' = [req EXCEPT ![q] = h]
                           /\ \A l \in Labels : Fits(l, h)
  BY IncrementFits DEF LoadCounts, Recount
<1>2. PICK l \in Labels \ {"booked"} : pc' = [pc EXCEPT ![q] = l]
  BY DEF LoadCounts, Recount, Goto, Labels
<1> QED
  BY <1>1, <1>2, QuietStep DEF LoadCounts, Recount

(* Written counters are at least one.                                      *)
LEMMA SaveTrackedFits ==
    ASSUME RuleInv, NEW q \in Requests, SaveTracked(q)
    PROVE  /\ timesTriggered' \in [Rules -> Nat]
           /\ \A r \in Rules : timesTriggered[r] > 0 => timesTriggered'[r] > 0
           /\ \A r \in req[q].dirty : timesTriggered'[r] > 0
<1>1. req[q].tracked \in [Rules -> Nat] /\ req[q].dirty \subseteq Rules
  BY DEF RuleInv, TypeOK, Request
<1>2. timesTriggered \in [Rules -> Nat]
  BY DEF RuleInv, TypeOK
<1>3. \A r \in req[q].dirty : req[q].tracked[r] > 0
  BY DEF RuleInv, WritesCount
<1> QED
  BY <1>1, <1>2, <1>3 DEF SaveTracked

LEMMA SaveStep ==
    ASSUME RuleInv, NEW q \in Requests, SaveCounts(q) \/ Save(q)
    PROVE  RuleInv'
<1>1. UNCHANGED <<status, cache, late, edit>>
  BY DEF SaveCounts, Save
<1>2. /\ cache' \subseteq Rules /\ late' \in BOOLEAN /\ StaleHasAReason'
      /\ \A r \in Rules : status[r] = "none" => r \notin cache'
  BY <1>1, WriteCacheFits
<1>3. /\ timesTriggered' \in [Rules -> Nat]
      /\ \A r \in Rules : timesTriggered[r] > 0 => timesTriggered'[r] > 0
      /\ \A r \in req[q].dirty : timesTriggered'[r] > 0
  BY SaveTrackedFits DEF SaveCounts, Save
<1>4. CASE SaveCounts(q)
  <2>1. PICK l \in Labels \ {"booked"}, k \in Request :
           pc' = [pc EXCEPT ![q] = l] /\ req' = [req EXCEPT ![q] = k] /\ Fits(l, k)
    BY <1>4, HeldFits, AfterPipelineFits DEF SaveCounts
  <2> QED
    BY <1>1, <1>2, <1>3, <2>1, RequestStep
<1>5. CASE Save(q)
  <2> DEFINE h == Forgotten(q)
  <2>1. h \in Request /\ Fits("booked", h)
    BY ForgottenFits DEF Fits
  <2>2. req' = [req EXCEPT ![q] = h] /\ pc' = [pc EXCEPT ![q] = "booked"]
    BY <1>5 DEF Save, Goto
  <2>3. h.kind = "booking" =>
           \A r \in h.outcome : timesTriggered'[r] > 0 \/ status[r] = "deleted"
    BY <1>3, <1>5 DEF Save, Forgotten, RuleInv, SavesCount
  <2> HIDE DEF h
  <2> QED
    BY <1>1, <1>2, <1>3, <2>1, <2>2, <2>3, RequestStep DEF Labels
<1> QED
  BY <1>4, <1>5

LEMMA FailStep ==
    ASSUME RuleInv, NEW q \in Requests, CountsFail(q) \/ Fail(q)
    PROVE  RuleInv'
<1>1. UNCHANGED <<status, cache, late, timesTriggered, edit>>
  BY DEF CountsFail, Fail
<1>2. CASE CountsFail(q)
  <2>1. PICK l \in Labels \ {"booked"}, k \in Request :
           pc' = [pc EXCEPT ![q] = l] /\ req' = [req EXCEPT ![q] = k] /\ Fits(l, k)
    BY <1>2, HeldFits, AfterPipelineFits DEF CountsFail
  <2> QED
    BY <1>1, <2>1, QuietStep
<1>3. CASE Fail(q)
  BY <1>1, <1>3, ForgottenFits, QuietStep DEF Fail, Goto, Labels
<1> QED
  BY <1>2, <1>3

-----------------------------------------------------------------------------
LEMMA RuleStep == RuleInv /\ [Next]_vars => RuleInv'
<1> SUFFICES ASSUME RuleInv, [Next]_vars PROVE RuleInv'
  OBVIOUS
<1>1. ASSUME NEW q \in Requests, Arrive(q) \/ Proceed(q) PROVE RuleInv'
  BY <1>1, ReadStep, FillStep, EvaluateStep, CountStep, SaveStep, FailStep DEF Proceed
<1>2. ASSUME NEW e \in Edits, Change(e) PROVE RuleInv'
  BY <1>2, ChangeStep
<1>3. ASSUME NEW e \in Edits, Drop(e) PROVE RuleInv'
  BY <1>3, DropStep
<1>4. CASE ExpireCache
  BY <1>4 DEF ExpireCache, ClearCache, RuleInv, TypeOK, StaleHasAReason, RulesExist,
              WritesCount, SavesCount, BookedRulesAreCounted
<1>5. CASE UNCHANGED vars
  BY <1>5 DEF vars, RuleInv, TypeOK, StaleHasAReason, Active, RulesExist,
              WritesCount, SavesCount, BookedRulesAreCounted
<1> QED
  BY <1>1, <1>2, <1>3, <1>4, <1>5 DEF Next

(* What the list and the counters rest on holds in every state.            *)
THEOREM RuleInvariant == Spec => []RuleInv
BY RuleInit, RuleStep, PTL DEF Spec

(* Every state of RuleEnginePipeline, the rule commands and the counters   *)
(* has the stated types.                                                   *)
THEOREM RuleTypes == Spec => []TypeOK
<1>1. RuleInv => TypeOK
  BY DEF RuleInv
<1> QED
  BY RuleInvariant, <1>1, PTL

(* However many owners and requests there are, GetRulesAsync finds an out  *)
(* of date list only before the invalidation of a change, or after one of  *)
(* the two accidents that the five minutes of the entry are there for.     *)
THEOREM StaleListsExplained == Spec => []StaleHasAReason
<1>1. RuleInv => StaleHasAReason
  BY DEF RuleInv
<1> QED
  BY RuleInvariant, <1>1, PTL

(* UpdateRuleTriggersAsync makes up for every count the pipeline lost: the *)
(* rules of a committed booking never stand at zero.                       *)
THEOREM BookedRulesCounted == Spec => []BookedRulesAreCounted
<1>1. RuleInv => BookedRulesAreCounted
  BY DEF RuleInv
<1> QED
  BY RuleInvariant, <1>1, PTL
-----------------------------------------------------------------------------
(* Counters and evaluations.  A request that triggered r may have counted  *)
(* it once in the pipeline and once in its handler; Counted collects what  *)
(* the requests may have counted so far.                                   *)

AtMost(label) ==
    CASE label = "counting" -> {}
      [] label \in {"countSaving", "recounting"} -> {1}
      [] OTHER -> {1, 2}

Counted(r) ==
    {x \in Requests \X {1, 2} : r \in req[x[1]].outcome /\ x[2] \in AtMost(pc[x[1]])}

Early == {"unsent", "lookingUp", "querying", "filling", "evaluating"}

(* Whatever is written or due for writing was counted by somebody.         *)
CountsInv ==
    /\ \A q \in Requests : pc[q] \in Early => req[q].outcome = {}
    /\ \A r \in Rules : /\ timesTriggered[r] <= Cardinality(Counted(r))
                        /\ \A q \in Requests : req[q].tracked[r] <= Cardinality(Counted(r))

LEMMA Twice ==
    ASSUME NEW S, IsFiniteSet(S)
    PROVE  IsFiniteSet(S \X {1, 2}) /\ Cardinality(S \X {1, 2}) = Cardinality(S) * 2
<1>1. IsFiniteSet({}) /\ Cardinality({}) = 0 /\ {1} = {} \cup {1} /\ {1, 2} = {1} \cup {2}
  BY FS_EmptySet
<1>2. IsFiniteSet({1}) /\ Cardinality({1}) = 1
  BY <1>1, FS_AddElement
<1>3. IsFiniteSet({1, 2}) /\ Cardinality({1, 2}) = 2
  <2>1. 2 \notin {1}
    OBVIOUS
  <2>2. IsFiniteSet({1} \cup {2}) /\ Cardinality({1} \cup {2}) = 1 + 1
    BY <1>2, <2>1, FS_AddElement, ZenonT(20)
  <2> QED
    BY <1>1, <2>2
<1> QED
  BY <1>3, FS_Product

LEMMA PairsFinite ==
    ASSUME NEW S \in SUBSET (Requests \X {1, 2})
    PROVE  IsFiniteSet(S) /\ Cardinality(S) \in Nat
<1>1. IsFiniteSet(S)
  BY Twice, FS_Subset, RuleAssumption
<1> QED
  BY <1>1, FS_CardinalityType

LEMMA CountedFinite ==
    \A r : IsFiniteSet(Counted(r)) /\ Cardinality(Counted(r)) \in Nat
BY PairsFinite DEF Counted

LEMMA CountsInit == Init => CountsInv
<1> SUFFICES ASSUME Init PROVE CountsInv
  OBVIOUS
<1>1. \A r \in Rules : 0 <= Cardinality(Counted(r))
  BY CountedFinite
<1> QED
  BY <1>1 DEF Init, CountsInv, NoRequest

(* A request q that goes on to l with h.                                   *)
Goes(q, l, h) == pc' = [pc EXCEPT ![q] = l] /\ req' = [req EXCEPT ![q] = h]

LEMMA CountedGrows ==
    ASSUME RuleInv, NEW q \in Requests, NEW l, NEW h, Goes(q, l, h),
           req[q].outcome = {} \/ (h.outcome = req[q].outcome /\ AtMost(pc[q]) \subseteq AtMost(l))
    PROVE  \A r : /\ Counted(r) \subseteq Counted(r)'
                  /\ Cardinality(Counted(r)) <= Cardinality(Counted(r)')
                  /\ IsFiniteSet(Counted(r)') /\ Cardinality(Counted(r)') \in Nat
<1>1. /\ pc'[q] = l /\ req'[q] = h
      /\ \A p \in Requests \ {q} : pc'[p] = pc[p] /\ req'[p] = req[p]
  BY DEF Goes, RuleInv, TypeOK
<1> SUFFICES ASSUME NEW r
             PROVE  /\ Counted(r) \subseteq Counted(r)'
                    /\ Cardinality(Counted(r)) <= Cardinality(Counted(r)')
                    /\ IsFiniteSet(Counted(r)') /\ Cardinality(Counted(r)') \in Nat
  OBVIOUS
<1>2. ASSUME NEW x \in Counted(r) PROVE x \in Counted(r)'
  <2>1. /\ x \in Requests \X {1, 2} /\ x[1] \in Requests
        /\ r \in req[x[1]].outcome /\ x[2] \in AtMost(pc[x[1]])
    BY DEF Counted
  <2>2. r \in req'[x[1]].outcome /\ x[2] \in AtMost(pc'[x[1]])
    BY <1>1, <2>1
  <2> QED
    BY <2>1, <2>2 DEF Counted, AtMost
<1>3. IsFiniteSet(Counted(r)') /\ Cardinality(Counted(r)') \in Nat
  BY PairsFinite DEF Counted
<1>4. Counted(r) \in SUBSET (Counted(r)')
  BY <1>2
<1> QED
  BY <1>3, <1>4, FS_Subset

(* A step that adds to no counter.                                         *)
LEMMA CountsKept ==
    ASSUME RuleInv, CountsInv, NEW q \in Requests, NEW l \in Labels, NEW h \in Request,
           Goes(q, l, h),
           req[q].outcome = {} \/ (h.outcome = req[q].outcome /\ AtMost(pc[q]) \subseteq AtMost(l)),
           l \in Early => h.outcome = {},
           \A r \in Rules : h.tracked[r] \in {0, req[q].tracked[r]},
           \A r \in Rules : timesTriggered'[r] \in {timesTriggered[r], req[q].tracked[r]}
    PROVE  CountsInv'
<1>1. /\ pc'[q] = l /\ req'[q] = h
      /\ \A p \in Requests \ {q} : pc'[p] = pc[p] /\ req'[p] = req[p]
  BY DEF Goes, RuleInv, TypeOK
<1>2. \A p \in Requests : pc'[p] \in Early => req'[p].outcome = {}
  BY <1>1 DEF CountsInv
<1>3. ASSUME NEW r \in Rules
      PROVE  /\ timesTriggered'[r] <= Cardinality(Counted(r)')
             /\ \A p \in Requests : req'[p].tracked[r] <= Cardinality(Counted(r)')
  <2>1. /\ Cardinality(Counted(r)) \in Nat /\ Cardinality(Counted(r)') \in Nat
        /\ Cardinality(Counted(r)) <= Cardinality(Counted(r)')
    BY CountedFinite, CountedGrows
  <2>2. /\ timesTriggered[r] \in Nat /\ timesTriggered[r] <= Cardinality(Counted(r))
        /\ \A p \in Requests : /\ req[p].tracked[r] \in Nat
                               /\ req[p].tracked[r] <= Cardinality(Counted(r))
    BY DEF CountsInv, RuleInv, TypeOK, Request
  <2>3. timesTriggered'[r] \in {timesTriggered[r], req[q].tracked[r]}
    OBVIOUS
  <2>4. ASSUME NEW p \in Requests PROVE req'[p].tracked[r] \in {0, req[p].tracked[r]}
    BY <1>1
  <2> QED
    BY <2>1, <2>2, <2>3, <2>4
<1> QED
  BY <1>2, <1>3 DEF CountsInv

(* The request's increment is one more that somebody has counted.          *)
LEMMA CountsAdded ==
    ASSUME RuleInv, CountsInv, NEW q \in Requests, LoadCounts(q) \/ Recount(q)
    PROVE  CountsInv'
<1> DEFINE counts == [r \in Rules |->
              IF r \notin Found(q) THEN req[q].tracked[r]
              ELSE IF req[q].tracked[r] # 0 THEN req[q].tracked[r] + 1
              ELSE timesTriggered[r] + 1]
           h == [req[q] EXCEPT !.tracked = counts, !.dirty = @ \cup Found(q)]
           l == IF pc[q] = "counting" THEN "countSaving" ELSE "saving"
           n == IF pc[q] = "counting" THEN 1 ELSE 2
<1>1. req[q] \in Request
  BY HeldFits
<1>2. h.tracked = counts /\ h.outcome = req[q].outcome
  BY <1>1 DEF Request
<1>3. Goes(q, l, h)
  BY DEF LoadCounts, Recount, Increment, Goto, Goes, RuleInv, TypeOK
<1>4. UNCHANGED timesTriggered
  BY DEF LoadCounts, Recount
<1>5. AtMost(pc[q]) \subseteq AtMost(l) /\ n \in AtMost(l) \ AtMost(pc[q]) /\ l \notin Early
  BY DEF LoadCounts, Recount, AtMost, Early
<1>6. Found(q) \subseteq req[q].outcome
  BY DEF Found
<1> HIDE DEF h, l
<1>7. /\ pc'[q] = l /\ req'[q] = h
      /\ \A p \in Requests \ {q} : pc'[p] = pc[p] /\ req'[p] = req[p]
  BY <1>3 DEF Goes, RuleInv, TypeOK
<1>8. ASSUME NEW r \in Rules
      PROVE  /\ Cardinality(Counted(r)) \in Nat /\ Cardinality(Counted(r)') \in Nat
             /\ Cardinality(Counted(r)) <= Cardinality(Counted(r)')
             /\ IsFiniteSet(Counted(r)') /\ Counted(r) \subseteq Counted(r)'
  BY <1>2, <1>3, <1>5, CountedFinite, CountedGrows
<1>9. ASSUME NEW r \in Found(q), r \in Rules
      PROVE  Cardinality(Counted(r)) + 1 <= Cardinality(Counted(r)')
  <2> DEFINE x == <<q, n>>
  <2>1. x \notin Counted(r)
    BY <1>5 DEF Counted
  <2>2. x \in Counted(r)'
    BY <1>2, <1>5, <1>6, <1>7, <1>9 DEF Counted, AtMost
  <2> HIDE DEF x
  <2>3. Cardinality(Counted(r) \cup {x}) = Cardinality(Counted(r)) + 1
    BY <2>1, CountedFinite, FS_AddElement
  <2>4. Counted(r) \cup {x} \in SUBSET (Counted(r)')
    BY <1>8, <1>9, <2>2
  <2> QED
    BY <1>8, <1>9, <2>3, <2>4, FS_Subset
<1>10. ASSUME NEW r \in Rules
       PROVE  /\ timesTriggered'[r] <= Cardinality(Counted(r)')
              /\ \A p \in Requests : req'[p].tracked[r] <= Cardinality(Counted(r)')
  <2>1. /\ timesTriggered[r] \in Nat /\ timesTriggered[r] <= Cardinality(Counted(r))
        /\ \A p \in Requests : /\ req[p].tracked[r] \in Nat
                               /\ req[p].tracked[r] <= Cardinality(Counted(r))
    BY DEF CountsInv, RuleInv, TypeOK, Request
  <2>2. counts[r] <= Cardinality(Counted(r)')
    <3>1. CASE r \in Found(q)
      <4>1. counts[r] <= Cardinality(Counted(r)) + 1
        BY <1>8, <2>1, <3>1
      <4>2. counts[r] \in Nat
        BY <2>1, <3>1
      <4> QED
        BY <1>8, <1>9, <3>1, <4>1, <4>2
    <3>2. CASE r \notin Found(q)
      <4>1. counts[r] = req[q].tracked[r]
        BY <3>2
      <4> QED
        BY <1>8, <2>1, <4>1
    <3> QED
      BY <3>1, <3>2
  <2> HIDE DEF counts
  <2>3. ASSUME NEW p \in Requests PROVE req'[p].tracked[r] <= Cardinality(Counted(r)')
    BY <1>2, <1>7, <1>8, <2>1, <2>2
  <2> QED
    BY <1>4, <1>8, <2>1, <2>3
<1>11. \A p \in Requests : pc'[p] \in Early => req'[p].outcome = {}
  BY <1>5, <1>7 DEF CountsInv
<1> QED
  BY <1>10, <1>11 DEF CountsInv

(* Where AfterPipeline leads.                                              *)
LEMMA AfterPipelineGoes ==
    ASSUME RuleInv, NEW q \in Requests, NEW h \in Request, AfterPipeline(q, h),
           h.outcome = req[q].outcome, h.tracked = req[q].tracked
    PROVE  \E l \in {"ended", "recounting", "saving"}, k \in Request :
              /\ Goes(q, l, k) /\ k.outcome = req[q].outcome
              /\ \A r \in Rules : k.tracked[r] \in {0, req[q].tracked[r]}
<1>1. CASE h.kind = "preview" \/ h.outcome \cap Blocking # {}
  <2>1. Goes(q, "ended", Forgotten(q))
    BY <1>1 DEF AfterPipeline, Goto, Goes
  <2>2. /\ Forgotten(q) \in Request /\ Forgotten(q).outcome = req[q].outcome
        /\ \A r \in Rules : Forgotten(q).tracked[r] = 0
    BY ForgottenFits DEF Forgotten
  <2> QED
    BY <2>1, <2>2
<1>2. CASE ~(h.kind = "preview" \/ h.outcome \cap Blocking # {})
  <2>1. PICK l \in {"recounting", "saving"} : Goes(q, l, h)
    BY <1>2 DEF AfterPipeline, Goto, Goes
  <2> QED
    BY <2>1
<1> QED
  BY <1>1, <1>2

LEMMA AfterPipelineCounts ==
    ASSUME RuleInv, CountsInv, NEW q \in Requests, NEW h \in Request, AfterPipeline(q, h),
           h.outcome = req[q].outcome, h.tracked = req[q].tracked,
           req[q].outcome = {} \/ pc[q] \in {"counting", "countSaving"},
           \A r \in Rules : timesTriggered'[r] \in {timesTriggered[r], req[q].tracked[r]}
    PROVE  CountsInv'
<1>1. PICK l \in {"ended", "recounting", "saving"}, k \in Request :
              /\ Goes(q, l, k) /\ k.outcome = req[q].outcome
              /\ \A r \in Rules : k.tracked[r] \in {0, req[q].tracked[r]}
  BY AfterPipelineGoes
<1>2. l \in Labels /\ l \notin Early
  BY DEF Labels, Early
<1>3. req[q].outcome = {} \/ AtMost(pc[q]) \subseteq AtMost(l)
  BY DEF AtMost
<1> QED
  BY <1>1, <1>2, <1>3, CountsKept

LEMMA EarlyCounts ==
    ASSUME RuleInv, CountsInv, NEW q \in Requests,
           \/ Arrive(q) \/ FindInCache(q) \/ MissInCache(q) \/ QueryRules(q)
           \/ FillCache(q) \/ FailOpen(q) \/ Evaluate(q)
    PROVE  CountsInv'
<1>1. /\ req[q] \in Request /\ req \in [Requests -> Request] /\ pc[q] \in Early
      /\ req[q].outcome = {} /\ UNCHANGED timesTriggered
      /\ cache \subseteq Rules /\ Active \subseteq Rules
  BY DEF Arrive, FindInCache, MissInCache, QueryRules, FillCache, FailOpen, Evaluate, Early,
         RuleInv, TypeOK, CountsInv, Active
<1>2. \A k \in Kinds : [req[q] EXCEPT !.kind = k] \in Request
  BY <1>1 DEF Request
<1>3. \A S \in SUBSET Rules : [req[q] EXCEPT !.held = S] \in Request
  BY <1>1 DEF Request
<1>4. ASSUME NEW l \in Early, NEW h \in Request, Goes(q, l, h),
             h.outcome = req[q].outcome, h.tracked = req[q].tracked
      PROVE  CountsInv'
  BY <1>1, <1>4, CountsKept DEF Early, Labels
<1>5. CASE Arrive(q)
  <2>1. PICK k \in Kinds : req' = [req EXCEPT ![q].kind = k]
    BY <1>5 DEF Arrive
  <2> DEFINE h == [req[q] EXCEPT !.kind = k]
  <2>2. Goes(q, "lookingUp", h) /\ h \in Request
    BY <1>1, <1>2, <1>5, <2>1 DEF Arrive, Goto, Goes
  <2>3. h.outcome = req[q].outcome /\ h.tracked = req[q].tracked
    BY <1>1 DEF Request
  <2> QED
    BY <1>4, <2>2, <2>3 DEF Early
<1>6. CASE FindInCache(q)
  <2> DEFINE h == [req[q] EXCEPT !.held = cache]
  <2>1. Goes(q, "evaluating", h) /\ h \in Request
    BY <1>1, <1>3, <1>6 DEF FindInCache, Goto, Goes
  <2>2. h.outcome = req[q].outcome /\ h.tracked = req[q].tracked
    BY <1>1 DEF Request
  <2> QED
    BY <1>4, <2>1, <2>2 DEF Early
<1>7. CASE MissInCache(q) \/ FillCache(q)
  <2>1. PICK l \in Early : Goes(q, l, req[q])
    BY <1>1, <1>7 DEF MissInCache, FillCache, Goto, Goes, Early
  <2> QED
    BY <1>1, <1>4, <2>1
<1>8. CASE QueryRules(q)
  <2> DEFINE h == [req[q] EXCEPT !.held = Active]
  <2>1. h \in Request /\ h.outcome = req[q].outcome /\ h.tracked = req[q].tracked
    BY <1>1, <1>3 DEF Request
  <2>2. PICK l \in Early : Goes(q, l, h)
    BY <1>1, <1>8 DEF QueryRules, Goto, Goes, Early
  <2> QED
    BY <1>4, <2>1, <2>2
<1>9. ASSUME AfterPipeline(q, [req[q] EXCEPT !.held = {}]) PROVE CountsInv'
  <2>1. [req[q] EXCEPT !.held = {}] \in Request
    BY HeldFits
  <2>2. /\ [req[q] EXCEPT !.held = {}].outcome = req[q].outcome
        /\ [req[q] EXCEPT !.held = {}].tracked = req[q].tracked
    BY <1>1 DEF Request
  <2> QED
    BY <1>1, <1>9, <2>1, <2>2, AfterPipelineCounts
<1>10. CASE FailOpen(q)
  BY <1>9, <1>10 DEF FailOpen
<1>11. CASE Evaluate(q)
  <2>1. PICK outcome \in SUBSET req[q].held :
           IF outcome = {}
           THEN AfterPipeline(q, [req[q] EXCEPT !.held = {}])
           ELSE /\ Goto(q, "counting")
                /\ req' = [req EXCEPT ![q].outcome = outcome, ![q].held = {}]
    BY <1>11 DEF Evaluate
  <2>2. CASE outcome = {}
    BY <1>9, <2>1, <2>2
  <2>3. CASE outcome # {}
    <3> DEFINE h == [req[q] EXCEPT !.outcome = outcome, !.held = {}]
    <3>1. h \in Request /\ h.tracked = req[q].tracked
      BY <1>1 DEF Request
    <3>2. Goes(q, "counting", h)
      BY <1>1, <2>1, <2>3 DEF Goto, Goes
    <3> HIDE DEF h
    <3>3. "counting" \in Labels /\ "counting" \notin Early
      BY DEF Labels, Early
    <3> QED
      BY <1>1, <3>1, <3>2, <3>3, CountsKept
  <2> QED
    BY <2>2, <2>3
<1> QED
  BY <1>5, <1>6, <1>7, <1>8, <1>10, <1>11

LEMMA LaterCounts ==
    ASSUME RuleInv, CountsInv, NEW q \in Requests,
           SaveCounts(q) \/ CountsFail(q) \/ Save(q) \/ Fail(q)
    PROVE  CountsInv'
<1>1. req[q] \in Request /\ pc[q] \in Labels
  BY DEF RuleInv, TypeOK, Labels
<1>2. \A r \in Rules : timesTriggered'[r] \in {timesTriggered[r], req[q].tracked[r]}
  BY DEF SaveCounts, CountsFail, Save, Fail, SaveTracked
<1>3. CASE SaveCounts(q)
  <2>1. /\ [req[q] EXCEPT !.dirty = {}].outcome = req[q].outcome
        /\ [req[q] EXCEPT !.dirty = {}].tracked = req[q].tracked
    BY <1>1 DEF Request
  <2> QED
    BY <1>2, <1>3, <2>1, HeldFits, AfterPipelineCounts DEF SaveCounts
<1>4. CASE CountsFail(q)
  BY <1>1, <1>2, <1>4, AfterPipelineCounts DEF CountsFail
<1>5. CASE Save(q) \/ Fail(q)
  <2>1. PICK l \in {"booked", "ended"} : Goes(q, l, Forgotten(q))
    BY <1>5 DEF Save, Fail, Goto, Goes
  <2>2. /\ Forgotten(q) \in Request /\ Forgotten(q).outcome = req[q].outcome
        /\ \A r \in Rules : Forgotten(q).tracked[r] = 0
    BY ForgottenFits DEF Forgotten
  <2>3. AtMost(pc[q]) \subseteq AtMost(l) /\ l \in Labels /\ l \notin Early
    BY DEF AtMost, Labels, Early
  <2> QED
    BY <1>2, <2>1, <2>2, <2>3, CountsKept
<1> QED
  BY <1>3, <1>4, <1>5

LEMMA CountsStep == RuleInv /\ CountsInv /\ [Next]_vars => CountsInv'
<1> SUFFICES ASSUME RuleInv, CountsInv, [Next]_vars PROVE CountsInv'
  OBVIOUS
<1>1. ASSUME NEW q \in Requests, Arrive(q) \/ Proceed(q) PROVE CountsInv'
  BY <1>1, EarlyCounts, CountsAdded, LaterCounts DEF Proceed
<1>2. ASSUME UNCHANGED <<timesTriggered, pc, req>> PROVE CountsInv'
  BY <1>2 DEF CountsInv, Counted
<1>3. ASSUME NEW e \in Edits, Change(e) \/ Drop(e) PROVE CountsInv'
  BY <1>2, <1>3 DEF Change, CreateRule, UpdateRule, ToggleRule, DeleteRule, ReorderRules, Commit,
                    Drop, Invalidate, InvalidateFails
<1>4. CASE ExpireCache
  BY <1>2, <1>4 DEF ExpireCache
<1>5. CASE UNCHANGED vars
  BY <1>2, <1>5 DEF vars
<1> QED
  BY <1>1, <1>3, <1>4, <1>5 DEF Next

(* Two for every evaluation that has triggered the rule.                   *)
LEMMA CountsBound == RuleInv /\ CountsInv => CountsAreBacked
<1> SUFFICES ASSUME RuleInv, CountsInv, NEW r \in Rules PROVE timesTriggered[r] <= 2 * Triggers(r)
  BY DEF CountsAreBacked
<1> DEFINE Q == {q \in Requests : r \in req[q].outcome}
<1>1. IsFiniteSet(Q)
  BY FS_Subset, RuleAssumption
<1>2. IsFiniteSet(Q \X {1, 2}) /\ Cardinality(Q \X {1, 2}) = Cardinality(Q) * 2
  BY <1>1, Twice
<1>3. Counted(r) \in SUBSET (Q \X {1, 2})
  BY DEF Counted
<1>4. Cardinality(Counted(r)) <= Cardinality(Q \X {1, 2})
  BY <1>2, <1>3, FS_Subset
<1>5. Cardinality(Counted(r)) \in Nat /\ Cardinality(Q) \in Nat
  BY <1>1, CountedFinite, FS_CardinalityType
<1>6. timesTriggered[r] <= Cardinality(Counted(r)) /\ timesTriggered[r] \in Nat
  BY DEF CountsInv, RuleInv, TypeOK
<1>7. Triggers(r) = Cardinality(Q)
  BY DEF Triggers
<1> HIDE DEF Q
<1> QED
  BY <1>2, <1>4, <1>5, <1>6, <1>7

(* A counter is backed by evaluations of the rule, at most twice by each,  *)
(* whichever requests count, fail, or overwrite what another has counted.  *)
THEOREM CountsBacked == Spec => []CountsAreBacked
<1>1. Spec => []CountsInv
  BY CountsInit, CountsStep, RuleInvariant, PTL DEF Spec
<1> QED
  BY <1>1, CountsBound, RuleInvariant, PTL
=============================================================================

----------------------------- MODULE RuleEngine -----------------------------
(***************************************************************************)
(* The rules of one venue: the commands of the owner that change them, the *)
(* list of active rules that RuleEnginePipeline keeps in Redis, and the    *)
(* TimesTriggered counters that the pipeline and the booking handlers      *)
(* write with one DbContext per request.                                   *)
(*                                                                         *)
(* What a rule says is left out: an evaluation may trigger any of the      *)
(* rules it has, up to the first that blocks.                              *)
(***************************************************************************)
EXTENDS Naturals, FiniteSets

CONSTANTS
    Rules,             \* rows the Rules table can come to hold
    Blocking,          \* the rules whose action is Block
    Requests,          \* requests that have the rules evaluated
    Edits              \* commands of the owner

ASSUME RuleAssumption ==
    /\ IsFiniteSet(Requests)
    /\ Blocking \subseteq Rules

VARIABLES
    status,            \* status[r]: what the row of rule r says
    cache,             \* the rules in the cached list; {} is no list (none is kept empty)
    late,              \* history: the list was out of date when it was written,
                       \* or outlived an invalidation that failed
    timesTriggered,    \* Rule.TimesTriggered
    edit,              \* how far each command of the owner has come
    pc, req            \* how far each request has come, and what it holds

vars == <<status, cache, late, timesTriggered, edit, pc, req>>

(* The rows that are not deleted.                                          *)
Kept == {"active", "inactive"}

Active == {r \in Rules : status[r] = "active"}

(* reserve and modify count the applied rules again; the manual booking    *)
(* does not, and a preview only evaluates.                                 *)
Kinds == {"booking", "manual", "preview"}

(* "held" is the list being evaluated, "outcome" the rules that triggered, *)
(* "tracked" the counters in the change tracker of the request's DbContext *)
(* (0: not loaded), "dirty" those that differ from what was last saved.    *)
Request == [kind : Kinds \cup {"none"}, held : SUBSET Rules, outcome : SUBSET Rules,
            tracked : [Rules -> Nat], dirty : SUBSET Rules]

NoRequest == [kind |-> "none", held |-> {}, outcome |-> {},
              tracked |-> [r \in Rules |-> 0], dirty |-> {}]

Init ==
    /\ status \in [Rules -> Kept \cup {"none"}]
    /\ cache = {}
    /\ late = FALSE
    /\ timesTriggered = [r \in Rules |-> 0]
    /\ edit = [e \in Edits |-> "unsent"]
    /\ pc = [q \in Requests |-> "unsent"]
    /\ req = [q \in Requests |-> NoRequest]

-----------------------------------------------------------------------------
(* The owner's commands: one transaction, then the invalidation.           *)

CommitOnly(e, r, s) ==
    /\ edit[e] = "unsent"
    /\ status' = [status EXCEPT ![r] = s]
    /\ edit' = [edit EXCEPT ![e] = "ended"]
    /\ UNCHANGED <<cache, late, timesTriggered, pc, req>>

Commit(e, r, s) ==
    /\ edit[e] = "unsent"
    /\ status' = [status EXCEPT ![r] = s]
    /\ edit' = [edit EXCEPT ![e] = "invalidating"]
    /\ UNCHANGED <<cache, late, timesTriggered, pc, req>>

CreateRule(e, r) == \E s \in Kept : status[r] = "none" /\ Commit(e, r, s)

UpdateRule(e, r) == \E s \in Kept : status[r] \in Kept /\ Commit(e, r, s)

ToggleRule(e, r) ==
    /\ status[r] \in Kept
    /\ Commit(e, r, IF status[r] = "active" THEN "inactive" ELSE "active")

DeleteRule(e, r) == status[r] \in Kept /\ Commit(e, r, "deleted")

(* Priorities change, which are not modelled; the list is dropped as well. *)
ReorderRules(e, r) == status[r] \in Kept /\ Commit(e, r, status[r])

ClearCache == cache' = {} /\ late' = FALSE

Invalidate(e) ==
    /\ edit[e] = "invalidating"
    /\ ClearCache
    /\ edit' = [edit EXCEPT ![e] = "ended"]
    /\ UNCHANGED <<status, timesTriggered, pc, req>>

(* Redis cannot be reached or the process dies: the change is committed,   *)
(* the list stays.                                                         *)
InvalidateFails(e) ==
    /\ edit[e] = "invalidating"
    /\ late' = TRUE
    /\ edit' = [edit EXCEPT ![e] = "ended"]
    /\ UNCHANGED <<status, cache, timesTriggered, pc, req>>

ExpireCacheNever == cache # {} /\ FALSE /\ UNCHANGED vars

(* Five minutes after it was written.                                      *)
ExpireCache ==
    /\ cache # {}
    /\ ClearCache
    /\ UNCHANGED <<status, timesTriggered, edit, pc, req>>

-----------------------------------------------------------------------------
(* RuleEnginePipeline.GetRulesAsync and ExecuteAsync                       *)

Goto(q, label) == pc' = [pc EXCEPT ![q] = label]

(* The request's DbContext goes with the request.                          *)
Forgotten(q) == [kind |-> req[q].kind, held |-> {}, outcome |-> req[q].outcome,
                 tracked |-> [r \in Rules |-> 0], dirty |-> {}]

Arrive(q) ==
    /\ pc[q] = "unsent"
    /\ Goto(q, "lookingUp")
    /\ \E kind \in Kinds : req' = [req EXCEPT ![q].kind = kind]
    /\ UNCHANGED <<status, cache, late, timesTriggered, edit>>

FindInCache(q) ==
    /\ pc[q] = "lookingUp"
    /\ cache # {}
    /\ req' = [req EXCEPT ![q].held = cache]
    /\ Goto(q, "evaluating")
    /\ UNCHANGED <<status, cache, late, timesTriggered, edit>>

MissInCache(q) ==
    /\ pc[q] = "lookingUp"
    /\ cache = {}
    /\ Goto(q, "querying")
    /\ UNCHANGED <<status, cache, late, timesTriggered, edit, req>>

(* An empty list is not cached.                                            *)
QueryRules(q) ==
    /\ pc[q] = "querying"
    /\ req' = [req EXCEPT ![q].held = Active]
    /\ Goto(q, IF Active = {} THEN "evaluating" ELSE "filling")
    /\ UNCHANGED <<status, cache, late, timesTriggered, edit>>

(* The list goes to Redis as it was read, whatever has happened since.     *)
WriteCache(q) ==
    /\ cache' = req[q].held
    /\ late' = (req[q].held # Active)

FillCache(q) ==
    /\ pc[q] = "filling"
    /\ WriteCache(q)
    /\ Goto(q, "evaluating")
    /\ UNCHANGED <<status, timesTriggered, edit, req>>

(* Where a request that holds h goes once the pipeline has answered it.    *)
AfterPipeline(q, h) ==
    IF h.kind = "preview" \/ h.outcome \cap Blocking # {}
    THEN /\ Goto(q, "ended")
         /\ req' = [req EXCEPT ![q] = Forgotten(q)]
    ELSE /\ Goto(q, IF h.kind = "booking" /\ h.outcome # {} THEN "recounting" ELSE "saving")
         /\ req' = [req EXCEPT ![q] = h]

(* An exception before the evaluation, with the list written to Redis or   *)
(* not: StubRuleEvaluator allows the request as if there were no rules.    *)
FailOpen(q) ==
    /\ pc[q] \in {"lookingUp", "querying", "filling"}
    /\ \/ pc[q] = "filling" /\ WriteCache(q)
       \/ UNCHANGED <<cache, late>>
    /\ AfterPipeline(q, [req[q] EXCEPT !.held = {}])
    /\ UNCHANGED <<status, timesTriggered, edit>>

(* One blocking rule ends the evaluation.                                  *)
Evaluate(q) ==
    /\ pc[q] = "evaluating"
    /\ \E outcome \in SUBSET req[q].held :
          /\ \A r1, r2 \in outcome \cap Blocking : r1 = r2
          /\ IF outcome = {}
             THEN AfterPipeline(q, [req[q] EXCEPT !.held = {}])
             ELSE /\ Goto(q, "counting")
                  /\ req' = [req EXCEPT ![q].outcome = outcome, ![q].held = {}]
    /\ UNCHANGED <<status, cache, late, timesTriggered, edit>>

-----------------------------------------------------------------------------
(* TimesTriggered                                                          *)

(* The rules that a query for the triggered ones returns.                  *)
Found(q) == {r \in req[q].outcome : status[r] \in Kept}

(* Load and increment.  A row that the context tracks already keeps the    *)
(* value it is tracked with.                                               *)
Increment(q) ==
    req' = [req EXCEPT
        ![q].tracked = [r \in Rules |->
            IF r \notin Found(q) THEN req[q].tracked[r]
            ELSE IF req[q].tracked[r] # 0 THEN req[q].tracked[r] + 1
            ELSE timesTriggered[r] + 1],
        ![q].dirty = @ \cup Found(q)]

SaveTracked(q) ==
    timesTriggered' = [r \in Rules |->
        IF r \in req[q].dirty THEN req[q].tracked[r] ELSE timesTriggered[r]]

LoadCounts(q) ==
    /\ pc[q] = "counting"
    /\ Increment(q)
    /\ Goto(q, "countSaving")
    /\ UNCHANGED <<status, cache, late, timesTriggered, edit>>

SaveCountsAgain(q) ==
    /\ pc[q] = "countSaving"
    /\ SaveTracked(q)
    /\ \/ AfterPipeline(q, [req[q] EXCEPT !.dirty = {}])
       \/ Goto(q, "counting") /\ req' = [req EXCEPT ![q].dirty = {}]
    /\ UNCHANGED <<status, cache, late, edit>>

SaveCounts(q) ==
    /\ pc[q] = "countSaving"
    /\ SaveTracked(q)
    /\ AfterPipeline(q, [req[q] EXCEPT !.dirty = {}])
    /\ UNCHANGED <<status, cache, late, edit>>

(* The pipeline swallows the error of its query or of its SaveChanges.     *)
CountsFail(q) ==
    /\ pc[q] \in {"counting", "countSaving"}
    /\ AfterPipeline(q, req[q])
    /\ UNCHANGED <<status, cache, late, timesTriggered, edit>>

RecountNothing(q) ==
    /\ pc[q] = "recounting"
    /\ Goto(q, "saving")
    /\ UNCHANGED <<status, cache, late, timesTriggered, edit, req>>

(* UpdateRuleTriggersAsync of the reserve and modify handlers              *)
Recount(q) ==
    /\ pc[q] = "recounting"
    /\ Increment(q)
    /\ Goto(q, "saving")
    /\ UNCHANGED <<status, cache, late, timesTriggered, edit>>

(* The handler's SaveChanges: the reservation and the changed counters.    *)
Save(q) ==
    /\ pc[q] = "saving"
    /\ SaveTracked(q)
    /\ req' = [req EXCEPT ![q] = Forgotten(q)]
    /\ Goto(q, "booked")
    /\ UNCHANGED <<status, cache, late, edit>>

(* A handler that throws, or a process that dies.                          *)
Fail(q) ==
    /\ pc[q] \notin {"unsent", "ended", "booked"}
    /\ req' = [req EXCEPT ![q] = Forgotten(q)]
    /\ Goto(q, "ended")
    /\ UNCHANGED <<status, cache, late, timesTriggered, edit>>

-----------------------------------------------------------------------------
Proceed(q) ==
    \/ FindInCache(q) \/ MissInCache(q) \/ QueryRules(q) \/ FillCache(q) \/ FailOpen(q)
    \/ Evaluate(q) \/ LoadCounts(q) \/ SaveCounts(q) \/ CountsFail(q)
    \/ Recount(q) \/ Save(q) \/ Fail(q)

Change(e) ==
    \E r \in Rules :
        \/ CreateRule(e, r) \/ UpdateRule(e, r) \/ ToggleRule(e, r)
        \/ DeleteRule(e, r) \/ ReorderRules(e, r)

Drop(e) == Invalidate(e) \/ InvalidateFails(e)

Next ==
    \/ \E q \in Requests : Arrive(q) \/ Proceed(q)
    \/ \E e \in Edits : Change(e) \/ Drop(e)
    \/ ExpireCache

Spec == Init /\ [][Next]_vars

(* Redis expires the list, and requests and commands that have started go  *)
(* on or fail.                                                             *)
FairSpec ==
    /\ Spec
    /\ \A q \in Requests : WF_vars(Proceed(q))
    /\ \A e \in Edits : WF_vars(Drop(e))
    /\ WF_vars(ExpireCache)

-----------------------------------------------------------------------------
TypeOK ==
    /\ status \in [Rules -> Kept \cup {"none", "deleted"}]
    /\ cache \subseteq Rules
    /\ late \in BOOLEAN
    /\ timesTriggered \in [Rules -> Nat]
    /\ edit \in [Edits -> {"unsent", "invalidating", "ended"}]
    /\ pc \in [Requests -> {"unsent", "lookingUp", "querying", "filling", "evaluating",
                            "counting", "countSaving", "recounting", "saving",
                            "ended", "booked"}]
    /\ req \in [Requests -> Request]

(* The cached list differs from the active rules only while the command    *)
(* that made the difference has still to drop it, or after one of the two  *)
(* accidents that the code accepts for five minutes: a list read before a  *)
(* change and written after its invalidation, and an invalidation that     *)
(* failed.                                                                 *)
StaleHasAReason ==
    cache \notin {{}, Active} => late \/ \E e \in Edits : edit[e] = "invalidating"

(* Old rules are not applied for ever: a list that is out of date goes, or *)
(* becomes right again, even after the accidents.                          *)
StaleRulesRunOut == cache \notin {{}, Active} ~> cache \in {{}, Active}

(* A rule that has triggered for a committed reservation, or for its move, *)
(* is counted whatever fails in the pipeline and whichever requests        *)
(* overwrite its counter: it never stands at zero, unless it was deleted.  *)
BookedRulesAreCounted ==
    \A q \in Requests : pc[q] = "booked" /\ req[q].kind = "booking" =>
        \A r \in req[q].outcome : timesTriggered[r] > 0 \/ status[r] = "deleted"

Triggers(r) == Cardinality({q \in Requests : r \in req[q].outcome})

(* A counter is never more than twice the evaluations that have triggered  *)
(* the rule: the pipeline and the handler each add one, concurrent         *)
(* requests may only lose some.                                            *)
CountsAreBacked == \A r \in Rules : timesTriggered[r] <= 2 * Triggers(r)
=============================================================================

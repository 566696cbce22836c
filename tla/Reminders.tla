----------------------------- MODULE Reminders -----------------------------
(***************************************************************************)
(* WhatsApp reminders: WhatsAppReminderService looks once an hour, and on  *)
(* every start, for tomorrow's confirmed reservations, leaves out those    *)
(* that have a message which did not fail, and sends the rest one by one   *)
(* through WhatsAppOrchestrator and TwilioWhatsAppChannel.  Any save may   *)
(* fail or lose its answer, Twilio may accept a message and its reply be   *)
(* lost, and the process may end anywhere.                                 *)
(*                                                                         *)
(* The pass has one DbContext: what it could not save stays in there and   *)
(* goes out with the next save that works.  Callbacks of Twilio carry no   *)
(* tenant and are turned away by TenantResolverMiddleware, so that no      *)
(* message gets any further than Sent.  Twilio is configured.              *)
(***************************************************************************)
EXTENDS Naturals

CONSTANTS
    Reservations,
    Tries,             \* calls of Twilio for one message: the first, and the retries
    MaxMishaps         \* bound on failures

ASSUME RemindersAssumption == Tries \in Nat \ {0} /\ MaxMishaps \in Nat

VARIABLES
    when,              \* [Reservations -> is it a confirmed one for tomorrow?]
    message,           \* [Reservations -> Status of its newest reminder row, if any]
    passRuns,          \* WhatsAppReminderService is in SendRemindersAsync
    stage,             \* [Reservations -> where the pass stands with it]
    triesLeft,         \* calls left for the message being sent
    unsaved,           \* [Reservations -> what the DbContext still has to save]
    stuck,             \* the DbContext tries to insert a row that is there already
    reminded,          \* history: [Reservations -> messages accepted by Twilio]
    slips,             \* history: [Reservations -> accepted ones the server heard not of]
    broken,            \* history: reservations whose sending a failure cut short
    mishaps

reminderVars == <<when, message, passRuns, stage, triesLeft, unsaved, stuck,
                  reminded, slips, broken, mishaps>>
rowVars == <<message, unsaved, stuck>>
historyVars == <<reminded, slips, broken>>

Stages == {"out", "todo", "calling", "noting", "failing"}

InHand == {r \in Reservations : stage[r] \in {"calling", "noting", "failing"}}
Nowhere == [r \in Reservations |-> "out"]
NothingUnsaved == [r \in Reservations |-> "nothing"]
To(r, s) == stage' = [stage EXCEPT ![r] = s]

RemindersInit ==
    /\ when = [r \in Reservations |-> "ahead"]
    /\ message = [r \in Reservations |-> "none"]
    /\ passRuns = FALSE /\ stage = Nowhere /\ triesLeft = 0
    /\ unsaved = NothingUnsaved /\ stuck = FALSE
    /\ reminded = [r \in Reservations |-> 0] /\ slips = [r \in Reservations |-> 0]
    /\ broken = {} /\ mishaps = 0

Mishap == mishaps < MaxMishaps /\ mishaps' = mishaps + 1

-----------------------------------------------------------------------------
(* Confirmations, cancellations and midnights.  The pass does not look     *)
(* again at a reservation that it has read.                                *)
ComesNear(r) ==
    /\ when[r] = "ahead" /\ when' = [when EXCEPT ![r] = "tomorrow"]
    /\ UNCHANGED <<rowVars, passRuns, stage, triesLeft, historyVars, mishaps>>

Passes(r) ==
    /\ when[r] # "past" /\ when' = [when EXCEPT ![r] = "past"]
    /\ UNCHANGED <<rowVars, passRuns, stage, triesLeft, historyVars, mishaps>>

-----------------------------------------------------------------------------
OnlySentCounts(r) == message[r] = "sent"
AlreadySent(r) == message[r] \notin {"none", "failed"}

(* Both queries; nobody else writes reminder rows.                         *)
StartPass ==
    /\ ~passRuns /\ passRuns' = TRUE
    /\ stage' = [r \in Reservations |->
                    IF when[r] = "tomorrow" /\ ~AlreadySent(r) THEN "todo" ELSE "out"]
    /\ UNCHANGED <<when, rowVars, triesLeft, historyVars, mishaps>>

(* No phone, or the venue has reminders switched off: the orchestrator     *)
(* falls back to a mail, which cannot be queued in a scope that has no     *)
(* tenant.  The exception is swallowed.                                    *)
FallBackToMail(r) ==
    /\ stage[r] = "todo" /\ InHand = {} /\ To(r, "out")
    /\ UNCHANGED <<when, rowVars, passRuns, triesLeft, historyVars, mishaps>>

(* What a save writes that includes the reminder row of r with status s.   *)
Saved(r, s) ==
    [x \in Reservations |->
        IF x = r THEN s ELSE IF unsaved[x] # "nothing" THEN unsaved[x] ELSE message[x]]

(* SendTextAsync inserts the row before it calls.                          *)
Record(r) ==
    /\ stage[r] = "todo" /\ InHand = {} /\ ~stuck
    /\ message' = Saved(r, "queued") /\ unsaved' = NothingUnsaved
    /\ triesLeft' = Tries /\ To(r, "calling")
    /\ UNCHANGED <<when, passRuns, stuck, historyVars, mishaps>>

(* The orchestrator swallows the exception, the row stays in the context.  *)
RecordFails(r) ==
    /\ stage[r] = "todo" /\ InHand = {} /\ To(r, "out")
    /\ unsaved' = [unsaved EXCEPT ![r] = "queued"] /\ broken' = broken \cup {r}
    /\ IF stuck THEN UNCHANGED mishaps ELSE Mishap
    /\ UNCHANGED <<when, message, passRuns, triesLeft, stuck, reminded, slips>>

(* Saved, but the answer is lost: all later saves repeat the insert.       *)
RecordUnheard(r) ==
    /\ stage[r] = "todo" /\ InHand = {} /\ ~stuck /\ To(r, "out")
    /\ message' = Saved(r, "queued") /\ stuck' = TRUE
    /\ unsaved' = [unsaved EXCEPT ![r] = "queued"] /\ broken' = broken \cup {r}
    /\ Mishap
    /\ UNCHANGED <<when, passRuns, triesLeft, reminded, slips>>

-----------------------------------------------------------------------------
Accept(r) ==
    /\ stage[r] = "calling" /\ To(r, "noting")
    /\ reminded' = [reminded EXCEPT ![r] = @ + 1]
    /\ UNCHANGED <<when, rowVars, passRuns, triesLeft, slips, broken, mishaps>>

(* Polly calls again until no retry is left.                               *)
NextTry(r) ==
    /\ triesLeft' = triesLeft - 1
    /\ To(r, IF triesLeft > 1 THEN "calling" ELSE "failing")

AcceptUnheard(r) ==
    /\ stage[r] = "calling" /\ NextTry(r) /\ Mishap
    /\ reminded' = [reminded EXCEPT ![r] = @ + 1] /\ slips' = [slips EXCEPT ![r] = @ + 1]
    /\ UNCHANGED <<when, rowVars, passRuns, broken>>

RefuseCall(r) ==
    /\ stage[r] = "calling" /\ NextTry(r)
    /\ UNCHANGED <<when, rowVars, passRuns, historyVars, mishaps>>

NoteSent(r) ==
    /\ stage[r] = "noting" /\ To(r, "out")
    /\ message' = [message EXCEPT ![r] = "sent"]
    /\ UNCHANGED <<when, passRuns, triesLeft, unsaved, stuck, historyVars, mishaps>>

(* An exception of that save, done or not, is taken for one of the call.   *)
NoteSentFails(r) ==
    /\ stage[r] = "noting" /\ To(r, "failing") /\ Mishap
    /\ message' \in {message, [message EXCEPT ![r] = "sent"]}
    /\ slips' = [slips EXCEPT ![r] = @ + 1]
    /\ UNCHANGED <<when, passRuns, triesLeft, unsaved, stuck, reminded, broken>>

NoteFailed(r) ==
    /\ stage[r] = "failing" /\ To(r, "out")
    /\ message' = [message EXCEPT ![r] = "failed"]
    /\ UNCHANGED <<when, passRuns, triesLeft, unsaved, stuck, historyVars, mishaps>>

NoteFailedFails(r) ==
    /\ stage[r] = "failing" /\ To(r, "out") /\ Mishap
    /\ message' \in {message, [message EXCEPT ![r] = "failed"]}
    /\ unsaved' = [unsaved EXCEPT ![r] = "failed"] /\ broken' = broken \cup {r}
    /\ UNCHANGED <<when, passRuns, triesLeft, stuck, reminded, slips>>

-----------------------------------------------------------------------------
(* The scope ends, and with it what is unsaved.                            *)
LeavePass ==
    /\ passRuns /\ passRuns' = FALSE /\ stage' = Nowhere
    /\ unsaved' = NothingUnsaved /\ stuck' = FALSE

EndPass ==
    /\ stage = Nowhere /\ LeavePass
    /\ UNCHANGED <<when, message, triesLeft, historyVars, mishaps>>

(* The process ends, or is told to: each await then throws, and the save   *)
(* that should note it throws too.                                         *)
ProcessEnds ==
    /\ LeavePass /\ Mishap /\ broken' = broken \cup InHand
    /\ UNCHANGED <<when, message, triesLeft, reminded, slips>>

RemindersNext ==
    \/ StartPass \/ EndPass \/ ProcessEnds
    \/ \E r \in Reservations :
          \/ ComesNear(r) \/ Passes(r) \/ FallBackToMail(r)
          \/ Record(r) \/ RecordFails(r) \/ RecordUnheard(r)
          \/ Accept(r) \/ AcceptUnheard(r) \/ RefuseCall(r)
          \/ NoteSent(r) \/ NoteSentFails(r) \/ NoteFailed(r) \/ NoteFailedFails(r)

RemindersSpec == RemindersInit /\ [][RemindersNext]_reminderVars
-----------------------------------------------------------------------------
RemindersTypeOK ==
    /\ when \in [Reservations -> {"ahead", "tomorrow", "past"}]
    /\ message \in [Reservations -> {"none", "queued", "sent", "failed"}]
    /\ stage \in [Reservations -> Stages]
    /\ unsaved \in [Reservations -> {"nothing", "queued", "failed"}]
    /\ passRuns \in BOOLEAN /\ stuck \in BOOLEAN /\ triesLeft \in Nat /\ mishaps \in Nat
    /\ reminded \in [Reservations -> Nat] /\ slips \in [Reservations -> Nat]
    /\ broken \subseteq Reservations

(* A guest is reminded once, over all passes and restarts: a second time   *)
(* only for each accepted message that the server took for a failed one,   *)
(* and not at all, though the row says that the reminder is on its way or  *)
(* sent, only if a failed save or the end of the process cut its sending   *)
(* short.                                                                  *)
RemindedOnce ==
    \A r \in Reservations :
        /\ reminded[r] <= slips[r] + 1
        /\ AlreadySent(r) /\ r \notin InHand /\ reminded[r] = 0 => r \in broken
=============================================================================

----------------------------- MODULE MailQueue -----------------------------
(***************************************************************************)
(* The queue of mails in Redis and the one worker that empties it:         *)
(* EmailQueueService, EmailWorkerService and SendGridEmailService.  A mail *)
(* is off the list before it is sent, and its log entries are written      *)
(* after; in between are retries, saves that fail and ends of the process. *)
(***************************************************************************)
EXTENDS Naturals, Sequences

CONSTANTS
    MaxQueued,         \* bound on mails put into the queue
    MailTries,         \* calls of SendGrid for one mail: the first, and the retries
    MaxTroubles        \* bound on failures

ASSUME MailAssumption == MaxQueued \in Nat /\ MailTries \in Nat \ {0} /\ MaxTroubles \in Nat

VARIABLES
    mailQueue,         \* the list, its right end first; mails are 1, 2, ...
    mailsQueued,
    worker,            \* what EmailWorkerService does, and with which mail
    unwritten,         \* log entries that its DbContext still has to save
    mailLog,           \* NotificationLogs: pairs of a mail and a status
    accepted,          \* history: [mails -> times accepted by SendGrid]
    unheard,           \* history: [mails -> acceptances whose answer was lost]
    mislaid,           \* history: mails that a failure took from the worker
    troubles

mailVars == <<mailQueue, mailsQueued, worker, unwritten, mailLog,
              accepted, unheard, mislaid, troubles>>

Mail == 1 .. MaxQueued
LogStatus == {"Sent", "Failed"}
Worker == [at : {"waiting", "sending", "sent", "failed"}, mail : 0 .. MaxQueued,
           left : 0 .. MailTries]

Waiting == [at |-> "waiting", mail |-> 0, left |-> 0]
Trouble == troubles < MaxTroubles /\ troubles' = troubles + 1

MailInit ==
    /\ mailQueue = <<>> /\ mailsQueued = 0 /\ worker = Waiting
    /\ unwritten = {} /\ mailLog = {}
    /\ accepted = [m \in Mail |-> 0] /\ unheard = [m \in Mail |-> 0]
    /\ mislaid = {} /\ troubles = 0

(* LPUSH by a request that has a tenant; one without throws before it.     *)
Enqueue ==
    /\ mailsQueued < MaxQueued
    /\ mailsQueued' = mailsQueued + 1 /\ mailQueue' = Append(mailQueue, mailsQueued + 1)
    /\ UNCHANGED <<worker, unwritten, mailLog, accepted, unheard, mislaid, troubles>>

LeftInQueue == mailQueue
AfterPop == Tail(mailQueue)

(* RPOP                                                                    *)
Dequeue ==
    /\ worker = Waiting /\ mailQueue # <<>>
    /\ mailQueue' = AfterPop
    /\ worker' = [at |-> "sending", mail |-> Head(mailQueue), left |-> MailTries]
    /\ UNCHANGED <<mailsQueued, unwritten, mailLog, accepted, unheard, mislaid, troubles>>

(* Redis has removed it, the answer is lost: DequeueAsync says null.       *)
DequeueUnheard ==
    /\ worker = Waiting /\ mailQueue # <<>> /\ Trouble
    /\ mailQueue' = AfterPop /\ mislaid' = mislaid \cup {Head(mailQueue)}
    /\ UNCHANGED <<mailsQueued, worker, unwritten, mailLog, accepted, unheard>>

-----------------------------------------------------------------------------
AcceptMail ==
    /\ worker.at = "sending" /\ worker' = [worker EXCEPT !.at = "sent"]
    /\ accepted' = [accepted EXCEPT ![worker.mail] = @ + 1]
    /\ UNCHANGED <<mailQueue, mailsQueued, unwritten, mailLog, unheard, mislaid, troubles>>

NextMailTry ==
    worker' = [worker EXCEPT !.left = @ - 1, !.at = IF worker.left > 1 THEN @ ELSE "failed"]

AcceptMailUnheard ==
    /\ worker.at = "sending" /\ NextMailTry /\ Trouble
    /\ accepted' = [accepted EXCEPT ![worker.mail] = @ + 1]
    /\ unheard' = [unheard EXCEPT ![worker.mail] = @ + 1]
    /\ UNCHANGED <<mailQueue, mailsQueued, unwritten, mailLog, mislaid>>

RefuseMail ==
    /\ worker.at = "sending" /\ NextMailTry
    /\ UNCHANGED <<mailQueue, mailsQueued, unwritten, mailLog, accepted, unheard,
                   mislaid, troubles>>

-----------------------------------------------------------------------------
(* SaveNotificationLogAsync, with the entry it adds: both of a mail go out *)
(* together if the first was not saved.                                    *)
Entries(s) == unwritten \cup {<<worker.mail, s>>}
StatusToLog == IF worker.at = "sent" THEN "Sent" ELSE "Failed"

WriteLog ==
    /\ worker.at \in {"sent", "failed"} /\ unwritten \cap mailLog = {}
    /\ mailLog' = mailLog \cup Entries(StatusToLog)
    /\ worker' = Waiting /\ unwritten' = {}
    /\ UNCHANGED <<mailQueue, mailsQueued, accepted, unheard, mislaid, troubles>>

(* The first entry not saved, or saved and not heard of, is a failure of   *)
(* the mail; the second goes to the worker, which waits and forgets both.  *)
(* An entry that was saved unheard stands in the way of the second.        *)
WriteLogFails ==
    /\ worker.at \in {"sent", "failed"}
    /\ \/ Trouble /\ unwritten \cap mailLog = {}
          /\ mailLog' \in {mailLog, mailLog \cup Entries(StatusToLog)}
       \/ unwritten \cap mailLog # {} /\ UNCHANGED <<troubles, mailLog>>
    /\ IF worker.at = "sent"
       THEN /\ worker' = [worker EXCEPT !.at = "failed"] /\ unwritten' = Entries("Sent")
            /\ UNCHANGED mislaid
       ELSE /\ worker' = Waiting /\ unwritten' = {}
            /\ mislaid' = mislaid \cup {worker.mail}
    /\ UNCHANGED <<mailQueue, mailsQueued, accepted, unheard>>

(* The process ends with a mail in hand.                                   *)
WorkerEnds ==
    /\ worker # Waiting /\ Trouble
    /\ worker' = Waiting /\ unwritten' = {} /\ mislaid' = mislaid \cup {worker.mail}
    /\ UNCHANGED <<mailQueue, mailsQueued, mailLog, accepted, unheard>>

MailNext ==
    \/ Enqueue \/ Dequeue \/ DequeueUnheard
    \/ AcceptMail \/ AcceptMailUnheard \/ RefuseMail
    \/ WriteLog \/ WriteLogFails \/ WorkerEnds

MailSpec == MailInit /\ [][MailNext]_mailVars
-----------------------------------------------------------------------------
MailTypeOK ==
    /\ mailQueue \in Seq(Mail) /\ mailsQueued \in 0 .. MaxQueued /\ worker \in Worker
    /\ unwritten \subseteq Mail \X LogStatus /\ mailLog \subseteq Mail \X LogStatus
    /\ accepted \in [Mail -> Nat] /\ unheard \in [Mail -> Nat]
    /\ mislaid \subseteq Mail /\ troubles \in Nat

Logged(m) == \E s \in LogStatus : <<m, s>> \in mailLog

(* Every mail is in the queue, in the worker's hands or in the log, unless *)
(* a failure took it from the worker; it is sent once more only for each   *)
(* answer of SendGrid that was lost; and the log says Sent of none that    *)
(* was not, and nothing but Failed of one only if no answer of SendGrid    *)
(* was heard to accept it.                                                 *)
MailsAreAccounted ==
    \A m \in 1 .. mailsQueued :
        /\ \/ \E i \in DOMAIN mailQueue : mailQueue[i] = m
           \/ worker.mail = m \/ Logged(m) \/ m \in mislaid
        /\ accepted[m] <= unheard[m] + 1
        /\ <<m, "Sent">> \in mailLog => accepted[m] > 0
        /\ Logged(m) /\ <<m, "Sent">> \notin mailLog => accepted[m] = unheard[m]
=============================================================================

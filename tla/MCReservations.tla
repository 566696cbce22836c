--------------------------- MODULE MCReservations ---------------------------
(***************************************************************************)
(* What the server does with reservations once they are made: their status *)
(* (Lifecycle), the reminders and the mails about them.  The three share   *)
(* no state that any of them tests; part says which one is looked at, the  *)
(* others rest in their initial states.                                    *)
(***************************************************************************)
EXTENDS Lifecycle, Reminders, MailQueue, TLC

VARIABLE part

Symmetric == Permutations(Rows) \cup Permutations(Workers) \cup Permutations(Reservations)

MCInit ==
    /\ part \in {"status", "reminders", "mails"}
    /\ Init /\ RemindersInit /\ MailInit

MCNext ==
    /\ UNCHANGED part
    /\ \/ part = "status" /\ Next /\ UNCHANGED <<reminderVars, mailVars>>
       \/ part = "reminders" /\ RemindersNext /\ UNCHANGED <<vars, mailVars>>
       \/ part = "mails" /\ MailNext /\ UNCHANGED <<vars, reminderVars>>

MCSpec == MCInit /\ [][MCNext]_<<part, vars, reminderVars, mailVars>>
=============================================================================

------------------------------- MODULE Customers -------------------------------
(***************************************************************************)
(* CustomersPage and CustomerDetailDrawer: a customer's tier, blacklisting *)
(* and notes are edited in one form and saved by up to three requests, one *)
(* after the other.  Each success has the customer read again, and what is *)
(* read fills the form again, while the other requests are still to come.  *)
(***************************************************************************)
EXTENDS Integers, Sequences, FiniteSets

CONSTANTS
    Customers,
    Touched,            \* bound: the fields that anybody changes
    MaxCustomerSaves    \* bound on saves, a colleague's too

ASSUME CustomersAssumption ==
    /\ IsFiniteSet(Customers) /\ MaxCustomerSaves \in Nat
    /\ Touched \subseteq {"tier", "blacklist", "notes"}

VARIABLES
    customerRows,   \* [Customers -> rows], the server's
    known,          \* [Customers -> cached row, or Unknown]
    reads,          \* [Customers -> the query: idle, sent, or the row it has read]
    invalid,        \* customers to be read again when they are selected
    drawn,          \* the drawer's customer, or "none"
    customerForm,   \* what the drawer's fields hold
    customerSaves,  \* handleSave in progress
    savesBegun,     \* saves so far
    meant,          \* history: the form of each customer's last save
    confused        \* history: customers whose last save was pressed while the page did
                    \* not show the row, or another save of it was under way; or failed

customerVars == <<customerRows, known, reads, invalid, drawn, customerForm,
                  customerSaves, savesBegun, meant, confused>>

(* The fields, in the order of handleSave; 0 is what they were at first.   *)
Steps == <<"tier", "blacklist", "notes">>
Entry == [{"tier", "blacklist", "notes"} -> {0, 1}]
AsAtFirst == [f \in {"tier", "blacklist", "notes"} |-> 0]

(* updatedAt, which every command sets, makes each saved row a new one.    *)
Stamped == [entry : Entry, updatedAt : 0 .. 3 * MaxCustomerSaves]
Unknown == [entry |-> AsAtFirst, updatedAt |-> -1]
QueryIdle == [at |-> "idle"]
QuerySent == [at |-> "sent"]

(* base: the customer of the closure, want: the form of the closure.       *)
CustomerSave == [id : 1 .. MaxCustomerSaves, who : Customers, base : Entry, want : Entry,
                 step : 1 .. 3, at : {"sent", "saved", "refused"}]

CustomersInit ==
    /\ customerRows = [c \in Customers |-> [entry |-> AsAtFirst, updatedAt |-> 0]]
    /\ known = [c \in Customers |-> Unknown] /\ reads = [c \in Customers |-> QueryIdle]
    /\ invalid = {} /\ drawn = "none" /\ customerForm = AsAtFirst
    /\ customerSaves = {} /\ savesBegun = 0
    /\ meant = [c \in Customers |-> AsAtFirst] /\ confused = {}

-----------------------------------------------------------------------------
(* handleCustomerClick: a customer that is not known, or to be read again, *)
(* is asked for; a known one fills the form at once.  Clicking the same    *)
(* one again leaves what was typed.                                        *)
SelectCustomer(c) ==
    /\ c # drawn
    /\ drawn' = c
    /\ reads' = IF reads[c] = QueryIdle /\ (known[c] = Unknown \/ c \in invalid)
                THEN [reads EXCEPT ![c] = QuerySent] ELSE reads
    /\ invalid' = invalid \ {c}
    /\ customerForm' = IF known[c] = Unknown THEN customerForm ELSE known[c].entry
    /\ UNCHANGED <<customerRows, known, customerSaves, savesBegun, meant, confused>>

ReadCustomer(c) ==
    /\ reads[c] = QuerySent
    /\ reads' = [reads EXCEPT ![c] = [at |-> "read", row |-> customerRows[c]]]
    /\ UNCHANGED <<customerRows, known, invalid, drawn, customerForm, customerSaves,
                   savesBegun, meant, confused>>

(* The effect on customer fills the form from a row that is not the one    *)
(* that was known.                                                         *)
CustomerArrives(c) ==
    /\ reads[c].at = "read"
    /\ known' = [known EXCEPT ![c] = reads[c].row]
    /\ reads' = [reads EXCEPT ![c] = QueryIdle]
    /\ customerForm' = IF c = drawn /\ known[c] # reads[c].row
                       THEN reads[c].row.entry ELSE customerForm
    /\ UNCHANGED <<customerRows, invalid, drawn, customerSaves, savesBegun, meant, confused>>

(* A customer never read is then not shown at all.                         *)
ReadFails(c) ==
    /\ reads[c] # QueryIdle
    /\ reads' = [reads EXCEPT ![c] = QueryIdle]
    /\ invalid' = invalid \cup {c}
    /\ UNCHANGED <<customerRows, known, drawn, customerForm, customerSaves, savesBegun,
                   meant, confused>>

ShowsCustomer == drawn # "none" /\ known[drawn] # Unknown

TypeEntry(f) ==
    /\ ShowsCustomer /\ savesBegun < MaxCustomerSaves
    /\ customerForm' = [customerForm EXCEPT ![f] = 1 - @]
    /\ UNCHANGED <<customerRows, known, reads, invalid, drawn, customerSaves, savesBegun,
                   meant, confused>>

-----------------------------------------------------------------------------
(* The next request of a save at or after a step: 4 when there is none.    *)
NextRequest(q, k) ==
    CHOOSE n \in k .. 4 :
        /\ n < 4 => q.want[Steps[n]] # q.base[Steps[n]]
        /\ \A i \in k .. n - 1 : q.want[Steps[i]] = q.base[Steps[i]]

Proceed(q, k, others) ==
    IF NextRequest(q, k) = 4 THEN others
    ELSE others \cup {[q EXCEPT !.step = NextRequest(q, k), !.at = "sent"]}

(* The button is not disabled while a save is under way.                   *)
PressSave ==
    /\ ShowsCustomer /\ savesBegun < MaxCustomerSaves
    /\ savesBegun' = savesBegun + 1
    /\ customerSaves' = Proceed([id |-> savesBegun + 1, who |-> drawn, step |-> 1, at |-> "sent",
                                 base |-> known[drawn].entry, want |-> customerForm],
                                1, customerSaves)
    /\ meant' = [meant EXCEPT ![drawn] = customerForm]
    /\ confused' = IF \/ known[drawn] # customerRows[drawn]
                      \/ \E q \in customerSaves : q.who = drawn
                   THEN confused \cup {drawn} ELSE confused \ {drawn}
    /\ UNCHANGED <<customerRows, known, reads, invalid, drawn, customerForm>>

ValueOfForm(q) == customerForm[Steps[q.step]]

(* The closure's value, whatever the form holds by now.                    *)
ValueToSend(q) == q.want[Steps[q.step]]

(* UpdateCustomerTier, -Blacklist and -NotesCommandHandler.                *)
HandleCustomer(q) ==
    /\ q.at = "sent"
    /\ customerRows' = [customerRows EXCEPT ![q.who] =
          [entry |-> [@.entry EXCEPT ![Steps[q.step]] = ValueToSend(q)],
           updatedAt |-> @.updatedAt + 1]]
    /\ customerSaves' = (customerSaves \ {q}) \cup {[q EXCEPT !.at = "saved"]}
    /\ UNCHANGED <<known, reads, invalid, drawn, customerForm, savesBegun, meant, confused>>
RefuseCustomer(q) ==
    /\ q.at = "sent"
    /\ customerSaves' = (customerSaves \ {q}) \cup {[q EXCEPT !.at = "refused"]}
    /\ UNCHANGED <<customerRows, known, reads, invalid, drawn, customerForm, savesBegun,
                   meant, confused>>

(* onSuccess has the customer read again, at once when it is the drawer's, *)
(* and the next request goes off.                                          *)
CustomerSaved(q) ==
    /\ q.at = "saved"
    /\ customerSaves' = Proceed(q, q.step + 1, customerSaves \ {q})
    /\ reads' = IF q.who = drawn THEN [reads EXCEPT ![q.who] = QuerySent] ELSE reads
    /\ invalid' = IF q.who = drawn THEN invalid ELSE invalid \cup {q.who}
    /\ UNCHANGED <<customerRows, known, drawn, customerForm, savesBegun, meant, confused>>

(* A failure, or no answer, ends the save where it is.                     *)
SaveStops(q) ==
    /\ customerSaves' = customerSaves \ {q}
    /\ confused' = confused \cup {q.who}
    /\ UNCHANGED <<customerRows, known, reads, invalid, drawn, customerForm, savesBegun, meant>>
CustomerRefused(q) == q.at = "refused" /\ SaveStops(q)
CustomerUnheard(q) == q.at # "refused" /\ SaveStops(q)

(* A colleague changes one thing; a save of here may have been overtaken.  *)
ColleagueSaves(c, f) ==
    /\ savesBegun < MaxCustomerSaves
    /\ customerRows' = [customerRows EXCEPT ![c] =
          [entry |-> [@.entry EXCEPT ![f] = 1 - customerRows[c].entry[f]],
           updatedAt |-> @.updatedAt + 1]]
    /\ savesBegun' = savesBegun + 1
    /\ meant' = [meant EXCEPT ![c][f] = 1 - customerRows[c].entry[f]]
    /\ confused' = IF \E q \in customerSaves : q.who = c THEN confused \cup {c} ELSE confused
    /\ UNCHANGED <<known, reads, invalid, drawn, customerForm, customerSaves>>

CustomersNext ==
    \/ \E c \in Customers :
          \/ SelectCustomer(c) \/ ReadCustomer(c) \/ CustomerArrives(c) \/ ReadFails(c)
          \/ \E f \in Touched : ColleagueSaves(c, f)
    \/ \E f \in Touched : TypeEntry(f)
    \/ PressSave
    \/ \E q \in customerSaves :
          \/ HandleCustomer(q) \/ RefuseCustomer(q) \/ CustomerSaved(q) \/ CustomerRefused(q)
          \/ CustomerUnheard(q)

CustomersSpec == CustomersInit /\ [][CustomersNext]_customerVars
-----------------------------------------------------------------------------
CustomersTypeOK ==
    /\ customerRows \in [Customers -> Stamped]
    /\ known \in [Customers -> Stamped \cup {Unknown}] /\ DOMAIN reads = Customers
    /\ invalid \subseteq Customers /\ drawn \in Customers \cup {"none"}
    /\ customerForm \in Entry /\ customerSaves \subseteq CustomerSave
    /\ savesBegun \in 0 .. MaxCustomerSaves
    /\ meant \in [Customers -> Entry] /\ confused \subseteq Customers

(* A save that is through has stored every field as the form held it when  *)
(* the button was pressed, though the answers to its first requests have   *)
(* filled the form with the old values of the others, and another customer *)
(* may be in the drawer by now.  Not claimed when the page did not show    *)
(* the row as it was when the button was pressed, as it is until a save's  *)
(* answer has been followed by the read, when two saves overlapped, or     *)
(* when a request failed: the rest is then not sent.                       *)
SavedAsEntered ==
    \A c \in Customers \ confused :
        (\A q \in customerSaves : q.who # c) => customerRows[c].entry = meant[c]
=============================================================================

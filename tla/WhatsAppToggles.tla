--------------------------- MODULE WhatsAppToggles ---------------------------
(***************************************************************************)
(* The WhatsApp switches of one venue in the admin panel.  A click sends   *)
(* all of them, the one clicked and the others as the page has them, and   *)
(* the switches are locked until the answer, but not until the list that   *)
(* the answer asks for.  The test message changes nothing and is left out. *)
(***************************************************************************)
EXTENDS Integers, FiniteSets

CONSTANTS
    Notifications,      \* kinds of message that can be switched
    MaxClicks           \* bound on clicks

Master == "whatsAppEnabled"
Switches == Notifications \cup {Master}

ASSUME WhatsAppAssumption == Master \notin Notifications /\ MaxClicks \in Nat

VARIABLES
    venueSwitches,      \* [Switches -> BOOLEAN], the server's
    switchesShown,      \* [Switches -> BOOLEAN], the cached settings
    puts,               \* updates that are not answered yet
    clicks,
    switchFetch,        \* the settings query
    chosen,             \* history: where the owner last put each switch
    tooSoon             \* history: clicked before the settings were settled,
                        \* or an answer was lost

whatsAppVars ==
    <<venueSwitches, switchesShown, puts, clicks, switchFetch, chosen, tooSoon>>

Put == [id : 1 .. MaxClicks, body : [Switches -> BOOLEAN], locks : BOOLEAN,
        at : {"sent", "saved", "refused"}]
SwitchesSettled == puts = {} /\ switchFetch.at = "idle"

WhatsAppInit ==
    /\ venueSwitches \in [Switches -> BOOLEAN]
    /\ switchesShown = venueSwitches /\ chosen = venueSwitches
    /\ puts = {} /\ clicks = 0 /\ switchFetch = [at |-> "idle"] /\ tooSoon = FALSE

BodyOfField(switch, value) == [s \in {switch} |-> value]

BodyOfOne(switch, value) == [s \in Switches |-> s = switch /\ value]

(* handleToggle: { ...settings, [field]: value }                           *)
Body(switch, value) == [switchesShown EXCEPT ![switch] = value]

(* The other switches are locked while WhatsApp is off.                    *)
ClickSwitch(switch) ==
    /\ clicks < MaxClicks /\ ~\E p \in puts : p.locks
    /\ switch = Master \/ switchesShown[Master]
    /\ clicks' = clicks + 1
    /\ puts' = puts \cup {[id |-> clicks + 1, body |-> Body(switch, ~switchesShown[switch]),
                           locks |-> TRUE, at |-> "sent"]}
    /\ chosen' = [chosen EXCEPT ![switch] = ~switchesShown[switch]]
    /\ tooSoon' = (tooSoon \/ ~SwitchesSettled)
    /\ UNCHANGED <<venueSwitches, switchesShown, switchFetch>>

(* Another tab of the settings and back: the lock is gone.                 *)
LeaveWhatsApp ==
    /\ \E p \in puts : p.locks
    /\ puts' = {[p EXCEPT !.locks = FALSE] : p \in puts}
    /\ UNCHANGED <<venueSwitches, switchesShown, clicks, switchFetch, chosen, tooSoon>>

(* Reading and saving are one step: two updates overlap only when the      *)
(* second was clicked too soon.                                            *)
SaveSwitches(p) ==
    /\ p.at = "sent"
    /\ venueSwitches' = p.body
    /\ puts' = (puts \ {p}) \cup {[p EXCEPT !.at = "saved"]}
    /\ UNCHANGED <<switchesShown, clicks, switchFetch, chosen, tooSoon>>
RefuseSwitches(p) ==
    /\ p.at = "sent"
    /\ puts' = (puts \ {p}) \cup {[p EXCEPT !.at = "refused"]}
    /\ UNCHANGED <<venueSwitches, switchesShown, clicks, switchFetch, chosen, tooSoon>>

(* An error leaves the page as it is, and the owner knows.                 *)
PutAnswered(p) ==
    /\ p.at # "sent"
    /\ puts' = puts \ {p}
    /\ switchFetch' = IF p.at = "saved" THEN [at |-> "sent"] ELSE switchFetch
    /\ chosen' = IF p.at = "saved" THEN chosen ELSE venueSwitches
    /\ UNCHANGED <<venueSwitches, switchesShown, clicks, tooSoon>>
PutLost(p) ==
    /\ puts' = puts \ {p} /\ tooSoon' = TRUE
    /\ UNCHANGED <<venueSwitches, switchesShown, clicks, switchFetch, chosen>>

ReadSwitches ==
    /\ switchFetch.at = "sent"
    /\ switchFetch' = [at |-> "read", rows |-> venueSwitches]
    /\ UNCHANGED <<venueSwitches, switchesShown, puts, clicks, chosen, tooSoon>>
SwitchesArrive ==
    /\ switchFetch.at = "read"
    /\ switchesShown' = switchFetch.rows
    /\ switchFetch' = [at |-> "idle"]
    /\ UNCHANGED <<venueSwitches, puts, clicks, chosen, tooSoon>>
SwitchesFail ==
    /\ switchFetch.at # "idle"
    /\ switchFetch' = [at |-> "idle"] /\ tooSoon' = TRUE
    /\ UNCHANGED <<venueSwitches, switchesShown, puts, clicks, chosen>>

WhatsAppNext ==
    \/ \E s \in Switches : ClickSwitch(s)
    \/ LeaveWhatsApp \/ ReadSwitches \/ SwitchesArrive \/ SwitchesFail
    \/ \E p \in puts : SaveSwitches(p) \/ RefuseSwitches(p) \/ PutAnswered(p) \/ PutLost(p)

WhatsAppSpec == WhatsAppInit /\ [][WhatsAppNext]_whatsAppVars
-----------------------------------------------------------------------------
WhatsAppTypeOK ==
    /\ {venueSwitches, switchesShown, chosen} \subseteq [Switches -> BOOLEAN]
    /\ puts \subseteq Put /\ clicks \in 0 .. MaxClicks
    /\ switchFetch.at \in {"idle", "sent", "read"} /\ tooSoon \in BOOLEAN

(* Every switch ends up where the owner put it, though each click writes   *)
(* all of them, unless the owner clicked a second switch before the new    *)
(* settings were on the page: that click takes back the first.             *)
SwitchesAreKept ==
    SwitchesSettled /\ ~tooSoon => venueSwitches = chosen
=============================================================================

----------------------------- MODULE PageProofs -----------------------------
(***************************************************************************)
(* What a page shows and what it saves, for any number of rules, switches, *)
(* tables, reservations and of changes; and the panels' parts together.    *)
(* The list of rules: rows that the page has not got are always announced  *)
(* by something that is still on its way, first by the change that was     *)
(* saved, whose answer asks for the list, then by the list itself.         *)
(* A rule's switch: of a rule the owner was not hasty with one change at   *)
(* most would set it, to where it was asked to be.                         *)
(* The WhatsApp switches: until one is clicked too soon, one update at     *)
(* most is on its way, made of what the server has and the last choice.    *)
(* The tables: of a table that was not touched again too soon one request  *)
(* at most is about its switch, and it says what is still to be done.      *)
(* The reservation dialog: without a lost answer or an early leave, one    *)
(* creation at most is under way, of the opening that is on the page; and  *)
(* every hour that counts as clicked is one that can be clicked.           *)
(* The drawer: a status its detail does not have yet is announced, by a    *)
(* change whose answer will ask for it or by the query that is under way.  *)
(* The builder: what it has of a rule that was not touched is stored.      *)
(***************************************************************************)
EXTENDS MCAdmin, AccessProofs, PlatformProofs, TLAPS

(* What is still on its way to tell the page of the server's rows.         *)
Announced ==
    \/ missed
    \/ \E c \in changes : c.at = "saved"
    \/ refetch.at = "sent"
    \/ refetch.at = "read" /\ refetch.rows = ruleRows
    \/ refetch.at = "idle" /\ listed = ruleRows

ServerIsTyped ==
    /\ ruleRows \in [Rules -> RuleRow]
    /\ changes \subseteq Change
    /\ made \in 0 .. MaxChanges

PageIsTyped ==
    /\ listed \in [Rules -> RuleRow]
    /\ refetch \in [at : {"idle", "sent"}] \cup [at : {"read"}, rows : [Rules -> RuleRow]]
    /\ editing \in Rules \cup {"none"} /\ snapshot \in RuleRow
    /\ asked \in [Rules -> BOOLEAN] /\ hasty \subseteq Rules /\ missed \in BOOLEAN

ListInv == ServerIsTyped /\ PageIsTyped /\ Announced

LEMMA RuleRowTypes ==
    /\ NoRow \in RuleRow /\ [NoRow EXCEPT !.is = "there", !.active = TRUE] \in RuleRow
    /\ NewPriority \in Nat
    /\ NoOrder \in [Rules -> Nat]
    /\ Idle \in [at : {"idle", "sent"}] /\ Sent \in [at : {"idle", "sent"}]
BY DEF NoRow, RuleRow, NewPriority, NoOrder, Idle, Sent

LEMMA ListInitInv == ListInit => ListInv
<1> SUFFICES ASSUME ListInit PROVE ListInv
  OBVIOUS
<1>1. ruleRows \in [Rules -> RuleRow]
  BY RuleRowTypes DEF ListInit
<1>2. \A r \in Rules : ruleRows[r].active \in BOOLEAN
  BY <1>1 DEF RuleRow
<1>3. changes = {} /\ made \in 0 .. MaxChanges
  BY RuleListAssumption DEF ListInit
<1>4. listed = ruleRows /\ refetch = Idle /\ Idle.at = "idle"
  BY DEF ListInit, Idle
<1>5. /\ editing = "none" /\ snapshot \in RuleRow
      /\ asked \in [Rules -> BOOLEAN] /\ hasty = {} /\ missed \in BOOLEAN
  BY <1>2, RuleRowTypes DEF ListInit
<1> QED
  BY <1>1, <1>3, <1>4, <1>5, RuleRowTypes DEF ListInv, ServerIsTyped, PageIsTyped, Announced

(* A change that is sent adds to what is under way, and no more.           *)
LEMMA NewChangeStep ==
    ASSUME ListInv, NEW kind \in {"switch", "drag", "delete", "edit", "create"}, NEW r \in Rules,
           NEW active \in BOOLEAN, NEW order \in [Rules -> Nat],
           NewChange(kind, r, active, order),
           UNCHANGED <<ruleRows, listed, refetch, missed>>
    PROVE  ServerIsTyped' /\ Announced'
<1> DEFINE c == [id |-> made + 1, kind |-> kind, rule |-> r, active |-> active,
                 order |-> order, at |-> "sent"]
<1>1. made + 1 \in 1 .. MaxChanges
  BY RuleListAssumption DEF ListInv, ServerIsTyped, NewChange
<1>2. c \in Change
  BY <1>1 DEF Change
<1>3. made' = made + 1 /\ changes' = changes \cup {c}
  BY DEF NewChange
<1> HIDE DEF c
<1> QED
  BY <1>1, <1>2, <1>3 DEF ListInv, ServerIsTyped, Announced

(* What the owner does at the list and in the builder.                     *)
LEMMA AskStep ==
    ASSUME ListInv, NEW r \in Rules,
           ToggleRule(r) \/ DragRule(r) \/ DeleteRule(r) \/ CreateRule(r)
    PROVE  ListInv'
<1>1. CASE ToggleRule(r)
  <2>1. ServerIsTyped' /\ Announced'
    BY <1>1, NewChangeStep, RuleRowTypes DEF ToggleRule, built
  <2>2. (~listed[r].active) \in BOOLEAN
    OBVIOUS
  <2>3. PageIsTyped'
    BY <1>1, <2>2 DEF ToggleRule, built, ListInv, PageIsTyped
  <2> QED
    BY <2>1, <2>3 DEF ListInv
<1>2. CASE DragRule(r)
  <2>1. PICK f \in Dragged(r) :
            NewChange("drag", r, FALSE,
                      [x \in Rules |-> IF x \in There(listed) THEN 10 * f[x] ELSE 0])
    BY <1>2 DEF DragRule
  <2>2. \A x \in There(listed) : f[x] \in Nat
    BY DEF Dragged
  <2>3. [x \in Rules |-> IF x \in There(listed) THEN 10 * f[x] ELSE 0] \in [Rules -> Nat]
    BY <2>2
  <2> DEFINE order == [x \in Rules |-> IF x \in There(listed) THEN 10 * f[x] ELSE 0]
  <2> HIDE DEF order
  <2>4. NewChange("drag", r, FALSE, order) /\ order \in [Rules -> Nat]
    BY <2>1, <2>3 DEF order
  <2>5. UNCHANGED <<ruleRows, listed, refetch, built, history>>
    BY <1>2 DEF DragRule
  <2>6. ServerIsTyped' /\ Announced'
    BY <2>4, <2>5, NewChangeStep DEF history
  <2> QED
    BY <2>5, <2>6 DEF built, history, ListInv, PageIsTyped
<1>3. CASE DeleteRule(r)
  <2>1. ServerIsTyped' /\ Announced'
    BY <1>3, NewChangeStep, RuleRowTypes DEF DeleteRule, built, history
  <2> QED
    BY <1>3, <2>1 DEF DeleteRule, built, history, ListInv, PageIsTyped
<1>4. CASE CreateRule(r)
  <2>1. PICK active \in BOOLEAN :
            /\ NewChange("create", r, active, [NoOrder EXCEPT ![r] = NewPriority])
            /\ asked' = [asked EXCEPT ![r] = active]
    BY <1>4 DEF CreateRule
  <2>2. [NoOrder EXCEPT ![r] = NewPriority] \in [Rules -> Nat]
    BY RuleRowTypes
  <2>3. UNCHANGED <<ruleRows, listed, refetch, built, hasty, missed>>
    BY <1>4 DEF CreateRule
  <2>4. ServerIsTyped' /\ Announced'
    BY <2>1, <2>2, <2>3, NewChangeStep
  <2> QED
    BY <2>1, <2>3, <2>4 DEF built, ListInv, PageIsTyped
<1> QED
  BY <1>1, <1>2, <1>3, <1>4

LEMMA BuilderStep ==
    ASSUME ListInv, (\E r \in Rules : OpenRule(r)) \/ CloseRule \/ SubmitRule
    PROVE  ListInv'
<1>1. ASSUME NEW r \in Rules, OpenRule(r) PROVE ListInv'
  BY <1>1 DEF OpenRule, mutations, ListInv, ServerIsTyped, PageIsTyped, Announced
<1>2. CASE CloseRule
  BY <1>2, RuleRowTypes
  DEF CloseRule, mutations, history, ListInv, ServerIsTyped, PageIsTyped, Announced
<1>3. CASE SubmitRule
  <2> DEFINE priority == IF snapshot.priority \in 1 .. 10 THEN snapshot.priority ELSE NewPriority
             order == [NoOrder EXCEPT ![editing] = priority]
  <2>1. PICK active \in BOOLEAN :
            /\ NewChange("edit", editing, active, order)
            /\ asked' = IF active # snapshot.active THEN [asked EXCEPT ![editing] = active]
                        ELSE asked
    BY <1>3 DEF SubmitRule
  <2>2. editing \in Rules
    BY <1>3 DEF SubmitRule, ListInv, PageIsTyped
  <2>3. priority \in Nat
    BY RuleRowTypes DEF ListInv, PageIsTyped, RuleRow
  <2> HIDE DEF priority
  <2>4. order \in [Rules -> Nat]
    BY <2>3, RuleRowTypes
  <2>5. /\ editing' = "none" /\ snapshot' = NoRow
        /\ UNCHANGED <<ruleRows, listed, refetch, hasty, missed>>
    BY <1>3 DEF SubmitRule
  <2> HIDE DEF order
  <2>6. ServerIsTyped' /\ Announced'
    BY <2>1, <2>2, <2>4, <2>5, NewChangeStep
  <2> QED
    BY <2>1, <2>2, <2>5, <2>6, RuleRowTypes DEF ListInv, PageIsTyped
<1> QED
  BY <1>1, <1>2, <1>3

(* The server: rows change only by a change that is then saved.            *)
LEMMA RowsAfterTyped ==
    ASSUME ListInv, NEW c \in changes
    PROVE  RowsAfter(c) \in [Rules -> RuleRow]
<1>1. /\ c \in Change /\ c.rule \in Rules /\ c.active \in BOOLEAN /\ c.order \in [Rules -> Nat]
      /\ c.kind \in {"switch", "drag", "delete", "edit", "create"}
  BY DEF ListInv, ServerIsTyped, Change
<1>2. \A row \in RuleRow : /\ [row EXCEPT !.active = ~@] \in RuleRow
                           /\ [row EXCEPT !.is = "deleted"] \in RuleRow
                           /\ \A n \in Nat : [row EXCEPT !.priority = n] \in RuleRow
  BY DEF RuleRow
<1>3. ruleRows \in [Rules -> RuleRow]
  BY DEF ListInv, ServerIsTyped
<1>4. CASE c.kind = "switch"
  BY <1>1, <1>2, <1>3, <1>4 DEF RowsAfter, Switched
<1>5. CASE c.kind = "drag"
  BY <1>1, <1>2, <1>3, <1>5 DEF RowsAfter
<1>6. CASE c.kind = "delete"
  BY <1>1, <1>2, <1>3, <1>6 DEF RowsAfter
<1>7. CASE c.kind \in {"edit", "create"}
  <2>1. [is |-> "there", active |-> c.active, priority |-> c.order[c.rule]] \in RuleRow
    BY <1>1 DEF RuleRow
  <2>2. RowsAfter(c) = [ruleRows EXCEPT ![c.rule] =
                         [is |-> "there", active |-> c.active, priority |-> c.order[c.rule]]]
    BY <1>7 DEF RowsAfter
  <2> QED
    BY <1>3, <2>1, <2>2
<1> QED
  BY <1>1, <1>4, <1>5, <1>6, <1>7

LEMMA StageTyped ==
    ASSUME ListInv, NEW c \in changes, NEW at \in {"saved", "refused"}, SetChange(c, at)
    PROVE  /\ changes' \subseteq Change /\ made' = made
           /\ \E d \in changes' : d.at = at
           /\ \A d \in changes : d # c => d \in changes'
<1> DEFINE d == [c EXCEPT !.at = at]
<1>1. d \in Change /\ d.at = at
  BY DEF ListInv, ServerIsTyped, Change
<1>2. changes' = (changes \ {c}) \cup {d} /\ made' = made
  BY DEF SetChange
<1> HIDE DEF d
<1> QED
  BY <1>1, <1>2 DEF ListInv, ServerIsTyped

LEMMA ServerStep ==
    ASSUME ListInv, NEW c \in changes, HandleChange(c) \/ RefuseChange(c)
    PROVE  ListInv'
<1>1. CASE HandleChange(c)
  <2>1. /\ ruleRows' = RowsAfter(c) /\ SetChange(c, "saved")
        /\ UNCHANGED <<listed, refetch, built, history>>
    BY <1>1 DEF HandleChange
  <2>2. ruleRows' \in [Rules -> RuleRow]
    BY <2>1, RowsAfterTyped
  <2>3. changes' \subseteq Change /\ made' = made /\ \E d \in changes' : d.at = "saved"
    BY <2>1, StageTyped
  <2> QED
    BY <2>1, <2>2, <2>3
    DEF built, history, ListInv, ServerIsTyped, PageIsTyped, Announced
<1>2. CASE RefuseChange(c)
  <2>1. /\ c.at = "sent" /\ SetChange(c, "refused")
        /\ UNCHANGED <<ruleRows, listed, refetch, built, history>>
    BY <1>2 DEF RefuseChange
  <2>2. changes' \subseteq Change /\ made' = made /\ \A d \in changes : d # c => d \in changes'
    BY <2>1, StageTyped
  <2> QED
    BY <2>1, <2>2 DEF built, history, ListInv, ServerIsTyped, PageIsTyped, Announced
<1> QED
  BY <1>1, <1>2

(* The answers.  That of a saved change asks for the list; that of a       *)
(* refused one announced nothing; a lost one is remembered.                *)
LEMMA AnswerStep ==
    ASSUME ListInv, NEW c \in changes, ChangeSaved(c) \/ ChangeRefused(c) \/ ChangeLost(c)
    PROVE  ListInv'
<1>1. CASE ChangeSaved(c)
  BY <1>1, RuleRowTypes
  DEF ChangeSaved, Over, InvalidateRules, Sent, built, history,
      ListInv, ServerIsTyped, PageIsTyped, Announced
<1>2. CASE ChangeRefused(c)
  <2>1. c.rule \in Rules /\ ruleRows[c.rule].active \in BOOLEAN
    BY DEF ListInv, ServerIsTyped, Change, RuleRow
  <2>2. asked' \in [Rules -> BOOLEAN]
    BY <1>2, <2>1 DEF ChangeRefused, ListInv, PageIsTyped
  <2> QED
    BY <1>2, <2>2
    DEF ChangeRefused, Over, built, ListInv, ServerIsTyped, PageIsTyped, Announced
<1>3. CASE ChangeLost(c)
  BY <1>3 DEF ChangeLost, Over, built, ListInv, ServerIsTyped, PageIsTyped, Announced
<1> QED
  BY <1>1, <1>2, <1>3

(* The list's own query.                                                   *)
LEMMA QueryStep ==
    ASSUME ListInv, ReadRules \/ ListArrives \/ ListFails
    PROVE  ListInv'
<1>1. CASE ReadRules
  BY <1>1 DEF ReadRules, mutations, built, history, ListInv, ServerIsTyped, PageIsTyped, Announced
<1>2. CASE ListArrives
  BY <1>2, RuleRowTypes DEF ListArrives, mutations, built, history, Idle,
     ListInv, ServerIsTyped, PageIsTyped, Announced
<1>3. CASE ListFails
  BY <1>3, RuleRowTypes
  DEF ListFails, mutations, built, Idle, ListInv, ServerIsTyped, PageIsTyped, Announced
<1> QED
  BY <1>1, <1>2, <1>3

LEMMA ListStep == ListInv /\ [ListNext]_listVars => ListInv'
<1> SUFFICES ASSUME ListInv, [ListNext]_listVars PROVE ListInv'
  OBVIOUS
<1>1. ASSUME NEW r \in Rules, ToggleRule(r) \/ DragRule(r) \/ DeleteRule(r) \/ CreateRule(r)
      PROVE  ListInv'
  BY <1>1, AskStep
<1>2. ASSUME (\E r \in Rules : OpenRule(r)) \/ CloseRule \/ SubmitRule PROVE ListInv'
  BY <1>2, BuilderStep
<1>3. ASSUME NEW c \in changes, HandleChange(c) \/ RefuseChange(c) PROVE ListInv'
  BY <1>3, ServerStep
<1>4. ASSUME NEW c \in changes, ChangeSaved(c) \/ ChangeRefused(c) \/ ChangeLost(c) PROVE ListInv'
  BY <1>4, AnswerStep
<1>5. ASSUME ReadRules \/ ListArrives \/ ListFails PROVE ListInv'
  BY <1>5, QueryStep
<1>6. CASE UNCHANGED listVars
  BY <1>6 DEF listVars, mutations, built, history, ListInv, ServerIsTyped, PageIsTyped, Announced
<1> QED
  BY <1>1, <1>2, <1>3, <1>4, <1>5, <1>6 DEF ListNext

(* The inductive invariant of the rule list.                               *)
THEOREM ListInvariant == ListSpec => []ListInv
BY ListInitInv, ListStep, PTL DEF ListSpec

(* The rule list is type correct.                                          *)
THEOREM ListTypeCorrect == ListSpec => []ListTypeOK
<1>1. ListInv => ListTypeOK
  BY DEF ListInv, ServerIsTyped, PageIsTyped, ListTypeOK
<1> QED
  BY <1>1, ListInvariant, PTL

(* Once nothing is under way the page shows what the server has, unless an *)
(* answer or a list was lost, for any rules and any number of changes.     *)
THEOREM ListShowsServer == ListSpec => []ListIsServers
<1>1. ListInv => ListIsServers
  BY DEF ListInv, PageIsTyped, Announced, ListIsServers
<1> QED
  BY <1>1, ListInvariant, PTL

-----------------------------------------------------------------------------
(* Who would set a rule's switch, and who would change more of it than its *)
(* place in the order.                                                     *)
Sets(c, r) == c.kind \in {"switch", "edit", "create"} /\ c.rule = r
Touches(c, r) == c.kind # "drag" /\ c.rule = r

SameSwitch(row, other) == row.is = other.is /\ row.active = other.active

(* For each rule by itself, a switch the page has not got is announced.    *)
SwitchAnnounced(r) ==
    \/ \E c \in changes : c.at = "saved" /\ Touches(c, r)
    \/ refetch.at = "sent"
    \/ refetch.at = "read" /\ SameSwitch(refetch.rows[r], ruleRows[r])
    \/ refetch.at = "idle" /\ SameSwitch(listed[r], ruleRows[r])

CreationsAreNew ==
    /\ \A c \in changes : c.kind = "create" /\ c.at # "saved" => ruleRows[c.rule].is = "none"
    /\ \A c, d \in changes : c.kind = "create" /\ d.kind = "create" /\ c.rule = d.rule => c = d

(* Where a change that is sent would put the switch.                       *)
Wish(c) == IF c.kind = "switch" THEN ~ruleRows[c.rule].active ELSE c.active

(* A rule the owner was not hasty with: one change at most would set its   *)
(* switch, to where it was asked to be or has already put it there; and    *)
(* nothing touches the rule while it is in the builder.                    *)
SwitchInHand(r) ==
    /\ \A c, d \in changes : Sets(c, r) /\ Sets(d, r) => c = d
    /\ (\A c \in changes : ~Sets(c, r)) /\ ruleRows[r].is = "there" => ruleRows[r].active = asked[r]
    /\ \A c \in changes : Sets(c, r) =>
          /\ c.at = "sent" /\ (c.kind = "create" \/ ruleRows[r].is = "there") => asked[r] = Wish(c)
          /\ c.at = "saved" /\ ruleRows[r].is = "there" => ruleRows[r].active = asked[r]
EditedStands(r) ==
    editing = r => /\ \A c \in changes : ~Touches(c, r)
                   /\ snapshot.active = ruleRows[r].active

RuleSwitchInv ==
    /\ CreationsAreNew
    /\ ~missed => /\ \A r \in Rules : SwitchAnnounced(r)
                  /\ \A r \in Rules \ hasty : SwitchInHand(r) /\ EditedStands(r)

LEMMA RuleSwitchInitInv == ListInit => RuleSwitchInv
<1> SUFFICES ASSUME ListInit PROVE RuleSwitchInv
  OBVIOUS
<1>1. /\ changes = {} /\ listed = ruleRows /\ refetch.at = "idle" /\ editing = "none"
      /\ asked = [r \in Rules |-> ruleRows[r].active]
  BY DEF ListInit, Idle
<1> QED  BY <1>1, RuleListAssumption DEF RuleSwitchInv, CreationsAreNew, SwitchAnnounced,
    SameSwitch,
                                        SwitchInHand, EditedStands

(* A rule that is settled is listed with the switch it has.                *)
LEMMA SettledIsListed ==
    ASSUME ListInv, RuleSwitchInv, NEW r \in Rules, Settled(r)
    PROVE  /\ \A c \in changes : ~Touches(c, r)
           /\ SameSwitch(listed[r], ruleRows[r])
BY DEF Settled, RuleSwitchInv, SwitchAnnounced, Touches

(* A change that is sent, of a switch nothing else would set.              *)
LEMMA SendChangeStep ==
    ASSUME ListInv, RuleSwitchInv,
           NEW kind \in {"switch", "drag", "delete", "edit", "create"}, NEW r \in Rules,
           NEW active \in BOOLEAN, NEW order \in [Rules -> Nat],
           NewChange(kind, r, active, order),
           UNCHANGED <<ruleRows, listed, refetch, missed>>,
           hasty \subseteq hasty', editing' = "none",
           kind = "create" => ruleRows[r].is = "none" /\ \A c \in changes : c.rule # r,
           \A x \in Rules : x # r \/ kind \in {"drag", "delete"} => asked'[x] = asked[x],
           ~missed /\ r \notin hasty' /\ kind \in {"switch", "edit", "create"} =>
              /\ \A c \in changes : ~Touches(c, r)
              /\ kind = "create" \/ ruleRows[r].is = "there" =>
                    asked'[r] = IF kind = "switch" THEN ~ruleRows[r].active ELSE active
    PROVE  RuleSwitchInv'
<1>1. PICK d : /\ changes' = changes \cup {d} /\ d.kind = kind /\ d.rule = r /\ d.active = active
               /\ d.at = "sent"
  <2> DEFINE x == [id |-> made + 1, kind |-> kind, rule |-> r, active |-> active,
                   order |-> order, at |-> "sent"]
  <2>1. changes' = changes \cup {x}
    BY DEF NewChange
  <2>2. x.kind = kind /\ x.rule = r /\ x.active = active /\ x.at = "sent"
    OBVIOUS
  <2> HIDE DEF x
  <2> QED  BY <2>1, <2>2
<1>2. CreationsAreNew'
  BY <1>1 DEF RuleSwitchInv, CreationsAreNew
<1>3. ASSUME ~missed, NEW x \in Rules PROVE SwitchAnnounced(x)'
  BY <1>1, <1>3 DEF RuleSwitchInv, SwitchAnnounced, SameSwitch, Touches
<1>4. ASSUME ~missed, NEW x \in Rules \ hasty' PROVE SwitchInHand(x)'
  <2>1. SwitchInHand(x)
    BY <1>4 DEF RuleSwitchInv
  <2>2. CASE ~Sets(d, x)
    <3>1. asked'[x] = asked[x]
      BY <1>1, <2>2 DEF Sets
    <3>2. \A c \in changes' : Sets(c, x) => c \in changes
      BY <1>1, <2>2
    <3>3. \A c \in changes : Wish(c)' = Wish(c)
      BY DEF Wish
    <3> QED  BY <1>1, <2>1, <2>2, <3>1, <3>2, <3>3 DEF SwitchInHand, Sets
  <2>3. CASE Sets(d, x)
    <3>1. x = r /\ kind \in {"switch", "edit", "create"}
      BY <1>1, <2>3 DEF Sets
    <3>2. /\ \A c \in changes : ~Sets(c, x)
          /\ kind = "create" \/ ruleRows[r].is = "there" =>
                asked'[r] = IF kind = "switch" THEN ~ruleRows[r].active ELSE active
      BY <1>4, <3>1 DEF Touches, Sets
    <3>3. Wish(d)' = IF kind = "switch" THEN ~ruleRows[r].active ELSE active
      BY <1>1, <3>1 DEF Wish
    <3>4. \A c \in changes' : Sets(c, x)' => c = d
      BY <1>1, <3>2 DEF Sets
    <3> QED  BY <1>1, <2>3, <3>1, <3>2, <3>3, <3>4 DEF SwitchInHand, Sets
  <2> QED  BY <2>2, <2>3
<1>5. ASSUME NEW x \in Rules PROVE EditedStands(x)'
  BY RuleListAssumption DEF EditedStands
<1> QED  BY <1>2, <1>3, <1>4, <1>5 DEF RuleSwitchInv

LEMMA OwnerStep ==
    ASSUME ListInv, RuleSwitchInv, NEW r \in Rules,
           ToggleRule(r) \/ DragRule(r) \/ DeleteRule(r) \/ CreateRule(r)
    PROVE  RuleSwitchInv'
<1>1. CASE ToggleRule(r)
  <2>1. /\ NewChange("switch", r, FALSE, NoOrder) /\ editing' = "none"
        /\ asked' = [asked EXCEPT ![r] = ~listed[r].active]
        /\ hasty' = IF Settled(r) THEN hasty ELSE hasty \cup {r}
        /\ UNCHANGED <<ruleRows, listed, refetch, missed>>
    BY <1>1 DEF ToggleRule, AtList, built
  <2>2. \A x \in Rules : x # r => asked'[x] = asked[x]
    BY <2>1 DEF ListInv, PageIsTyped
  <2>3. asked'[r] = ~listed[r].active
    BY <2>1 DEF ListInv, PageIsTyped
  <2>4. r \notin hasty' => /\ \A c \in changes : ~Touches(c, r)
                           /\ listed[r].active = ruleRows[r].active
    BY <2>1, SettledIsListed DEF SameSwitch
  <2>5. hasty \subseteq hasty'
    BY <2>1
  <2>6. r \notin hasty' => asked'[r] = ~ruleRows[r].active
    BY <2>3, <2>4
  <2> QED  BY <2>1, <2>2, <2>4, <2>5, <2>6, SendChangeStep, RuleRowTypes
<1>2. CASE DragRule(r)
  <2>1. PICK f \in Dragged(r) :
            NewChange("drag", r, FALSE,
                      [x \in Rules |-> IF x \in There(listed) THEN 10 * f[x] ELSE 0])
    BY <1>2 DEF DragRule
  <2>2. \A x \in There(listed) : f[x] \in Nat
    BY DEF Dragged
  <2> DEFINE order == [x \in Rules |-> IF x \in There(listed) THEN 10 * f[x] ELSE 0]
  <2>3. order \in [Rules -> Nat]
    BY <2>2
  <2>4. NewChange("drag", r, FALSE, order)
    BY <2>1
  <2> HIDE DEF order
  <2>5. /\ editing' = "none" /\ UNCHANGED <<ruleRows, listed, refetch, asked, hasty, missed>>
    BY <1>2 DEF DragRule, AtList, built, history
  <2> QED  BY <2>3, <2>4, <2>5, SendChangeStep
<1>3. CASE DeleteRule(r)
  <2>1. /\ NewChange("delete", r, FALSE, NoOrder)
        /\ editing' = "none" /\ UNCHANGED <<ruleRows, listed, refetch, asked, hasty, missed>>
    BY <1>3 DEF DeleteRule, AtList, built, history
  <2> QED  BY <2>1, SendChangeStep, RuleRowTypes
<1>4. CASE CreateRule(r)
  <2>1. PICK active \in BOOLEAN :
            /\ NewChange("create", r, active, [NoOrder EXCEPT ![r] = NewPriority])
            /\ asked' = [asked EXCEPT ![r] = active]
    BY <1>4 DEF CreateRule
  <2>2. [NoOrder EXCEPT ![r] = NewPriority] \in [Rules -> Nat]
    BY RuleRowTypes
  <2>3. /\ ruleRows[r].is = "none" /\ \A c \in changes : c.rule # r
        /\ editing' = "none" /\ UNCHANGED <<ruleRows, listed, refetch, hasty, missed>>
    BY <1>4 DEF CreateRule, AtList, built, NoRow
  <2>4. asked'[r] = active /\ \A x \in Rules : x # r => asked'[x] = asked[x]
    BY <2>1 DEF ListInv, PageIsTyped
  <2>5. \A c \in changes : ~Touches(c, r)
    BY <2>3 DEF Touches
  <2> QED  BY <2>1, <2>2, <2>3, <2>4, <2>5, SendChangeStep
<1> QED  BY <1>1, <1>2, <1>3, <1>4

LEMMA RuleFormStep ==
    ASSUME ListInv, RuleSwitchInv, (\E r \in Rules : OpenRule(r)) \/ CloseRule \/ SubmitRule
    PROVE  RuleSwitchInv'
<1>1. ASSUME NEW r \in Rules, OpenRule(r) PROVE RuleSwitchInv'
  <2>1. /\ editing' = r /\ snapshot' = listed[r]
        /\ hasty' = IF Settled(r) THEN hasty ELSE hasty \cup {r}
        /\ UNCHANGED <<ruleRows, listed, changes, refetch, asked, missed>>
    BY <1>1 DEF OpenRule, mutations
  <2>2. CreationsAreNew' /\ \A x \in Rules : SwitchAnnounced(x) => SwitchAnnounced(x)'
    BY <2>1 DEF RuleSwitchInv, CreationsAreNew, SwitchAnnounced, SameSwitch, Touches
  <2>3. hasty \subseteq hasty' /\ (r \notin hasty' => Settled(r))
    BY <2>1
  <2>4. \A x \in Rules : SwitchInHand(x) => SwitchInHand(x)'
    BY <2>1 DEF SwitchInHand, Sets, Wish
  <2>5. \A x \in Rules \ hasty' : EditedStands(x)'
    BY <2>1, <2>3, SettledIsListed DEF EditedStands, SameSwitch, Touches
  <2> QED  BY <2>1, <2>2, <2>3, <2>4, <2>5 DEF RuleSwitchInv
<1>2. CASE CloseRule
  <2>1. /\ editing' = "none"
        /\ UNCHANGED <<ruleRows, listed, changes, refetch, asked, hasty, missed>>
    BY <1>2 DEF CloseRule, mutations, history
  <2>2. CreationsAreNew' /\ \A x \in Rules : SwitchAnnounced(x) => SwitchAnnounced(x)'
    BY <2>1 DEF RuleSwitchInv, CreationsAreNew, SwitchAnnounced, SameSwitch, Touches
  <2>3. \A x \in Rules : /\ EditedStands(x)'
                         /\ SwitchInHand(x) => SwitchInHand(x)'
    BY <2>1, RuleListAssumption DEF SwitchInHand, EditedStands, Sets, Wish
  <2> QED  BY <2>1, <2>2, <2>3 DEF RuleSwitchInv
<1>3. CASE SubmitRule
  <2> DEFINE priority == IF snapshot.priority \in 1 .. 10 THEN snapshot.priority ELSE NewPriority
             order == [NoOrder EXCEPT ![editing] = priority]
  <2>1. PICK active \in BOOLEAN :
            /\ NewChange("edit", editing, active, order)
            /\ asked' = IF active # snapshot.active THEN [asked EXCEPT ![editing] = active]
                        ELSE asked
    BY <1>3 DEF SubmitRule
  <2>2. PICK r \in Rules : r = editing
    BY <1>3 DEF SubmitRule, ListInv, PageIsTyped
  <2>3. priority \in Nat
    BY RuleRowTypes DEF ListInv, PageIsTyped, RuleRow
  <2> HIDE DEF priority
  <2>4. order \in [Rules -> Nat]
    BY <2>3, RuleRowTypes
  <2>5. editing' = "none" /\ UNCHANGED <<ruleRows, listed, refetch, hasty, missed>>
    BY <1>3 DEF SubmitRule
  <2> HIDE DEF order
  <2>6. /\ asked'[r] = IF active # snapshot.active THEN active ELSE asked[r]
        /\ \A x \in Rules : x # r => asked'[x] = asked[x]
    BY <2>1, <2>2 DEF ListInv, PageIsTyped
  <2>7. ASSUME ~missed, r \notin hasty
        PROVE  /\ \A c \in changes : ~Touches(c, r)
               /\ ruleRows[r].is = "there" => asked'[r] = active
    <3>1. SwitchInHand(r) /\ EditedStands(r)
      BY <2>7 DEF RuleSwitchInv
    <3>2. \A c \in changes : ~Touches(c, r) /\ ~Sets(c, r)
      BY <2>2, <3>1 DEF EditedStands, Touches, Sets
    <3>3. ruleRows[r].is = "there" => ruleRows[r].active = asked[r]
      BY <3>1, <3>2 DEF SwitchInHand
    <3>4. snapshot.active = ruleRows[r].active
      BY <2>2, <3>1 DEF EditedStands
    <3> QED  BY <2>6, <3>2, <3>3, <3>4
  <2> QED  BY <2>1, <2>2, <2>4, <2>5, <2>6, <2>7, SendChangeStep
<1> QED  BY <1>1, <1>2, <1>3

(* What a change leaves of a rule's switch.                                *)
LEMMA SwitchAfter ==
    ASSUME ListInv, NEW c \in changes, NEW r \in Rules
    PROVE  /\ c.rule \in Rules
           /\ ~Touches(c, r) => SameSwitch(RowsAfter(c)[r], ruleRows[r])
           /\ c.rule = r =>
                 /\ c.kind = "switch" => /\ RowsAfter(c)[r].is = ruleRows[r].is
                                         /\ RowsAfter(c)[r].active = ~ruleRows[r].active
                 /\ c.kind = "delete" => RowsAfter(c)[r].is = "deleted"
                 /\ c.kind \in {"edit", "create"} => /\ RowsAfter(c)[r].is = "there"
                                                     /\ RowsAfter(c)[r].active = c.active
<1>1. /\ c \in Change /\ c.rule \in Rules /\ c.order \in [Rules -> Nat]
      /\ c.kind \in {"switch", "drag", "delete", "edit", "create"}
      /\ ruleRows \in [Rules -> RuleRow]
  BY DEF ListInv, ServerIsTyped, Change
<1>2. CASE c.kind = "switch"
  <2>1. RowsAfter(c) = [ruleRows EXCEPT ![c.rule].active = ~@]
    BY <1>2 DEF RowsAfter, Switched
  <2> QED  BY <1>1, <1>2, <2>1 DEF Touches, SameSwitch, RuleRow
<1>3. CASE c.kind = "drag"
  <2>1. RowsAfter(c) = [x \in Rules |-> IF c.order[x] = 0 THEN ruleRows[x]
                                        ELSE [ruleRows[x] EXCEPT !.priority = c.order[x]]]
    BY <1>3 DEF RowsAfter
  <2> QED  BY <1>1, <1>3, <2>1 DEF Touches, SameSwitch, RuleRow
<1>4. CASE c.kind = "delete"
  <2>1. RowsAfter(c) = [ruleRows EXCEPT ![c.rule].is = "deleted"]
    BY <1>4 DEF RowsAfter
  <2> QED  BY <1>1, <1>4, <2>1 DEF Touches, SameSwitch, RuleRow
<1>5. CASE c.kind \in {"edit", "create"}
  <2>1. RowsAfter(c) = [ruleRows EXCEPT ![c.rule] =
                         [is |-> "there", active |-> c.active, priority |-> c.order[c.rule]]]
    BY <1>5 DEF RowsAfter
  <2> QED  BY <1>1, <1>5, <2>1 DEF Touches, SameSwitch
<1> QED  BY <1>1, <1>2, <1>3, <1>4, <1>5

(* The server carries a change out.                                        *)
LEMMA CarryOutStep ==
    ASSUME ListInv, RuleSwitchInv, NEW c \in changes, HandleChange(c)
    PROVE  RuleSwitchInv'
<1> DEFINE d == [c EXCEPT !.at = "saved"]
<1>1. /\ c.at = "sent" /\ Accepts(c) /\ ruleRows' = RowsAfter(c)
      /\ changes' = (changes \ {c}) \cup {d}
      /\ UNCHANGED <<listed, refetch, editing, snapshot, asked, hasty, missed>>
  BY DEF HandleChange, SetChange, built, history
<1>2. /\ d.at = "saved" /\ d.kind = c.kind /\ d.rule = c.rule /\ d.active = c.active
      /\ c.rule \in Rules /\ c.kind \in {"switch", "drag", "delete", "edit", "create"}
  BY DEF ListInv, ServerIsTyped, Change
<1> HIDE DEF d
<1>3. \A r \in Rules :
          /\ ~Touches(c, r) => SameSwitch(ruleRows'[r], ruleRows[r])
          /\ c.rule = r =>
                /\ c.kind = "switch" => /\ ruleRows'[r].is = ruleRows[r].is
                                        /\ ruleRows'[r].active = ~ruleRows[r].active
                /\ c.kind = "delete" => ruleRows'[r].is = "deleted"
                /\ c.kind \in {"edit", "create"} => /\ ruleRows'[r].is = "there"
                                                    /\ ruleRows'[r].active = c.active
  BY <1>1, SwitchAfter
<1>4. c.kind \in {"switch", "delete", "edit"} => ruleRows[c.rule].is = "there"
  BY <1>1, <1>2 DEF Accepts, There
<1>5. CreationsAreNew'
  <2>1. \A e, f \in changes' : e.kind = "create" /\ f.kind = "create" /\ e.rule = f.rule => e = f
    BY <1>1, <1>2 DEF RuleSwitchInv, CreationsAreNew
  <2>2. ASSUME NEW e \in changes', e.kind = "create", e.at # "saved"
        PROVE  ruleRows'[e.rule].is = "none"
    <3>1. e \in changes /\ e # c /\ ruleRows[e.rule].is = "none" /\ e.rule \in Rules
      BY <1>1, <1>2, <2>2 DEF RuleSwitchInv, CreationsAreNew, ListInv, ServerIsTyped, Change
    <3>2. ~Touches(c, e.rule)
      BY <1>2, <1>4, <2>2, <3>1 DEF Touches, RuleSwitchInv, CreationsAreNew
    <3> QED  BY <1>3, <3>1, <3>2 DEF SameSwitch
  <2> QED  BY <2>1, <2>2 DEF CreationsAreNew
<1>6. ASSUME ~missed, NEW r \in Rules PROVE SwitchAnnounced(r)'
  <2>1. SwitchAnnounced(r)
    BY <1>6 DEF RuleSwitchInv
  <2>2. CASE Touches(c, r)
    BY <1>1, <1>2, <2>2 DEF SwitchAnnounced, Touches
  <2>3. CASE ~Touches(c, r)
    <3>1. SameSwitch(ruleRows'[r], ruleRows[r])
      BY <1>3, <2>3
    <3> QED  BY <1>1, <2>1, <2>3, <3>1 DEF SwitchAnnounced, SameSwitch, Touches
  <2> QED  BY <2>2, <2>3
<1>7. ASSUME ~missed, NEW r \in Rules \ hasty PROVE SwitchInHand(r)'
  <2>1. SwitchInHand(r)
    BY <1>7 DEF RuleSwitchInv
  <2>2. CASE Sets(c, r)
    <3>1. c.rule = r /\ c.kind \in {"switch", "edit", "create"}
      BY <2>2 DEF Sets
    <3>2. \A e \in changes' : Sets(e, r)' => e = d
      BY <1>1, <2>1, <2>2 DEF SwitchInHand, Sets
    <3>3. ruleRows'[r].active = Wish(c) /\ asked[r] = Wish(c)
      BY <1>1, <1>3, <1>4, <2>1, <2>2, <3>1 DEF SwitchInHand, Wish
    <3>4. Sets(d, r)' /\ d.at = "saved" /\ d \in changes'
      BY <1>1, <1>2, <2>2 DEF Sets
    <3> QED  BY <1>1, <3>2, <3>3, <3>4 DEF SwitchInHand
  <2>3. CASE ~Sets(c, r)
    <3>1. \A e \in changes' : Sets(e, r)' => e \in changes /\ Sets(e, r)
      BY <1>1, <1>2, <2>3 DEF Sets
    <3>2. \A e \in changes : Sets(e, r) => e \in changes'
      BY <1>1, <2>3
    <3>3. \/ ruleRows'[r].is = "deleted"
          \/ SameSwitch(ruleRows'[r], ruleRows[r])
      BY <1>2, <1>3, <2>3 DEF Touches, Sets
    <3>4. (\A e \in changes' : ~Sets(e, r)') /\ ruleRows'[r].is = "there"
              => ruleRows'[r].active = asked'[r]
      BY <1>1, <2>1, <3>2, <3>3 DEF SwitchInHand, SameSwitch, Sets
    <3>5. ASSUME NEW e \in changes', Sets(e, r)'
          PROVE  /\ e.at = "sent" /\ (e.kind = "create" \/ ruleRows'[r].is = "there")
                        => asked'[r] = Wish(e)'
                 /\ e.at = "saved" /\ ruleRows'[r].is = "there" => ruleRows'[r].active = asked'[r]
      <4>1. e \in changes /\ Sets(e, r) /\ e.rule = r
        BY <3>1, <3>5 DEF Sets
      <4>2. e.at = "sent" /\ (e.kind = "create" \/ ruleRows'[r].is = "there")
               => asked'[r] = Wish(e)'
        BY <1>1, <2>1, <3>3, <4>1 DEF SwitchInHand, SameSwitch, Wish
      <4> QED  BY <1>1, <2>1, <3>3, <4>1, <4>2 DEF SwitchInHand, SameSwitch
    <3>6. \A e, f \in changes' : Sets(e, r)' /\ Sets(f, r)' => e = f
      BY <2>1, <3>1 DEF SwitchInHand
    <3> QED  BY <3>4, <3>5, <3>6 DEF SwitchInHand
  <2> QED  BY <2>2, <2>3
<1>8. ASSUME ~missed, NEW r \in Rules \ hasty PROVE EditedStands(r)'
  <2>1. EditedStands(r)
    BY <1>8 DEF RuleSwitchInv
  <2>2. editing = r => ~Touches(c, r)
    BY <2>1 DEF EditedStands
  <2> QED  BY <1>1, <1>2, <1>3, <2>1, <2>2 DEF EditedStands, SameSwitch, Touches
<1> QED  BY <1>1, <1>5, <1>6, <1>7, <1>8 DEF RuleSwitchInv

LEMMA TurnDownStep ==
    ASSUME ListInv, RuleSwitchInv, NEW c \in changes, RefuseChange(c)
    PROVE  RuleSwitchInv'
<1> DEFINE d == [c EXCEPT !.at = "refused"]
<1>1. /\ c.at = "sent" /\ changes' = (changes \ {c}) \cup {d}
      /\ UNCHANGED <<ruleRows, listed, refetch, editing, snapshot, asked, hasty, missed>>
  BY DEF RefuseChange, SetChange, built, history
<1>2. d.at = "refused" /\ d.kind = c.kind /\ d.rule = c.rule
  BY DEF ListInv, ServerIsTyped, Change
<1> HIDE DEF d
<1>3. CreationsAreNew'
  BY <1>1, <1>2 DEF RuleSwitchInv, CreationsAreNew
<1>4. \A r \in Rules : /\ SwitchAnnounced(r) => SwitchAnnounced(r)'
                       /\ EditedStands(r) => EditedStands(r)'
  BY <1>1, <1>2 DEF SwitchAnnounced, SameSwitch, EditedStands, Touches
<1>5. \A e \in changes : Wish(e)' = Wish(e)
  BY <1>1 DEF Wish
<1>6. ASSUME NEW r \in Rules, SwitchInHand(r) PROVE SwitchInHand(r)'
  <2>1. \A e \in changes' : Sets(e, r)' /\ e # d => e \in changes /\ e # c /\ Sets(e, r)
    BY <1>1 DEF Sets
  <2>2. Sets(d, r)' <=> Sets(c, r)
    BY <1>2 DEF Sets
  <2>3. \A e, f \in changes' : Sets(e, r)' /\ Sets(f, r)' => e = f
    BY <1>6, <2>1, <2>2 DEF SwitchInHand
  <2>4. (\A e \in changes' : ~Sets(e, r)') => \A e \in changes : ~Sets(e, r)
    BY <1>1, <2>2 DEF Sets
  <2>5. ASSUME NEW e \in changes', Sets(e, r)'
        PROVE  /\ e.at = "sent" /\ (e.kind = "create" \/ ruleRows'[r].is = "there")
                      => asked'[r] = Wish(e)'
               /\ e.at = "saved" /\ ruleRows'[r].is = "there" => ruleRows'[r].active = asked'[r]
    <3>1. CASE e = d
      BY <1>2, <3>1
    <3>2. CASE e # d
      <4>1. e \in changes /\ Sets(e, r)
        BY <2>1, <2>5, <3>2
      <4> QED  BY <1>1, <1>5, <1>6, <4>1 DEF SwitchInHand
    <3> QED  BY <3>1, <3>2
  <2> QED  BY <1>1, <1>6, <2>3, <2>4, <2>5 DEF SwitchInHand
<1> QED  BY <1>1, <1>3, <1>4, <1>6 DEF RuleSwitchInv

(* The answers.  The owner reads in a refusal what the switch is.          *)
LEMMA HearStep ==
    ASSUME ListInv, RuleSwitchInv, NEW c \in changes,
           ChangeSaved(c) \/ ChangeRefused(c) \/ ChangeLost(c)
    PROVE  RuleSwitchInv'
<1>1. /\ changes' = changes \ {c}
      /\ UNCHANGED <<ruleRows, listed, editing, snapshot, hasty>>
  BY DEF ChangeSaved, ChangeRefused, ChangeLost, Over, built, history
<1>2. CreationsAreNew'
  BY <1>1 DEF RuleSwitchInv, CreationsAreNew
<1>3. \A r \in Rules : EditedStands(r) => EditedStands(r)'
  BY <1>1 DEF EditedStands, Touches
<1>4. \A e \in changes : Wish(e)' = Wish(e)
  BY <1>1 DEF Wish
<1>5. ASSUME NEW r \in Rules, ~Sets(c, r), asked'[r] = asked[r], SwitchInHand(r)
      PROVE  SwitchInHand(r)'
  <2>1. \A e \in changes' : Sets(e, r)' => e \in changes /\ Sets(e, r)
    BY <1>1 DEF Sets
  <2>2. (\A e \in changes' : ~Sets(e, r)') => \A e \in changes : ~Sets(e, r)
    BY <1>1, <1>5 DEF Sets
  <2>3. ASSUME NEW e \in changes', Sets(e, r)'
        PROVE  /\ e.at = "sent" /\ (e.kind = "create" \/ ruleRows'[r].is = "there")
                      => asked'[r] = Wish(e)'
               /\ e.at = "saved" /\ ruleRows'[r].is = "there" => ruleRows'[r].active = asked'[r]
    <3>1. e \in changes /\ Sets(e, r)
      BY <2>1, <2>3
    <3> QED  BY <1>1, <1>4, <1>5, <3>1 DEF SwitchInHand
  <2>4. \A e, f \in changes' : Sets(e, r)' /\ Sets(f, r)' => e = f
    BY <1>5, <2>1 DEF SwitchInHand
  <2> QED  BY <1>1, <1>5, <2>2, <2>3, <2>4 DEF SwitchInHand
<1>6. ASSUME NEW r \in Rules, Sets(c, r), SwitchInHand(r),
             ruleRows[r].is = "there" => ruleRows[r].active = asked'[r]
      PROVE  SwitchInHand(r)'
  <2>1. \A e \in changes' : ~Sets(e, r)'
    BY <1>1, <1>6 DEF SwitchInHand, Sets
  <2> QED  BY <1>1, <1>6, <2>1 DEF SwitchInHand
<1>7. CASE ChangeSaved(c)
  <2>1. c.at = "saved" /\ refetch'.at = "sent" /\ UNCHANGED <<asked, missed>>
    BY <1>7 DEF ChangeSaved, InvalidateRules, Sent, history
  <2>2. \A r \in Rules : SwitchAnnounced(r)'
    BY <2>1 DEF SwitchAnnounced
  <2>3. ASSUME NEW r \in Rules, SwitchInHand(r) PROVE SwitchInHand(r)'
    <3>1. CASE Sets(c, r)
      <4>1. ruleRows[r].is = "there" => ruleRows[r].active = asked'[r]
        BY <2>1, <2>3, <3>1 DEF SwitchInHand
      <4> QED  BY <1>6, <2>3, <3>1, <4>1
    <3>2. CASE ~Sets(c, r)
      BY <1>5, <2>1, <2>3, <3>2
    <3> QED  BY <3>1, <3>2
  <2> QED  BY <1>1, <1>2, <1>3, <2>1, <2>2, <2>3 DEF RuleSwitchInv
<1>8. CASE ChangeRefused(c)
  <2>1. /\ c.at = "refused" /\ UNCHANGED <<refetch, missed>>
        /\ asked' = IF c.kind \in {"switch", "edit"}
                    THEN [asked EXCEPT ![c.rule] = ruleRows[c.rule].active] ELSE asked
    BY <1>8 DEF ChangeRefused
  <2>2. ASSUME NEW r \in Rules, SwitchAnnounced(r) PROVE SwitchAnnounced(r)'
    BY <1>1, <2>1, <2>2 DEF SwitchAnnounced, SameSwitch, Touches
  <2>3. /\ \A r \in Rules : ~Sets(c, r) => asked'[r] = asked[r]
        /\ c.kind \in {"switch", "edit"} => asked'[c.rule] = ruleRows[c.rule].active
        /\ c.rule \in Rules
    BY <2>1 DEF ListInv, PageIsTyped, ServerIsTyped, Change, Sets
  <2>4. c.kind = "create" => ruleRows[c.rule].is = "none"
    BY <2>1 DEF RuleSwitchInv, CreationsAreNew
  <2>5. ASSUME NEW r \in Rules, SwitchInHand(r) PROVE SwitchInHand(r)'
    <3>1. CASE Sets(c, r)
      <4>1. ruleRows[r].is = "there" => ruleRows[r].active = asked'[r]
        BY <2>3, <2>4, <3>1 DEF Sets
      <4> QED  BY <1>6, <2>5, <3>1, <4>1
    <3>2. CASE ~Sets(c, r)
      BY <1>5, <2>3, <2>5, <3>2
    <3> QED  BY <3>1, <3>2
  <2> QED  BY <1>1, <1>2, <1>3, <2>1, <2>2, <2>5 DEF RuleSwitchInv
<1>9. CASE ChangeLost(c)
  BY <1>2, <1>9 DEF ChangeLost, RuleSwitchInv
<1> QED  BY <1>7, <1>8, <1>9

LEMMA AskListStep ==
    ASSUME ListInv, RuleSwitchInv, ReadRules \/ ListArrives \/ ListFails
    PROVE  RuleSwitchInv'
<1>1. UNCHANGED <<ruleRows, changes, editing, snapshot, asked, hasty>>
  BY DEF ReadRules, ListArrives, ListFails, mutations, built, history
<1>2. CreationsAreNew'
  BY <1>1 DEF RuleSwitchInv, CreationsAreNew
<1>3. \A r \in Rules : /\ EditedStands(r) => EditedStands(r)'
                       /\ SwitchInHand(r) => SwitchInHand(r)'
  BY <1>1 DEF EditedStands, SwitchInHand, Touches, Sets, Wish
<1>4. ASSUME NEW r \in Rules, SwitchAnnounced(r), ReadRules \/ ListArrives
      PROVE  SwitchAnnounced(r)'
  <2>1. CASE ReadRules
    BY <1>1, <1>4, <2>1 DEF ReadRules, SwitchAnnounced, SameSwitch, Touches
  <2>2. CASE ListArrives
    BY <1>1, <1>4, <2>2 DEF ListArrives, Idle, SwitchAnnounced, SameSwitch, Touches
  <2> QED  BY <1>4, <2>1, <2>2
<1>5. CASE ReadRules \/ ListArrives
  BY <1>1, <1>2, <1>3, <1>4, <1>5 DEF ReadRules, ListArrives, history, RuleSwitchInv
<1>6. CASE ListFails
  BY <1>2, <1>6 DEF ListFails, RuleSwitchInv
<1> QED  BY <1>5, <1>6

LEMMA RuleSwitchStep ==
    ListInv /\ RuleSwitchInv /\ [ListNext]_listVars => ListInv' /\ RuleSwitchInv'
<1> SUFFICES ASSUME ListInv, RuleSwitchInv, [ListNext]_listVars PROVE RuleSwitchInv'
  BY ListStep
<1>1. CASE UNCHANGED listVars
  <2>1. UNCHANGED <<ruleRows, listed, changes, refetch, editing, snapshot, asked, hasty, missed>>
    BY <1>1 DEF listVars, mutations, built, history
  <2>2. CreationsAreNew'
    BY <2>1 DEF RuleSwitchInv, CreationsAreNew
  <2>3. \A r \in Rules : /\ EditedStands(r) => EditedStands(r)'
                         /\ SwitchInHand(r) => SwitchInHand(r)'
                         /\ SwitchAnnounced(r) => SwitchAnnounced(r)'
    BY <2>1 DEF EditedStands, SwitchInHand, SwitchAnnounced, SameSwitch, Touches, Sets, Wish
  <2> QED  BY <2>1, <2>2, <2>3 DEF RuleSwitchInv
<1>2. ASSUME (\E r \in Rules : OpenRule(r)) \/ CloseRule \/ SubmitRule PROVE RuleSwitchInv'
  BY <1>2, RuleFormStep
<1>3. ASSUME ReadRules \/ ListArrives \/ ListFails PROVE RuleSwitchInv'
  BY <1>3, AskListStep
<1> QED  BY <1>1, <1>2, <1>3, OwnerStep, CarryOutStep, TurnDownStep, HearStep DEF ListNext

(* The inductive invariant of the rules' switches.                         *)
THEOREM RuleSwitchInvariant == ListSpec => [](ListInv /\ RuleSwitchInv)
BY ListInitInv, RuleSwitchInitInv, RuleSwitchStep, PTL DEF ListSpec

(* A rule's switch ends up where the owner last put it, for any number of  *)
(* rules and of changes, if the owner waited for the list.                 *)
THEOREM SwitchesEndAsAsked == ListSpec => []SwitchesAsAsked
<1>1. ListInv /\ RuleSwitchInv => SwitchesAsAsked
  <2> SUFFICES ASSUME ListInv, RuleSwitchInv, NEW r \in There(ruleRows) \ hasty, Settled(r)
               PROVE  ruleRows[r].active = asked[r]
    BY DEF SwitchesAsAsked
  <2>1. /\ SwitchInHand(r) /\ \A c \in changes : ~Touches(c, r)
        /\ ruleRows[r].is = "there"
    BY SettledIsListed DEF RuleSwitchInv, Settled, There
  <2>2. \A c \in changes : ~Sets(c, r)
    BY <2>1 DEF Sets, Touches
  <2> QED  BY <2>1, <2>2 DEF SwitchInHand
<1> QED  BY <1>1, RuleSwitchInvariant, PTL

-----------------------------------------------------------------------------
SwitchesAreTyped ==
    /\ venueSwitches \in [Switches -> BOOLEAN] /\ switchesShown \in [Switches -> BOOLEAN]
    /\ chosen \in [Switches -> BOOLEAN]
    /\ puts \subseteq Put /\ clicks \in 0 .. MaxClicks /\ tooSoon \in BOOLEAN
    /\ switchFetch \in [at : {"idle", "sent"}] \cup [at : {"read"}, rows : [Switches -> BOOLEAN]]

(* Nobody clicked too soon: one update at most is on its way, and it was   *)
(* made of what the server has and of the owner's last choice.             *)
OneUpdate ==
    /\ \A p, q \in puts : p = q
    /\ \A p \in puts :
          /\ switchFetch.at = "idle"
          /\ p.at = "sent" => p.body = chosen
          /\ p.at = "saved" => venueSwitches = chosen
          /\ p.at # "saved" => switchesShown = venueSwitches

(* ... and between updates the server has what was chosen, and the list    *)
(* that comes, if any, brings it.                                          *)
NothingPending ==
    puts = {} =>
        /\ venueSwitches = chosen
        /\ switchFetch.at = "idle" => switchesShown = venueSwitches
        /\ switchFetch.at = "read" => switchFetch.rows = venueSwitches

SwitchesInv == SwitchesAreTyped /\ (~tooSoon => OneUpdate /\ NothingPending)

LEMMA SwitchesInitInv == WhatsAppInit => SwitchesInv
<1> SUFFICES ASSUME WhatsAppInit PROVE SwitchesInv
  OBVIOUS
<1>1. /\ puts = {} /\ switchFetch \in [at : {"idle", "sent"}] /\ switchFetch.at = "idle"
      /\ clicks \in 0 .. MaxClicks /\ tooSoon = FALSE
  BY WhatsAppAssumption DEF WhatsAppInit
<1>2. /\ venueSwitches \in [Switches -> BOOLEAN]
      /\ switchesShown = venueSwitches /\ chosen = venueSwitches
  BY DEF WhatsAppInit
<1> QED  BY <1>1, <1>2 DEF SwitchesInv, SwitchesAreTyped, OneUpdate, NothingPending

LEMMA ClickStep ==
    ASSUME SwitchesInv, NEW s \in Switches, ClickSwitch(s)
    PROVE  SwitchesInv'
<1> DEFINE p == [id |-> clicks + 1, body |-> Body(s, ~switchesShown[s]),
                 locks |-> TRUE, at |-> "sent"]
<1>1. clicks + 1 \in 1 .. MaxClicks /\ clicks + 1 \in 0 .. MaxClicks
  BY WhatsAppAssumption DEF SwitchesInv, SwitchesAreTyped, ClickSwitch
<1>2. /\ Body(s, ~switchesShown[s]) \in [Switches -> BOOLEAN]
      /\ [chosen EXCEPT ![s] = ~switchesShown[s]] \in [Switches -> BOOLEAN]
  BY DEF SwitchesInv, SwitchesAreTyped, Body
<1>3. /\ p \in Put /\ p.at = "sent" /\ p.body = Body(s, ~switchesShown[s])
  BY <1>1, <1>2 DEF Put
<1>4. /\ clicks' = clicks + 1 /\ puts' = puts \cup {p}
      /\ chosen' = [chosen EXCEPT ![s] = ~switchesShown[s]]
      /\ tooSoon' = (tooSoon \/ ~SwitchesSettled)
      /\ UNCHANGED <<venueSwitches, switchesShown, switchFetch>>
  BY DEF ClickSwitch
<1> HIDE DEF p
<1>5. SwitchesAreTyped'
  <2>1. tooSoon' \in BOOLEAN
    BY <1>4
  <2> QED  BY <1>1, <1>2, <1>3, <1>4, <2>1 DEF SwitchesInv, SwitchesAreTyped
<1>6. ASSUME ~tooSoon' PROVE OneUpdate' /\ NothingPending'
  <2>1. /\ puts = {} /\ switchFetch.at = "idle"
        /\ switchesShown = venueSwitches /\ venueSwitches = chosen
    BY <1>4, <1>6 DEF SwitchesSettled, SwitchesInv, NothingPending
  <2>2. chosen' = p.body
    BY <1>3, <1>4, <2>1 DEF Body
  <2> QED  BY <1>3, <1>4, <2>1, <2>2 DEF OneUpdate, NothingPending
<1> QED  BY <1>5, <1>6 DEF SwitchesInv

(* What happens to an update.                                              *)
LEMMA UpdateStep ==
    ASSUME SwitchesInv, NEW p \in puts,
           SaveSwitches(p) \/ RefuseSwitches(p) \/ PutAnswered(p) \/ PutLost(p)
    PROVE  SwitchesInv'
<1>1. p \in Put /\ p.body \in [Switches -> BOOLEAN] /\ p.at \in {"sent", "saved", "refused"}
  BY DEF SwitchesInv, SwitchesAreTyped, Put
<1>2. \A at \in {"saved", "refused"} :
          [p EXCEPT !.at = at] \in Put /\ [p EXCEPT !.at = at].at = at
  BY <1>1 DEF Put
<1>3. CASE SaveSwitches(p) \/ RefuseSwitches(p)
  <2>1. PICK r \in Put :
            /\ puts' = (puts \ {p}) \cup {r} /\ p.at = "sent"
            /\ UNCHANGED <<switchesShown, clicks, switchFetch, chosen, tooSoon>>
            /\ \/ r.at = "saved" /\ venueSwitches' = p.body
               \/ r.at = "refused" /\ venueSwitches' = venueSwitches
    BY <1>2, <1>3 DEF SaveSwitches, RefuseSwitches
  <2>2. SwitchesAreTyped'
    BY <1>1, <2>1 DEF SwitchesInv, SwitchesAreTyped
  <2>3. ASSUME ~tooSoon PROVE OneUpdate' /\ NothingPending'
    <3>1. OneUpdate /\ puts' = {r}
      BY <2>1, <2>3 DEF SwitchesInv, OneUpdate
    <3> QED  BY <2>1, <3>1 DEF OneUpdate, NothingPending
  <2> QED  BY <2>1, <2>2, <2>3 DEF SwitchesInv
<1>4. CASE PutAnswered(p)
  <2>1. SwitchesAreTyped'
    BY <1>4 DEF PutAnswered, SwitchesInv, SwitchesAreTyped
  <2>2. ASSUME ~tooSoon PROVE OneUpdate' /\ NothingPending'
    <3>1. OneUpdate /\ puts' = {}
      BY <1>4, <2>2 DEF PutAnswered, SwitchesInv, OneUpdate
    <3> QED  BY <1>1, <1>4, <3>1 DEF PutAnswered, OneUpdate, NothingPending
  <2> QED  BY <1>4, <2>1, <2>2 DEF PutAnswered, SwitchesInv
<1>5. CASE PutLost(p)
  BY <1>5 DEF PutLost, SwitchesInv, SwitchesAreTyped
<1> QED  BY <1>3, <1>4, <1>5

(* Leaving the settings, and the settings' own query.                      *)
LEMMA SettingsStep ==
    ASSUME SwitchesInv, LeaveWhatsApp \/ ReadSwitches \/ SwitchesArrive \/ SwitchesFail
    PROVE  SwitchesInv'
<1>1. CASE LeaveWhatsApp
  <2>1. \A p \in puts : /\ p \in Put /\ [p EXCEPT !.locks = FALSE] \in Put
                        /\ [p EXCEPT !.locks = FALSE].at = p.at
                        /\ [p EXCEPT !.locks = FALSE].body = p.body
    BY DEF SwitchesInv, SwitchesAreTyped, Put
  <2>2. /\ puts' = {[p EXCEPT !.locks = FALSE] : p \in puts} /\ puts # {}
        /\ UNCHANGED <<venueSwitches, switchesShown, clicks, switchFetch, chosen, tooSoon>>
    BY <1>1 DEF LeaveWhatsApp
  <2>3. SwitchesAreTyped'
    BY <2>1, <2>2 DEF SwitchesInv, SwitchesAreTyped
  <2>4. ASSUME OneUpdate PROVE OneUpdate'
    <3>1. PICK p \in puts : puts = {p}
      BY <2>2, <2>4 DEF OneUpdate
    <3> DEFINE r == [p EXCEPT !.locks = FALSE]
    <3>2. puts' = {r} /\ r.at = p.at /\ r.body = p.body
      BY <2>1, <2>2, <3>1
    <3> HIDE DEF r
    <3> QED  BY <2>2, <2>4, <3>2 DEF OneUpdate
  <2> QED  BY <2>2, <2>3, <2>4 DEF SwitchesInv, NothingPending
<1>2. CASE ReadSwitches
  BY <1>2 DEF ReadSwitches, SwitchesInv, SwitchesAreTyped, OneUpdate, NothingPending
<1>3. CASE SwitchesArrive
  BY <1>3 DEF SwitchesArrive, SwitchesInv, SwitchesAreTyped, OneUpdate, NothingPending
<1>4. CASE SwitchesFail
  BY <1>4 DEF SwitchesFail, SwitchesInv, SwitchesAreTyped
<1> QED  BY <1>1, <1>2, <1>3, <1>4

LEMMA SwitchesStep == SwitchesInv /\ [WhatsAppNext]_whatsAppVars => SwitchesInv'
<1> SUFFICES ASSUME SwitchesInv, [WhatsAppNext]_whatsAppVars PROVE SwitchesInv'
  OBVIOUS
<1>1. CASE UNCHANGED whatsAppVars
  BY <1>1 DEF whatsAppVars, SwitchesInv, SwitchesAreTyped, OneUpdate, NothingPending
<1> QED  BY <1>1, ClickStep, UpdateStep, SettingsStep DEF WhatsAppNext

(* The inductive invariant of the switches.                                *)
THEOREM SwitchesInvariant == WhatsAppSpec => []SwitchesInv
BY SwitchesInitInv, SwitchesStep, PTL DEF WhatsAppSpec

(* The WhatsApp switches are type correct for any switches and clicks.     *)
THEOREM WhatsAppTypeCorrect == WhatsAppSpec => []WhatsAppTypeOK
<1>1. SwitchesInv => WhatsAppTypeOK
  BY DEF SwitchesInv, SwitchesAreTyped, WhatsAppTypeOK
<1> QED  BY <1>1, SwitchesInvariant, PTL

(* Every switch ends up where the owner put it, for any number of switches *)
(* and of clicks, unless a second one was clicked too soon.                *)
THEOREM ChoicesAreKept == WhatsAppSpec => []SwitchesAreKept
<1>1. SwitchesInv => SwitchesAreKept
  BY DEF SwitchesInv, NothingPending, SwitchesAreKept, SwitchesSettled
<1> QED  BY <1>1, SwitchesInvariant, PTL

-----------------------------------------------------------------------------
(* The seats of some tables are a number: their sum is taken by a fold,     *)
(* that is by a function which takes a table off a set at a time.  That    *)
(* there is such a function, and that its values are numbers, is shown of  *)
(* the smallest sets for which they are not.                               *)
OneOf(s) == CHOOSE t \in s : TRUE
Counted(g, list, s) == IF s = {} THEN 0 ELSE list[OneOf(s)].seats + g[s \ {OneOf(s)}]
CountsUpTo(g, list, S, n) ==
    \A s \in SUBSET S : Cardinality(s) <= n => g[s] = Counted(g, list, s)

CountsAll(g, list, S) == \A s \in SUBSET S : g[s] = Counted(g, list, s)
SeatsAreNumbers(list, S) == \A t \in S : list[t].seats \in Nat

(* Where a set of subsets of a finite set has a member, it has one of      *)
(* which no smaller subset is in it.                                       *)
LEMMA SmallestSet ==
    ASSUME NEW S, IsFiniteSet(S), NEW Bad \in SUBSET SUBSET S, Bad # {}
    PROVE  \E T \in Bad : \A U \in SUBSET T : U # T => U \notin Bad
<1>1. IsWellFoundedOn(StrictSubsetOrdering(S), FiniteSubsetsOf(S))
  BY FS_StrictSubsetOrderingWellFounded
<1>2. Bad \subseteq FiniteSubsetsOf(S)
  BY FS_Subset DEF FiniteSubsetsOf
<1>3. PICK T \in Bad : \A U \in Bad : <<U, T>> \notin StrictSubsetOrdering(S)
  BY <1>1, <1>2, WFMin
<1>4. ASSUME NEW U \in SUBSET T, U # T, U \in Bad PROVE FALSE
  BY <1>3, <1>4 DEF StrictSubsetOrdering
<1> QED  BY <1>3, <1>4

(* What is left when one element is taken off.                             *)
LEMMA OneTaken ==
    ASSUME NEW S, IsFiniteSet(S), NEW s \in SUBSET S, s # {}
    PROVE  /\ OneOf(s) \in S /\ s \ {OneOf(s)} \in SUBSET s /\ s \ {OneOf(s)} # s
           /\ Cardinality(s) \in Nat /\ Cardinality(s \ {OneOf(s)}) = Cardinality(s) - 1
<1>1. IsFiniteSet(s) /\ OneOf(s) \in s
  BY FS_Subset DEF OneOf
<1>2. Cardinality(s \ {OneOf(s)}) = Cardinality(s) - 1
  BY <1>1, FS_RemoveElement
<1> QED  BY <1>1, <1>2, FS_CardinalityType

(* Counting goes on to sets that are larger by one.                        *)
LEMMA CountGoesOn ==
    ASSUME NEW S, IsFiniteSet(S), NEW list, SeatsAreNumbers(list, S),
           NEW n \in Nat, NEW g \in [SUBSET S -> Nat], CountsUpTo(g, list, S, n)
    PROVE  \E h \in [SUBSET S -> Nat] : CountsUpTo(h, list, S, n + 1)
<1> DEFINE h == [s \in SUBSET S |-> Counted(g, list, s)]
<1>1. h \in [SUBSET S -> Nat]
  <2>1. ASSUME NEW s \in SUBSET S, s # {}
        PROVE  list[OneOf(s)].seats + g[s \ {OneOf(s)}] \in Nat
    <3>1. list[OneOf(s)].seats \in Nat /\ g[s \ {OneOf(s)}] \in Nat
      BY <2>1, OneTaken DEF SeatsAreNumbers
    <3> QED  BY <3>1
  <2> QED  BY <2>1 DEF Counted
<1>2. ASSUME NEW s \in SUBSET S, Cardinality(s) <= n + 1, s # {}
      PROVE  h[s] = list[OneOf(s)].seats + h[s \ {OneOf(s)}]
  <2> DEFINE r == s \ {OneOf(s)}
  <2>1. r \in SUBSET S /\ Cardinality(s) \in Nat /\ Cardinality(r) = Cardinality(s) - 1
    BY <1>2, OneTaken
  <2>2. Cardinality(r) <= n
    BY <1>2, <2>1
  <2> HIDE DEF r
  <2>3. h[r] = g[r]
    BY <2>1, <2>2 DEF CountsUpTo
  <2> QED  BY <1>2, <2>3 DEF r, Counted
<1>3. h[{}] = 0
  BY DEF Counted
<1> HIDE DEF h
<1>4. CountsUpTo(h, list, S, n + 1)
  BY <1>2, <1>3 DEF CountsUpTo, Counted
<1> QED  BY <1>1, <1>4

(* There is a function that counts all sets: where it is missing, it is    *)
(* missing for a smallest one, and exists for the set with one less.       *)
LEMMA CountExists ==
    ASSUME NEW S, IsFiniteSet(S), NEW list, SeatsAreNumbers(list, S)
    PROVE  \E g \in [SUBSET S -> Nat] : CountsAll(g, list, S)
<1> DEFINE Good(T) == \E g \in [SUBSET S -> Nat] : CountsUpTo(g, list, S, Cardinality(T))
           Bad == {T \in SUBSET S : ~Good(T)}
<1>1. CASE Bad = {}
  <2>1. PICK g \in [SUBSET S -> Nat] : CountsUpTo(g, list, S, Cardinality(S))
    BY <1>1
  <2>2. \A s \in SUBSET S : Cardinality(s) <= Cardinality(S)
    BY FS_Subset
  <2> QED  BY <2>1, <2>2 DEF CountsUpTo, CountsAll
<1>2. CASE Bad # {}
  <2>1. PICK T \in Bad : \A U \in SUBSET T : U # T => U \notin Bad
    <3>1. Bad \in SUBSET SUBSET S
      OBVIOUS
    <3> HIDE DEF Bad
    <3> QED  BY <1>2, <3>1, SmallestSet
  <2>2. T # {}
    <3> DEFINE g == [s \in SUBSET S |-> 0]
    <3>1. \A s \in SUBSET S : Cardinality(s) <= Cardinality({}) => s = {}
      BY FS_Subset, FS_EmptySet, FS_CardinalityType
    <3>2. g \in [SUBSET S -> Nat] /\ CountsUpTo(g, list, S, Cardinality({}))
      BY <3>1 DEF CountsUpTo, Counted
    <3> QED  BY <2>1, <3>2
  <2> DEFINE U == T \ {OneOf(T)}
  <2>3. U \in SUBSET S /\ U # T /\ Cardinality(U) \in Nat /\ Cardinality(T) = Cardinality(U) + 1
    <3>1. U \in SUBSET T /\ U # T /\ Cardinality(T) \in Nat /\ Cardinality(U) = Cardinality(T) - 1
      BY <2>1, <2>2, OneTaken
    <3>2. Cardinality(U) \in Nat
      BY <3>1, FS_Subset, FS_CardinalityType
    <3> QED  BY <2>1, <3>1, <3>2
  <2>4. Good(U)
    BY <2>1, <2>3
  <2> HIDE DEF U
  <2>5. PICK g \in [SUBSET S -> Nat] : CountsUpTo(g, list, S, Cardinality(U))
    BY <2>4
  <2>6. \E h \in [SUBSET S -> Nat] : CountsUpTo(h, list, S, Cardinality(U) + 1)
    BY <2>3, <2>5, CountGoesOn
  <2>7. Good(T)
    BY <2>3, <2>6
  <2> QED  BY <2>1, <2>7
<1> QED  BY <1>1, <1>2

(* The fold is such a function, and its values are numbers, by the same    *)
(* argument.                                                               *)
LEMMA SeatsAreCounted ==
    ASSUME NEW list \in [Tables -> TableRow], NEW ts \in SUBSET Tables
    PROVE  SeatsOf(list, ts) \in Nat
<1> DEFINE S == ts \cap Known(list)
           Iter(g) == [s \in SUBSET S |-> Counted(g, list, s)]
           iter == CHOOSE g : g = Iter(g)
<1>1. IsFiniteSet(S) /\ SeatsAreNumbers(list, S)
  <2>1. S \in SUBSET Tables
    BY DEF Known
  <2> QED  BY <2>1, FS_Subset, TablesAssumption DEF TableRow, SeatsAreNumbers
<1>2. SeatsOf(list, ts) = iter[S]
  BY DEF SeatsOf, MapThenSumSet, MapThenFoldSet, Counted, OneOf
<1> HIDE DEF S
<1>3. iter = Iter(iter)
  <2>1. PICK g \in [SUBSET S -> Nat] : CountsAll(g, list, S)
    BY <1>1, CountExists
  <2>2. g = Iter(g)
    BY <2>1 DEF CountsAll
  <2> QED  BY <2>2
<1> HIDE DEF iter
<1>4. \A s \in SUBSET S : iter[s] \in Nat
  <2> DEFINE Bad == {s \in SUBSET S : iter[s] \notin Nat}
  <2>1. SUFFICES ASSUME Bad # {} PROVE FALSE
    OBVIOUS
  <2>2. PICK T \in Bad : \A U \in SUBSET T : U # T => U \notin Bad
    <3>1. Bad \in SUBSET SUBSET S
      OBVIOUS
    <3> HIDE DEF Bad
    <3> QED  BY <1>1, <2>1, <3>1, SmallestSet
  <2>3. T \in SUBSET S /\ iter[T] = Counted(iter, list, T) /\ iter[T] \notin Nat
    BY <1>3
  <2>4. T # {}
    BY <2>3 DEF Counted
  <2> DEFINE U == T \ {OneOf(T)}
  <2>5. U \in SUBSET T /\ U # T /\ list[OneOf(T)].seats \in Nat
    BY <1>1, <2>3, <2>4, OneTaken DEF SeatsAreNumbers
  <2>6. iter[U] \in Nat
    BY <2>2, <2>5
  <2>7. iter[T] = list[OneOf(T)].seats + iter[U]
    BY <2>3, <2>4 DEF Counted
  <2> QED  BY <2>3, <2>5, <2>6, <2>7
<1> QED  BY <1>2, <1>4

TableForm == [open : BOOLEAN, table : Tables \cup {"none"}, was : TableRow,
              active : BOOLEAN, seats : SeatCounts]

TablesAreTyped ==
    /\ tableRows \in [Tables -> TableRow] /\ tablesListed \in [Tables -> TableRow]
    /\ tableFetch \in {NotAsking, Asking} \cup [at : {"read"}, rows : [Tables -> TableRow]]
    /\ requests \subseteq Request /\ sentSoFar \in 0 .. MaxTableChanges
    /\ \A q \in requests : q.kind \in {"edit", "create"} => q.seats \in SeatCounts
    /\ \A q \in requests : q.kind # "combine" => q.table \in Tables
    /\ tableForm \in TableForm
    /\ combination \in [open : BOOLEAN, members : SUBSET Tables, seats : Nat]
    /\ wanted \in [Tables -> BOOLEAN] /\ muddled \subseteq Tables /\ unheard \in BOOLEAN

(* Of a table that is not there nothing is known but its creation; and a   *)
(* creation that is not decided is all there is.                           *)
AbsentIsNew(t) ==
    /\ tableRows[t].is = "none" =>
          /\ tableRows[t].active /\ wanted[t]
          /\ tablesListed[t].is = "none" /\ tableForm.table # t
          /\ tableFetch.at = "read" => tableFetch.rows[t].is = "none"
          /\ \A q \in requests : q.table = t => q.kind = "create"
    /\ \A q \in requests : q.kind = "create" /\ q.table = t /\ q.at = "sent" =>
          /\ tableRows[t].is = "none"
          /\ \A p \in requests : p.table = t => p = q

(* What the page does not know of a table's switch is on its way.          *)
SwitchOnItsWay(t) ==
    \/ \E q \in requests : q.at = "saved" /\ q.kind = "switch" /\ q.table = t
    \/ tableFetch.at = "sent"
    \/ tableFetch.at = "read" /\ tableFetch.rows[t].active = tableRows[t].active
    \/ tableFetch.at = "idle" /\ tablesListed[t].active = tableRows[t].active

(* Of a table that is not muddled one request at most is about its switch, *)
(* which says what is still to be done: an edit that was to move it has    *)
(* not, and its page is still there to send the rest.                      *)
Moves(q, t) == q.kind \in {"switch", "edit"} /\ q.table = t
MoveInHand(t) ==
    /\ \A p, q \in requests : Moves(p, t) /\ Moves(q, t) => p = q
    /\ (\A q \in requests : ~Moves(q, t)) => tableRows[t].active = wanted[t]
    /\ \A q \in requests : Moves(q, t) /\ q.kind = "edit" =>
          /\ q.toggle => q.ours
          /\ q.at # "refused" => (q.toggle <=> tableRows[t].active # wanted[t])
    /\ \A q \in requests : Moves(q, t) /\ q.kind = "switch" /\ q.at # "refused" =>
          (q.at = "saved" <=> tableRows[t].active = wanted[t])

(* The form that is open on it was filled with the switch it has.          *)
FormStands(t) ==
    tableForm.open /\ tableForm.table = t =>
        /\ tableForm.was.active = tableRows[t].active
        /\ \A q \in requests : Moves(q, t) => q.kind = "edit" /\ q.ours

SwitchesInHand ==
    ~unheard => /\ \A t \in Tables : SwitchOnItsWay(t)
                /\ \A t \in Known(tableRows) \ muddled : MoveInHand(t) /\ FormStands(t)

TablesInv == TablesAreTyped /\ (\A t \in Tables : AbsentIsNew(t)) /\ SwitchesInHand
-----------------------------------------------------------------------------
LEMMA TablesInitInv == TablesInit => TablesInv
<1> SUFFICES ASSUME TablesInit PROVE TablesInv
  OBVIOUS
<1>1. NoTable \in TableRow /\ DefaultSeats \in SeatCounts /\ "none" \notin Tables
  BY TablesAssumption DEF NoTable, TableRow
<1>2. tableRows \in [Tables -> TableRow] /\ \A t \in Tables : tableRows[t].active
  <2>1. PICK there \in SUBSET Tables :
            tableRows = [t \in Tables |-> IF t \in there THEN [NoTable EXCEPT !.is = "there"]
                                          ELSE NoTable]
    BY DEF TablesInit
  <2>2. [NoTable EXCEPT !.is = "there"] \in TableRow /\ [NoTable EXCEPT !.is = "there"].active
        /\ NoTable.active
    BY <1>1 DEF NoTable, TableRow
  <2> QED  BY <1>1, <2>1, <2>2
<1>3. tableForm \in TableForm /\ tableForm.table = "none" /\ ~tableForm.open
  BY <1>1 DEF TablesInit, EmptyForm, TableForm
<1>4. combination \in [open : BOOLEAN, members : SUBSET Tables, seats : Nat]
  BY DEF TablesInit, EmptyCombination
<1>5. 0 \in 0 .. MaxTableChanges
  BY TablesAssumption
<1>6. TablesAreTyped
  BY <1>2, <1>3, <1>4, <1>5 DEF TablesInit, TablesAreTyped
<1>7. \A t \in Tables : AbsentIsNew(t)
  BY <1>1, <1>2, <1>3 DEF TablesInit, AbsentIsNew, NotAsking
<1>8. SwitchesInHand
  BY <1>2, <1>3 DEF TablesInit, SwitchesInHand, SwitchOnItsWay, MoveInHand, FormStands, NotAsking,
                    Known
<1> QED  BY <1>6, <1>7, <1>8 DEF TablesInv

(* A calm table is listed with the switch it has.                          *)
LEMMA CalmIsFresh ==
    ASSUME TablesInv, NEW t \in Tables, Calm(t)
    PROVE  /\ ~unheard /\ tablesListed[t].active = tableRows[t].active
           /\ \A q \in requests : ~Moves(q, t)
<1>1. ~unheard /\ tableFetch.at = "idle"
  BY DEF Calm, NotAsking
<1>2. \A q \in requests : ~Moves(q, t)
  BY DEF Calm, Moves
<1>3. SwitchOnItsWay(t)
  BY <1>1 DEF TablesInv, SwitchesInHand
<1> QED  BY <1>1, <1>2, <1>3 DEF SwitchOnItsWay, Moves

LEMMA NextIsNumbered ==
    ASSUME TablesInv, sentSoFar < MaxTableChanges
    PROVE  sentSoFar + 1 \in 1 .. MaxTableChanges
BY TablesAssumption DEF TablesInv, TablesAreTyped

LEMMA ListedIsThere ==
    ASSUME TablesInv, NEW t \in Known(tablesListed)
    PROVE  t \in Tables /\ tableRows[t].is # "none"
BY DEF TablesInv, AbsentIsNew, Known

(* The dialogs.                                                            *)
LEMMA CountsAreSums ==
    ASSUME NEW list \in [Tables -> TableRow],
           NEW c \in [open : BOOLEAN, members : SUBSET Tables, seats : Nat]
    PROVE  Recount(c, list) \in [open : BOOLEAN, members : SUBSET Tables, seats : Nat]
<1>1. SeatsOf(list, c.members) \in Nat
  BY SeatsAreCounted
<1>2. Recount(c, list) = [c EXCEPT !.seats = SeatsOf(list, c.members)]
  BY DEF Recount
<1> QED  BY <1>1, <1>2

LEMMA DialogsStep ==
    ASSUME TablesInv,
           \/ NewTable \/ CloseTableForm \/ OpenCombination \/ CloseCombination
           \/ \E active \in BOOLEAN, seats \in SeatCounts : TypeTable(active, seats)
           \/ \E n \in SeatCounts : TypeCapacity(n)
           \/ \E t \in Tables : TickTable(t)
    PROVE  TablesInv'
<1>1. UNCHANGED <<tableRows, tablesListed, requests, sentSoFar, tableFetch, wanted, muddled,
                  unheard>>
  BY DEF NewTable, CloseTableForm, OpenCombination, CloseCombination, TypeTable, TypeCapacity,
         TickTable, sending, told
<1>2. /\ tableForm' \in TableForm
      /\ \/ tableForm'.table = "none"
         \/ /\ tableForm'.table = tableForm.table /\ tableForm'.was = tableForm.was
            /\ tableForm'.open => tableForm.open
  <2>0. tableForm \in TableForm /\ NoTable \in TableRow
    BY TablesAssumption DEF TablesInv, TablesAreTyped, NoTable, TableRow
  <2>1. CASE NewTable
    <3>1. tableForm' = FilledFrom("none", NoTable)
      BY <2>1 DEF NewTable
    <3>2. [tableForm EXCEPT !.open = TRUE] \in TableForm
          /\ [tableForm EXCEPT !.open = TRUE].table = tableForm.table
      BY <2>0 DEF TableForm
    <3>3. [open |-> TRUE, table |-> "none", was |-> NoTable, active |-> NoTable.active,
           seats |-> NoTable.seats] \in TableForm
      BY <2>0 DEF TableForm, TableRow
    <3> QED  BY <3>1, <3>2, <3>3 DEF FilledFrom
  <2>2. CASE CloseTableForm
    BY <2>0, <2>2 DEF CloseTableForm, TableForm
  <2>3. ASSUME NEW active \in BOOLEAN, NEW seats \in SeatCounts, TypeTable(active, seats)
        PROVE  /\ tableForm' \in TableForm
               /\ tableForm'.table = tableForm.table /\ tableForm'.was = tableForm.was
               /\ tableForm'.open => tableForm.open
    BY <2>0, <2>3 DEF TypeTable, TableForm
  <2>4. CASE UNCHANGED tableForm
    BY <2>0, <2>4
  <2> QED  BY <2>1, <2>2, <2>3, <2>4
           DEF OpenCombination, CloseCombination, TypeCapacity, TickTable
<1>3. combination' \in [open : BOOLEAN, members : SUBSET Tables, seats : Nat]
  <2>0. /\ combination \in [open : BOOLEAN, members : SUBSET Tables, seats : Nat]
        /\ tablesListed \in [Tables -> TableRow] /\ SeatCounts \subseteq Nat
    BY TablesAssumption DEF TablesInv, TablesAreTyped
  <2>1. CASE OpenCombination \/ CloseCombination
    <3>1. \A b \in BOOLEAN :
              [open |-> b, members |-> {}, seats |-> 0] \in
                  [open : BOOLEAN, members : SUBSET Tables, seats : Nat]
      OBVIOUS
    <3>2. \E b \in BOOLEAN : combination' = [open |-> b, members |-> {}, seats |-> 0]
      BY <2>1 DEF OpenCombination, CloseCombination, EmptyCombination
    <3> QED  BY <3>1, <3>2
  <2>2. ASSUME NEW t \in Tables, TickTable(t)
        PROVE  combination' \in [open : BOOLEAN, members : SUBSET Tables, seats : Nat]
    <3> DEFINE c == [combination EXCEPT !.members = IF t \in @ THEN @ \ {t} ELSE @ \cup {t}]
    <3>1. c \in [open : BOOLEAN, members : SUBSET Tables, seats : Nat]
      BY <2>0
    <3>2. combination' = Recount(c, tablesListed)
      BY <2>2 DEF TickTable
    <3> HIDE DEF c
    <3> QED  BY <2>0, <3>1, <3>2, CountsAreSums
  <2>3. CASE \E n \in SeatCounts : TypeCapacity(n)
    BY <2>0, <2>3 DEF TypeCapacity
  <2>4. CASE UNCHANGED combination
    BY <2>0, <2>4
  <2> QED  BY <2>1, <2>2, <2>3, <2>4 DEF NewTable, CloseTableForm, TypeTable
<1>4. TablesAreTyped'
  BY <1>1, <1>2, <1>3 DEF TablesInv, TablesAreTyped
<1>5. "none" \notin Tables
  BY TablesAssumption
<1>6. \A t \in Tables : AbsentIsNew(t)'
  BY <1>1, <1>2, <1>5 DEF TablesInv, AbsentIsNew
<1>7. SwitchesInHand'
  BY <1>1, <1>2, <1>5 DEF TablesInv, SwitchesInHand, SwitchOnItsWay, MoveInHand, FormStands, Known
<1> QED  BY <1>4, <1>6, <1>7 DEF TablesInv

(* An open form was filled from a calm table, or the table is muddled.     *)
LEMMA EditTableStep == ASSUME TablesInv, NEW t \in Tables, EditTable(t) PROVE TablesInv'
<1>1. /\ t \in Known(tablesListed) /\ Touch(t) /\ tableForm' = FilledFrom(t, tablesListed[t])
      /\ UNCHANGED <<tableRows, tablesListed, requests, sentSoFar, tableFetch, combination,
                     wanted, unheard>>
  BY DEF EditTable, sending
<1>2. tableForm \in TableForm /\ tablesListed[t] \in TableRow
  BY DEF TablesInv, TablesAreTyped
<1>3. /\ tableForm' \in TableForm /\ tableForm'.table = t /\ tableForm'.was = tablesListed[t]
  <2>1. [tableForm EXCEPT !.open = TRUE] \in TableForm
        /\ [tableForm EXCEPT !.open = TRUE].table = tableForm.table
        /\ [tableForm EXCEPT !.open = TRUE].was = tableForm.was
    BY <1>2 DEF TableForm
  <2> DEFINE f == [open |-> TRUE, table |-> t, was |-> tablesListed[t],
                   active |-> tablesListed[t].active, seats |-> tablesListed[t].seats]
  <2>2. f \in TableForm /\ f.table = t /\ f.was = tablesListed[t]
    BY <1>2 DEF TableForm, TableRow
  <2>3. tableForm' = IF tableForm.table = t /\ tableForm.was = tablesListed[t]
                     THEN [tableForm EXCEPT !.open = TRUE] ELSE f
    BY <1>1 DEF FilledFrom
  <2> QED  BY <2>1, <2>2, <2>3
<1>4. /\ muddled' \subseteq Tables /\ muddled \subseteq muddled'
      /\ t \notin muddled' => Calm(t)
  BY <1>1 DEF Touch, TablesInv, TablesAreTyped
<1>5. TablesAreTyped'
  BY <1>1, <1>3, <1>4 DEF TablesInv, TablesAreTyped
<1>6. \A u \in Tables : AbsentIsNew(u)'
  BY <1>1, <1>3, ListedIsThere DEF TablesInv, AbsentIsNew
<1>7. \A u \in Tables \ muddled' :
          FormStands(u)' \/ ~(~unheard /\ u \in Known(tableRows))
  BY <1>1, <1>3, <1>4, CalmIsFresh DEF FormStands, Moves
<1>8. SwitchesInHand'
  BY <1>1, <1>4, <1>7 DEF TablesInv, SwitchesInHand, SwitchOnItsWay, MoveInHand, Known
<1> QED  BY <1>5, <1>6, <1>8 DEF TablesInv

(* A request that is not about a switch, for a table that is listed or for *)
(* a combination.                                                          *)
LEMMA OtherRequestStep ==
    ASSUME TablesInv,
           SubmitCombination \/ \E t \in Tables : DragTable(t) \/ DeleteTable(t)
    PROVE  TablesInv'
<1> DEFINE Queries(d) ==
              /\ requests' = requests \cup {d} /\ d.kind \in {"combine", "drag", "delete"}
              /\ d.kind # "combine" => d.table \in Known(tablesListed)
              /\ d.kind = "combine" => d.table = "none"
<1>1. PICK d \in Request : Queries(d)
  <2>1. sentSoFar + 1 \in 1 .. MaxTableChanges
    BY NextIsNumbered DEF SubmitCombination, DragTable, DeleteTable, SendRequest, Ask
  <2>3. CASE SubmitCombination
    <3> DEFINE d == [Blank("combine") EXCEPT !.members = combination.members,
                                             !.seats = combination.seats]
    <3>1. d \in Request /\ d.kind = "combine" /\ d.table = "none"
      BY <2>1 DEF Blank, Request, TablesInv, TablesAreTyped
    <3>2. requests' = requests \cup {d}
      BY <2>3 DEF SubmitCombination, SendRequest, Ask
    <3> QED  BY <3>1, <3>2
  <2>4. ASSUME NEW t \in Tables, DragTable(t) \/ DeleteTable(t)
        PROVE  \E d \in Request : Queries(d)
    <3>1. PICK k \in {"drag", "delete"} :
              /\ requests' = requests \cup {[Blank(k) EXCEPT !.table = t]}
              /\ t \in Known(tablesListed)
      BY <2>4 DEF DragTable, DeleteTable, SendRequest, Ask
    <3> DEFINE d == [Blank(k) EXCEPT !.table = t]
    <3>2. d \in Request /\ d.kind = k /\ d.table = t
      BY <2>1 DEF Blank, Request
    <3> QED  BY <3>1, <3>2
  <2> QED  BY <2>3, <2>4
<1>2. /\ UNCHANGED <<tableRows, tablesListed, tableFetch, tableForm, wanted, muddled, unheard>>
      /\ sentSoFar < MaxTableChanges /\ sentSoFar' = sentSoFar + 1
      /\ combination' = combination \/ combination' = [open |-> TRUE, members |-> {}, seats |-> 0]
  BY DEF SubmitCombination, DragTable, DeleteTable, SendRequest, Ask, shown, told,
         EmptyCombination
<1>3. TablesAreTyped'
  <2>1. sentSoFar' \in 0 .. MaxTableChanges
    BY <1>2, TablesAssumption DEF TablesInv, TablesAreTyped
  <2>2. combination' \in [open : BOOLEAN, members : SUBSET Tables, seats : Nat]
    <3>1. [open |-> TRUE, members |-> {}, seats |-> 0] \in
              [open : BOOLEAN, members : SUBSET Tables, seats : Nat]
      OBVIOUS
    <3> QED  BY <1>2, <3>1 DEF TablesInv, TablesAreTyped
  <2> QED  BY <1>1, <1>2, <2>1, <2>2 DEF TablesInv, TablesAreTyped, Known
<1>4. d.table \in Tables => tableRows[d.table].is # "none"
  BY <1>1, ListedIsThere, TablesAssumption
<1>5. \A t \in Tables : AbsentIsNew(t)'
  BY <1>1, <1>2, <1>4 DEF TablesInv, AbsentIsNew
<1>6. SwitchesInHand'
  BY <1>1, <1>2 DEF TablesInv, SwitchesInHand, SwitchOnItsWay, MoveInHand, FormStands, Known,
                    Moves
<1> QED  BY <1>3, <1>5, <1>6 DEF TablesInv

(* The card's switch: of a calm table nothing else is under way.           *)
LEMMA SwitchTableStep == ASSUME TablesInv, NEW t \in Tables, SwitchTable(t) PROVE TablesInv'
<1> DEFINE d == [Blank("switch") EXCEPT !.table = t]
<1>1. /\ t \in Known(tablesListed) /\ Touch(t) /\ requests' = requests \cup {d}
      /\ sentSoFar < MaxTableChanges /\ sentSoFar' = sentSoFar + 1
      /\ wanted' = [wanted EXCEPT ![t] = ~tablesListed[t].active] /\ ~tableForm.open
      /\ UNCHANGED <<tableRows, tablesListed, tableFetch, tableForm, combination, unheard>>
  BY DEF SwitchTable, SendRequest, Ask, shown, AtTables
<1>2. d \in Request /\ d.kind = "switch" /\ d.table = t /\ d.at = "sent"
  <2>1. sentSoFar + 1 \in 1 .. MaxTableChanges
    BY <1>1, NextIsNumbered
  <2> QED  BY <2>1 DEF Blank, Request
<1> HIDE DEF d
<1>3. /\ muddled' \subseteq Tables /\ muddled \subseteq muddled'
      /\ t \notin muddled' => Calm(t)
  BY <1>1 DEF Touch, TablesInv, TablesAreTyped
<1>4. TablesAreTyped'
  <2>1. sentSoFar' \in 0 .. MaxTableChanges
    BY <1>1, TablesAssumption DEF TablesInv, TablesAreTyped
  <2>2. wanted' \in [Tables -> BOOLEAN]
    BY <1>1 DEF TablesInv, TablesAreTyped
  <2> QED  BY <1>1, <1>2, <1>3, <2>1, <2>2 DEF TablesInv, TablesAreTyped
<1>5. tableRows[t].is # "none"
  BY <1>1, ListedIsThere
<1>6. \A u \in Tables \ {t} : wanted'[u] = wanted[u]
  BY <1>1 DEF TablesInv, TablesAreTyped
<1>7. \A u \in Tables : AbsentIsNew(u)'
  BY <1>1, <1>2, <1>5, <1>6 DEF TablesInv, AbsentIsNew
<1>8. ASSUME ~unheard PROVE \A u \in Known(tableRows) \ muddled' : MoveInHand(u)' /\ FormStands(u)'
  <2> SUFFICES ASSUME NEW u \in Known(tableRows) \ muddled' PROVE MoveInHand(u)' /\ FormStands(u)'
    OBVIOUS
  <2>1. FormStands(u)'
    BY <1>1 DEF FormStands
  <2>2. CASE u = t
    <3>1. /\ \A q \in requests : ~Moves(q, t)
          /\ tablesListed[t].active = tableRows[t].active
      BY <1>3, <2>2, CalmIsFresh
    <3>2. tableRows[t].active \in BOOLEAN /\ wanted'[t] = ~tableRows[t].active
      BY <1>1, <3>1 DEF TablesInv, TablesAreTyped, TableRow
    <3>3. \A q \in requests' : Moves(q, t) => q = d
      BY <1>1, <3>1
    <3> QED  BY <1>1, <1>2, <2>1, <2>2, <3>2, <3>3 DEF MoveInHand, Moves
  <2>3. CASE u # t
    <3>1. \A q \in requests' : Moves(q, u) => q \in requests
      BY <1>1, <1>2, <2>3 DEF Moves
    <3>2. u \in Tables \ {t} /\ MoveInHand(u)
      BY <1>3, <1>8, <2>3 DEF TablesInv, SwitchesInHand, Known
    <3>3. wanted'[u] = wanted[u] /\ tableRows'[u] = tableRows[u] /\ requests \subseteq requests'
      BY <1>1, <1>6, <3>2
    <3> QED  BY <2>1, <3>1, <3>2, <3>3 DEF MoveInHand
  <2> QED  BY <2>2, <2>3
<1>9. SwitchesInHand'
  BY <1>1, <1>8 DEF TablesInv, SwitchesInHand, SwitchOnItsWay, Known
<1> QED  BY <1>4, <1>7, <1>9 DEF TablesInv

LEMMA CreateTableStep == ASSUME TablesInv, NEW t \in Tables, CreateTable(t) PROVE TablesInv'
<1> DEFINE d == [Blank("create") EXCEPT !.table = t, !.seats = tableForm.seats]
<1>1. /\ tableRows[t] = NoTable /\ \A q \in requests : q.table # t
      /\ requests' = requests \cup {d}
      /\ sentSoFar < MaxTableChanges /\ sentSoFar' = sentSoFar + 1
      /\ tableForm' = [EmptyForm EXCEPT !.open = TRUE]
      /\ wanted' = [wanted EXCEPT ![t] = TRUE]
      /\ UNCHANGED <<tableRows, tablesListed, tableFetch, combination, muddled, unheard>>
  BY DEF CreateTable, SendRequest, Ask
<1>2. d \in Request /\ d.kind = "create" /\ d.table = t /\ d.at = "sent"
      /\ d.seats \in SeatCounts
  <2>1. sentSoFar + 1 \in 1 .. MaxTableChanges
    BY <1>1, NextIsNumbered
  <2>2. tableForm.seats \in SeatCounts /\ tableForm.seats \in Nat
    BY TablesAssumption DEF TablesInv, TablesAreTyped, TableForm
  <2> QED  BY <2>1, <2>2 DEF Blank, Request
<1> HIDE DEF d
<1>3. tableForm' \in TableForm /\ tableForm'.table = "none"
  <2>1. NoTable \in TableRow /\ DefaultSeats \in SeatCounts
    BY TablesAssumption DEF NoTable, TableRow
  <2> QED  BY <1>1, <2>1 DEF EmptyForm, TableForm
<1>4. TablesAreTyped'
  <2>1. sentSoFar' \in 0 .. MaxTableChanges
    BY <1>1, TablesAssumption DEF TablesInv, TablesAreTyped
  <2>2. wanted' \in [Tables -> BOOLEAN]
    BY <1>1 DEF TablesInv, TablesAreTyped
  <2> QED  BY <1>1, <1>2, <1>3, <2>1, <2>2 DEF TablesInv, TablesAreTyped
<1>5. tableRows[t].is = "none" /\ "none" \notin Tables
  BY <1>1, TablesAssumption DEF NoTable
<1>6. /\ \A u \in Tables \ {t} : wanted'[u] = wanted[u]
      /\ wanted'[t]
  BY <1>1 DEF TablesInv, TablesAreTyped
<1>7. \A u \in Tables : AbsentIsNew(u)'
  BY <1>1, <1>2, <1>3, <1>5, <1>6 DEF TablesInv, AbsentIsNew
<1>8. \A u \in Tables : FormStands(u)'
  BY <1>3, <1>5 DEF FormStands
<1>9. ASSUME ~unheard PROVE \A u \in Known(tableRows) \ muddled : MoveInHand(u)'
  <2> SUFFICES ASSUME NEW u \in Known(tableRows) \ muddled PROVE MoveInHand(u)'
    OBVIOUS
  <2>1. u \in Tables \ {t} /\ MoveInHand(u)
    BY <1>5, <1>9 DEF TablesInv, SwitchesInHand, Known
  <2>2. \A q \in requests' : Moves(q, u) => q \in requests
    BY <1>1, <1>2 DEF Moves
  <2>3. wanted'[u] = wanted[u] /\ tableRows'[u] = tableRows[u] /\ requests \subseteq requests'
    BY <1>1, <1>6, <2>1
  <2> QED  BY <2>1, <2>2, <2>3 DEF MoveInHand
<1>10. SwitchesInHand'
  BY <1>1, <1>8, <1>9 DEF TablesInv, SwitchesInHand, SwitchOnItsWay, Known
<1> QED  BY <1>4, <1>7, <1>10 DEF TablesInv

(* The form's switch: it is compared with the table the form was filled    *)
(* from, and no other request is about that table's switch.                *)
LEMMA UpdateTableStep == ASSUME TablesInv, UpdateTable PROVE TablesInv'
<1> DEFINE t == tableForm.table
           d == [Blank("edit") EXCEPT !.table = tableForm.table, !.seats = tableForm.seats,
                                      !.toggle = SwitchMoved]
<1>1. /\ tableForm.open /\ t # "none" /\ ~Busy({"create", "edit"})
      /\ requests' = requests \cup {d}
      /\ sentSoFar < MaxTableChanges /\ sentSoFar' = sentSoFar + 1
      /\ wanted' = [wanted EXCEPT ![t] = tableForm.active]
      /\ UNCHANGED <<tableRows, tablesListed, tableFetch, tableForm, combination, muddled,
                     unheard>>
  BY DEF UpdateTable, SendRequest, Ask, shown
<1>0. t \in Tables /\ tableForm \in TableForm
  BY <1>1 DEF TablesInv, TablesAreTyped, TableForm
<1>2. d \in Request /\ d.kind = "edit" /\ d.table = t /\ d.at = "sent" /\ d.ours
      /\ d.seats \in SeatCounts /\ d.toggle = SwitchMoved
  <2>1. sentSoFar + 1 \in 1 .. MaxTableChanges
    BY <1>1, NextIsNumbered
  <2>2. tableForm.seats \in SeatCounts /\ tableForm.seats \in Nat
    BY <1>0, TablesAssumption DEF TableForm
  <2>3. SwitchMoved \in BOOLEAN
    BY DEF SwitchMoved
  <2> QED  BY <1>0, <2>1, <2>2, <2>3 DEF Blank, Request
<1>3. /\ tableForm.active \in BOOLEAN
      /\ SwitchMoved <=> tableForm.active # tableForm.was.active
  BY <1>0 DEF SwitchMoved, TableForm
<1> HIDE DEF d
<1>4. TablesAreTyped'
  <2>1. sentSoFar' \in 0 .. MaxTableChanges
    BY <1>1, TablesAssumption DEF TablesInv, TablesAreTyped
  <2>2. wanted' \in [Tables -> BOOLEAN]
    BY <1>1, <1>3 DEF TablesInv, TablesAreTyped
  <2> HIDE DEF t
  <2> QED  BY <1>0, <1>1, <1>2, <2>1, <2>2 DEF TablesInv, TablesAreTyped
<1>5. tableRows[t].is # "none"
  BY <1>0 DEF TablesInv, AbsentIsNew
<1>6. /\ \A u \in Tables \ {t} : wanted'[u] = wanted[u]
      /\ wanted'[t] = tableForm.active
  BY <1>0, <1>1 DEF TablesInv, TablesAreTyped
<1>7. \A u \in Tables : AbsentIsNew(u)'
  BY <1>1, <1>2, <1>5, <1>6 DEF TablesInv, AbsentIsNew
<1>8. ASSUME ~unheard PROVE \A u \in Known(tableRows) \ muddled : MoveInHand(u)' /\ FormStands(u)'
  <2> SUFFICES ASSUME NEW u \in Known(tableRows) \ muddled PROVE MoveInHand(u)' /\ FormStands(u)'
    OBVIOUS
  <2>0. MoveInHand(u) /\ FormStands(u)
    BY <1>8 DEF TablesInv, SwitchesInHand
  <2>1. FormStands(u)'
    BY <1>1, <1>2, <2>0 DEF FormStands, Moves
  <2>2. CASE u = t
    <3>1. /\ \A q \in requests : ~Moves(q, t)
          /\ tableForm.was.active = tableRows[t].active
      BY <1>1, <2>0, <2>2 DEF FormStands, Busy
    <3>2. d.toggle <=> tableRows[t].active # wanted'[t]
      BY <1>2, <1>3, <1>6, <3>1
    <3>3. \A q \in requests' : Moves(q, t) => q = d
      BY <1>1, <3>1
    <3> QED  BY <1>1, <1>2, <2>1, <2>2, <3>2, <3>3 DEF MoveInHand, Moves
  <2>3. CASE u # t
    <3>1. \A q \in requests' : Moves(q, u) => q \in requests
      BY <1>1, <1>2, <2>3 DEF Moves
    <3>3. wanted'[u] = wanted[u] /\ tableRows'[u] = tableRows[u] /\ requests \subseteq requests'
      BY <1>1, <1>6, <2>3 DEF Known
    <3> QED  BY <2>0, <2>1, <3>1, <3>3 DEF MoveInHand
  <2> QED  BY <2>2, <2>3
<1>9. SwitchesInHand'
  BY <1>1, <1>8 DEF TablesInv, SwitchesInHand, SwitchOnItsWay, Known
<1> QED  BY <1>4, <1>7, <1>9 DEF TablesInv

(* What the server does with a request: it flips the switch or leaves it.  *)
LEMMA HandledRows ==
    ASSUME TablesInv, NEW q \in requests, HandleRequest(q)
    PROVE  /\ tableRows' \in [Tables -> TableRow]
           /\ \A u \in Tables :
                 /\ tableRows'[u].active <=>
                       IF q.kind = "switch" /\ q.table = u THEN ~tableRows[u].active
                       ELSE tableRows[u].active
                 /\ tableRows'[u].is = "none" => tableRows[u].is = "none"
                 /\ tableRows'[u].is = "none" => ~(q.kind = "create" /\ q.table = u)
                 /\ tableRows'[u].is = "there" =>
                       tableRows[u].is = "there" \/ tableRows[u].is = "none"
                 /\ tableRows'[u].is = "there" /\ tableRows[u].is = "none" =>
                       q.kind = "create" /\ q.table = u
                 /\ tableRows[u].is = "none" /\ ~(q.kind = "create" /\ q.table = u) =>
                       tableRows'[u].is = "none"
<1>1. q.at = "sent" /\ TablesAccept(q) /\ tableRows' = TablesAfter(q)
  BY DEF HandleRequest
<1>2. /\ tableRows \in [Tables -> TableRow] /\ q \in Request
      /\ q.kind \in {"edit", "create"} => q.seats \in SeatCounts
      /\ q.kind # "combine" => q.table \in Tables
  BY DEF TablesInv, TablesAreTyped
<1>3. q.kind = "create" => tableRows[q.table].is = "none" /\ tableRows[q.table].active
  BY <1>1, <1>2 DEF TablesInv, AbsentIsNew
<1>4. q.kind \in {"switch", "edit", "delete"} => tableRows[q.table].is = "there"
  BY <1>1 DEF TablesAccept, Known
<1>5. CASE q.kind = "switch"
  <2>1. tableRows' = [tableRows EXCEPT ![q.table].active = ~tableRows[q.table].active]
    BY <1>1, <1>5 DEF TablesAfter
  <2>2. q.table \in Tables /\ tableRows[q.table] \in TableRow
    BY <1>2, <1>5
  <2> DEFINE row == [tableRows[q.table] EXCEPT !.active = ~tableRows[q.table].active]
  <2>3. /\ row \in TableRow /\ row.is = "there"
        /\ row.active <=> ~tableRows[q.table].active
    BY <1>4, <1>5, <2>2 DEF TableRow
  <2>4. tableRows' = [tableRows EXCEPT ![q.table] = row]
    BY <2>1
  <2> HIDE DEF row
  <2> QED  BY <1>2, <1>4, <1>5, <2>2, <2>3, <2>4
<1>6. CASE q.kind = "delete"
  <2>1. tableRows' = [tableRows EXCEPT ![q.table].is = "deleted"]
    BY <1>1, <1>6 DEF TablesAfter
  <2> QED  BY <1>2, <1>4, <1>6, <2>1 DEF TableRow
<1>7. CASE q.kind = "edit"
  <2>1. tableRows' = [tableRows EXCEPT ![q.table].seats = q.seats]
    BY <1>1, <1>7 DEF TablesAfter
  <2> QED  BY <1>2, <1>4, <1>7, <2>1 DEF TableRow
<1>8. CASE q.kind = "create"
  <2>1. tableRows' = [tableRows EXCEPT ![q.table] =
                          [is |-> "there", active |-> TRUE, seats |-> q.seats]]
    BY <1>1, <1>8 DEF TablesAfter
  <2>2. [is |-> "there", active |-> TRUE, seats |-> q.seats] \in TableRow
    BY <1>2, <1>8 DEF TableRow
  <2> QED  BY <1>2, <1>3, <1>8, <2>1, <2>2 DEF TableRow
<1>9. CASE q.kind \in {"drag", "combine"}
  <2>1. tableRows' = tableRows
    BY <1>1, <1>9 DEF TablesAfter
  <2> QED  BY <1>2, <1>9, <2>1 DEF TableRow
<1> QED  BY <1>2, <1>5, <1>6, <1>7, <1>8, <1>9 DEF Request

LEMMA HandleRequestStep ==
    ASSUME TablesInv, NEW q \in requests, HandleRequest(q) PROVE TablesInv'
<1> DEFINE d == [q EXCEPT !.at = "saved"]
<1>1. /\ q.at = "sent" /\ requests' = (requests \ {q}) \cup {d}
      /\ UNCHANGED <<tablesListed, sentSoFar, tableFetch, tableForm, combination, wanted, muddled,
                     unheard>>
  BY DEF HandleRequest, shown, told
<1>2. /\ d \in Request /\ d.kind = q.kind /\ d.table = q.table /\ d.at = "saved"
      /\ d.seats = q.seats /\ d.toggle = q.toggle /\ d.ours = q.ours
  BY DEF Request, TablesInv, TablesAreTyped
<1> HIDE DEF d
<1>3. TablesAreTyped'
  BY <1>1, <1>2, HandledRows DEF TablesInv, TablesAreTyped
<1>4. \A u \in Tables : AbsentIsNew(u)'
  <2> SUFFICES ASSUME NEW u \in Tables PROVE AbsentIsNew(u)'
    OBVIOUS
  <2>0. AbsentIsNew(u)
    BY DEF TablesInv
  <2>1. ASSUME tableRows'[u].is = "none"
        PROVE  /\ tableRows'[u].active /\ wanted'[u]
               /\ tablesListed'[u].is = "none" /\ tableForm'.table # u
               /\ tableFetch'.at = "read" => tableFetch'.rows[u].is = "none"
               /\ \A p \in requests' : p.table = u => p.kind = "create"
    <3>1. tableRows[u].is = "none" /\ ~(q.kind = "create" /\ q.table = u)
      BY <2>1, HandledRows
    <3>2. q.table # u
      BY <2>0, <3>1 DEF AbsentIsNew
    <3>3. tableRows'[u].active
      BY <2>0, <3>1, <3>2, HandledRows DEF AbsentIsNew
    <3> QED  BY <1>1, <1>2, <2>0, <3>1, <3>2, <3>3 DEF AbsentIsNew
  <2>2. ASSUME NEW p \in requests', p.kind = "create" /\ p.table = u /\ p.at = "sent"
        PROVE  /\ tableRows'[u].is = "none"
               /\ \A r \in requests' : r.table = u => r = p
    <3>1. p \in requests /\ p # q
      BY <1>1, <1>2, <2>2
    <3>2. tableRows[u].is = "none" /\ \A r \in requests : r.table = u => r = p
      BY <2>0, <2>2, <3>1 DEF AbsentIsNew
    <3>3. q.table # u
      BY <3>1, <3>2
    <3> QED  BY <1>1, <1>2, <3>2, <3>3, HandledRows
  <2> QED  BY <2>1, <2>2 DEF AbsentIsNew
<1>5. ASSUME ~unheard, NEW u \in Tables PROVE SwitchOnItsWay(u)'
  <2>1. CASE q.kind = "switch" /\ q.table = u
    BY <1>1, <1>2, <2>1 DEF SwitchOnItsWay
  <2>2. CASE ~(q.kind = "switch" /\ q.table = u)
    <3>1. SwitchOnItsWay(u)
      BY <1>5 DEF TablesInv, SwitchesInHand
    <3>2. tableRows'[u].active = tableRows[u].active
      <4>1. tableRows'[u].active <=> tableRows[u].active
        BY <2>2, HandledRows
      <4>2. tableRows'[u].active \in BOOLEAN /\ tableRows[u].active \in BOOLEAN
        BY HandledRows DEF TablesInv, TablesAreTyped, TableRow
      <4> QED  BY <4>1, <4>2
    <3>3. \A p \in requests : p.at = "saved" => p \in requests'
      BY <1>1
    <3> QED  BY <1>1, <3>1, <3>2, <3>3 DEF SwitchOnItsWay
  <2> QED  BY <2>1, <2>2
<1>6. ASSUME ~unheard, NEW u \in Tables, tableRows'[u].is = "there", u \notin muddled
      PROVE  MoveInHand(u)' /\ FormStands(u)'
  <2>0. tableRows'[u].active \in BOOLEAN /\ tableRows[u].active \in BOOLEAN
        /\ wanted[u] \in BOOLEAN
    BY HandledRows DEF TablesInv, TablesAreTyped, TableRow
  <2>1. CASE tableRows[u].is = "none"
    <3>1. q.kind = "create" /\ q.table = u
      BY <1>6, <2>1, HandledRows
    <3>2. /\ tableRows[u].active /\ wanted[u] /\ tableForm.table # u
          /\ \A p \in requests : p.table = u => p.kind = "create"
      BY <2>1 DEF TablesInv, AbsentIsNew
    <3>3. tableRows'[u].active
      BY <3>1, <3>2, HandledRows
    <3>4. \A p \in requests' : ~Moves(p, u)
      BY <1>1, <1>2, <3>1, <3>2 DEF Moves
    <3> QED  BY <1>1, <2>0, <3>2, <3>3, <3>4 DEF MoveInHand, FormStands
  <2>2. CASE tableRows[u].is = "there"
    <3>0. MoveInHand(u) /\ FormStands(u)
      BY <1>6, <2>2 DEF TablesInv, SwitchesInHand, Known
    <3>1. CASE Moves(q, u)
      <4>1. \A p \in requests' : Moves(p, u) => p = d
        BY <1>1, <3>0, <3>1 DEF MoveInHand
      <4>2. Moves(d, u)
        BY <1>2, <3>1 DEF Moves
      <4>3. CASE q.kind = "switch"
        <5>1. ~(tableForm.open /\ tableForm.table = u)
          BY <3>0, <3>1, <4>3 DEF FormStands
        <5>2. tableRows[u].active # wanted[u]
          BY <1>1, <2>0, <3>0, <3>1, <4>3 DEF MoveInHand
        <5>3. tableRows'[u].active <=> ~tableRows[u].active
          BY <3>1, <4>3, HandledRows DEF Moves
        <5>4. tableRows'[u].active = wanted[u]
          BY <2>0, <5>2, <5>3
        <5> QED  BY <1>1, <1>2, <4>1, <4>2, <4>3, <5>1, <5>4 DEF MoveInHand, FormStands
      <4>4. CASE q.kind = "edit"
        <5>1. tableRows'[u].active <=> tableRows[u].active
          BY <4>4, HandledRows
        <5>2. tableRows'[u].active = tableRows[u].active
          BY <2>0, <5>1
        <5>3. MoveInHand(u)'
          BY <1>1, <1>2, <3>0, <3>1, <4>1, <4>2, <4>4, <5>2 DEF MoveInHand
        <5>4. FormStands(u)'
          BY <1>1, <1>2, <3>0, <3>1, <4>1, <4>4, <5>2 DEF FormStands
        <5> QED  BY <5>3, <5>4
      <4> QED  BY <3>1, <4>3, <4>4 DEF Moves
    <3>2. CASE ~Moves(q, u)
      <4>1. tableRows'[u].active <=> tableRows[u].active
        BY <3>2, HandledRows DEF Moves
      <4>2. tableRows'[u].active = tableRows[u].active
        BY <2>0, <4>1
      <4>3. ~Moves(d, u)
        BY <1>2, <3>2 DEF Moves
      <4>4. \A p \in requests' : Moves(p, u) => p \in requests
        BY <1>1, <4>3
      <4>5. \A p \in requests : Moves(p, u) => p \in requests'
        BY <1>1, <3>2
      <4>6. MoveInHand(u)'
        BY <1>1, <3>0, <4>2, <4>4, <4>5 DEF MoveInHand
      <4>7. FormStands(u)'
        BY <1>1, <3>0, <4>2, <4>4 DEF FormStands
      <4> QED  BY <4>6, <4>7
    <3> QED  BY <3>1, <3>2
  <2> QED  BY <1>6, <2>1, <2>2, HandledRows
<1>7. SwitchesInHand'
  BY <1>1, <1>5, <1>6 DEF SwitchesInHand, Known
<1> QED  BY <1>3, <1>4, <1>7 DEF TablesInv

LEMMA RefuseRequestStep ==
    ASSUME TablesInv, NEW q \in requests, RefuseRequest(q) PROVE TablesInv'
<1> DEFINE d == [q EXCEPT !.at = "refused"]
<1>1. /\ q.at = "sent" /\ requests' = (requests \ {q}) \cup {d}
      /\ UNCHANGED <<tableRows, tablesListed, sentSoFar, tableFetch, tableForm, combination,
                     wanted, muddled, unheard>>
  BY DEF RefuseRequest, shown, told
<1>2. /\ d \in Request /\ d.kind = q.kind /\ d.table = q.table /\ d.at = "refused"
      /\ d.seats = q.seats /\ d.toggle = q.toggle /\ d.ours = q.ours
  BY DEF Request, TablesInv, TablesAreTyped
<1> HIDE DEF d
<1>3. TablesAreTyped'
  BY <1>1, <1>2 DEF TablesInv, TablesAreTyped
<1>4. \A u \in Tables : AbsentIsNew(u)'
  <2> SUFFICES ASSUME NEW u \in Tables PROVE AbsentIsNew(u)'
    OBVIOUS
  <2>0. AbsentIsNew(u)
    BY DEF TablesInv
  <2>1. ASSUME NEW p \in requests', p.kind = "create" /\ p.table = u /\ p.at = "sent"
        PROVE  /\ tableRows'[u].is = "none"
               /\ \A r \in requests' : r.table = u => r = p
    <3>1. p \in requests /\ p # q
      BY <1>1, <1>2, <2>1
    <3>2. tableRows[u].is = "none" /\ \A r \in requests : r.table = u => r = p
      BY <2>0, <2>1, <3>1 DEF AbsentIsNew
    <3> QED  BY <1>1, <1>2, <3>1, <3>2
  <2> QED  BY <1>1, <1>2, <2>0, <2>1 DEF AbsentIsNew
<1>5. ASSUME ~unheard, NEW u \in Tables PROVE SwitchOnItsWay(u)'
  <2>1. SwitchOnItsWay(u)
    BY <1>5 DEF TablesInv, SwitchesInHand
  <2>2. \A p \in requests : p.at = "saved" => p \in requests'
    BY <1>1
  <2> QED  BY <1>1, <2>1, <2>2 DEF SwitchOnItsWay
<1>6. ASSUME ~unheard, NEW u \in Known(tableRows) \ muddled
      PROVE  MoveInHand(u)' /\ FormStands(u)'
  <2>0. MoveInHand(u) /\ FormStands(u)
    BY <1>6 DEF TablesInv, SwitchesInHand
  <2>1. CASE Moves(q, u)
    <3>1. \A p \in requests' : Moves(p, u) => p = d
      BY <1>1, <2>0, <2>1 DEF MoveInHand
    <3>2. Moves(d, u)
      BY <1>2, <2>1 DEF Moves
    <3>3. MoveInHand(u)'
      BY <1>1, <1>2, <2>0, <2>1, <3>1, <3>2 DEF MoveInHand
    <3>4. FormStands(u)'
      BY <1>1, <1>2, <2>0, <2>1, <3>1 DEF FormStands
    <3> QED  BY <3>3, <3>4
  <2>2. CASE ~Moves(q, u)
    <3>1. ~Moves(d, u)
      BY <1>2, <2>2 DEF Moves
    <3>2. \A p \in requests' : Moves(p, u) => p \in requests
      BY <1>1, <3>1
    <3>3. \A p \in requests : Moves(p, u) => p \in requests'
      BY <1>1, <2>2
    <3>4. MoveInHand(u)'
      BY <1>1, <2>0, <3>2, <3>3 DEF MoveInHand
    <3>5. FormStands(u)'
      BY <1>1, <2>0, <3>2 DEF FormStands
    <3> QED  BY <3>4, <3>5
  <2> QED  BY <2>1, <2>2
<1>7. SwitchesInHand'
  BY <1>1, <1>5, <1>6 DEF SwitchesInHand, Known
<1> QED  BY <1>3, <1>4, <1>7 DEF TablesInv

(* An edit that is saved hands its unfinished business to the request that *)
(* follows it.                                                             *)
LEMMA SavedStep == ASSUME TablesInv, NEW q \in requests, Saved(q) PROVE TablesInv'
<1> DEFINE d == [Blank("switch") EXCEPT !.table = q.table]
           Follows == q.kind = "edit" /\ q.toggle /\ q.ours
<1>1. /\ q.at = "saved"
      /\ IF Follows THEN Ask(requests \ {q}, d) ELSE Drop(q)
      /\ tableFetch' = IF q.kind = "combine" THEN tableFetch ELSE Asking
      /\ tableForm' = IF q.kind \in {"edit", "create"} /\ q.ours THEN EmptyForm ELSE tableForm
      /\ combination' = IF q.kind = "combine" /\ q.ours THEN EmptyCombination ELSE combination
      /\ UNCHANGED <<tableRows, tablesListed, wanted, muddled, unheard>>
  BY DEF Saved, told
<1>2. /\ q \in Request
      /\ q.kind # "combine" => q.table \in Tables
      /\ "none" \notin Tables
  BY TablesAssumption DEF TablesInv, TablesAreTyped
<1>3. Follows => /\ d \in Request /\ d.kind = "switch" /\ d.table = q.table /\ d.at = "sent"
  <2>1. Follows => sentSoFar + 1 \in 1 .. MaxTableChanges
    BY <1>1, NextIsNumbered DEF Ask
  <2> QED  BY <1>2, <2>1 DEF Blank, Request
<1>4. IF Follows THEN requests' = (requests \ {q}) \cup {d} ELSE requests' = requests \ {q}
  BY <1>1 DEF Ask, Drop
<1>5. sentSoFar' \in 0 .. MaxTableChanges
  <2>1. sentSoFar \in 0 .. MaxTableChanges
    BY DEF TablesInv, TablesAreTyped
  <2>2. CASE Follows
    <3>1. sentSoFar < MaxTableChanges /\ sentSoFar' = sentSoFar + 1
      BY <1>1, <2>2 DEF Ask
    <3> QED  BY <2>1, <3>1, TablesAssumption
  <2>3. CASE ~Follows
    BY <1>1, <2>1, <2>3 DEF Drop
  <2> QED  BY <2>2, <2>3
<1> HIDE DEF d
<1>6. /\ tableForm' \in TableForm
      /\ tableForm' = EmptyForm \/ tableForm' = tableForm
      /\ Follows => tableForm' = EmptyForm
  <2>1. EmptyForm \in TableForm
    <3>1. NoTable \in TableRow /\ DefaultSeats \in SeatCounts
      BY TablesAssumption DEF NoTable, TableRow
    <3> QED  BY <3>1 DEF EmptyForm, TableForm
  <2> QED  BY <1>1, <2>1 DEF TablesInv, TablesAreTyped
<1>7. combination' \in [open : BOOLEAN, members : SUBSET Tables, seats : Nat]
  <2>1. EmptyCombination \in [open : BOOLEAN, members : SUBSET Tables, seats : Nat]
    BY DEF EmptyCombination
  <2> QED  BY <1>1, <2>1 DEF TablesInv, TablesAreTyped
<1>8. TablesAreTyped'
  <2>1. /\ requests' \subseteq Request
        /\ \A p \in requests' : p.kind \in {"edit", "create"} => p.seats \in SeatCounts
        /\ \A p \in requests' : p.kind # "combine" => p.table \in Tables
    BY <1>2, <1>3, <1>4 DEF TablesInv, TablesAreTyped
  <2>2. tableFetch' \in {NotAsking, Asking} \cup [at : {"read"}, rows : [Tables -> TableRow]]
    BY <1>1 DEF TablesInv, TablesAreTyped
  <2> QED  BY <1>1, <1>5, <1>6, <1>7, <2>1, <2>2 DEF TablesInv, TablesAreTyped
<1>9. EmptyForm.table = "none" /\ ~EmptyForm.open
  BY DEF EmptyForm
<1>10. \A u \in Tables : AbsentIsNew(u)'
  <2> SUFFICES ASSUME NEW u \in Tables PROVE AbsentIsNew(u)'
    OBVIOUS
  <2>0. AbsentIsNew(u)
    BY DEF TablesInv
  <2>1. \A p \in requests' : p.kind = "create" => p \in requests
    BY <1>3, <1>4
  <2>2. ASSUME Follows, q.table = u PROVE tableRows[u].is # "none"
    BY <2>0, <2>2 DEF AbsentIsNew
  <2>3. tableFetch'.at = "read" => tableFetch' = tableFetch
    BY <1>1 DEF Asking
  <2>4. tableForm.table # u => tableForm'.table # u
    BY <1>2, <1>6, <1>9
  <2>5. ASSUME NEW p \in requests', p.kind = "create" /\ p.table = u /\ p.at = "sent"
        PROVE  /\ tableRows'[u].is = "none"
               /\ \A r \in requests' : r.table = u => r = p
    <3>1. p \in requests
      BY <2>1, <2>5
    <3>2. tableRows[u].is = "none" /\ \A r \in requests : r.table = u => r = p
      BY <2>0, <2>5, <3>1 DEF AbsentIsNew
    <3>3. q.table # u \/ ~Follows
      BY <2>2, <3>2
    <3> QED  BY <1>1, <1>3, <1>4, <3>2, <3>3
  <2>6. tableRows[u].is = "none" => \A p \in requests' : p.table = u => p.kind = "create"
    BY <1>3, <1>4, <2>0, <2>2 DEF AbsentIsNew
  <2> QED  BY <1>1, <2>0, <2>3, <2>4, <2>5, <2>6 DEF AbsentIsNew
<1>11. ASSUME ~unheard, NEW u \in Tables PROVE SwitchOnItsWay(u)'
  <2>1. CASE q.kind # "combine"
    BY <1>1, <2>1 DEF SwitchOnItsWay, Asking
  <2>2. CASE q.kind = "combine"
    <3>1. SwitchOnItsWay(u)
      BY <1>11 DEF TablesInv, SwitchesInHand
    <3>2. \A p \in requests : p.kind = "switch" => p \in requests'
      BY <1>4, <2>2
    <3> QED  BY <1>1, <2>2, <3>1, <3>2 DEF SwitchOnItsWay
  <2> QED  BY <2>1, <2>2
<1>12. ASSUME ~unheard, NEW u \in Known(tableRows) \ muddled
       PROVE  MoveInHand(u)' /\ FormStands(u)'
  <2>0. MoveInHand(u) /\ FormStands(u) /\ u \in Tables
    BY <1>12 DEF TablesInv, SwitchesInHand, Known
  <2>1. FormStands(u)'
    <3>1. CASE tableForm' = EmptyForm
      BY <1>9, <3>1 DEF FormStands
    <3>2. CASE tableForm' = tableForm /\ tableForm # EmptyForm
      <4>1. requests' = requests \ {q}
        BY <1>4, <1>6, <3>2
      <4> QED  BY <1>1, <2>0, <3>2, <4>1 DEF FormStands
    <3> QED  BY <1>6, <3>1, <3>2
  <2>2. CASE Follows /\ q.table = u
    <3>1. Moves(q, u)
      BY <2>2 DEF Moves
    <3>2. tableRows[u].active # wanted[u]
      BY <1>1, <2>0, <2>2, <3>1 DEF MoveInHand
    <3>3. \A p \in requests' : Moves(p, u) => p = d
      BY <1>4, <2>0, <2>2, <3>1 DEF MoveInHand
    <3>4. Moves(d, u) /\ d \in requests'
      BY <1>3, <1>4, <2>2 DEF Moves
    <3>5. MoveInHand(u)'
      BY <1>1, <1>3, <2>2, <3>2, <3>3, <3>4 DEF MoveInHand
    <3> QED  BY <2>1, <3>5
  <2>3. CASE ~(Follows /\ q.table = u)
    <3>1. \A p \in requests' : Moves(p, u) => p \in requests
      BY <1>3, <1>4, <2>3 DEF Moves
    <3>2. (\A p \in requests' : ~Moves(p, u)) => tableRows[u].active = wanted[u]
      <4>1. CASE Moves(q, u)
        <5>1. q.kind = "switch" => tableRows[u].active = wanted[u]
          BY <1>1, <2>0, <4>1 DEF MoveInHand
        <5>2. q.kind = "edit" => tableRows[u].active = wanted[u]
          BY <1>1, <2>0, <2>3, <4>1 DEF MoveInHand, Moves
        <5> QED  BY <4>1, <5>1, <5>2 DEF Moves
      <4>2. CASE ~Moves(q, u)
        <5>1. \A p \in requests : Moves(p, u) => p \in requests'
          BY <1>4, <4>2
        <5> QED  BY <2>0, <5>1 DEF MoveInHand
      <4> QED  BY <4>1, <4>2
    <3>3. MoveInHand(u)'
      BY <1>1, <2>0, <3>1, <3>2 DEF MoveInHand
    <3> QED  BY <2>1, <3>3
  <2> QED  BY <2>2, <2>3
<1>13. SwitchesInHand'
  BY <1>1, <1>11, <1>12 DEF SwitchesInHand, Known
<1> QED  BY <1>8, <1>10, <1>13 DEF TablesInv

(* The owner takes the switch as it is.                                    *)
LEMMA RefusedStep == ASSUME TablesInv, NEW q \in requests, Refused(q) PROVE TablesInv'
<1>1. /\ q.at = "refused" /\ requests' = requests \ {q}
      /\ wanted' = IF q.kind \in {"switch", "edit"}
                   THEN [wanted EXCEPT ![q.table] = tableRows[q.table].active] ELSE wanted
      /\ UNCHANGED <<tableRows, tablesListed, sentSoFar, tableFetch, tableForm, combination,
                     muddled, unheard>>
  BY DEF Refused, Drop, shown
<1>2. /\ q \in Request
      /\ q.kind # "combine" => q.table \in Tables
      /\ wanted \in [Tables -> BOOLEAN] /\ tableRows \in [Tables -> TableRow]
  BY DEF TablesInv, TablesAreTyped
<1>3. /\ wanted' \in [Tables -> BOOLEAN]
      /\ \A u \in Tables : wanted'[u] = IF Moves(q, u) THEN tableRows[u].active ELSE wanted[u]
  <2>1. CASE q.kind \in {"switch", "edit"}
    <3>1. q.table \in Tables /\ tableRows[q.table].active \in BOOLEAN
      BY <1>2, <2>1 DEF TableRow
    <3> QED  BY <1>1, <1>2, <2>1, <3>1 DEF Moves
  <2>2. CASE q.kind \notin {"switch", "edit"}
    BY <1>1, <1>2, <2>2 DEF Moves
  <2> QED  BY <2>1, <2>2
<1>4. TablesAreTyped'
  BY <1>1, <1>3 DEF TablesInv, TablesAreTyped
<1>5. \A u \in Tables : AbsentIsNew(u)'
  <2> SUFFICES ASSUME NEW u \in Tables PROVE AbsentIsNew(u)'
    OBVIOUS
  <2>1. AbsentIsNew(u)
    BY DEF TablesInv
  <2>2. tableRows[u].is = "none" => wanted'[u]
    BY <1>3, <2>1 DEF AbsentIsNew
  <2> QED  BY <1>1, <2>1, <2>2 DEF AbsentIsNew
<1>6. ASSUME ~unheard, NEW u \in Tables PROVE SwitchOnItsWay(u)'
  <2>1. SwitchOnItsWay(u)
    BY <1>6 DEF TablesInv, SwitchesInHand
  <2> QED  BY <1>1, <2>1 DEF SwitchOnItsWay
<1>7. ASSUME ~unheard, NEW u \in Known(tableRows) \ muddled
      PROVE  MoveInHand(u)' /\ FormStands(u)'
  <2>0. MoveInHand(u) /\ FormStands(u) /\ u \in Tables
    BY <1>7 DEF TablesInv, SwitchesInHand, Known
  <2>1. FormStands(u)'
    BY <1>1, <2>0 DEF FormStands
  <2>2. CASE Moves(q, u)
    <3>1. \A p \in requests' : ~Moves(p, u)
      BY <1>1, <2>0, <2>2 DEF MoveInHand
    <3>2. wanted'[u] = tableRows[u].active
      BY <1>3, <2>0, <2>2
    <3> QED  BY <1>1, <2>1, <3>1, <3>2 DEF MoveInHand
  <2>3. CASE ~Moves(q, u)
    <3>1. wanted'[u] = wanted[u]
      BY <1>3, <2>0, <2>3
    <3>2. \A p \in requests : Moves(p, u) => p \in requests'
      BY <1>1, <2>3
    <3>3. requests' \subseteq requests
      BY <1>1
    <3> QED  BY <1>1, <2>0, <2>1, <3>1, <3>2, <3>3 DEF MoveInHand
  <2> QED  BY <2>2, <2>3
<1>8. SwitchesInHand'
  BY <1>1, <1>6, <1>7 DEF SwitchesInHand, Known
<1> QED  BY <1>4, <1>5, <1>8 DEF TablesInv

LEMMA LostStep ==
    ASSUME TablesInv, TablesFail \/ \E q \in requests : RequestLost(q)
    PROVE  TablesInv'
<1>1. /\ UNCHANGED <<tableRows, tablesListed, sentSoFar, tableForm, combination, wanted, muddled>>
      /\ requests' \subseteq requests /\ unheard'
      /\ tableFetch' = tableFetch \/ tableFetch' = NotAsking
  BY DEF TablesFail, RequestLost, Drop, shown, sending
<1>2. TablesAreTyped'
  BY <1>1 DEF TablesInv, TablesAreTyped, TablesFail, RequestLost
<1>3. \A u \in Tables : AbsentIsNew(u)'
  BY <1>1 DEF TablesInv, AbsentIsNew, NotAsking
<1>4. SwitchesInHand'
  BY <1>1 DEF SwitchesInHand
<1> QED  BY <1>2, <1>3, <1>4 DEF TablesInv

(* Leaving drops what was to follow an edit: those tables are muddled.     *)
LEMMA LeaveTablesStep == ASSUME TablesInv, LeaveTables PROVE TablesInv'
<1> DEFINE Rest(q) == [q EXCEPT !.ours = FALSE]
<1>1. /\ ~tableForm.open /\ requests' = {Rest(q) : q \in requests}
      /\ muddled' = muddled \cup {q.table : q \in {p \in requests : p.kind = "edit" /\ p.toggle}}
      /\ tableForm' = EmptyForm
      /\ UNCHANGED <<tableRows, tablesListed, sentSoFar, tableFetch, combination, wanted,
                     unheard>>
  BY DEF LeaveTables, AtTables
<1>2. \A q \in requests : /\ Rest(q) \in Request /\ ~Rest(q).ours
                          /\ Rest(q).kind = q.kind /\ Rest(q).table = q.table
                          /\ Rest(q).at = q.at /\ Rest(q).seats = q.seats
                          /\ Rest(q).toggle = q.toggle
  <2> SUFFICES ASSUME NEW q \in requests
               PROVE  /\ Rest(q) \in Request /\ ~Rest(q).ours
                      /\ Rest(q).kind = q.kind /\ Rest(q).table = q.table
                      /\ Rest(q).at = q.at /\ Rest(q).seats = q.seats
                      /\ Rest(q).toggle = q.toggle
    OBVIOUS
  <2>1. q \in Request
    BY DEF TablesInv, TablesAreTyped
  <2> QED  BY <2>1 DEF Request
<1> HIDE DEF Rest
<1>3. tableForm' \in TableForm /\ tableForm'.table = "none" /\ ~tableForm'.open
      /\ "none" \notin Tables
  <2>1. NoTable \in TableRow /\ DefaultSeats \in SeatCounts
    BY TablesAssumption DEF NoTable, TableRow
  <2> QED  BY <1>1, <2>1, TablesAssumption DEF EmptyForm, TableForm
<1>4. TablesAreTyped'
  <2>1. muddled' \subseteq Tables
    BY <1>1 DEF TablesInv, TablesAreTyped
  <2>2. /\ requests' \subseteq Request
        /\ \A p \in requests' : p.kind \in {"edit", "create"} => p.seats \in SeatCounts
        /\ \A p \in requests' : p.kind # "combine" => p.table \in Tables
    BY <1>1, <1>2 DEF TablesInv, TablesAreTyped
  <2> QED  BY <1>1, <1>3, <2>1, <2>2 DEF TablesInv, TablesAreTyped
<1>5. \A u \in Tables : AbsentIsNew(u)'
  <2> SUFFICES ASSUME NEW u \in Tables PROVE AbsentIsNew(u)'
    OBVIOUS
  <2>0. AbsentIsNew(u)
    BY DEF TablesInv
  <2>1. ASSUME NEW p \in requests', p.kind = "create" /\ p.table = u /\ p.at = "sent"
        PROVE  /\ tableRows'[u].is = "none"
               /\ \A r \in requests' : r.table = u => r = p
    <3>1. PICK s \in requests : p = Rest(s)
      BY <1>1
    <3>2. tableRows[u].is = "none" /\ \A r \in requests : r.table = u => r = s
      BY <1>2, <2>0, <2>1, <3>1 DEF AbsentIsNew
    <3> QED  BY <1>1, <1>2, <3>1, <3>2
  <2>2. tableRows[u].is = "none" => \A p \in requests' : p.table = u => p.kind = "create"
    BY <1>1, <1>2, <2>0 DEF AbsentIsNew
  <2> QED  BY <1>1, <1>3, <2>0, <2>1, <2>2 DEF AbsentIsNew
<1>6. ASSUME ~unheard, NEW u \in Tables PROVE SwitchOnItsWay(u)'
  <2>1. SwitchOnItsWay(u)
    BY <1>6 DEF TablesInv, SwitchesInHand
  <2>2. \A q \in requests : Rest(q) \in requests'
    BY <1>1
  <2> QED  BY <1>1, <1>2, <2>1, <2>2 DEF SwitchOnItsWay
<1>7. ASSUME ~unheard, NEW u \in Known(tableRows) \ muddled' PROVE MoveInHand(u)' /\ FormStands(u)'
  <2>0. MoveInHand(u) /\ u \in Tables
    BY <1>1, <1>7 DEF TablesInv, SwitchesInHand, Known
  <2>1. \A q \in requests : Moves(q, u) <=> Moves(Rest(q), u)
    BY <1>2 DEF Moves
  <2>2. \A p \in requests' : \E q \in requests : p = Rest(q)
    BY <1>1
  <2>3. \A p, q \in requests' : Moves(p, u) /\ Moves(q, u) => p = q
    BY <2>0, <2>1, <2>2 DEF MoveInHand
  <2>4. (\A q \in requests' : ~Moves(q, u)) => tableRows'[u].active = wanted'[u]
    BY <1>1, <2>0, <2>1 DEF MoveInHand
  <2>5. \A q \in requests : q.kind = "edit" /\ q.toggle => ~Moves(q, u)
    BY <1>1, <1>7 DEF Moves
  <2>6. \A q \in requests' : Moves(q, u) /\ q.kind = "edit" =>
              /\ q.toggle => q.ours
              /\ q.at # "refused" => (q.toggle <=> tableRows'[u].active # wanted'[u])
    <3> SUFFICES ASSUME NEW p \in requests', Moves(p, u), p.kind = "edit"
                 PROVE  /\ p.toggle => p.ours
                        /\ p.at # "refused" => (p.toggle <=> tableRows'[u].active # wanted'[u])
      OBVIOUS
    <3>1. PICK q \in requests : p = Rest(q)
      BY <2>2
    <3>2. q.kind = "edit" /\ Moves(q, u) /\ ~q.toggle
      BY <1>2, <2>1, <2>5, <3>1
    <3>3. q.at # "refused" => (q.toggle <=> tableRows[u].active # wanted[u])
      BY <2>0, <3>2 DEF MoveInHand
    <3> QED  BY <1>1, <1>2, <3>1, <3>2, <3>3
  <2>7. \A q \in requests' : Moves(q, u) /\ q.kind = "switch" /\ q.at # "refused" =>
              (q.at = "saved" <=> tableRows'[u].active = wanted'[u])
    BY <1>1, <1>2, <2>0, <2>1, <2>2 DEF MoveInHand
  <2> QED  BY <1>3, <2>3, <2>4, <2>6, <2>7 DEF MoveInHand, FormStands
<1>8. SwitchesInHand'
  BY <1>1, <1>6, <1>7 DEF SwitchesInHand, Known
<1> QED  BY <1>4, <1>5, <1>8 DEF TablesInv

LEMMA ReadTablesStep == ASSUME TablesInv, ReadTables PROVE TablesInv'
<1>1. /\ tableFetch' = [at |-> "read", rows |-> tableRows]
      /\ UNCHANGED <<tableRows, tablesListed, requests, sentSoFar, tableForm, combination,
                     wanted, muddled, unheard>>
  BY DEF ReadTables, shown, told, sending
<1>2. TablesAreTyped'
  BY <1>1 DEF TablesInv, TablesAreTyped
<1>3. \A u \in Tables : AbsentIsNew(u)'
  BY <1>1 DEF TablesInv, AbsentIsNew
<1>4. SwitchesInHand'
  BY <1>1 DEF TablesInv, SwitchesInHand, SwitchOnItsWay, MoveInHand, FormStands, Known
<1> QED  BY <1>2, <1>3, <1>4 DEF TablesInv

LEMMA TablesArriveStep == ASSUME TablesInv, TablesArrive PROVE TablesInv'
<1>1. /\ tableFetch.at = "read" /\ tablesListed' = tableFetch.rows /\ tableFetch' = NotAsking
      /\ combination' = CountAgain(tableFetch.rows)
      /\ UNCHANGED <<tableRows, requests, sentSoFar, tableForm, wanted, muddled, unheard>>
  BY DEF TablesArrive, told, sending
<1>2. tableFetch.rows \in [Tables -> TableRow]
  BY <1>1 DEF TablesInv, TablesAreTyped, NotAsking, Asking
<1>3. combination' \in [open : BOOLEAN, members : SUBSET Tables, seats : Nat]
  <2>1. combination \in [open : BOOLEAN, members : SUBSET Tables, seats : Nat]
    BY DEF TablesInv, TablesAreTyped
  <2> QED  BY <1>1, <1>2, <2>1, CountsAreSums DEF CountAgain
<1>4. TablesAreTyped'
  BY <1>1, <1>2, <1>3 DEF TablesInv, TablesAreTyped
<1>5. \A u \in Tables : AbsentIsNew(u)'
  BY <1>1 DEF TablesInv, AbsentIsNew, NotAsking
<1>6. SwitchesInHand'
  BY <1>1 DEF TablesInv, SwitchesInHand, SwitchOnItsWay, MoveInHand, FormStands, Known, NotAsking
<1> QED  BY <1>4, <1>5, <1>6 DEF TablesInv

LEMMA TablesStep == TablesInv /\ [TablesNext]_tablesVars => TablesInv'
<1> SUFFICES ASSUME TablesInv, [TablesNext]_tablesVars PROVE TablesInv'
  OBVIOUS
<1>1. CASE UNCHANGED tablesVars
  <2>1. UNCHANGED <<tableRows, tablesListed, requests, sentSoFar, tableFetch, tableForm,
                    combination, wanted, muddled, unheard>>
    BY <1>1 DEF tablesVars, sending, shown, told
  <2>2. TablesAreTyped'
    BY <2>1 DEF TablesInv, TablesAreTyped
  <2>3. \A u \in Tables : AbsentIsNew(u)'
    BY <2>1 DEF TablesInv, AbsentIsNew
  <2>4. SwitchesInHand'
    BY <2>1 DEF TablesInv, SwitchesInHand, SwitchOnItsWay, MoveInHand, FormStands, Known
  <2> QED  BY <2>2, <2>3, <2>4 DEF TablesInv
<1>2. CASE \/ NewTable \/ CloseTableForm \/ OpenCombination \/ CloseCombination
           \/ \E active \in BOOLEAN, seats \in SeatCounts : TypeTable(active, seats)
           \/ \E n \in SeatCounts : TypeCapacity(n)
           \/ \E t \in Tables : TickTable(t)
  BY <1>2, DialogsStep
<1>3. CASE \E t \in Tables : SwitchTable(t) \/ EditTable(t) \/ CreateTable(t)
  BY <1>3, SwitchTableStep, EditTableStep, CreateTableStep
<1>4. CASE SubmitCombination \/ \E t \in Tables : DragTable(t) \/ DeleteTable(t)
  BY <1>4, OtherRequestStep
<1>5. CASE UpdateTable
  BY <1>5, UpdateTableStep
<1>6. CASE \E q \in requests : HandleRequest(q) \/ RefuseRequest(q) \/ Saved(q) \/ Refused(q)
  BY <1>6, HandleRequestStep, RefuseRequestStep, SavedStep, RefusedStep
<1>7. CASE TablesFail \/ \E q \in requests : RequestLost(q)
  BY <1>7, LostStep
<1>8. CASE LeaveTables
  BY <1>8, LeaveTablesStep
<1>9. CASE ReadTables
  BY <1>9, ReadTablesStep
<1>10. CASE TablesArrive
  BY <1>10, TablesArriveStep
<1> QED  BY <1>1, <1>2, <1>3, <1>4, <1>5, <1>6, <1>7, <1>8, <1>9, <1>10 DEF TablesNext

(* The inductive invariant of the tables page: of a table that was not     *)
(* touched again too soon one request at most is about its switch, and it  *)
(* says what is still to be done.                                          *)
THEOREM TablesInvariant == TablesSpec => []TablesInv
BY TablesInitInv, TablesStep, PTL DEF TablesSpec

(* The tables' page and its requests are type correct, and the seats of a  *)
(* combination are a number, for any tables.                               *)
THEOREM TablesTypeCorrect == TablesSpec => []TablesTypeOK
<1>1. TablesInv => TablesTypeOK
  BY DEF TablesInv, TablesAreTyped, TableForm, NotAsking, Asking, TablesTypeOK
<1> QED  BY <1>1, TablesInvariant, PTL

(* For any tables and any number of requests: the card and the form with   *)
(* its second request (handleUpdateTable of TablesPage) leave a table's    *)
(* switch where the owner put it, as TablesAreAsWanted says.               *)
THEOREM SwitchesAreWanted == TablesSpec => []TablesAreAsWanted
<1>1. TablesInv => TablesAreAsWanted
  <2> SUFFICES ASSUME TablesInv, NEW t \in Known(tableRows) \ muddled, Calm(t)
               PROVE  tableRows[t].active = wanted[t]
    BY DEF TablesAreAsWanted
  <2>1. ~unheard /\ \A q \in requests : ~Moves(q, t)
    BY CalmIsFresh DEF Known
  <2>2. MoveInHand(t)
    BY <2>1 DEF TablesInv, SwitchesInHand
  <2> QED  BY <2>1, <2>2 DEF MoveInHand
<1> QED  BY <1>1, TablesInvariant, PTL

-----------------------------------------------------------------------------
Slots == [table : DeskTables \cup {"none"}, hour : DeskHours \cup {NoHour}]

DeskIsTyped ==
    /\ day \in DeskDays /\ preset \in Slots /\ dialog \in Dialog
    /\ openings \in Nat /\ submits \in Nat /\ (dialog.open => openings > 0)
    /\ \A c \in creating : c.of \in 1 .. openings
    /\ \A r \in deskRows : r.of \in 1 .. openings

(* As long as no answer was lost and no dialog left while it was creating, *)
(* one creation at most is under way, of the dialog that is open, ...      *)
OneCreation ==
    /\ \A c, d \in creating : c = d
    /\ \A c \in creating : c.of = openings /\ dialog.open /\ dialog.submitting

(* ... and an opening has its reservation when that creation is made, or   *)
(* when the dialog is closed.                                              *)
OneReservation ==
    /\ \A r, x \in deskRows : r.of = x.of => r = x
    /\ dialog.open /\ (\A c \in creating : c.at # "made") => \A r \in deskRows : r.of # openings

DeskInv == DeskIsTyped /\ (troubles = {} => OneCreation /\ OneReservation)

LEMMA DeskInitInv == DeskInit => DeskInv
<1> SUFFICES ASSUME DeskInit PROVE DeskInv
  OBVIOUS
<1>1. NoForm \in BookingForm
  BY DEF NoForm, BookingForm, NoHour
<1>2. dialog \in Dialog
  BY <1>1 DEF DeskInit, Dialog
<1>3. preset \in Slots
  BY DEF DeskInit, Slots
<1> QED  BY <1>2, <1>3 DEF DeskInit, DeskInv, DeskIsTyped, OneCreation, OneReservation

(* The calendar and the fields of the dialog.                              *)
LEMMA FieldStep ==
    ASSUME DeskInv, ChangeDay \/ EditForm \/ CheckRules \/ CheckAnswered \/ TickOverride
    PROVE  DeskInv'
<1>1. \A d \in Dialog :
          /\ d.override \in BOOLEAN
          /\ \A b \in BOOLEAN : /\ [d EXCEPT !.override = b] \in Dialog
                                /\ [d EXCEPT !.override = b].open = d.open
                                /\ [d EXCEPT !.override = b].submitting = d.submitting
          /\ \A v \in {"none", "allowed", "blocked"} :
                /\ [d EXCEPT !.result = v] \in Dialog /\ [d EXCEPT !.result = v].open = d.open
                /\ [d EXCEPT !.result = v].submitting = d.submitting
  BY DEF Dialog
<1>2. ASSUME NEW t \in DeskTables, NEW h \in DeskHours
      PROVE  [dialog EXCEPT !.form.table = t, !.form.hour = h, !.form.clicked = FALSE] \in
                {d \in Dialog : d.open = dialog.open /\ d.submitting = dialog.submitting}
  BY DEF DeskInv, DeskIsTyped, Dialog, BookingForm
<1>3. /\ UNCHANGED <<preset, creating, deskRows, openings, submits, troubles>>
      /\ day' \in DeskDays
  BY DEF ChangeDay, EditForm, CheckRules, CheckAnswered, TickOverride, calendar, counts, booking,
         DeskInv, DeskIsTyped
<1>4. /\ dialog' \in Dialog /\ dialog'.open = dialog.open
      /\ dialog'.submitting = dialog.submitting
  <2>0. dialog \in Dialog /\ dialog.result \in {"none", "allowed", "blocked"}
    BY DEF DeskInv, DeskIsTyped, Dialog
  <2>1. CASE EditForm
    <3>1. PICK t \in DeskTables, h \in DeskHours :
              dialog' = [dialog EXCEPT !.form.table = t, !.form.hour = h, !.form.clicked = FALSE]
      BY <2>1 DEF EditForm
    <3> QED  BY <1>2, <3>1
  <2>2. CASE CheckAnswered
    <3>1. PICK v \in {"none", "allowed", "blocked"} : dialog' = [dialog EXCEPT !.result = v]
      BY <2>0, <2>2 DEF CheckAnswered
    <3> QED  BY <1>1, <2>0, <3>1
  <2>3. CASE TickOverride
    <3>1. dialog' = [dialog EXCEPT !.override = ~dialog.override]
      BY <2>3 DEF TickOverride
    <3> QED  BY <1>1, <2>0, <3>1
  <2>4. CASE ChangeDay \/ CheckRules
    BY <2>0, <2>4 DEF ChangeDay, CheckRules, booking
  <2> QED  BY <2>1, <2>2, <2>3, <2>4
<1> QED  BY <1>3, <1>4 DEF DeskInv, DeskIsTyped, OneCreation, OneReservation

(* A new opening has no reservation yet.                                   *)
LEMMA OpenStep == ASSUME DeskInv, ClickSlot \/ NewReservation PROVE DeskInv'
<1>1. PICK p \in Slots : OpenDialog(p)
  BY DEF ClickSlot, NewReservation, TimeSlots, Slots, DeskInv, DeskIsTyped
<1>2. Cleared(p) \in Dialog /\ Cleared(p).open
  BY DEF Cleared, Dialog, BookingForm, Slots, NoHour, DeskInv, DeskIsTyped
<1>3. /\ ~dialog.open /\ dialog' = Cleared(p) /\ preset' = p /\ openings' = openings + 1
      /\ UNCHANGED <<day, creating, deskRows, submits, troubles>>
  BY <1>1 DEF OpenDialog, AtDesk
<1>4. /\ openings' \in Nat /\ \A n \in 1 .. openings : n \in 1 .. openings' /\ n # openings'
  BY <1>3 DEF DeskInv, DeskIsTyped
<1> QED  BY <1>2, <1>3, <1>4 DEF DeskInv, DeskIsTyped, OneCreation, OneReservation

LEMMA SubmittingStep ==
    ASSUME NEW d \in Dialog, NEW b \in BOOLEAN
    PROVE  /\ [d EXCEPT !.submitting = b] \in Dialog /\ [d EXCEPT !.submitting = b].open = d.open
           /\ [d EXCEPT !.submitting = b].submitting = b
           /\ [d EXCEPT !.open = b] \in Dialog /\ [d EXCEPT !.open = b].open = b
           /\ [d EXCEPT !.open = b].submitting = d.submitting
           /\ [d EXCEPT !.submitting = FALSE, !.open = b] \in Dialog
           /\ [d EXCEPT !.submitting = FALSE, !.open = b].open = b
BY DEF Dialog

(* The button is locked while its creation is under way.                   *)
LEMMA SubmitDeskStep == ASSUME DeskInv, SubmitReservation PROVE DeskInv'
<1> DEFINE c == [id |-> submits + 1, of |-> openings, form |-> dialog.form,
                 bypass |-> dialog.override, at |-> "sent"]
<1>1. /\ dialog.open /\ ~dialog.submitting /\ dialog' = [dialog EXCEPT !.submitting = TRUE]
      /\ submits' = submits + 1 /\ creating' = creating \cup {c}
      /\ UNCHANGED <<day, preset, openings, troubles, deskRows>>
  BY DEF SubmitReservation, MayCreate, calendar
<1>2. dialog' \in Dialog /\ dialog'.open /\ dialog'.submitting
  <2>1. dialog \in Dialog
    BY DEF DeskInv, DeskIsTyped
  <2>2. /\ [dialog EXCEPT !.submitting = TRUE] \in Dialog
        /\ [dialog EXCEPT !.submitting = TRUE].open = dialog.open
        /\ [dialog EXCEPT !.submitting = TRUE].submitting
    BY <2>1 DEF Dialog
  <2> QED  BY <1>1, <2>2
<1>3. c.of = openings /\ c.at = "sent"
  OBVIOUS
<1> HIDE DEF c
<1>4. openings \in 1 .. openings
  BY DEF SubmitReservation, DeskInv, DeskIsTyped
<1> QED  BY <1>1, <1>2, <1>3, <1>4 DEF DeskInv, DeskIsTyped, OneCreation, OneReservation

LEMMA CloseStep == ASSUME DeskInv, CloseDialog PROVE DeskInv'
<1>1. /\ dialog' = [dialog EXCEPT !.open = FALSE]
      /\ UNCHANGED <<day, preset, creating, openings, submits, deskRows>>
      /\ troubles' = {} => troubles = {} /\ ~dialog.submitting
  BY DEF CloseDialog, calendar
<1>2. dialog' \in Dialog /\ ~dialog'.open
  BY <1>1, SubmittingStep DEF DeskInv, DeskIsTyped
<1> QED  BY <1>1, <1>2 DEF DeskInv, DeskIsTyped, OneCreation, OneReservation

(* The server decides.                                                     *)
LEMMA DecideStep ==
    ASSUME DeskInv, NEW c \in creating, CreateReservation(c) \/ RefuseReservation(c)
    PROVE  DeskInv'
<1>1. PICK at \in {"made", "refused"} :
          /\ c.at = "sent" /\ creating' = (creating \ {c}) \cup {[c EXCEPT !.at = at]}
          /\ at = "refused" => UNCHANGED deskRows
          /\ at = "made" => CreateReservation(c)
  BY DEF CreateReservation, RefuseReservation, Answer
<1> DEFINE d == [c EXCEPT !.at = at]
<1>2. d.of = c.of /\ creating' = (creating \ {c}) \cup {d} /\ c.of \in 1 .. openings
  BY <1>1 DEF DeskInv, DeskIsTyped
<1> HIDE DEF d
<1>3. UNCHANGED <<day, preset, dialog, openings, submits, troubles>>
  BY DEF CreateReservation, RefuseReservation, calendar, counts
<1>4. CASE at = "refused"
  BY <1>1, <1>2, <1>3, <1>4 DEF DeskInv, DeskIsTyped, OneCreation, OneReservation
<1>5. CASE at = "made"
  <2> DEFINE r == [id |-> c.id, of |-> c.of, form |-> c.form, live |-> TRUE, bypass |-> c.bypass,
                   at |-> ReservedFor(c.form.day, c.form.hour)]
  <2>1. deskRows' = deskRows \cup {r} /\ r.of = c.of
    BY <1>1, <1>5 DEF CreateReservation
  <2> HIDE DEF r
  <2>2. DeskIsTyped'
    BY <1>2, <1>3, <2>1 DEF DeskInv, DeskIsTyped
  <2>3. ASSUME troubles = {} PROVE OneCreation' /\ OneReservation'
    <3>1. /\ creating' = {d} /\ c.of = openings /\ dialog.open /\ dialog.submitting
          /\ \A x \in creating : x.at # "made"
      BY <1>1, <1>2, <2>3 DEF DeskInv, OneCreation
    <3>2. OneReservation /\ \A x \in deskRows : x.of # openings
      BY <2>3, <3>1 DEF DeskInv, OneReservation
    <3>3. d.at = "made"
      BY <1>5 DEF d
    <3> QED  BY <1>2, <1>3, <2>1, <3>1, <3>2, <3>3 DEF OneCreation, OneReservation
  <2> QED  BY <1>3, <2>2, <2>3 DEF DeskInv
<1> QED  BY <1>1, <1>4, <1>5

(* The answer.                                                             *)
LEMMA CreatedStep ==
    ASSUME DeskInv, NEW c \in creating, CreationAnswered(c) \/ CreationLost(c)
    PROVE  DeskInv'
<1>1. CASE CreationAnswered(c)
  <2> DEFINE b == dialog.open /\ c.at = "refused"
  <2>1. /\ creating' = creating \ {c} /\ c.at # "sent"
        /\ dialog' = [dialog EXCEPT !.submitting = FALSE, !.open = b]
        /\ UNCHANGED <<day, preset, openings, submits, troubles, deskRows>>
    BY <1>1 DEF CreationAnswered, calendar, counts
  <2>2. dialog \in Dialog /\ b \in BOOLEAN
    BY DEF DeskInv, DeskIsTyped, Dialog
  <2>3. dialog' \in Dialog /\ dialog'.open = b
    <3> HIDE DEF b
    <3> QED  BY ZenonT(30), <2>1, <2>2, SubmittingStep
  <2>4. DeskIsTyped'
    BY <2>1, <2>3 DEF DeskInv, DeskIsTyped
  <2>5. ASSUME troubles = {} PROVE OneCreation' /\ OneReservation'
    <3>1. OneCreation /\ OneReservation /\ creating = {c} /\ creating' = {}
      BY <2>1, <2>5 DEF DeskInv, OneCreation
    <3> QED  BY <2>1, <2>3, <3>1 DEF OneCreation, OneReservation
  <2> QED  BY <2>1, <2>4, <2>5 DEF DeskInv
<1>2. CASE CreationLost(c)
  BY <1>2, SubmittingStep DEF CreationLost, calendar, DeskInv, DeskIsTyped
<1> QED  BY <1>1, <1>2

(* A reservation that ends keeps its opening.                              *)
LEMMA FreeStep == ASSUME DeskInv, SlotComesFree PROVE DeskInv'
<1>1. PICK r \in deskRows : deskRows' = (deskRows \ {r}) \cup {[r EXCEPT !.live = FALSE]}
  BY DEF SlotComesFree
<1> DEFINE x == [r EXCEPT !.live = FALSE]
<1>2. x.of = r.of /\ deskRows' = (deskRows \ {r}) \cup {x}
  BY <1>1
<1> HIDE DEF x
<1>3. UNCHANGED <<day, preset, dialog, creating, openings, submits, troubles>>
  BY DEF SlotComesFree, calendar, booking, counts
<1> QED  BY <1>1, <1>2, <1>3 DEF DeskInv, DeskIsTyped, OneCreation, OneReservation

LEMMA DeskStep == DeskInv /\ [DeskNext]_deskVars => DeskInv'
<1> SUFFICES ASSUME DeskInv, [DeskNext]_deskVars PROVE DeskInv'
  OBVIOUS
<1>1. CASE UNCHANGED deskVars
  BY <1>1 DEF deskVars, DeskInv, DeskIsTyped, OneCreation, OneReservation
<1>2. CASE CloseDialog
  BY <1>2, CloseStep
<1>3. CASE SubmitReservation
  BY <1>3, SubmitDeskStep
<1> QED  BY <1>1, <1>2, <1>3, FieldStep, OpenStep, DecideStep, CreatedStep, FreeStep DEF DeskNext

(* The inductive invariant of the reservations page.                       *)
THEOREM DeskInvariant == DeskSpec => []DeskInv
BY DeskInitInv, DeskStep, PTL DEF DeskSpec

(* One opening of the dialog makes one reservation, for any number of      *)
(* openings and submits, unless an answer was lost or a dialog left while  *)
(* it was creating.                                                        *)
THEOREM OpeningsBookOnce == DeskSpec => []OneBookingPerOpening
<1>1. DeskInv => OneBookingPerOpening
  BY DEF DeskInv, OneReservation, OneBookingPerOpening
<1> QED  BY <1>1, DeskInvariant, PTL

-----------------------------------------------------------------------------
(* What the page sends, and what is stored of it.                          *)
Creation == [id : 1 .. MaxSubmits, of : 1 .. MaxOpenings, form : BookingForm,
             bypass : BOOLEAN, at : {"sent", "made", "refused"}]

(* A form that counts as clicked has an hour that can be clicked.          *)
IsClicked(f) == f.clicked => f.hour \in TimeSlots

DeskIsCounted ==
    /\ openings \in 0 .. MaxOpenings /\ submits \in 0 .. MaxSubmits /\ checking \in 0 .. MaxChecks
    /\ troubles \subseteq {"lost", "left"}
    /\ creating \subseteq Creation /\ deskRows \subseteq DeskRow /\ IsFiniteSet(deskRows)

HoursAreClicked ==
    /\ preset.hour \in TimeSlots \cup {NoHour} /\ IsClicked(dialog.form)
    /\ \A c \in creating : IsClicked(c.form)
    /\ \A r \in deskRows : IsClicked(r.form) /\ r.at = ReservedFor(r.form.day, r.form.hour)

ClickInv == DeskInv /\ DeskIsCounted /\ HoursAreClicked

LEMMA ClickInitInv == DeskInit => ClickInv
<1> SUFFICES ASSUME DeskInit PROVE ClickInv
  OBVIOUS
<1>1. DeskInv
  BY DeskInitInv
<1>2. DeskIsCounted
  BY DeskAssumption, FS_EmptySet DEF DeskInit, DeskIsCounted
<1>3. HoursAreClicked
  BY DEF DeskInit, HoursAreClicked, IsClicked, NoForm
<1> QED  BY <1>1, <1>2, <1>3 DEF ClickInv

LEMMA FieldClickStep ==
    ASSUME ClickInv, ChangeDay \/ EditForm \/ CheckRules \/ CheckAnswered \/ TickOverride
    PROVE  DeskIsCounted' /\ HoursAreClicked'
<1>1. UNCHANGED <<preset, creating, deskRows, openings, submits, troubles>>
  BY DEF ChangeDay, EditForm, CheckRules, CheckAnswered, TickOverride, calendar, counts, booking
<1>2. checking' \in 0 .. MaxChecks
  <2>1. checking' \in {checking} \/ (checking < MaxChecks /\ checking' = checking + 1)
           \/ (checking > 0 /\ checking' = checking - 1)
    BY DEF ChangeDay, EditForm, CheckRules, CheckAnswered, TickOverride, booking
  <2> QED  BY <2>1, DeskAssumption DEF ClickInv, DeskIsCounted
<1>3. IsClicked(dialog.form)'
  <2>1. dialog \in Dialog
    BY DEF ClickInv, DeskInv, DeskIsTyped
  <2>2. CASE EditForm
    <3>1. PICK t \in DeskTables, h \in DeskHours :
              dialog' = [dialog EXCEPT !.form.table = t, !.form.hour = h, !.form.clicked = FALSE]
      BY <2>2 DEF EditForm
    <3>2. ~dialog'.form.clicked
      BY <2>1, <3>1 DEF Dialog, BookingForm
    <3> QED  BY <3>2 DEF IsClicked
  <2>3. CASE ~EditForm
    <3>1. dialog'.form = dialog.form
      BY <2>1, <2>3 DEF ChangeDay, CheckRules, CheckAnswered, TickOverride, booking, Dialog
    <3> QED  BY <3>1 DEF ClickInv, HoursAreClicked, IsClicked
  <2> QED  BY <2>2, <2>3
<1>4. DeskIsCounted'
  BY <1>1, <1>2 DEF ClickInv, DeskIsCounted
<1>5. HoursAreClicked'
  BY <1>1, <1>3 DEF ClickInv, HoursAreClicked, IsClicked
<1> QED  BY <1>4, <1>5

LEMMA OpenClickStep ==
    ASSUME ClickInv, ClickSlot \/ NewReservation PROVE DeskIsCounted' /\ HoursAreClicked'
<1>1. PICK p \in Slots : OpenDialog(p) /\ p.hour \in TimeSlots \cup {NoHour}
  <2>1. CASE ClickSlot
    <3>1. PICK t \in DeskTables, h \in TimeSlots : OpenDialog([table |-> t, hour |-> h])
      BY <2>1 DEF ClickSlot
    <3>2. [table |-> t, hour |-> h] \in Slots
      BY DEF Slots, TimeSlots
    <3> QED  BY <3>1, <3>2
  <2>2. CASE NewReservation
    <3>1. preset \in Slots /\ preset.hour \in TimeSlots \cup {NoHour}
      BY DEF ClickInv, DeskInv, DeskIsTyped, HoursAreClicked
    <3> QED  BY <2>2, <3>1 DEF NewReservation
  <2> QED  BY <2>1, <2>2
<1>2. /\ dialog' = Cleared(p) /\ preset' = p /\ openings' = openings + 1
      /\ openings < MaxOpenings
      /\ UNCHANGED <<checking, creating, deskRows, submits, troubles>>
  BY <1>1 DEF OpenDialog
<1>3. IsClicked(dialog'.form)
  BY <1>1, <1>2 DEF Cleared, IsClicked
<1>4. DeskIsCounted'
  BY <1>2, DeskAssumption DEF ClickInv, DeskIsCounted
<1>5. HoursAreClicked'
  BY <1>1, <1>2, <1>3 DEF ClickInv, HoursAreClicked, IsClicked
<1> QED  BY <1>4, <1>5

LEMMA SubmitClickStep ==
    ASSUME ClickInv, SubmitReservation PROVE DeskIsCounted' /\ HoursAreClicked'
<1> DEFINE c == [id |-> submits + 1, of |-> openings, form |-> dialog.form,
                 bypass |-> dialog.override, at |-> "sent"]
<1>1. /\ dialog' = [dialog EXCEPT !.submitting = TRUE] /\ dialog.open
      /\ submits < MaxSubmits /\ submits' = submits + 1 /\ creating' = creating \cup {c}
      /\ UNCHANGED <<preset, checking, openings, troubles, deskRows>>
  BY DEF SubmitReservation, calendar
<1>2. dialog'.form = dialog.form
  BY <1>1 DEF ClickInv, DeskInv, DeskIsTyped, Dialog
<1>3. c \in Creation /\ c.form = dialog.form
  <2>1. openings \in 1 .. MaxOpenings /\ submits + 1 \in 1 .. MaxSubmits
    BY <1>1, DeskAssumption DEF ClickInv, DeskInv, DeskIsTyped, DeskIsCounted
  <2>2. dialog.form \in BookingForm /\ dialog.override \in BOOLEAN
    BY DEF ClickInv, DeskInv, DeskIsTyped, Dialog
  <2> QED  BY <2>1, <2>2 DEF Creation
<1> HIDE DEF c
<1>4. submits' \in 0 .. MaxSubmits
  BY <1>1, DeskAssumption DEF ClickInv, DeskIsCounted
<1>5. DeskIsCounted'
  BY <1>1, <1>3, <1>4 DEF ClickInv, DeskIsCounted
<1>6. HoursAreClicked'
  BY <1>1, <1>2, <1>3 DEF ClickInv, HoursAreClicked, IsClicked
<1> QED  BY <1>5, <1>6

LEMMA CloseClickStep == ASSUME ClickInv, CloseDialog PROVE DeskIsCounted' /\ HoursAreClicked'
<1>1. /\ dialog' = [dialog EXCEPT !.open = FALSE]
      /\ UNCHANGED <<preset, checking, creating, openings, submits, deskRows>>
      /\ troubles' \subseteq troubles \cup {"left"}
  BY DEF CloseDialog, calendar
<1>2. dialog'.form = dialog.form
  BY <1>1 DEF ClickInv, DeskInv, DeskIsTyped, Dialog
<1>3. DeskIsCounted'
  BY <1>1 DEF ClickInv, DeskIsCounted
<1>4. HoursAreClicked'
  BY <1>1, <1>2 DEF ClickInv, HoursAreClicked, IsClicked
<1> QED  BY <1>3, <1>4

LEMMA FormsAreNumbers == \A f \in BookingForm : f.day \in Nat /\ f.hour \in Nat
<1>1. DeskDays \cup {0} \subseteq Nat /\ DeskHours \cup {24} \subseteq Nat
  BY DeskAssumption
<1> QED  BY <1>1 DEF BookingForm

LEMMA DecideClickStep ==
    ASSUME ClickInv, NEW c \in creating, CreateReservation(c) \/ RefuseReservation(c)
    PROVE  DeskIsCounted' /\ HoursAreClicked'
<1>1. PICK at \in {"made", "refused"} :
          /\ creating' = (creating \ {c}) \cup {[c EXCEPT !.at = at]}
          /\ at = "refused" => UNCHANGED deskRows
          /\ at = "made" => CreateReservation(c)
  BY DEF CreateReservation, RefuseReservation, Answer
<1> DEFINE d == [c EXCEPT !.at = at]
<1>2. /\ d \in Creation /\ d.form = c.form /\ IsClicked(c.form)
      /\ creating' = (creating \ {c}) \cup {d} /\ c \in Creation
  BY <1>1 DEF ClickInv, DeskIsCounted, HoursAreClicked, Creation
<1> HIDE DEF d
<1>3. UNCHANGED <<day, preset, dialog, checking, openings, submits, troubles>>
  BY DEF CreateReservation, RefuseReservation, calendar, counts
<1> DEFINE r == [id |-> c.id, of |-> c.of, form |-> c.form, live |-> TRUE, bypass |-> c.bypass,
                 at |-> ReservedFor(c.form.day, c.form.hour)]
<1>4. deskRows' = deskRows \/ deskRows' = deskRows \cup {r}
  BY <1>1 DEF CreateReservation
<1>5. r \in DeskRow /\ r.form = c.form /\ r.at = ReservedFor(c.form.day, c.form.hour)
  <2>1. c.form.day \in Int /\ c.form.hour \in Int
    BY <1>2, FormsAreNumbers DEF Creation
  <2>2. ReservedFor(c.form.day, c.form.hour) \in Int
    BY <2>1, DeskAssumption DEF ReservedFor
  <2> QED  BY <1>2, <2>2 DEF DeskRow, Creation
<1> HIDE DEF r
<1>6. IsFiniteSet(deskRows')
  BY <1>4, FS_AddElement DEF ClickInv, DeskIsCounted
<1>7. DeskIsCounted'
  BY <1>2, <1>3, <1>4, <1>5, <1>6 DEF ClickInv, DeskIsCounted
<1>8. HoursAreClicked'
  BY <1>2, <1>3, <1>4, <1>5 DEF ClickInv, HoursAreClicked, IsClicked
<1> QED  BY <1>7, <1>8

LEMMA CreatedClickStep ==
    ASSUME ClickInv, NEW c \in creating, CreationAnswered(c) \/ CreationLost(c)
    PROVE  DeskIsCounted' /\ HoursAreClicked'
<1>1. /\ creating' \subseteq creating /\ troubles' \subseteq troubles \cup {"lost"}
      /\ UNCHANGED <<preset, checking, openings, submits, deskRows>>
  BY DEF CreationAnswered, CreationLost, calendar, counts
<1>2. dialog'.form = dialog.form
  BY DEF CreationAnswered, CreationLost, ClickInv, DeskInv, DeskIsTyped, Dialog
<1>3. DeskIsCounted'
  BY <1>1 DEF ClickInv, DeskIsCounted
<1>4. HoursAreClicked'
  BY <1>1, <1>2 DEF ClickInv, HoursAreClicked, IsClicked
<1> QED  BY <1>3, <1>4

LEMMA FreeClickStep == ASSUME ClickInv, SlotComesFree PROVE DeskIsCounted' /\ HoursAreClicked'
<1>1. PICK r \in deskRows : deskRows' = (deskRows \ {r}) \cup {[r EXCEPT !.live = FALSE]}
  BY DEF SlotComesFree
<1> DEFINE x == [r EXCEPT !.live = FALSE]
<1>2. /\ x \in DeskRow /\ x.form = r.form /\ x.at = r.at
      /\ deskRows' = (deskRows \ {r}) \cup {x}
  BY <1>1 DEF ClickInv, DeskIsCounted, DeskRow
<1> HIDE DEF x
<1>3. UNCHANGED <<preset, dialog, checking, creating, openings, submits, troubles>>
  BY DEF SlotComesFree, calendar, booking, counts
<1>4. IsFiniteSet(deskRows')
  <2>1. IsFiniteSet(deskRows \ {r})
    BY FS_Difference DEF ClickInv, DeskIsCounted
  <2> QED  BY <1>2, <2>1, FS_AddElement
<1>5. DeskIsCounted'
  BY <1>2, <1>3, <1>4 DEF ClickInv, DeskIsCounted
<1>6. HoursAreClicked'
  BY <1>2, <1>3 DEF ClickInv, HoursAreClicked, IsClicked
<1> QED  BY <1>5, <1>6

LEMMA ClickStepKeeps == ClickInv /\ [DeskNext]_deskVars => ClickInv'
<1> SUFFICES ASSUME ClickInv, [DeskNext]_deskVars PROVE ClickInv'
  OBVIOUS
<1>1. DeskInv'
  BY DeskStep DEF ClickInv
<1>2. DeskIsCounted' /\ HoursAreClicked'
  <2>1. CASE UNCHANGED deskVars
    BY <2>1 DEF deskVars, ClickInv, DeskIsCounted, HoursAreClicked, IsClicked
  <2> QED  BY <2>1, FieldClickStep, OpenClickStep, SubmitClickStep, CloseClickStep,
              DecideClickStep, CreatedClickStep, FreeClickStep DEF DeskNext
<1> QED  BY <1>1, <1>2 DEF ClickInv

(* The inductive invariant of the hours on the reservations page.          *)
THEOREM ClickInvariant == DeskSpec => []ClickInv
BY ClickInitInv, ClickStepKeeps, PTL DEF DeskSpec

(* The reservations page keeps its types.                                  *)
THEOREM DeskTypeCorrect == DeskSpec => []DeskTypeOK
<1>1. ClickInv => DeskTypeOK
  BY DEF ClickInv, DeskInv, DeskIsTyped, DeskIsCounted, DeskTypeOK
<1> QED  BY <1>1, ClickInvariant, PTL

(* Of a day that fits on one answer, an earlier row is always there.       *)
LEMMA SmallDayIsOnPage ==
    ASSUME ClickInv, NEW d \in Nat, NEW r \in OfUtcDay(d), Cardinality(OfUtcDay(d)) <= PageSize
    PROVE  r \in OnPage(d)
<1> DEFINE All == OfUtcDay(d)
           Earlier == {x \in All : x.at < r.at}
<1>1. IsFiniteSet(All)
  BY FS_Subset DEF OfUtcDay, ClickInv, DeskIsCounted
<1>2. IsFiniteSet(All \ {r}) /\ Cardinality(All \ {r}) = Cardinality(All) - 1
  BY <1>1, FS_RemoveElement
<1>3. r.at \in Int /\ Earlier \subseteq All \ {r}
  BY DEF OfUtcDay, ClickInv, DeskIsCounted, DeskRow
<1>4. Cardinality(Earlier) <= Cardinality(All \ {r}) /\ IsFiniteSet(Earlier)
  BY <1>2, <1>3, FS_Subset
<1>5. Cardinality(Earlier) \in Nat /\ Cardinality(All \ {r}) \in Nat /\ Cardinality(All) \in Nat
  BY <1>1, <1>2, <1>4, FS_CardinalityType
<1>6. Cardinality(Earlier) < PageSize
  BY <1>2, <1>4, <1>5, DeskAssumption
<1> QED  BY <1>6 DEF OnPage

(* A reservation made in a clicked slot is drawn on its day, at its hour,  *)
(* for any tables, days and numbers of bookings, if the venue is at most   *)
(* ten hours ahead of UTC: the hours that can be clicked start at ten.     *)
THEOREM BookingsAreDrawn ==
    ASSUME UtcOffset <= 10 PROVE DeskSpec => []BookedWhereClicked
<1>1. ASSUME ClickInv, NEW r \in deskRows, r.form.clicked,
             Cardinality(OfUtcDay(r.form.day)) <= PageSize
      PROVE  r \in OnPage(r.form.day) /\ DrawnAt(r) = r.form.hour
  <2> DEFINE d == r.form.day
             h == r.form.hour
  <2>1. d \in Nat /\ h \in 10 .. 23 /\ r.at = 24 * d + h - UtcOffset /\ UtcOffset \in Nat
    <3>1. r.form \in BookingForm
      BY <1>1 DEF ClickInv, DeskIsCounted, DeskRow
    <3>2. h \in TimeSlots /\ r.at = ReservedFor(d, h)
      BY <1>1 DEF ClickInv, HoursAreClicked, IsClicked
    <3>3. UtcOffset \in Nat
      BY DeskAssumption
    <3> QED  BY <3>1, <3>2, <3>3, FormsAreNumbers DEF TimeSlots, ReservedFor
  <2>2. r.at >= 24 * d /\ r.at < 24 * (d + 1)
    BY <2>1
  <2>3. r \in OfUtcDay(d)
    BY <2>2 DEF OfUtcDay
  <2>4. r \in OnPage(d)
    BY <1>1, <2>1, <2>3, SmallDayIsOnPage
  <2>5. (24 * d + h) % 24 = h
    BY <2>1
  <2>6. DrawnAt(r) = h
    BY <2>1, <2>5 DEF DrawnAt
  <2> QED  BY <2>4, <2>6
<1>2. ClickInv => BookedWhereClicked
  BY <1>1 DEF BookedWhereClicked
<1> QED  BY <1>2, ClickInvariant, PTL

-----------------------------------------------------------------------------
DrawerIsTyped ==
    /\ realStatus \in [Bookings -> Status]
    /\ detail \in [Bookings -> Status \cup {"none"}]
    /\ fetching \in [Bookings -> Status \cup {"idle", "sent"}]
    /\ relabels \subseteq [id : 1 .. MaxRelabels, of : Bookings, to : Status,
                           at : {"sent", "saved", "refused"}]
    /\ relabelled \in 0 .. MaxRelabels
    /\ selected \in Bookings \cup {"none"} /\ drawerOpen \in BOOLEAN
    /\ drawerOpen => selected # "none"
    /\ foreign \subseteq Bookings /\ parted \subseteq Bookings /\ blind \in BOOLEAN

(* A reservation whose detail is under way is the one selected, ...        *)
FetchedIsSelected ==
    \A b \in Bookings \ parted : fetching[b] # "idle" => selected = b

(* ... and a status it does not have yet is announced: by a change whose   *)
(* answer will ask for it, or by the query itself.                         *)
ChangeOnItsWay(b) ==
    \/ \E c \in relabels : c.of = b /\ c.at = "saved"
    \/ fetching[b] \in {"sent", realStatus[b]}
    \/ fetching[b] = "idle" /\ detail[b] \in {"none", realStatus[b]}

DrawerInv ==
    /\ DrawerIsTyped /\ FetchedIsSelected
    /\ ~blind => \A b \in Bookings \ (foreign \cup parted) : ChangeOnItsWay(b)

LEMMA StatusIsNoMark == "idle" \notin Status /\ "sent" \notin Status /\ "none" \notin Status
BY DEF Status, LiveStatus

LEMMA DrawerInitInv == DrawerInit => DrawerInv
<1> SUFFICES ASSUME DrawerInit PROVE DrawerInv
  OBVIOUS
<1>1. LiveStatus \subseteq Status
  BY DEF Status
<1>2. DrawerIsTyped
  <2>1. /\ realStatus \in [Bookings -> Status]
        /\ detail \in [Bookings -> Status \cup {"none"}]
        /\ fetching \in [Bookings -> Status \cup {"idle", "sent"}]
    BY <1>1 DEF DrawerInit
  <2>2. relabels = {} /\ relabelled \in 0 .. MaxRelabels
    BY DrawerAssumption DEF DrawerInit
  <2> QED  BY <2>1, <2>2 DEF DrawerInit, DrawerIsTyped
<1> QED  BY <1>2 DEF DrawerInit, DrawerInv, FetchedIsSelected, ChangeOnItsWay

(* Turning to another reservation in the middle of a fetch is remembered.  *)
LEMMA TurnStep ==
    ASSUME DrawerInv, (\E b \in Bookings : OpenDrawer(b)) \/ CloseDrawer \/ LeavePage
    PROVE  DrawerInv'
<1>1. ASSUME NEW b \in Bookings, OpenDrawer(b) PROVE DrawerInv'
  <2>1. /\ drawerOpen' = TRUE /\ selected' = b
        /\ \/ fetching[b] = "idle" /\ fetching' = [fetching EXCEPT ![b] = "sent"]
           \/ fetching' = fetching
        /\ parted' = IF selected \notin {"none", b} /\ fetching[selected] # "idle"
                     THEN parted \cup {selected} ELSE parted
        /\ UNCHANGED <<realStatus, detail, relabels, relabelled, foreign, blind>>
    BY <1>1 DEF OpenDrawer, Parted, relabelling
  <2>2. /\ fetching' \in [Bookings -> Status \cup {"idle", "sent"}]
        /\ \A x \in Bookings \ {b} : fetching'[x] = fetching[x]
        /\ fetching'[b] = fetching[b] \/ fetching'[b] = "sent"
    BY <2>1 DEF DrawerInv, DrawerIsTyped
  <2>3. DrawerIsTyped'
    BY <2>1, <2>2, DrawerAssumption DEF DrawerInv, DrawerIsTyped
  <2>4. FetchedIsSelected'
    BY <2>1, <2>2, DrawerAssumption DEF DrawerInv, DrawerIsTyped, FetchedIsSelected
  <2>5. ~blind' => \A x \in Bookings \ (foreign' \cup parted') : ChangeOnItsWay(x)'
    BY <2>1, <2>2 DEF DrawerInv, ChangeOnItsWay
  <2> QED  BY <2>3, <2>4, <2>5 DEF DrawerInv
<1>2. CASE CloseDrawer
  BY <1>2 DEF CloseDrawer, relabelling, past,
              DrawerInv, DrawerIsTyped, FetchedIsSelected, ChangeOnItsWay
<1>3. CASE LeavePage
  <2>1. /\ ~drawerOpen /\ selected' = "none"
        /\ parted' = IF selected \notin {"none"} /\ fetching[selected] # "idle"
                     THEN parted \cup {selected} ELSE parted
        /\ UNCHANGED <<realStatus, detail, fetching, drawerOpen, relabels, relabelled, foreign,
                       blind>>
    BY <1>3 DEF LeavePage, Parted, relabelling
  <2>2. DrawerIsTyped' /\ FetchedIsSelected'
    BY <2>1, DrawerAssumption DEF DrawerInv, DrawerIsTyped, FetchedIsSelected
  <2>3. ~blind' => \A x \in Bookings \ (foreign' \cup parted') : ChangeOnItsWay(x)'
    BY <2>1 DEF DrawerInv, ChangeOnItsWay
  <2> QED  BY <2>2, <2>3 DEF DrawerInv
<1> QED  BY <1>1, <1>2, <1>3

(* The detail query, and the others.                                       *)
LEMMA DetailStep ==
    ASSUME DrawerInv, NEW b \in Bookings,
           ReadDetail(b) \/ DetailArrives(b) \/ DetailFails(b) \/ OthersRelabel(b)
    PROVE  DrawerInv'
<1> USE StatusIsNoMark DEF looking, relabelling, past
<1>1. CASE ReadDetail(b)
  BY <1>1 DEF ReadDetail, DrawerInv, DrawerIsTyped, FetchedIsSelected, ChangeOnItsWay
<1>2. CASE DetailArrives(b)
  BY <1>2 DEF DetailArrives, DrawerInv, DrawerIsTyped, FetchedIsSelected, ChangeOnItsWay
<1>3. CASE DetailFails(b)
  BY <1>3 DEF DetailFails, DrawerInv, DrawerIsTyped, FetchedIsSelected
<1>4. CASE OthersRelabel(b)
  <2>1. PICK s \in Status : realStatus' = [realStatus EXCEPT ![b] = s]
    BY <1>4 DEF OthersRelabel
  <2> QED  BY <1>4, <2>1 DEF OthersRelabel, DrawerInv, DrawerIsTyped, FetchedIsSelected,
                             ChangeOnItsWay
<1> QED  BY <1>1, <1>2, <1>3, <1>4

LEMMA ClickStatusStep == ASSUME DrawerInv, ClickStatus PROVE DrawerInv'
<1>1. PICK s \in Status :
          relabels' = relabels \cup
              {[id |-> relabelled + 1, of |-> selected, to |-> s, at |-> "sent"]}
  BY DEF ClickStatus, Offered, Status
<1> DEFINE c == [id |-> relabelled + 1, of |-> selected, to |-> s, at |-> "sent"]
<1>2. /\ relabelled + 1 \in 1 .. MaxRelabels /\ relabelled + 1 \in 0 .. MaxRelabels
      /\ selected \in Bookings
  BY DrawerAssumption DEF ClickStatus, DrawerInv, DrawerIsTyped
<1>3. c \in [id : 1 .. MaxRelabels, of : Bookings, to : Status, at : {"sent", "saved", "refused"}]
  BY <1>2
<1>4. /\ relabels' = relabels \cup {c} /\ relabelled' = relabelled + 1
      /\ UNCHANGED <<realStatus, detail, fetching, selected, drawerOpen, foreign, parted, blind>>
  BY <1>1 DEF ClickStatus, looking, past
<1> HIDE DEF c
<1> QED  BY <1>2, <1>3, <1>4 DEF DrawerInv, DrawerIsTyped, FetchedIsSelected, ChangeOnItsWay

(* A change and its answer.                                                *)
LEMMA RelabelStep ==
    ASSUME DrawerInv, NEW c \in relabels,
           HandleRelabel(c) \/ RelabelAnswered(c) \/ RelabelLost(c)
    PROVE  DrawerInv'
<1>0. /\ c.of \in Bookings /\ c.to \in Status /\ c.at \in {"sent", "saved", "refused"}
      /\ \A at \in {"saved", "refused"} :
            /\ [c EXCEPT !.at = at] \in [id : 1 .. MaxRelabels, of : Bookings, to : Status,
                                         at : {"sent", "saved", "refused"}]
            /\ [c EXCEPT !.at = at].of = c.of /\ [c EXCEPT !.at = at].at = at
  BY DEF DrawerInv, DrawerIsTyped
<1>1. CASE HandleRelabel(c)
  <2>1. PICK at \in {"saved", "refused"} :
            /\ relabels' = (relabels \ {c}) \cup {[c EXCEPT !.at = at]} /\ c.at = "sent"
            /\ \/ at = "saved" /\ realStatus' = [realStatus EXCEPT ![c.of] = c.to]
               \/ realStatus' = realStatus
            /\ UNCHANGED <<detail, fetching, selected, drawerOpen, relabelled, foreign, parted,
                           blind>>
    BY <1>1 DEF HandleRelabel, Decided, looking, past
  <2> DEFINE d == [c EXCEPT !.at = at]
  <2>2. /\ d \in [id : 1 .. MaxRelabels, of : Bookings, to : Status,
                  at : {"sent", "saved", "refused"}]
        /\ d.of = c.of /\ d.at = at /\ relabels' = (relabels \ {c}) \cup {d}
    BY <1>0, <2>1
  <2> HIDE DEF d
  <2>3. DrawerIsTyped' /\ FetchedIsSelected'
    BY <1>0, <2>1, <2>2 DEF DrawerInv, DrawerIsTyped, FetchedIsSelected
  <2>4. ASSUME ~blind, NEW b \in Bookings \ (foreign \cup parted) PROVE ChangeOnItsWay(b)'
    <3>1. ChangeOnItsWay(b)
      BY <2>4 DEF DrawerInv
    <3>2. CASE b = c.of /\ at = "saved"
      BY <2>2, <3>2 DEF ChangeOnItsWay
    <3>3. CASE ~(b = c.of /\ at = "saved")
      <4>1. realStatus'[b] = realStatus[b]
        BY <1>0, <2>1, <3>3 DEF DrawerInv, DrawerIsTyped
      <4>2. \A x \in relabels : x.at = "saved" => x \in relabels'
        BY <2>1, <2>2
      <4> QED  BY <2>1, <3>1, <4>1, <4>2 DEF ChangeOnItsWay
    <3> QED  BY <3>2, <3>3
  <2> QED  BY <2>1, <2>3, <2>4 DEF DrawerInv
<1>2. CASE RelabelAnswered(c)
  <2>1. /\ c.at # "sent" /\ relabels' = relabels \ {c}
        /\ UNCHANGED <<realStatus, selected, drawerOpen, relabelled, foreign, parted, blind>>
    BY <1>2 DEF RelabelAnswered, looking, past
  <2>2. CASE c.at # "saved"
    <3>1. UNCHANGED <<fetching, detail>>
      BY <1>2, <2>2 DEF RelabelAnswered
    <3> QED  BY <2>1, <2>2, <3>1 DEF DrawerInv, DrawerIsTyped, FetchedIsSelected, ChangeOnItsWay
  <2>3. CASE c.at = "saved" /\ selected = c.of
    <3>1. fetching' = [fetching EXCEPT ![c.of] = "sent"] /\ UNCHANGED detail
      BY <1>2, <2>3 DEF RelabelAnswered, Invalidate
    <3> QED  BY <1>0, <2>1, <2>3, <3>1
             DEF DrawerInv, DrawerIsTyped, FetchedIsSelected, ChangeOnItsWay
  <2>4. CASE c.at = "saved" /\ selected # c.of
    <3>1. detail' = [detail EXCEPT ![c.of] = "none"] /\ UNCHANGED fetching
      BY <1>2, <2>4 DEF RelabelAnswered, Invalidate
    <3> QED  BY <1>0, <2>1, <2>4, <3>1
             DEF DrawerInv, DrawerIsTyped, FetchedIsSelected, ChangeOnItsWay
  <2> QED  BY <2>2, <2>3, <2>4
<1>3. CASE RelabelLost(c)
  BY <1>3 DEF RelabelLost, looking, DrawerInv, DrawerIsTyped, FetchedIsSelected
<1> QED  BY <1>1, <1>2, <1>3

LEMMA DrawerStep == DrawerInv /\ [DrawerNext]_drawerVars => DrawerInv'
<1> SUFFICES ASSUME DrawerInv, [DrawerNext]_drawerVars PROVE DrawerInv'
  OBVIOUS
<1>1. CASE UNCHANGED drawerVars
  BY <1>1 DEF drawerVars, looking, relabelling, past,
              DrawerInv, DrawerIsTyped, FetchedIsSelected, ChangeOnItsWay
<1> QED  BY <1>1, TurnStep, DetailStep, ClickStatusStep, RelabelStep DEF DrawerNext

(* The inductive invariant of the drawer.                                  *)
THEOREM DrawerInvariant == DrawerSpec => []DrawerInv
BY DrawerInitInv, DrawerStep, PTL DEF DrawerSpec

(* The drawer is type correct for any reservations and changes.            *)
THEOREM DrawerTypeCorrect == DrawerSpec => []DrawerTypeOK
<1>1. DrawerInv => DrawerTypeOK
  BY DEF DrawerInv, DrawerIsTyped, DrawerTypeOK
<1> QED  BY <1>1, DrawerInvariant, PTL

(* What the page has changed it shows as changed, for any reservations and *)
(* any number of changes, but for lost answers, others' changes and        *)
(* reservations left in the middle of a fetch.                             *)
THEOREM DrawerShowsChanges == DrawerSpec => []OwnChangesAreShown
<1>1. DrawerInv => OwnChangesAreShown
  BY StatusIsNoMark DEF DrawerInv, DrawerIsTyped, ChangeOnItsWay, OwnChangesAreShown
<1> QED  BY <1>1, DrawerInvariant, PTL

-----------------------------------------------------------------------------
Fields == {"priority", "conditions", "action"}
Builder == [open : BOOLEAN, editing : RuleIds \cup {NoId}, step : 1 .. 4,
            touched : SUBSET Fields, stale : BOOLEAN, form : RuleForm]
Saving == [rule : RuleIds \cup {NoId}, body : RuleForm, at : {"sent", "saved"},
           touched : SUBSET Fields, stale : BOOLEAN]

BuilderIsTyped ==
    /\ storedRules \in [RuleIds -> StoredRule \cup {NoRule}]
    /\ rulesShown \in [RuleIds -> RuleForm \cup {NoRule}]
    /\ rulesFetch \in [at : {"idle", "sent"}]
                     \cup [at : {"read"}, rows : [RuleIds -> RuleForm \cup {NoRule}]]
    /\ builder \in Builder /\ saving \in Saving \cup {NotSaving}
    /\ saves \in 0 .. MaxSaves

(* Of these three types, whose actions are read back, no rule is stored    *)
(* with an action that they would not send again.                          *)
FitsType(x) ==
    /\ x.type = "EarlyBooking" => x.action.kind = "Discount" /\ x.action.text # "none"
    /\ x.type = "PeakHour" =>
          /\ x.action.kind \in {"Block", "Warn"} /\ x.action.figure = "none"
          /\ x.action.text # "none"
    /\ x.type = "GroupComposition" =>
          /\ x.action.kind \in {"Block", "Warn", "none"} /\ x.action.figure = "none"
          /\ x.action.text \notin {"none", "empty"}

ActionsFit ==
    /\ \A r \in RuleIds : FitsType(storedRules[r])
    /\ saving # NotSaving => FitsType(saving.body)

Resembles(row, r) == storedRules[r] # NoRule /\ row.type = storedRules[r].type

(* The dialog, the request and the list are about rules that are there, of *)
(* the type they have; ...                                                 *)
RuleIsThere ==
    /\ \A r \in RuleIds : /\ rulesShown[r] # NoRule => Resembles(rulesShown[r], r)
                          /\ rulesFetch.at = "read" /\ rulesFetch.rows[r] # NoRule =>
                                Resembles(rulesFetch.rows[r], r)
    /\ builder.editing # NoId => storedRules[builder.editing] # NoRule
    /\ saving.rule # NoId => storedRules[saving.rule] # NoRule

(* ... unless the dialog is stale, what was not touched is as stored, in   *)
(* the form ...                                                            *)
FormIsStored ==
    builder.editing # NoId =>
        LET old == storedRules[builder.editing] IN
        /\ builder.form.type = old.type
        /\ ~builder.stale /\ "action" \notin builder.touched =>
              builder.form.action = FormOfRule(old).action

(* ... and in the request; ...                                             *)
BodyIsStored ==
    saving.rule # NoId =>
        LET old == storedRules[saving.rule] IN
        /\ saving.body.type = old.type
        /\ ~saving.stale /\ saving.at = "sent" /\ "action" \notin saving.touched =>
              saving.body.action = PutBack(old)

(* ... and a request for the rule in the dialog is that dialog's own.      *)
RequestIsItsOwn ==
    InFlight /\ saving.rule # NoId /\ saving.rule = builder.editing /\ ~builder.stale =>
        ~saving.stale /\ saving.touched \subseteq builder.touched

BuilderInv ==
    /\ BuilderIsTyped /\ ActionsFit /\ RuleIsThere
    /\ FormIsStored /\ BodyIsStored /\ RequestIsItsOwn /\ kept = TRUE
-----------------------------------------------------------------------------
Figures == {"none", "default", "template", "own"}
Texts == {"none", "empty", "default", "template", "own", "invalid"}

LEMMA ActionTypes ==
    /\ \A k \in ActionType \cup {"none"}, x \in Figures, y \in Texts : Act(k, x, y) \in Action
    /\ \A k \in ActionType : NewAction(k) \in Action /\ ActionFrom(k, "own") \in Action
                            /\ ActionFrom(k, "template") \in Action
    /\ NoAction \in Action /\ DefaultJson \in Action
    /\ \A x \in Action :
          /\ x.kind \in ActionType \cup {"none"} /\ x.figure \in Figures /\ x.text \in Texts
          /\ [x EXCEPT !.figure = "own"] \in Action
          /\ \A y \in Texts : [x EXCEPT !.text = y] \in Action
<1>1. \A k \in ActionType \cup {"none"}, x \in Figures, y \in Texts : Act(k, x, y) \in Action
  BY DEF Action, Act, Figures, Texts
<1>2. /\ {"none", "default", "own", "template"} \subseteq Figures
      /\ {"none", "default", "own", "template", "empty"} \subseteq Texts
      /\ "Warn" \in ActionType
  BY DEF Figures, Texts, ActionType
<1>3. \A k \in ActionType : NewAction(k) \in Action /\ ActionFrom(k, "own") \in Action
                          /\ ActionFrom(k, "template") \in Action
  BY <1>1, <1>2 DEF NewAction, ActionFrom
<1>4. NoAction \in Action /\ DefaultJson \in Action
  BY <1>1, <1>2 DEF NoAction, DefaultJson
<1>5. \A x \in Action :
          /\ x.kind \in ActionType \cup {"none"} /\ x.figure \in Figures /\ x.text \in Texts
          /\ [x EXCEPT !.figure = "own"] \in Action
          /\ \A y \in Texts : [x EXCEPT !.text = y] \in Action
  BY DEF Action, Figures, Texts
<1> QED  BY <1>1, <1>3, <1>4, <1>5

LEMMA TemplateTypes == \A x \in RuleTemplates : x[2] \in RuleType /\ x[3] \in ActionType
BY DEF RuleTemplates, TypedTemplates, OtherTemplates, RuleType, ActionType

LEMMA RuleTypesAre ==
    RuleType = {"EarlyBooking", "VipPriority", "LargeGroup", "DepositRequired", "PeakHour",
                "TableCooldown", "GroupComposition", "CustomCondition"}
<1>1. ASSUME NEW x \in RuleTemplates
      PROVE  x[2] \in {"EarlyBooking", "VipPriority", "LargeGroup", "DepositRequired",
                       "PeakHour", "TableCooldown", "GroupComposition", "CustomCondition"}
  BY DEF RuleTemplates, TypedTemplates, OtherTemplates
<1>2. /\ <<"early-booking", "EarlyBooking", "Discount">>[2] \in RuleType
      /\ <<"vip-priority", "VipPriority", "Suggest">>[2] \in RuleType
      /\ <<"large-group", "LargeGroup", "Warn">>[2] \in RuleType
      /\ <<"deposit", "DepositRequired", "Deposit">>[2] \in RuleType
  BY DEF RuleType, RuleTemplates, TypedTemplates
<1>3. /\ <<"peak-hour", "PeakHour", "Warn">>[2] \in RuleType
      /\ <<"table-cooldown", "TableCooldown", "Block">>[2] \in RuleType
      /\ <<"group-composition", "GroupComposition", "Block">>[2] \in RuleType
      /\ <<"blacklist", "CustomCondition", "Block">>[2] \in RuleType
  BY DEF RuleType, RuleTemplates, TypedTemplates, OtherTemplates
<1> QED  BY <1>1, <1>2, <1>3 DEF RuleType

LEMMA RuleFormTypes ==
    ASSUME NEW f \in RuleForm
    PROVE  /\ f.type \in RuleType /\ f.conditions \in Content /\ f.action \in Action
           /\ f.priority \in {"slider", "dragged"}
           /\ Payload(f) \in RuleForm /\ FormOfRule(f) \in RuleForm
<1>1. /\ f.type \in RuleType /\ f.conditions \in Content /\ f.action \in Action
      /\ f.priority \in {"slider", "dragged"}
  BY DEF RuleForm
<1>2. SentConditions(f) \in Content
  BY <1>1 DEF SentConditions, Content
<1>3. /\ MessageOf(f.action) \in Texts /\ FigureIf(f.action, "Discount") \in Figures
      /\ FigureIf(f.action, "Deposit") \in Figures /\ {"default", "none"} \subseteq Texts
      /\ \A kinds : MessageIf(f.action, kinds) \in Texts
  <2>1. f.action.figure \in Figures /\ f.action.text \in Texts
    BY <1>1, ActionTypes
  <2> QED  BY <2>1 DEF MessageOf, MessageIf, FigureIf, Figures, Texts
<1>4. SentAction(f) \in Action
  <2>1. /\ {"Block", "Warn", "Suggest", "Discount", "Deposit"} \subseteq ActionType
        /\ "none" \in Figures /\ BlockOrWarn(f.action) \in ActionType
    BY DEF ActionType, Figures, BlockOrWarn
  <2>2. (IF f.action.text = "empty" THEN "default" ELSE MessageOf(f.action)) \in Texts
    BY <1>3
  <2>3. (IF f.action.kind \in {"Block", "Warn", "Suggest"} THEN BlockOrWarn(f.action) ELSE "none")
            \in ActionType \cup {"none"}
    BY <2>1
  <2> QED  BY <1>1, <1>3, <2>1, <2>2, <2>3, ActionTypes, RuleTypesAre DEF SentAction
<1>5. Payload(f) \in RuleForm
  BY <1>1, <1>2, <1>4 DEF Payload, RuleForm
<1>6. FormOfRule(f) \in RuleForm
  <2>1. "none" \in Texts /\ "none" \in Content
    BY DEF Texts, Content
  <2>2. ReadAction(f) \in Action
    BY <1>1, <2>1, ActionTypes DEF ReadAction
  <2> QED  BY <1>1, <2>1, <2>2 DEF FormOfRule, RuleForm
<1> QED  BY <1>1, <1>5, <1>6

(* What is sent fits its type, ...                                         *)
LEMMA PayloadFits == ASSUME NEW f \in RuleForm PROVE FitsType(Payload(f))
<1>1. Payload(f).type = f.type /\ Payload(f).action = SentAction(f)
  BY DEF Payload
<1>2. MessageOf(f.action) # "none" /\ BlockOrWarn(f.action) \in {"Block", "Warn"}
  BY DEF MessageOf, BlockOrWarn
<1>3. CASE f.type = "EarlyBooking"
  BY <1>1, <1>2, <1>3 DEF SentAction, Act, FitsType
<1>4. CASE f.type = "PeakHour"
  BY <1>1, <1>2, <1>4 DEF SentAction, Act, FitsType
<1>5. CASE f.type = "GroupComposition"
  <2>1. (IF f.action.text = "empty" THEN "default" ELSE MessageOf(f.action))
           \notin {"none", "empty"}
    BY DEF MessageOf
  <2> QED  BY <1>1, <1>2, <1>5, <2>1 DEF SentAction, Act, FitsType
<1> QED  BY <1>1, <1>3, <1>4, <1>5 DEF FitsType

(* ... and what fits is sent as it was read, if it could be read, but for  *)
(* the label.                                                              *)
LEMMA RoundTrip ==
    ASSUME NEW f \in RuleForm, NEW old \in RuleForm, FitsType(old),
           f.type = old.type, f.action = FormOfRule(old).action,
           f.type = "CustomCondition" \/ f.action # NoAction
    PROVE  Payload(f).action = PutBack(old)
<1>1. Payload(f).action = SentAction(f)
  BY DEF Payload
<1>2. old.action \in Action /\ old.type \in RuleType
  BY DEF RuleForm
<1>3. old.action = Act(old.action.kind, old.action.figure, old.action.text)
  BY <1>2 DEF Action, Act
<1>4. CASE f.type = "CustomCondition"
  BY <1>1, <1>4 DEF SentAction, FormOfRule, PutBack
<1>5. CASE f.type = "EarlyBooking"
  <2>1. f.action = [old.action EXCEPT !.text = "none"] /\ old.action.kind = "Discount"
    BY <1>5 DEF FormOfRule, ReadAction, FitsType
  <2>2. /\ f.action.kind = "Discount" /\ f.action.figure = old.action.figure
        /\ f.action.text = "none"
    BY <1>2, <2>1 DEF Action
  <2>3. SentAction(f) = Act("Discount", old.action.figure, "default")
    BY <1>5, <2>2 DEF SentAction, FigureIf, MessageOf
  <2>4. [old.action EXCEPT !.text = "default"] = Act("Discount", old.action.figure, "default")
    BY <1>2, <2>1 DEF Action, Act
  <2> QED  BY <1>1, <1>5, <2>3, <2>4 DEF PutBack
<1>6. CASE f.type \notin {"CustomCondition", "EarlyBooking"}
  <2>1. /\ f.type \in {"PeakHour", "GroupComposition"}
        /\ f.action = old.action /\ old.action.kind # "none"
    BY <1>6 DEF FormOfRule, ReadAction
  <2>2. /\ old.action.kind \in {"Block", "Warn"} /\ old.action.figure = "none"
        /\ MessageOf(old.action) = old.action.text
    BY <2>1 DEF FitsType, MessageOf
  <2>3. BlockOrWarn(old.action) = old.action.kind
    BY <2>2 DEF BlockOrWarn
  <2>4. CASE f.type = "PeakHour"
    BY <1>1, <1>3, <2>1, <2>2, <2>3, <2>4 DEF SentAction, PutBack
  <2>5. CASE f.type = "GroupComposition"
    <3>1. old.action.text # "empty"
      BY <2>1, <2>5 DEF FitsType
    <3> QED  BY <1>1, <1>3, <2>1, <2>2, <2>3, <2>5, <3>1 DEF SentAction, PutBack
  <2> QED  BY <2>1, <2>4, <2>5
<1> QED  BY <1>4, <1>5, <1>6

LEMMA TemplateForms == \A x \in RuleTemplates : FormOfTemplate(x) \in RuleForm
<1> TAKE x \in RuleTemplates
<1>1. x[2] \in RuleType /\ x[3] \in ActionType
  BY TemplateTypes
<1>2. /\ (IF x[2] = "CustomCondition" THEN DefaultJson ELSE ActionFrom(x[3], "template"))
             \in Action
      /\ (IF x[2] \in {"GroupComposition", "CustomCondition"} THEN "default" ELSE "template")
             \in Content
  BY <1>1, ActionTypes DEF Content
<1> QED  BY <1>1, <1>2 DEF FormOfTemplate, RuleForm

LEMMA ClosedTypes == Closed \in Builder /\ Closed.form \in RuleForm /\ Closed.editing = NoId
<1>1. "CustomCondition" \in RuleType
  BY RuleTypesAre
<1>2. Closed.form \in RuleForm
  BY <1>1, ActionTypes DEF Closed, RuleForm, Content
<1> QED  BY <1>2 DEF Closed, Builder

(* The list shows the rules there are, under their types.                  *)
LEMMA ListedTypes ==
    ASSUME storedRules \in [RuleIds -> StoredRule \cup {NoRule}]
    PROVE  /\ Listed(storedRules) \in [RuleIds -> RuleForm \cup {NoRule}]
           /\ \A r \in RuleIds : Listed(storedRules)[r] # NoRule =>
                  Resembles(Listed(storedRules)[r], r)
<1>1. ASSUME NEW r \in RuleIds, storedRules[r] # NoRule
      PROVE  FormOfRule(storedRules[r]) \in RuleForm
             /\ FormOfRule(storedRules[r]).type = storedRules[r].type
  <2>1. storedRules[r] \in RuleForm
    BY <1>1 DEF StoredRule
  <2> QED  BY <2>1, RuleFormTypes DEF FormOfRule
<1> QED  BY <1>1 DEF Listed, Resembles

LEMMA BuilderInitInv == BuilderInit => BuilderInv
<1> SUFFICES ASSUME BuilderInit PROVE BuilderInv
  OBVIOUS
<1>1. \A x \in Gallery : Payload(FormOfTemplate(x)) \in RuleForm
                       /\ FitsType(Payload(FormOfTemplate(x)))
  BY BuilderAssumption, TemplateForms, RuleFormTypes, PayloadFits
<1>2. storedRules \in [RuleIds -> StoredRule \cup {NoRule}]
  BY <1>1 DEF BuilderInit, StoredRule
<1>3. \A r \in RuleIds : FitsType(storedRules[r])
  BY <1>1 DEF BuilderInit, FitsType, NoRule
<1>4. 0 \in 0 .. MaxSaves
  BY BuilderAssumption
<1>5. /\ rulesShown \in [RuleIds -> RuleForm \cup {NoRule}] /\ rulesFetch = [at |-> "idle"]
      /\ \A r \in RuleIds : rulesShown[r] # NoRule => Resembles(rulesShown[r], r)
  BY <1>2, ListedTypes DEF BuilderInit
<1>6. BuilderIsTyped /\ ActionsFit
  BY <1>2, <1>3, <1>4, <1>5, ClosedTypes DEF BuilderInit, BuilderIsTyped, ActionsFit
<1>7. RuleIsThere
  BY <1>5, ClosedTypes DEF BuilderInit, RuleIsThere, NotSaving
<1> QED  BY <1>6, <1>7, ClosedTypes
         DEF BuilderInit, BuilderInv, FormIsStored, BodyIsStored, RequestIsItsOwn, NotSaving

(* The dialog is opened on what is stored, or is stale.                    *)
LEMMA OpenRuleStep ==
    ASSUME BuilderInv, NEW e \in RuleIds \cup {NoId}, NEW f \in RuleForm,
           NEW stale \in BOOLEAN, Open(e, f, stale),
           e # NoId => /\ storedRules[e] # NoRule /\ f.type = storedRules[e].type
                       /\ ~stale => /\ f.action = FormOfRule(storedRules[e]).action
                                    /\ ~(InFlight /\ saving.rule = e)
    PROVE  BuilderInv'
<1> DEFINE b == [open |-> TRUE, editing |-> e, step |-> 1, touched |-> {}, stale |-> stale,
                 form |-> f]
<1>1. builder' = b /\ UNCHANGED <<storedRules, rulesShown, rulesFetch, saving, saves, kept>>
  BY DEF Open, listVarsOfBuilder
<1>2. b \in Builder
  BY DEF Builder
<1>3. b.editing = e /\ b.form = f /\ b.touched = {} /\ b.stale = stale
  OBVIOUS
<1> HIDE DEF b
<1>4. BuilderIsTyped' /\ ActionsFit' /\ BodyIsStored' /\ kept' = TRUE
  BY <1>1, <1>2 DEF BuilderInv, BuilderIsTyped, ActionsFit, BodyIsStored
<1>5. RuleIsThere' /\ RequestIsItsOwn'
  BY <1>1, <1>3 DEF BuilderInv, RuleIsThere, Resembles, RequestIsItsOwn, InFlight
<1>6. FormIsStored'
  BY <1>1, <1>3 DEF FormIsStored
<1> QED  BY <1>4, <1>5, <1>6 DEF BuilderInv

(* The owner goes through the steps and changes fields.                    *)
LEMMA ChangesStep ==
    ASSUME BuilderInv, builder' \in Builder,
           UNCHANGED <<storedRules, listVarsOfBuilder, saving, saves, kept>>,
           builder'.editing = builder.editing, builder'.stale = builder.stale,
           builder'.form.type = builder.form.type, builder.touched \subseteq builder'.touched,
           "action" \in builder'.touched \/ builder'.form.action = builder.form.action
    PROVE  BuilderInv'
<1>1. BuilderIsTyped' /\ ActionsFit' /\ BodyIsStored' /\ kept' = TRUE
  BY DEF BuilderInv, BuilderIsTyped, listVarsOfBuilder, ActionsFit, BodyIsStored
<1>2. RuleIsThere' /\ RequestIsItsOwn'
  BY DEF BuilderInv, RuleIsThere, Resembles, listVarsOfBuilder, RequestIsItsOwn, InFlight
<1>3. FormIsStored'
  BY DEF BuilderInv, FormIsStored
<1> QED  BY <1>1, <1>2, <1>3 DEF BuilderInv

LEMMA FieldsStep ==
    ASSUME BuilderInv,
           \/ \E c \in Content : ChangeField("conditions", c)
           \/ \E x \in Action : ChangeField("action", x)
           \/ ChangeField("priority", "slider")
           \/ LoadExample \/ NextStep \/ BackStep
    PROVE  BuilderInv'
<1> DEFINE Good(b) == /\ b \in Builder /\ b.editing = builder.editing /\ b.stale = builder.stale
                      /\ b.form.type = builder.form.type /\ builder.touched \subseteq b.touched
                      /\ "action" \in b.touched \/ b.form.action = builder.form.action
<1>0. builder \in Builder
  BY DEF BuilderInv, BuilderIsTyped
<1>1. UNCHANGED <<storedRules, listVarsOfBuilder, saving, saves, kept>>
  BY Zenon DEF ChangeField, LoadExample, NextStep, BackStep, GoTo
<1>2. ASSUME NEW c \in Content, ChangeField("conditions", c) PROVE Good(builder')
  <2>1. builder' = [builder EXCEPT !.form["conditions"] = c, !.touched = @ \cup {"conditions"}]
    BY <1>2, Zenon DEF ChangeField
  <2> QED  BY <1>0, <2>1 DEF Builder, RuleForm, Fields
<1>3. ASSUME NEW x \in Action, ChangeField("action", x) PROVE Good(builder')
  <2>1. builder' = [builder EXCEPT !.form["action"] = x, !.touched = @ \cup {"action"}]
    BY <1>3, Zenon DEF ChangeField
  <2> QED  BY <1>0, <2>1 DEF Builder, RuleForm, Fields
<1>4. ASSUME ChangeField("priority", "slider") PROVE Good(builder')
  <2>1. builder' = [builder EXCEPT !.form["priority"] = "slider", !.touched = @ \cup {"priority"}]
    BY <1>4, Zenon DEF ChangeField
  <2> QED  BY <1>0, <2>1 DEF Builder, RuleForm, Fields
<1>5. ASSUME LoadExample PROVE Good(builder')
  <2>1. builder' = [builder EXCEPT !.form.conditions = "own",
                                   !.form.action = Act("Block", "none", "own"),
                                   !.touched = @ \cup {"conditions", "action"}]
    BY <1>5 DEF LoadExample
  <2>2. Act("Block", "none", "own") \in Action /\ "own" \in Content
    BY ActionTypes DEF ActionType, Figures, Texts, Content
  <2> QED  BY <1>0, <2>1, <2>2 DEF Builder, RuleForm, Fields
<1>6. ASSUME NextStep \/ BackStep PROVE Good(builder')
  <2>1. PICK n \in 1 .. 4 : builder' = [builder EXCEPT !.step = n]
    BY <1>0, <1>6 DEF NextStep, BackStep, GoTo, Builder
  <2> QED  BY <1>0, <2>1 DEF Builder
<1>7. Good(builder')
  BY <1>2, <1>3, <1>4, <1>5, <1>6
<1> QED  BY <1>1, <1>7, ChangesStep

LEMMA CloseBuilderStep ==
    ASSUME BuilderInv, builder' = Closed, UNCHANGED <<storedRules, rulesShown, saves, kept>>,
           \/ saving' = saving /\ UNCHANGED rulesFetch
           \/ saving' = NotSaving /\ rulesFetch' = [at |-> "sent"]
    PROVE  BuilderInv'
<1>1. BuilderIsTyped' /\ kept' = TRUE
  BY ClosedTypes DEF BuilderInv, BuilderIsTyped
<1>2. ActionsFit' /\ BodyIsStored'
  BY DEF BuilderInv, ActionsFit, BodyIsStored, NotSaving
<1>3. RuleIsThere'
  BY ClosedTypes DEF BuilderInv, RuleIsThere, Resembles, NotSaving
<1>4. FormIsStored' /\ RequestIsItsOwn'
  BY ClosedTypes DEF FormIsStored, RequestIsItsOwn
<1> QED  BY <1>1, <1>2, <1>3, <1>4 DEF BuilderInv

LEMMA LostSaveStep ==
    ASSUME BuilderInv, SaveFailed PROVE BuilderInv'
<1>1. saving' = NotSaving
      /\ UNCHANGED <<storedRules, rulesShown, rulesFetch, builder, saves, kept>>
  BY DEF SaveFailed, listVarsOfBuilder
<1>2. BuilderIsTyped' /\ kept' = TRUE /\ ActionsFit'
  BY <1>1 DEF BuilderInv, BuilderIsTyped, ActionsFit
<1>3. BodyIsStored' /\ RequestIsItsOwn' /\ FormIsStored'
  BY <1>1 DEF BuilderInv, BodyIsStored, NotSaving, RequestIsItsOwn, FormIsStored
<1>4. RuleIsThere'
  BY <1>1 DEF BuilderInv, RuleIsThere, Resembles, NotSaving
<1> QED  BY <1>2, <1>3, <1>4 DEF BuilderInv

(* What is sent has the stored action, if it was not touched.              *)
LEMMA SubmitRuleStep == ASSUME BuilderInv, Submit PROVE BuilderInv'
<1> DEFINE s == [rule |-> builder.editing, body |-> Payload(builder.form), at |-> "sent",
                 touched |-> builder.touched, stale |-> builder.stale]
<1>1. /\ saving' = s /\ CanSubmit
      /\ UNCHANGED <<storedRules, rulesShown, rulesFetch, builder, kept>>
      /\ saves < MaxSaves /\ saves' = saves + 1 /\ saving = NotSaving
  BY DEF Submit, CanSubmit, listVarsOfBuilder
<1>2. builder \in Builder /\ builder.form \in RuleForm
  BY DEF BuilderInv, BuilderIsTyped, Builder
<1>3. s \in Saving /\ FitsType(s.body)
  <2>1. Payload(builder.form) \in RuleForm
    BY <1>2, RuleFormTypes
  <2> QED  BY <1>2, <2>1, PayloadFits DEF Saving, Builder
<1>4. /\ s.rule = builder.editing /\ s.body = Payload(builder.form) /\ s.at = "sent"
      /\ s.touched = builder.touched /\ s.stale = builder.stale
  OBVIOUS
<1> HIDE DEF s
<1>5. BuilderIsTyped' /\ kept' = TRUE
  BY <1>1, <1>3, BuilderAssumption DEF BuilderInv, BuilderIsTyped
<1>6. ActionsFit'
  BY <1>1, <1>3 DEF BuilderInv, ActionsFit
<1>7. RuleIsThere' /\ RequestIsItsOwn' /\ FormIsStored'
  BY <1>1, <1>4 DEF BuilderInv, RuleIsThere, Resembles, RequestIsItsOwn, FormIsStored
<1>8. BodyIsStored'
  <2> SUFFICES ASSUME builder.editing # NoId
               PROVE  LET old == storedRules[builder.editing] IN
                      /\ s.body.type = old.type
                      /\ ~s.stale /\ "action" \notin s.touched => s.body.action = PutBack(old)
    BY <1>1, <1>4 DEF BodyIsStored
  <2> DEFINE old == storedRules[builder.editing]
  <2>1. old \in RuleForm /\ FitsType(old)
    BY <1>2 DEF BuilderInv, RuleIsThere, BuilderIsTyped, StoredRule, Builder, ActionsFit
  <2>2. /\ builder.form.type = old.type
        /\ ~builder.stale /\ "action" \notin builder.touched =>
              builder.form.action = FormOfRule(old).action
    BY DEF BuilderInv, FormIsStored
  <2>3. builder.form.type = "CustomCondition" \/ builder.form.action # NoAction
    BY <1>1 DEF CanSubmit, Custom
  <2>4. Payload(builder.form).type = builder.form.type
    BY DEF Payload
  <2> QED  BY <1>2, <1>4, <2>1, <2>2, <2>3, <2>4, RoundTrip
<1> QED  BY <1>5, <1>6, <1>7, <1>8 DEF BuilderInv

(* What was put back is read as before.                                    *)
LEMMA PutBackReads ==
    ASSUME NEW old \in RuleForm, NEW new \in RuleForm, new.type = old.type,
           new.action = PutBack(old)
    PROVE  FormOfRule(new).action = FormOfRule(old).action
<1>1. old.action \in Action
  BY DEF RuleForm
<1>2. CASE old.type = "EarlyBooking"
  <2>1. [[old.action EXCEPT !.text = "default"] EXCEPT !.text = "none"]
           = [old.action EXCEPT !.text = "none"]
    BY <1>1 DEF Action
  <2> QED  BY <1>2, <2>1 DEF FormOfRule, ReadAction, PutBack
<1>3. CASE old.type # "EarlyBooking"
  BY <1>3 DEF FormOfRule, ReadAction, PutBack
<1> QED  BY <1>2, <1>3

(* The server: a dialog that is open on the rule sent this itself.         *)
LEMMA SaveRuleStep == ASSUME BuilderInv, SaveRule PROVE BuilderInv'
<1>1. PICK r \in RuleIds :
          /\ IF saving.rule = NoId THEN storedRules[r] = NoRule ELSE r = saving.rule
          /\ storedRules' = [storedRules EXCEPT ![r] = saving.body]
          /\ kept' = IF saving.rule = NoId THEN kept
                     ELSE kept /\ KeepsUntouched(storedRules[r], saving.body)
  BY DEF SaveRule
<1> DEFINE s == [saving EXCEPT !.at = "saved"]
<1>2. /\ saving # NotSaving /\ saving.at = "sent" /\ saving \in Saving /\ saving' = s
      /\ UNCHANGED <<rulesShown, rulesFetch, builder, saves>>
  BY DEF SaveRule, InFlight, BuilderInv, BuilderIsTyped, listVarsOfBuilder
<1>3. /\ s \in Saving /\ s.rule = saving.rule /\ s.body = saving.body /\ s.at = "saved"
      /\ s.touched = saving.touched /\ s.stale = saving.stale /\ saving.body \in RuleForm
  BY <1>2 DEF Saving
<1> HIDE DEF s
<1>4. /\ storedRules' \in [RuleIds -> StoredRule \cup {NoRule}]
      /\ storedRules'[r] = saving.body /\ saving.body # NoRule
      /\ \A x \in RuleIds \ {r} : storedRules'[x] = storedRules[x]
  <2>1. NoRule \notin RuleForm
    BY RuleTypesAre DEF NoRule, RuleForm
  <2> QED  BY <1>1, <1>3, <2>1 DEF BuilderInv, BuilderIsTyped, StoredRule
<1>5. BuilderIsTyped'
  BY <1>2, <1>3, <1>4 DEF BuilderInv, BuilderIsTyped
<1>6. ActionsFit'
  BY <1>2, <1>3, <1>4 DEF BuilderInv, ActionsFit
<1>7. builder.editing \in RuleIds \cup {NoId} /\ saving.rule \in RuleIds \cup {NoId}
  BY <1>2 DEF BuilderInv, BuilderIsTyped, Builder, Saving
<1>8. RuleIsThere' /\ RequestIsItsOwn'
  <2>1. \A x \in RuleIds : storedRules[x] # NoRule =>
            storedRules'[x] # NoRule /\ storedRules'[x].type = storedRules[x].type
    BY <1>1, <1>4 DEF BuilderInv, BodyIsStored
  <2>2. RuleIsThere'
    BY <1>2, <1>3, <1>7, <2>1 DEF BuilderInv, RuleIsThere, Resembles
  <2> QED  BY <1>2, <1>3, <2>2 DEF RequestIsItsOwn, InFlight
<1>9. kept' = TRUE
  BY <1>1, <1>2 DEF KeepsUntouched, BuilderInv, BodyIsStored
<1>10. BodyIsStored'
  BY <1>1, <1>2, <1>3, <1>4 DEF BodyIsStored
<1>11. FormIsStored'
  <2> SUFFICES ASSUME builder.editing = r, saving.rule = r
               PROVE  /\ builder.form.type = saving.body.type
                      /\ ~builder.stale /\ "action" \notin builder.touched =>
                            builder.form.action = FormOfRule(saving.body).action
    <3>1. builder.editing # NoId /\ builder.editing # r =>
              storedRules'[builder.editing] = storedRules[builder.editing]
      BY <1>4, <1>7
    <3>2. builder.editing = r => storedRules[r] # NoRule
      BY BuilderAssumption DEF BuilderInv, RuleIsThere
    <3> QED  BY <1>1, <1>2, <1>4, <3>1, <3>2 DEF BuilderInv, FormIsStored
  <2>1. saving.rule # NoId
    BY BuilderAssumption
  <2>2. ~builder.stale => ~saving.stale /\ saving.touched \subseteq builder.touched
    BY <1>2, <2>1 DEF BuilderInv, RequestIsItsOwn, InFlight
  <2>3. /\ saving.body.type = storedRules[r].type
        /\ ~saving.stale /\ "action" \notin saving.touched =>
              saving.body.action = PutBack(storedRules[r])
    BY <1>2, <2>1 DEF BuilderInv, BodyIsStored
  <2>4. /\ builder.form.type = storedRules[r].type
        /\ ~builder.stale /\ "action" \notin builder.touched =>
              builder.form.action = FormOfRule(storedRules[r]).action
    BY <2>1 DEF BuilderInv, FormIsStored
  <2>5. storedRules[r] \in RuleForm
    BY <2>1 DEF BuilderInv, RuleIsThere, BuilderIsTyped, StoredRule
  <2>6. saving.body.type = storedRules[r].type /\ saving.body.action = PutBack(storedRules[r])
           => FormOfRule(saving.body).action = FormOfRule(storedRules[r]).action
    BY <1>3, <2>5, PutBackReads
  <2> QED  BY <2>2, <2>3, <2>4, <2>6
<1> QED  BY <1>5, <1>6, <1>8, <1>9, <1>10, <1>11 DEF BuilderInv

(* A row that is overwritten in another way is still of its type and fits  *)
(* it; if its action changes, the dialog and the request on it are stale.  *)
LEMMA OverwriteStep ==
    ASSUME BuilderInv, NEW r \in RuleIds, NEW x \in RuleForm, storedRules[r] # NoRule,
           storedRules' = [storedRules EXCEPT ![r] = x],
           x.type = storedRules[r].type, FitsType(x),
           UNCHANGED <<listVarsOfBuilder, kept>>, saves' \in 0 .. MaxSaves,
           builder' \in Builder, builder'.editing = builder.editing,
           builder'.form = builder.form, builder'.touched = builder.touched,
           ~builder'.stale => ~builder.stale
                              /\ (builder.editing = r => x.action = storedRules[r].action),
           saving' = NotSaving <=> saving = NotSaving,
           saving' # NotSaving =>
               /\ saving' \in Saving /\ saving'.rule = saving.rule /\ saving'.body = saving.body
               /\ saving'.at = saving.at /\ saving'.touched = saving.touched
               /\ ~saving'.stale => ~saving.stale
                                    /\ (saving.rule = r => x.action = storedRules[r].action)
               /\ saving.rule = builder.editing /\ ~builder'.stale =>
                     saving'.stale = saving.stale
    PROVE  BuilderInv'
<1>0. saving.rule \in RuleIds \cup {NoId} /\ builder.editing \in RuleIds \cup {NoId}
      /\ saving'.rule = saving.rule
  BY DEF BuilderInv, BuilderIsTyped, Builder, Saving, NotSaving
<1>1. x # NoRule /\ UNCHANGED <<rulesShown, rulesFetch>>
  BY RuleTypesAre DEF NoRule, RuleForm, listVarsOfBuilder
<1>2. /\ storedRules' \in [RuleIds -> StoredRule \cup {NoRule}] /\ storedRules'[r] = x
      /\ \A y \in RuleIds \ {r} : storedRules'[y] = storedRules[y]
      /\ \A y \in RuleIds : storedRules[y] # NoRule => storedRules'[y] # NoRule
      /\ \A y \in RuleIds : storedRules'[y].type = storedRules[y].type
  BY <1>1 DEF BuilderInv, BuilderIsTyped, StoredRule
<1>3. BuilderIsTyped' /\ kept' = TRUE
  BY <1>1, <1>2 DEF BuilderInv, BuilderIsTyped
<1>4. ActionsFit'
  BY <1>2 DEF BuilderInv, ActionsFit
<1>5. RuleIsThere'
  BY <1>0, <1>1, <1>2 DEF BuilderInv, RuleIsThere, Resembles
<1>6. \A y \in RuleIds : y # r \/ x.action = storedRules[r].action =>
          /\ FormOfRule(storedRules'[y]).action = FormOfRule(storedRules[y]).action
          /\ PutBack(storedRules'[y]) = PutBack(storedRules[y])
  BY <1>2 DEF FormOfRule, ReadAction, PutBack
<1>7. FormIsStored'
  BY <1>0, <1>2, <1>6 DEF BuilderInv, FormIsStored
<1>8. BodyIsStored'
  <2> SUFFICES ASSUME saving.rule # NoId
               PROVE  /\ saving'.body.type = storedRules'[saving.rule].type
                      /\ ~saving'.stale /\ saving'.at = "sent" /\ "action" \notin saving'.touched
                            => saving'.body.action = PutBack(storedRules'[saving.rule])
    BY <1>0 DEF BodyIsStored
  <2>1. saving # NotSaving
    BY DEF NotSaving
  <2>2. /\ saving.body.type = storedRules[saving.rule].type
        /\ ~saving.stale /\ saving.at = "sent" /\ "action" \notin saving.touched =>
              saving.body.action = PutBack(storedRules[saving.rule])
    BY DEF BuilderInv, BodyIsStored
  <2> QED  BY <1>0, <1>2, <1>6, <2>1, <2>2
<1>9. RequestIsItsOwn'
  BY <1>0 DEF BuilderInv, RequestIsItsOwn, InFlight
<1> QED  BY <1>3, <1>4, <1>5, <1>7, <1>8, <1>9 DEF BuilderInv

LEMMA DragStep == ASSUME BuilderInv, DragRules PROVE BuilderInv'
<1>1. PICK r \in RuleIds : /\ storedRules[r] # NoRule
                          /\ storedRules' = [storedRules EXCEPT ![r].priority = "dragged"]
  BY DEF DragRules
<1> DEFINE x == [storedRules[r] EXCEPT !.priority = "dragged"]
<1>2. /\ storedRules[r] \in RuleForm /\ x \in RuleForm /\ x.type = storedRules[r].type
      /\ x.action = storedRules[r].action
  BY <1>1 DEF BuilderInv, BuilderIsTyped, StoredRule, RuleForm
<1>3. storedRules' = [storedRules EXCEPT ![r] = x]
  BY <1>1
<1>4. FitsType(x)
  BY <1>2 DEF BuilderInv, ActionsFit, FitsType
<1> HIDE DEF x
<1>5. /\ UNCHANGED <<listVarsOfBuilder, builder, saving, kept>> /\ saving = NotSaving
      /\ saves' = saves + 1 /\ saves < MaxSaves /\ builder \in Builder
  BY DEF DragRules, BuilderInv, BuilderIsTyped
<1>6. saves' \in 0 .. MaxSaves
  BY <1>5, BuilderAssumption DEF BuilderInv, BuilderIsTyped
<1> QED  BY <1>1, <1>2, <1>3, <1>4, <1>5, <1>6, OverwriteStep

LEMMA ColleagueEditStep == ASSUME BuilderInv, ColleagueEdits PROVE BuilderInv'
<1>1. PICK r \in RuleIds, k \in ActionType :
          /\ storedRules[r] # NoRule /\ storedRules[r].type # "CustomCondition"
          /\ storedRules' = [storedRules EXCEPT ![r] =
                Payload(WithAction(FormOfRule(@), ActionFrom(k, "own")))]
          /\ builder' = Overtaken(builder, builder.editing, r)
          /\ saving' = IF saving = NotSaving THEN saving ELSE Overtaken(saving, saving.rule, r)
  BY DEF ColleagueEdits
<1> DEFINE f == WithAction(FormOfRule(storedRules[r]), ActionFrom(k, "own"))
           x == Payload(f)
<1>2. storedRules[r] \in RuleForm /\ FormOfRule(storedRules[r]) \in RuleForm
  BY <1>1, RuleFormTypes DEF BuilderInv, BuilderIsTyped, StoredRule
<1>3. f \in RuleForm /\ f.type = storedRules[r].type
  BY <1>2, ActionTypes DEF RuleForm, FormOfRule, WithAction
<1>4. storedRules' = [storedRules EXCEPT ![r] = x]
  BY <1>1
<1> HIDE DEF f
<1>5. x \in RuleForm /\ x.type = storedRules[r].type /\ FitsType(x)
  BY <1>3, RuleFormTypes, PayloadFits DEF Payload
<1> HIDE DEF x
<1>6. /\ UNCHANGED <<listVarsOfBuilder, kept>> /\ saves' = saves + 1 /\ saves < MaxSaves
      /\ builder \in Builder /\ saving \in Saving \cup {NotSaving}
  BY DEF ColleagueEdits, BuilderInv, BuilderIsTyped
<1>7. saves' \in 0 .. MaxSaves
  BY <1>6, BuilderAssumption DEF BuilderInv, BuilderIsTyped
<1>8. /\ builder' \in Builder /\ builder'.editing = builder.editing
      /\ builder'.form = builder.form /\ builder'.touched = builder.touched
      /\ builder'.stale = (builder.stale \/ builder.editing = r)
  BY <1>1, <1>6 DEF Overtaken, Builder
<1>9. ASSUME saving # NotSaving
      PROVE  /\ saving' \in Saving /\ saving'.rule = saving.rule /\ saving'.body = saving.body
             /\ saving'.at = saving.at /\ saving'.touched = saving.touched
             /\ saving'.stale = (saving.stale \/ saving.rule = r)
  BY <1>1, <1>6, <1>9 DEF Overtaken, Saving
<1>10. saving' = NotSaving <=> saving = NotSaving
  <2>1. NotSaving \notin Saving
    BY DEF NotSaving, Saving
  <2> QED  BY <1>1, <1>9, <2>1
<1>11. ~builder'.stale => ~builder.stale /\ builder.editing # r
  BY <1>8
<1>12. ASSUME saving' # NotSaving
       PROVE  /\ ~saving'.stale => ~saving.stale /\ saving.rule # r
              /\ saving.rule = builder.editing /\ ~builder'.stale => saving'.stale = saving.stale
  <2>1. saving.stale \in BOOLEAN
    BY <1>6, <1>10, <1>12 DEF Saving
  <2> QED  BY <1>9, <1>10, <1>11, <1>12, <2>1
<1> QED  BY <1>1, <1>4, <1>5, <1>6, <1>7, <1>8, <1>9, <1>10, <1>11, <1>12, OverwriteStep

(* Queries of the list change nothing but the list.                        *)
LEMMA RulesFetchStep ==
    ASSUME BuilderInv, AskForRules \/ AnswerWithRules \/ ShowRules \/ RulesUnanswered
    PROVE  BuilderInv'
<1>1. UNCHANGED <<storedRules, builder, saving, saves, kept>>
  BY DEF AskForRules, AnswerWithRules, ShowRules, RulesUnanswered
<1>2. ActionsFit' /\ FormIsStored' /\ BodyIsStored' /\ RequestIsItsOwn' /\ kept' = TRUE
  BY <1>1 DEF BuilderInv, ActionsFit, FormIsStored, BodyIsStored, RequestIsItsOwn, InFlight
<1>3. /\ rulesShown' \in [RuleIds -> RuleForm \cup {NoRule}]
      /\ rulesFetch' \in [at : {"idle", "sent"}]
                         \cup [at : {"read"}, rows : [RuleIds -> RuleForm \cup {NoRule}]]
      /\ \A r \in RuleIds :
            /\ rulesShown'[r] # NoRule => Resembles(rulesShown'[r], r)
            /\ rulesFetch'.at = "read" /\ rulesFetch'.rows[r] # NoRule =>
                  Resembles(rulesFetch'.rows[r], r)
  <2>1. CASE AskForRules \/ RulesUnanswered
    <3>1. rulesShown' = rulesShown /\ rulesFetch' \in [at : {"idle", "sent"}]
      BY <2>1 DEF AskForRules, RulesUnanswered
    <3>2. rulesFetch'.at # "read"
      BY <3>1
    <3> QED  BY <3>1, <3>2 DEF BuilderInv, BuilderIsTyped, RuleIsThere
  <2>2. CASE AnswerWithRules
    BY <2>2, ListedTypes DEF AnswerWithRules, BuilderInv, BuilderIsTyped, RuleIsThere
  <2>3. CASE ShowRules
    BY <2>3 DEF ShowRules, BuilderInv, BuilderIsTyped, RuleIsThere
  <2> QED  BY <2>1, <2>2, <2>3
<1>4. BuilderIsTyped'
  BY <1>1, <1>3 DEF BuilderInv, BuilderIsTyped
<1>5. RuleIsThere'
  BY <1>1, <1>3 DEF BuilderInv, RuleIsThere, Resembles
<1> QED  BY <1>2, <1>4, <1>5 DEF BuilderInv

LEMMA BuilderMoves == BuilderInv /\ [BuilderNext]_builderVars => BuilderInv'
<1> SUFFICES ASSUME BuilderInv, [BuilderNext]_builderVars PROVE BuilderInv'
  OBVIOUS
<1>0. builder \in Builder /\ builder.form \in RuleForm
  BY DEF BuilderInv, BuilderIsTyped, Builder
<1>1. CASE UNCHANGED builderVars
  <2>1. UNCHANGED <<storedRules, listVarsOfBuilder, builder, saving, saves, kept>>
    BY <1>1 DEF builderVars
  <2> QED  BY <1>0, <2>1, ChangesStep
<1>2. CASE OpenTemplate
  <2>1. PICK x \in Gallery : Open(NoId, FormOfTemplate(x), FALSE)
    BY <1>2 DEF OpenTemplate
  <2> QED  BY <2>1, OpenRuleStep, TemplateForms, BuilderAssumption
<1>3. CASE OpenBlank
  BY <1>3, OpenRuleStep, ClosedTypes DEF OpenBlank
<1>4. CASE OpenEdit
  <2>1. PICK r \in RuleIds :
            /\ rulesShown[r] # NoRule
            /\ Open(r, rulesShown[r],
                    \/ rulesShown[r].action # FormOfRule(storedRules[r]).action
                    \/ InFlight /\ saving.rule = r)
    BY <1>4 DEF OpenEdit
  <2>2. rulesShown[r] \in RuleForm /\ Resembles(rulesShown[r], r)
    BY <2>1 DEF BuilderInv, BuilderIsTyped, RuleIsThere
  <2> QED  BY <2>1, <2>2, OpenRuleStep DEF Resembles
<1>5. CASE \/ AddCondition \/ UpdateCondition \/ RemoveCondition \/ EditConditionList
           \/ EditComposition \/ EditCustomConditions
  <2>1. \E c \in Content : ChangeField("conditions", c)
    <3>1. /\ builder.form.conditions \in Content
          /\ {"own", "foreign", "none", "invalid"} \subseteq Content
      BY <1>0 DEF RuleForm, Content
    <3> QED  BY <1>5, <3>1
             DEF AddCondition, UpdateCondition, RemoveCondition, EditConditionList,
                 EditComposition, EditCustomConditions, SetConditions
  <2> QED  BY <2>1, FieldsStep
<1>6. CASE AddAction \/ UpdateAction \/ RemoveAction \/ EditCustomActions
  <2>1. \E x \in Action : ChangeField("action", x)
    <3>1. /\ builder.form.action \in Action /\ NoAction \in Action
          /\ \A k \in ActionType : NewAction(k) \in Action
          /\ [builder.form.action EXCEPT !.figure = "own"] \in Action
          /\ \A text \in {"own", "empty"} :
                [builder.form.action EXCEPT !.text = text] \in Action
      BY <1>0, ActionTypes DEF RuleForm, Texts
    <3>2. Act("Block", "none", "own") \in Action /\ Act("none", "none", "invalid") \in Action
      BY ActionTypes DEF ActionType, Figures, Texts
    <3> QED  BY <1>6, <3>1, <3>2 DEF AddAction, UpdateAction, RemoveAction, EditCustomActions
  <2> QED  BY <2>1, FieldsStep
<1>7. CASE SetPriority \/ LoadExample \/ NextStep \/ BackStep
  BY <1>7, FieldsStep DEF SetPriority
<1>8. CASE CloseBuilder \/ SaveSucceeded
  BY <1>8, CloseBuilderStep DEF CloseBuilder, SaveSucceeded, listVarsOfBuilder
<1>9. CASE Submit \/ SaveRule \/ SaveFailed \/ DragRules \/ ColleagueEdits
  BY <1>9, SubmitRuleStep, SaveRuleStep, LostSaveStep, DragStep, ColleagueEditStep
<1>10. CASE AskForRules \/ AnswerWithRules \/ ShowRules \/ RulesUnanswered
  BY <1>10, RulesFetchStep
<1> QED  BY <1>1, <1>2, <1>3, <1>4, <1>5, <1>6, <1>7, <1>8, <1>9, <1>10 DEF BuilderNext

(* The inductive invariant of the rule builder.                            *)
THEOREM BuilderInvariant == BuilderSpec => []BuilderInv
BY BuilderInitInv, BuilderMoves, PTL DEF BuilderSpec

(* The rule builder keeps its types, for any rules, templates and saves.   *)
THEOREM BuilderTypeCorrect == BuilderSpec => []BuilderTypeOK
<1>1. BuilderInv => BuilderTypeOK
  BY DEF BuilderInv, BuilderIsTyped, Builder, BuilderTypeOK
<1> QED  BY <1>1, BuilderInvariant, PTL

(* A saved rule whose action was left alone keeps it, but for the label of *)
(* an early-booking rule, for any rules, templates, lists and number of    *)
(* saves, lost answers included: the two mappings are inverse where an     *)
(* action can be read back, but for the label, and where it cannot the     *)
(* form is not submitted without another one.                              *)
THEOREM ActionsAreKept == BuilderSpec => []ActionsSurviveEdit
<1>1. BuilderInv => ActionsSurviveEdit
  BY DEF BuilderInv, ActionsSurviveEdit
<1> QED  BY <1>1, BuilderInvariant, PTL

-----------------------------------------------------------------------------
(* The parts of the panels together.  In every behaviour of the            *)
(* composition each part behaves as its own module says.                   *)
LEMMA PartsBegin ==
    Init => /\ SessionInit /\ AccountsInit /\ BuilderInit /\ ListInit /\ DeskInit
            /\ DrawerInit /\ TablesInit /\ TeamInit /\ CustomersInit /\ WhatsAppInit
            /\ TenantInit /\ PlansInit /\ CouponsInit /\ PlatformInit
BY DEF Init

panelVars == <<part, sessionVars, accountVars, builderVars, listVars, deskVars, drawerVars,
               tablesVars, teamVars, customerVars, whatsAppVars, tenantVars, planVars,
               couponVars, teamOfVars>>

LEMMA PartsMove ==
    [Next]_panelVars =>
        /\ [SessionNext]_sessionVars /\ [AccountsNext]_accountVars
        /\ [BuilderNext]_builderVars /\ [ListNext]_listVars /\ [DeskNext]_deskVars
        /\ [DrawerNext]_drawerVars /\ [TablesNext]_tablesVars /\ [TeamNext]_teamVars
        /\ [CustomersNext]_customerVars /\ [WhatsAppNext]_whatsAppVars
        /\ [TenantNext]_tenantVars /\ [PlansNext]_planVars /\ [CouponsNext]_couponVars
        /\ [PlatformNext]_teamOfVars
BY DEF Next, panelVars

THEOREM PartsAsSpecified ==
    Spec => /\ SessionSpec /\ AccountsSpec /\ BuilderSpec /\ ListSpec /\ DeskSpec
            /\ DrawerSpec /\ TablesSpec /\ TeamSpec /\ CustomersSpec /\ WhatsAppSpec
            /\ TenantSpec /\ PlansSpec /\ CouponsSpec /\ PlatformSpec
BY PartsBegin, PartsMove, PTL
   DEF Spec, panelVars, SessionSpec, AccountsSpec, BuilderSpec, ListSpec, DeskSpec, DrawerSpec,
       TablesSpec, TeamSpec, CustomersSpec, WhatsAppSpec, TenantSpec, PlansSpec, CouponsSpec,
       PlatformSpec

(* One of the parts is looked at, ...                                      *)
PartIsNamed ==
    part \in {"sessions", "accounts", "builder", "list", "desk", "drawer", "tables", "team",
              "customers", "whatsapp", "tenant", "prices", "coupons", "platform"}

(* ... and the state is well typed, whichever it is; ...                   *)
THEOREM AdminTypeCorrect == Spec => []AdminTypeOK
<1>1. /\ PartIsNamed /\ SessionTypeOK /\ AccountsTypeOK /\ BuilderTypeOK /\ ListTypeOK /\ DeskTypeOK
      /\ DrawerTypeOK /\ TablesTypeOK /\ TeamTypeOK /\ CustomersTypeOK /\ WhatsAppTypeOK
      /\ TenantTypeOK /\ PlansTypeOK /\ CouponsTypeOK /\ PlatformTypeOK
      => AdminTypeOK
  BY DEF AdminTypeOK, PartIsNamed
<1>2. Init => PartIsNamed
  BY DEF Init, PartIsNamed
<1>3. PartIsNamed /\ [Next]_panelVars => PartIsNamed'
  BY DEF PartIsNamed, Next, panelVars
<1>4. Spec => []PartIsNamed
  BY <1>2, <1>3, PTL DEF Spec, panelVars
<1> QED
  BY <1>1, <1>4, PartsAsSpecified, SessionTypeCorrect, AccountsTypeCorrect, BuilderTypeCorrect,
     ListTypeCorrect, DeskTypeCorrect, DrawerTypeCorrect, TablesTypeCorrect, TeamTypeCorrect,
     CustomersTypeCorrect, WhatsAppTypeCorrect, TenantTypeCorrect, PlansTypeCorrect,
     CouponsTypeCorrect, PlatformTypeCorrect, PTL

(* ... and what was proved of each part by itself holds of the panels.     *)
THEOREM PanelsAreSound ==
    ASSUME UtcOffset <= 10
    PROVE  Spec => [](/\ SessionLossNeedsMishap /\ OneTokenPerLogin /\ OldPasswordsOpenNothing
                      /\ ActionsSurviveEdit /\ ListIsServers /\ SwitchesAsAsked
                      /\ BookedWhereClicked /\ OneBookingPerOpening /\ OwnChangesAreShown
                      /\ TablesAreAsWanted /\ OwnerRemains /\ SavedAsEntered
                      /\ SwitchesAreKept /\ PageTellsWhatHolds /\ PlansAreAsTyped
                      /\ EmptyMeansDeactivated /\ AnAdminRemains)
<1>1. DeskSpec => []BookedWhereClicked
  BY BookingsAreDrawn
<1> QED
  BY <1>1, PartsAsSpecified, ExpiryKeepsSession, RotationRetires, NewPasswordEndsSessions,
     ActionsAreKept, ListShowsServer, SwitchesEndAsAsked, OpeningsBookOnce,
     DrawerShowsChanges, SwitchesAreWanted, TeamKeepsOwner, EntriesAreSaved, ChoicesAreKept,
     TenantPageTells, PlansEndAsTyped, EmptyPagesAreExplained, AdminRemains, PTL
=============================================================================

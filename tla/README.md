# TableWise: specifications, model checking and proofs

TableWise is a multi-tenant reservation service for restaurants: an ASP.NET Core API
(`src/src/Tablewise.Api`), MediatR command handlers (`Tablewise.Application`), EF Core on
PostgreSQL, Redis, WhatsApp and e-mail (`Tablewise.Infrastructure`), a rule engine
(`Tablewise.RuleEngine`) and React front ends. What can go wrong in it is mostly concurrency:
every request is a sequence of awaited reads and writes against a database and a Redis that other
requests use at the same time, with one distributed lock and no optimistic concurrency tokens.

The front ends add a second source of it: a page shows lists it has read before, sends requests that
overlap, and handles their answers in the order they come.

This directory models the booking core of the back end, its notifications, and the pages of the three front ends together
with the handlers they call, in TLA+, checks them with TLC on small instances and proves what matters
most with TLAPS. `PROJECT.json` lists, for every definition, the
lines of the source it stands for, and for every property the bug in the code that would break it.

## 1. Inventory

| Component | State it keeps | Operations | What is hard |
|---|---|---|---|
| Slot lock (`DistributedLockService`) | Redis key `reserve:{venue}:{start}` → random value, 30 s to live | SET NX, wait with back-off up to 10 s, compare-and-delete | expiry under a slow handler, late release, lost reply, swallowed delete failure, crash |
| Booking handlers (`Reserve`, `ModifyReservation`, `CreateManualReservation`, and the three that write a status) | `Reservations`, `ReservationStatusLogs`, `Customers.TotalVisits` | reserve, move, manual booking, cancel (guest), cancel (staff), set status | check-then-act across requests, stale reads, deposit (Pending) rows, last writer wins |
| Slot availability (`SlotAvailabilityService`) | none (reads rows, tables, combinations, closures) | `GetAvailableSlotsAsync` (offers), `CheckSlotAvailabilityAsync` (decides) | overlapping intervals, tables joined by combinations, two algorithms that must agree |
| Idempotency (middleware and service) | Redis copy (1 min), `IdempotencyKeys` row (24 h, unique key) | look up, replay, store | overlapping attempts, failures between commit and store |
| Tenant resolution, query filters | per-request tenant context | resolve from slug, header or token | confirm-code routes carry no tenant |
| Rule engine and rule cache | cached rules per venue, trigger counters | evaluate pipeline, invalidate on change | cache fill racing with invalidation, lost counter updates |
| Plan limits (`PlanLimitService`) | counts per tenant, monthly Redis counter | check, increment | count checked before the insert |
| Sessions and accounts (`AuthService`, `lib/api.ts`, `features/auth`) | refresh tokens, reset and verification tokens; the page's token pair | register, verify, log in, refresh, log out, reset | two refreshes with one token, revocation races, mail links, late answers |
| Staff and invitations (`features/staff`, six commands) | users, `UserInvitations` | invite, resend, cancel, accept, change role, remove | roles as old as the token, count before save, accept racing with cancel |
| Rules pages (`features/rules`, `useRules.ts`) | cached list; the builder's form | create, edit, switch, drag, delete | toggles, lists read before a change, two mappings that must be inverse |
| Reservations pages (`features/reservations`) | the day's page, the manual booking dialog, a reservation's detail | open, check rules, book, set status | UTC days and local hours, answers of dialogs already closed, cached details |
| Tables page (`features/tables`) | tables, dialogs, order | create, edit, switch, drag, delete, combine | an edit is two requests, the second a toggle |
| Customers (`features/customers`) | list, drawer's form | tier, blacklist, notes | one save is three requests, each refills the form |
| WhatsApp switches (`WhatsAppSettings.tsx`) | switches of a venue | click | a click writes all switches |
| Guest's wizard (`booking-ui`) | `BookingPage`, queries, the form, its evaluation | pick, type, evaluate, book, be shown the confirmation | stale picks, retries with new keys, verdicts that are late |
| Super-admin panel (`super-admin`) | tenant page, plan prices, coupons, the platform's team | suspend, re-plan, limit, price, issue coupons, change roles | cached views, overlapping saves, other admins, tokens that outlive their role |
| Notifications (`WhatsAppReminderService`, `TwilioWhatsAppChannel`, the mail queue and its worker) | message rows, Redis mail list, `NotificationLogs` | hourly reminders, send with retries, enqueue, dequeue, log | lost answers of Twilio, SendGrid and Redis, failed saves in a shared context, end of the process between two steps |
| Venues, closures | their rows | create, edit | edits racing with bookings |
| Rule evaluators, reports, dashboards, audit log, landing page | single rows or none | pure functions, queries, presentation | little that is concurrent |

How they interact: a booking request passes the tenant middleware and, for `reserve`, the
idempotency middleware; its handler takes the slot lock, asks the availability service, asks the
rule engine, saves everything in one `SaveChanges`, increments a Redis counter, leaves a
notification running in the background and disposes the lock handle; the middleware then stores
the response. Staff handlers share the rows but neither the lock nor the idempotency key. Nothing
is called back except through HTTP (delivery callbacks, a guest's cancellation by WhatsApp).

The front ends are single-page applications on React Query. A page keeps the answers of its queries in a
cache, changes something by a mutation, and on success *invalidates* the query, which is then read
again. Nothing orders two mutations, nor a mutation and a read that was already under way; the server
is told of what the page had cached (a toggle, a whole copy of a row, a role in a token) and reads its
rows again before it saves. Other users change the same rows from pages of their own.

What makes each part correct:

* lock: nobody deletes another handler's lock; a stored lock always comes free;
* booking: no physical table is taken twice at overlapping times; every request is answered;
* status handlers: an ended reservation stays ended; the log tells the truth; visits are those completed;
* idempotency: one key, one booking; replays are true;
* availability: what is offered can be booked, and the reverse;
* rule engine: after a change, the old rules are not applied for ever; what triggered is counted;
* plan limits: the limit is not exceeded;
* sessions: a login has one usable refresh token, expiry alone never ends a session, and a new password
  ends the sessions opened with the old one;
* team, platform: somebody who may run the tenant, or the platform, remains;
* lists and switches: once everything has settled the page shows what the server has, and the server has
  what the user asked for;
* rule builder: a rule that is opened and saved keeps the action that was not touched, as far as the page
  had it right when the dialog opened and nobody else changed it since;
* manual booking: one opening makes one reservation, and it is where the owner clicked;
* customers, tables: a save in several requests stores what the form held;
* plan prices: a save that sends a whole copy changes what was typed, and adds nothing but keys that were
  missing;
* guest: one click, one booking, shown to the guest; nobody is seated on a taken or too small table; a
  refusal is known before the button is pressed;
* notifications: a reminder goes out once, a mail is not lost, and its log entries are true; what breaks
  this is a failure that can be named.

The hazards behind these, each at its line, are listed under "hazards" in `PROJECT.json`.

## 2. Modules

| Module | What it is |
|---|---|
| `SlotLock` | the Redis lock; no next-state relation of its own, extended by `Booking` |
| `ReservationStatus` | statuses and the hand-made transitions, shared by `Booking` and `Lifecycle` |
| `Booking` | all handlers that create, move, cancel or re-label reservations, composed with the lock |
| `BookingBoard` | abstract specification of what these handlers promise together |
| `Lifecycle` | status, status log and visit counter of one guest's reservations |
| `Idempotency` | the attempts made with one Idempotency-Key |
| `RuleEngine` | the cached rules of a venue, the commands that change them, the trigger counters |
| `Sessions` | the session of one page of the panel: calls, 401s, refreshes, rotation of the tokens |
| `Accounts` | an owner's account from registration to a new password, in several tabs |
| `RuleList`, `RuleBuilder` | the list of rules with its switches, drags and edits; the builder with both mappings |
| `ReservationDesk`, `ReservationDrawer` | the day's page with the manual booking; the drawer that sets a status |
| `TablesDesk` | tables and combinations of a venue, the two-request edit |
| `Team` | staff, invitations and roles of a tenant |
| `Customers` | the customer drawer and its save of up to three requests |
| `WhatsAppToggles` | the WhatsApp switches of a venue |
| `GuestWizard`, `GuestForm` | the guest's five steps; the form of the fourth with the evaluation beside it |
| `TenantDetail`, `PlanPrices`, `Coupons`, `PlatformTeam` | the pages of the super-admin panel and their commands |
| `Reminders`, `MailQueue` | the hourly WhatsApp reminders; the mails in Redis and the worker that sends them |
| `MCBooking`, `MCReservations`, `MCIdempotency`, `MCRuleEngine`, `MCGuest`, `MCAdmin`, `MCRules` | finite instances for TLC |
| `BookingProofs`, `IdempotencyProofs`, `RuleEngineProofs` | theorems about `Booking` and its board, `Idempotency`, `RuleEngine` |
| `LifecycleProofs` | theorems about `Lifecycle`, `Reminders`, `MailQueue` |
| `AccessProofs` | theorems about who may do what to whom: `Team`, `Accounts`, `Sessions`, `Customers` |
| `PlatformProofs` | theorems about the super-admin panel: `PlatformTeam`, `PlanPrices`, `TenantDetail`, `Coupons` |
| `PageProofs` | theorems about the other pages of the admin panel (`RuleList`, `WhatsAppToggles`, `TablesDesk`, `ReservationDesk`, `ReservationDrawer`, `RuleBuilder`) and about the fourteen modules of both panels together |
| `GuestProofs` | theorems about `GuestWizard`, `GuestForm` and both together |

### SlotLock and Booking

A *worker* is one HTTP request in a handler; `pc[w]` is the awaited step it stands at and `req[w]`
the handler's local variables. Its path is

    reserve, modify:  idle -> waiting -> checking [-> combining] -> saving -> releasing -> idle
    manual:           idle ------------> checking [-> combining] -> saving -> idle
    cancel, staffCancel, setStatus:      idle -> writing -> idle

A step is what happens between two points at which another request can get in front: a Redis
command, a query, a `SaveChanges` (which is one transaction). The free-table query and the
free-combination query of `CheckSlotAvailabilityAsync` read the rows separately, hence `checking`
and `combining`; the occupied tables that the first has seen are carried to the second, as in the
code. `Refuse` stands for every exception between the lock and the save: all of them leave
through the disposal of the lock handle. `Crash` ends a request anywhere and leaves its lock stored
with a value nobody owns (`Orphan`); so does a `SET NX` whose reply is lost, which the waiting
handler does not notice. `ExpireLock` removes a stored lock; `LockOutlivesHandler = FALSE` lets it
do so under a running handler.

Rows have a ghost field, `guarded`: the write that made the row live happened while its writer
still held the lock of the row's start. `ModifySeesVenue` is whether the tenant filter lets a
confirm-code request see its venue. In the deployed pipeline it does not: the middleware skips
resolution for these routes (`TenantResolverMiddleware.cs:86`), the filter hides the venue and the
availability check reports it as not found, so a public modification is always refused. TRUE
therefore allows every behaviour of FALSE and, in addition, what the handler does where its venue
is visible; the runs and proofs cover both.

Times are integers; `Overlaps` is the code's comparison of half-open intervals of
`SlotDurationMinutes`. Guests, confirm codes, prices, rule outcomes and venue configuration other
than the deposit are abstracted into the nondeterminism of `Refuse` and `NewStatus`.

### BookingBoard

The board maps each booking to its seats and start; a step enters, moves or takes off one booking,
never onto seats that another booking has at an overlapping time. `Booking!OnBoard` is the
refinement mapping: the live rows by the physical tables they take. A modification is one `Move`,
which is where the single transaction of `ModifyReservationCommandHandler` matters.

### Lifecycle

The handlers that read a row, test its status, and later write another one, with the log entry and
the visit counter written in the same transaction. Log entries are kept in commit order.
`ModifyReservationCommandHandler` also writes a status, but never gets that far (see
`ModifySeesVenue`), and is left to `Booking`.

### Idempotency

One key and the attempts that carry it: look up in Redis, then in the database, run the handler,
store in Redis, store in the database, answer. Lookups and the Redis entry are per tenant, but the
unique index of `IdempotencyKeys` is on the key alone: where another tenant has used the same key the
insert fails, one of the failures of `StoreInDbFails`. Expired rows are never deleted and keep their
key, so the insert for a reused key fails as well (`StoreInDb`).

### RuleEngine

One venue. Its rules have a `status` in the table; `cache` is the list that `GetRulesAsync` keeps in
Redis for five minutes. An owner's command commits and then drops the list (two steps, the second of
which may fail). A request looks the list up, or queries the table and writes what it has read to
Redis, whatever has been committed and dropped in between; evaluates (any subset of the list may
trigger, up to one rule that blocks); and loads, increments and saves `TimesTriggered`. `tracked` and
`dirty` are the change tracker of the request's `DbContext`, which the pipeline and the booking
handler share: a failed save of the pipeline, which it swallows, is made up for by the handler's.
`FailOpen` is `StubRuleEvaluator`, which allows the request when the rules cannot be had. The kinds of
request are `booking` (reserve and modify, which count once more in `UpdateRuleTriggersAsync`),
`manual` and `preview`. `late` is a history variable: the list was out of date when written, or a
failed invalidation has left it. Priorities and the content of the rules are left out.

### Reminders and MailQueue

`Reminders` is one server process and its pass over tomorrow's reservations. A pass reads both queries
(`StartPass`), then takes one reservation after the other (`todo -> calling -> noting | failing -> out`):
insert the row, call Twilio up to `Tries` times, note the outcome. `unsaved` and `stuck` are the
`DbContext` of the pass: a row or status that could not be saved stays in it and goes out with the next
save that works; a row that *was* saved though the answer was lost is inserted again by every later save,
which all fail, up to the end of the pass. `reminded` counts what Twilio accepted, `slips` the accepted
messages that the server took for failed, `broken` the reservations whose sending a failure cut short.
No delivery callback is modelled: they carry no tenant, and `TenantResolverMiddleware` answers 401.

`MailQueue` is the Redis list and the worker. `RPOP` removes a mail before it is sent; the log entry is
written after, in the `try` whose `catch` writes an entry `Failed`, and through one context, so that the
second save carries the first entry with it. Mails are numbered in the order they were queued.

Both take the provider to be configured. Without credentials `TwilioWhatsAppChannel` leaves the row
`Queued`, and `SendGridEmailService` drops the mail without a log entry.

### How the page modules are built

The modules of the front ends share a shape. What the *page* has is one group of variables (the cached
answer, the form, what is open); what the *server* has is another; between them are the requests on
their way, as a set of records with the place they have reached:

    sent -> read -> saved | refused -> (handled by the page) | lost

`sent -> read` is the handler's query, and the record keeps what was read; `read -> saved` is its
`SaveChanges`, computed from what was read and from what the request carried, and not from what is in
the table by then, except for the columns that EF leaves out of the UPDATE because they were not
changed; the last step is the page's `onSuccess` or `onError`. A refetch is a record of the same kind:
its rows are those of the moment the server read them. So changes, lists and answers overlap in every
order, and may be lost. Handlers whose overlaps are modelled elsewhere (`ReservationDrawer`:
`Lifecycle`; `GuestWizard`: `Booking`) or do not matter for the page are one step.

History variables say what the user meant (`asked`, `wanted`, `meant`, `typed`, `chosen`) or what went
wrong on the way (`missed`, `mishaps`, `troubles`, `hasty`, `crossed`, `stray`, `outdated`, ...). No
guard reads them. A property of the form "once settled, and unless ..., the page and the server agree"
names in its second part the circumstances in which TLC otherwise finds it broken; they are described
in section 5.

* `Sessions`: every call that meets a 401 refreshes with the stored pair by itself and is sent again once.
  Token pairs are numbered; `usable` are the refresh tokens not revoked, `line` the login they descend
  from. The branch that revokes everything when a revoked token is used again is not saved by the code
  (`RefreshTokenAsync` throws before `SaveChanges`), so it changes nothing here.
* `Accounts`: tabs of one browser share the store; commands read the user, decide, save. `late` marks a
  session stored after a reset had looked at the sessions.
* `RuleBuilder`: names and numbers are abstracted to where a value comes from (`own`, `template`,
  `default`, `foreign`, ...), which is what a lossy round trip confuses. An action has a kind, a figure (a
  percent, an amount) and a text (a message, or the label of an early-booking rule): the mapping to the
  payload (`SentAction`) takes a message from any first action, or only from one of the right kind, and the mapping
  back (`ReadAction`) knows some keys and not others. `ActionsSurviveEdit` follows one rule from the form to
  the payload, the row, the list and back into the form. The dialog opens on the row of the page's list
  (`rulesShown`), which has a query of its own (`rulesFetch`) and is asked for again after a success, not after
  a failure. The initial rules are any that a template makes; a colleague may give a rule another action at any
  time. `stale` marks a dialog, and its request, that was opened on a row with another action than the rule had, or
  while the rule was being saved, or that a colleague's save has overtaken.
* `RuleList`: rules with a switch and a priority. A drag sends every rule of the page with the priority
  of its place.
* `ReservationDesk`: local hours, UTC instants, one answer of the list (`PageSize`), the check of the
  rules beside the form, and the dialog that can be closed while its request is under way.
* `TablesDesk`: `PUT` and then, if the switch was moved, `toggle`, compared with the list of that moment.
* `Team`, `PlatformTeam`: the role that is checked is the token's. `Team` has one owner's page and every
  other person's commands; `PlatformTeam` one admin's page and the other admins' commands.
* `Customers`: the sequence of requests of one save, each compared with the customer the closure had.
* `GuestWizard`, `GuestForm`: the steps with their guards, the list of slots of the server (local hours
  compared with UTC rows) beside the check that decides, other guests, lost answers, the navigation that
  a deposit delays by a second. In the form, the debounced evaluation is a query with a cache keyed by
  what was asked; `RefusalsAreForetold` relates what the page knew with what the server then found.
* `TenantDetail`, `PlanPrices`, `Coupons`: cached views, edits by other admins, the marker of one save. A stored
  plan may lack keys of its two JSON columns (`NotStored`), as the seeded ones do; the copy that the page
  edits is filled with the page's defaults (`Filled`), and a save sends all of it. The statuses of a tenant are
  those that some command writes: none writes `Cancelled` or `PastDue`.

## 3. What the runs check

| Run | Instance | Shows |
|---|---|---|
| `booking` | 2 workers, 2 rows, 2 tables and their combination, one start, all operations, deposit on, locks may expire early | `GuardedExclusive`: two live rows written under their lock never share table and start; `LockLeavesItsOwnerOnly`: a lock goes only by its owner's step or by expiry |
| `booking_board` | 2 workers, 2 rows, one table, two starts a slot apart, `Protected` | `NoSharedSeat`, `ImplementsBoard`, `EveryRequestAnswered`, `LockComesFree` |
| `lifecycle` | `MCReservations`, one part at a time: 2 rows of one guest, 2 workers, both first statuses; or 2 reservations to be reminded of, 2 tries, 3 failures; or 3 mails, 2 tries, 3 failures | `LogIsTrue`, `VisitsAreLogged`, `ConfirmedStaysEnded`; `RemindedOnce`: at most one reminder more than accepted messages were taken for failed, and none is left out silently but for a failure; `MailsAreAccounted`: every mail is queued, in hand, logged or taken by a failure, sent again only for a lost answer, and logged truly |
| `idempotency` | 3 attempts, overlapping, server and stores may fail | `RepliesAreOfBookings`, `RecordStopsLaterAttempts` |
| `rule_engine` | 2 rules, one of which blocks, 2 requests of any kind, 1 command of the owner | `StaleHasAReason`, `BookedRulesAreCounted`, `CountsAreBacked`, `StaleRulesRunOut` |
| `guest` | `MCGuest`: the wizard with two days, one hour, two tables and their combination, another guest's booking, two clicks; or the form with one table, one combination, two sets of refused facts, three edits, one press | `GuestTypeOK`; `SecondBookingNeedsLostAnswer`; `StalePickNeverSeats`; `BookedGuestIsTaken` (under fairness); `RefusalsAreForetold`: a refusal the page knows stops the booking, and what it was told is allowed is accepted, unless something changed since |
| `admin` | `MCAdmin`: the fourteen page modules, `part` says which one runs | `AdminTypeOK` and the seventeen properties below |
| `booking_overlap` (violation) | one table, starts 0 and 1, slots of 2 | `NoSharedSeat` fails: overlapping starts have different lock keys |
| `booking_combination` (violation) | two tables and their combination, one start | `NoSharedSeat` fails without any race: a booked combination leaves its tables free to the check |
| `lifecycle_revival` (violation) | one row made Pending, two workers | `EndedStaysEnded` fails: a stale confirmation overwrites a cancellation |
| `idempotency_overlap` (violation) | two overlapping attempts | `OneBookingPerKey` fails: both miss and both book |
| `rules_form` (violation) | the builder with three templates and one rule | `FormStartsFromItsSource` fails: a saved rule of a built-in type is opened with empty conditions |

The properties of `admin`, by module; each ends with the conditions under which it is not claimed:

| Module | Property | Says |
|---|---|---|
| `Sessions` | `SessionLossNeedsMishap` | the panel loses a session by itself only after two refreshes carried one token, an answer was lost or cut off, or the password was reset |
| `Sessions` | `OneTokenPerLogin` | one usable refresh token per login, unless two refreshes carried one token |
| `Accounts` | `OldPasswordsOpenNothing` | a new password ends the sessions of the old one, except a login that overlapped the reset |
| `RuleBuilder` | `ActionsSurviveEdit` | a rule saved with its action left alone keeps kind, figure and message, but not the label of an early-booking rule, which becomes the code's own, unless the dialog was `stale`; where an action cannot be read back the owner must choose again |
| `RuleList` | `ListIsServers`, `SwitchesAsAsked` | the settled list is the server's, and a switch is where the owner put it, though requests say "toggle" |
| `ReservationDesk` | `BookedWhereClicked`, `OneBookingPerOpening` | a booking lies on the page and in the hour that were clicked; one dialog makes one booking |
| `ReservationDrawer` | `OwnChangesAreShown` | a status this page has changed is not shown as before |
| `TablesDesk` | `TablesAreAsWanted` | a switch is where card or form put it |
| `Team` | `OwnerRemains` | a tenant keeps an owner |
| `Customers` | `SavedAsEntered` | a save that is through has stored every field as the form held it |
| `WhatsAppToggles` | `SwitchesAreKept` | a click keeps the other switches |
| `TenantDetail` | `PageTellsWhatHolds` | the settled page offers to let in exactly the locked out, and shows the limits in force |
| `PlanPrices` | `PlansAreAsTyped` | a plan with nothing left to save is as it was last typed, field by field; keys its JSON lacked are missing still or are all there with the page's defaults |
| `Coupons` | `EmptyMeansDeactivated` | an empty page means no match, or deactivations that emptied it |
| `PlatformTeam` | `AnAdminRemains` | an active SuperAdmin remains |

The five violations are what the code does and are described, with the sentences of the
repository they contradict, under "findings" in `PROJECT.json`.

**Bounds.** All hazards here are between two actors: two workers are the reader and the one
who gets in front of it, and a worker that is done starts again, so sequences of requests of any
length occur (until the rows run out). Two rows are enough for every pairwise property; a slot
needs two tables only where a combination joins them. Two starts give the three cases: same,
overlapping, apart. Three attempts with one key are an attempt that stores, one that overlaps it
and one that comes later. In `rule_engine` one command is enough for a list that is out of date (it can
be filled late, and its invalidation can fail), two requests for a counter that is overwritten, and the
two rules are one that blocks and one that does not. The rows that can be inserted (`ResIds`, `Rows`) and the attempts are
the only counters, and are bounded by the sets in the configurations. The theorems below hold for
every size of these sets, which is the better argument that the bounds hide nothing.

The page modules bound what users do, by constants that guard the actions: `MaxPairs`, `MaxLogins`
(`Sessions`), `MaxForms` (`Accounts`), `MaxSaves` (`RuleBuilder`), `MaxChanges` (`RuleList`),
`MaxOpenings`, `MaxSubmits`, `MaxChecks` (`ReservationDesk`), `MaxRelabels` (`ReservationDrawer`),
`MaxTableChanges` (`TablesDesk`), `MaxCommands`, `MaxInvites`, `MaxMails` (`Team`), `MaxCustomerSaves`
and `Touched` (`Customers`), `MaxClicks` (`WhatsAppToggles`), `MaxOrders` (`TenantDetail`), `MaxPlanSaves`
(`PlanPrices`), `MaxCoupons` (`Coupons`), `MaxTeamOrders` (`PlatformTeam`), `MaxAttempts` and `OthersMay`
(`GuestWizard`), `Rulings`, `GroupsOffered`, `MaxKeys`, `MaxEdits` and `MaxPresses` (`GuestForm`). `MaxMishaps` (`Reminders`) and
`MaxTroubles`, `MaxQueued` (`MailQueue`) bound failures and mails: three failures are one that leaves
something behind, one that makes it worse and one in the next pass, two reservations share a context. Two
changes are the one that is overtaken and the one that overtakes it; three where the overlap needs a
preparation (a role that is made stale, a click that locks, a mail that is asked for). What each property
excludes occurs within these bounds, and so does what it claims: its mutant is found within them. In
`RuleBuilder` two saves suffice for that because a stored rule is there from the start; with no rules at the start
a third save would be needed, since the first has to make the rule. A colleague's save and a drag count among
them. One field is changed in a dialog there (`MaxTouched`): action, conditions and priority meet in no
mapping and in no claim but "touched or not". The list is asked for and answered between dialogs: a dialog that is
open does not look at it, and a success drops a query that is under way.

The pages of the panels share no rows that the properties relate, so `admin`, `guest` and `lifecycle` run one
part at a time with the others at rest in one initial state; the union of the parts' behaviours is what
is checked, and the product would show nothing more. In `admin` what is alike starts in one order:
the first table is there first, the first code is the first coupon's, and a rule stored at the start is an
early-booking rule (the other kinds are made, saved and opened again). All prices start alike, and a key of a
plan's JSON with either value or missing.

**Symmetry** is used for workers, rows, tables and attempts in runs without liveness properties.

**Deadlock** is checked in the booking runs. `lifecycle`, `idempotency` and `rule_engine` say
`CHECK_DEADLOCK FALSE`: they end when every row has a final status, every reservation is past, or every attempt or request has
ended, and nobody sends another one. So do `guest`, `admin` and `rules_form`: a guest is done on the
confirmation page, and a page rests when its bounded user has nothing left to do.

**Fairness.** `FairSpec` of `Booking` assumes weak fairness of `Proceed(w)`, per worker, and of `ExpireLock(s)`.
A handler's continuation runs when its awaited call returns or fails; its wait for the lock is
bounded by a clock (ten seconds), which is why `GiveUp` is part of `Proceed`; Redis expires keys. No
fairness is assumed of arrivals, of the lock being granted, of crashes or of lost replies, and weak
fairness suffices because a disjunct of `Proceed` stays enabled until the worker is answered.
`EveryRequestAnswered` counts a crash as an end of the request: no process, nothing to answer.
`FairSpec` of `RuleEngine` assumes it of each request, of each command's invalidation or its failure, and of
the expiry of the list, by the same argument; `StaleRulesRunOut` needs the expiry, since a request can
write an old list after the last invalidation.
`Fairness` of `GuestWizard` assumes it of the server's decision on a request, of the handling or the loss of
its answer, and of the timer of the delayed navigation: an HTTP call ends one way or the other, and timers
fire. Nothing is assumed of the guest. The other page modules state no liveness: what they claim holds
"once settled", and settling is that the calls under way end.

## 4. What is proved

Every invariant that a passing run checks is also a theorem, and so are the action properties
(`LockLeavesItsOwnerOnly`, `ConfirmedStaysEnded`, `RecordStopsLaterAttempts`) and the refinement of `BookingBoard`.
Where a run composes modules, the composition is proved to be each module's specification and to have all of their
properties (`ReservationsAreSound`, `PanelsAreSound`, `GuestIsSound`).

All of this holds for every value of the constants that satisfies the assumptions of the modules (the `ASSUME` of
each, named `...Assumption`). These say of what type a constant is; that sets are finite whose elements are counted
or added up (tabs, customers, plans, admins, codes, tables: rows of a database or windows of a browser); that the
marks for "nothing" (`None`, `Orphan`, `"none"`, `""`, `NoLimits`) are not values; that a page has room for a row, a
slot lasts, a message is tried at least once, and the party size that the wizard starts with is allowed; that at
least two coupons may be issued (`CouponAssumption`); and that a rule about groups does not apply to a guest who has
told nothing of his group (`FormAssumption`). Nothing is assumed of schedules. Five theorems have a hypothesis
besides: `ProtectedSeats` and `HandlersImplementBoard` that `Protected` holds, `RetriesBookOnce` that the client waits
and the server does not fail between commit and reply, `BookingsAreDrawn` (and `PanelsAreSound`, which uses it) that
the venue is at most ten hours ahead of UTC.

Hardly any of these properties is inductive as it stands. What is told below is the strengthening, which is
where the reason for the property is found.

*Booking core and notifications.*

* **`TypeCorrect`, `GuardedRowsExclusive`, `LocksLeaveOwnersOnly`** (`BookingProofs`). The inductive
  invariant is `IndInv`: types, `LocalsFit` (a handler's locals fit the place it has reached),
  `LockFits` (a stored lock names a worker only between its acquisition and release, under its
  start) and `CheckHolds`. The last is the heart: `GuardedExclusive` is not inductive alone, because
  a worker that has found a table free is about to write it. `CheckHolds` says that while that
  worker still holds its lock no guarded row comes to take its table at its start, because whoever
  writes such a row would have to hold the same lock. No assumption on expiry is needed: a worker
  that loses its lock writes an unguarded row.
* **`ProtectedSeats`, `HandlersImplementBoard`** (`BookingProofs`), under `Protected`: no manual
  bookings, no handler slower than its lock, no hand-set status where deposits make Pending rows, no
  combinations, and starts that coincide or lie a slot apart. Then all live rows are guarded (`ProtInv`), rows at
  different starts do not overlap, and `GuardedExclusive` becomes `NoSharedSeat`; each handler step
  maps to a step of the board or to a stutter. The violation runs each drop one of the conditions of
  `Protected`.
* **`LifecycleTypeCorrect`, `StatusLogTrue`, `VisitsAccounted`, `ConfirmedRowsStayEnded`**
  (`LifecycleProofs`). `LogInv` adds to the properties that a row has a log exactly if it was made and
  that what a worker has read is in the log; `VisitInv` that what it has read of the visits was
  accounted for; `PendingFromStart` that only rows made Pending are ever Pending and that only a
  worker that has read such a row writes a live status. So stale writes can revive only rows made
  Pending, which is what `lifecycle_revival` shows happening.
* **`RepliesTrue`, `RecordSpendsKey`, `RetriesBookOnce`** (`IdempotencyProofs`). The last is the positive
  counterpart of `idempotency_overlap`: if the client sends an attempt only after the previous one
  has ended and the server does not fail between commit and reply, the key places one booking,
  with Redis or without.
* **`StaleListsExplained`, `BookedRulesCounted`** (`RuleEngineProofs`). `RuleInv` adds to
  the properties that rules in lists exist (`RulesExist`), that what a request has still to write of a
  counter is at least one (`WritesCount`, so an overwritten counter never falls back to zero), and that a
  booking about to be saved carries a count of every rule it triggered (`SavesCount`).
* **`CountsBacked`** (`RuleEngineProofs`): a rule's counter is at most twice the number of requests that
  triggered it. The bound is a cardinality, so the invariant (`CountsInv`) names its elements: `Counted(r)`
  holds the pairs of a request and 1, once the pipeline has counted, and 2, once the handler has. Neither
  the stored counter nor any value in a change tracker exceeds its cardinality, and an increment is
  always of a request that adds its pair.
* **`RemindersTypeCorrect`, `RemindedOnceAlways`** (`LifecycleProofs`): whatever fails, and over any number of passes,
  a guest is reminded at most once more than an accepted message was taken for a failed one. The
  invariant adds what a reservation's place in the pass says of its counts: as long as its message is not
  accepted, or its row is Failed, all acceptances so far were unheard; and while it is being sent its row
  is `Queued` or already noted, so that the next pass leaves it out.
* **`MailTypeCorrect`, `MailsAccounted`** (`LifecycleProofs`): for any number of mails, retries and failures. The invariant
  says where a mail can be at most once (no mail is queued twice, and none that is queued was accepted or
  logged), and that what the worker still has to write is about the mail in its hand and true.
* **`ReservationsAreSound`**: the composition `MCReservations` has what is said here of the status, the reminders and the mails.

*Access* (`AccessProofs`).

* **`TeamTypeCorrect`, `TeamKeepsOwner`**: however many people, invitations and commands
  there are, only two owner-costing commands that were under way together can leave a tenant without an
  owner. `TeamInv` says that, as long as no two have crossed, at most one command that costs an owner has
  read and not saved, and then an owner other than its target exists, because the handler counted two and
  all other saves only add owners.
* **`AccountsTypeCorrect`, `NewPasswordEndsSessions`**: a session in use that was not stored late is of today's
  password, and every reset that has looked at the sessions has found it (`SessionsAreToday`); before there
  is an account there is nothing to end (`NothingBeforeAccount`).
* **`SessionTypeCorrect`, `ExpiryKeepsSession`, `RotationRetires`**: expiry, at any moment and in any mixture of calls,
  never ends a session. `StoreIsGood` says that while nothing went wrong one refresh at most is under way, that
  it carries the stored token, and that this token is usable or just being replaced; `RotationsAlone` that
  until two refreshes carry one token, a refresh about to be saved is all that stands for its login;
  `TokensExist` that numbers name what was issued, so that a new pair is new.
* **`CustomersTypeCorrect`, `EntriesAreSaved`**: of a customer nobody is confused about one save at most is under
  way (`OneSave`), and the row has what that save has written and otherwise what it had when the button was
  pressed (`SaveIsHalfway`). The type of the row's stamp is a count: a stamp and what the saves may still
  write never exceed three for each save begun (`StampsAreCounted`).

*Super-admin panel* (`PlatformProofs`).

* **`PlatformTypeCorrect`, `AdminRemains`**. `TogglesAreOfOthers` remembers the guard
  that an admin may not switch himself off until the switch is saved; with it, who has a command carried
  out as an active SuperAdmin is one afterwards.
* **`PlansTypeCorrect`, `PlansEndAsTyped`**: unless the page was outdated, whatever is being edited, on its way or
  saved is what was typed, filled where keys were missing (`AllAsTyped`). Filling a row twice changes nothing more
  (`FilledRows`), and what is typed into a filled copy is typed into the row (`TypedIntoFilled`), so that a plan is
  at any moment the typed one or the typed one filled.
* **`TenantTypeCorrect`, `TenantPageTells`**: unless another admin was at work, the buttons let one order of each lane
  be under way (`OneOrderPerLane`), so that a suspension still finds what it has read and saved limits are those in
  force (`OrdersStand`), and a row or limits the page has not got are announced by something on its way
  (`NewsOnItsWay`, `LimitsOnTheirWay`).
* **`CouponsTypeCorrect`, `EmptyPagesAreExplained`**: where no deactivation can take a coupon from the list (`Steady`),
  the list only grows, so the page begins within it (`PageIsThere`) and every answer that counted something on a page
  that is there has rows (`AnswerStands`). That a page within the list has a row is a pigeonhole argument on its
  places.

*Admin panel* (`PageProofs`).

* **`ListTypeCorrect`, `ListShowsServer`**: the settled list of rules is the server's.
  `Announced` is the strengthening: if list and server differ, something that will tell the page is on its
  way (a saved change not yet answered, a list not yet read, or one read that is the server's), or an answer was
  missed.
* **`SwitchesEndAsAsked`**: the same is true of each rule by itself (`SwitchAnnounced`), and of a rule the owner was
  not hasty with, one change at most would set the switch, to where he asked (`SwitchInHand`), although the request
  says "toggle" and not where to.
* **`WhatsAppTypeCorrect`, `ChoicesAreKept`**: until a switch is clicked too soon one update at most is on its way, made
  of what the server has and the last choice (`OneUpdate`), and between updates the two agree (`NothingPending`).
* **`TablesTypeCorrect`, `SwitchesAreWanted`**: of a table that was not touched again too soon one request at most
  moves the switch, and whether it is still to move it says what is missing (`MoveInHand`): the second request of
  an edit is remembered by the first. `AbsentIsNew` is about creations, `SwitchOnItsWay` and `FormStands` about
  what list and form know. The type needs that the seats of a combination are a number. They are a fold over a
  set, so this is an induction over finite sets; it is carried out by a minimal counterexample in the
  well-founded order of subsets (`SmallestSet` to `SeatsAreCounted`), with the existence of the recursive
  function among its lemmas.
* **`DeskTypeCorrect`, `OpeningsBookOnce`, `BookingsAreDrawn`**: without a lost answer or an early leave one creation at
  most is under way, of the dialog that is open (`OneCreation`), which has no reservation before it is made
  (`OneReservation`). A form that counts as clicked has an hour that can be clicked (`HoursAreClicked`). The first
  of these is ten o'clock, so up to ten hours ahead of UTC the day that is asked for holds it; beyond that a booking
  in the morning is on the page of the day before.
* **`DrawerTypeCorrect`, `DrawerShowsChanges`**: a detail under way is that of the selected reservation
  (`FetchedIsSelected`), and a status it does not have is announced (`ChangeOnItsWay`).
* **`BuilderTypeCorrect`, `ActionsAreKept`**: the types whose actions are read back are stored with kinds, figures
  and texts that come back as they were, but for the label (`ActionsFit` and `PayloadFits`); what is read and sent
  again is then what is stored, but for the label (`RoundTrip`), and reading that gives the same once more
  (`PutBackReads`). Form and request have, of what was not touched, what is stored (`FormIsStored`, `BodyIsStored`);
  a request for the rule that is in the dialog is that dialog's own (`RequestIsItsOwn`); and list and query have
  rules that are there, of their types (`RuleIsThere`). Each of the three exceptions in `stale` is needed: without it
  `FormIsStored` is not kept by the opening, by the save that ends after a dialog has been opened on its rule, or by
  a colleague's save.
* **`PartsAsSpecified`, `AdminTypeCorrect`, `PanelsAreSound`**: in the composition `MCAdmin` each of the fourteen parts
  behaves as its own module says, whichever is looked at, so what is said of them here and above holds of it.

*Guest's pages* (`GuestProofs`).

* **`WizardTypeCorrect`, `SeatsAreChecked`, `BookedOnce`**: the steps come in order (`StepsAreInOrder`), and the guest's
  bookings are paid for by lost answers, hasty clicks, the request in hand or the page that is past it
  (`OwnIsPaidFor`). `StalePickNeverSeats` follows from the server's check alone, whatever the page held.
* **`FormTypeCorrect`, `RefusalsComeEarly`**: a verdict, asked for, cached or remembered by the booking, says what it is
  based on (`VerdictsAreGrounded`, `BookingIsGrounded`), and a form on the summary has no refusal
  in the cache for what it would send (`SummaryIsForetold`) unless the guest hurried or the refusal came late.
* **`GuestTypeCorrect`, `GuestIsSound`**: the composition `MCGuest` has all of this.

Only model-checked are the liveness properties (`EveryRequestAnswered`, `LockComesFree`, `StaleRulesRunOut`,
`BookedGuestIsTaken`): they need fairness and ENABLED, which are out of the prover's reach. What the five violation
runs check is false, and is not proved. The library's theorems of induction take an operator as a parameter, which
the provers cannot instantiate; where data is counted the proofs count with the cardinality of a set instead, or
argue by a minimal counterexample. The types of `Booking`, `Lifecycle`, `Reminders` and `MailQueue` are proved and not
among the invariants of a run.

## 5. Read in the code, not shown by a run

* The public modification is always refused in the deployed pipeline (see `ModifySeesVenue`).
* `IdempotencyKey.cs:24` says a background job removes expired keys; there is none, and since the unique
  index ignores the tenant, a key used once can never be recorded again by any tenant.
* `GetAvailableSlotsAsync` and `CheckSlotAvailabilityAsync` disagree on partial closures, on time
  zones and on combinations.
* `tablewise-cursor-prompts-v1.1.md:1861` wants one `TimesTriggered++` for each outcome. The pipeline and the
  handler both add one, so a booking counts twice (`CountsAreBacked` has the factor two), previews and
  blocked requests count as well, and concurrent requests lose counts: the counter may even go down.
* When the rules cannot be had, `StubRuleEvaluator` allows the request as if there were none (`FailOpen`).
* `TotalVisits` can lose an increment; only that none is invented is checked.
* The status log's entries need not follow one another when writers overlap; only that each tells of
  a status the row had.


*Notifications.*
* A reminder whose accepted answer, or whose save of `Sent`, is lost goes to `Failed` and is sent again within the
  hour; a crash after the insert leaves `Queued`, and the guest is never reminded (`slips`, `broken`).
* The fallback mail of a reminder, and the mails of a registration and a forgotten password, are built where
  no tenant is known: `CreateEmailRequest` reads `TenantId`, which throws. A registration swallows that; a
  forgotten password has stored its token by then and answers with an error (`ForgotPassword` in `Accounts`).
* Queued mails have an empty subject and body (`QueuedEmailService.cs:360-361`): the templates are rendered by
  `SendTemplatedAsync` alone, which the queue does not use.
* Rows of messages written without a tenant carry the empty tenant id and are hidden from every tenant.
* A confirmation is sent by a task that the request does not wait for, with the request's scope: once that has
  ended its saves fail and the row stays `Queued`.
* The Twilio webhook and the invitation links are not among the paths that `TenantResolverMiddleware` lets
  pass without a tenant, so delivery callbacks, a guest's "IPTAL" and an anonymous acceptance get 401.
* `PlanLimitService` checks tables and rules; nobody calls its checks of venues and reservations, and the
  limits a super admin sets for a tenant (`CustomLimitsJson`) are shown and never enforced.

What the page modules take from the code, and what their properties except because of it:

*Guest's pages.*
* The list of slots compares hours labelled local with reservations in UTC, so it can offer taken and hide
  free ones (`docs/qa-asama-1-booking-ui.md:59`, "Sadece müsait slotlar listeleniyor"); the check decides again.
* Changing the day or the party size never resets the chosen slot and table. `StalePickNeverSeats` shows
  that the server's check makes up for it.
* Every POST draws a new Idempotency-Key, also when the panel repeats it after a 401: a repeated
  click after a lost answer books again.
* The confirmation, view, cancel and modify pages read fields that `ReservationDetailDto` does not send and
  end blank (`shown` and `blank` in `GuestWizard`); the modify page PATCHes a route that the API serves by POST.
* The evaluation sends local time as UTC, a combination's id as a table's, and no custom field; the
  values of the group picker never equal those the composition rule compares with, so that rule never
  acts on a web guest. Allowing is the answer when the rules cannot be had.
* Hidden counts of a group are still sent, and required ones that are hidden stop the submit without a message.
* What is typed into the form is kept on submit only: "Geri" loses it.

*Sign-in.*
* Mails link to `/verify-email?token=` and `/reset-password?token=`, the router has `/verify-email/:token` and
  `/reset-password/:token`: the mailed link leads to the login page, which refuses an unverified owner.
  "Send again" sends nothing.
* A token reused after rotation should revoke all sessions; the code throws before it saves that.
* Two refreshes with one token, from two calls or two tabs, end the session and leave a usable token
  that nobody holds. The panel never calls `/auth/logout`. The super-admin panel has no refresh.

*Rules pages.*
* `LargeGroup`, `Deposit`, `Cooldown` and `Vip` actions cannot be read back; the trigger `OnModification`
  comes back as `OnReservation`; a PUT clears `ApplicableTimeSlots`.
* A drag gives priorities up to ten times the number of rules, the form accepts ten at most: a dragged rule
  can then not be saved, without a message.
* The test dialog tests the saved rule, or the one edited last, and not what is in the form.
* A save that ends closes whichever dialog is open by then.
* `tryParseActions` reads `message` and not the `label` an early-booking rule is stored with
  (`mapApiRuleDto.ts:50-51`): saved again, untouched, the rule loses its own label for the one in the code
  (`PutBack`). An own label can only come from the message of an action of another kind, which is
  taken whatever the kind (`mapRuleFormToApiPayload.ts:252`), or from the API.
* A dialog is filled from the cached list, which shows the rule as it was between a save and the refetch, and
  longer after a lost answer, since `onError` does not refetch (`useRules.ts:95`). A dialog can also be closed while it
  saves (Escape), and opened on the same rule again. Saving it puts back the old action, which its owner has not
  touched (`stale`).

*Reservations and tables.*
* The list endpoint returns 20 rows and the page never asks for more; it asks for a UTC day, so hours after
  midnight lie on the previous day's page.
* Without a phone a manual booking is stored under `0000000000`, one customer for all.
* Invalidating a detail that is not on show does not cancel its fetch, so an answer older than a change passes
  for fresh (`parted`). Notes and status log call endpoints that do not exist.
* A form of a table is filled when another table is opened only; a failed creation loses what was typed;
  a creation drops the switch. Combinations keep the ids of deleted tables.

*Team, customers, settings.*
* Two owners who demote or remove one another at once leave none (`crossed`). The unique index on users
  ignores `IsDeleted`, so a removed colleague who is invited again cannot accept.
* An acceptance and a cancellation that overlap both succeed; sending an expired invitation again while a
  newer one is open leaves two.
* A save of a customer that is pressed before the refetch compares with the old row and may send nothing; a
  request that fails stops the rest.
* The page for working hours sends a PUT without the required fields and is always refused; the deposit,
  booking, notification and integration settings keep nothing.

*Super-admin panel.*
* `TenantDetailPage` has no badge for `Trial` and `PastDue` and throws, so a tenant who has just registered cannot
  be suspended from it (`docs/tablewise-cursor-prompts-faz-7-8.5-14.md:434`, `qa-asama-4-cross-frontend.md:131`).
* A suspension of a tenant that is not `Active` changes `IsActive` alone, which the page does not show.
* `PricingPage` remembers one save; what is typed during a save is dropped by its success, and what is typed
  before the refetch is sent with the old values of the other fields.
* A save of a plan writes the page's defaults for every limit and flag its JSON has no key for, also when
  only the price was typed (`PricingPage.tsx:43-57`): the seeded plans (`DbSeeder.cs:107-226`) have none of them in
  `LimitsJson`. A limit that is edited there goes into `LimitsJson`, while `PlanLimitService.cs:249-263` reads
  `FeaturesJson` first, where the seed has `maxTables` and the others: the edit changes what
  `GetPlanLimitsQuery` shows, which reads `LimitsJson` only, and not what is enforced.
* The coupon page keeps its page number when the list shrinks; a failed query also reads "no coupon".
* Nothing counts the SuperAdmins: one may demote himself (`stray`).

## 6. Not modelled, and the plan

In the order planned, each with the question it answers:

1. `PlanLimits`: tables and rules, counted before an insert that nothing guards.
2. `Availability`: partial closures and working hours of the two slot algorithms (`Booking` and `GuestWizard`
   have the rest of them).
3. Tables and closures against bookings in progress, composed with `Booking`: `TablesDesk` refuses or
   accepts a deletion without looking at reservations.
4. Abstract specifications of the pages ("a switch is set", "a reservation is made") that `RuleList`,
   `WhatsAppToggles`, `TablesDesk` and `ReservationDesk` would be shown to implement, as `Booking` implements
   `BookingBoard`: their invariants say already when a request on its way is as good as carried out.
5. The positive counterparts of the violations, as `RetriesBookOnce` is one: no revival where no deposit is
   taken, forms that start from their source for the types that are read back.

Not modelled because they keep no state that anybody else relies on, or because what they call does not
exist: landing page, dashboards, audit log and reports (queries), the settings pages without an endpoint,
reservation notes, the rule test dialog, the guest's view, cancel and modify pages (blank, see above), rule
evaluators beyond their decision (pure functions of one request), exports, PDF and e-mail templates,
confirmations and cancellations by WhatsApp (sent like a reminder, from a request). Left out of modules that are there: the
rules page left during a save, whose second save may then overlap the first; deletions of a rule
that is in the builder (`RuleList` has deletions); prices that are not numbers, which are not sent; keys of a
plan's JSON that the page does not know, which it sends back as they were.

# Verification of the appointment scheduler

TLA+ models of the scheduling backend in `src/` (FastAPI, SQLAlchemy, PostgreSQL, a
language-model agent on WhatsApp, Messenger and Instagram), TLC runs over small instances of
them, and proofs checked by TLAPS.

Paths below are relative to the repository; the application's code is `src/` in it.

1. [Inventory](#1-inventory) · 2. [Modules](#2-modules) · 3. [How the models read the
code](#3-how-the-models-read-the-code) · 4. [Runs](#4-runs) · 5. [Findings](#5-findings) ·
6. [Proofs](#6-proofs) · 7. [Not modelled](#7-not-modelled) · 8. [Plan](#8-plan) ·
9. [Running it](#9-running-it)

## 1. Inventory

Everything that lasts is in one PostgreSQL database (and refresh tokens in Redis). Every
HTTP request, every inbound message and every pass of a scheduler opens a session of its
own, at READ COMMITTED, in one asyncio process or several. There is no in-memory state
shared between requests but configuration and the agent's API client, so every hazard is
about transactions that interleave, end half way, or write what they read too long ago.

| Component | State | Operations | Talks to | What makes it correct |
|---|---|---|---|---|
| slot occupancy (`application/appointment/slot_occupancy.py`) | none | `evaluate_slot` | booking, reschedule, offered slots | the verdict is a function of the set of appointments, never of their order; no place too many |
| appointments (`application/appointment`) | `appointments`, `clients.appointment_count` | book, reschedule, cancel, complete | services (row lock), clients, agent tools, dashboard | no session overbooked, none overlapping itself, a booking is not duplicated, a closed one carries its amount, every request ends |
| available slots (`get_available_slots.py`) | reads the above | list the starts of a day | business hours, agent | offers what a booking would accept |
| reminder buttons (`webhooks/router.py:254`) | `appointments.status` | confirm, cancel | WhatsApp | no transition out of a closed or cancelled appointment |
| memberships (`domain/membership`, `application/membership`) | `memberships`, one partial unique index | grant, renew, freeze, resume, cancel, report | dashboard, prompt of the agent | one live membership per client, no paid time lost, no time given away |
| inbound conversation (`process_inbound_message.py`, two webhooks) | `clients`, `conversations`, `messages`, `human_transfers` | one turn per message | agent, every use case a tool calls, channels | each message answered once, what was done is remembered, a handed-over conversation stays with the human |
| agent and tools (`infrastructure/ai`) | the session of the turn | 12 tools, up to 5 rounds | language model, use cases above | a tool's failure harms only itself |
| human transfers (`transfer_routes.py`) | `human_transfers` | list, resolve | conversations | a resolved transfer gives the conversation back |
| reminder scheduler (`scheduler/reminder_scheduler.py`) | `appointments.reminder_sent_at` | a pass every 15 minutes: select, send, mark | WhatsApp | nobody slips through between two passes, nobody is flooded |
| campaign scheduler (`scheduler/campaign_scheduler.py`) | `campaign_sends` | a pass: select, claim, commit, send, stamp | WhatsApp | nobody written to twice, a claim is not wasted, the cap starves nobody |
| onboarding (`application/onboarding`, `domain/tenant`) | `tenants`, `users`, verification tokens, the first business | register, verify, wizard, connect WhatsApp | e-mail, Meta | both halves of a verification, the tenant's status only moves on, the wizard is all or nothing, accounts are made once |
| identity (`application/identity`) | refresh tokens (Redis) | log in, refresh, log out | | a token works until it is used, revoked or over |
| catalogue (business, service, professional, membership plan) | one row each | create, read, edit, configure, delete | booking reads it | an edit changes what it was asked to change; slugs and users are not shared |
| lists kept as rows (hours of a day, professionals of a service, services of a plan) | one row per element | replaced as a whole | offers, bookings | what is shown was asked for by one request |
| reports (`application/reports`) | reads `appointments`, `clients`, `services` | eight aggregates over local days | dashboard | the reports of one range agree |
| paginated lists (eight routes) | read the above | one page and a count per request | panel | a walk through the pages sees every row once |
| dates of the agent (`infrastructure/ai/date_parser.py`) | none | `parse_date` | agent tools | the date looked up is the date meant |
| unit of work (`dependencies.py:208`, `_SessionUoW`) | the session | commit on exit, roll back on an exception | all | one transaction per request |

How they interact, and where it is hard:

* **Booking, rescheduling, offers** all decide with `evaluate_slot`. Booking and the agent's
  reschedule lock the row of the *service* and then read the agenda of the *professional* (or
  of the whole business). The reschedule route, cancelling, closing and the buttons take no
  lock at all between their read and their write.
* **Writes are merges.** `Repository.update` maps a domain object read earlier and calls
  `Session.merge` and `flush`: a SELECT of the row as it is by then, and an UPDATE of the columns
  of the object that differ from it. So a stale object undoes what others did before that
  SELECT, and what is committed between it and the UPDATE leaves a row that mixes two objects.
* **A tool shares the session of its turn.** The use case a tool calls enters the same unit of
  work: its success commits the turn's message, client and conversation and releases their
  locks; its failure rolls all of that back, and the turn goes on.
* **Webhooks always answer 200**, so what fails inside is lost unless the channel redelivers
  for a reason of its own (a slow answer, a process that died).
* **Side effects follow the commit** (replies, campaign messages, the verification mail) or
  precede it (reminders): either way a crash in between loses or repeats one.
* **Checks without a key.** The slug of a business, the user of a professional, the address of
  an account and the business of the wizard are looked up and then inserted, with nothing in the
  database that refuses the second of two requests at once.

## 2. Modules

| Module | What it is |
|---|---|
| `SlotOccupancy` | the rule of `evaluate_slot`, over sets of appointments |
| `SlotLoop` | the loop of `evaluate_slot` as written, with its early returns, over sequences |
| `Booking` | the requests over appointments as transactions; EXTENDS `SlotOccupancy` |
| `BookingSafety` | the properties of `Booking`, its inductive invariants, the refinement mapping |
| `SessionSeats` | abstract specification: clients take and leave seats of sessions |
| `Availability` | the offered slots as a function of the state of `Booking` |
| `Membership` | memberships of a client, with the history needed to account for time |
| `Inbound` | turns of the bot, from the webhook to the reply |
| `Campaigns` | the campaign scheduler: passes of several instances, and what changes meanwhile |
| `Reminders` | the reminder scheduler: polls of several instances against a clock |
| `Accounts` | registration, verification, wizard, sign-in and refresh |
| `Edits` | the rows of the catalogue, written column by column as `merge` does, and the booking that waits for one |
| `Replacement` | lists that are deleted and inserted row by row |
| `Reports` | every report as an operator over `Booking`, and the summary statement by statement; EXTENDS `Booking` |
| `Dates` | `parse_date` on a calendar |
| `Listings` | a walk through the pages of a list while rows come, go and move |
| `BookingProofs`, `MembershipProofs`, `InboundProofs`, `OutreachProofs`, `AccountsProofs`, `EditsProofs`, `ReplacementProofs`, `ReadingsProofs` | the theorems: a module per component, one for both schedulers and one for all that only reads |
| `MC*` | small instances for TLC; `MCOutreach`, `MCCatalogue` and `MCReadings` each hold components that share no table, one of which is watched in each behaviour |

**Booking.** `appts`, `visits` (clients and `appointment_count`), `lock` (service rows), `txn`
(requests: what they read, the object they will write), `now`. A request is one transaction in at
most five steps, split where another one can come in between: `Begin...` (everything read before
the first wait, and the change of the object in memory), `AddClient`/`RejectClient` (the insert of
a new client waits on its unique key), `CheckSlot`/`RejectSlot` (the lock and the agenda read
under it), `Merge`/`MergeClient` (the SELECT of the merge, which leaves in `diff` the columns it
found different), `WriteAppointment`/`WriteBooking` (the UPDATE of those columns, and the commit),
and `Disconnect` at any point. The buttons issue an UPDATE of the status alone (`WriteStatus`).
The two reschedules differ in the lock and in the capacity they look up: the route has no service
repository, hence capacity 1.

**Membership.** `rows`, `txn`, `now`; `ledger` and `raced` are history. `Granted`, `Renewed`,
`Frozen`, `Resumed`, `Cancelled` are the commands of the aggregate; `Begin...` reads the row
and applies one; `Insert` writes a new row, `Merge` and `Update` are the two statements of a merge as
in `Booking`, and the partial index has to admit what they make. Time is in ticks,
`Day` of them to a day, because resuming rounds a pause up to whole days.

**Inbound.** `known` (clients), `convs` (conversations with their pending transfers), `newer`
(their order), `stored` (messages of clients), `turn`; `from`, `deliveries`, `tally` are
history or bounds. A turn: `Receive...` (duplicate check and look-up of the client), `Admit`
(first write: takes the client's row until the transaction ends; conversation; message) or
`Refuse` (a unique key), tools, `Finish` or `FinishOrphan`, `Reply`; `Crash` at any point.
Each tool is the transaction it causes: `CaptureLead` only adds to the turn's; `QuickTool`,
`Reschedule` and `Book` commit it; `ToolFails` and `DeadlockVictim` undo it.

**Campaigns.** `pass` is the loop of every instance: what it selected (`left`, `today`, the ends
it read in `until`), its counters (`sent`), and the key it has claimed; `claims` and `stamped`
are the table. `Wake` and `StartWinback` select, `PassOver` skips, `Claim` commits the key,
`SkipSend`, `SendAccepted`, `SendRefused` and `SendUnanswered` are what becomes of the message,
`Stamp` records a confirmed one, `Abort` ends a pass anywhere. Members renew, clients come back,
businesses connect and close while a pass works on what it read. `posted`, `tried` and `aborts`
are history.

**Reminders.** `poll` is the loop of every instance, `agenda` the appointments with their mark.
Unlike a campaign, a poll sends first and marks afterwards. Time is a clock in ticks that does
not advance while a poll is due (timing assumption: a pass is much shorter than the window).

**Accounts.** `tenants`, `users`, `places` (businesses as they were created) are committed rows,
`inbox` the verification mails that arrived, `access` and `sessions` the tokens, `txn` the
requests. A registration looks up the address, finds a slug, inserts (waiting on the unique slug),
commits, and only then mails. A verification finds its token, clears it (which locks the user),
reads the tenant and commits. `BeginSetup` and `Furnish` are the wizard; `CreateBusiness` is the
form of the panel, which asks for no status and changes none. `Refresh` is all that a refresh
manages to do: it forgets the token. `knew` is history, what was there when the creator of a row
looked, and so is the field `by` of a business, who created it. Identifiers are taken in a fixed
order (`NextOf`), since nothing tells them apart.

**Edits.** `row` maps a service, a business, a professional or a plan to its columns; `edit` is a
request: the object it loaded and changed (`copy`), what `merge` loaded again (`fresh`), what it
was asked (`asked`). `Write` sets exactly the columns in which the object differs from the second
load. Connecting a number has calls of Meta between load and merge. A booking (`ReadClass`,
`LockClass`, `Count`, `Take`) reads the capacity, waits for the row, and uses what it read before.
`moved`, `sight`, `made` and `crossed` are history.

**Replacement.** A row carries the request that inserted it and is seen by others once that has
committed; a row of hours also keeps what its request said of the day. A request works through
its plan, one of the orders that its code admits (`Plans`: days as they were sent, the rows of a
day by position, members of a set in any order), by the position `at` of the list it replaces and
the position `next` of the row it inserts. `Aim` is the snapshot of a DELETE, `DeleteRow` waits
for whoever deleted the row before, `InsertRow` for whoever holds its key; `UniqueViolation`,
`Deadlocked` and `Lost` roll back. Only the row of a plan is written first (`HoldPlan`). `met` is
history.

**Reports, Dates, Listings.** `Reports` adds prices and `created_at` to `Booking` and defines
`SummaryBlock`, `GetTrend`, `GetHeatmap`, `GetPerformance`, `GetStatuses` and the top lists over
its state; `AskSummary`, `ReadPrevious`, `ReadNew` and `ReadReturning` are the summary's four
statements, with commits of the agenda between them. `kept` and `met` are history: the clients
who had an appointment in the range ever since the summary was asked for, and those who had one at
some moment. `Dates` goes through the days, each of which begins in UTC (`today`) before it begins
where the business is (`local`), and `Ask` looks up whatever a client may say then, in words, as a
number, or with the month after a slash. `Listings` reads pages cut from any order the query
admits.

Definitions commented *Slip* are not part of the models: each is a definition changed the way
a plausible mistake would, used to confirm that a property notices (`mutants` in
`PROJECT.json`).

## 3. How the models read the code

Granularity and abstractions, with the reason for each:

* The SELECT and the UPDATE of a merge are two steps in `Booking`, `Membership` and `Edits`, and the
  UPDATE writes the columns that differed from the SELECT. An UPDATE and its commit are one step:
  the UPDATE locks the row, and a later one waits and applies its columns to what was committed.
* Where a request changes one modelled column of a row, its merge is one step: the status of a
  conversation (`Inbound`) and of a tenant (`Accounts`). A commit of that column between the SELECT
  and the UPDATE either is overwritten, as if it had come before the merge, or stays because the
  SELECT found nothing to write, as if it had come after.
* The lock of the service and the reading of the agenda are one step: whoever matters to the
  agenda waits for the same lock; whoever does not is free to commit right before or after.
* The look-up of the client and the idempotency query of a booking are one step, both before
  any lock and before any write. In `Inbound`, so are the duplicate check and the look-up of the
  client: what comes between would end in the same refusal by a unique key.
* One business and one tenant: every query filters by them. In `Booking`, services,
  professionals, capacities and durations are constants; `Edits` models the edit of a service
  while a booking waits for it.
* `list_active_in_range` bounds its query by time; `Booked` leaves the bound to `Overlapping`,
  and `Availability` models the bound of the day query itself (`DayBooked`).
* The check of a reschedule's status happens when the object is changed in memory, after the
  slot check in the code; the object does not change in between, and either refusal rolls back.
* A request that validation refuses before it writes anything changes nothing and has no action,
  unless a property is about it (`Refuse`, `Conflict`).
* The status `no_show`, `confirm()`, `mark_reminder_sent()`, `expire_if_due()` and the tenant's
  `suspend`, `cancel`, `change_plan` and `mark_trial_expired` have no caller in the application.
  So expired memberships stay stored as active, which `Membership` keeps.
* `Membership` requests are shorter than a tick. Which plan, its price and whether it is active
  matter only through its period: a membership keeps a copy of both.
* In `Inbound` the service lock is one lock, whatever the service; what the model decides (which
  tools, whether to escalate) is nondeterministic. A cancellation and a booking that finds its
  seat already taken by the same client are one action, `QuickTool`: both commit without waiting.
  A new conversation takes an arbitrary unused identifier.
* The branch of a turn for an escalated conversation, muted or resumed, has no action: its guard
  is never true (finding `escalated_stays_quiet`). Resolving a transfer has none either: the
  route flushes and nothing commits, so it leaves every table as it was.
* The share locks that foreign keys take on the rows they refer to are left out: they conflict
  with no lock that the models have.
* In `Edits`, columns that no property tells apart share one name (`details`); `number`, `secret`
  and `token` stand for the WhatsApp columns. A request is used once.
* In `Accounts`, a business is kept as it was created. Its later edits, hours, services and deletion
  are in `Edits` and `Replacement`, and no action of `Accounts` reads them: an active tenant may
  well have nothing left to book.
* In `Accounts`, passwords and signatures are left out, and so is `update_last_login`, which
  nothing commits. The production answers are modelled: the development ones also return the
  token.
* In `Listings` a row has one key, the column its list orders by; filters are "listed or not".

**Fairness.** The safety runs have none. Where requests wait for locks, strong fairness is
assumed of the steps of each request that has begun (`EveryRequestEnds` of `Booking` and of
`Accounts`, `EveryTurnEnds`, the editors of `EveryChangeEnds`), never of arrivals, crashes or
disconnections: PostgreSQL grants a row lock or a unique key to its waiters in turn, and the
agent's loop is bounded by `_MAX_ITERATIONS`. A deadlock is broken by the database
(`DeadlockVictim`, `Deadlocked`, part of what is fair). `Replacement` needs weak fairness only,
since a request that can go on stays able to until it or the one that it meets moves.
`EveryNoticeIsClaimed` assumes weak fairness of the loop of each instance: it sleeps for a while
and not for ever, and every call has a timeout. The clock, and aborts, are not fair.

**Deadlock checking is off** in every run: identifiers, deliveries and the clock are bounded, so
a system in which everything has been used up stops.

## 4. Runs

| Run | Bounds | Shows |
|---|---|---|
| `booking_class` | a class of 2 places lasting 2 slots, 2 overlapping starts, 3 clients, 3 appointments, 2 concurrent requests of the locked writers | `SessionWithinCapacity`, `NoOverlapWithinService`, and every step implements `SessionSeats` |
| `booking_serial` | a class and a one-to-one service, 2 professionals, 2 appointments, a day with a break and a closed range, one request at a time, all kinds | `ProfessionalNotDoubleBooked`, `BookingIsIdempotent`: what only the absence of concurrency protects; `OffersAgreeWithBooking` |
| `booking_live` | 2 concurrent requests of all kinds, every merge in its two steps, one session, 2 clients | `RevenueJustified`; `EveryRequestEnds` |
| `membership_days` | 2 memberships of 1 client, 2 concurrent requests, half days, 3 ticks | `OneLivePerClient`, `NoTimeLost`, `FreeTimeBounded`, `CurrentIsReported` |
| `inbound_turns` | 2 messages, 3 deliveries, 2 concurrent turns, 2 conversations, 2 tools a turn, one client on WhatsApp or on a social channel, known or new | `AnsweredOnce`, `ActsAreRemembered`, `StoredIsAnswered`, `LeadQueuedOnce`, `HandoverSticks`, `EveryTurnEnds` |
| `accounts` | 2 registrations at once, one address in two spellings, names whose slugs collide, 2 businesses, from the wizard or from the form, 1 refresh token | `VerifiedTogether`, `DuplicatesNeedARace`, `ActiveByWizard`, `NoStepBack`, `EveryRequestEnds` |
| `outreach` | campaigns: 2 instances on one client, or one instance on 2 clients with a cap of 1, 3 days, one aborted pass; reminders: 2 instances, 1 appointment, 5 ticks, 2 faults | `NeverTwice`, `LostOnlyByAbort`, `EveryNoticeIsClaimed`; `RepeatsNeedFaults`, `NoneSlipsThrough` |
| `catalogue` | lists: an earlier request and 2 at once, 2 days, breaks, both orders of days, 2 professionals, 2 services of a plan; rows: 2 editors and a booking, 2 values of a column | `ListsAreWhole`, `StaffMixedOnlyByMeeting`; `UndoesOnlyMissed`, `TwinsOnlyByMeeting`, `NeverAboveSight`; `EveryChangeEnds` |
| `readings` | agendas of up to 4 appointments in every order; 2 appointments of 2 clients over 2 local days that share a UTC day; every day of 2 years, one of them a leap year, on both sides of the midnight of UTC; 3 rows in pages of 1 or 2 | `LoopMatchesRule`; `ReportsAgree`, `SummaryBrackets`, `RevenueMovesByClosing`; `DatesAreFound`; `WalkShiftsOnly` |
| `double_booked`, `escalated_stays_quiet`, `silent_null` | as small as the disagreement allows | see the findings |

Why these bounds are enough to be interesting: two places and three clients let a session be
empty, half full, full and fought over; two starts that overlap and a duration of two give aligned
and misaligned sessions; two transactions give every race between a read and a write (what a third
request on one row adds is a mixed row, see `silent_null` below); three identifiers let an
appointment be moved while another two fill its session. Half days and a pause over a day boundary
make the rounding of memberships visible. Three deliveries of two messages give a redelivery
during the first turn, after its crash and after its end; two tools a turn give a commit after a
rollback and a booking that meets another turn's in the opposite order of locks. A cap of one
makes the second of two members wait for the next pass; a horizon one day past the window of a
campaign lets a plan end unseen. Two replacements after an earlier one give every order of their
deletes and inserts, the deadlock of days sent in opposite orders included. A local day that
begins inside a UTC day separates the two kinds of grouping. The theorems of section 6 remove the
bounds for what they cover.

Properties that hold only under a condition say so. `AtMostTwoEach` says that an appointment, or a
membership, has two requests in progress at most. The runs have two requests in all, so it holds
in them by itself, and the theorems that need it have it in their statement. It is not idle: a
third request can commit between the SELECT and the UPDATE of a stale merge, which then leaves a
row that is neither object, namely an appointment completed without an amount (`silent_null`), an
active one at a start that was never checked (a reschedule whose status the UPDATE leaves and
whose start it writes), or a membership in which an old pause begins again (`FreeTimeBounded`).
`NoTimeLost` leaves out memberships over which requests raced; `LockedWriters` leaves out the two
writers that put an appointment back without looking under the lock; `AnsweredOnce` allows one
more answer per message for each time a failed tool rolled the message back; `HandoverSticks` is
about the social channels, where no tool commits half way; `UndoesOnlyMissed` bounds the loss of a
stale edit to the columns that moved between its load and the second one of its merge, which it
does undo; `TwinsOnlyByMeeting`, `StaffMixedOnlyByMeeting` and `DuplicatesNeedARace` allow what
two requests at once can do; `SummaryBrackets` bounds what four statements at four moments can
count; `DatesAreFound` names exactly the phrases that are misread. Apart from
`AtMostTwoEach`, which is an assumption about the load, the condition is in each case what the code
guarantees; without it, TLC finds a counterexample.

## 5. Findings

Each is a run whose one property states what the repository says, and which TLC violates.

* `double_booked` — the lock is the service's, the rule the professional's: two bookings of two
  services of one professional at once both succeed.
* `escalated_stays_quiet` — the bot answers a client whose conversation is with a human, in a
  new conversation, because the query for the current one leaves escalated ones out.
* `silent_null` — three requests on one appointment leave it completed with no amount, the "silent
  null" that `appointment.py:131-133` rules out. A cancellation reads the appointment open; a
  closing commits the status and the amount; the SELECT of the cancellation finds both different; a
  reminder button brings the appointment back, amount and all; a second closing of that amount
  finds only the status different. Then the cancellation writes its status and its NULL, and the
  second closing its status alone (`appointment_repository.py:167`).

Met while modelling and not given a run, component by component:

* Appointments. The idempotency check of a booking precedes the lock and is not repeated under it
  (`book_appointment.py:124`), so a client who confirms a class twice at once gets two seats. The
  reschedule route takes no lock and can put a client into a session that was just filled. Two
  tabs that close an appointment at once both succeed. The capacity of a class is counted per
  professional when one is given. Starts that have passed are offered and then refused. The offers
  do not ask whether the service is active.
* Memberships. Of two renewals at once one is lost, though both were paid. The filter
  `expiring_in_days` has no lower bound, and the one by status uses the stored status, so expired
  memberships are listed as active (`membership_repository.py:257-272`).
* Conversations. Resolving a transfer is answered as done but never committed
  (`transfer_routes.py:79`). The reply to a reminder's cancel button says "cancelled" even if
  nothing was.
* Schedulers. The cap of campaign messages is per pass and campaign, where `settings.py:74` says
  per business and cycle, and it counts confirmed messages only. A rescheduled appointment is
  never reminded.
* Accounts. A refresh deletes the old token and then asks for an access token without the address
  that it needs (`refresh_token.py:54`), so it always fails and the session is gone (`Refresh`);
  no run, since nothing has to interleave for it. `create_business.py:44-45` says that the tenant
  must be onboarding to create its first business, and nothing asks (`CreateBusiness`). Two
  registrations of one address at once both succeed, and the address then signs nobody in; two
  wizards at once make two businesses; the development route that sends a token again never
  commits it; `/onboarding/wizard/state` and `/complete` raise `NotImplementedError`.
* Catalogue. `PATCH` of a day's hours fails whatever it is sent (`_upsert_one` does not exist).
  Two assignments of professionals at once leave the union of both, where `service_routes.py:261`
  says "Replace". The slug that `business.py:24` calls unique has no key. Connecting a number
  writes back settings that changed during its calls.
* Reports. The counters of the summary leave out rescheduled appointments; the trend and the
  heatmap group by UTC days, where the comment at `reports_routes.py:130` speaks of local ones.
* Dates. In December a day that has passed is looked for in January of the same year
  (`date_parser.py:75`); a day that its month lacks becomes today; "hoy" is the day in UTC, and
  between its midnight and that of the business the number of the client's own day gives another
  month or year; "el 5/6", an example of the comment at `date_parser.py:61`, is read as "el 5".
* Lists. Services, businesses and professionals have no ORDER BY: with two rows, a walk through the
  pages promises nothing.

## 6. Proofs

TLAPS proves, for every value of the constants that satisfies the modules' assumptions:

* `BookingProofs`: `BookingTyped` (every set of writers); `ClosedIsCharged` (every set of writers,
  within `AtMostTwoEach`); `RoomIsKept`, `SessionsWithinCapacity`, `ServiceNeverOverlapsItself` and
  the refinement `BookingSeatsClients` (every set of writers within `LockedWriters`, within
  `AtMostTwoEach`); `NotDoubleBookedInOneService` (the same, when no professional works in two
  services); `NotDoubleBookedAlone` and `BookedOnceAlone` (every set of writers, one request at a
  time); `OffersAreBookable` (no condition).
* `MembershipProofs`: `MembershipTyped`, `OneMembershipEach`, `ReportedIsCurrent`, `PaidIsKept` (any
  number of requests); `GiftsAreBounded` (within `AtMostTwoEach`).
* `InboundProofs`: `TypeCorrect`, `Answered`, `Remembered`, `StoredAnswered`, `OneLead` and the
  action property `HandoversStick`, all from `Invariance`.
* `OutreachProofs`: `CampaignTypes`, `NobodyTwice`, `LostByAbortsOnly` of the campaigns;
  `ReminderTypes`, `AllAreTried`, `RepeatsBounded` of the reminders.
* `AccountsProofs`: `AccountTypes`, `HalvesTogether`, `WizardIsWhole`, `DuplicatesRace` and the
  action property `NeverStepsBack`.
* `EditsProofs`: `EditTypes`, `TwinsMeet` and the action properties `LossIsBounded` and
  `WithinSight`.
* `ReplacementProofs`: `ReplacementTypes`, `ListsWhole`, `StaffMixed`.
* `ReadingsProofs`: `LoopIsTheRule` (the loop of `evaluate_slot` gives the verdict of the rule on
  every agenda) and `LoopHolds`; `ReportsTellOneStory`, `SummaryIsBracketed` and the action
  property `RevenueIsMovedByClosing`; `DatesMeant`; `WalksShiftOnly`.

**Booking.** That no session is overbooked is not inductive: a transaction that has passed its
check will take a place it has not taken yet. `SeatInv` adds what makes its write safe: it holds
the lock of its service (`LocksHeld`), there is room for it where it will sit (`RoomKept`,
`HasRoom`), every appointment already seated has room where it is (`Seated`), and no other
transaction puts an appointment into the agenda (`Removals`). The lemmas: what `evaluate_slot`
accepts has room (`BookableHasRoom`), room never shrinks when appointments leave
(`RoomShrinks`), and an admitted appointment leaves room to all others (`SeatTaken`). Only a
holder of the lock can add to a service, and there is one, so `RoomKept` survives the commits
of the others. For the refinement, a step maps to `Sit`, `Leave` or a stutter of `SessionSeats`
under `SeatPlan`, the active appointments with their sessions.

What an UPDATE makes of a row depends on what it was at the SELECT and on what it is by now, so
the proof says what may lie between the two. The number of requests is arbitrary, but two of them at
most are on one appointment (`AtMostTwoEach`, an assumption of the theorems about behaviours, as
`Spec /\ []AtMostTwoEach`; section 4 says what a third one breaks). `PairInv`: a request
carries the status of its kind (`AsAsked`), two requests on an appointment find it active until
one of them has written (`PairsOnActive`), and a cancellation or a closing that found its own
status leaves the appointment out of the agenda (`ClosedStays`). `MergeInv`: an appointment that
was never moved is where every request read it (`Unmoved`, `NotFresh`), and a reschedule that
writes its status without its start finds that start (`MoveLands`); hence a merge puts an
appointment into the agenda only where its request was admitted. `AmountInv` is the same for the
amount: a stale NULL is written only over an appointment that has left the agenda and with a status
that says so (`AmountStale`), and a closing that leaves the amount out finds it stored
(`AmountFound`). `RevenueJustified` follows.

That a professional is never in two places is not a property of the code, as the run
`double_booked` shows. It is proved under each of the two conditions that make it one, and these
are stated as assumptions of the theorems. With one request at a time (`Serial`: any set of
requests that has one element) what a request checked is still so when it writes; `SerialInv` says
that and gives both `ProfessionalNotDoubleBooked` and `BookingIsIdempotent`. With several, but
every professional in one service (`OneServiceEach`), the lock of the service is the lock of its
professionals, and `SeatInv` is enough, under its own condition. `OffersAgreeWithBooking` needs
neither: it is about what `Availability` computes from any state, and follows from the bound of
the day query, which is wide enough for whatever overlaps a start of that day (`DayIsEnough`).

**Membership.** `MemInv` strengthens what is checked for any number of requests: what a request
will write is a command applied to a row that was stored (`Prepared`), `OneLive` by pairs instead
of cardinalities, and the time lost as `NothingLost`, on rows that no request left otherwise than
it made them. The time gained needs `TwoInv`, again with two requests on a membership at most: a
pause says when it began, and an active membership says nothing of one (`Proper`); what is left is
bounded not as it stands but as it would be if the pause were resumed right now, since the pause
that is running already counts (`Limited`, `Bounded`); the status and the beginning of a pause are
written together or not at all (`Paired`); and of two requests on a cancelled membership one
writes nothing (`OneWrites`). A stale write keeps the bound because what it read obeyed it when it
was read and the ledger only grows.

**Inbound.** The proof first reduces the fifteen actions to six kinds of steps of one turn
(`StepOf`: it begins, admits, works, commits, rolls back or ends; `StepTypes`). `InbInv` says of
each turn that what it has not committed is written under its client's row (`Locking`), that the
conversation it writes to is its client's or will be (`Grounded`), that its message is stored,
about to be, or counted as undone (`Remembers`), and that on a social channel it still holds the
row and its conversation is not escalated (`Steady`); of two turns, that they hold different rows
and insert different conversations (`Apart`). `AnsweredOnce` is not inductive: `Budget` charges
the answers and the turns that may still answer (`Claims`, a cardinality) against the rollbacks
and the one time the message is in the history or about to be.

**Campaigns.** `CampaignInv` adds to `NeverTwice` what makes the next message safe: the key that a
pass is about to send is claimed, not sent yet, and no other pass is about to send it
(`Exclusive`); what waits for its stamp was tried; what is below the cap was below it when it was
claimed. `LostOnlyByAbort` is a cardinality, and inductive with the finiteness of the claims: the
set of abandoned claims stays the same in every step but `Abort`, which adds one at most. The week
of a win-back is an arbitrary function of the day.

**Accounts.** `AccountInv` says that what a request read still describes the rows it will write
(`Sound`): the tenants a registration knew do not have its address; the tenant that a verification
will write is pending and otherwise as it read it, since it holds its user (`OneHolder`); the
tenant that a wizard will write is verified and differs from its row by its status alone, and knew
of no business but those of the form. With that the four properties are inductive together,
although no row but the user's is ever locked.

**Reminders.** `RemInv` follows every appointment that is owed a message (`Owed`): the next poll
of a sleeping instance comes before the window closes over it, and an instance that is polling has
found it, was too early for it, or began before it was made (`InTime`); the clock does not pass a
poll that is due, so neither does it pass the window. It uses that the interval is no wider than
the window (fifteen minutes against two hours in `reminder_scheduler.py:30-32`). The number of
messages (`Counted`) changes its bound with the mark: until the first mark, each of them is about
to be marked or was paid for by a fault; afterwards, an instance that found the appointment
earlier may send once more, and those are disjoint from the ones about to mark.

**Edits.** `EditInv` says of each request how its object differs from the row: in what was asked
and what moved (`Sound`), from the row itself until merge has loaded it again, and from what merge
has loaded afterwards. A request that is about to take a place has found one (`Room`) and holds
the row, and the capacity it read is no more than `sight`, which only grows. Names are never
asked for, so twins come from creations alone: two requests under way have met (`AllMet`), and a
row with the name of one about to be added was made by a request that its maker met (`Pending`).
It is assumed that there are no twins at first, and that the kinds of rows are disjoint.

**Replacement.** A list is whole because of what a DELETE could not see. `ReplacementInv` says that
two rows of one key never both stand (`KeysClash`); that a request deletes what it aimed at
entirely or, after a rollback, not at all (`AllOrNone`, `TakenTogether`); that the request which
holds the row of a plan has that plan to itself (`HolderTakesAll`, `OneOwner`); and that a row of
somebody else left beside mine was either in my snapshot or inserted by a request that mine met
(`FoundOrMet`, `MixedByMeeting`). Orders are sets of sequences named by what is true of them
(`Orders`, `Ordered`), so the proof needs no induction over a sort.

**Readings.** These are about what loops, sums and tables contain, so they need induction over
numbers and over finite sets. The induction theorems of the library cannot be cited here, but the
well-foundedness of strict inclusion can: it gives a least number of a set of numbers
(`LeastNumber`), hence induction (`AllNumbers`), and induction over the subsets of a finite set
(`AllSubsets`).

* The loop: its state after each appointment has a closed form (`LoopState`: has anything
  blocked, how many take a place in the candidate's session), one appointment takes the closed
  form to the next (`LoopStateSteps`), and at the end it says what the rule says.
* Reports: the library's sum over a set unfolds one element at a time (`SumUnfolds`); from that,
  sums over disjoint sets add up, and sums over groups make the sum of the whole
  (`SumOfGroups`). Every report groups one range by some column, so one lemma
  (`GroupsArePartition`) serves all six, and a top list is the largest because what it leaves out
  counts less, row by row (`TopIsLargest`). That clients are new or returning, never neither,
  is an invariant of the requests: `ReportInv` says that a client was there before each of its
  appointments starts, in the tables and in what requests are about to write.
  `FirstVisits` and `OneInserter` say the same of a client whose first booking is not committed
  yet: one request at a time inserts it, before the start it asks for.
* The summary: each statement counts those of the clients in the range at its moment who are new,
  or those who are not, and which of the two a client is never changes. At every moment the
  clients in the range are between `kept` and `met`, so each count lies between the new (or
  returning) ones of both (`About`, `Brackets`), and the two add up.
* Revenue: it moves with at most one row, so it is enough to compare two tables that differ in one.
* Lists: a row that shares its place in the order with no other one stands at the position after
  those in front of it, in whatever order the query returns the rest (`PositionOf`).
  `StayInPlace` says that a row not shown yet has at least as many in front of it as were read,
  unless one in front was lost, and a row shown has fewer, unless one was added.
* Dates: the table of the days after a day exists and is the only one (`TableOfDays`, `TablesAgree`,
  by induction), and its days are strictly later and later (`DaysAfterLater`), so two distances
  never name one day. The local day is today or the day before it, and no date lies between the two
  (`NothingBetween`); the first day that bears a number is then linear arithmetic.

TLC checked every inductive invariant as an invariant of the run before it was proved.

Of the invariants and action properties that the runs check, each is now stated by a theorem. Some
theorems have a condition in their statement, named above: the refinement and the safety of
sessions hold of `LockedWriters`, they, the amounts and the bound on free time within
`AtMostTwoEach`, a professional is in one place under `Serial` or `OneServiceEach`. Only
model-checked: liveness under fairness (`EveryRequestEnds` of `Booking` and of `Accounts`,
`EveryTurnEnds`, `EveryNoticeIsClaimed`, `EveryChangeEnds`), which is out of this prover's reach,
and the three disagreements of section 5, which are counterexamples.

## 7. Not modelled

`PROJECT.json` lists every component with its status. Left out for good: adapters that make one
HTTP call, prompts, parsing of webhooks, schemas and formatting, signatures and passwords,
row-level security, and the routes that read one row. Left out because nothing calls or commits
them: see section 3. `parse_time` has no caller.

## 8. Plan

What is left, in this order:

1. Composition of `Inbound` with `Booking`: the tools as the requests they start, in place of the
   nondeterministic commit; and of `Edits` with `Booking`: the capacity as a variable.
2. An abstract sender that both schedulers implement, at least once and at most once.
3. A second tenant, with row-level security.

## 9. Running it

    tlc -workers 2 -config BookingClass.cfg MCBooking.tla
    tlapm BookingProofs.tla

`PROJECT.json` names the module and configuration of each run. The longest take about two
minutes; the proofs of each module take one to three.

# AutoSphere in TLA+

AutoSphere is a multi-tenant SaaS for car-rental agencies: a NestJS API over
PostgreSQL (through Prisma) and a Next.js front end. This directory holds TLA+
modules of its core logic, TLC configurations that check them on small
instances, and proofs for TLAPS.

Paths below are relative to `apps/api/src/modules` unless they begin with `apps`
or `docs`; `lib/` and `app/` are those of `apps/web/src`.

1. [How the system runs](#how-the-system-runs-and-why-it-is-hard-to-test)
2. [Inventory](#inventory)
3. [Modules](#modules)
4. [Runs, bounds and fairness](#runs-bounds-and-fairness)
5. [Proofs](#proofs)
6. [What the code does that a document denies](#what-the-code-does-that-a-document-denies)
7. [Not modelled](#not-modelled)
8. [Plan](#plan)

To check: `tlc -config X.cfg M` with the module named in the table of runs, and
`tlapm M.tla` for `BookingProofs`, `CalendarProofs`, `DepositProofs`,
`MoneyProofs`, `SubscriptionProofs`, `SessionProofs`, `BrowserProofs` and `OfficeProofs`.

## How the system runs, and why it is hard to test

Every handler of the API is an `async` method of a service. It reads rows,
decides, and writes rows; each `await this.prisma...` is a database statement
of its own, and any number of requests, of the cron job and of Stripe webhooks
interleave between two statements. `$transaction` groups writes so that they
become visible together; PostgreSQL runs it at READ COMMITTED, and no statement
of the code locks a row it reads. A value read before an `await` may therefore
be stale when it is used. The database itself keeps only what its unique indexes
say.

The browser adds its own: tabs share a local storage, a page decides what to
offer on what it loaded earlier, an answer may be lost after the write, and a
401 is answered with a refresh and a second try.

All modules share this view: a request in flight is a record that says what it
has read and what it still has to do; a read and a write are different steps;
a transaction's writes are one step. A request can fail between any two of its
statements (a business rule that is left out, an error, a restart): a step
`Abort`, `Fail`, `Break` or `HangUp` drops it.

## Inventory

For each component: the state it keeps, its operations, whom it interacts with,
what is hard about it, what makes it correct.

**Reservations, contracts, vehicle status** (`reservations`, `contracts`,
`vehicles`).
State: `reservations.status/window/vehicle`, `rental_contracts.status/window/
vehicle/reservationId` (unique), `vehicles.status`.
Operations: create and PATCH a reservation, cancel, convert it to a contract;
create, complete and cancel a contract; PATCH a vehicle; the overdue sweep, run by
cron and by `POST /reservations/overdue/sweep`.
Interaction: all three services and the sweep write the same rows; both booking
services ask `VehiclesRepository.hasOverlap`.
Hard: the overlap check and the write are different statements; PATCH changes a
status unconditionally; completion and cancellation write on the strength of an old
read; the sweep works through a list it loaded earlier.
Correct: no double booking; a reservation yields at most one contract and is
CONVERTED only with one; a RENTED vehicle has a contract that will bring it back;
closed contracts stay closed; late ones are flagged, and only those.

**Deposits** (`deposits`).
State: one row per contract with the amounts collected, refunded and consumed.
Operations: collect, refund in full or in part, consume. Hard: read, compute, write
absolute values. Correct: never pay out more than was collected; the status tells
what became of the money.

**Client invoices and payments** (`invoices`, `payments`, part of `alerts`).
State: an invoice with total, paid sum, balance and status; payment rows; the
alert that it is overdue. Operations: create an invoice, record a payment, resync
alerts, resolve one. Interaction: a payment updates the invoice in one transaction
and the alert after it. Hard: the transaction does not lock the invoice;
`upsertAlert` checks and then creates; a failure after the commit leaves the alert.
Correct: every payment counts once; status, balance and paid sum agree; at most one
open alert; none on a paid invoice.

**Sessions** (`auth`, `lib/api.ts`, `lib/session.ts`, `lib/auth-context.tsx`, `lib/impersonation.ts`).
State: refresh token rows (active, revoked, expired, replaced by), the tokens and the
tenant in the browser's local storage, the backup of an operator who has entered a
company, the user that is shown, the refresh in flight of each tab. Operations: login,
refresh, logout, deactivation of a user, expiry; enter a company, leave it. Hard: rotation is five
statements; tabs share the storage but not the single flight; answers are lost; a
refresh, a logout or a `/me` that was sent with one session is answered into the storage of
another. Correct: a
token is exchanged once; the browser holds a live token; logout is final; the operator's
session comes back whole.

**Tenant subscription** (`platform`, `billing`, `stripe`, the daily sweep).
State: `tenants.status/trialEndsAt/subscriptionEnd/deletedAt`, subscription payment
rows, `stripe_events`. Operations: suspend, activate, cancel, extend the trial or the
subscription, set the end, soft-delete, record a manual payment, handle a Stripe
event, expire. Interaction: four writers of one row; Stripe delivers an event until
it is answered. Hard: at-least-once delivery with an idempotency row written before
the effect; absolute ends computed from stale reads; two writes with no transaction.
Correct: a payment extends the subscription exactly once, on top of what is left; an
ACTIVE tenant has an end.

**Alerts and maintenance** (`alerts`, `maintenance`, `vehicles`).
State: alerts per target, maintenance schedules and records, the odometer and the
documents of a vehicle. Operations: records complete schedules, schedules are created
and cancelled, a contract that is completed writes the odometer, every write resyncs the vehicle's alerts; blockers keep an unfit vehicle
from being booked. Hard: the resync reads vehicle and schedules in different statements
and looks only at SCHEDULED schedules; check-then-create; the odometer is compared with
an old reading. Correct: after a resync the alerts say what the rows say; whatever refuses
a booking has an open alert; a maintenance record does not take the odometer back.

**Vehicle credits** (`vehicle-credits`).
State: a credit with balance and total paid, its installments. Operations: create
(amortization), record the payment of an installment, resync the alert of the next one.
Hard: absolute balances from a read outside the transaction; rounding. Correct: principal
portions add up to the principal and none but the last is negative; the balance is what the
unpaid installments hold.

**Plan limits and CRUD** (`billing/plan-limit.service.ts`, `billing/plan-definitions.ts`,
`users`, `vehicles`, `clients`, `soft-delete`, the code generators).
State: rows with unique keys that may be soft-deleted; the plan. Operations: create, delete,
restore, change a key, change the plan, draw a number. Hard: count, then create in another
service; a deleted row keeps its key in the index; the greatest number is found in the order
of text. Correct: the limit is exceeded by no more than the requests in flight; a number that
is drawn is free.

**Backup** (`backup`).
State: archives, a log with digests. Operations: dump, archive, prune, restore. Hard: parts
fail one by one, the process is killed; the log keeps a prefix of the digest that restore
compares in full. Correct: what is younger than the retention is kept, what is older goes (the
hour decides of the day in between); an
intact backup can be restored.

**Routes and guards** (`apps/api/src/common`, the controllers and DTO classes). Stateless:
middleware, JwtAuthGuard, TenantGuard, RolesGuard, ValidationPipe, in this order.

**Web pages** (`app`, `components`, `lib/resources.ts`, `lib/auth-context.tsx`).
State: the role that AuthContext shows, what a page has loaded, the request in flight.
Hard: pages, client functions, routes and DTO classes are four lists that nobody compares;
a page is stale when it is clicked. Correct: what a page offers the API accepts; one click
writes once.

**Inspections, leads, notifications, mail, dashboard, analytics, exports, uploads, PDF,
configuration, shared package, migrations, seeds, scripts.** Output, read-only aggregation,
single-row inserts, formatting, wiring.

`PROJECT.json` lists every component with its files and every hazard at its line.

## Modules

| module | what it is | code |
|---|---|---|
| `Booking` | reservations, contracts, vehicle status, the sweep | `reservations/*.ts`, `contracts/contracts.service.ts`, `vehicles/vehicles.*.ts` |
| `BookingSerial` | `Booking` under two rules of use, and the calendar it then implements | |
| `RentalCalendar` | abstract: slots that never conflict | |
| `Deposits`, `DepositRules` | deposits and their settlements | `deposits/deposits.service.ts` |
| `DepositLedger` | abstract: money collected, given back, kept | |
| `Invoicing`, `InvoicingRules` | invoices, payments, the overdue alert | `invoices`, `payments`, `alerts/alerts.service.ts` |
| `Money` | composition: a behaviour is at the desk of deposits or of invoices | |
| `Subscription`, `SubscriptionRules` | the subscription of a tenant | `platform`, `billing`, `stripe`, `reservations/overdue.sweeper.ts` |
| `AlertSync` | the statements of a resync: upsert, resolve | `alerts/alerts.service.ts` |
| `Fleet` | a vehicle, its documents, schedules, records and alerts | `maintenance`, `vehicles`, `alerts`, `contracts/contracts.service.ts` |
| `Amortization` | the schedule of a loan, a pure function | `vehicle-credits/amortization.ts` |
| `Credits` | a credit, its installments and its alert | `vehicle-credits` |
| `Numbering` | the next number from those in use, a pure function | the generators of codes and numbers |
| `Registry` | keyed rows under a plan limit | `users`, `vehicles`, `clients`, `soft-delete`, `billing/plan-limit.service.ts` |
| `Backup` | the nightly job and the restore | `backup/backup.service.ts` |
| `Office` | composition: fleet, credits, registry or backup | |
| `Sessions`, `SessionRules` | refresh tokens, tabs, logins | `auth`, `users`, `lib/api.ts`, `lib/session.ts` |
| `OneTimeToken` | abstract: a chain of tokens, one good at a time | |
| `Impersonation` | an operator enters a company and returns | `lib/impersonation.ts`, `lib/auth-context.tsx`, `lib/api.ts`, `platform`, `auth` |
| `Forms` | the fields of every DTO, required, optional, refused when empty | the DTO classes, `apps/api/src/main.ts` |
| `Routes` | every route of every controller, and the guards | the controllers, `apps/api/src/common` |
| `Client` | every function of the API client and the route it calls | `lib/resources.ts` |
| `Screens` | every page: its loads, what it offers, to whom, when, its fields | `app`, `components` |
| `Console` | a user at a page, and the API behind it | `lib/api.ts`, `lib/auth-context.tsx`, the services' status checks |
| `Browser` | composition: tabs, a visit to a company, or a page | |
| `*Proofs` | theorems: `MoneyProofs`, `BrowserProofs`, `OfficeProofs` about the compositions, `SessionProofs` about `SessionRules`, `CalendarProofs` about `BookingSerial` | |
| `MC*` | constants and symmetry sets for TLC | |

An operator beneath a comment that begins with "Mutant:" is a plausible bug; it is
used in no specification and says which property would notice that bug.

### Rules

Much of what one would like to be true of this code is true only if users or servers
do not get in each other's way: the code has no locks. A module `...Rules` says which
discipline makes which property true. It extends the component with a variable (`rule`,
`order`) that is chosen in the initial state and never changes; a step must be a step of
the component and, for a rule other than `"none"`, keep the discipline. Properties without
a condition on `rule` are claimed of whatever the code allows; those that begin with
`rule = ... =>` are claimed of the disciplined behaviours. The actions of the component
are the same in both: a rule restricts which of them interleave, never what they do. The
rules of `Office` (`FleetRule`, `CreditRule`, `RegistryRule`, `NumbersRule`) do the same for
its scenes; where a property is worth stating with and without one, there are two scenes
("credit" and "credit races", "registry" and "restorations").

Sessions have two disciplines. "turns": the tabs of a browser refresh one after the other, the server does
not fail halfway, a browser does not log in while it refreshes, and a user logs out while no browser of
theirs refreshes. "calm" adds that no answer is lost and that the user logs out of the last browser: a
logout revokes the tokens of all browsers (`auth/auth.service.ts:185`), and one that is left with a revoked
token presents it later, which counts as reuse.

`RentedMeansOut` holds if no PATCH of a vehicle sends RENTED. The form of the vehicle page
sends back the status it read, so it breaks this rule when the status changed since it was
opened.

### Composition

`Money`, `Office` and `Browser` put components that share no row into one behaviour graph.
A variable (`desk`, `scene`) chooses one of them in the initial state; the others keep one
initial value. Nothing is lost by that: components without a common row have no
interleaving that one of them alone has not. Components that do share rows (bookings and
the sweep, maintenance and alerts, credits and alerts, payments and alerts, three writers of a
subscription, pages and API) are one module or interleave freely.

### How state and actions correspond to the code

*Booking.* `reservation[r]`, `contract[c]` and `vehicle[v]` are rows ("ABSENT" before
the insert). `req[q].unread` is the set of checks a request has yet to make:
`ReadContractOf`, `ReadVehicle`, `ReadReservations` and `ReadContracts` each remove one,
or answer 409 and end the request; the two counts of `hasOverlap` run under
`Promise.all` and come in either order. `InsertReservation`, `WriteReservation`,
`InsertContract` (the transaction of three tables), `WriteCompleted` and
`WriteCancelled` are the writes. A sweep is `LoadReservations`, `SweepReservation` for
each row, `LoadContracts`, `SweepContract` for each row, `EndSweep`; its `updateMany`
repeats the status in its where clause, and that is the guard in the step. A PATCH of a
reservation that names another vehicle or client fails in Prisma (`updateMany` takes no
relation), which is an `Abort`. `PatchedStatus` is what users send in a PATCH; the DTO
accepts any status.

*Deposits.* `Collect` and `InsertDeposit` are the two statements of `collect`;
`RefundFull`, `RefundPartial` and `Consume` read the row and leave in `req[q].data` the
columns to write; `WriteSettlement` writes them to whatever the row is by then. Amounts
are whole cents, where the code has decimals as JavaScript numbers with a tolerance of
0.009.

*Invoicing.* `received[i]` is the sum of the CONFIRMED payment rows, `alerts[i]` the
number of alerts of the invoice that are not RESOLVED (ACKNOWLEDGED counts as open, as
it does in the code). `ReadInvoice` and `CommitPayment` are the two ends of the
transaction; `Decide`, `FindAlert`, `CreateAlert` and `ResolveMatching` the statements
of the resync after it. `Totals` begins with 0: a DTO takes a unit price of 0, which is what the page
starts with, and such an invoice is ISSUED with nothing to pay. The status OVERDUE of an invoice is never written:
`markOverdueIfNeeded` has no caller.

*Sessions.* `tab[w].step` walks through `performRefresh` of the browser and `refresh`
of the server: find the token, revoke all if it counts as reused, read the user, insert
the new token, look it up, revoke the old one, answer. `parent` and `login` are history:
which token a row was issued for, and with which login its chain began. `Tabs` are pairs of a
browser and a tab.

*Impersonation.* `held` is the session in the local storage, `saved` the backup of the
operator's, `context` the company that is stored, `banner` the one that is shown (it is read
when the layout is mounted), `user` whether AuthContext has a user. `EnterImpersonation` and
`ExitImpersonation` are the two swaps. Five things may be in flight: a refresh, which ends in `TakeTokens`
(`setTokens`) or `RefreshRefused`, whatever the storage holds by then; the answer of "Login as company";
a logout (`OperatorLogout`, `ServeLogout`, `FinishLogout`), which waits for nothing and whose answer clears
whatever session there is; a `/me`, whose answer shows a user and whose failure clears the session; and a
login between its tokens and its profile. A page that a logout leaves is not stopped: its answers still
arrive. A `Reload` ends all five. `LoseReply` loses the answer of a refresh or of
"Login as company"; that of a logout or of a `/me` lost is the same as one that is refused.

`disturbed` is history. It becomes true when an entry or a reload meets a refresh or a logout in flight, a return
meets a refresh, a session is cleared inside a visit or while an entry is awaited, a logout clears one while a
refresh is in flight, a login is finished although its tokens were replaced meanwhile, or the answer of a refresh
is lost.

*Subscription.* A handler leaves in `req[q].data` the columns it will write;
`WriteTenant` writes them. `MarkEventProcessed` inserts the event row. `pending` holds
the events Stripe still delivers; an answer 200 may arrive or be lost. `payments`,
`processed` and `extended` say what happened, for the properties.

*Fleet and AlertSync.* `job[q]` is a request; every writing one ends in `syncVehicleAlerts`:
`ReadVehicle`, the documents, `ReadSchedules`, the schedules. What it decides to do on the rows
it read is its agenda, a sequence of statements that `PerformSync` performs one at a time
against `open`, the open alerts by target. `Blockers` is `getBookingBlockers`, written down from
its own code and not from the resync's. `CompleteContract` and `CommitReturn` are what
`ContractsService.complete` does to the odometer, which it writes whatever the row has by then (the
contract itself is in `Booking`).

*Credits and Amortization.* `ReadCredit` and `ReadInstallment` are the reads before the
transaction, `CommitInstallment` the transaction with absolute balances. `cashed` counts what was
paid. `Amortization` computes in whole cents what the code rounds to cents.

*Registry and Numbering.* `Create` asks `ReadPlan` and `CountRows` (the limit), `FindSame` (the
uniqueness check), `InsertRow` (the unique index) in turn; each is a statement. `row[key]` is
"ABSENT", "LIVE" or "DELETED": soft deletion keeps the key. A creation with a number draws it with
`DrawNumber` and stores it with `StoreNumbered`; `NextNumber` takes the greatest text.

*Backup.* The service is synchronous: `BackupDatabase`, `BackupFiles`, `BackupLogs` and `Prune`
run one after the other, each may fail (`FailPart`), and the process may be killed (`Kill`).
A digest is a pair, of which the log has the first half. The cutoff of `prune` is an hour of a day: what is
older than the day it lies in is removed, and of that day's files any that come first (`AtLimit`, `InTurn`).
A nightly job that runs at a fixed hour usually removes the file of exactly `Retention` days ago, for the
pruning comes after the parts.

*Pages.* `Pages[p]` of `Screens` says what page `p` loads, to whom it offers which function of
`Client` and for which status of the object. `Open`, `Click`, `Serve`, `Receive` are the life of a
click; `Serve` asks `Admission` of `Routes` (guards and pipe, with `Forms`) and then the status check
of the service (`Moves`). `Expired`, `Retry` and `GiveUp` are the 401 branch of `apiFetch`;
`Elsewhere` and `ChangeRole` make the page stale.

## Runs, bounds and fairness

| run | module | checks | distinct states |
|---|---|---|---|
| `booking_concurrent` | `MCBooking` | safety of bookings in every interleaving of two requests and a sweep | 1 274 000 |
| `booking_liveness` | `MCBooking` | late contracts and reservations are dealt with | 14 000 |
| `booking_serial` | `MCBookingSerial` | no double booking, refinement of `RentalCalendar`, under the two rules | 797 000 |
| `booking_race` | `MCBooking` | violation: double booking | |
| `money_rules` | `MCMoney` | amounts within the deposit, a ledger under the rule; invoice rows, payments and alerts | 1 144 000 |
| `invoice_lost_payment` | `MCInvoicing` | violation: a payment is lost from the invoice | |
| `session_rules` | `MCBrowser` | one-time tokens under the rules; visits to a company; pages against the API | 762 000 |
| `session_two_tabs` | `MCSessions` | violation: one token is exchanged twice | |
| `subscription_rules` | `MCSubscription` | no double extension; an end for ACTIVE; exactly one extension under the rule | 1 063 000 |
| `subscription_lost_event` | `MCSubscription` | violation: a recorded event that is never processed | |
| `office_rules` | `MCOffice` | alerts, the odometer, credits, limits, numbers, backups | 1 123 000 |
| `backup_refuses_intact` | `Backup` | violation: a restore of an intact backup is refused | |

What they show:

- `booking_concurrent`: `TypeOK`; `OneContractPerReservation` (the unique index holds
  it against any number of racing conversions); `ConvertedHasContract` and
  `RentedMeansOut` (stale writes of complete, cancel, PATCH and the sweep included);
  `OverdueIsLate`; `ClosedStaysClosed`.
- `booking_liveness`: `LateContractFlagged` and `LateReservationReleased`.
- `booking_serial`: `NoDoubleBooking`; `ChecksHold` (an overlap check that passed stays
  true until the write); `ImplementsCalendar`. The two rules are: no two requests that
  book one vehicle are in flight together, and no PATCH sets a released reservation back
  to PENDING or CONFIRMED without its dates, which is what skips the check.
- `money_rules`: `MoneyTypeOK`. Deposits: `EachWithinDeposit` however settlements race;
  `NeverOverdrawn`, `StatusTellsLedger` and `ImplementsLedger` when settlements of one deposit
  follow one another. Invoices: `RowsTellPayments` (status, balance and paid sum agree, with PAID
  only where something was paid, and never claim more than was received) however payments race; `EveryPaymentCounts` if the row were locked
  from read to commit; `OneOpenAlert` and `PaidIsQuiet` if one request at a time synchronises an
  alert and is not cut short.
- `session_rules`: `BrowserTypeOK`. Tabs: `LogoutIsFinal` and `ImplementsOneTimeToken` under "turns"
  (answers may still be lost); `StoreIsLive` under "calm". Visits: `SwapIsWhole`: the browser is
  the company's administrator with the operator's session to return to, or the operator, and its tokens are
  those the server accepts, until a step is `Disturbed`. Refreshes, logouts, logins and answers are in every order;
  what a disturbed step leads to is among the further behaviours below. Pages:
  `OfferedIsAccepted`, what a page offers is refused only for the reasons `Explained` lists one by one
  (each is a place where page and API disagree, see below); `OneWritePerClick`, no order of retries,
  second clicks and lost answers serves twice what one click asked for.
- `subscription_rules`: `TypeOK`; `NeverExtendedTwice` and `ActiveHasEnd` in every interleaving and
  failure; `EveryPaymentExtends` and `AddsToWhatIsLeft` when requests on one tenant follow
  one another and do not fail between two writes.
- `office_rules`: `TypeOK`; `AlertsTellTruth` (after a resync the alerts say what the rows said that it
  read) and `RefusalIsExplained` (what refuses a booking has an alert) when resyncs of a vehicle do not
  overlap and are not cut short; `OdometerKept` when the odometer has one writer: only a PATCH or the completion of a
  contract takes it back, a record does not; `CreditAddsUp` (the
  installments repay exactly what is financed, and only the last can take a negative part; if it does not,
  a credit never owes less than its unpaid installments, however payments race, and exactly that when
  they do not); `OvershootBounded` (racing creations exceed a
  limit by at most one row for each further request); `NumbersAreFresh` until a number outgrows its
  digits, when a number is stored before the next is drawn; `RetentionHolds`, whichever part of a backup
  fails or is killed: nothing goes before the day the retention ends, and a full backup leaves nothing older.

### Bounds and why they are enough

- Two requests in flight: the races of this code are between one read and one other write,
  so two suffice to show each; the invoices of `money_rules` have three, for a payment, a resync and
  a further payment. Behaviours are not bounded in length: a request slot is used again and
  again.
- `booking_concurrent`: one vehicle and one reservation with two contracts, so that two
  conversions compete; days 0..2 for bookings within 0..1, so that a booking ends, is late,
  and is swept. `booking_serial`: two reservations and a contract on one vehicle, days 0..2
  for windows that overlap, touch and contain each other; on day 2 the first of them is late,
  and the sweep releases it while other requests book. `PatchedStatus` is a
  confirmation and, in `booking_concurrent`, a cancellation, what users send.
- `money_rules`: two contracts, deposits up to 3 cents: partial refunds and consumptions in every
  split, with and without a remainder. One invoice, totals from 0 and payments up to 2, up to 3 received:
  nothing to pay, exact payment, in parts, overpaid.
- `session_rules`: two browsers, one with two tabs and one with one: tabs that share a storage, and a
  logout that ends a session elsewhere. Three token rows: a login and two refreshes, or two logins and a
  refresh; four take several times as long and show nothing more. A visit: two companies, so
  that one is entered from the other, and four tokens (`MaxTokens`): two logins, an entry and a
  refresh, or two refreshes. A page: one company and one object; the role changes once per login; the loads of a page
  are answered in one step with a fresh token.
- Subscriptions: one tenant, one event, one manual payment, periods of one day, ends up to
  day 2, the clock up to 1, so that trials and subscriptions lapse.
- `office_rules`: one schedule and one document, dates 1 and 2 with a warning window of a day on days
  0 and 1: far, soon, due and late. Loans of 23 and of 2 cents over one and four months at 0 and
  10 %: no interest, interest, a last installment that takes up the rounding, is nothing or is negative. Three keys against a limit of
  one row and of none. Numbers to base 2 with two digits, so that the fifth outgrows them. Two nights
  with a retention of one day.
- Symmetry is used for interchangeable ids in runs of safety properties and of refinements,
  never in the liveness run.

`CHECK_DEADLOCK FALSE` is said where the bounds end a behaviour (no ids, amounts, tokens or nights are
left).

### Fairness

Only `Booking` has liveness properties. `FairSpec` assumes that the cron job goes on with its
steps (`WF` of `SweepStep`: Nest's scheduler starts it every day and its loop waits for nothing
but the database), and that from some day on no sweep is cut short: an exception in one part of
`runDaily` skips the rest, and if that happened on every run nothing would ever be flagged.
Nothing is assumed of users, of requests or of the clock. Elsewhere nothing runs until a user,
Stripe or a browser asks for it, and none of them can be counted on.

## Proofs

`tlapm` proves the following for any number of rows, requests, sweeps, tokens, companies and events, and
all bounds. The assumptions are those the modules name:

- `BookingAssumption`, `DepositAssumption`, `InvoicingAssumption`, `SubscriptionAssumption`: bounds are
  natural numbers, periods are positive, the statuses users send are statuses, `None` (`NoInvoice`) is
  none of the values;
- `FiniteAssumption`: finitely many requests are in flight and finitely many events exist, for the
  proofs that count them;
- `SessionsAssumption`: `None` is no token, and a tab is one of a browser;
- `CompaniesAssumption`: "nobody", "operator" and "served" name no company;
- `FleetAssumption`: a vehicle has finitely many documents and schedules, dates are integers, and `None` is
  neither a date nor a type;
- `OfficeAssumption`: amounts are whole cents, a credit finances something
  (`vehicle-credits/vehicle-credits.service.ts:63` answers 400 if not) over at least one installment, a rate
  is a fraction, a limit is a number of rows or none, numbers have a base of at least two.

`BookingProofs` (of `Booking!Spec`):

| theorem | says | rests on |
|---|---|---|
| `TypeCorrect` | `[]TypeOK` | is inductive; one lemma per group of actions |
| `OneContract` | `[]OneContractPerReservation` | only `InsertContract` gives a contract its reservation, and only when no other has it |
| `ClosedIsFinal` | `ClosedStaysClosed` | what each step can do to a contract's row (`RowSteps`) |
| `RentedIsOut` | `[]RentedMeansOut` | a vehicle becomes RENTED only with a new ACTIVE contract; a contract leaves the live statuses only in a step that makes its vehicle AVAILABLE |
| `ConvertedIsContracted` | `[]ConvertedHasContract` | a new contract is inserted under an id that named no reservation (`UnusedIds`) |
| `FlaggedIsLate` | `[]OverdueIsLate` | what a sweep has loaded is late (`SweptIsLate`) and stays so, for windows of contracts do not change and days only pass |

Lemmas reduce the many actions to what they do to a row (`RowSteps`, `ContractSteps`: insert, close,
sweep, or leave alone) and to a request (`CallSteps`: begin, go on, end), and the theorems argue over
those few cases. `Filled` says that rows that exist have their columns and requests their arguments.

`CalendarProofs` (of `BookingSerial!SerialSpec`):

| theorem | says |
|---|---|
| `NothingMissed` | `[]ChecksHold` |
| `NeverDoubleBooked` | `[]NoDoubleBooking` |
| `TablesAreACalendar` | `ImplementsCalendar` |

`NoDoubleBooking` is not inductive: that the row about to be written overlaps no other was found out some
steps ago. `ChecksHold` says so of every request that has made a check, and it is kept because a row that
comes to hold the request's vehicle is written by another booking of that vehicle, of which there is none
(`OneBookingPerVehicle`). `BookingSteps` reduces every step to one of three: it brings nothing into the
calendar (which is where `NoReopening` is needed), it writes a reservation whose checks were made, or a
contract whose checks were made. For the refinement each step is shown to lose at most one slot and to gain
at most one that fits what remains (`CalendarStep`).

`DepositProofs` (of `DepositRules!RuledSpec`):

| theorem | says | rests on |
|---|---|---|
| `TypeCorrect` | `[]TypeOK` | `RaceInv` |
| `WithinDeposit` | `[]EachWithinDeposit` | `RaceInv` |
| `NotOverdrawn` | `[]NeverOverdrawn` | `RaceInv`, `SerialInv` |
| `StatusTells` | `[]StatusTellsLedger` | `RaceInv`, `SerialInv`, `ToldInv` |
| `IsLedger` | `ImplementsLedger` | `RaceInv`, `SerialInv` |

`EachWithinDeposit` is not inductive: it says nothing of what the requests in flight are about
to write. `RaceInv` adds that whatever a request will write is within the deposit it read, and
that the amount of a deposit never changes once it is there. `NeverOverdrawn` needs more:
under the rule, what a request in flight will write still moves some of what remains *now*
(`SerialInv`), because no other request that settles this deposit can have written in between.
`StatusTellsLedger` needs the same of the status: `ToldInv` adds that the row a settlement in flight will leave
agrees with itself too, because it was computed from a row that did (`SettlementTold`).
With that, each write is one step of the ledger (`WriteSettles`), each insert a collection
(`InsertCollects`), and every other step a stutter.

`MoneyProofs` (of `InvoicingSpec`, `RuledInvoicingSpec` and `MoneySpec`):

| theorem | says | rests on |
|---|---|---|
| `InvoicingTyped` | `[]InvoicingTypeOK` | `PaymentInv` |
| `RowsAlwaysTell` | `[]RowsTellPayments` | `PaymentInv`: what a payment has read is at most what was received since |
| `LockedPaymentsCount` | `[]EveryPaymentCounts` | `LockedInv`: what a payment has read is what the row still says |
| `SyncedOneAlert` | `[]OneOpenAlert` | `SyncedInv`: an alert is about to be created only where there is none |
| `SyncedPaidIsQuiet` | `[]PaidIsQuiet` | `SyncedInv`: a paid invoice with an alert has a request that will resolve it |
| `DesksApart` | `MoneySpec => RuledSpec /\ RuledInvoicingSpec` | a step at one desk leaves the variables of the other alone |
| `MoneyTyped` | `[]MoneyTypeOK` | `DesksApart` |
| `MoneyKept` | the other nine properties of the run, `ImplementsLedger` among them, of `MoneySpec` | `DesksApart` |

`SubscriptionProofs` (of `SubscriptionRules!RuledSpec`):

| theorem | says | rests on |
|---|---|---|
| `SubscriptionTyped` | `[]TypeOK` | `SubInv` |
| `ActiveAlwaysEnds` | `[]ActiveHasEnd` | `SubInv`: whatever a request will write gives an end with the status ACTIVE, or finds one |
| `NotExtendedTwice` | `[]NeverExtendedTwice` | `Balanced` |
| `EveryPaymentCounted` | `[]EveryPaymentExtends` | `Balanced` |
| `AddsToLeft` | `AddsToWhatIsLeft` | `SerialInv`: what is in flight counts on from the end its tenant still has |

`Balanced` counts: the payments recorded are those written and those that requests in flight still owe
(`Owed`), at least; under the rule, exactly.

`SessionProofs` (of `SessionRules!RuledSpec`):

| theorem | says | rests on |
|---|---|---|
| `SessionsTyped` | `[]TypeOK` | `RaceInv`: what a refresh has found and issued are rows of the table |
| `LogoutFinal` | `[]LogoutIsFinal` | `TurnsInv` |
| `StoreLive` | `[]StoreIsLive` | `TurnsInv`, `CalmInv`: the active token of a login is the one its browser holds or is about to get |
| `IsOneTimeToken` | `ImplementsOneTimeToken` | `TurnsInv`, `RefusalInv` |

`LogoutIsFinal` is not inductive: a refresh that has passed its check inserts its token whatever happened to
the old one since. `TurnsInv` says of a refresh before its insert that the token it found is still the only one
its login has, and after it that the new one is issued for it. `RefusalInv` says that a refresh that was refused has
issued nothing, so that the chain ends where it was. Every step then either issues a token of the chain (`IssueChain`),
begins one (`LoginChain`) or only ends some (`RefreshEnds`, `OtherEnds`).

`BrowserProofs` (of `SwapSpec` and `BrowserSpec`):

| theorem | says | rests on |
|---|---|---|
| `SwapTyped`, `SwapIsWholeAlways` | `[]ImpersonationTypeOK`, `[]SwapIsWhole` | `SwapInv` |
| `ScenesApart` | `BrowserSpec => RuledSpec /\ SwapSpec` | a step of one scene leaves the variables of the others alone |
| `OncePerClick` | `[]OneWritePerClick` | `ConsoleInv`, and what `PagesWait` says of the pages |
| `BrowserTyped` | `[]BrowserTypeOK` | `ScenesApart`, `ConsoleInv` |
| `BrowserKept` | `StoreIsLive`, `LogoutIsFinal`, `SwapIsWhole`, `ImplementsOneTimeToken` of `BrowserSpec` | `ScenesApart` |

`SwapIsWhole` is not inductive: it does not say whose token an answer on its way brings.
`Undisrupted` adds that a company's session on its way is the company's, that a refresh brings a token of
whose session the storage should hold (`Host`), that only a logout in flight takes back the token that is used
next (`TokensAreValid`), that no logout of the operator is in flight inside a visit, and that the backup is the
operator's and valid. The four ways of clearing a session are one lemma (`SignedOut`). The theorem says nothing of
what follows a `Disturbed` step. `OneWritePerClick` rests on the
pages: `PagesWait` goes through every page of `Screens` and finds no control for a one-shot request that stays
enabled while the request is in flight, and `CallKept` that a request is sent again only if it was answered 401,
before it was served.

`OfficeProofs` (of `OfficeSpec`):

| theorem | says | rests on |
|---|---|---|
| `OfficeTyped` | `[]TypeOK` | the five invariants below |
| `AlertsTrue` | `[]AlertsTellTruth` | `FleetInv` |
| `RefusalsExplained` | `[]RefusalIsExplained` | `FleetInv` |
| `OdometerHolds` | `OdometerKept` | `FleetInv` |
| `CreditsAddUp` | `[]CreditAddsUp` | `CreditInv`, `ScheduleSound` |
| `OvershootHolds` | `[]OvershootBounded` | `RegistryInv`, `QuotaInv` |
| `NumbersFresh` | `[]NumbersAreFresh` | `RegistryInv`, `NumbersInv` |
| `RetentionKept` | `[]RetentionHolds` | `BackupInv` |

- `FleetInv` says of a resync in flight, for every target, that either the alert already is as the rows it read
  demand or the statement that makes it so is still on the agenda (`SyncStep`, `ErrandDone`); only one
  resync runs, so nobody undoes it.
- `QuotaInv` adds up: the live rows and the requests that found room and have not inserted yet are together
  fewer than the limit and the number of requests. A step that lets a request in finds the rows below the
  limit and that request not among those let in (`RoomKept`).
- `NumbersInv`: as long as no number has outgrown its digits the numbers in use are `1..k`, so the greatest text
  is that of `k`. That padded texts are in the order of their numbers (`PaddedOrder`) is proved from the digits
  (`DigitsOrder`); only then is the text of `k` the last (`LastText`).
- `CreditInv`: the balance a payment has read is no less than what is left to repay, its own installment
  included once that was found unpaid; without races it is exactly that. What a set of installments repays
  (`Repaid`) is a fold over a set: `TotalAdd` shows that the order in which it takes them does not matter.
- `ScheduleSound`, of `AmortizationSchedule` for every amount, rate and term: the payment is no less than the first
  interest (`PaymentCovers`, by `PowerOrder` and `RoundedScale`), so the balance never grows before the last
  installment, so the interest never does, and the portions up to the `i`-th add up to what the balance has lost.
- `BackupInv`: an archive that is missing is at least as old as the retention, and after a full backup none that
  is stored is older.

Induction over data has no rule here that the provers can apply with an operator as parameter. These proofs take
the least counterexample instead: `LeastNumber` (from the well-foundedness of finite subsets) for numbers, and
`SmallestSet` for finite sets. `Induction` then is a lemma about a *set* of numbers, and a recursive function is
first shown to exist (`DigitsExist`, `PowersExist`, `RowsExist`, `RepaysExist`) and not to depend on its domain
(`DigitsAgree`, `PowersAgree`, `RepaysAgree`).

Only model-checked: `OfferedIsAccepted`, which evaluates `Admission` of some hundred routes and forms for every control of every page,
a table that a run goes through and a proof could only repeat; and liveness, because the prover does not treat
fairness and ENABLED.

## What the code does that a document denies

| run | document | code |
|---|---|---|
| `booking_race` | `PRD.md`: "Prevent double booking" | the overlap check and the insert are separate statements with no lock: both of two requests pass |
| `invoice_lost_payment` | `docs/USE-CASES.md`: "Full payment marks invoice PAID" | two payments read one paid sum, the second overwrites the first |
| `session_two_tabs` | `README.md`: "rotates refresh token (one-time-use)" | two tabs exchange the token in the shared storage at once |
| `subscription_lost_event` | `schema.prisma`: the row means "this event was already processed" | the row is written before the effect; a failure in between loses the payment |
| `backup_refuses_intact` | `backup/backup.service.ts:254`: "Verify integrity" | the log has 16 of the 64 characters of the digest that restore compares: every backup that succeeded is refused |

Further behaviours the models have, for which no run is kept.

Bookings, money, subscriptions:

- a cancelled reservation whose window was booked by somebody else can be set to CONFIRMED by a
  PATCH with a status alone;
- a PATCH that read a reservation before its conversion overwrites CONVERTED afterwards (the
  contract remains, and no second one can be made);
- a completion that read an ACTIVE contract overwrites a cancellation made since;
- two settlements of one deposit that race pay out twice, or one replaces the other;
- two resyncs leave two open alerts, or one that was decided before a payment and created after it;
- a refresh that has passed its check inserts its new token after a logout revoked all;
- a logout at one device revokes the token that another still holds; its next refresh counts as reuse and ends
  the session begun since at the first;
- an invoice of total 0 is ISSUED, never PAID without a payment, and raises an alert when its due date passes;
- an extension of a tenant in trial leaves it in TRIAL, and the sweep expires it with paid days left;
- a Stripe payment sets a deleted or CANCELLED tenant to ACTIVE.

Back office:

- the completion of a contract takes back an odometer that a record or a PATCH raised meanwhile, for its
  reading is compared with that of the start only (`contracts/contracts.service.ts:190`), and resyncs nothing;
- a record completes every schedule of its type, due or not (`maintenance/maintenance.service.ts:94`);
- the alert of a schedule that was completed or cancelled stays open, for the resync that follows looks only
  at SCHEDULED ones (`:113`), and that of a credit that was paid off, for its resync returns early
  (`alerts/alerts.service.ts:365`);
- the registration of a deleted vehicle used again answers 500 and not the 409 of `docs/USE-CASES.md:36`: the
  service looks among live rows, the unique index has all;
- a user or vehicle is restored without asking for the limit;
- `findByEmail` compares the address as typed with one stored in lower case;
- `amortization.spec.ts` says installments are "one calendar month apart"; `setUTCMonth` carries the 31st of a
  month over to the month after the next;
- the last installment of a credit with few cents for each is negative, for the payment is rounded up: 50 cents over
  100 months end with -49 (the balance that is shown is cut off at 0 by `Math.max`);
- a dump that fails halfway is logged as a success, for the shell reports the status of `gzip`.

Browser:

- an operator's page polls routes that need a company, is answered 401 and refreshes at each poll;
- `AuthContext` keeps the user it has when a company is entered, the banner is read only when the layout is
  mounted, and an operator who returns keeps the tenant header of the company;
- a company's session that is answered after the operator has logged out is entered, with no operator session
  to return to, or with the one saved before;
- a refresh that is answered after a logout stores tokens that the logout may have revoked, and a `/me` that is
  answered then shows the user as signed in;
- the answer of a logout clears the session of the company that was entered since, whose context and backup stay;
- any failure of `/auth/me` clears the session, not only a 401 (`lib/auth-context.tsx:72`);
- contracts that are OVERDUE are offered for completion, which answers 409;
- forms and buttons that are shown to every role although the API refuses some of them (`ForEveryRole`), and
  pages in the sidebar of every role whose loads the API refuses to some (`Unreadable`);
- forms whose optional inputs send an empty text that the DTO refuses: the date of the demo request, the link to
  the logo and the billing address of a company, login and registration without the browser's own validation;
- the contact form reports success whatever the answer;
- the vehicle form sends back the status it read.

## Not modelled

Amounts of contracts and invoices beyond what payments do to them, taxes, kilometres of contracts but for the odometer at the return, signatures;
texts, mail, notifications and analytics (output that no other state depends on); read-only queries, lists and
their filters; PDF layout; file contents; the hashing of passwords; the throttler and the subdomain; filters,
interceptors, configuration and health; the length and the range of the values of a form; Stripe checkout and
customer ids (the model has one subscription per tenant); soft deletion of invoices; the blacklist of clients; the
shared package (types and constants); scripts, migrations and seeds. The models of one component are of one
tenant's rows: the where clauses that carry `tenantId` are that tenant. Number and code collisions of bookings,
invoices and payments appear as failures of an insert; the numbers themselves are in `Numbering`.

## Plan

Done, in this order: `Booking` with its calendar and proofs; `Deposits` with ledger and proofs; `Invoicing`;
`Sessions`; `Subscription`; `Fleet`, `Credits`, `Registry`, `Numbering`, `Backup` in `Office`; `Routes`, `Forms`,
`Client`, `Screens` and `Console`; `Impersonation`; the proofs of invoicing, subscriptions, visits and the calendar;
those of sessions, of the back office and of the three compositions.

Next:

1. `OfferedIsAccepted` for pages whose lists are constants, so that it says something of every page with given
   requests instead of evaluating a table.
2. Stripe subscriptions with ids, so that a late deletion of an old one meets the payment of a new one; the
   customers that two checkouts create.
3. Liveness of Stripe's deliveries under the rule that no delivery fails halfway.

# Formal models of Innovation RH Connect

Innovation RH Connect is a NestJS API (`src/apps/api`) and a Next.js client
(`src/apps/web`) for human resources: people, time records, payroll,
recruitment, and the billing of the companies that use it. This directory
holds TLA+ models of the parts of the API that move money, decide whether a
company may use the system, and close a month of payroll or spend the days of a
vacation, the TLC runs that check them and the TLAPS proofs of their theorems.
File names below are relative to `src/apps/api/src/modules/finance/` unless they
say otherwise.

How to run, from this directory:

    tlasany M.tla                       parse a module
    tlc -config X.cfg M.tla             one run (PROJECT.json names X and M)
    tlapm M.tla                         the proofs: RefundProofs, PaymentEventsProofs,
                                        MercadoPagoProofs, InvoiceChargeProofs, LeaseProofs,
                                        PayrollMonthProofs, VacationProofs, SumTheorems

`PROJECT.json` lists the components, the runs, the source lines of every
definition ("map"), the hazards, the findings and the theorems. A definition
whose comment starts with "Slip:" is no part of a specification: it is a
plausible wrong version of the definition below it, which makes the named
property fail when it takes that definition's place ("mutants").

## 1. Inventory

### Components with a protocol of their own

| Component | State it keeps | Operations | Hard behaviour | What makes it correct |
|---|---|---|---|---|
| Refunds (`payment-refund.service.ts`) | `PaymentRefund` rows, `refundedAmount`/`refundStatus` of the invoice, settled listeners in memory | `request`, `reconcile`, `failReservation`, five-minute routine | reserve, post to the provider, settle later; answers lost, processes die, lists of refunds read before the lock; Asaas may not echo the description | no refund posted twice, none beyond the payment, closed only by its own money, a full refund suspends, everything settles |
| Refund tickets (`../support/support-refund.*.ts`) | `SupportTicket` with refund fields and two approvals | `createRequest`, `approve`, `reject`, `dispatch`, listener `settle` | two approvers at once, claim by conditional update, the refund settles before the ticket knows its operation | two people above the threshold, the ticket tells what happened to the money, no ticket forgotten |
| Asaas webhooks (`asaas-webhook.controller.ts`, `asaas-webhook.processor.ts`) | `AsaasWebhookEvent` rows, Bull queue | store, queue, claim, handle, retry | events late, twice, out of order; a handler of many awaits | paid stays paid, disputed stays cancelled, removed stays removed |
| Access (`payment-access.ts`, `dunning.ts`) | status, reason of the block and billing status of the company | `companyDataAfterPayment`, dunning stages | who blocked decides who may release; other debts are counted at another moment than they are used | the last payment releases, no earlier one does, a person's block stays |
| Reconciliation (`payment-reconciliation.service.ts`) | reads invoices and charges, writes `reconcile:` events | daily comparison and repair | outside of the queue, beside workers; webhooks lost | a paid charge is recognised |
| Billing routines (`billing-cron.service.ts`) | companies, invoices, contracts | overdue invoices, trials, contracts, reminders, plan changes | works from a list read at its start | blocks only who owes |
| Lock of the routines (`../../common/redis/cron-lock.decorator.ts`) | a key with a lease | acquire, release on failure, retry | no owner, expiry while the run goes on, fallback to memory | one run at a time |
| Invoices (`platform-finance.service.ts`, `faturas-acoes.service.ts`, `signup-charges.ts`, `idempotency.ts`) | invoice rows, subscriptions, idempotency keys | reserve, create charge, link, cancel | answer of the creation lost after the row was reserved | one charge for one debt |
| Mercado Pago (`mercadopago-*.ts`) | the same invoices and companies, `mpPaymentId` | notice, search, apply, synchronise, remove | nothing is stored; several attempts to pay one invoice; notice, routine and buttons work on rows read before | paid stays paid, counted once, recognised without a notice |
| Fiscal notes (`asaas-fiscal.service.ts`, `fiscal-adjustments.service.ts`) | `asaasInvoiceId` and `invoiceStatus` of the invoice | `ensureForInvoice`, `persist`, `handleRefund`, daily routine, buttons | payment, routine, person and refund meet on one row; answers lost, holders of the claim die, late events of notes | one living note for an invoice, a stuck claim is taken over |
| Time closing, payroll (`../time-track/time-closing.service.ts`, `../payroll/`) | closings, snapshots of the payroll | close, reopen, calculate | punches and adjustments beside a closing | a closed month does not change |
| Vacations (`../vacations/`) | the ledger of a period, vacations | request, decide | checks before the transaction, two decisions at once | days are spent once and never beyond the right |
| Sessions (`../auth/`) | refresh tokens, families | login, rotate, revoke | two tabs rotate one token | a used token is worth nothing |

Everything else (people, documents, recruitment, notifications, analytics, the
client) is record keeping by one actor at a time, I/O or display. `PROJECT.json`
lists each of these parts with the reason it is left out; section 7 has the
larger ones.

### How they interact

    support ticket --request()--> refund service --POST/GET--> Asaas, Mercado Pago
          ^                            |    ^
          +------ settled events ------+    | refund events, five-minute routine
                                            |
    Asaas --webhook--> stored event --queue--> processor --+--> PlatformInvoice
                                                           +--> Company (access)
    daily reconciliation --reconcile: event--> processor --+        ^
    dunning routine ------------------------------------------------+
    people (platform administration) -------------------------------+

    payment, routine, people --claim, schedule--> note of the invoice (Asaas) --events--> row
    refund service --handleRefund--> cancellation of the note
    requests, end of a trial --post/link--> Asaas, Mercado Pago <--search-- routine
    accountant, HR --> AccountingPeriod, TimeClosing, Payroll <-- punches (lock of the month)
    every routine runs behind @CronLock

The financial parts share the rows `PlatformInvoice` and `Company`. Only the refund
service takes a row lock (`SELECT ... FOR UPDATE` on the invoice); the others
read a row, wait for other answers, and write it by id. That is why each
`await` between a read and a write is a step of its own in the models.

### Hazards

`PROJECT.json` lists the hazards line by line. The groups: lost answers of the
provider, repeated and out-of-order events, reads that are stale when they are
used (reconcile's list, the row of an event's handler, the ticket's amount,
the dunning list, the lock of a month), processes that die between two commits,
loops of single writes without a transaction, two actors that decide one
record, locks that expire, and outcomes that live in memory only.

## 2. Plan

Order: first the money (refunds), then what people see of it (tickets), then
the events that decide access, then the creation of invoices, the lock behind
the routines, and the two parts outside of finance in which several people and
loops of writes meet.

| Module | Models | Instances | Proofs |
|---|---|---|---|
| `RefundLedger` | abstract: what the refunds of an invoice amount to | | `RefundProofs` |
| `PaymentRefund` | the refund service, its database and its provider | `MCPaymentRefund` | `RefundProofs` |
| `SupportRefund` | refund tickets, composed with `PaymentRefund` | `MCSupportRefund` | `RefundProofs` |
| `PaymentEvents` | Asaas events, access, Asaas reconciliation, dunning | `MCPaymentEvents` | `PaymentEventsProofs` |
| `MercadoPagoSync` | Mercado Pago's payments, the routine and the buttons | `MCMercadoPagoSync` | `MercadoPagoProofs` |
| `InvoiceCharge` | one debt, its invoice rows, its charges and links | `MCInvoiceCharge` | `InvoiceChargeProofs` |
| `FiscalNote` | the fiscal note of an invoice and the claim behind it | (its own `.cfg` files) | `LeaseProofs` |
| `CronLock` | the lease behind the routines | `MCCronLock` | `LeaseProofs` |
| `Competence` | abstract: what a month of payroll promises | | |
| `PayrollMonth` | period, closings, payrolls and the point | `MCPayrollMonth` | `PayrollMonthProofs` |
| `VacationLedger` | vacations of a period and the ledger of days | `MCVacationLedger` | `VacationProofs` |

`SumTheorems` holds the facts about sums over finite sets that the proofs of
refunds and vacations rest on.

The plan is carried out, except for the rotation of sessions: what it promises
is a security property, which these models do not state.

## 3. Modules

### RefundLedger: the abstract specification

A key holds a part of an invoice's balance; the part is paid out or given back,
once; one part of an invoice is held at a time and what is held or paid never
exceeds the payment. It knows neither provider nor service.

### PaymentRefund

An operation is its request key (`requestKey` is unique and begins with the
invoice's id, so a key belongs to one invoice).

| Variable | In the code |
|---|---|
| `invoice` | `PlatformInvoice.status`, `refundedAmount`, `refundStatus` |
| `op` | `PaymentRefund` row: `status`, `amount`, `providerRefundId` (`ref`), `createdAt` (`age`: 0 fresh, 1 over ten minutes, 2 over a day), whether it was handed to a person (`review`) |
| `company` | whether the company may use the system |
| `remote` | the refund as the provider holds it |
| `pc` | where `request()` stands for the key |
| `snap` | the list and the total `reconcile()` has read and not yet applied |
| `events` | settled events not yet handed to the listeners |
| `posts` | history: how many times the key was posted |

| Action | In the code |
|---|---|
| `Request` | `request()` up to the commit of the reservation: repeated key, or `Reserve` under the row lock |
| `Post`, `Accepted`, `Refused`, `AnswerLost`, `LatePost` | the post and its three outcomes; a lost post may still arrive |
| `PersistAnswer` | the unconditional update to PENDING |
| `MarkUnknown` | the `catch` for timeouts and 5xx |
| `FailReservation` | definitive refusal: `failReservation()` |
| `ReadRemote`, `ReadFails` | the provider's list, read outside of the transaction |
| `CommitReconcile` | the transaction of `reconcile()`: match by id or description, by value, give-up, review, status of the invoice, suspension |
| `EmitSettled`, `AfterEmit`, `Answer`, `TakeAnswer` | listeners, the result of `request()` |
| `ProviderSettles`, `PanelRefund` | the provider decides, or someone refunds in its panel |
| `Crash`, `CrashWhilePosting` | a process dies, its memory is gone |
| `Age` | time passes |
| `Chargeback`, `Reactivate` | what the other components do to the rows meanwhile |

Assumptions about the world, each a constant or a guard:

- `Tagged`: the keys whose description Asaas returns in its list. The code says
  itself that this is not always so ("O Asaas nem sempre devolve a descrição").
- `ProviderGuards`: whether the provider refuses what exceeds the payment. The
  safety runs set it to FALSE: the service must not rely on it.
- `ReadRefusals`: whether a read of the provider can fail with a 4xx, which
  `request()` would take for a refusal of the post.
- `Age` waits for posts, requests and lists under way. The calls have timeouts of
  seconds; the two limits in the code are ten minutes and a day. Without this
  assumption a post could arrive after its operation was given up, which the
  code cannot exclude and does not try to.

Left out: adjustments recorded before the table `PaymentRefund` existed, the
checks that a provider is configured, which 40 invoices the routine picks, the
fiscal note that follows a refund (`FiscalNote` has it), audit rows.

### SupportRefund

Extends `PaymentRefund`: a ticket asks for the refund of its own key
(`support:<ticket>`). `ReadBalance` and `CreateTicket` are the two halves of
`createRequest()`; `LoadTicket` and `Approve` (`OnlyApproval`, `FirstApproval`,
`SecondApproval`) those of `approve()`, whose conditional `updateMany` is
`Claims`. A `dispatch` goes through `Announce` (history and notice),
`DispatchRequest` (calls `Request` of the refund service), `RequestReturns` or
`RequestRefused`, `Link` and `SettleDispatch`. `HandleSettled` is the listener
and takes the place of `EmitSettled`; every other action of `PaymentRefund` runs
unchanged beside it. `CrashTogether` lets a request and its dispatch, which are
one process, die together. Of `support-refund.policy.ts` the amount that is
available inside the refund window is kept; outside the window it only refuses
more.

### PaymentEvents

One company, its invoices and their charges at Asaas. Asaas emits an event when
a charge changes (`ChargeChanges`, `ChargebackReversed`); `Deliver` may come
late, twice or never. A handler is a process whose `run` record holds what it
has read: `ReadInvoice`, `AskProof` (asks Asaas about a late payment of a
cancelled invoice), `ReadCompany`, `CountDebts`, `Write` (one transaction over
invoice and company), `ReadCoupon`, `WriteCoupon`, `Finish`; `Fail` and `Die`
end it early. The reconciliation lists an invoice (`List`), asks for its charge
(`AskCharge`), stores and claims its own event (`ClaimRepair`) and then runs the
same handler in its own process. `NewDay`, `DunningReads` and `DunningWrites`
are the dunning routine; `PersonDecides` blocks and releases by hand.

- `Overlap = FALSE`: one handler, routine or person at a time. It is the usual
  case (one Bull worker with concurrency 1, daily routines of seconds), and the
  properties about *order* hold in it. `Overlap = TRUE` lets them interleave at
  every await: `RemovedStaysClosed` and `PaidChargeIsRecognised` are checked so,
  `PaidNeverReopens` and `CouponCountsPayments` do not survive it (findings 4
  and 27).
- `Reserved`: invoices whose row the platform created before the charge.
- `Watched`: the invoices within the reconciliation's window of days.

Left out: events CREATED, UPDATED and RESTORED whose payload carries another
status than PENDING (paid, overdue, deleted, refunded or none: the other branches
of `resolveStatus()`), so that a charge is restored only before it is due, and an
updated one can still be paid; proposals and sign-up charges, fiscal note events
(`FiscalNote`), notifications, differences of value, the queue's own retry of
repair events. Storing and queueing an event are one step, and the jobs of one
event are one job. Linking reserved rows without a charge is in `InvoiceCharge`,
the Mercado Pago half of the reconciliation in `MercadoPagoSync`.

### MercadoPagoSync

One company. An invoice has one link and as many attempts to pay it as the
customer makes (`tries`, in the order Mercado Pago has them); a subscription is
charged without a link. Nothing is stored or queued: a notice only names a
payment.

| Variable | In the code |
|---|---|
| `remote`, `tries`, `link` | payments and preferences at Mercado Pago (external) |
| `invoice` | `PlatformInvoice.status` and `mpPaymentId` |
| `company` | why the company is blocked: not, for lack of payment, by a person |
| `cycles` | `couponCyclesLeft` |
| `run` | what a call has read and not written: the invoice, the payment, what it will do to the company |

| Action | In the code |
|---|---|
| `Pays`, `Settles` | Mercado Pago: a payment appears, is decided, is charged back |
| `Notice`, `FindInvoice` | `process()`: the payment is read, then its invoice by `mpPaymentId` or reference |
| `Adopt`, `Create` | `invoiceForSubscriptionCharge()` |
| `Applied` | the early returns of `apply()` on the row that was read |
| `ReadCompany`, `CountDebts` | `companyDataAfterPayment()` |
| `Claim` | the transaction: conditional update, company, unique `mpPaymentId` |
| `CountCycle` | the coupon, after the transaction |
| `List`, `Search` | `reconcileMercadoPago()` with `findPaymentForInvoice()` (`Found`) |
| `PressSync`, `Write` | `sync()` / `syncMercadoPago()` |
| `PressRemove`, `Release`, `Expire`, `Cancel` | `remove()` and `releaseMercadoPago()` |
| `Throws` | an exception or a crash in a call of `Faulty` |

`Beside = FALSE` means that people do not press a button while a notice or the
routine is at work; notices and the routine still interleave at every await.
Left out: refunded payments, which `apply()` hands to `PaymentRefund`'s
`reconcile`; `handlePreapproval`, which only writes an audit row; the limit of
300 invoices and 90 days of the routine; signatures and messages.

### InvoiceCharge

One debt of a company. `row` is the invoice rows it may get, `remote` what the
providers made and hold for each, `call` where each handler stands, `routine`
the row the reconciliation found a charge for, and `mix` which requests come and
how many faults are left.

| Action | In the code |
|---|---|
| `Look`, `Reserve` | `create()` and its siblings: `chargeRequestKey` is looked up, then unique |
| `Attach`, `Claim`, `Release` | `attachFirstInvoiceLink()`, `createManualMercadoPagoLink()`, the claim by `paymentProcessingStatus` |
| `Post`, `Save`, `OnError`, `Undo`, `Unknown` | the call to the provider, its answer, a refusal, an answer that is lost |
| `ManualLink` | a link asked for by hand |
| `Remove` (`Unpaid`), `MpRelease`, `Delete`, `Cancel` | `remove()`, await by await |
| `Search`, `Link` | the reconciliation of reserved rows without a charge |
| `Event` (`Told`) | the first event of a charge no row names: the row its reference names is linked whatever its status, and becomes open, overdue or paid, a removed one overdue or paid; without the reference a row is created. Its read and its write are one step |
| `Die` | a process ends |

Which requests meet is a constant (`Mixes`): `Asked` has a charge asked for twice,
through one provider or both, beside a removal or a second link; a first invoice
asked for twice, without events; an invoice without a charge that gets a link. The
pair of a first invoice and a link by hand is left out of it: finding 10.

### FiscalNote

One invoice charged through Asaas, its fiscal note, and the calls that meet on
its row. `Calls` are runs of the service; one of them, `Daily`, is the routine's.

| Variable | In the code |
|---|---|
| `row` | `PlatformInvoice.asaasInvoiceId`, `invoiceStatus` |
| `age`, `older` | how many halves of `CLAIM_TTL_MS` have passed since `updatedAt`, and which calls were in progress when the last half began |
| `paid`, `refunded` | whether the charge is paid, and whether all of it was refunded |
| `note`, `past` | each note in Asaas with its status, and the statuses it has had (external) |
| `attempts` | failures counted by `attemptsSoFar()` |
| `call` | where each call stands, whether a person forces it, what it read or was answered |
| `listed` | somebody has read the queue of adjustments with the cancellation in it |
| `lost` | history: the answer to a scheduled note was lost |

| Action | In the code |
|---|---|
| `Ensure`, `Skip`, `Read`, `Pull`, `List`, `GivesUp` | `ensureForInvoice()` up to the claim; its callers are a payment's event, `reconcileRecent()` and `emitFiscal()` |
| `Claim`, `Check`, `Release` | `claimEmission()` as one conditional update, the data and the charge, `releaseClaim()` |
| `Post`, `Save`, `SaveFails`, `EmissionFails` | `scheduleFiscalInvoice()`, `persist()`, `recordEmissionFailure()` |
| `Refunded`, `RefundAgain`, `HandleRefund`, `Cancel`, `Pend` | a full refund, and `handleRefund()` for it, also asked for again |
| `NoteEvent` | `handleInvoiceEvent()`: any status the note has had, in any order, any number of times |
| `Attach`; `ListPending`, `MarkResolved` | what people write by hand (`Hands`): the first check is of a row read earlier, the second decides on a queue read several awaits before it writes |
| `NoteMoves`, `Pay` | Asaas and the city, the panel, a payment |
| `Dies`, `HalfTerm` | a process ends; time passes |

- `Overlap = FALSE`: one call at a time, beside events, people and Asaas, which
  come at any moment. `Overlap = TRUE` lets calls meet at every await.
- `Slow = FALSE`: a call ends within half the term of a claim, ten minutes: its
  calls to Asaas give up after fifteen seconds each
  (`../../common/http/outbound.ts:7`). Halves, and not whole terms, because a call that began
  before a write is measured from there.
- `Lossy`: an answer of Asaas, or its row, may be lost after Asaas has acted.

Abstractions: a dead note (ERROR, CANCELED) stays dead; the charge does not count
as paid any more once it is refunded, which is what Asaas answers to the
check of the charge; calls other than the routine run once; `paid` is never taken
back. Left out: partial refunds and chargebacks of a note (an audit row), the
queue and numbers of manual adjustments, fiscal data and amounts, whose errors
are a refusal of `Check`.

### CronLock

`key` is the key in Redis with the time it still lives, `memory` the lock of each
instance for when Redis is away (`connected`), `due` the time to the next firing,
`job` the calls in progress and `quiet` a history variable. `Fire`, `Succeed`,
`Fail`, `GiveBack`, `Retry` are the decorator; `AcquireLock` and `ReleaseLock`
the service; `Restart` and `Connection` the world; `Tick` lets time pass, never
past something that is due. Time is in units; an attempt lasts at most
`MaxRun`. The promise that a routine runs alone needs an attempt shorter
than the lock (`MaxRun < Ttl`) and instances that keep Redis.

### Competence and PayrollMonth

`Competence` is the abstract month: open, with HR, released, paid; with HR every
employee is locked but those reopened by hand. `PayrollMonth` keeps the row
`AccountingPeriod` (`period`), the closings (`row`), the payrolls (`pay`), what
each request still has to do (`call`), and the writes of the point that passed
the check of the lock and are not yet written (`clock`).

| Action | In the code |
|---|---|
| `Calculate`, `Reset`, `Recreate`, `Generate`, `Clear`, `Create`, `Adjust`, `SyncPayrolls`, `Total` | `calculate()` and `generate()`, one write a step |
| `Publish`, `Lock`, `ReadPayrolls`, `OnePayroll`, `Claim` | `publish()` |
| `Return`, `ReadClosings`, `OneClosing` | `returnToAccountant()` |
| `Release`, `MarkPaid`, `Done` | `release()`, `markPaid()` |
| `ClosingByHand`, `PayrollByHand` | single decisions of HR |
| `AssertTimePeriodOpen`, `WritePoint` | a punch, adjustment or approval of the point |
| `Throws`, `Crash` | an exception or a crash between two writes |

`Recreate` is `POST generate` and the request for the collective PDF, which create
closings again without keeping adjustments. A closing is one bit for "up to date
with the point" and one for "adjusted by hand"; hours and amounts are not
modelled. `Overlap = FALSE` lets people take turns with the long operations, while
punches, exceptions and crashes still come between any two writes.

### VacationLedger

`ledger` is the `VacationEntitlement` of one period, `vacation` its rows and
`request` what a request has read. `FindOverlapping` and `CheckLimits` are the
checks of `create()`, `ReserveAndCreate` its serializable transaction,
`UpdateStatus` the check of a decision, `UpdateStatusWithLedger` its transaction.
The reads and the transaction of `create()` always interleave; `Overlap = FALSE`
lets decisions of HR take turns. Dates are `Spans`, which overlap only with
themselves; the arithmetic of absences is the set `Rights`.

## 4. Runs

| Run | Question | Instance | Result |
|---|---|---|---|
| `RefundSafety` | Is money ever refunded twice or closed by someone else's outcome? Does the service implement the ledger, which never holds more than the payment? | two keys of one invoice of 2, the first asks 1, the second the rest, a second invoice, one reconciler, crashes, failing database calls, a provider that checks nothing | holds, 1.2 million states |
| `RefundSettles` | Does every operation settle? | two Asaas refunds of one value beside a third of that value made in the panel, lost answers, no crashes | holds, 0.3 million states; where the list cannot decide, a person is asked |
| `SupportFaults` | Do two people approve each large refund, whatever fails? | one ticket, two approvers, crashes and failing calls | holds |
| `SupportFollows` | Does the ticket tell, and learn, what happened to the money? | one ticket, two approvals, a chargeback beside it, no crashes | holds |
| `PaymentEvents` | Do paid, disputed and overdue invoices decide access as they should when events come late, twice and out of order and handlers fail? | a disputed invoice beside one that falls due and is paid, people blocking; a coupon of two cycles | holds, 1.1 million states |
| `PaymentConverges` | Does a removed charge open again, and is a paid charge recognised if webhooks are lost, fail or meet the routine? | one charge created, deleted, paid, disputed; worker, reconciliation and dunning meet at every await, jobs fail and die | holds, for OPEN and for who reads the row removed, 0.3 million states |
| `CronLock` | Does a routine run alone, not again while the last success forbids it, and again and again? | two instances with Redis, one that loses it between calls, two calls in the last; lock 3, period 4, attempt 2 | holds, 81 thousand states |
| `InvoiceCharge` | Does a debt get one payable link and one open invoice, and does a charge reach its invoice? | three requests, three rows, two faults, the mixes of `Asked` | holds, 36 thousand states |
| `PayrollMonth` | Is a published month locked, does an employee have one closing, how are adjustments lost? Does it implement `Competence`? | two employees, two closings, one request at a time, a crash | holds, in the three ways `AdjustmentsKept` names, 1.9 million states |
| `Vacations` | Are days spent once and within the right? | three vacations, two requests, three dates, a right of 30 or 24 days | holds, 1.1 million states |
| `MercadoPago` | Does a paid invoice stay paid and count once, and is a payment recognised without a notice? | two attempts for one invoice, one subscription charge, one notice at a time beside the routine, the buttons in turn | holds, 0.2 million states |
| `FiscalFirst` | Do two calls schedule the note of an invoice? | a call that may die beside the routine, meeting at every await, two notes, lost answers, one more try, everything people write by hand | holds until a note dies or an answer is lost, 3.2 million states |

Run by hand and passing: `FiscalTurns` (`FiscalNote`; `OneNote` and the liveness
`PaidInvoiceGetsNote`, one call at a time with lost answers, 0.2 million states),
and `RefundSettles` with `Provider <- MercadoPago`.

The following are run by hand too: each checks one property that
the code does *not* have, and TLC stops with a counterexample (section 6). Where
the table says "with", a constant or the property of the configuration is changed.

| Configuration | Module | Property | Finding |
|---|---|---|---|
| `RefundByValue` | `MCPaymentRefund` | `ClosedByTheProvider` | 1 |
| `RefundTwoActive` | `MCPaymentRefund` | `OneActiveOperation` | 2 |
| `SupportOneApproval` | `MCSupportRefund` | `LargePaymentsNeedTwoPeople` | 3 |
| `PaymentReopens` | `MCPaymentEvents` | `PaidNeverReopens` | 4 |
| `PaymentReopens` with `CouponCycles = 2` | `MCPaymentEvents` | `CouponCountsPayments` (an invariant) | 27 |
| `PaymentRemoved` | `MCPaymentEvents` | `RestoredIsRecognised` | 28 |
| `RefundSettles` with `Tagged = {}` | `MCPaymentRefund` | `EveryRefundSettles` | 29 |
| `PaymentUnblocks` | `MCPaymentEvents` | `BlocksOfPeopleStay` | 5 |
| `InvoiceFirst` | `MCInvoiceCharge` | `OneOpenInvoice` | 7 |
| `PayrollTwice` | `MCPayrollMonth` | `PublishedIsLocked` | 8 |
| `PayrollPoint` | `MCPayrollMonth` | `LockedPointUnchanged` | 12 |
| `VacationTwice` | `MCVacationLedger` | `LedgerMatches` | 13 |
| `VacationParts` | `MCVacationLedger` | `PartsAreApart` | 14 |
| `PaymentDisputed` | `MCPaymentEvents` | `DisputedStaysCanceled` | 15 |
| `MercadoPagoReopens` | `MCMercadoPagoSync` | `CanceledStaysClosed` | 17 |
| `MercadoPagoSynced` | `MCMercadoPagoSync` | `PaymentReleasesCompany`; in its place `NoPaymentIsLost`, `PaidByAnyPayment` | 19; 16, 18 |
| `MercadoPagoTwice` | `MCMercadoPagoSync` | `OneInvoiceEach` | 20 |
| `CronFlaps` | `MCCronLock` | `AloneInInstance` | 22 |
| `RefundByRefusal` | `MCPaymentRefund` | `FullRefundSuspends` | 23 |
| `FiscalOverlap` | `FiscalNote` | `OneNote`; in its place, with `Lossy = FALSE`, `RefundedIsCanceled`, `PendingIsRetried` | 24; 25, 26 |

Why the bounds are enough: the refund service has one active operation for each
invoice by design, so two keys show every conflict between an operation and the
next one; a part and "the rest" reach the full refund; two keys and a refund in the
panel of one value show an operation beside an earlier refund of its value, its own
or somebody else's; the second invoice is there
for the rule about later payments. A ticket has one or two approvals, so two
approvers suffice. An event of a charge is applied to one invoice and looks at
the others only to ask whether one is a debt, so two invoices cover both
answers; what happens to one charge, whoever meets on its row, needs that
invoice alone. A payment of Mercado Pago meets at most one other attempt on record and
one newer one, so two attempts show each choice of the search. A debt is claimed by one key,
so a third request adds a person beside the two that race. A lock separates two
runs; the third instance is the one without Redis. The loops of the payroll
treat one employee after the other, so two show a loop that stops in the middle.
Two parts and the rest are all the parts a right of 30 days may have. A claim is
contested by two calls, one of which may die holding it, and a second note of
the service is what must not appear; notes of the panel have no part in that
run, the theorem covers them.

Counters are bounded by construction: a key is requested until it has answered, an
event of a name is emitted once, `Attempts` bounds the runs of a job (one: a
failed job is repeated by a new delivery, which `Deliver` allows again), `age`
ends at 2, dates are 1 or 2, `mix.faults` and `MaxCrashes` bound the faults of
`InvoiceCharge` and `PayrollMonth`, the timers of `CronLock` never exceed the
constants, `MaxAttempts` bounds the tries of a note, calls of `FiscalNote` other
than the routine's run once. Larger instances were tried: two tickets under
fairness, restoring a charge beside a dispute, and two notices beside the routine
and the buttons do not finish in minutes.

Deadlock is checked for `CronLock`, where something is always due. It is not
checked elsewhere: a system without new requests may rest.

### Fairness

- Refunds: a handler that has begun runs on (weak fairness on the steps of
  `request()`, `reconcile()` and the listeners): they are promises of a server
  that does not die in these runs. The provider decides on what it has (weak).
  The routine comes back to every invoice with an active operation every five
  minutes, and time passes; both may be interrupted by a request under way, so
  they are strong. Nothing forces people to open tickets or to decide them.
- Events: workers and the routine run on; the routine comes back to every
  watched invoice. **No delivery of a webhook is assumed**, nor the success of a
  handler.
- Mercado Pago: a call that has begun runs on; the routine comes back to every
  open invoice (strong: the buttons take turns with it). No notice is assumed.
- Invoices: the reconciliation runs on and takes every row (strong: a row may be
  claimed and given back in between). Neither requests nor events are assumed.
- Fiscal notes (`FiscalTurns`): a call that has begun runs on, time passes, and
  the routine comes back to an invoice whose note is due (strong: it waits for
  other calls); its retry becomes due, Asaas answers it and confirms the
  payment now and then (strong, each on the routine's own step). No event is
  assumed, nor that a post succeeds.
- Lock: time passes, a firing that is due happens, an attempt ends, with success
  or without, and a failed one gives the lock back and tries again.

Crashes are off in the two runs over the outcome of refunds because the code has
no recovery for them: an operation that stays PROCESSING is never given up, and
a settled event that was only in memory is lost. Both are listed as hazards.

## 5. Proofs

All theorems hold for every value of the constants that satisfies the `ASSUME` of
the module: sets of rows and processes of any size, any amounts, faults on or off.
Where a theorem needs more, it is an assumption of the theorem and said below.

| Module | Theorem | Says |
|---|---|---|
| `RefundProofs` | `TypeCorrect`, `SupportTypeCorrect` | every reachable state is well-typed |
| | `RefundStatusIsHonest` | `refundStatus` agrees with `refundedAmount`, which never exceeds the payment |
| | `RefundedIsMonotone` | no reconciliation takes a refunded amount back |
| | `PostedAtMostOnce` | a key is posted to the provider at most once |
| | `ClosedByItsOwnMoney` | an operation is closed by the provider's decision on its own refund |
| | `OneRefundUnderWay` | an invoice has one undecided refund at most |
| | `ServiceImplementsLedger` | the service refines `RefundLedger` |
| | `NeverOverRefunded` | what is out or may still go out, over all keys, stays within the payment |
| | `FullRefundSuspendsTheCompany` | the refund of the whole current payment suspends the company |
| | `ServiceBeneathTickets` | tickets use the refund service as `PaymentRefund` specifies it, so its theorems hold beneath them |
| | `LargeRefundsAreApprovedTwice` | a refund above the threshold was approved by two people |
| | `OutcomesAreTold`, `TicketsTellTheTruth` | what a ticket is told, and what it says, is what became of its money |
| `PaymentEventsProofs` | `EventsTypeCorrect` | every reachable state is well-typed |
| | `PaidStaysPaid` | a late event never opens a paid invoice |
| | `LastDebtReleases`, `DebtKeepsBlocked` | the payment of the last debt releases the company, no earlier one does |
| | `DisputeStaysClosed`, `RemovedIsNotOpened` | a disputed invoice stays cancelled; a removed one is not opened by who reads it removed |
| | `CouponCountsEachPaymentOnce` | the coupon has lost no more cycles than there are payments |
| `MercadoPagoProofs` | `MpTypeCorrect` | every reachable state is well-typed |
| | `PaidInvoiceStaysPaid` | only a chargeback takes a paid invoice back |
| | `CyclesCountedOnce` | each payment uses one cycle, however often it is notified |
| `InvoiceChargeProofs` | `ChargeTypeCorrect` | every reachable state is well-typed |
| | `UndoneOnlyUncharged` | a row marked FAILED, by the undo of a refused creation, has nothing at a provider |
| | `OneLinkForADebt`, `OneInvoiceForADebt` | one payable link, one open or overdue invoice |
| `LeaseProofs` | `FiscalTypeCorrect` | every reachable state is well-typed |
| | `OneNoteInTurns` | one call at a time, an invoice has one living note of the service |
| | `FirstNoteIsOnly` | when calls meet too, until a note dies or an answer is lost |
| | `CronTypeCorrect`, `RoutineRunsAlone`, `SuccessIsNotRepeated` | types; one run at a time; no second run while a success forbids it |
| `PayrollMonthProofs` | `MonthTypeCorrect` | every reachable state is well-typed |
| | `OneClosingForEach` | an employee has one closing |
| | `PublishedMonthIsLocked` | closings of a published month are approved or closed, but for employees somebody changed by hand since; nothing about payrolls |
| | `AdjustmentsAreKept` | adjustments are lost in three ways only |
| | `MonthImplementsCompetence` | the month refines `Competence` |
| `VacationProofs` | `PeriodNeverOverdrawn` | days reserved, used and sold never exceed the right, whatever meets |
| | `FinalDecisionsStay` | a rejected, cancelled or completed vacation stays so |
| | `LedgerAlwaysMatches` | the ledger is the sum of its vacations |
| `SumTheorems` | `SumChanges`, `SumOfSubset` | how a sum moves with one of its terms, and what a part of it amounts to |

*Sums.* `SumFunctionOnSet` is a fold, and a fold of the community modules is a
function chosen by `CHOOSE` over the subsets of its set. Induction theorems with an
operator as parameter are of no use here, so `SetInduction` takes a *set* of
naturals and follows from the least element of its complement, and
`SubsetInduction` takes a set of subsets. From these: the function that `CHOOSE`
picks exists, is unique below the set (`FamiliesAgree`), and obeys the equation of
a sum; then the sum does not depend on the order (`SumWithout`), changes by what
one term changes (`SumChanges`), and grows with its set (`SumOfSubset`).

*Refunds.* `TypeStep` has one case for each action. `RefundStatusHonest` is not
inductive alone: the value a reconciliation writes comes from a list in the
memory of a process. `HonestInv` adds `SnapshotsWithin`, that every total read
and not applied lies within its invoice, because `reconcile()` throws when the
provider's total exceeds the invoice (`WithinInvoice`) before it opens the
transaction. *Monotone*: `reconcile()` writes the larger of what it read and what
the row has, and no other action touches the amount. *Posted once*: `PostsInv` ties
the history to the control: a key without an operation was never posted, a key
about to be posted was not posted yet, and operations are never deleted
(`OperationsStay`).

*Closure.* `ClosureInv` says, for each state of an operation, what the provider
can hold for it and what a list that was read earlier can still claim: a list is
never ahead of the provider, and "never arrived" is concluded only when no post
is on its way. The theorems assume `ExactMatch`: the description is echoed for
every key, nobody refunds in the panel of Asaas, and the read that follows an
accepted post is not refused; without it finding 1 refutes them.

*Refinement.* A key's part is held while its operation is active, paid or void
when it is closed. Two facts make every step a step of the ledger: `OneHeld`, at
most one part of an invoice is held, because a reservation looks under the row
lock; and `PersistFits`, that the late update to PENDING (finding 2) meets an
operation that is still active, confirmed, or void of money. That a reservation
fits the balance is proved on the abstract side: `BookFits`, the parts that are
held or paid add up to the payment at most, is kept by the ledger's steps
(`SumTheorems`), and `NeverOverRefunded` carries it back to the provider's money.

*Suspension.* The invariant says that the recorded amount of an invoice is at most
the sum of its paid parts (`RecordsFit`), which is less than the payment while a
request is unanswered; so `failReservation()` completes no refund
(`RefusalCompletesNothing`), and `reconcile()`, which suspends, is the only place
that does. A refund in the panel breaks the first half: hence the hypothesis
`PanelRefunds = {}`, and finding 23.

*Tickets.* `SupportInv` relates a dispatch to the approvals on its ticket: from
the claim on, a dispatch of a large ticket carries two different people, because
the conditional update names the status and approver that were read.
`TicketsTellTheTruth` needs what listeners and dispatches have been told:
`EventsFit`, every settled event not yet delivered is true of its money, `Told`,
so is every answer a dispatch holds, and `UnsentFits`, a ticket that waits for
approval has no money on its way. The last one fails with `Faults`: the answer of
`request()` is lost, `dispatch()` puts the ticket back to waiting, a person
rejects it and the refund goes out. The `catch` of `dispatch()` reverts the ticket
whatever threw, before the reservation or after it
(`support-refund.service.ts:136`); what holds with every fault is
`OutcomesAreTold`.

*Asaas events.* `TypeInv` is unconditional. The others assume `TakeTurns` (one
handler at a time), all but *Removed*, under which `TurnsInv` says that what a
handler has read is still true when it writes; `DisputeStaysClosed` also assumes
`PaidInTime`, that a disputed charge was neither overdue nor restored before, as
finding 15 requires. *Removed*, for which handlers need not take turns: a handler
that read the invoice removed opens it for a restoring event only (`HandlersFit`),
and while a charge is deleted none was emitted, since a charge is deleted and
restored once (`Removals`). *Coupon*: `Counted` says that the cycles used, and the
one a handler is about to count, are at most the paid invoices, and that what was
paid once is paid still. The second half needs that no deletion and no chargeback
comes between: a deletion of an unpaid charge is final if nothing restores it
(`Final`), and a chargeback is excluded by the property. The hypothesis
`NoRestoring` is necessary: a charge that is deleted, restored and confirmed is
cancelled by its late deletion, and its "received" then counts again.

*Mercado Pago.* `MpInv` ties each call to what it has read: its payment belongs to
its invoice, an approval or chargeback it has seen is there. The conditional
update lets one of several calls win, and the winner counts: while nothing is
charged back, `Counting` calls and used cycles are at most the paid invoices. Both
theorems about payments assume `~Beside`, people do not press a button while a
call is at work (finding 19 is what they do to it); `PaidInvoiceStaysPaid` also
assumes `SubscriptionsStand`, because the chargeback of a subscription's charge is
applied to whichever invoice the charge was adopted by.

*Invoices.* `ChargeInv` has one conjunct for each question of the code: who holds the key,
what a processing state says about the provider, and who is between claim and
answer (`Processed`). The link and invoice theorems assume
`LinksApart` and `FirstUnseen`, the two exclusions of the mixes (findings 10 and
7). An event may revive a removed row; that makes no second open invoice,
because the row of a charge that can be paid still has the key.

*Fiscal notes.* `NoteInv` adds to the types that whatever a call asks for, links
or is about to write is a note that exists, with a status it has had; with it a
note of the service becomes valid by a post alone (`OnlyPosts`). `OneNoteInTurns`
assumes `~Overlap`: a call past the list found no valid note, and
nobody else works (`TurnInv`). `FirstNoteIsOnly` assumes only `~Slow`. Until the refund,
`ClaimInv` says that one call emits (`OneEmits`); its claim is as young as the row,
so nobody takes it over (`ClaimIsFresh`); while it emits, and once a note is
scheduled, the row cannot be claimed (`RowIsTaken`); and a call that listed
before the note was scheduled is older than the row, so it ends before the term
does (`LateClaims`). Only the call that emits frees the row, and only if
it has no note (`RowSteps`): that is where a death of the note or a lost answer would break
the argument, hence the hypothesis of `FirstNoteOnce` and finding 24. After
the refund people may free the row by marking a cancellation as resolved, which
breaks `ClaimInv`; but from then on nobody comes to post, because the
charge is not paid any more, and whoever was about to is alone (`PostsAlone`).
That a cancellation is pending, or was when somebody read the queue, only after a
refund is `PendingInv`.

*Lock.* `CronInv`: the lock a run holds, in Redis or in the memory of its
instance, is as old as the run, so it outlives it. Its three theorems assume
`Shorter`: `MaxRun < Ttl`, and Redis is not lost in the middle of a call.

*Month.* `MonthInv` says for each step of each operation which closings are
already locked, reset or created and which still have to be, so that an exception or crash
leaves a month that is not yet published. *Adjustments*: an employee's are
remembered on a closing or by the calculation that keeps them. `CalculationKeeps`
follows a calculation that has them in its memory from the deletion of the old
closing to the write on the new one; a request made by hand keeps nothing, and
every other action leaves adjusted closings alone, but for the deletion by a person.
What is left are the three ways of `AdjustmentsKept` (`Lost`), of which the
first is finding 30. All but the types assume `~Overlap`; findings 8 and 11
refute the first two otherwise.

*Vacations.* `NeverOverdrawn` is inductive with the types: the transaction reads
the ledger it writes. `FinalDecisionsStay` and `LedgerAlwaysMatches` assume
`~Overlap` (finding 13): what a decision read is then what its transaction finds,
and each of its branches moves the days of one vacation from one sum to another.

Only model-checked: what is eventually true, which TLAPS cannot prove
(`EveryRefundSettles`, `RefundReachesTicket`, `ApprovedTicketIsDecided`,
`PaidChargeIsRecognised`, `PaymentIsRecognised`, `ChargeIsLinked`, `RunsAgain`,
`PaidInvoiceGetsNote`). Every safety property of the runs is stated by a theorem.

## 6. Findings

The texts with the quoted lines are in `PROJECT.json`; "read" means that no run
shows it.

1. *Match by value* (`payment-refund.service.ts:118`). Without the description,
   a second refund of the same value is confirmed by the first one's money.
2. *Late update* (`payment-refund.service.ts:62`). The update to PENDING after
   the post undoes a confirmation that a reconciliation made in between; the
   invoice can have two active operations, although no money moves twice.
3. *Threshold* (`../support/support-refund.service.ts:125`). The second approval
   depends on the amount of the ticket; a total refund pays what is left when it
   is dispatched, which may be more.
4. *Paid reopens* (`asaas-webhook.processor.ts:187`). The guard looks at a row
   read earlier and the write is by id; the reconciliation, outside of the queue,
   may mark the invoice paid in between.
5. *Reason overwritten* (`asaas-webhook.processor.ts:182`). A chargeback
   replaces the reason of a person's block, after which another payment
   releases the company.
6. *Removed and overdue* (`billing-cron.service.ts:370`). A late overdue event
   makes a removed invoice OVERDUE, and the dunning routine does not look at the
   removal. Read.
7. *First invoice* (`platform-finance.service.ts:264`). Its charge carries
   `first:<key>` while events and the repair look for `inv:<id>`: an early event
   or a lost answer makes a second open invoice.
8. *Calculated again* (`../payroll/accounting-period.service.ts:145`). A
   calculation that overlaps a publication resets published closings and
   reopens the period.
9. *Removed while charged* (`platform-finance.service.ts:1551`). An invoice
   whose charge is being created is cancelled while the charge stays payable; an
   event of the charge revives the row. Read.
10. *Two providers* (`platform-finance.service.ts:1427`). A manual link claims
    nothing and may be made beside the link of a first invoice. Read.
11. *Two closings* (`../time-track/time-closing.service.ts:361`). Generating
    twice at once leaves two closings of an employee (`Overlap = TRUE`).
12. *Lock checked early* (`../time-track/period-lock.ts:14`). A punch that passed
    the check is written after the approval.
13. *Compare-and-set* (`../vacations/vacations.repository.ts:240`). The status
    compared is the one just read; a decision allowed on an earlier row is
    applied to another, and days are debited twice or not at all.
14. *Parts* (`../vacations/vacations.service.ts:79`). Overlap and number of parts
    are checked outside of the transaction.
15. *Disputed and overdue* (`asaas-webhook.processor.ts:156`). A late overdue
    event opens a disputed invoice, and the next late confirmation pays it.
16. *Lost payment* (`mercadopago.service.ts:170`). A refused attempt on record
    hides the approved one from the routine and the button.
17. *Cancelled reopens* (`mercadopago-payment-sync.service.ts:48`). The notice of
    an attempt that failed, or that the removal itself cancelled, opens a
    cancelled invoice.
18. *Other payment* (same line). A repeated notice of a charged-back payment
    cancels an invoice that another payment paid.
19. *Synchronised, still blocked* (`platform-finance.service.ts:1508`). The
    button marks the invoice paid and leaves the company blocked, and what would
    release it is a duplicate afterwards.
20. *Subscription twice* (`mercadopago-webhook.controller.ts:101`). Two notices of
    one charge make two invoices, one of which stays open.
21. *Never dunned* (`billing-cron.service.ts:370`). Nothing makes a Mercado Pago
    invoice OVERDUE, and the dunning routine takes only those. Read.
22. *Redis comes and goes* (`../../common/redis/redis.service.ts:115`). A lock
    taken in Redis is unknown to the memory, so a routine may run beside itself
    in one process.
23. *Completed by a refusal* (`payment-refund.service.ts:88`). A refund of the
    whole payment in the panel, reconciled while a request is unanswered, becomes
    REFUNDED by the refusal of that request, which suspends nobody.
24. *Second note* (`asaas-fiscal.service.ts:237`). The list of notes is taken
    before the claim and not again after it: a call that listed early and claims
    after another one's answer was lost schedules a second note.
25. *Note of a refunded invoice* (`asaas-fiscal.service.ts:298`). A refund
    settled while a note is being scheduled finds none to cancel, and the emission
    does not look at the refund again.
26. *Forgotten cancellation* (`asaas-fiscal.service.ts:107`). Any event of the
    note replaces CANCEL_PENDING, the only mark by which the routine and the
    queue of adjustments find a cancellation that failed.
27. *Counted twice* (`asaas-webhook.processor.ts:194`). The coupon is counted by
    the status that was read: the routine beside the worker counts one payment
    twice.
28. *Restored and never listed* (`payment-reconciliation.service.ts:116`). The
    routine leaves removed rows out; when a restored charge is paid and its row
    stays removed, the payment is not recognised.
29. *Accepted and undecided* (`payment-refund.service.ts:131`). A pending
    operation without its description, beside another refund of its value, is
    neither matched, given up nor shown to a person.
30. *Adjustments discarded by a PDF*
    (`../time-track/time-closing.controller.ts:56`). Creating the closings again,
    which the collective PDF does too, deletes the accountant's adjustments.

## 7. Not modelled

- *Sessions and multi-factor authentication*: their properties are security
  properties.
- *Prices, proration, payroll and termination amounts*: arithmetic on decimals of
  one row at a time, covered by unit tests; nothing interleaves.
- *Changing plans, seats and subscriptions* (`platform-finance.service.ts`,
  `faturas-acoes.service.ts`): single writes by one person, with calls to Asaas
  whose lost answers are of the kind `InvoiceCharge` models.
- *Legacy refund requests* (`faturas-reembolsos.service.ts`): another caller of
  the refund service; approval and rejection at once is a hazard without a
  property.
- *Partial refunds of noted invoices, and the queue of manual adjustments*: audit rows
  and decisions of a person.
- *The recovery of stuck events* (PENDING and PROCESSING): the code has a monitor
  for part of it; that an event itself is finished is not a property here.
- *Which rows a limited routine takes* (40, 300): abstracted to fairness.
- *Recruitment, schedules, documents, employees, coupons, proposals, privacy,
  onboarding, messages, analytics, AI*: record keeping by one actor at a time, or
  I/O.
- *The web client*: display.

The map covers a small share of the repository for this reason: most of its
lines are pages, controllers, DTOs and record keeping without a state machine.

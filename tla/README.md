# Specifications of the association's web application

The application (`src/backend/app`) runs the administration of a local
association: members, activities with registrations, a webshop with a stock
ledger, payments through a payment provider, newsletters, a workbench of tasks.
It is one FastAPI process on PostgreSQL. Every request is one database session
and, nearly always, one transaction at READ COMMITTED; one daemon thread runs
the jobs that are queued in the database. So what is hard here is not message
passing between machines but *transactions that overlap*: a value read before
somebody else's commit and used after it, locks taken in different orders, a
crash between a commit and the effect it announces.

This directory holds TLA+ modules of the parts where that matters, the TLC runs
that check them on small instances, and TLAPS proofs of the properties that
matter most, for every value of the constants.

## The system

Paths are under `src/backend/app/`.

| component | state | operations | interacts with | what is hard | what makes it correct |
|---|---|---|---|---|---|
| stock (`domains/stock`) | movements (a ledger), one reservation per order line | reserve, release, issue, receive, correct; available, waiting | called by sales through ports, in sales' transaction | check, then write, of two transactions; the reservation read before its lock | never oversold; a reservation closes once; a piece leaves once; older orders first |
| sales (`domains/sales`) | orders, order lines, soft deletes | submit, place, change, cancel, deliver | stock (ports), payment (ports and events), form guard | requests on one order overlap; several locks per request | one order per form; no deadlock while placing; lines and reservations agree |
| form guard (`kernel/form_guard.py`) | none: a signed key in the form | issue, verify | every public form | the same form posted twice | one post is accepted |
| payment (`domains/payment`) | payment records, gateway payments, history | create, webhook, confirm by hand, refund, reconcile, void, edit | sales, activities, membership by events; the provider by HTTP | late, repeated and reordered webhooks; hand and webhook at once | never refund more than was received; what is paid stays paid; what is due equals the lines |
| jobs (`kernel/jobs.py`) | job rows: PENDING, RUNNING, DONE, FAILED | enqueue, run due jobs, back off | mail retry, newsletter, sweep | a crash after RUNNING is committed; handlers that commit | every job ends; retries are bounded |
| newsletter (`domains/newsletter`) | letters, subscribers, deliveries | start sending, send a batch, resend, bounce, unsubscribe | jobs, mail | a batch and a resend at once; crash in a batch; the daily maximum | nobody gets a letter twice; every letter ends; the maximum holds |
| mail (`domains/mail`) | the e-mail log | send, log, retry | SMTP, jobs | sent and not yet committed | a mail is sent once or recorded as failed |
| workflow (`domains/workflow`) | tasks, flow instances | create, complete, advance, sweep | payment, membership, jobs | two completions, two sweeps | one open task per cause; a step is taken once |
| activities (`domains/activities`) | activities, parts, registrations | register, change, cancel | payment, forms | the capacity is counted without a lock | never more than the capacity |
| membership (`domains/membership`) | memberships with a year and a period | sign up, renew, activate, add, report, delete | mdm, payment | renewal at the turn of the year; two renewals at once | one membership of a year; a renewal sells new days and leaves no gap |
| mdm (`domains/mdm`) | persons, households, roles | edit, merge | all | a merge that moves references | nothing refers to a merged person |
| product, pricing | articles, variants, windows, prices by date | edit, look up | sales | dates at their boundary | one price per day |
| forms, cms, media, meetings, designstudio | their own rows and files | edit | activities, mdm | - | - |
| auth, chatbot, reporting | sessions; none; none | log in; ask; read | all; an external model; all | - | - |
| kernel (events, ports, tenancy, codes, history) | none at run time | publish, call, look up | all | handlers run in the caller's transaction | a request commits as one |

`PROJECT.json` lists the same components with their status, and the hazards of
the code line by line, with the properties that would catch each of them.

## The plan

1. **Shop** - the stock ledger under the orders of the webshop. *Built.* It comes first
   because it is the one place where the code takes locks of its own, its
   documentation argues why they are enough, and money and goods are at stake.
   `StockLedger` is the abstract promise; `Shop` the interleaved transactions.
   Theorems: type correctness, each reservation closed once, never oversold, one
   order per form, no deadlock while placing, and the refinement.
2. **PaymentLedger** - the records of one registration, the provider's webhooks
   (late, repeated, lost), the treasurer's screens, refunds, and the
   reconciliation when the order changes. *Built.*
   Properties: a webhook never books again, what is booked has its date, the
   records ask for what the order costs, what the provider confirms is booked in the end.
3. **JobQueue** and **Newsletter** - the queue and its scheduler with crashes
   and restarts; the sending of a letter on top of it, with resends, bounces,
   unsubscriptions and the daily maximum. *Built*, but for the maximum per day
   as a property of its own. Properties: at most one mail per queueing of an
   address but for a crash or a lost answer, the chain of jobs holds, every
   address gets its turn (liveness). Theorem: the first of these.
4. **Workbench** - tasks, completion and the sweep, on top of `JobQueue`, with
   the retry of a mail as the other job. *Built*, but for flows of several steps.
5. **Membership** - the memberships of one household around the turn of the year,
   with renewals that overlap and payments that come late. *Built.* Properties:
   one membership of a year, no day sold twice, no gap, and the screens that offer,
   count and refuse a renewal agree.
6. **Registrations** - capacity and limit per address of an activity.
7. The theorems: every safety invariant and every action property that a run checks is
   *proved*, with the refinement of `StockLedger`. What is left to say of this kind belongs to the
   parts that are not modelled.

## The modules

| module | what it is |
|---|---|
| `StockOps` | the readers of the ledger (`available`, `waiting`) as operators on a view: what one transaction sees |
| `StockLedger` | the promise of the ledger: one atomic step per committed transaction |
| `Shop` | the requests of the shop, interleaved lock by lock; the properties |
| `ShopInvariant` | the inductive invariants, and the refinement mapping to `StockLedger` |
| `StockOpsProofs`, `ShopProofs` | the proofs about pieces and sums; the first invariant and what follows from it |
| `ShopStockProofs` | the proofs of never oversold, of the order of the grants, and of the refinement |
| `ShopOrderProofs` | the proofs of one order per form and no deadlock while placing |
| `MCShop` | the small instances TLC checks |
| `JobQueue` | the table of jobs and the scheduler's thread, without what the jobs do |
| `Newsletter` | extends `JobQueue`: the job that sends a letter, the mail server, the screens; the properties |
| `NewsletterInvariant` | the inductive invariants |
| `NewsletterProofs` | the proofs |
| `MCNewsletter` | the small instances TLC checks |
| `Workbench` | extends `JobQueue`: the sweep and the retry of a mail as jobs, the tasks, the causes of work; the properties and their inductive invariant |
| `WorkbenchProofs` | the proofs |
| `PaymentLedger` | the payment records of one registration and everything that writes them; the properties and their inductive invariant |
| `MCPaymentLedger` | the small instance TLC checks |
| `PaymentProofs` | the proofs, and those of the sums they need |
| `Membership` | the memberships of one household, their renewals and payments; the properties and their inductive invariant |
| `MCMembership` | the small instance TLC checks |
| `MembershipProofs` | the proofs, and those of the days and years they need |

### Shop and the code

A *session* (`Clerks`) serves one request at a time. A step is the code between
two points where another transaction can be noticed: a read of committed rows
that may have changed, or a lock that may have to be waited for.

* **Rows.** `stock` is the sum of the movements of a variant, `reservation`,
  `line`, `order` the tables, `removed` and `delivered` the columns `deleted_at`
  and `delivered_at` of a line, `issues` the number of GOODS_ISSUE movements of a
  line, `due` the total the last committed event told payment. A row that is
  inserted and not yet committed is PENDING: only its own transaction counts it.
* **Updates** of a transaction (`made`, `freed`, `handed`, `dropped`) are kept with the
  session and applied by `Commit` in one step; `OpenFor(p)` is what the
  session reads in between: the committed rows with its own writes on top. This is
  READ COMMITTED, with `autoflush=False` as `database.py` sets it.
* **Locks** (`locks`) are the advisory locks per variant (`_acquire_lock`), the row of
  a line (`with_for_update` in `deliver_line`, the UPDATE of a soft delete when it
  is flushed), and the unique index on the form's key, where a second insert of
  the same key waits for the first. All are held to the end of the transaction.
* **Failures.** A rule may refuse at the step where the code tests it
  (`Refuse`); at any step the request may fail for a reason outside the model -
  the payment provider, an article withdrawn, a lost connection (`Fail`);
  PostgreSQL ends one request of a deadlock (`DeadlockVictim`). Each rolls back.
* `SubmitOrder` .. `Commit` follow `submit_order` and `place_order`;
  `StartChange` .. `Publish` `change_order_lines`; `StartCancel` .. `CancelOrder` `cancel_order`;
  `StartDeliver` .. `Issue` `deliver_line`; `BookReceipt` and `ApplyCorrection` the screens of
  the stock. `stock.release` and `stock.issue` are the two-step reads of
  `_open_reservation_under_lock`: first without the lock, then under it.

Left out: prices (one per piece, so a total is a number of pieces), tenants and
locations (one of each: the lock's key contains both), the confirmation mail, the
names on an order, dates (which articles are on pre-order is the constant
`PreOrder`), the articles withdrawn between two steps (covered by `Fail`).

### JobQueue, Newsletter and the code

There is one scheduler thread, so one job runs at a time (`tick`); the screens run
next to it. A step is what happens between two commits, or between a commit
and the answer of the mail server.

* **The queue.** `job` is `kernel_jobs`: a number of it that is `NoJob` is free or
  was done. `PickJob` commits the row as RUNNING with one attempt more, as `run_due_jobs`
  does before it calls the handler; `JobDone` and `JobRaised` commit what became of it.
  `TickLost` is the process, or the connection to the database, that is lost in
  between: the row stays RUNNING.
* **A batch.** `run` is where `send_batch` is: `StartJob`, then `Nothing`, `DayIsFull`
  or `TakeBatch`; for each address in `todo` the re-check (`Skip`, `Render`), the mail
  (`Accepted`, `TemporaryFault`, `AnswerLost`, `PermanentFault`, `QuotaReached`) with its one
  retry, and the commit (`RecordSent`, `RecordFailed`); then `CountLeft` and, as a
  step of its own, `CloseLetter` or `PlanNextBatch`. `Pause` plans the job that goes
  on and marks the letter in one commit.
* **The mail server.** `AnswerLost` is the connection that breaks after the mail was
  taken: `fault_of` calls it UNREACHABLE, and the mail is sent once more.
* **The screens.** `ReadFailed` and `ReadForMark` read, `Resend` and `Mark` write what was decided
  on in a later step: nothing in `resend_failed`, `mark_bounced` or `unmark_bounced` locks a
  row. A resend that read the letter as SENDING does not write its status, since the
  session writes only what it sees change. `StartSending` is one step: two of them
  meet at the unique address of a letter's deliveries.
* **The clock.** A job is due or waits for the next day; `DayPasses` empties the 24
  hours of `sent_in_last_day`, ends the pauses and makes the waiting jobs due. It is a
  step between two jobs: a batch is shorter than a day. Seconds - the back-off,
  the wait between two batches - are no time at all.
* **History variables.** `left` counts the mails of a delivery since it was last
  queued (0, 1, more), `doubtful` the deliveries of which a mail left while the
  code cannot know it, `counts` what is bounded.

Left out: the text of a letter and its links, the tracking of opens, how
addresses are chosen and subscribed, the demo tenant that logs instead of
sending (an outcome like SENT), a subscriber who comes back, and the order in which
due jobs are taken (each may be next).

### PaymentLedger and the code

One registration and its records; everything that writes them runs next to each other.
A request reads, works on its own copy, and commits in a later step.

* **Rows.** `row` is `payment_records`, in the order they came: `refund` and `online` are
  `payment_type` and the presence of a gateway payment, `amount`, `paid` and `status`
  the columns of those names (`amount_paid`), `dated` that `paid_at` is filled in, `deleted` that
  `deleted_at` is. `NoRow` is a row that does not exist. `line` is the order.
  `Sound` is the rule of the model and the two CHECKs of the table: a commit that
  would break it does not happen.
* **What a commit writes.** `Written(now, read, new)`: the columns the request
  changed go over the row as it is *now*, the others stay. That is the session's
  UPDATE; nothing but the webhook locks what it reads, so `now` may be newer than `read`.
* **The visitor** (`RegisterTransfer`, `StartOnline`, `RegisterOnline`, `RegistrationFails`).
  `create_payment` calls the provider inside the transaction: a
  registration that fails leaves a payment at the provider that no record knows of.
  `PaymentEnds` is the payer or the provider's clock.
* **The webhook.** `CallAsks` is `refresh_payment_status` asking the provider, before
  it locks anything; `CallCommits` is `handle_gateway_update` with the answer, which may
  be old by then. The provider calls until it is answered: `notice` is what it still
  has to tell. `CallRaises` is a payment with the wrong amount (`needs_review`).
* **The treasurer** reads in one step (`TreasurerReads`) and saves in another:
  `ConfirmPayment`, `EditPayment` with its two ways to `confirm_manual_payment`, `SetStatus`,
  `RefreshStatus`, `DeletePayment`, `RegisterRefund`; `TreasurerRefused` is any refusal.
* **A change of the order** (`SetOrderQuantities`, `DeleteRegistration`, `UpdateOrderLine`) is read,
  worked out, and committed by `ChangeCommits` with `reconcile_charges` (`Reconciled`): every living
  record closes on what came in on it, and one post is made for what is outstanding.
  `update_order_line` commits the line first and reconciles in a second
  transaction. The row of a line is locked from the flush to the commit (`Held`).
* **A crash** (`Crash`) loses every open request.

Assumed: one treasurer works at a time, one registration, amounts in whole euros;
`FAILED` stands for every way a payment does not come off; a request that waits
for the row of a line reads after it. Left out: refunds that are settled at once, the status of
`gateway_payments` itself (the record's is a copy of it), the history, the mails and the
events.

### Workbench and the code

* **The sweep.** `StartJob` takes a due job of the queue, `SweepReads` is `sweep` reading
  the open tasks and `_sweep_sources`, `SweepCommits` opens and closes tasks and
  plans the next round in one commit with the job. In between, tasks are
  completed, causes come and go, and further sweeps are planned: `Advance` is
  `vervroeg_sweep`, in the transaction of what happened. A sweep that is planned by an
  event is run once and plans no successor.
* **Causes** (`Candidates`): a payment record to look at (`due`), a mail whose retry
  failed for good and that was not sent after all, a sweep that failed for good.
* **The retry.** `MailFails` and `PlanRetry` are the two transactions of `_log_email` and
  `_enqueue_retry`; `RetryHands` gives the mail to the mail server, `RetryCommits` says so in the log.
* **Failures.** `HandlerRaises` is a handler that raises before anything left;
  `DatabaseLost` loses the transaction while the scheduler's loop goes on; `Restart` is the
  process that stops and starts, with `_start_kernel_jobs` planning a sweep when
  none is pending or running.

The day of the queue stands for the hour of the sweep. The next round takes the
number of the job that is done, so that the table never fills up. A mail is retried by one job. Left out: the
texts of tasks, who they are for, and flows of several steps (`advance_flow`).

### Membership and the code

One household and the days it lives through. `today` is the number of a day; `Year` and
`DayOfYear` are the division by `DaysPerYear` and its remainder, and a setting of the tenant
(`renewal_start_md`, `next_year_from_md`) is a day of the year.

* **Rows.** `row` is `memberships`: `year`, `valid_from` and `valid_to` (`from`, `to`), `is_active`,
  and whether `deleted_at` is set; `payment` their payment records. `KeyIsFree` is the partial unique
  index of migration 053, `Sound` the check of the period.
* **Questions.** `ValidOn`, `CoverageUntil`, `RenewalOpen`, `RenewalAvailable`, `RenewalTerms`,
  `ToRenew` and `OpenPayments` are the functions of `membership/service.py` that the screens, the
  campaign and the renewal each ask. Some compare days and some compare years; the
  properties say that they agree.
* **A renewal** (`renew_membership`) is two steps: `RenewReads` reads everything it decides on -
  the window, the open payments, a row of the year - and `RenewInserts` or `RenewReuses` commits
  in a later step, on another day perhaps, whatever was committed in between. An insert that
  meets the unique index, or a provider that refuses, rolls back (`RenewFails`).
* **Money.** A payment that is booked in full activates its membership (`PaymentReceived`), late or
  after it had failed, and only if the row is not deleted; a booking that is taken
  back (`SetPaymentStatus`) leaves it active.
* **The board** adds a year, imports the member report and removes a year, each a step.

Left out: the check of `register_family` for a known e-mail address, the price, the refund of a
year that is removed (it is a record of its own), the deletion of a household, the rows of
an old import that have no dates, and a second tenant. The board adds years next to today's.

## What the runs check

| run | constants | properties |
|---|---|---|
| `Shop_one_article` | 2 sessions, 1 form, 1 article not on pre-order, 2 lines, 2 orders, quantity up to 2, 2 pieces | `TypeOK`, `IssuedOnce`, `EveryRequestEnds`; the inductive invariants `Inv` and `StockInv` |
| `Shop_two_articles` | 2 sessions, 2 forms, 2 articles of which 1 on pre-order, 4 lines, 2 orders, 1 piece | `NeverOversold`, `OneOrderPerForm`, `PlacingNeverDeadlocks`, `ClosedStaysClosed`, `CoverageIsStable`, `LedgerSpec` (Shop implements StockLedger) |
| `Shop_delivered_not_issued` | 2 sessions, 2 forms, 1 article, 3 lines, 2 orders, 2 pieces | `StockAndStateAgree`: violated |
| `Shop_cancelled_holds_stock` | the same | `CancelledHoldsNoStock`: violated |
| `Shop_crosswise_wait` | 2 sessions, 2 articles | `NoCrosswiseWait`: violated |
| `Newsletter_sent_once` | 1 letter, 1 address, 1 mail a day, batches of 2, 2 screens, 2 resends, 1 crash, 2 raising handlers, 4 jobs | `TypeOK`, `OneMailPerQueueing`, `ChainHolds`, `PauseEnds`, `PauseHolds`; the inductive invariant `MailInv` |
| `Newsletter_letters_end` | 2 addresses of which 1 a member, no screens and crashes, 1 raising handler | `EveryDeliveryEnds`, `OneMailPerQueueing`, `PauseEnds` |
| `Newsletter_restart` | 2 mails a day, 1 crash | `RestartResumes`: violated |
| `Payment_ledger` | 1 product of 1 euro, up to 2 pieces, 3 records, 2 requests that change the order, 2 changes, 1 request of the treasurer, 1 webhook call at a time, 1 crash | `TypeOK`, `BookedIsDated`, `WebhookKeepsBooking`, `ClaimFollowsOrder`, `OneOpenPost`, `PaidIsSettled` |
| `Payment_paid_in_part` | the same without changes and crashes | `PaidIsCovered`: violated |
| `Workbench` | 1 payment record, 1 mail, 3 jobs, 2 attempts, 2 raising handlers, 1 crash | `TypeOK`, `OneTaskPerCause`, `OneCadence`, `SweepGoesOn`, `RetryHandsOnce`, `CauseGetsTask`, `TaskIsClosed` |
| `Membership` | years of 3 days, 5 days from the first of year 1; the turnover on the second day, the campaign from the second or the third; 2 renewals at once, 3 memberships, 2 payments, 1 change by the board, 1 by the treasurer | `TypeOK`, `OneRowPerYear`, `RenewalBuysNewDays`, `OfferIsKept`, `WhoMustRenewCan`, `NoGap` |

*Why these bounds.* Every hazard listed for the shop is a matter of two requests:
two sessions show each of them, and a third only waits longer. Two pieces and
quantities up to two make the last piece, an order that no longer fits and a
partly filled shelf; that is the run of one article, small enough for liveness.
Two articles are needed for locks in different orders, for a
pre-order next to an article that is not, and for a change that swaps one for the
other; its four lines let a change replace a line next to another order's lines, and its
two forms make two visitors, or one who posts twice. `MaxStock`, `MaxLine`, `MaxOrder` and
`MaxQuantity` are the only bounds; a request that finds no number left ends like a
refusal (`NumbersUsedUp`). Each property is also checked against a mutant of the
code - a lock on the wrong key, a read that is not repeated under the lock, a
missing unique index - which breaks it.

For the newsletter, letters share only the daily maximum and the scheduler. What
screens, crashes and raising handlers do to one delivery is checked with one address,
where two screens and two resends give a letter two jobs; that a batch is cut by
the maximum and that an address is skipped takes two addresses, and is checked in
the run without screens. One crash leaves one job RUNNING, which is for ever;
`MaxAttempts` raising handlers make a job fail for good. `MaxJobs` is a bound on the table only: the
web leaves the scheduler the one free number its next job needs (`TableHasRoom`), so
no step of a batch waits for it.

For the payments, the hazards are a webhook between the read and the commit of a request,
and two requests that overlap. Two changes of the order show an order that grows
and one that shrinks, before and after money was booked; three records hold
the first one, a difference and a refund. With 2 euros a part can be booked. `RecordLeft` keeps a
record free for each open request, so that none waits for the bound.

For the workbench, three jobs hold the hourly chain, a sweep that an event
planned and a retry; two sweeps and a task that is completed
in between are enough for a second task. Two raising handlers make a job fail
for good, the sweep itself too.

For the membership, the day before the turnover, the turnover day and the day
after it, and the turn of the year up to the next turnover day are where the
questions could differ; the two settings open the campaign on the turnover day and after it. Three memberships
are this year's, next year's and one of an earlier try; two payments make the late
one. `WhoMustRenewCan` and `NoGap` leave out households whose years the board
changed by hand (it may remove the year in the middle). The deadlock check is off:
the last day ends.

*Fairness.* `EveryRequestEnds` is checked under `FairSpec`: a request that was
started is carried on (the server's threads are scheduled), PostgreSQL grants a
lock to its waiters in the order they came (hence strong fairness: a
waiter is not passed over for ever), and its deadlock detector runs. Nothing makes
visitors, receipts or failures happen.

`EveryDeliveryEnds` is checked under the `FairSpec` of `Newsletter`: the thread of
the scheduler runs on, days pass, and - the one assumption about the world
outside - a mail that is tried again and again is at some time accepted or
refused for good instead of answered with a used-up quota. It is checked
without crashes and with fewer raising handlers than attempts: `RestartResumes` shows
that a crash ends a letter, and a job that failed for good is a task for a person.

`PaidIsSettled` is checked under the fairness in `Spec` of `PaymentLedger`: the
provider repeats its call until it is answered, and a call that has asked is
carried out. Nothing makes the payer pay, or the treasurer or an administrator work. The
deadlock check is off in the two payment runs: when every payment is settled
and the bounded requests are used up, nothing more happens.

`CauseGetsTask` and `TaskIsClosed` are checked under the fairness in `Spec` of `Workbench`: the thread of
the scheduler runs, and hours pass. They hold while the hourly chain lives; the
two ways it ends are named in `SweepGoesOn`: it failed for good, or its job was running when the
process or the database was lost. In the second case the restart plans no
sweep either, since a job is RUNNING; it stays so until a person sees to it.

### What the documentation says and the code does not keep

* **A delivered line without a movement** (`StockAndStateAgree`). `deliver_line` checks
  the reservation, then calls `issue`. When a cancellation commits in between,
  `issue` finds no open reservation and does nothing; the line is still marked
  as delivered. The docstring: "the stock and the state never disagree".
* **A cancelled order that holds stock** (`CancelledHoldsNoStock`). `change_order_lines`
  read the order before the cancellation committed and reserves its new lines
  after it.
* **Two orders that wait for each other** (`NoCrosswiseWait`). A change releases in the
  order of its lines and then reserves by variant; the change request says that two
  orders never wait on each other crosswise. Orders that are only *placed* do not
  (`PlacingNeverDeadlocks`), and a deadlock ends (`EveryRequestEnds`).
* **A letter that stops at a restart** (`RestartResumes`). A job that was running when
  the process stopped stays RUNNING, and only PENDING jobs are taken. The docstrings:
  "a restart resumes with the next address", "A restart simply picks up the next
  pending job".
* **Paid in part and called paid** (`PaidIsCovered`). The treasurer books a part of an open record
  by hand, which dates it; then the provider confirms the online payment. The
  webhook does not book a dated record again but does set its status to PAID. Nothing
  asks for the rest then. The docstring of `PaymentRecord`: its state follows from its amounts.

A resend that read the letter as SENDING leaves its addresses to the running job;
when that job closes the letter first, nobody takes them. `ChainHolds` leaves out
this case by name.

## What is proved

Every safety invariant and every action property that a passing run checks, and the
refinement of `StockLedger`, are proved for every value of the constants that the
named assumptions in the modules allow. Where a property is not inductive - hardly
one is - the invariant that is says *why the code keeps it*; the names of its parts
are in the modules. TLC checked each of these invariants on the small instances
first.

### Shop

Assumed: variants are a finite set of numbers, the bounds are numbers, baskets are
sequences of items.

| theorem | what it states |
|---|---|
| `ShopProofs`: `TypeCorrect` | `Spec => []TypeOK` |
| `ShopProofs`: `IssuesAreOnce` | `Spec => []IssuedOnce` |
| `ShopProofs`: `ClosedIsFinal` | `Spec => ClosedStaysClosed`, an action property |
| `ShopStockProofs`: `PromisesAreKept`, `LastPieceIsSoldOnce` | `Spec => []StockInv`, `Spec => []NeverOversold` |
| `ShopStockProofs`: `GrantsAreInOrder`, `OlderOrdersFirst` | `Spec => []CoverInv`, `Spec => CoverageIsStable`, an action property |
| `ShopStockProofs`: `ShopImplementsLedger`, `LedgerIsImplemented` | `Spec => Ledger!Spec`, and the form that TLC checks |
| `ShopOrderProofs`: `FormIsAcceptedOnce` | `Spec => []OneOrderPerForm` |
| `ShopOrderProofs`: `PlacingIsDeadlockFree` | `Spec => []PlacingNeverDeadlocks` |

**What a request writes** (`Inv`). `IssuedOnce` is not inductive: it needs that the reservation
a request is about to hand over is still open when it commits. `Inv` says why: a
lock has one holder (`LocksExclusive`), and whatever a request has reserved,
released or handed over it did under the lock of the variant, which it still
holds, so the row is still as it read it (`WrittenUnderLock`). The other conjuncts
say which steps and writes a request of each kind can be at (`StepsFitKind`,
`WritesFitKind`), that what it works on exists (`InputsExist`), that the line it has
inserted is its own (`InsertedIsOwn`) and that a reservation is of its line's variant
(`RowsAgree`).

**What it has checked** (`StockInv`). `NeverOversold` is about committed rows, and what a
request commits it has checked long before. `StockInv` keeps the check alive:
`PromisesFit` says that for every request, if it committed now, what is then
reserved would fit the shelf, and `HandedIsThere` that what it hands over is
there. Other requests cannot spoil it: they write only variants whose lock they
hold. The sums are cardinalities of sets of pieces (`StockOpsProofs`).

**Who comes first** (`CoverInv`). A line is covered when the stock is enough for it and all older
ones. That it stays so needs that nobody slips in before it: what a request reserved is the
youngest of its variant until its commit (`GrantedLast`). `deliver_line` asks whether its line
is covered without the lock; `DeliversCovered` says that the answer is still right when it
issues, as long as the reservation is open.

**The refinement.** The mapping shows a row that is not committed as none. A commit is then
one `Settle` of the ledger - grants, releases and issues at once - whose conditions
are what `StockInv` and `CoverInv` say of the request at that moment; a receipt and
a correction are their own steps; every other step stutters.

**One order per form** (`FormInv`). The insert of an order and its commit are different steps, and
another post of the form may run between. `OrderIsOwn` says that a request that inserted holds the
key of the unique index, and that no order of its form was accepted before.

**No deadlock** (`WaitInv`). A request that places orders locks the form first, while it holds nothing
(`FirstLockIsForm`), and then the variants in order (`LocksAscend`, `ReservesNextItem`). A
set of requests that all wait for each other would need one that waits for the
highest variant and holds a higher one; the set of the variants is finite, so there is a
highest.

### Newsletter

Assumed: jobs are about letters among other subjects, the addresses are a finite
set of numbers, the bounds are positive.

| theorem | what it states |
|---|---|
| `MailInvariant`, `MailTypeCorrect` | `Spec => []MailInv`, `Spec => []TypeOK`; with it, that no job is tried more than `max_attempts` times |
| `NobodyGetsItTwice` | `Spec => []OneMailPerQueueing` |
| `ChainInvariant`, `ChainIsUnbroken` | `Spec => []ChainInv`, `Spec => []ChainHolds` |
| `PausesEnd`, `PausesHold` | `Spec => []PauseEnds`; `Spec => PauseHolds`, an action property |

**The mails** (`MailInv`). `OneMailPerQueueing` says nothing of the delivery whose mail
goes out next. `MailInv` adds that no mail has left of what is queued
(`QueuedIsUnsent`) or left of the batch (`BatchIsUnsent`), but for a doubtful one and for the
one whose mail just left (`Unwritten`): that one is either committed, and then
no longer queued, or lost in a crash, and then doubtful. Both conjuncts are
needed, since a screen may write a delivery that is in the batch. `RunHasJob` and
`BatchIsStarted` tie the batch to its job and letter, and `DraftIsUnsent` is for the
step that starts a letter.

**The chain** (`ChainInv`). A job is done after its batch, so `ChainHolds` could break at `FinishJob`. It
does not, because a letter that is still being sent then has *another* job
(`SendingGoesOn`): the one the batch planned, the one a screen made when it read the
letter as sent, or - when the job found its letter paused - the one of the next day
(`PauseHasJob`), which is another, since the running one is committed as RUNNING
(`RunIsCommitted`). `BatchIsUnpaused` is for `PauseHolds`: only a letter's own job
pauses it, and there is one scheduler.

### PaymentLedger

Assumed: the products are a finite set with prices that are numbers, `None` is no number, there is
room for a record.

| theorem | what it states |
|---|---|
| `Invariant`, `TypeCorrect` | `Spec => []Inv`, `Spec => []TypeOK`, the CHECKs of the table included |
| `NoPaidWithoutDate` | `Spec => []BookedIsDated` |
| `WebhookBooksOnce` | `Spec => WebhookKeepsBooking`, an action property |
| `ClaimFollows` | `Spec => ClaimFollowsOrder`, an action property |
| `OnePostIsOpen` | `Spec => OneOpenPost`, an action property |

**The invariant.** A request writes what it computed from what it read, and commits later. That the
rows keep their CHECKs needs that what it read kept them (`ReadIsSound`) and exists still
(`RecordsStay`); that a booking keeps its date, that a date the treasurer read is still there
(`DatesKept`). `LinesAreLocked` says that two changes of the order
never write the same line - the lines are locked when they are flushed - and `RecordForEach`
that the bound on the records does not stop a request that is open.

**The sums.** `ClaimFollowsOrder` is an equation between a sum over the records and one over the
products, of any number of them. What a sum over a finite set is has to be
proved first: the library's induction takes an operator, so the lemmas (`SumRest`,
`SumTakesOut`, `SumIsSame`, ...) use instead that the subsets of a finite set, ordered by strict
inclusion, are well founded: a counterexample would have a smallest one.

### Workbench

Assumed: the jobs are about sweeps and mails, which are different things, and the table has
a first job.

| theorem | what it states |
|---|---|
| `Invariant`, `TypeCorrect` | `Spec => []Inv`, `Spec => []TypeOK` |
| `TasksAreOnce` | `Spec => []OneTaskPerCause` |
| `RetriesHandOnce` | `Spec => []RetryHandsOnce` |
| `CadenceIsOne`, `SweepsGoOn` | `Spec => []OneCadence`, `Spec => []SweepGoesOn` |

**The invariant.** A sweep opens a task for a cause that had none when it read. `TasksWereSeen` says
that a cause that has a task when the sweep commits had it then: only sweeps open
tasks, and one job runs at a time. `OneRetry` and `HandedIsOver` follow a mail: its retry is planned
once, and a retry that handed the mail over and was interrupted stays RUNNING for ever.
`OneSweep` counts the hourly sweeps that have not failed for good, an interrupted one
among them: each plans one successor, and a start plans none while it sees one.

### Membership

Assumed: a year has days and fits the bound on the days, the settings are days of a year.

| theorem | what it states |
|---|---|
| `OneMembershipPerYear` | `Spec => []OneRowPerYear` |
| `Invariant`, `TypeCorrect` | `Spec => []Inv`, `Spec => []TypeOK` |
| `NoDayIsSoldTwice` | `Spec => RenewalBuysNewDays`, an action property |
| `OffersAreKept` | `Spec => []OfferIsKept` |
| `CoverHasNoGap` | `Spec => []NoGap` |
| `CampaignIsAnswered` | `Spec => []WhoMustRenewCan` |

**One membership of a year** is nearly inductive: an insert meets the unique index,
and no other write changes a year or brings a deleted row back. `RowInv` adds that a
row is a record, so that a write of one column leaves the others as they are;
no types and no assumption on the constants are needed.

**The other properties** (`Inv`). A row of the year a renewal is for ends with that year, so that
reusing it moves no end. A sign-up late in the year is the exception: it is
labelled with its own year and ends with the next. `LateSignUps` says that such a label lies
before the year any renewal is for by now, and `RenewalsFit` that what an open
renewal found still has its year and its end: rows change their `from` only. `Joined` says that a period
that starts later than today starts the day after an active membership ends,
for the memberships and for the renewals under way; the board may break that, by
removing the year in the middle. `NoGap` follows: of the active memberships that end on or
after a day, the one that ends first began before it, since otherwise it joins on to one that
ends earlier and still not before that day. `CampaignIsAnswered` is the same argument with the last day of
the year the campaign is for.

### Only model-checked

The liveness properties (`EveryRequestEnds`, `EveryDeliveryEnds`, `PaidIsSettled`, `CauseGetsTask`,
`TaskIsClosed`): liveness under fairness is out of the prover's reach. The five runs that
expect a violation show a behaviour of the code, for which one instance is enough.

## What is not modelled

* **Registrations** (`domains/activities`): their payment records are in `PaymentLedger`;
  the capacity of a part is not. It is counted without a lock, so the one
  property worth stating does not hold as soon as two visitors register at once.
* **Flows of several steps** (`domains/workflow`): two completions of one task both
  advance the flow, which for the one flow a tenant is given, of one step, does nothing
  the second time.
* **Two renewals that both reuse one row** (`domains/membership`): `Membership` has them. Each read
  that no payment was open, so the household has two open payments for one year. No
  property forbids it, since it would not hold. Nor is a payment refused that comes
  after the period it pays for is over.
* **mdm, product, pricing, auth**: what they promise is about validity dates
  and references, by one request at a time.
* **forms, cms, media, meetings, designstudio**: editors of rows and files; **chatbot,
  reporting, ui**: they keep no state of their own; **kernel** but for its jobs and the form
  guard: mechanism without state (events and ports run in the caller's
  transaction, and are modelled as such).

## Running

    tlc -workers 2 -config Shop_one_article.cfg MCShop
    tlapm StockOpsProofs.tla
    tlapm ShopProofs.tla
    tlapm ShopStockProofs.tla
    tlapm ShopOrderProofs.tla
    tlc -workers 2 -config Newsletter_sent_once.cfg MCNewsletter
    tlapm NewsletterProofs.tla
    tlc -workers 2 -config Payment_ledger.cfg MCPaymentLedger
    tlapm PaymentProofs.tla
    tlc -workers 2 -config Workbench.cfg Workbench
    tlapm WorkbenchProofs.tla
    tlc -workers 2 -config Membership.cfg MCMembership
    tlapm MembershipProofs.tla

# FlexoHost billing backend: verification

TLA+ models of this backend's components, each with the requests, cron tasks and
workers that change its documents at the same time: the task lock, the queues and
their workers, the life of services, renewals and payments, domains and their
registrars, invoices, orders, affiliates, accounts, servers and the rest. TLC checks each model on a small
instance, and TLAPS proves the theorems for every value of the constants.
Paths below are under `src/src/modules/` unless they start with `docs/`
(`src/docs/`); `PROJECT.json` maps every definition to its lines.

## The system

An Express server over MongoDB, started as one or more processes. Everything
that lasts is a document; a process keeps in memory only `runningTasks` and the
calls it is executing. Work comes from

* **requests**: clients order and pay, the gateway calls back, administrators
  act on services, jobs and invoices;
* **cron tasks**: `automation.scheduler.ts` starts every task of
  `automation-task.registry.ts` at its interval, in each process, through a lock
  document with a lease;
* **workers**: cron tasks (also started by hand) that take batches of jobs from
  a collection and call a provider (WHM, a registrar).

A handler reads documents, awaits, and writes them. Between any two awaits every
other actor may act, and a process may die. Few handlers use a database transaction
(the payment callback, `createOrder`, and the registrations of accounts); everything else
relies on conditional updates, unique indexes and the order of its writes. This is
what the models are about.

### Components

| component | its state | operations | calls | hard parts | what makes it correct |
|---|---|---|---|---|---|
| task scheduler, task lock | `AutomationTaskLock`, `AutomationRun`, `runningTasks` | tick, manual run, acquire, release | every cron task | two processes, leases that run out, failures between acquire and release, restarts | one run per lease; no release of another's lock; nothing stays locked |
| service action queue | `ServiceActionJob`; the account at WHM | insert, batch, execute, settle, retry | WHM | overlapping workers, stale locks, unfenced saves | the verdict of a job agrees with what was done; jobs settle |
| service lifecycle | `Service.status`, dates in `meta` | suspend overdue, suspend and terminate by date, restore on payment, admin actions | queue, WHM | decisions from stale reads, crash between a status and its job | nothing is destroyed or queued without reason; suspensions reach the queue |
| provisioning | `ProvisioningJob`, `Service`, `Order` | `handleInvoicePaid`, batch, provision, retry, cancel, delete | providers | the trigger and two workers on one service, faults after the provider accepted | nothing before payment; jobs and services reach an end |
| renewals | `RenewalLedger`, `Invoice`, `nextDueDate` | invoice due services, apply a payment | mail | crash between invoice and ledger, concurrent handlers | each cycle invoiced and paid once |
| payments | `Invoice`, `PaymentTransaction`, `Order` | callback, manual payment, status change | the five components that follow | redirect and IPN at once, stale saves, death after commit | credit is backed by money; a payment reaches every component |
| invoices: edits, reminders, late fees | `Invoice`, `InvoiceReminderLog` | edit, pay by hand, bulk actions, daily sweep | mail | saves of documents read earlier, a hook that recomputes them | a paid invoice is not unpaid by a sweep |
| domains | `DomainServiceDetails`, `Service`; the domain at the registrar | import, confirm, provision, transfer, edit, synchronise | registrars | names without an index, stale readings, answers lost | one record per name; the record ends with what the registrar has |
| domain renewals | `DomainRenewalJob`, `expiresAt` | queue on payment, renew, retry | registrars | a registrar that renewed although the worker died | renewed once per invoice, but for named crashes |
| registrar routing, registration | TLD documents and caches, settings, the answer to a bulk request | look up, change, search, register | registrars | caches of several processes, partial bulk results | a route is no older than the cache's time to live; the answer is true |
| affiliates | commissions, credit, payouts | commission, reverse, redeem, pay out | invoices | two calls for one invoice, allocation document by document | one commission per buyer; credit adds up |
| orders, promotions | `Order`, `Promotion.usageCount`, `PromotionUsage` | check out with a coupon, edit, delete | invoices, affiliates | limits checked outside the transaction | a coupon stays within its limits |
| billable items | `BillableItem`, `Invoice` | nightly invoicing, edits | invoices | death between the invoice and the item | each cycle once, and no more than the limit |
| hosting accounts, trials | accounts on servers, `HostingServiceDetails`, item and service `meta` | choose a server, create, reconcile; convert, suspend | WHM | count and create apart, four callers of one creation | capacity is not exceeded, and paid hosting not suspended as a trial, but for named crossings |
| editing a service | `Service.meta`, price, the account's password | notes, dates, profile, status, package, password, creation | WHM | the whole `meta` written back from what was read, before or after a call of the panel | what was noted is kept and the password shown opens the account, but for named crossings and failures |
| panels | `Server`, usage snapshot, mailbox | enter, copy, edit, test, count, measure | WHM | whole documents written back | a server that can be called stays so |
| users, clients, roles | `User`, `Client`, `Role` | register, sign in, complete, administer, delete | - | transactions with snapshots, hooks that hide documents, crossing sign-ins | every account has its profile; the lock takes |
| tickets, notifications | `Ticket`, messages, `Notification` | open, reply, note, status, resolve, read | - | a computed status over a newer one | a client's reply asks for an answer |
| reminders, alerts, digest, mail | logs, alert state | remind, alert, recover, digest | mail | sent before recorded | once each; administrators hear of failures |
| catalogue | `Product`, `Currency`, rates | create, copy, rename, choose the default, quote | - | looked at, then written | names and numbers differ |
| access grants, settings, dashboard, uploads, migration, activity log | documents, files | create, read, update, delete | - | - | - |

### How the modelled components interact

```
 gateway --> Payment --(after commit, in order)--> handleInvoicePaid ----> ProvisioningQueue
                                               --> affiliates, trials
                                               --> onInvoicePaidUnsuspend --> ServiceLifecycle
                                               --> applyRenewalPayment ---> Renewals
 AutomationTaskLock --starts--> crons of Renewals and ServiceLifecycle, both workers
 ServiceLifecycle --inserts jobs--> ServiceActionQueue --> WHM account
```

`ServiceLifecycle` EXTENDS `ServiceActionQueue` and composes with it: its actions
use the queue's own `Insert`, and its worker is the queue's. `Payment` stands
before the others: its `FanOut` is the call that starts the restoring handler of
`ServiceLifecycle`, the trigger of `ProvisioningQueue` and the applier of
`Renewals`, each of which may be called late or twice there, because `Payment`
shows that it can be. `applyRenewalPayment` goes on to the jobs of `DomainRenewals`.
The other modules meet these only through what `Payment` calls and what they read;
each has the foreign document it needs as a variable that others may change.

## Modules

**`AutomationTaskLock`** - `pc`, `source`, `host`, `key` of a run are the local state of
`runWithAudit`; `lock` is the lock document, `runningTasks` the set of each process,
`now` the clock. One action per await of `runWithAudit`: `Acquire` is the
`findOneAndUpdate` with its upsert (a loser gets the duplicate key, which `acquire`
takes for "not acquired"), then `StartRun`, `EndBody`, `CompleteSuccess` or
`CompleteFailure`, and `Release`, each with an action for its failure. `Leave` is the
`finally` of the scheduler. `Crash(p)` ends the runs of a process and empties
`runningTasks`; `stop()`, which is called on SIGTERM only, stands under it.
**`LeaseMutex`** is the abstract lease: a holder per task and a set of clients
inside; a grant needs a free lease, and a holder leaves or loses it.

**`ServiceActionQueue`** - one job per key (service, action, invoice), which is the
unique index. A worker goes through `Find`, `Lock`, `Load`, `Call` and `Save`, as
`processQueuedJobs` does; `found`, `todo` and `loaded` of a worker are its
local variables, so that it saves the attempts and the verdict of the document it
loaded over whatever is there by now. A lock gets old (`LostLockGoesStale`, and
`LiveLockGoesStale` for a slow worker), a call dies (`Abort`), a save of a success is
rejected and taken for a failure (`SaveRejected`), an administrator queues a job
again (`RetryRead`, `RetrySave`). `remote` is the account on the server.

**`ServiceLifecycle`** - the sweep over overdue invoices (`SweepStart` reads them,
`SweepSuspend` and `SweepQueue` work on them one after another, `SweepDates`,
`SweepDateSave`, `SweepDateQueue` on the dated ones), the handler of a payment
(`RestoreRead`, `RestoreSave`, `RestoreQueue`), the reaper (`ReaperStart`, `ReaperSave`,
`ReaperQueue`) and the administrator (`AdminCallWhm`, `AdminSave`, `AdminSetDates`).
Each has an `...Abort` for its death or a rejected call. Its next-state relation
includes the queue's.

**`ProvisioningQueue`** - an order with its items, services and jobs.
`processSingleJob` is cut at its awaits (`CheckInvoice`, `Defer`, `ReadService`, `Skip`,
`Make`, `Mark`, `Call`, `Activate`, `Succeed`, `Finalize`), with both catch clauses (`Fail`,
`Requeue`); `handleInvoicePaid` likewise (`Trigger...`). A worker and a trigger write
whatever the status is by now, as the code does. Hosting is provisioned by the
trigger itself, other types through jobs. Others write the status as well: an
administrator may cancel, suspend, unsuspend, terminate or set any status (`AdminCancel`,
`AdminSet`, which ask only whether the service exists), and the sweeps and payments of
later invoices suspend, restore and terminate a service they found in use (`Sweep`); both
write when they get to it (`AdminWrite`), whatever the service is then. A worker takes any
status past provisioning for its own success (`ReadService`), however it came about.

**`Renewals`** - `horizon` is the latest cycle in reach of the lead days; `nextDue` of a
service is the cycle it pays next; `ledger` has the unique entry per service and
cycle; `bill` the invoices. The cron reads, checks the ledger, creates an invoice per
group and inserts the entries in four steps; the handler of a payment reads, decides
per service, saves the date, and settles the entry. Dates are cycle numbers: adding a
billing cycle is +1.

**`Payment`** - one invoice, its gateway sessions and the requests that change it.
A callback validates, reads, checks and writes in a database transaction (`writer` is
the open transaction that has written the invoice; another one that writes it
conflicts); a manual payment and a status change read and save. `Saved(c)` is
Mongoose's `save()`: the fields that differ from the ones read. `FanOut` calls the
components one by one, in the order of each handler.

**`DomainRegistry`** - for each service its details and status, for each name the
registrar's state and whether we hold it. A caller (a request or the cron) has a record
`call` with what it has `seen` and what the registrar said (`live`); the actions are its
awaits: a start for each operation, `LiveAnswer` or `LiveFails`, `Assert` (is the name
linked?), `ImportCreate`, `Upsert`, `Attach`, `Confirm`, `Store`, `SyncService`, `Register`,
`Persist`, `Activate`, `SendSetting`, `StoreSetting`, and `Dies`. An administrator's status is
two steps, `AdminStatus` of the service and `AdminDetails` of the record. `Scheduled` are the two
tasks of `domain-sync.scheduler.ts`: the expiry synchronisation starts on a record that is `Due`,
the transfer synchronisation on one `InTransfer` (`Poll`, `PollFails`), and both make a record
`fresh` (`lastRegistrarSyncAt`) as every other answer does, until `DayPasses`. `World` is what
happens at the registrar alone, and time.

**`DomainRenewals`** - the jobs made by `processPaidDomainRenewal`, one per invoice and
service (the unique index), the registrar's expiry date and ours, two workers that
find, lock by `_id`, check, call and save, and the administrator's retry.

**`Registrars`** - three independent machines over their own documents: the TLD cache and
the default registrar of each process (`Tld...`, `Standard...`), the settings with their
secrets (`MergeConfig`, `WriteConfig`), and a bulk registration grouped by registrar
(`TakeGroup`, `BulkCall`, `SingleCall`, `EndBulk`).

**`Affiliates`**, **`Checkout`**, **`InvoiceBook`**, **`BillableItems`**, **`HostingAccounts`**,
**`Accounts`**, **`Tickets`**, **`Notices`**, **`Panels`**, **`ServiceDesk`**, **`Catalogue`** - the documents of each
component, and a record per request or run under way: `at` says at which await it is, the
rest is what it has read. Each module's head names its files and what it leaves out.
`Checkout` and `Accounts` have the transactions of the code: reads as of the first read, a
write to a document that changed since aborts. `InvoiceBook` has Mongoose's save (only
changed fields; replacing an array checks the version) and the model's hook. `Notices` has
the sender, the record of what was sent, and deaths between the two.

**`MCBusiness`** - one run over these eleven and `Registrars` (see Runs).

**`MC...`** restrict the specifications for TLC, by bounds and by the order in which
equal requests come; **`..._proofs`** hold the theorems, and **`Sums`** the facts about sums they share.

### Approximations

* UNPAID stands for OVERDUE: no modelled guard tells them apart.
* `AdminCancel` writes the service and its invoice in one step; no modelled actor
  reads the second between the two.
* In `ProvisioningQueue` a job made after `AdminDelete` for the same item has the
  place of the deleted one, and a provider call that `withTimeout` gave up is a failed
  call: whether it took effect is known to nobody in the system.
* `AdminSet` and `Sweep` stand for the writers of `Service.status` outside provisioning by
  what they may write and when; their own conditions (dates, invoices) are in
  `ServiceLifecycle` and `HostingAccounts`. A sweep on a date an administrator gave is an
  `AdminSet` that is carried out late.
* In `DomainRenewals` an invoice that was paid stays paid, so that the worker's check of it
  (`domain-renewal.worker.ts:86-89`) passes always. An administrator's transfer status of a record
  that is no transfer is left out of `DomainRegistry`: nothing reads it.
* `BillableItems` and `Notices` have one run of a task at a time. A run that outlives the lease of its
  lock, twice the interval (`automation-task-lock.service.ts:9-17`), is left to
  `AutomationTaskLock`; what two such runs would bill or send is not modelled.
* `ServiceLifecycle` has the jobs of the billing sweeps, of payments and of administrators; those of
  the trials' sweep and of `convertTrial` are in `HostingAccounts`.
* E-mails, audit logs and notifications are left out; where the code awaits them
  without catching, their failure is part of the abort or fault that follows.
* Prices are left out and money is a number of units; exchange rates are only in
  `Catalogue`, and of a service's price `ServiceDesk` keeps the currency.
* Properties that crossings break in the code say so by what they except: `mark`, `past`,
  `met`, `log`, `posted`, `told`, `changes` and `history` record the crossing, and the property says that
  nothing else does it.

## Runs

| run | instance | what it shows |
|---|---|---|
| `task_lock` | 3 runs of one task, 2 processes, lease 2, clock to 3 | `LeaseExclusion`, `ReleaseFenced`: a run inside on a valid lease is alone, and late releases are harmless. `AbstractLease`: the lock implements `LeaseMutex`. `RunningTasksExact`, `TasksGoOn`: neither `runningTasks` nor a leaked lock stops a task for good |
| `service_action_queue` | 1 service, 1 job of any of the 3 actions, 2 workers, 2 attempts; 1 crash or rejected save, 2 slow workers, 1 retry, at most 2 disturbances together | `ResultsJustified`: what a final status means although two workers save in any order, and no provider call goes uncounted. `JobSettles`: every job ends |
| `service_lifecycle` | 1 service, 1 invoice, 1 worker, 1 attempt, 3 dates, 1 fault | `ActionsDecided`, `SuspensionQueued`; `QueueRefinement`: seen from the queue, everything above is an insert, a call of an administrator, or nothing |
| `provisioning` | 2 items (one hosting), 2 workers, 1 trigger; a crash, a slow worker, a fault, 2 operations of administrators or sweeps, at most 2 of them | `WorkJustified`: no job worked on twice at once, unpaid or for nothing. `ProvisioningSettles`: jobs and services reach an end |
| `renewal` | 2 services, 2 cycles and 2 invoices, 1 cron, 2 handlers, 1 disturbance | `InvoicedOnceUndisturbed`, `CyclesPaid`: the due dates tell what was paid. `RenewalsGoOn`: due leads to invoiced, paid to advanced |
| `payment` | 2 transactions, 3 requests, a total of 2 units, 1 fault | `MoneyAccounted`: a payment counts once, in the invoice, its records and what it sets going. `PaymentReachesAll` |
| `domain_registry` | 2 services (one ordered, one discovered), 1 name, 2 requests and the cron, 2 operations, 1 fault | `LinkedOnce`, `RecordsConverge` |
| `domain_renewals` | 2 invoices of 2 clients over 2 cycles, 2 handlers, 2 workers, 2 registrars, 2 attempts, 1 trouble | `RenewedOnce`, `PaidIsRenewed` |
| `business` | 21 scenarios, each two requests or runs at once over 1 or 2 documents (below) | a property of each component, and `BusinessTypeOK` |
| `unsuspend_reorder` | as `service_lifecycle`; no faults, administrators or dates, 3 attempts, SUSPEND before UNSUSPEND within a batch | **violated**: `UnsuspendedOnPayment` |
| `paid_not_suspended` | as `service_lifecycle`; no faults, administrators or dates | **violated**: `PaidNotSuspended` |
| `duplicate_renewal_invoice` | as `renewal` | **violated**: `InvoicedOnce` |

### The `business` run

The components of this run share no document, so that a state of two of them shows
nothing that the states of each do not. A behaviour of `MCBusiness` is therefore about one
of them, or one independent part of one: its `scenario`. All of them are INSTANCEs over the
same variables `v1`, `v2`, ...; those a scenario has no use for stay 0. Two requests, two
documents where numbers or names can clash, and one where they cannot; the sets of model
values are exchanged for each other (symmetry), since no action names one of them.

| scenario | property | what can break it |
|---|---|---|
| `affiliates` | `AccountsAgree` | a payment handled twice, an allocation cut short, a reversal beside a redemption |
| `checkout` | `CouponWithinLimits` | two orders with one coupon, edits of the coupon in between |
| `invoices` | `PaidKept` | a sweep or an edit saves a copy read before the payment |
| `billables` | `BilledOnce` | the cron dies between invoice and advance, the administrator edits |
| `hosting` | `HostingSound` | creations that cross, answers that are lost, trials whose end meets the payment |
| `services` | `HostingSound`, `EditsKept` | two of notes, dates, profile, package, password, creation and the trigger on one service; deaths and lost answers of the panel |
| `accounts` | `AccountsKept` | three routes of registration, deletions, crossing sign-ins |
| `tickets` | `ReplyAsksAnswer` | replies, notes and status changes that cross |
| `mail`, `reminders`, `alerts`, `digest` | `NoticesReach` | deaths between sending and recording, recipients that come and go |
| `lookups`, `standard`, `settings`, `bulk` | `RegistrationsSound` | caches of two processes, lost rows, a registrar that throws |
| `servers`, `calls` | `EditsKept` | two administrators on one server |
| `products`, `currencies`, `rates` | `BusinessTypeOK` (names and numbers differ) | two administrators who look, then write |

### Bounds

Every hazard these runs look for needs two actors on one document: two workers,
two handlers, or a worker and an administrator, so two of a kind suffice, and three
runs where the third acts between the late steps of the others (`task_lock`: the
owner of an expired lease, the new owner, and one that waits). Two attempts tell
"one too early" from "exhausted"; a lease of 2 and a clock of 3 let it run out while
its run is inside. `MaxCrashes`, `MaxSlow`, `MaxFaults`, `MaxRetries`, `MaxAdmin` and
`MaxDisturbances` bound how often something goes wrong. The lifecycle run has one
worker and no worker crashes: the queue's own run has those, and `QueueRefinement`
says why it stands for the composed one. The batch limit of 10 is never reached, so
starvation behind deferred jobs is outside the `provisioning` run.
`MCProvisioningQueue` starts with hosting items before others, lets a payment leave
the order's status alone (the callback would make it PROCESSING), and of two operations of
administrators and sweeps has a sweep as the second; the `renewal` run has
one cron, since two at once are excused by the premise of `InvoicedOnceUndisturbed`.

`domain_registry` has one name and two services that can come to hold it: links are made and
looked for name by name. A year passes once, so that a domain expires and lapses; the two
operations are the two that cross, beside the cron, which is not bounded; a request takes the
first free slot, as slots differ in nothing, and less than a day. `Batch` is 1 for the code's 20,
so that one record that cannot be synchronised fills it. `domain_renewals`
has two invoices and two cycles, because an older one's job may run after a newer one's, and takes its
workers, handlers and clients for equal (`Alike`: no action names one).

Each scenario of `business` has two callers at once, and `MaxCalls`, `MaxWrites`,
`MaxPosts`, `MaxVisits`, `MaxRequests` leave each of them a second request after its first: crossings need
one that begins while the other is under way, and what a crossing left shows in the next.
`Accounts` has a third user, the superadministrator that the seeders make. Capacity is 1, so
that the second account is the one too many; `Ttl` is 2 ticks, so that an entry is used once
while fresh. The symmetry exchanges elements of the four sets of model values; no property
and no action chooses among them but by `\E`.

The runs set `CHECK_DEADLOCK FALSE` where the bounds end the behaviour: requests,
invoices and cycles run out there, as they may in the system.

### Findings

* **Unsuspend on payment** (`docs/AUTO-RENEWAL-CRON-CHECKLIST.md:32`). Two ways in
  which a paid service stays suspended without any fault. The sweep sets the service
  SUSPENDED and inserts its SUSPEND job some awaits later; a payment in between restores
  the service, its UNSUSPEND job is executed, and then the SUSPEND job
  (`unsuspend_reorder`). Or the sweep read the invoice before it was paid and suspends the
  service after the payment handler found nothing to restore (`paid_not_suspended`); the
  sweep written for this case, `processOrphanedSuspensions`, has no caller.
* **No duplicate renewal invoices** (`docs/AUTO-RENEWAL-CRON-CHECKLIST.md:15`). The
  ledger entry is written after the invoice. A cron that dies in between leaves an
  invoice the ledger does not know (`duplicate_renewal_invoice`).
* Outside any run: the unique index of `PaymentTransaction` has `$ne` in its partial
  filter (`transaction/transaction.model.ts:86`), which MongoDB does not support in
  partial indexes and so does not build. `Payment` therefore has no such index: two callbacks
  of one transaction that cross are both recorded and both call the other components, and
  `FanOutTwiceOnlyCrossing` says that no others do.

## Fairness

Weak fairness is assumed only of what the process does by itself: a run or a call
that is alive takes its next step, time passes, the cron comes back, and the lock of
a call that is gone gets old. In `AutomationTaskLock` the body of a task is not fair,
since tasks await remote calls without a timeout, and `CronSlotFreed` (in `TasksGoOn`) says
so. In `ServiceLifecycle` only the sweep is fair. Nothing forces payments, administrators,
crashes, retries or slow workers. Provider calls of workers end: the provisioning
worker has `withTimeout`, and WHM requests answer or fail.

`DomainRegistry` has the one strong fairness, of its two scheduled tasks: the cron can start on
a record only while it works on no other, so weak fairness would let it serve the other
record forever. What it grants each record is what the queries grant it:

* the transfer synchronisation takes every pending transfer in each run, without a limit;
* the expiry synchronisation takes records that were not synchronised for a day, 20 at a
  time (`domain-sync.scheduler.ts:144-154`) and in no stated order. A record that cannot be
  synchronised is found again by every run, and 20 of them can keep it from all others. The fairness
  therefore holds only while fewer than `Batch` are `Stuck`, and `RecordsConverge` promises nothing
  unless that is so from some time on. We assume besides that the 24 hourly runs of a day have
  room for the records that fall due in it;
* a pending transfer of an active service is made fresh by every poll (`:105`, `:114`), so that a day
  never passes for it: `DayPasses` is not fair while `Polled`, and such a record is promised
  only that its transfer has not ended unnoticed. Its expiry date and settings may be wrong
  for as long as the registrar reports the transfer as pending, which Namely always does.
  Without this exception TLC finds the property violated.

TLC finds the property to hold in this instance without the premise on `Stuck` too: within its
bounds no record that could be synchronised is starved by one that cannot. The starvation itself is in the hazards list and shown by no run.

In `DomainRenewals` running handlers and workers go on and locks nobody holds
get old. The components of `business` are checked for safety only.

## Proofs

Eight modules hold them. What a theorem is "for any" of are the constants of its modules, under their
named assumptions.

`Scheduler_proofs`, of `AutomationTaskLock`, for any tasks, processes and runs, any lease
length and clock bound:

* `TypeCorrect`: `LockSpec => []TypeOK`.
* `LeaseIsExclusive`: `LockSpec => []LeaseExclusion`. It is not inductive: two runs may hold
  only because the document names one of them. `LeaseInv` adds `StampPast` (a run took
  the time of its lease in the past) and `LeaseHeld` (a run inside on a valid lease is the
  owner in the document, with exactly the end it computed).
* `ReleaseIsFenced`: `LockSpec => ReleaseFenced`, from `LeaseInv`: the filter on `ownerId` and
  uniqueness of owners.
* `LockImplementsLease`: `LockSpec => AbstractLease`. `InsideIsHolder` relates the two mapped
  variables; `TakingIsAbstract`, `ShrinkingIsAbstract` and `StepOfTask` show that every step is
  a grant, a loss or a stutter for each task.
* `RunningTasksAreExact`: `LockSpec => []RunningTasksExact`, from `SlotInv`.

And of `Renewals`, for any services, cron calls, handlers, cycles and bounds:

* `RenewalTypesHold`: `Spec => []RenewalTypeOK`.
* `CyclesInvoicedOnce`: `Spec => []InvoicedOnceUndisturbed`. Undisturbed, one cron call at most is
  at work (`OneCron`), what was invoiced is in the ledger or that call is about to enter it
  (`EnteredInLedger`), and what it has found to be fresh is on no invoice (`FreshIsFree`).
* `DueDatesTellPayments`: `Spec => []CyclesPaid`. That no cycle is free holds whatever happens
  because `NothingFree` says the same of every due date that was read: those in invoices and
  in what cron calls have in hand. That a paid cycle is passed needs `Passing`: while handlers
  do not overlap, die or get refused, one is at work, the entries marked as paid, with the
  one it is about to mark (`Pending`), are exactly the cycles passed, and no date in hand is
  ahead of its service (`DatesBehind`).

`ServiceLifecycle_proofs`, of `ServiceActionQueue`, for any services, invoices, workers, attempts and bounds:

* `QueueTypeCorrect`: `QueueSpec => []QueueTypeOK`.
* `FailedOnlyWhenExhausted` and `SuccessOnlyIfAccepted`, from `ResultInv`. A worker settles a
  job with what it loaded, so the invariant speaks of the loaded documents:
  `LoadedWasCounted` (the attempts a worker loaded are not above the job's unless it was
  retried), `OkWasAccepted` (a worker about to save a success saw one, or its service is
  gone), `RetryIsKnown` (an administrator who read a job is on record as retrying it).
* `ResultsAreJustified`: `QueueSpec => []ResultsJustified`. That a job never retried sees at most
  `attempts` calls is not inductive either: a worker that has locked its batch is still owed
  calls. `CountInv` bounds the calls made plus those to come (`ToCall`, the workers with the job
  in their batch before its call), and needs `BatchesKept` (a worker's batch holds what it
  locked) and `OwnersAtWork` (the owner of a running job has it in its batch).

And of `ServiceLifecycle`, for any services, invoices, links between them, dates and bounds:

* `LifecycleImplementsQueue`: `Spec => QueueRefinement`. Every action of `ServiceLifecycle` is,
  for the variables of the queue, `Enqueue` (the sweeps, the reaper and the payment handler,
  through `QueueIsEnqueue`), `AdminCall`, one of the queue's own steps, or a stutter.
* `ResultsJustifiedInLifecycle`: `ResultsAreJustified` carried over by this refinement.
* `LifecycleTypeCorrect`: `Spec => []LifecycleTypeOK`.
* `ActionsAreDecided`: `Spec => []ActionsDecided`. Who acts does so on documents read long
  before, so `DecisionInv` says of everything carried along that it was decided: what the
  reaper or an administrator has in hand (`ReaperDecided`, `AdminActs`), what the sweep read
  (`SweepOverdue`), what a payment handler has left to do (`RestorePaid`), and what workers
  found, locked and called (`JobsExist`, `TerminationsDecided`).

`ProvisioningQueue_proofs`, for any items, workers, triggers, attempts and bounds:

* `ProvTypeCorrect`: `Spec => []ProvTypeOK`.
* `WorkIsJustified`: `Spec => []WorkJustified`, from `WorkInv`. That two workers never have one
  job in hand is not inductive: it rests on `HeldIsLocked` (the document of a held job bears
  the lock of its holder, or has ended, unless its lock went stale or it was queued again)
  and `OneAtATime`. That nothing is touched before a payment rests on `UnpaidAtRest` (no
  worker has got past its look at the invoice, no trigger has started). What a final status
  means rests on `Explained`: what workers, triggers, sweeps and administrators are about to
  write, from what they read some awaits ago, already has its reason in `history`: a provider
  accepted the item, or an administrator decided (`Provisioned`, `Resolved`).

`Domains_proofs`, of `DomainRegistry`, for any number of services, names, requests and registrars:

* `DomainTypesHold`: `RegistrySpec => []DomainTypeOK`. A caller's stage says what it knows (`Placed`): a
  name, and a service, but for an import that has yet to create its own.
* `NamesLinkedOnce`: `RegistrySpec => []LinkedOnce`. No index keeps two records of one name apart; what
  does is the order of steps, and the exceptions in `history` are all there are. `LinkInv`: a
  name that is recorded, or about to be, is held by our account as long as it has not left
  (`HeldWhileLinked`), so a registration the registrar accepts meets no link and no caller on
  the way to one; one caller at most is between look and link (`OneTrusts`), and then nobody
  but its service has the name (`TrustHolds`), so that its link makes no second (`OneHolds`).
  Every action is one of four kinds of step (`Quiet`, `Leaves`, `Enters`,
  `Links`: lemma `Steps`), and the invariant is kept by each kind.

And of `DomainRenewals`, for any invoices, cycles, clients, handlers, workers and bounds:

* `RenewalTypeCorrect`: `RenewalSpec => []RenewalJobsTypeOK`.
* `ChargedOnce`: `RenewalSpec => []RenewedOnce`. `ShownOrRecorded(k)`: of a cycle that is not
  among the exceptions (`hidden`), one worker at most is at it, none after the registrar was
  charged, and then the record shows it or that worker is about to write it.
* `PaidCyclesRenewed`: `RenewalSpec => []PaidIsRenewed`. The property speaks only of states in
  which everything has ended; `PaymentKept` says for all others where a payment is: in
  the handlers' queue, with a handler, in a job, with the worker that holds it, or done
  (`Covered`, `Done`). It needs that no request is lost (`LedgerKept`), that without mishaps
  one worker is at work and has what it holds as it loaded it (`OneWorker`), and that the
  record says no more than the registrar or the worker's own guesses (`RecordTold`).

`Payment_proofs`, for any finite set of calls, any transactions, total and number of faults:

* `PaymentTypeCorrect`: `Spec => []PaymentTypeOK`. That credits stay below the total rests on
  `Balanced`: `balanceDue` is the rest of the total also in what calls have read and are about
  to save, field by field, from a stale document.
* `MoneyIsAccounted`: `Spec => []MoneyAccounted`. The credit of the invoice is bounded by the money
  taken only if what calls read of it is (`Backed`), since a late save adds its amount to that;
  `Alone` (without overlap one call at most has read and not saved, and the invoice is what it
  read) makes the sums `Exact`. No unique index is assumed: the sum of the money taken counts
  each transaction once (`Counted`), records that repeat one are of calls noted in `again`, and
  `Crossings` shows that such a call and the first one had both passed the look-up before
  either committed. `Followed` ties the calls of other components to a record and a payment.
* `PaymentReaches`: `Spec => []PaymentReachesAll`, from `Followed`: once an invoice was PAID and
  nothing failed, some call has called all components or has the rest of them in `todo`.

`Sums` is what these proofs and those about affiliates know of a sum over a set of any size:
what it becomes when one of its terms changes (`SumChanges`, `SumMoves`), that it bounds them
(`SumBounds`), and when it is 0 (`SumOfZeros`). It is shown by induction on
cardinality; the library's induction theorems have an operator as parameter, so the module
derives its own rule (`Numbers`) from the least element of a set of numbers.

`BusinessOffice_proofs` and `Business_proofs` are about the components of `MCBusiness`, each
meant through its instance, for any sets of documents and requests, any amounts and
bounds. The invariants stand in the components' modules, after the properties that follow
from them. What each component's handlers rely on is that what a request read some awaits
ago still holds, or that a mark tells of the one it crossed. In `BusinessOffice_proofs`:

* `BusinessBilledOnce`: `BusinessSpec => []BilledOnce`, from `BillableInv`. An item nobody else
  set is as the run read it, and not yet billed with the key it will be (`RunInv`); what was
  billed is at most one key beyond the item's count (`ItemInv`), so that a run that died
  before it advanced an item leaves exactly the invoice the next run finds.
* `BusinessReplyAsksAnswer`: `... => []ReplyAsksAnswer`, from `TicketInv`. A reply that found the
  ticket asking already does not write its status; `StillAsking` says that it still asks
  unless a save crossed the reply. `NumbersOK` and `NotesOK` are for the types.
* `BusinessAccountsKept`: `... => []AccountsKept`, from `AccountInv`. Ids are never used twice (`IdsOnce`), so
  a removal that found nobody removes nobody who came since; the failures to be counted
  without locking are counted with those there (`TriesLeft`). `FailuresBegun` is for the types.
* `BusinessEditsKept`: `... => EditsKept`, an action property, from `DeskInv` and `PanInv`. Who has given
  the account or the document a password, and not yet the other, is on its way
  (`Delivered`, `WillAgree`), and a mark goes only with a request that had read `meta` before.
* `BusinessPaidKept`: `... => PaidKept`, an action property, from `BookInv`. Any request but a
  status change carries the status it read, or PAID (`Harmless`); the sweep's copy without a
  fee is of an invoice without one (`FeeOnce`); what was mailed is logged, about to be, or its
  log was lost (`ReminderOnce`).
* `BusinessCouponWithinLimits`: `... => CouponWithinLimits`, an action property, from `CheckoutInv`. The
  count is the number of usages (`CommitOK`), one open transaction at a time has written the
  promotion and nobody has since it began (`WriterOK`), and what a call has validated still
  holds of a promotion that is the one it saw (`SeenOK`).
* `BusinessHostingSound`: `... => []HostingSound`, from `HostingInv` and `DeskInv`. Accounts plus the creations
  past their look at the server's count stay within capacity unless two were there at
  once (`RoomShared`); what the trials' sweep and the conversion are about to write
  (`TrialsOK`) keeps `PaidRuns`.
* `BusinessNoticesReach`: `... => []NoticesReach`, from `NoticeInv`. What was sent is on record, about to be
  recorded by the run that looked before it sent, or lapsed (`RecordsOK`); an alert that is
  due is sent or had no recipient (`AlertsOK`).

In `Business_proofs`:

* `BusinessRegistrationsSound`: `... => []RegistrationsSound`, from `RegistrarInv`. An entry of a cache, and
  the row a request has read and not yet entered, were the document's at a time no
  earlier than the request began (`LookupsOK`, with `heldAt` for when); an item reported as registered is at
  the registrar of its group (`BulkOK`).
* `BusinessAccountsAgree`: `... => []AccountsAgree`, from `AffiliateInv` and `AgreeInv`. The property compares
  sums over commissions with credit and payout requests in states where no call is under way;
  the invariant says what is missing from those sums at every await. `TieOK` ties what a call
  has read of a commission to the commission there is, whose order stays, and what it has left to
  allocate to the amount it began with. `OnceOK` counts with a buyer's commissions
  what a call has taken from one and not yet made another of (`SplitOf`); `CreditOK` counts
  the credited ones that are not just being taken back (`Debt`) against credit and what
  redemptions have allocated and not yet credited (`Redeemed`); `PayoutsOK` counts with the
  commissions reserved for a payout what its request has still to reserve (`RequestOf`).
  `CreateOK` makes a settlement the only one of its buyer; `PayoutTies` and `ReversalTies`
  say that a commission in reach of an allocation is reserved for no payout and one in reach of a
  reversal is as it was read. That what counts is of paid invoices is without sums, in
  `ReversalsOK`.
* `BusinessTypesKept`: `... => []BusinessTypeOK`: the type invariants of the components, and that names and
  numbers of the catalogue differ. `BusinessInv` is the invariant of each component in its
  scenario.

Each of these invariants was checked by TLC on small instances before it was proved.

### Assumptions

The assumptions are the named `ASSUME`s of the modules: kinds of the constants (of
`DomainRenewals` also that invoices and cycles are numbered from 1 and finitely many, of
`Payment` that calls are finitely many and the total is not 0, of
`ServiceLifecycle` that no date is a date) and that the null values are not members of the sets.
Those of the components of `business` are assumed of their instances in `MCBusiness`. Beside
kinds they say that the requests and calls of a component that counts or adds up over them are
finitely many (a server executes finitely many at a time), that there is a request that creates
accounts, and that bulk requests have an item. The theorems about `business` are thus for
any sets and bounds, but each set of values `MCBusiness` shares between components
has one meaning in each scenario.

### What the proofs changed

* `PaidIsRenewed` holds with two cycles and not with three. A registrar that renews and answers
  without a date makes the worker save the date its job asked for
  (`domain-renewal.worker.ts:116`); when a later cycle's job runs first, this date is beyond
  the registrar's own, and the jobs of earlier cycles that still wait end SUCCESS as
  "already current" (:97), paid and never renewed. The proof stops at this step; the
  property now excepts it (`guessed`).
* `MarkRenewed` set the attempts of a job to 0; `markDomainRenewalManuallyRenewed`
  (`system-admin.controller.ts:148`) leaves them.
* The types of `DomainRenewals` had bounds on expiry years and attempts, which only said how
  long a run is; they are gone.
* `RegistryInit` gave all services that exist at first one name, so that with several of them
  two had records of it from the start; now each has a name of its own where it is registered.

### Only model-checked

Liveness (`TasksGoOn`, `JobSettles`, `SuspensionQueued`, `ProvisioningSettles`, `RenewalsGoOn`,
`RecordsConverge`): liveness under fairness and `ENABLED` are out of the prover's reach. So is
induction over data with a rule for every predicate; where a proof needs one instance of it, as
the sums do, it is spelled out in `Sums`. Of safety, every invariant and action property of a
passing run is proved.

## Not modelled

`PROJECT.json` lists every component with what is left out of it. In short:

* access grants, settings, the activity log: documents written by one request and read by
  others, with no second write that depends on the first;
* permission checks and CSRF: decisions on the request alone;
* prices, taxes, discounts' amounts, configuration pages: arithmetic on one document;
* DNS records and contacts of domains, which the registrar keeps (the settings of
  `DomainRegistry` stand for how such values are saved);
* templates, rendering of mails and invoices, PDF, uploads with their virus scan, the
  dashboard and the reports: they read, or write files;
* SSLCommerz, WHM, the registrars and the mail server: external, modelled by what the
  callers allow them to answer;
* scripts and the migration from WHMCS: run by an operator, once;
* start-up, configuration and utilities. `services/services` is an older copy of
  `services/core` that nothing imports.

## Plan

All components planned for are modelled, and what the runs check of safety is proved.
`AgreeInv` and the other invariants above should be proved again first when a handler changes:
they name what every call in progress is relied upon to know.

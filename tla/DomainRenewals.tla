--------------------------- MODULE DomainRenewals ---------------------------
(***************************************************************************)
(* A paid renewal reaches the registrar: the invoice a client asks for, the *)
(* renewal ledger, the payment handler that moves the due date and queues a *)
(* DomainRenewalJob, the worker that calls the registrar and records the    *)
(* new expiry date, and the repairs an administrator has                    *)
(* (domain.service.ts, service-lifecycle.service.ts,                        *)
(* domain-renewal.worker.ts, system-admin.controller.ts).                   *)
(*                                                                          *)
(* One domain service, billed by the year: cycle k falls due in year k and  *)
(* is renewed until year k + 1.  At the registrar the domain expires in     *)
(* year "remote"; the record of it, which decides whether a renewal is      *)
(* needed at all, says "stored".                                            *)
(***************************************************************************)
EXTENDS Integers, FiniteSets

CONSTANTS
    Invoices,      \* renewal invoices that can be made, 1 .. n
    NoInvoice,
    Clients,       \* requests for a renewal invoice under way at one time
    Payments,      \* payment handlers under way at one time
    Workers,       \* calls of processQueuedJobs under way at one time
    NoWorker,
    Cycles,        \* billing cycles 1 .. n
    Registries,    \* among dynadot and namely
    MaxAttempts,   \* maxAttempts of a job
    MaxTrouble     \* bound: repairs (retries, reconciliations, renewals by staff) and
                   \* mishaps (answers lost, processes that die, locks outlived)

ASSUME NumbersAssumption ==
    /\ IsFiniteSet(Cycles) /\ Cycles = 1 .. Cardinality(Cycles)
    /\ IsFiniteSet(Invoices) /\ Invoices = 1 .. Cardinality(Invoices)
ASSUME RenewalNulls == NoInvoice \notin Invoices /\ NoWorker \notin Workers
ASSUME RenewalBounds == MaxAttempts \in Nat \ {0} /\ MaxTrouble \in Nat

VARIABLES
    registrar,  \* "dynadot", or "namely", which reports made-up dates
    ended,      \* the service is TERMINATED or CANCELLED
    due,        \* nextDueDate of the service
    ledger,     \* RenewalLedger entry of each cycle
    invoice,    \* renewal invoices
    request,    \* createDomainRenewalInvoice in progress
    toApply,    \* paid invoices whose handler has yet to run
    applier,    \* applyRenewalPayment in progress
    job,        \* DomainRenewalJob of each invoice
    worker,     \* processQueuedJobs in progress
    stored,     \* expiresAt of the record
    remote,     \* expiry date at the registrar
    charged,    \* renewals the registrar made for a job of each cycle
    reading,    \* a registrar reading not yet stored
    hidden,     \* cycles whose renewal the record may not show: see RenewedOnce
    manual,     \* jobs retried or marked as renewed by hand
    spent       \* used parts of the bounds, and the cycles that were renewed and got
                \* a date beyond that of the registrar

renewalVars == <<registrar, ended, due, ledger, invoice, request, toApply, applier, job,
                 worker, stored, remote, charged, reading, hidden, manual, spent>>

Until(k) == k + 1
Last == Cardinality(Cycles)
JobStates == {"none", "QUEUED", "RUNNING", "SUCCESS", "FAILED"}
NoEntry == [inv |-> NoInvoice, paid |-> NoInvoice]
NoJob == [status |-> "none", attempts |-> 0, owner |-> NoWorker, stale |-> FALSE]
NoRequest == [at |-> "idle", cycle |-> 0, inv |-> NoInvoice, had |-> FALSE]
NoApplier == [at |-> "idle", inv |-> NoInvoice, had |-> FALSE]
NoReading == [at |-> "idle", exp |-> 0, inv |-> NoInvoice]
NoWork == [at |-> "idle", batch |-> {}, inv |-> NoInvoice, n |-> 0, exp |-> 0]

RenewalJobsTypeOK ==
    /\ registrar \in Registries /\ ended \in BOOLEAN
    /\ due \in 1 .. Last + 1
    /\ ledger \in [Cycles -> [inv : Invoices \cup {NoInvoice}, paid : Invoices \cup {NoInvoice}]]
    /\ invoice \in [Invoices -> [cycle : Cycles \cup {0},
                                 status : {"none", "unpaid", "paid", "cancelled"}]]
    /\ request \in [Clients -> [at : {"idle", "create", "ledger"}, cycle : Cycles \cup {0},
                                inv : Invoices \cup {NoInvoice}, had : BOOLEAN]]
    /\ toApply \in SUBSET Invoices
    /\ applier \in [Payments -> [at : {"idle", "advance", "queue"},
                                 inv : Invoices \cup {NoInvoice}, had : BOOLEAN]]
    /\ job \in [Invoices -> [status : JobStates, attempts : Nat,
                             owner : Workers \cup {NoWorker}, stale : BOOLEAN]]
    /\ worker \in [Workers -> [at : {"idle", "lock", "load", "next", "renew", "record",
                                     "done", "failed"},
                               batch : SUBSET (Invoices \X Nat),
                               inv : Invoices \cup {NoInvoice},
                               n : Nat, exp : Nat]]
    /\ {stored, remote} \subseteq Nat
    /\ charged \in [Cycles -> Nat]
    /\ reading \in [at : {"idle", "store"}, exp : Nat, inv : Invoices \cup {NoInvoice}]
    /\ hidden \in SUBSET Cycles /\ manual \in SUBSET Invoices
    /\ spent \in [repairs : 0 .. MaxTrouble, mishaps : 0 .. MaxTrouble,
                 guessed : SUBSET Cycles]

RenewalInit ==
    /\ registrar \in Registries
    /\ ended = FALSE /\ due = 1 /\ stored = 1 /\ remote = 1
    /\ ledger = [k \in Cycles |-> NoEntry]
    /\ invoice = [i \in Invoices |-> [cycle |-> 0, status |-> "none"]]
    /\ request = [c \in Clients |-> NoRequest]
    /\ toApply = {} /\ applier = [h \in Payments |-> NoApplier]
    /\ job = [i \in Invoices |-> NoJob] /\ worker = [w \in Workers |-> NoWork]
    /\ charged = [k \in Cycles |-> 0]
    /\ reading = NoReading /\ hidden = {} /\ manual = {}
    /\ spent = [repairs |-> 0, mishaps |-> 0, guessed |-> {}]

Cycle(i) == invoice[i].cycle
Trouble == spent.mishaps + spent.repairs < MaxTrouble
Mishap == Trouble /\ spent' = [spent EXCEPT !.mishaps = @ + 1]
Repair == Trouble /\ spent' = [spent EXCEPT !.repairs = @ + 1]

\* Cycles that were renewed and that an expiry date of e does not show.
Hides(e) == {k \in Cycles : charged[k] > 0 /\ e < Until(k)}
Record(e) == stored' = e /\ hidden' = hidden \cup Hides(e)

-----------------------------------------------------------------------------
(* The invoice: createDomainRenewalInvoice *)

\* The ledger entry of the current due date decides; an invoice that was
\* cancelled does not count.
RequestRead(c) ==
    LET k == due
        entry == ledger[k]
    IN /\ request[c].at = "idle" /\ ~ended /\ k \in Cycles
       /\ entry.inv # NoInvoice => invoice[entry.inv].status = "cancelled"
       /\ \E i \in Invoices : invoice[i].status = "none"
       /\ request' = [request EXCEPT ![c] =
             [at |-> "create", cycle |-> k, inv |-> NoInvoice, had |-> entry # NoEntry]]
       /\ UNCHANGED <<registrar, ended, due, ledger, invoice, toApply, applier, job, worker,
                      stored, remote, charged, reading, hidden, manual, spent>>

\* Invoices are numbered as they come.
RequestInvoice(c, i) ==
    /\ request[c].at = "create"
    /\ invoice[i].status = "none" /\ \A j \in 1 .. i - 1 : invoice[j].status # "none"
    /\ invoice' = [invoice EXCEPT ![i] = [cycle |-> request[c].cycle, status |-> "unpaid"]]
    /\ request' = [request EXCEPT ![c].at = "ledger", ![c].inv = i]
    /\ UNCHANGED <<registrar, ended, due, ledger, toApply, applier, job, worker,
                   stored, remote, charged, reading, hidden, manual, spent>>

\* The unique index keeps the first entry; the invoice of the second request
\* stays without one, and can be paid like any other.
LedgerEntry(c) ==
    LET k == request[c].cycle
    IN IF request[c].had \/ ledger[k] = NoEntry
       THEN [ledger EXCEPT ![k] = [inv |-> request[c].inv, paid |-> NoInvoice]]
       ELSE ledger

RequestLedger(c) ==
    /\ request[c].at = "ledger"
    /\ ledger' = LedgerEntry(c)
    /\ request' = [request EXCEPT ![c] = NoRequest]
    /\ UNCHANGED <<registrar, ended, due, invoice, toApply, applier, job, worker,
                   stored, remote, charged, reading, hidden, manual, spent>>

RequesterDies(c) ==
    /\ request[c].at # "idle"
    /\ Mishap
    /\ request' = [request EXCEPT ![c] = NoRequest]
    /\ UNCHANGED <<registrar, ended, due, ledger, invoice, toApply, applier, job, worker,
                   stored, remote, charged, reading, hidden, manual>>

\* The client hears of the invoice when the request has ended.
Pay(i) ==
    /\ invoice[i].status = "unpaid" /\ \A c \in Clients : request[c].inv # i
    /\ invoice' = [invoice EXCEPT ![i].status = "paid"]
    /\ toApply' = toApply \cup {i}
    /\ UNCHANGED <<registrar, ended, due, ledger, request, applier, job, worker,
                   stored, remote, charged, reading, hidden, manual, spent>>

CancelInvoice(i) ==
    /\ invoice[i].status = "unpaid"
    /\ Repair
    /\ invoice' = [invoice EXCEPT ![i].status = "cancelled"]
    /\ UNCHANGED <<registrar, ended, due, ledger, request, toApply, applier, job, worker,
                   stored, remote, charged, reading, hidden, manual>>

\* The handler runs once more for a paid invoice: a second callback, or a
\* status an administrator sets.
AppliedAgain(i) ==
    /\ invoice[i].status = "paid" /\ i \notin toApply
    /\ Mishap
    /\ toApply' = toApply \cup {i}
    /\ UNCHANGED <<registrar, ended, due, ledger, invoice, request, applier, job, worker,
                   stored, remote, charged, reading, hidden, manual>>

-----------------------------------------------------------------------------
(* The payment handler: applyRenewalPayment, processPaidDomainRenewal *)

\* The due date renewed is the one the invoice names.
ApplyRead(h, i) ==
    LET entry == ledger[Cycle(i)]
    IN /\ applier[h].at = "idle" /\ i \in toApply
       /\ toApply' = toApply \ {i}
       /\ applier' = IF ended \/ entry.paid # NoInvoice THEN applier
                     ELSE [applier EXCEPT ![h] =
                            [at |-> "advance", inv |-> i, had |-> entry # NoEntry]]
       /\ UNCHANGED <<registrar, ended, due, ledger, invoice, request, job, worker,
                      stored, remote, charged, reading, hidden, manual, spent>>

\* The due date is saved first; an entry made since the look at the ledger ends
\* the handler, without a job.
ApplyAdvance(h) ==
    LET i == applier[h].inv
        k == Cycle(i)
        refused == ~applier[h].had /\ ledger[k] # NoEntry
    IN /\ applier[h].at = "advance"
       /\ due' = Until(k)
       /\ ledger' = CASE refused -> ledger
                      [] applier[h].had -> [ledger EXCEPT ![k].paid = i]
                      [] OTHER -> [ledger EXCEPT ![k] = [inv |-> i, paid |-> i]]
       /\ applier' = IF refused THEN [applier EXCEPT ![h] = NoApplier]
                     ELSE [applier EXCEPT ![h].at = "queue"]
       /\ UNCHANGED <<registrar, ended, invoice, request, toApply, job, worker,
                      stored, remote, charged, reading, hidden, manual, spent>>

\* Mistake: the expiry date has to lie beyond the period paid for.
CurrentBeyond(k) == stored > Until(k)
\* Nothing is renewed when the record says that the domain runs long enough.
Current(k) == stored >= Until(k)

\* Mistake: a new job has a status the worker does not know.
QueuedPending(i) ==
    IF job[i].status = "none" THEN [job EXCEPT ![i] = [NoJob EXCEPT !.status = "PENDING"]] ELSE job
\* One job per service, invoice and due date; a FAILED one starts afresh.
Queued(i) ==
    CASE job[i].status = "none" -> [job EXCEPT ![i] = [NoJob EXCEPT !.status = "QUEUED"]]
      [] job[i].status = "FAILED" -> [job EXCEPT ![i] = [NoJob EXCEPT !.status = "QUEUED"]]
      [] OTHER -> job

ApplyQueue(h) ==
    LET i == applier[h].inv
    IN /\ applier[h].at = "queue"
       /\ job' = IF Current(Cycle(i)) THEN job ELSE Queued(i)
       /\ applier' = [applier EXCEPT ![h] = NoApplier]
       /\ UNCHANGED <<registrar, ended, due, ledger, invoice, request, toApply, worker,
                      stored, remote, charged, reading, hidden, manual, spent>>

ApplierDies(h) ==
    /\ applier[h].at # "idle"
    /\ Mishap
    /\ applier' = [applier EXCEPT ![h] = NoApplier]
    /\ UNCHANGED <<registrar, ended, due, ledger, invoice, request, toApply, job, worker,
                   stored, remote, charged, reading, hidden, manual>>

-----------------------------------------------------------------------------
(* The worker: DomainRenewalWorker *)

Taken(i) ==
    \/ job[i].status = "QUEUED" /\ job[i].attempts < MaxAttempts
    \/ job[i].status = "RUNNING" /\ job[i].stale

\* The task lock keeps scheduled calls apart, until one outlives it; a retry
\* calls the worker besides.
Overlap ==
    IF (\A v \in Workers : worker[v] = NoWork) \/ manual # {} THEN UNCHANGED spent
    ELSE Mishap

JobFind(w) ==
    LET found == {i \in Invoices : Taken(i)}
    IN /\ worker[w].at = "idle" /\ found # {}
       /\ Overlap
       /\ worker' = [worker EXCEPT ![w].at = "lock", ![w].batch = found \X {0}]
       /\ UNCHANGED <<registrar, ended, due, ledger, invoice, request, toApply, applier, job,
                      stored, remote, charged, reading, hidden, manual>>

\* updateMany by _id: what was found is locked, whatever has become of it.
JobLock(w) ==
    /\ worker[w].at = "lock"
    /\ job' = [i \in Invoices |->
          IF \E f \in worker[w].batch : f[1] = i
          THEN [status |-> "RUNNING", attempts |-> job[i].attempts + 1, owner |-> w, stale |-> FALSE]
          ELSE job[i]]
    /\ worker' = [worker EXCEPT ![w].at = "load"]
    /\ UNCHANGED <<registrar, ended, due, ledger, invoice, request, toApply, applier,
                   stored, remote, charged, reading, hidden, manual, spent>>

\* A worker goes on with the jobs of its batch, or ends.
GoOn(w, batch) == worker' = [worker EXCEPT ![w] =
    IF batch = {} THEN NoWork ELSE [NoWork EXCEPT !.at = "next", !.batch = batch]]

\* Jobs another call has locked since are not among those loaded.
JobLoad(w) ==
    /\ worker[w].at = "load"
    /\ GoOn(w, {<<i, job[i].attempts>> : i \in {j \in Invoices : job[j].owner = w}})
    /\ UNCHANGED <<registrar, ended, due, ledger, invoice, request, toApply, applier, job,
                   stored, remote, charged, reading, hidden, manual, spent>>

Renewing(w, k) == worker[w].at \in {"renew", "record"} /\ Cycle(worker[w].inv) = k

\* The next job is checked against the record.  The worker looks at the invoice
\* first (domain-renewal.worker.ts:86): it is paid, as a job is only made for a paid
\* one and here none is taken back.  Two calls between check and record: neither
\* sees the renewal of the other.
JobCheck(w, f) ==
    LET k == Cycle(f[1])
    IN /\ worker[w].at = "next" /\ f \in worker[w].batch
       /\ worker' = [worker EXCEPT ![w] =
             [worker[w] EXCEPT !.at = IF Current(k) THEN "done" ELSE "renew",
                               !.batch = @ \ {f}, !.inv = f[1], !.n = f[2]]]
       /\ hidden' = IF ~Current(k) /\ \E v \in Workers \ {w} : Renewing(v, k)
                    THEN hidden \cup {k} ELSE hidden
       /\ UNCHANGED <<registrar, ended, due, ledger, invoice, request, toApply, applier, job,
                      stored, remote, charged, reading, manual, spent>>

\* The registrar renews and answers with the new date, or without one: the
\* worker then takes the end of the period paid for.  It refuses; or it renews
\* and the answer is lost.
JobRenew(w) ==
    LET k == Cycle(worker[w].inv)
        accepted == remote' = remote + 1 /\ charged' = [charged EXCEPT ![k] = @ + 1]
    IN /\ worker[w].at = "renew"
       /\ \/ /\ accepted
             /\ worker' = [worker EXCEPT ![w].at = "record", ![w].exp = remote + 1]
             /\ UNCHANGED <<hidden, spent>>
          \/ /\ accepted
             /\ worker' = [worker EXCEPT ![w].at = "record", ![w].exp = Until(k)]
             /\ spent' = [spent EXCEPT !.guessed = IF k > remote THEN @ \cup {k} ELSE @]
             /\ UNCHANGED hidden
          \/ /\ worker' = [worker EXCEPT ![w].at = "failed"]
             /\ UNCHANGED <<remote, charged, hidden, spent>>
          \/ /\ accepted /\ Mishap
             /\ worker' = [worker EXCEPT ![w].at = "failed"]
             /\ hidden' = hidden \cup {k}
       /\ UNCHANGED <<registrar, ended, due, ledger, invoice, request, toApply, applier, job,
                      stored, reading, manual>>

JobRecord(w) ==
    /\ worker[w].at = "record"
    /\ Record(worker[w].exp)
    /\ worker' = [worker EXCEPT ![w].at = "done"]
    /\ UNCHANGED <<registrar, ended, due, ledger, invoice, request, toApply, applier, job,
                   remote, charged, reading, manual, spent>>

\* Mistake: the registrar's refusal is not taken for a failure.
VerdictBlind(w) == "SUCCESS"
\* The attempts the verdict looks at are those the job was loaded with.
Verdict(w) ==
    IF worker[w].at = "done" THEN "SUCCESS"
    ELSE IF worker[w].n >= MaxAttempts THEN "FAILED" ELSE "QUEUED"

JobSave(w) ==
    /\ worker[w].at \in {"done", "failed"}
    /\ job' = [job EXCEPT ![worker[w].inv].status = Verdict(w), ![worker[w].inv].owner = NoWorker,
                          ![worker[w].inv].stale = FALSE]
    /\ GoOn(w, worker[w].batch)
    /\ UNCHANGED <<registrar, ended, due, ledger, invoice, request, toApply, applier,
                   stored, remote, charged, reading, hidden, manual, spent>>

WorkerDies(w) ==
    /\ worker[w].at # "idle"
    /\ Mishap
    /\ worker' = [worker EXCEPT ![w] = NoWork]
    /\ hidden' = IF worker[w].at = "record" THEN hidden \cup {Cycle(worker[w].inv)} ELSE hidden
    /\ UNCHANGED <<registrar, ended, due, ledger, invoice, request, toApply, applier, job,
                   stored, remote, charged, reading, manual>>

\* A call still holds a job between its lock and its verdict.
Holds(i) == \E w \in Workers : job[i].owner = w /\ worker[w].at # "idle"

LockGoesStale(i) ==
    /\ job[i].status = "RUNNING" /\ ~job[i].stale
    /\ IF Holds(i) THEN Mishap ELSE UNCHANGED spent
    /\ job' = [job EXCEPT ![i].stale = TRUE]
    /\ UNCHANGED <<registrar, ended, due, ledger, invoice, request, toApply, applier,
                   worker, stored, remote, charged, reading, hidden, manual>>

-----------------------------------------------------------------------------
(* Repairs and synchronisation *)

\* retryDomainRenewalJob, for a job in any status.
RetryJob(i) ==
    /\ job[i].status # "none"
    /\ Repair
    /\ job' = [job EXCEPT ![i] = [NoJob EXCEPT !.status = "QUEUED"]]
    /\ manual' = manual \cup {i}
    /\ UNCHANGED <<registrar, ended, due, ledger, invoice, request, toApply, applier,
                   worker, stored, remote, charged, reading, hidden>>

\* markDomainRenewalManuallyRenewed, with whatever date is entered.
MarkRenewed(i, e) ==
    /\ job[i].status # "none"
    /\ Repair
    /\ Record(e)
    /\ manual' = manual \cup {i}
    /\ job' = [job EXCEPT ![i].status = "SUCCESS", ![i].owner = NoWorker, ![i].stale = FALSE]
    /\ UNCHANGED <<registrar, ended, due, ledger, invoice, request, toApply, applier,
                   worker, remote, charged, reading>>

\* renewDomain of the staff: it knows neither invoices nor jobs.
StaffRenew ==
    /\ Repair
    /\ remote' = remote + 1
    /\ Record(remote + 1)
    /\ UNCHANGED <<registrar, ended, due, ledger, invoice, request, toApply, applier, job,
                   worker, charged, reading, manual>>

\* Namely reports a year from now, whatever the domain's own date.
Reported == IF registrar = "namely" THEN 1 .. Last + 1 ELSE {remote}

\* The registrar is asked by the scheduled synchronisation, or for one job by
\* syncDomainRenewalJobFromRegistrar; the answer is stored later.
Ask(i, e) ==
    /\ reading.at = "idle"
    /\ e \in Reported
    /\ IF i = NoInvoice THEN e # stored ELSE job[i].status # "none"
    /\ IF i # NoInvoice \/ e # remote THEN Repair ELSE UNCHANGED spent
    /\ reading' = [at |-> "store", exp |-> e, inv |-> i]
    /\ UNCHANGED <<registrar, ended, due, ledger, invoice, request, toApply, applier, job,
                   worker, stored, remote, charged, hidden, manual>>

StoreReading ==
    LET i == reading.inv
    IN /\ reading.at = "store"
       /\ Record(reading.exp)
       /\ job' = IF i # NoInvoice /\ reading.exp >= Until(Cycle(i))
                 THEN [job EXCEPT ![i].status = "SUCCESS", ![i].owner = NoWorker, ![i].stale = FALSE]
                 ELSE job
       /\ reading' = NoReading
       /\ UNCHANGED <<registrar, ended, due, ledger, invoice, request, toApply, applier,
                      worker, remote, charged, manual, spent>>

ServiceEnds ==
    /\ ~ended
    /\ Repair
    /\ ended' = TRUE
    /\ UNCHANGED <<registrar, due, ledger, invoice, request, toApply, applier, job, worker,
                   stored, remote, charged, reading, hidden, manual>>

-----------------------------------------------------------------------------
Requesting(c) == RequestRead(c) \/ (\E i \in Invoices : RequestInvoice(c, i)) \/ RequestLedger(c)
Applying(h) == (\E i \in Invoices : ApplyRead(h, i)) \/ ApplyAdvance(h) \/ ApplyQueue(h)
Working(w) ==
    \/ JobFind(w) \/ JobLock(w) \/ JobLoad(w)
    \/ (\E f \in worker[w].batch : JobCheck(w, f))
    \/ JobRenew(w) \/ JobRecord(w) \/ JobSave(w)
Repairs ==
    \/ StaffRenew \/ ServiceEnds
    \/ \E i \in Invoices : CancelInvoice(i) \/ RetryJob(i) \/ MarkRenewed(i, Until(Cycle(i)))
    \/ \E i \in Invoices \cup {NoInvoice}, e \in Reported : Ask(i, e)
    \/ StoreReading
Mishaps ==
    \/ \E c \in Clients : RequesterDies(c)
    \/ \E h \in Payments : ApplierDies(h)
    \/ \E w \in Workers : WorkerDies(w)
    \/ \E i \in Invoices : AppliedAgain(i) \/ LockGoesStale(i)

RenewalNext ==
    \/ \E c \in Clients : Requesting(c)
    \/ \E i \in Invoices : Pay(i)
    \/ \E h \in Payments : Applying(h)
    \/ \E w \in Workers : Working(w)
    \/ Repairs \/ Mishaps

\* Handlers and workers run on to their end, and the worker's cron comes round.
RenewalFairness ==
    /\ \A h \in Payments : WF_renewalVars(Applying(h))
    /\ \A w \in Workers : WF_renewalVars(Working(w))
    /\ \A i \in Invoices : WF_renewalVars(LockGoesStale(i) /\ ~Holds(i))

RenewalSpec == RenewalInit /\ [][RenewalNext]_renewalVars /\ RenewalFairness

-----------------------------------------------------------------------------
(* Properties *)

\* The registrar renews, and charges, a cycle twice only where the record could
\* not show the first renewal: its answer was lost, the worker died before it
\* was recorded, two workers ran at once, or an older date was stored over it
\* (domain-renewal.worker.ts:97, :107).
RenewedOnce == \A k \in Cycles : charged[k] > 1 => k \in hidden

\* When everything under way has ended, each paid cycle has been renewed at the
\* registrar or left a FAILED job for an administrator to see.  Excepted are:
\* a process that died; a lock that was outlived; a job retried while a worker
\* held it, which leaves it QUEUED with its attempts used up
\* (domain-renewal.worker.ts:44); Namely, whose made-up dates may pass for a
\* renewal (service-lifecycle.service.ts:333, namely-registrar.provider.ts:315);
\* and the date the worker itself makes up for an answer without one (:116),
\* which passes for the renewals of all cycles before that still wait.
Settled == /\ toApply = {} /\ \A h \in Payments : applier[h] = NoApplier
           /\ \A w \in Workers : worker[w] = NoWork
           /\ \A i \in Invoices : ~Taken(i)
Renewed(k) == charged[k] > 0 \/ remote >= Until(k)
PaidIsRenewed ==
    Settled /\ registrar = "dynadot" /\ ~ended /\ manual = {} /\ spent.mishaps = 0
    => \A i \in Invoices : invoice[i].status = "paid" =>
          \/ Renewed(Cycle(i))
          \/ \E j \in Invoices : Cycle(j) = Cycle(i) /\ job[j].status = "FAILED"
          \/ \E k \in spent.guessed : k > Cycle(i)
=============================================================================

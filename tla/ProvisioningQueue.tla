------------------------- MODULE ProvisioningQueue -------------------------
(***************************************************************************)
(* Provisioning of the items of a paid order: the trigger that a paid       *)
(* invoice calls (core/provisioning-trigger.service.ts), the job collection *)
(* (repositories/provisioning-job.repository.ts), the workers that drain it  *)
(* (jobs/provisioning.worker.ts), and those who write the status of a        *)
(* service in between: administrators who cancel, retry, delete, suspend,    *)
(* unsuspend or set any status (core/service-admin.service.ts), and the      *)
(* sweeps and payments of later invoices (ServiceLifecycle).                 *)
(*                                                                          *)
(* One order with one invoice.  A hosting item is provisioned by the        *)
(* trigger itself, any other item by a job of its own.  The job collection  *)
(* is locked more carefully than that of the service actions: its           *)
(* updateMany repeats the filter of its find.                               *)
(***************************************************************************)
EXTENDS Integers, FiniteSets

CONSTANTS
    Items,       \* items of the order
    Hosting,     \* those of type HOSTING
    Workers,     \* concurrent calls of processQueuedJobs
    Triggers,    \* calls of handleInvoicePaid
    Nobody,      \* no lockOwner, or one that no call will look for
    BatchSize,   \* limit of lockBatchForProcessing
    MaxCrashes,  \* bound: calls that die
    MaxSlow,     \* bound: locks that go stale under a live call
    MaxFaults,   \* bound: database writes that fail
    MaxAdmin     \* bound: operations of administrators and sweeps

ASSUME HostingAssumption == Hosting \subseteq Items
ASSUME NobodyAssumption == Nobody \notin Workers
ASSUME BatchSizeAssumption == BatchSize \in Nat \ {0}
ASSUME BoundsAssumption == {MaxCrashes, MaxSlow, MaxFaults, MaxAdmin} \subseteq Nat

VARIABLES
    invoice,    \* status of the invoice
    order,      \* status of the order
    service,    \* status of the service of each item
    job,        \* the job of each item, by its idempotencyKey
    worker,     \* [pc, found, todo, cur] of each worker
    trigger,    \* [pc, todo, cur, order as read] of each trigger
    admin,      \* {<<item, operation or status to write, job as read>>}, or {}
    used,       \* used parts of the bounds
    history     \* what happened: see ProvTypeOK

vars == <<invoice, order, service, job, worker, trigger, admin, used, history>>

ServiceStatus == {"none", "PENDING", "PROVISIONING", "ACTIVE", "SUSPENDED", "TERMINATED",
                  "FAILED", "CANCELLED"}
OrderStatus == {"PENDING_PAYMENT", "PROCESSING", "ACTIVE"}
JobStatus == {"absent", "QUEUED", "RUNNING", "SUCCESS", "FAILED"}
Jobs == [status : JobStatus, attempts : Int, max : {1, 3},
         owner : Workers \cup {Nobody}, stale : BOOLEAN]

ProvTypeOK ==
    /\ invoice \in {"UNPAID", "PAID", "CANCELLED"}
    /\ order \in OrderStatus
    /\ service \in [Items -> ServiceStatus]
    /\ job \in [Items -> Jobs]
    /\ worker \in [Workers ->
          [pc : {"idle", "found", "locked", "run", "defer", "read", "skip", "make", "mark", "call",
                 "activate", "succeed", "finalize", "fail", "requeue"},
           found : SUBSET (Items \X {"QUEUED", "RUNNING"}),
           todo : SUBSET (Items \X Int),      \* loaded jobs and their attempts
           cur : SUBSET (Items \X Int)]]      \* the one it is at, or {}
    /\ trigger \in [Triggers ->
          [pc : {"idle", "items", "mark", "call", "activate", "fail", "requeue", "create",
                 "finalize", "done"},
           todo : SUBSET Items, cur : SUBSET Items, order : OrderStatus]]
    /\ admin \in SUBSET (Items \X ({"cancel", "delete", "retry"} \cup ServiceStatus) \X Jobs)
    /\ used \in [crashes : Nat, slow : Nat, faults : Nat, admin : Nat]
    /\ history \in [paid : BOOLEAN,            \* the invoice was PAID at some time
                    called : SUBSET Items,     \* a worker or trigger called the provider
                    accepted : SUBSET Items,   \* a provider call succeeded
                    cancelled : SUBSET Items,  \* an administrator cancelled the service
                    set : SUBSET (Items \X ServiceStatus),  \* ... or gave it a status
                    reopened : SUBSET Items]   \* the job was queued again, or its lock
                                               \* went stale, without its worker

Idle == [pc |-> "idle", found |-> {}, todo |-> {}, cur |-> {}]
NoJob == [status |-> "absent", attempts |-> 0, max |-> 1, owner |-> Nobody, stale |-> FALSE]

\* createOrder has made a PENDING service for every item and the invoice.
Init ==
    /\ invoice = "UNPAID"
    /\ order = "PENDING_PAYMENT"
    /\ service = [k \in Items |-> "PENDING"]
    /\ job = [k \in Items |-> NoJob]
    /\ worker = [w \in Workers |-> Idle]
    /\ trigger = [t \in Triggers |->
                    [pc |-> "idle", todo |-> {}, cur |-> {}, order |-> "PENDING_PAYMENT"]]
    /\ admin = {}
    /\ used = [crashes |-> 0, slow |-> 0, faults |-> 0, admin |-> 0]
    /\ history = [paid |-> FALSE, called |-> {}, accepted |-> {}, cancelled |-> {},
                  set |-> {}, reopened |-> {}]

-----------------------------------------------------------------------------
(* The collections *)

\* serviceRepository.updateStatus: whatever the status is by now.
SetService(k, status) ==
    service' = IF service[k] = "none" THEN service
               ELSE [service EXCEPT ![k] = status]

\* findByIdAndUpdate of a job that may have been deleted
SetJob(k, doc) ==
    job' = IF job[k].status = "absent" THEN job ELSE [job EXCEPT ![k] = doc]

\* A write that removes the lock, as updateStatus does for a finished job
Finished(k, status) ==
    [job[k] EXCEPT !.status = status, !.owner = Nobody, !.stale = FALSE]

\* updateStatus as the catch of the batch loop calls it: a job that is put back
\* keeps its lock fields, also those of a call that locked it in between.
Settled(k, status) ==
    IF status = "QUEUED" THEN [job[k] EXCEPT !.status = "QUEUED", !.stale = FALSE]
    ELSE Finished(k, status)

\* forceRequeueNow
Forced(k) ==
    [job[k] EXCEPT !.status = "QUEUED", !.attempts = 0, !.owner = Nobody, !.stale = FALSE]

Reopen(k) == history' = [history EXCEPT !.reopened = @ \cup {k}]

Queued(k) == job[k].status = "QUEUED" /\ job[k].attempts < job[k].max
\* Mistake: expired locks are not looked for.
StaleNever(k) == FALSE

Stale(k) == job[k].status = "RUNNING" /\ job[k].stale

-----------------------------------------------------------------------------
(* Workers: lockBatchForProcessing *)

\* Creation order is abstracted: with too many candidates, any BatchSize of them.
Find(w) ==
    LET candidates == {k \in Items : Queued(k) \/ Stale(k)}
    IN /\ worker[w].pc = "idle"
       /\ candidates # {}
       /\ \E B \in SUBSET candidates :
             /\ B = candidates \/ Cardinality(B) = BatchSize
             /\ Cardinality(B) <= BatchSize
             /\ worker' = [worker EXCEPT ![w] =
                   [Idle EXCEPT !.pc = "found", !.found = {<<k, job[k].status>> : k \in B}]]
       /\ UNCHANGED <<invoice, order, service, job, trigger, admin, used, history>>

\* Mistake: the update is by _id alone.
HitById(w) == {entry[1] : entry \in worker[w].found}

\* The update evaluates the filter again for each document.  A lock taken since
\* the find is later than its threshold, so it is not stale for this call.
Hit(w) ==
    {k \in Items : \/ <<k, "QUEUED">> \in worker[w].found /\ Queued(k)
                   \/ <<k, "RUNNING">> \in worker[w].found /\ (Queued(k) \/ Stale(k))}

Lock(w) ==
    /\ worker[w].pc = "found"
    /\ job' = [k \in Items |->
                  IF k \in Hit(w)
                  THEN [job[k] EXCEPT !.status = "RUNNING", !.attempts = @ + 1,
                                      !.owner = w, !.stale = FALSE]
                  ELSE [job[k] EXCEPT !.owner = IF @ = w THEN Nobody ELSE @]]
    /\ worker' = [v \in Workers |->
                     IF v = w THEN IF Hit(w) = {} THEN Idle ELSE [Idle EXCEPT !.pc = "locked"]
                     ELSE [worker[v] EXCEPT !.found =
                              {IF e[1] \in Hit(w) THEN <<e[1], "QUEUED">> ELSE e : e \in @}]]
    /\ UNCHANGED <<invoice, order, service, trigger, admin, used, history>>

Load(w) ==
    LET mine == {k \in Items : job[k].owner = w /\ job[k].status # "absent"}
    IN /\ worker[w].pc = "locked"
       /\ worker' = [worker EXCEPT ![w] =
             IF mine = {} THEN Idle
             ELSE [Idle EXCEPT !.pc = "run", !.todo = {<<k, job[k].attempts>> : k \in mine}]]
       /\ UNCHANGED <<invoice, order, service, job, trigger, admin, used, history>>

-----------------------------------------------------------------------------
(* Workers: processSingleJob and the catch around it *)

Goto(w, pc) == worker' = [worker EXCEPT ![w].pc = pc]

\* The next job of the batch, if there is one.
Continue(w) ==
    worker' = [worker EXCEPT ![w] = IF @.todo = {} THEN Idle
                                    ELSE [@ EXCEPT !.pc = "run", !.cur = {}]]

\* Mistake: a partial payment passes.
NotFullyPaidNever == FALSE

NotFullyPaid == invoice # "PAID"

CheckInvoice(w) ==
    /\ worker[w].pc = "run"
    /\ \E c \in worker[w].todo :
          worker' = [worker EXCEPT ![w].todo = @ \ {c}, ![w].cur = {c},
                                   ![w].pc = IF NotFullyPaid THEN "defer" ELSE "read"]
    /\ UNCHANGED <<invoice, order, service, job, trigger, admin, used, history>>

\* releaseLockRequeueWithoutRetryPenalty: c[2] are the attempts as loaded.
Defer(w) ==
    /\ worker[w].pc = "defer"
    /\ \E c \in worker[w].cur :
          SetJob(c[1], [Finished(c[1], "QUEUED") EXCEPT
                           !.attempts = IF c[2] > 0 THEN @ - 1 ELSE @])
    /\ Continue(w)
    /\ UNCHANGED <<invoice, order, service, trigger, admin, used, history>>

\* A service that is past provisioning, however it got there, makes the job a
\* SUCCESS; one that is already PROVISIONING is provisioned again.
ReadService(w) ==
    /\ worker[w].pc = "read"
    /\ \E c \in worker[w].cur :
          Goto(w, CASE service[c[1]] \in {"ACTIVE", "SUSPENDED", "TERMINATED", "CANCELLED"} -> "skip"
                    [] service[c[1]] = "PROVISIONING" -> "call"
                    [] service[c[1]] = "none" -> "make"
                    [] service[c[1]] \in {"PENDING", "FAILED"} -> "mark")
    /\ UNCHANGED <<invoice, order, service, job, trigger, admin, used, history>>

\* Mistake: a status the schema does not have.
SkipSkipped(w) ==
    /\ worker[w].pc = "skip"
    /\ \E c \in worker[w].cur : SetJob(c[1], Finished(c[1], "SKIPPED"))
    /\ Continue(w)
    /\ UNCHANGED <<invoice, order, service, trigger, admin, used, history>>

Skip(w) ==
    /\ worker[w].pc = "skip"
    /\ \E c \in worker[w].cur : SetJob(c[1], Finished(c[1], "SUCCESS"))
    /\ Continue(w)
    /\ UNCHANGED <<invoice, order, service, trigger, admin, used, history>>

\* A job under way whose service has been deleted makes a new one.
Make(w) ==
    /\ worker[w].pc = "make"
    /\ \E c \in worker[w].cur : service' = [service EXCEPT ![c[1]] = "PROVISIONING"]
    /\ Goto(w, "call")
    /\ UNCHANGED <<invoice, order, job, trigger, admin, used, history>>

\* A service deleted since it was read is missed when it is read again.
Mark(w) ==
    /\ worker[w].pc = "mark"
    /\ \E c \in worker[w].cur :
          /\ SetService(c[1], "PROVISIONING")
          /\ Goto(w, IF service[c[1]] = "none" THEN "requeue" ELSE "call")
    /\ UNCHANGED <<invoice, order, job, trigger, admin, used, history>>

\* The provider accepts; or it refuses, its answer is lost, or withTimeout gives
\* up on it: then the call may still take effect, and nobody learns of it.
Call(w) ==
    /\ worker[w].pc = "call"
    /\ \E c \in worker[w].cur, ok \in BOOLEAN :
          /\ history' = [history EXCEPT !.called = @ \cup {c[1]},
                                        !.accepted = IF ok THEN @ \cup {c[1]} ELSE @]
          /\ Goto(w, IF ok THEN "activate" ELSE "fail")
    /\ UNCHANGED <<invoice, order, service, job, trigger, admin, used>>

Activate(w) ==
    /\ worker[w].pc = "activate"
    /\ \E c \in worker[w].cur : SetService(c[1], "ACTIVE")
    /\ Goto(w, "succeed")
    /\ UNCHANGED <<invoice, order, job, trigger, admin, used, history>>

Succeed(w) ==
    /\ worker[w].pc = "succeed"
    /\ \E c \in worker[w].cur : SetJob(c[1], Finished(c[1], "SUCCESS"))
    /\ Goto(w, "finalize")
    /\ UNCHANGED <<invoice, order, service, trigger, admin, used, history>>

\* finalizeOrderIfProvisioned does not look at the other items.
Finalize(w) ==
    /\ worker[w].pc = "finalize"
    /\ order' = "ACTIVE"
    /\ Continue(w)
    /\ UNCHANGED <<invoice, service, job, trigger, admin, used, history>>

\* A database call rejects: up to Mark the catch of the batch loop takes over,
\* later the catch around the provider call, also after the SUCCESS.
StepFails(w) ==
    /\ used.faults < MaxFaults
    /\ used' = [used EXCEPT !.faults = @ + 1]
    /\ \/ worker[w].pc \in {"defer", "read", "skip", "make", "mark"} /\ Goto(w, "requeue")
       \/ worker[w].pc \in {"activate", "succeed", "finalize"} /\ Goto(w, "fail")
    /\ UNCHANGED <<invoice, order, service, job, trigger, admin, history>>

\* Mistake: the service is left as it is.
FailJobOnly(w) ==
    /\ worker[w].pc = "fail"
    /\ Goto(w, "requeue")
    /\ UNCHANGED <<invoice, order, service, job, trigger, admin, used, history>>

Fail(w) ==
    /\ worker[w].pc = "fail"
    /\ \E c \in worker[w].cur : SetService(c[1], "FAILED")
    /\ Goto(w, "requeue")
    /\ UNCHANGED <<invoice, order, job, trigger, admin, used, history>>

\* Mistake: the exhausted job is taken for done.
VerdictDone(k, attempts) == IF attempts >= job[k].max THEN "SUCCESS" ELSE "QUEUED"

Verdict(k, attempts) == IF attempts >= job[k].max THEN "FAILED" ELSE "QUEUED"

Requeue(w) ==
    /\ worker[w].pc = "requeue"
    /\ \E c \in worker[w].cur : SetJob(c[1], Settled(c[1], Verdict(c[1], c[2])))
    /\ Continue(w)
    /\ UNCHANGED <<invoice, order, service, trigger, admin, used, history>>

WorkerStep(w) ==
    \/ Find(w) \/ Lock(w) \/ Load(w) \/ CheckInvoice(w) \/ Defer(w)
    \/ ReadService(w) \/ Skip(w) \/ Make(w) \/ Mark(w) \/ Call(w) \/ Activate(w)
    \/ Succeed(w) \/ Finalize(w) \/ Fail(w) \/ Requeue(w)

\* The process dies; nobody looks for its lockOwner.
Crash(w) ==
    /\ worker[w].pc # "idle"
    /\ used.crashes < MaxCrashes
    /\ used' = [used EXCEPT !.crashes = @ + 1]
    /\ worker' = [worker EXCEPT ![w] = Idle]
    /\ job' = [k \in Items |-> IF job[k].owner = w
                               THEN [job[k] EXCEPT !.owner = Nobody] ELSE job[k]]
    /\ UNCHANGED <<invoice, order, service, trigger, admin, history>>

\* Five minutes pass after a lock: its call died ...
LostLockGoesStale(k) ==
    /\ job[k].status = "RUNNING" /\ ~job[k].stale /\ job[k].owner = Nobody
    /\ job' = [job EXCEPT ![k].stale = TRUE]
    /\ UNCHANGED <<invoice, order, service, worker, trigger, admin, used, history>>

\* ... or is still at work on its batch.
LiveLockGoesStale(k) ==
    /\ job[k].status = "RUNNING" /\ ~job[k].stale /\ job[k].owner # Nobody
    /\ used.slow < MaxSlow
    /\ used' = [used EXCEPT !.slow = @ + 1]
    /\ job' = [job EXCEPT ![k].stale = TRUE]
    /\ Reopen(k)
    /\ UNCHANGED <<invoice, order, service, worker, trigger, admin>>

-----------------------------------------------------------------------------
(* The invoice, and handleInvoicePaid *)

\* The callback of the gateway also makes the order PROCESSING.
InvoicePaid ==
    /\ invoice = "UNPAID"
    /\ invoice' = "PAID"
    /\ order' \in {order, "PROCESSING"}
    /\ history' = [history EXCEPT !.paid = TRUE]
    /\ UNCHANGED <<service, job, worker, trigger, admin, used>>

\* Gateway callbacks and administrators call it, each after a payment it saw.
TriggerStart(t) ==
    /\ trigger[t].pc = "idle"
    /\ invoice = "PAID"
    /\ trigger' = [trigger EXCEPT ![t] =
                       [pc |-> "items", todo |-> Items, cur |-> {}, order |-> order]]
    /\ UNCHANGED <<invoice, order, service, job, worker, admin, used, history>>

TriggerGoto(t, pc) == trigger' = [trigger EXCEPT ![t].pc = pc]
TriggerTake(t, k, pc) ==
    trigger' = [trigger EXCEPT ![t].pc = pc, ![t].todo = @ \ {k}, ![t].cur = {k}]

\* Hosting: the provider is called also for a service that is ACTIVE by now, and
\* a suspended one is taken for one to provision.
TriggerHosting(t) ==
    /\ trigger[t].pc = "items"
    /\ \E k \in trigger[t].todo \cap Hosting :
          TriggerTake(t, k, IF service[k] \in {"none", "ACTIVE", "TERMINATED", "CANCELLED"}
                            THEN "call" ELSE "mark")
    /\ UNCHANGED <<invoice, order, service, job, worker, admin, used, history>>

TriggerMark(t) ==
    /\ trigger[t].pc = "mark"
    /\ \E k \in trigger[t].cur : SetService(k, "PROVISIONING")
    /\ TriggerGoto(t, "call")
    /\ UNCHANGED <<invoice, order, job, worker, admin, used, history>>

TriggerCall(t) ==
    /\ trigger[t].pc = "call"
    /\ \E k \in trigger[t].cur, ok \in BOOLEAN :
          /\ history' = [history EXCEPT !.called = @ \cup {k},
                                        !.accepted = IF ok THEN @ \cup {k} ELSE @]
          /\ TriggerGoto(t, IF ok THEN "activate" ELSE "fail")
    /\ UNCHANGED <<invoice, order, service, job, worker, admin, used>>

TriggerSettle(t) ==
    /\ trigger[t].pc \in {"activate", "fail"}
    /\ \E k \in trigger[t].cur :
          SetService(k, IF trigger[t].pc = "activate" THEN "ACTIVE" ELSE "FAILED")
    /\ TriggerGoto(t, "items")
    /\ UNCHANGED <<invoice, order, job, worker, admin, used, history>>

\* The catch clause also covers the writes after the account was made.
TriggerStepFails(t) ==
    /\ used.faults < MaxFaults
    /\ used' = [used EXCEPT !.faults = @ + 1]
    /\ trigger[t].pc = "activate"
    /\ TriggerGoto(t, "fail")
    /\ UNCHANGED <<invoice, order, service, job, worker, admin, history>>

\* Any other type: the job is looked for by its key.
TriggerJob(t) ==
    /\ trigger[t].pc = "items"
    /\ \E k \in trigger[t].todo \ Hosting :
          TriggerTake(t, k, CASE job[k].status = "absent" -> "create"
                              [] job[k].status = "SUCCESS" -> "items"
                              [] OTHER -> "requeue")
    /\ UNCHANGED <<invoice, order, service, job, worker, admin, used, history>>

\* forceRequeueNow, whatever a worker is doing with the job
TriggerRequeue(t) ==
    /\ trigger[t].pc = "requeue"
    /\ \E k \in trigger[t].cur : SetJob(k, Forced(k)) /\ Reopen(k)
    /\ TriggerGoto(t, "items")
    /\ UNCHANGED <<invoice, order, service, worker, admin, used>>

\* The unique idempotencyKey refuses a second job, and the whole call throws.
TriggerCreate(t) ==
    /\ trigger[t].pc = "create"
    /\ \E k \in trigger[t].cur :
          IF job[k].status = "absent"
          THEN /\ job' = [job EXCEPT ![k] = [NoJob EXCEPT !.status = "QUEUED"]]
               /\ TriggerGoto(t, "items")
          ELSE UNCHANGED job /\ TriggerGoto(t, "done")
    /\ UNCHANGED <<invoice, order, service, worker, admin, used, history>>

\* All items done: the order is saved, if it was not PROCESSING when it was
\* read, and a worker runs (any Find may be it).
TriggerProcessing(t) ==
    /\ trigger[t].pc = "items" /\ trigger[t].todo = {}
    /\ order' = IF trigger[t].order = "PROCESSING" THEN order ELSE "PROCESSING"
    /\ TriggerGoto(t, "finalize")
    /\ UNCHANGED <<invoice, service, job, worker, admin, used, history>>

TriggerFinalize(t) ==
    /\ trigger[t].pc = "finalize"
    /\ order' = "ACTIVE"
    /\ TriggerGoto(t, "done")
    /\ UNCHANGED <<invoice, service, job, worker, admin, used, history>>

TriggerStep(t) ==
    \/ TriggerHosting(t) \/ TriggerMark(t) \/ TriggerCall(t) \/ TriggerSettle(t)
    \/ TriggerJob(t) \/ TriggerRequeue(t) \/ TriggerCreate(t)
    \/ TriggerProcessing(t) \/ TriggerFinalize(t)

\* The process dies or a database call rejects; nobody calls it again.
TriggerCrash(t) ==
    /\ trigger[t].pc \notin {"idle", "done"}
    /\ used.crashes < MaxCrashes
    /\ used' = [used EXCEPT !.crashes = @ + 1]
    /\ TriggerGoto(t, "done")
    /\ UNCHANGED <<invoice, order, service, job, worker, admin, history>>

-----------------------------------------------------------------------------
(* Administrators and sweeps, one at a time *)

AdminStarts ==
    /\ admin = {}
    /\ used.admin < MaxAdmin
    /\ used' = [used EXCEPT !.admin = @ + 1]

\* The invoice goes back to UNPAID (updateInvoiceStatus).
AdminUnpay ==
    /\ AdminStarts
    /\ invoice = "PAID"
    /\ invoice' = "UNPAID"
    /\ UNCHANGED <<order, service, job, worker, trigger, admin, history>>

\* CANCEL_PENDING: the service and its invoice first, ...
AdminCancel(k) ==
    /\ AdminStarts
    /\ service[k] \in {"PENDING", "PROVISIONING", "FAILED"}
    /\ service' = [service EXCEPT ![k] = "CANCELLED"]
    /\ invoice' = IF invoice = "UNPAID" THEN "CANCELLED" ELSE invoice
    /\ history' = [history EXCEPT !.cancelled = @ \cup {k}]
    /\ admin' = {<<k, "cancel", NoJob>>}
    /\ UNCHANGED <<order, job, worker, trigger>>

\* ... then its job, if it has not ended; the lock fields stay.
AdminCancelJob ==
    /\ \E op \in admin :
          /\ op[2] = "cancel"
          /\ job' = [job EXCEPT ![op[1]].status =
                        IF @ \in {"QUEUED", "RUNNING"} THEN "FAILED" ELSE @]
    /\ admin' = {}
    /\ UNCHANGED <<invoice, order, service, worker, trigger, used, history>>

\* Mistake: a service is looked for, not its status.
SweepAny(k) ==
    /\ AdminStarts
    /\ service[k] # "none"
    /\ admin' = {<<k, "SUSPENDED", NoJob>>}
    /\ UNCHANGED <<invoice, order, service, job, worker, trigger, history>>

\* The sweeps and the payment of a later invoice: what they write to the service
\* they found, as ServiceLifecycle has it, and may still write when it changed.
Sweep(k) ==
    /\ AdminStarts
    /\ \E s \in {"ACTIVE", "SUSPENDED", "TERMINATED"} :
          /\ <<service[k], s>> \in {<<"ACTIVE", "SUSPENDED">>, <<"SUSPENDED", "ACTIVE">>,
                                   <<"SUSPENDED", "TERMINATED">>}
          /\ admin' = {<<k, s, NoJob>>}
    /\ UNCHANGED <<invoice, order, service, job, worker, trigger, history>>

\* SUSPEND, UNSUSPEND, TERMINATE and updateStatus ask only whether the service
\* exists, the first three call the panel of a hosting service, and write; so do
\* the sweeps on a date an administrator gave.
AdminSet(k) ==
    /\ AdminStarts
    /\ service[k] # "none"
    /\ \E s \in ServiceStatus \ {"none"} :
          /\ admin' = {<<k, s, NoJob>>}
          /\ history' = [history EXCEPT !.set = @ \cup {<<k, s>>}]
    /\ UNCHANGED <<invoice, order, service, job, worker, trigger>>

AdminWrite ==
    /\ \E op \in admin : op[2] \in ServiceStatus /\ SetService(op[1], op[2])
    /\ admin' = {}
    /\ UNCHANGED <<invoice, order, job, worker, trigger, used, history>>

\* RETRY_PROVISION of a hosting service calls the provider itself, and then
\* makes the service ACTIVE.
AdminProvision(k) ==
    /\ AdminStarts
    /\ k \in Hosting /\ service[k] # "none"
    /\ \E ok \in BOOLEAN :
          /\ history' = [history EXCEPT !.accepted = IF ok THEN @ \cup {k} ELSE @]
          /\ admin' = IF ok THEN {<<k, "ACTIVE", NoJob>>} ELSE {}
    /\ UNCHANGED <<invoice, order, service, job, worker, trigger>>

\* For another type it queues the job again, and leaves its lock, or makes one.
AdminRetry(k) ==
    /\ AdminStarts
    /\ k \notin Hosting /\ service[k] # "none"
    /\ job' = [job EXCEPT ![k] =
                 IF @.status = "absent" THEN [NoJob EXCEPT !.status = "QUEUED", !.max = 3]
                 ELSE [@ EXCEPT !.status = "QUEUED", !.attempts = 0, !.stale = FALSE]]
    /\ Reopen(k)
    /\ UNCHANGED <<invoice, order, service, worker, trigger, admin>>

\* retryProvisioningJob of the system administration reads the job ...
AdminReadJob(k) ==
    /\ AdminStarts
    /\ job[k].status # "absent"
    /\ admin' = {<<k, "retry", job[k]>>}
    /\ UNCHANGED <<invoice, order, service, job, worker, trigger, history>>

\* ... and saves what was not as it should be; the save of a job that is gone
\* by now is an error.
AdminRetryJob ==
    /\ \E op \in admin :
          LET read == op[3]
              locked == read.status = "RUNNING"
          IN /\ op[2] = "retry"
             /\ SetJob(op[1],
                   [job[op[1]] EXCEPT
                       !.status = IF read.status = "QUEUED" THEN @ ELSE "QUEUED",
                       !.attempts = IF read.attempts = 0 THEN @ ELSE 0,
                       !.owner = IF locked THEN Nobody ELSE @,
                       !.stale = ~locked /\ @])
             /\ Reopen(op[1])
    /\ admin' = {}
    /\ UNCHANGED <<invoice, order, service, worker, trigger, used>>

\* DELETE: the jobs first.  (A job created for the item later has another _id;
\* here a worker that still has the deleted one may also write to the new one.)
AdminDelete(k) ==
    /\ AdminStarts
    /\ service[k] # "none"
    /\ job' = [job EXCEPT ![k] = NoJob]
    /\ admin' = {<<k, "delete", NoJob>>}
    /\ Reopen(k)
    /\ UNCHANGED <<invoice, order, service, worker, trigger>>

\* ... then the service
AdminDeleteService ==
    /\ \E op \in admin : op[2] = "delete" /\ service' = [service EXCEPT ![op[1]] = "none"]
    /\ admin' = {}
    /\ UNCHANGED <<invoice, order, job, worker, trigger, used, history>>

Admin ==
    \/ AdminUnpay \/ AdminCancelJob \/ AdminWrite \/ AdminDeleteService
    \/ AdminRetryJob
    \/ \E k \in Items : \/ AdminCancel(k) \/ AdminProvision(k) \/ AdminRetry(k)
                        \/ AdminReadJob(k) \/ AdminDelete(k) \/ AdminSet(k) \/ Sweep(k)

-----------------------------------------------------------------------------
Next ==
    \/ \E w \in Workers : WorkerStep(w) \/ StepFails(w) \/ Crash(w)
    \/ \E t \in Triggers : TriggerStart(t) \/ TriggerStep(t) \/ TriggerStepFails(t)
                           \/ TriggerCrash(t)
    \/ \E k \in Items : LostLockGoesStale(k) \/ LiveLockGoesStale(k)
    \/ InvoicePaid \/ Admin

Spec == Init /\ [][Next]_vars

\* The cron task comes back, a call that lives goes on, a lost lock gets old.
\* (The provider call of a worker has a timeout; that of a trigger is an HTTP
\* request to WHM that answers or fails.)
FairSpec ==
    /\ Spec
    /\ \A w \in Workers : WF_vars(WorkerStep(w))
    /\ \A t \in Triggers : WF_vars(TriggerStep(t))
    /\ \A k \in Items : WF_vars(LostLockGoesStale(k))

-----------------------------------------------------------------------------
(* Properties *)

\* repositories/provisioning-job.repository.ts:19, "Atomically locks a batch of
\* jobs": two calls have one job in hand only if its lock went stale or somebody
\* queued it again in between, however their three round trips interleave.
AtomicBatch ==
    \A v, w \in Workers : \A c \in worker[v].todo \cup worker[v].cur :
        \A d \in worker[w].todo \cup worker[w].cur :
            v # w /\ c[1] = d[1] => c[1] \in history.reopened

\* Before the invoice was ever paid no worker or trigger calls a provider, and
\* no job ends, however often an administrator queues it: it is put back
\* without a retry penalty (:88), unless a write fails or it is cancelled.
UnpaidUntouched ==
    ~history.paid =>
        /\ history.called = {}
        /\ \A k \in Items :
              job[k].status \in {"SUCCESS", "FAILED"} =>
                  k \in history.cancelled \/ used.faults > 0

\* Items that may be in use, and items with which provisioning may be done
SetTo(statuses) == {k \in Items : \E s \in statuses : <<k, s>> \in history.set}
Provisioned == history.accepted \cup SetTo({"ACTIVE", "SUSPENDED"})
Resolved == Provisioned \cup history.cancelled \cup SetTo({"TERMINATED", "CANCELLED"})

\* A service is ACTIVE or SUSPENDED only if a provider accepted the item once, or
\* an administrator made it one of them by hand; and a job ends SUCCESS only for
\* that, or after an administrator cancelled or terminated the service.  Two
\* workers, a trigger, a sweep and an administrator may write them in any order.
SuccessExplained ==
    \A k \in Items :
        /\ service[k] \in {"ACTIVE", "SUSPENDED"} => k \in Provisioned
        /\ job[k].status = "SUCCESS" => k \in Resolved

\* No job is worked on twice at once, for an unpaid invoice, or for nothing
\* (provisioning.worker.ts:207, :309; provisioning-job.repository.ts:53).
WorkJustified == AtomicBatch /\ UnpaidUntouched /\ SuccessExplained

\* A job of a paid invoice ends, or is left QUEUED with its attempts used up:
\* crashes, stale locks and unfenced results of slow workers do not hide it.
JobEnds ==
    \A k \in Items \ Hosting :
        (job[k].status \in {"QUEUED", "RUNNING"} /\ invoice = "PAID") ~>
            \/ job[k].status \in {"absent", "SUCCESS", "FAILED"}
            \/ job[k].status = "QUEUED" /\ job[k].attempts >= job[k].max
            \/ invoice # "PAID"

\* No path of a worker or a trigger leaves a service PROVISIONING, unless a
\* process died, a write failed, or an administrator made it PROVISIONING.
ProvisioningEnds ==
    \A k \in Items :
        service[k] = "PROVISIONING" ~>
            \/ service[k] # "PROVISIONING" \/ k \in SetTo({"PROVISIONING"})
            \/ used.crashes > 0 \/ used.faults > 0

\* The order comes to an end: its jobs do, and with them its services
\* (provisioning-job.repository.ts:93).
ProvisioningSettles == JobEnds /\ ProvisioningEnds
=============================================================================

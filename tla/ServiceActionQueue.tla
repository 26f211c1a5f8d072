------------------------- MODULE ServiceActionQueue -------------------------
(***************************************************************************)
(* The ServiceActionJob collection and the workers that drain it            *)
(* (services/jobs/service-action.worker.ts).  A job asks the provider of a   *)
(* service (WHM, a VPS host, ...) to suspend, unsuspend or terminate it.     *)
(*                                                                          *)
(* A worker is one call of processQueuedJobs.  Four scheduled tasks make    *)
(* such calls under four different task locks, and every server process     *)
(* has its own timers, so calls overlap.  Locking a batch takes three       *)
(* round trips (find, updateMany, find) and the result of a job is written  *)
(* with a plain document save.                                              *)
(*                                                                          *)
(* The services are not domains, whose jobs succeed without any call.        *)
(***************************************************************************)
EXTENDS Integers, FiniteSets

CONSTANTS
    Services,
    Invoices,
    NoInvoice,    \* a job created without an invoiceId
    Workers,      \* concurrent calls of processQueuedJobs
    Nobody,       \* no lockOwner, or one that no live call will look for
    MaxAttempts,  \* maxAttempts of a job
    BatchSize,    \* limit(10) of the find
    MaxCrashes,   \* bound: calls that die or whose save is rejected
    MaxSlow,      \* bound: locks that go stale under a live call
    MaxRetries    \* bound: jobs an administrator retries, each once

ASSUME NobodyAssumption == Nobody \notin Workers
ASSUME NoInvoiceAssumption == NoInvoice \notin Invoices
ASSUME MaxAttemptsAssumption == MaxAttempts \in Nat \ {0}
ASSUME BatchSizeAssumption == BatchSize \in Nat \ {0}
ASSUME QueueBoundsAssumption == {MaxCrashes, MaxSlow, MaxRetries} \subseteq Nat

VARIABLES
    job,      \* the collection, by its unique index (service, action, invoice)
    remote,   \* what the provider runs for each service
    wpc,      \* where each worker is
    found,    \* jobs its first find returned
    batch,    \* jobs it loaded, with the attempts of the loaded document
    current,  \* {<<job, attempts, outcome>>} of the provider call whose result
              \* is not saved yet, or {}
    calls,    \* history: provider calls made for each job
    accepted, \* history: jobs for which a provider call succeeded
    gone,     \* services whose document, or that of their account, was deleted
    retry,    \* administrator's retry: {<<job, its document when read>>} or {}
    retried,  \* history: jobs that were retried
    crashes,  \* used part of MaxCrashes
    slow      \* used part of MaxSlow

bounds == <<retried, crashes, slow>>
queueRest == <<remote, wpc, found, batch, current, calls, accepted, gone, retry, bounds>>
queueVars == <<job, queueRest>>

Actions == {"SUSPEND", "UNSUSPEND", "TERMINATE"}
Keys == Services \X Actions \X (Invoices \cup {NoInvoice})
JobStatus == {"absent", "QUEUED", "RUNNING", "SUCCESS", "FAILED"}
Jobs == [status : JobStatus, attempts : Nat, owner : Workers \cup {Nobody}, stale : BOOLEAN]
RemoteStates == {"running", "suspended", "destroyed"}
Outcomes == {"ok", "error"}

QueueTypeOK ==
    /\ job \in [Keys -> Jobs]
    /\ remote \in [Services -> RemoteStates]
    /\ wpc \in [Workers -> {"idle", "found", "locked", "run", "save"}]
    /\ found \in [Workers -> SUBSET Keys]
    /\ batch \in [Workers -> SUBSET (Keys \X Nat)]
    /\ current \in [Workers -> SUBSET (Keys \X Nat \X Outcomes)]
    /\ calls \in [Keys -> Nat]
    /\ accepted \in SUBSET Keys
    /\ gone \in SUBSET Services
    /\ retry \in SUBSET (Keys \X Jobs)
    /\ retried \in SUBSET Keys
    /\ crashes \in Nat
    /\ slow \in Nat

QueueInit ==
    /\ job = [k \in Keys |->
                [status |-> "absent", attempts |-> 0, owner |-> Nobody, stale |-> FALSE]]
    /\ remote = [s \in Services |-> "running"]
    /\ wpc = [w \in Workers |-> "idle"]
    /\ found = [w \in Workers |-> {}]
    /\ batch = [w \in Workers |-> {}]
    /\ current = [w \in Workers |-> {}]
    /\ calls = [k \in Keys |-> 0]
    /\ accepted = {}
    /\ gone = {}
    /\ retry = {}
    /\ retried = {}
    /\ crashes = 0
    /\ slow = 0

-----------------------------------------------------------------------------
\* ServiceActionJob.create and the unordered insertMany: error 11000 of the
\* unique index is ignored, so a job that exists, finished or not, stays.
Insert(ks) ==
    job' = [k \in Keys |-> IF k \in ks /\ job[k].status = "absent"
                           THEN [job[k] EXCEPT !.status = "QUEUED"]
                           ELSE job[k]]

\* Mistake: locks of dead workers are never taken over.
EligibleQueuedOnly ==
    {k \in Keys : job[k].status = "QUEUED" /\ job[k].attempts < MaxAttempts}

\* Jobs the find of processQueuedJobs matches: queued ones with attempts left,
\* and running ones locked more than lockDurationMs ago, whatever their attempts.
Eligible ==
    {k \in Keys : \/ job[k].status = "QUEUED" /\ job[k].attempts < MaxAttempts
                  \/ job[k].status = "RUNNING" /\ job[k].stale}

\* The creation order that sort() uses is abstracted: with more eligible jobs
\* than BatchSize, any BatchSize of them.
Batches(E) ==
    {B \in SUBSET E : B = E \/ Cardinality(B) = BatchSize}

Find(w) ==
    /\ wpc[w] = "idle"
    /\ Eligible # {}
    /\ \E B \in Batches(Eligible) :
          /\ Cardinality(B) <= BatchSize
          /\ found' = [found EXCEPT ![w] = B]
    /\ wpc' = [wpc EXCEPT ![w] = "found"]
    /\ UNCHANGED <<job, remote, batch, current, calls, accepted, gone, retry, bounds>>

\* Mistake: a takeover is not counted as an attempt.
LockCountsQueuedOnly(w) ==
    /\ wpc[w] = "found"
    /\ job' = [k \in Keys |->
                 IF k \in found[w]
                 THEN [status |-> "RUNNING", owner |-> w, stale |-> FALSE,
                       attempts |-> IF job[k].status = "QUEUED" THEN job[k].attempts + 1
                                    ELSE job[k].attempts]
                 ELSE job[k]]
    /\ found' = [found EXCEPT ![w] = {}]
    /\ wpc' = [wpc EXCEPT ![w] = "locked"]
    /\ UNCHANGED <<remote, batch, current, calls, accepted, gone, retry, bounds>>

\* updateMany by _id alone: whatever has become of the jobs since the find.
Lock(w) ==
    /\ wpc[w] = "found"
    /\ job' = [k \in Keys |->
                 IF k \in found[w]
                 THEN [status |-> "RUNNING", attempts |-> job[k].attempts + 1,
                       owner |-> w, stale |-> FALSE]
                 ELSE job[k]]
    /\ found' = [found EXCEPT ![w] = {}]
    /\ wpc' = [wpc EXCEPT ![w] = "locked"]
    /\ UNCHANGED <<remote, batch, current, calls, accepted, gone, retry, bounds>>

\* The second find, by lockOwner and lockedAt.
Load(w) ==
    LET mine == {k \in Keys : job[k].owner = w}
    IN /\ wpc[w] = "locked"
       /\ batch' = [batch EXCEPT ![w] = {<<k, job[k].attempts>> : k \in mine}]
       /\ wpc' = [wpc EXCEPT ![w] = IF mine = {} THEN "idle" ELSE "run"]
       /\ UNCHANGED <<job, remote, found, current, calls, accepted, gone, retry, bounds>>

\* What the provider does: a terminated account is gone, and every call about
\* it fails; suspending twice or unsuspending twice is accepted.
Effect(action) ==
    CASE action = "SUSPEND" -> "suspended"
      [] action = "UNSUSPEND" -> "running"
      [] action = "TERMINATE" -> "destroyed"

\* processSingleActionJob calls the provider without looking at the status of
\* the service.  The call is carried out and answered, carried out and the
\* answer lost, or refused.  For a deleted service there is none, and no error.
Call(w) ==
    /\ wpc[w] = "run"
    /\ \E entry \in batch[w], o \in Outcomes :
          LET k == entry[1]
              s == k[1]
          IN /\ \/ /\ s \in gone /\ o = "ok"
                   /\ UNCHANGED <<remote, calls, accepted>>
                \/ /\ s \notin gone
                   /\ \/ remote[s] # "destroyed" /\ remote' = [remote EXCEPT ![s] = Effect(k[2])]
                      \/ o = "error" /\ UNCHANGED remote
                   /\ calls' = [calls EXCEPT ![k] = @ + 1]
                   /\ accepted' = IF o = "ok" THEN accepted \cup {k} ELSE accepted
             /\ batch' = [batch EXCEPT ![w] = @ \ {entry}]
             /\ current' = [current EXCEPT ![w] = {<<k, entry[2], o>>}]
    /\ wpc' = [wpc EXCEPT ![w] = "save"]
    /\ UNCHANGED <<job, found, gone, retry, bounds>>

\* Mistake: the attempt under way is counted twice.
VerdictOneEarly(attempts, outcome) ==
    IF outcome = "ok" THEN "SUCCESS"
    ELSE IF attempts + 1 >= MaxAttempts THEN "FAILED" ELSE "QUEUED"

\* Mistake: the last error is swallowed.
VerdictSwallowed(attempts, outcome) ==
    IF outcome = "ok" \/ attempts >= MaxAttempts THEN "SUCCESS" ELSE "QUEUED"

\* Mistake: a status the schema does not have.
VerdictUnknown(attempts, outcome) ==
    IF outcome = "ok" THEN "COMPLETED" ELSE "QUEUED"

\* The attempts compared are those of the document as it was loaded.
Verdict(attempts, outcome) ==
    IF outcome = "ok" THEN "SUCCESS"
    ELSE IF attempts >= MaxAttempts THEN "FAILED" ELSE "QUEUED"

\* job.save() writes the status and removes the lock of whoever holds it now.
Save(w) ==
    /\ wpc[w] = "save"
    /\ \E c \in current[w] :
          job' = [job EXCEPT ![c[1]].status = Verdict(c[2], c[3]),
                             ![c[1]].owner = Nobody,
                             ![c[1]].stale = FALSE]
    /\ current' = [current EXCEPT ![w] = {}]
    /\ wpc' = [wpc EXCEPT ![w] = IF batch[w] = {} THEN "idle" ELSE "run"]
    /\ UNCHANGED <<remote, found, batch, calls, accepted, gone, retry, bounds>>

\* The save of a success is rejected: the catch clause takes it for a failure.
SaveRejected(w) ==
    /\ wpc[w] = "save"
    /\ crashes < MaxCrashes
    /\ crashes' = crashes + 1
    /\ \E c \in current[w] :
          /\ c[3] = "ok"
          /\ current' = [current EXCEPT ![w] = {<<c[1], c[2], "error">>}]
    /\ UNCHANGED <<job, remote, wpc, found, batch, calls, accepted, gone, retry, retried, slow>>

\* The process dies, or a save is rejected and the loop with it: the locks the
\* call still holds stay in the database, and nobody looks for its lockOwner.
Abort(w) ==
    /\ wpc[w] # "idle"
    /\ crashes < MaxCrashes
    /\ crashes' = crashes + 1
    /\ job' = [k \in Keys |-> IF job[k].owner = w
                              THEN [job[k] EXCEPT !.owner = Nobody] ELSE job[k]]
    /\ found' = [found EXCEPT ![w] = {}]
    /\ batch' = [batch EXCEPT ![w] = {}]
    /\ current' = [current EXCEPT ![w] = {}]
    /\ wpc' = [wpc EXCEPT ![w] = "idle"]
    /\ UNCHANGED <<remote, calls, accepted, gone, retry, retried, slow>>

\* lockDurationMs passes since a job was locked: after its call died ...
LostLockGoesStale(k) ==
    /\ job[k].status = "RUNNING" /\ ~job[k].stale
    /\ job[k].owner = Nobody
    /\ job' = [job EXCEPT ![k].stale = TRUE]
    /\ UNCHANGED queueRest

\* ... or under a call that is still at work on its batch.
LiveLockGoesStale(k) ==
    /\ job[k].status = "RUNNING" /\ ~job[k].stale
    /\ job[k].owner # Nobody
    /\ slow < MaxSlow
    /\ slow' = slow + 1
    /\ job' = [job EXCEPT ![k].stale = TRUE]
    /\ UNCHANGED <<remote, wpc, found, batch, current, calls, accepted, gone, retry, retried, crashes>>

\* retryServiceActionJob reads a job, in whatever state ...
RetryRead(k) ==
    /\ retry = {}
    /\ job[k].status # "absent"
    /\ k \notin retried /\ Cardinality(retried) < MaxRetries
    /\ retried' = retried \cup {k}
    /\ retry' = {<<k, job[k]>>}
    /\ UNCHANGED <<job, remote, wpc, found, batch, current, calls, accepted, gone, crashes, slow>>

\* ... and saves the fields that were not as they should be.
RetrySave ==
    /\ \E r \in retry :
          LET read == r[2]
              locked == read.status = "RUNNING"
          IN job' = [job EXCEPT ![r[1]] =
                       [status |-> IF read.status = "QUEUED" THEN @.status ELSE "QUEUED",
                        attempts |-> IF read.attempts = 0 THEN @.attempts ELSE 0,
                        owner |-> IF locked THEN Nobody ELSE @.owner,
                        stale |-> ~locked /\ @.stale]]
    /\ retry' = {}
    /\ UNCHANGED <<remote, wpc, found, batch, current, calls, accepted, gone, bounds>>

WorkerStep(w) == Find(w) \/ Lock(w) \/ Load(w) \/ Call(w) \/ Save(w)

QueueStep ==
    \/ \E w \in Workers : WorkerStep(w) \/ SaveRejected(w) \/ Abort(w)
    \/ \E k \in Keys : LostLockGoesStale(k) \/ LiveLockGoesStale(k)

\* What other components do to the queue: they insert jobs.
Enqueue ==
    /\ \E ks \in SUBSET Keys : Insert(ks)
    /\ UNCHANGED queueRest

\* performAction(DELETE): the job stays, and the account at the provider.
ServiceDeleted(s) ==
    /\ s \notin gone
    /\ gone' = gone \cup {s}
    /\ UNCHANGED <<job, remote, wpc, found, batch, current, calls, accepted, retry, bounds>>

\* An administrator's own WHM call changes the account beside the queue.
AdminCall ==
    /\ remote' \in [Services -> RemoteStates]
    /\ \A s \in Services : remote[s] = "destroyed" => remote'[s] = "destroyed"
    /\ UNCHANGED <<job, wpc, found, batch, current, calls, accepted, gone, retry, bounds>>

Environment ==
    \/ Enqueue
    \/ AdminCall
    \/ RetrySave \/ \E k \in Keys : RetryRead(k)
    \/ \E s \in Services : ServiceDeleted(s)

QueueNext == QueueStep \/ Environment

QueueSpec == QueueInit /\ [][QueueNext]_queueVars

\* A call that lives goes on, the scheduled tasks come back, locks get old.
QueueFairness ==
    /\ \A w \in Workers : WF_queueVars(WorkerStep(w))
    /\ \A k \in Keys : WF_queueVars(LostLockGoesStale(k))

-----------------------------------------------------------------------------
(* Properties *)

\* A job is given up only after MaxAttempts locks of it, although two workers
\* may write its result in any order from documents loaded at different times.
\* (A retry does not stop a worker that has the job from giving it up.)
FailedOnlyExhausted ==
    \A k \in Keys \ retried : job[k].status = "FAILED" => job[k].attempts >= MaxAttempts

\* The attempts of a job count at least every provider call made for it, also
\* when a second worker takes the job over: no call goes uncounted.
CallsCounted == \A k \in Keys \ retried : calls[k] <= job[k].attempts

\* A job is SUCCESS only if the provider accepted its action at least once, or
\* its service had been deleted.
SuccessWasAccepted ==
    \A k \in Keys : job[k].status = "SUCCESS" => k \in accepted \/ k[1] \in gone

\* Every job reaches an end, or is left QUEUED without attempts: a second
\* worker's late save can do that, and no worker takes such a job again.
JobSettles ==
    \A k \in Keys :
        (job[k].status # "absent") ~>
            \/ job[k].status \in {"SUCCESS", "FAILED"}
            \/ job[k].status = "QUEUED" /\ job[k].attempts >= MaxAttempts

\* What the documents say of a job, saved by any worker in any order, can be
\* relied on: its attempts, its FAILED and its SUCCESS (service-action.worker.ts:69).
ResultsJustified == FailedOnlyExhausted /\ CallsCounted /\ SuccessWasAccepted
=============================================================================

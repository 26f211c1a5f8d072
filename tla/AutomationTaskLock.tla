------------------------- MODULE AutomationTaskLock -------------------------
(***************************************************************************)
(* The automation scheduler of the billing backend: every server process   *)
(* starts the registered tasks from timers (jobs/automation.scheduler.ts),  *)
(* an administrator may start them by hand, and each run is bracketed by a  *)
(* lease in MongoDB (core/automation-task-lock.service.ts) and by an        *)
(* AutomationRun record (core/automation-run.service.ts).                   *)
(*                                                                          *)
(* Time is the number of ticks of a clock all processes share.  A run is    *)
(* one invocation of runWithAudit; its identity stands for the random UUID  *)
(* it writes as ownerId, so no run is started twice.                        *)
(***************************************************************************)
EXTENDS Integers

CONSTANTS
    Processes,   \* server processes that share the database
    Tasks,       \* keys of the task registry
    Runs,        \* invocations of runWithAudit (bounds the behaviour)
    NoOwner,     \* ownerId of a lock document that does not exist yet
    Lease,       \* lockDurationMs, in ticks
    MaxTime      \* bound: no invocation at or after this tick

ASSUME NoOwnerAssumption == NoOwner \notin Runs
ASSUME LeaseAssumption == Lease \in Nat \ {0}
ASSUME MaxTimeAssumption == MaxTime \in Nat

VARIABLES
    now,           \* the clock
    lock,          \* AutomationTaskLock documents; an absent one is <<NoOwner, 0>>
    runningTasks,  \* the in-memory set of keys of each process
    pc,            \* where each run is
    host,          \* process a run executes in
    key,           \* task a run executes
    source,        \* who started it
    stamp,         \* the `now` it computed before it asked for the lock
    record         \* status of its AutomationRun document

lockVars == <<now, lock, runningTasks, pc, host, key, source, stamp, record>>

Sources == {"cron", "manual"}
Locations == {"idle", "acquire", "acquired", "body", "succeeded", "failed",
              "release", "done"}
Records == {"none", "running", "success", "failure"}

\* A run that was granted the lease and has not asked for its release yet.
Holding == {"acquired", "body", "succeeded", "failed", "release"}
\* A run that runWithAudit has not returned from.
Active == {"acquire", "acquired", "body", "succeeded", "failed"}

\* Mistake: the duration is subtracted.
LeaseEndBefore(r) == stamp[r] - Lease

\* Mistake: the duration is taken for minutes.
LeaseEndMinutes(r) == stamp[r] + 60 * Lease

\* lockedUntil as the run itself computed it
LeaseEnd(r) == stamp[r] + Lease

TypeOK ==
    /\ now \in Nat
    /\ lock \in [Tasks -> [ownerId : Runs \cup {NoOwner}, lockedUntil : Nat]]
    /\ runningTasks \in [Processes -> SUBSET Tasks]
    /\ pc \in [Runs -> Locations]
    /\ host \in [Runs -> Processes]
    /\ key \in [Runs -> Tasks]
    /\ source \in [Runs -> Sources]
    /\ stamp \in [Runs -> Nat]
    /\ record \in [Runs -> Records]

LockInit ==
    /\ now = 0
    /\ lock = [k \in Tasks |-> [ownerId |-> NoOwner, lockedUntil |-> 0]]
    /\ runningTasks = [p \in Processes |-> {}]
    /\ pc = [r \in Runs |-> "idle"]
    /\ host \in [Runs -> Processes]
    /\ key \in [Runs -> Tasks]
    /\ source \in [Runs -> Sources]
    /\ stamp = [r \in Runs |-> 0]
    /\ record = [r \in Runs |-> "none"]

-----------------------------------------------------------------------------
\* The timer fires: runTask skips a key this process already runs, else it
\* adds the key and calls runWithAudit, which computes its `now` at once.
InvokeCron(r) ==
    /\ pc[r] = "idle"
    /\ now < MaxTime
    /\ source[r] = "cron"
    /\ key[r] \notin runningTasks[host[r]]
    /\ runningTasks' = [runningTasks EXCEPT ![host[r]] = @ \cup {key[r]}]
    /\ pc' = [pc EXCEPT ![r] = "acquire"]
    /\ stamp' = [stamp EXCEPT ![r] = now]
    /\ UNCHANGED <<now, lock, host, key, source, record>>

\* An administrator starts the task: runningTasks is neither read nor changed.
InvokeManual(r) ==
    /\ pc[r] = "idle"
    /\ now < MaxTime
    /\ source[r] = "manual"
    /\ pc' = [pc EXCEPT ![r] = "acquire"]
    /\ stamp' = [stamp EXCEPT ![r] = now]
    /\ UNCHANGED <<now, lock, runningTasks, host, key, source, record>>

\* Mistake: the early return of a skipped run leaves the key behind.
LeaveUnlessSkipped(r) ==
    runningTasks' = IF source[r] = "cron" /\ pc[r] # "acquire"
                    THEN [runningTasks EXCEPT ![host[r]] = @ \ {key[r]}]
                    ELSE runningTasks

\* runWithAudit returns or throws to runTask, whose finally clause deletes the
\* key; a manual run has no such clause.
Leave(r) ==
    runningTasks' = IF source[r] = "cron"
                    THEN [runningTasks EXCEPT ![host[r]] = @ \ {key[r]}]
                    ELSE runningTasks

\* Mistake: a lease in its last tick counts as ended.
GrantedEarly(r) == lock[key[r]].lockedUntil <= stamp[r] + 1

\* findOneAndUpdate matches a document whose lease ended by `stamp` (or upserts
\* a missing one); otherwise the upsert hits the unique taskKey index.
Granted(r) == lock[key[r]].lockedUntil <= stamp[r]

TakeLock(r) ==
    lock' = [lock EXCEPT ![key[r]] = [ownerId |-> r, lockedUntil |-> LeaseEnd(r)]]

Acquire(r) ==
    /\ pc[r] = "acquire"
    /\ Granted(r)
    /\ TakeLock(r)
    /\ pc' = [pc EXCEPT ![r] = "acquired"]
    /\ UNCHANGED <<now, runningTasks, host, key, source, stamp, record>>

SkipLocked(r) ==
    /\ pc[r] = "acquire"
    /\ ~Granted(r)
    /\ Leave(r)
    /\ pc' = [pc EXCEPT ![r] = "done"]
    /\ UNCHANGED <<now, lock, host, key, source, stamp, record>>

\* The call fails: the update may still have reached the database.
AcquireFails(r) ==
    /\ pc[r] = "acquire"
    /\ \/ UNCHANGED lock
       \/ Granted(r) /\ TakeLock(r)
    /\ Leave(r)
    /\ pc' = [pc EXCEPT ![r] = "done"]
    /\ UNCHANGED <<now, host, key, source, stamp, record>>

StartRun(r) ==
    /\ pc[r] = "acquired"
    /\ record' = [record EXCEPT ![r] = "running"]
    /\ pc' = [pc EXCEPT ![r] = "body"]
    /\ UNCHANGED <<now, lock, runningTasks, host, key, source, stamp>>

\* startRun is awaited outside the try statement: nobody releases the lock.
StartRunFails(r) ==
    /\ pc[r] = "acquired"
    /\ Leave(r)
    /\ pc' = [pc EXCEPT ![r] = "done"]
    /\ UNCHANGED <<now, lock, host, key, source, stamp, record>>

\* The task itself ends, after any time, normally or by an exception.
EndBody(r) ==
    /\ pc[r] = "body"
    /\ \E outcome \in {"succeeded", "failed"} : pc' = [pc EXCEPT ![r] = outcome]
    /\ UNCHANGED <<now, lock, runningTasks, host, key, source, stamp, record>>

CompleteSuccess(r) ==
    /\ pc[r] = "succeeded"
    /\ record' = [record EXCEPT ![r] = "success"]
    /\ Leave(r)
    /\ pc' = [pc EXCEPT ![r] = "release"]
    /\ UNCHANGED <<now, lock, host, key, source, stamp>>

\* completeRun, or recordSuccess after it, throws: the catch clause takes over.
CompleteSuccessFails(r) ==
    /\ pc[r] = "succeeded"
    /\ \E s \in {"running", "success"} : record' = [record EXCEPT ![r] = s]
    /\ pc' = [pc EXCEPT ![r] = "failed"]
    /\ UNCHANGED <<now, lock, runningTasks, host, key, source, stamp>>

\* The catch clause; if completeRun throws in it the record stays as it was.
CompleteFailure(r) ==
    /\ pc[r] = "failed"
    /\ \E s \in {record[r], "failure"} : record' = [record EXCEPT ![r] = s]
    /\ Leave(r)
    /\ pc' = [pc EXCEPT ![r] = "release"]
    /\ UNCHANGED <<now, lock, host, key, source, stamp>>

\* Mistake: the update matches the taskKey only.
OwnedByAnyone(r) == TRUE

Owned(r) == lock[key[r]].ownerId = r

\* The finally clause fires release without awaiting it; the updateOne that
\* matches taskKey and ownerId arrives later.
Release(r) ==
    /\ pc[r] = "release"
    /\ lock' = IF Owned(r)
               THEN [lock EXCEPT ![key[r]].lockedUntil = 0]
               ELSE lock
    /\ pc' = [pc EXCEPT ![r] = "done"]
    /\ UNCHANGED <<now, runningTasks, host, key, source, stamp, record>>

ReleaseFails(r) ==
    /\ pc[r] = "release"
    /\ pc' = [pc EXCEPT ![r] = "done"]
    /\ UNCHANGED <<now, lock, runningTasks, host, key, source, stamp, record>>

\* The process dies and restarts: its runs are gone, its Set is empty.
Crash(p) ==
    /\ \E r \in Runs : host[r] = p /\ pc[r] \notin {"idle", "done"}
    /\ pc' = [r \in Runs |-> IF host[r] = p /\ pc[r] # "idle" THEN "done" ELSE pc[r]]
    /\ runningTasks' = [runningTasks EXCEPT ![p] = {}]
    /\ UNCHANGED <<now, lock, host, key, source, stamp, record>>

\* The bound leaves the last lease time to run out.
Tick ==
    /\ now < MaxTime + Lease
    /\ now' = now + 1
    /\ UNCHANGED <<lock, runningTasks, pc, host, key, source, stamp, record>>

\* Everything a run does by itself once it is started, the task's body aside.
Proceed(r) ==
    \/ Acquire(r) \/ SkipLocked(r) \/ AcquireFails(r)
    \/ StartRun(r) \/ StartRunFails(r)
    \/ CompleteSuccess(r) \/ CompleteSuccessFails(r) \/ CompleteFailure(r)
    \/ Release(r) \/ ReleaseFails(r)

LockNext ==
    \/ \E r \in Runs : InvokeCron(r) \/ InvokeManual(r) \/ Proceed(r) \/ EndBody(r)
    \/ \E p \in Processes : Crash(p)
    \/ Tick

LockSpec == LockInit /\ [][LockNext]_lockVars

\* A process that is alive goes on with a run it started, and time passes.
\* Nothing forces a timer, an administrator, a crash, or a task to end: the
\* tasks await remote calls, some of them without a timeout.
FairLockSpec == LockSpec /\ WF_lockVars(Tick) /\ \A r \in Runs : WF_lockVars(Proceed(r))

-----------------------------------------------------------------------------
(* Properties *)

\* The lease of a task while it runs, and the runs that execute under one.
holderBar ==
    [k \in Tasks |-> IF now < lock[k].lockedUntil THEN lock[k].ownerId ELSE NoOwner]

insideBar ==
    [k \in Tasks |-> {r \in Runs : /\ pc[r] \in Holding /\ key[r] = k
                                   /\ now < LeaseEnd(r)}]

Abstract == INSTANCE LeaseMutex WITH holder <- holderBar, inside <- insideBar

\* The lock document, with its late requests, lost answers and crashes,
\* implements the abstract lease.
AbstractLease == Abstract!Spec

\* Two runs of one task never both hold a lease that has not run out, whatever
\* processes they are in and however late their requests and releases arrive
\* (acquire's filter and release's ownerId filter).
LeaseExclusion ==
    \A r, s \in Runs :
        /\ pc[r] \in Holding /\ pc[s] \in Holding
        /\ key[r] = key[s]
        /\ now < LeaseEnd(r) /\ now < LeaseEnd(s)
        => r = s

\* runningTasks holds a key exactly while one cron run of it is in progress in
\* that process: no path through runWithAudit leaves the key behind, which
\* would stop the task until a restart, and no path frees it early.
RunningTasksExact ==
    \A p \in Processes, k \in Tasks :
        LET runs == {r \in Runs : /\ host[r] = p /\ key[r] = k
                                  /\ source[r] = "cron" /\ pc[r] \in Active}
        IN /\ (k \in runningTasks[p]) <=> (runs # {})
           /\ \A r, s \in runs : r = s

\* A lease that has not run out changes hands or ends only by the release of
\* the run that owns it: a late release of an older run never frees it.
ReleaseFenced ==
    [][\A k \in Tasks :
          lock[k].lockedUntil > now /\ lock'[k] # lock[k] =>
              \E r \in Runs : /\ lock[k].ownerId = r
                              /\ pc[r] = "release" /\ pc'[r] = "done"]_lockVars

\* A lock that a crash, a failed startRun or a failed release left behind does
\* not stay: its lease runs out or another run owns the document.
LeakedLockRunsOut ==
    \A r \in Runs :
        (pc[r] = "done" /\ lock[key[r]].ownerId = r)
            ~> (lock[key[r]].ownerId # r \/ lock[key[r]].lockedUntil <= now)

\* A key leaves runningTasks unless its task's body never ends.
CronSlotFreed ==
    \A p \in Processes, k \in Tasks :
        (k \in runningTasks[p]) ~>
            \/ k \notin runningTasks[p]
            \/ \E r \in Runs : host[r] = p /\ key[r] = k /\ pc[r] = "body"

\* A task goes on whatever dies or fails on the way: neither its lock document
\* nor its key in runningTasks is held for ever (automation-tasks.service.ts:48).
TasksGoOn == LeakedLockRunsOut /\ CronSlotFreed
=============================================================================

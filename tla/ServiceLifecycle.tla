-------------------------- MODULE ServiceLifecycle --------------------------
(***************************************************************************)
(* Who changes the status of a provisioned service, and which provider      *)
(* actions they queue: the overdue enforcement cron                         *)
(* (service-renewal.scheduler.ts), the termination cron                     *)
(* (service-termination.scheduler.ts), the handler of a paid invoice        *)
(* (service-lifecycle.service.ts) and administrators                        *)
(* (service-admin.service.ts).  Each reads documents, then writes them one  *)
(* by one, and queues a job after each write; none of it is in a database   *)
(* transaction.  Composed with ServiceActionQueue, which it extends.        *)
(***************************************************************************)
EXTENDS ServiceActionQueue

CONSTANTS
    Linked,        \* invoice -> services its items name in meta.serviceId
    AdminActions,  \* what administrators do, of {"SUSPEND", "UNSUSPEND", ...}
    Dates,         \* states of an automation date, of {"none", "later", "due"}
    MaxFaults      \* bound: handlers that die and inserts that fail

ASSUME MaxFaultsAssumption == MaxFaults \in Nat
ASSUME LinkedAssumption == Linked \in [Invoices -> SUBSET Services]
ASSUME DatesAssumption == "none" \in Dates

VARIABLES
    status,      \* Service.status
    ripe,        \* suspendedAt is daysBeforeTermination or more ago
    decided,     \* history: services somebody decided to terminate
    schedule,    \* meta.autoSuspendAt and meta.autoTerminateAt
    paid,        \* invoice is PAID
    pastGrace,   \* dueDate is daysBeforeSuspend or more ago
    sweep,       \* overdue enforcement: [pc, todo, at]
    restore,     \* handler of each paid invoice: [pc, todo, at]
    reaper,      \* termination cron: [pc, todo, at]
    faults,      \* used part of MaxFaults
    admin        \* administrator's WHM call that succeeded: {<<service, action>>} or {}

lifecycleVars ==
    <<status, ripe, decided, schedule, paid, pastGrace, sweep, restore, reaper,
      faults, admin>>
vars == <<queueVars, lifecycleVars>>

ServiceStatus == {"ACTIVE", "SUSPENDED", "TERMINATED"}
Schedules == [suspend : Dates, terminate : Dates]

LifecycleTypeOK ==
    /\ QueueTypeOK
    /\ status \in [Services -> ServiceStatus]
    /\ ripe \in [Services -> BOOLEAN]
    /\ decided \in SUBSET Services
    /\ schedule \in [Services -> Schedules]
    /\ paid \in [Invoices -> BOOLEAN]
    /\ pastGrace \in [Invoices -> BOOLEAN]
    /\ sweep \in [pc : {"idle", "invoices", "queue", "dates", "queueDate"},
                  todo : SUBSET (Invoices \cup Services),
                  at : SUBSET (Invoices \cup Services)]
    /\ restore \in [Invoices -> [pc : {"none", "read", "save", "queue", "done"},
                                 todo : SUBSET Services, at : SUBSET Services]]
    /\ reaper \in [pc : {"idle", "save", "queue"},
                   todo : SUBSET Services, at : SUBSET Services]
    /\ faults \in Nat
    /\ admin \in SUBSET (Services \X AdminActions)

Init ==
    /\ QueueInit
    /\ status = [s \in Services |-> "ACTIVE"]
    /\ ripe = [s \in Services |-> FALSE]
    /\ decided = {}
    /\ schedule = [s \in Services |-> [suspend |-> "none", terminate |-> "none"]]
    /\ paid = [i \in Invoices |-> FALSE]
    /\ pastGrace = [i \in Invoices |-> FALSE]
    /\ sweep = [pc |-> "idle", todo |-> {}, at |-> {}]
    /\ restore = [i \in Invoices |-> [pc |-> "none", todo |-> {}, at |-> {}]]
    /\ reaper = [pc |-> "idle", todo |-> {}, at |-> {}]
    /\ faults = 0
    /\ admin = {}

-----------------------------------------------------------------------------
(* Time *)

DueDatePasses(i) ==
    /\ ~pastGrace[i]
    /\ pastGrace' = [pastGrace EXCEPT ![i] = TRUE]
    /\ UNCHANGED <<queueVars, status, ripe, decided, schedule, paid,
                   sweep, restore, reaper, admin, faults>>

SuspensionRipens(s) ==
    /\ status[s] = "SUSPENDED" /\ ~ripe[s]
    /\ ripe' = [ripe EXCEPT ![s] = TRUE]
    /\ UNCHANGED <<queueVars, status, decided, schedule, paid, pastGrace,
                   sweep, restore, reaper, admin, faults>>

\* autoTerminateAt is not before autoSuspendAt when both are set.
DateOrder(d) ==
    d.terminate = "due" => d.suspend \in {"none", "due"}

DatesPass(s) ==
    /\ \E d \in Schedules :
          /\ d # schedule[s] /\ DateOrder(d)
          /\ d.suspend \in {schedule[s].suspend, "due"}
          /\ d.terminate \in {schedule[s].terminate, "due"}
          /\ schedule[s].suspend = "none" => d.suspend = "none"
          /\ schedule[s].terminate = "none" => d.terminate = "none"
          /\ schedule' = [schedule EXCEPT ![s] = d]
    /\ UNCHANGED <<queueVars, status, ripe, decided, paid, pastGrace,
                   sweep, restore, reaper, admin, faults>>

\* Mistake: an upsert that starts an existing job afresh.
QueueAfresh(ks) ==
    /\ job' = [k \in Keys |-> IF k \in ks
                               THEN [status |-> "QUEUED", attempts |-> 0,
                                     owner |-> Nobody, stale |-> FALSE]
                               ELSE job[k]]
    /\ UNCHANGED faults

\* A job per key; an error other than a duplicate key is only printed.
Queue(ks) ==
    \/ Insert(ks) /\ UNCHANGED faults
    \/ /\ faults < MaxFaults
       /\ faults' = faults + 1
       /\ \E some \in SUBSET ks : some # ks /\ Insert(some)

-----------------------------------------------------------------------------
(* processOverdueEnforcements: the invoices are read once, as plain objects *)

\* Mistake: the grace period is not subtracted from today.
SweepStartNoGrace ==
    /\ sweep.pc = "idle"
    /\ sweep' = [pc |-> "invoices", at |-> {},
                 todo |-> {i \in Invoices : ~paid[i] /\ Linked[i] # {}}]
    /\ UNCHANGED <<queueVars, status, ripe, decided, schedule, paid, pastGrace,
                   restore, reaper, admin, faults>>

\* Mistake: invoices whose services are all suspended are skipped.
SweepStartActiveOnly ==
    /\ sweep.pc = "idle"
    /\ sweep' = [pc |-> "invoices", at |-> {},
                 todo |-> {i \in Invoices : /\ ~paid[i] /\ pastGrace[i]
                                            /\ \E s \in Linked[i] : status[s] = "ACTIVE"}]
    /\ UNCHANGED <<queueVars, status, ripe, decided, schedule, paid, pastGrace,
                   restore, reaper, admin, faults>>

SweepStart ==
    /\ sweep.pc = "idle"
    /\ sweep' = [pc |-> "invoices", at |-> {},
                 todo |-> {i \in Invoices : ~paid[i] /\ pastGrace[i] /\ Linked[i] # {}}]
    /\ UNCHANGED <<queueVars, status, ripe, decided, schedule, paid, pastGrace,
                   restore, reaper, admin, faults>>

\* updateMany tests that the services are ACTIVE, and not that the invoice read
\* earlier is still unpaid.
SweepSuspend(i) ==
    LET hit == {s \in Linked[i] : status[s] = "ACTIVE"}
    IN /\ sweep.pc = "invoices" /\ i \in sweep.todo
       /\ status' = [s \in Services |-> IF s \in hit THEN "SUSPENDED" ELSE status[s]]
       /\ ripe' = [s \in Services |-> IF s \in hit THEN FALSE ELSE ripe[s]]
       /\ sweep' = [sweep EXCEPT !.pc = "queue", !.at = {i}]
       /\ UNCHANGED <<queueVars, decided, schedule, paid, pastGrace,
                      restore, reaper, admin, faults>>

\* Mistake: the wrong action is queued.
SweepQueueTerminate ==
    /\ sweep.pc = "queue"
    /\ \E i \in sweep.at :
          /\ Queue({<<s, "TERMINATE", i>> : s \in Linked[i]})
          /\ sweep' = [pc |-> "invoices", todo |-> sweep.todo \ {i}, at |-> {}]
    /\ UNCHANGED <<queueRest, status, ripe, decided, schedule, paid, pastGrace,
                   restore, reaper, admin>>

\* Jobs for every linked service, suspended just now or before.
SweepQueue ==
    /\ sweep.pc = "queue"
    /\ \E i \in sweep.at :
          /\ Queue({<<s, "SUSPEND", i>> : s \in Linked[i]})
          /\ sweep' = [pc |-> "invoices", todo |-> sweep.todo \ {i}, at |-> {}]
    /\ UNCHANGED <<queueRest, status, ripe, decided, schedule, paid, pastGrace, restore, reaper, admin>>

\* Step 5 reads the active services whose autoSuspendAt has come.
SweepDates ==
    /\ sweep.pc = "invoices" /\ sweep.todo = {}
    /\ LET due == {s \in Services : status[s] = "ACTIVE" /\ schedule[s].suspend = "due"}
       IN sweep' = [pc |-> IF due = {} THEN "idle" ELSE "dates", todo |-> due, at |-> {}]
    /\ UNCHANGED <<queueVars, status, ripe, decided, schedule, paid, pastGrace,
                   restore, reaper, admin, faults>>

\* A save of the document as it was read: the status it has by now is lost.
SweepDateSave(s) ==
    /\ sweep.pc = "dates" /\ s \in sweep.todo
    /\ status' = [status EXCEPT ![s] = "SUSPENDED"]
    /\ ripe' = [ripe EXCEPT ![s] = FALSE]
    /\ sweep' = [sweep EXCEPT !.pc = "queueDate", !.at = {s}]
    /\ UNCHANGED <<queueVars, decided, schedule, paid, pastGrace, restore, reaper, admin, faults>>

SweepDateQueue ==
    /\ sweep.pc = "queueDate"
    /\ \E s \in sweep.at :
          LET left == sweep.todo \ {s}
          IN /\ Queue({<<s, "SUSPEND", NoInvoice>>})
             /\ sweep' = [pc |-> IF left = {} THEN "idle" ELSE "dates",
                          todo |-> left, at |-> {}]
    /\ UNCHANGED <<queueRest, status, ripe, decided, schedule, paid, pastGrace, restore, reaper, admin>>

\* The process dies or an await throws.
SweepAbort ==
    /\ sweep.pc # "idle"
    /\ faults < MaxFaults
    /\ faults' = faults + 1
    /\ sweep' = [pc |-> "idle", todo |-> {}, at |-> {}]
    /\ UNCHANGED <<queueVars, status, ripe, decided, schedule, paid, pastGrace, restore, reaper, admin>>

-----------------------------------------------------------------------------
(* Payment of an invoice, and onInvoicePaidUnsuspend after it *)

\* The payment is committed; its callback goes on to the lifecycle service.
InvoicePaid(i) ==
    /\ ~paid[i]
    /\ paid' = [paid EXCEPT ![i] = TRUE]
    /\ restore' = [restore EXCEPT ![i].pc = "read"]
    /\ UNCHANGED <<queueVars, status, ripe, decided, schedule, pastGrace,
                   sweep, reaper, admin, faults>>

RestoreRead(i) ==
    LET hit == {s \in Linked[i] : status[s] = "SUSPENDED"}
    IN /\ restore[i].pc = "read"
       /\ restore' = [restore EXCEPT ![i] = [pc |-> IF hit = {} THEN "done" ELSE "save",
                                             todo |-> hit, at |-> {}]]
       /\ UNCHANGED <<queueVars, status, ripe, decided, schedule, paid, pastGrace,
                      sweep, reaper, admin, faults>>

\* A save of the document as it was read; suspendedAt keeps its value.
RestoreSave(i, s) ==
    /\ restore[i].pc = "save" /\ s \in restore[i].todo
    /\ status' = [status EXCEPT ![s] = "ACTIVE"]
    /\ restore' = [restore EXCEPT ![i].pc = "queue", ![i].at = {s}]
    /\ UNCHANGED <<queueVars, ripe, decided, schedule, paid, pastGrace,
                   sweep, reaper, admin, faults>>

RestoreQueue(i) ==
    /\ restore[i].pc = "queue"
    /\ \E s \in restore[i].at :
          LET left == restore[i].todo \ {s}
          IN /\ Queue({<<s, "UNSUSPEND", i>>})
             /\ restore' = [restore EXCEPT
                   ![i] = [pc |-> IF left = {} THEN "done" ELSE "save",
                           todo |-> left, at |-> {}]]
    /\ UNCHANGED <<queueRest, status, ripe, decided, schedule, paid, pastGrace, sweep, reaper, admin>>

\* Nothing calls the handler again: processOrphanedSuspensions has no caller.
RestoreAbort(i) ==
    /\ restore[i].pc \in {"read", "save", "queue"}
    /\ faults < MaxFaults
    /\ faults' = faults + 1
    /\ restore' = [restore EXCEPT ![i] = [pc |-> "done", todo |-> {}, at |-> {}]]
    /\ UNCHANGED <<queueVars, status, ripe, decided, schedule, paid, pastGrace, sweep, reaper, admin>>

-----------------------------------------------------------------------------
(* processTerminations *)

ReaperStart ==
    LET hit == {s \in Services :
                  \/ status[s] = "SUSPENDED" /\ ripe[s]
                  \/ status[s] \in {"ACTIVE", "SUSPENDED"} /\ schedule[s].terminate = "due"}
    IN /\ reaper.pc = "idle"
       /\ hit # {}
       /\ reaper' = [pc |-> "save", todo |-> hit, at |-> {}]
       /\ UNCHANGED <<queueVars, status, ripe, decided, schedule, paid, pastGrace,
                      sweep, restore, admin, faults>>

ReaperSave(s) ==
    /\ reaper.pc = "save" /\ s \in reaper.todo
    /\ status' = [status EXCEPT ![s] = "TERMINATED"]
    /\ decided' = decided \cup {s}
    /\ reaper' = [reaper EXCEPT !.pc = "queue", !.at = {s}]
    /\ UNCHANGED <<queueVars, ripe, schedule, paid, pastGrace, sweep, restore, admin, faults>>

ReaperQueue ==
    /\ reaper.pc = "queue"
    /\ \E s \in reaper.at :
          LET left == reaper.todo \ {s}
          IN /\ Queue({<<s, "TERMINATE", NoInvoice>>})
             /\ reaper' = [pc |-> IF left = {} THEN "idle" ELSE "save",
                           todo |-> left, at |-> {}]
    /\ UNCHANGED <<queueRest, status, ripe, decided, schedule, paid, pastGrace, sweep, restore, admin>>

ReaperAbort ==
    /\ reaper.pc # "idle"
    /\ faults < MaxFaults
    /\ faults' = faults + 1
    /\ reaper' = [pc |-> "idle", todo |-> {}, at |-> {}]
    /\ UNCHANGED <<queueVars, status, ripe, decided, schedule, paid, pastGrace, sweep, restore, admin>>

-----------------------------------------------------------------------------
(* Administrators *)

\* performAction calls WHM first, whatever the status of the service.
AdminCallWhm(s, action) ==
    /\ action \in AdminActions \cap Actions
    /\ admin = {}
    /\ remote[s] # "destroyed"
    /\ remote' = [remote EXCEPT ![s] = Effect(action)]
    /\ decided' = IF action = "TERMINATE" THEN decided \cup {s} ELSE decided
    /\ admin' = {<<s, action>>}
    /\ UNCHANGED <<job, wpc, found, batch, current, calls, accepted, gone, retry, bounds, faults,
                   status, ripe, schedule, paid, pastGrace, sweep, restore, reaper>>

\* Mistake: a status of the pending orders, not of provisioned services.
StatusAfterCancel(action) ==
    CASE action = "SUSPEND" -> "SUSPENDED"
      [] action = "UNSUSPEND" -> "ACTIVE"
      [] action = "TERMINATE" -> "CANCELLED"

StatusAfter(action) ==
    CASE action = "SUSPEND" -> "SUSPENDED"
      [] action = "UNSUSPEND" -> "ACTIVE"
      [] action = "TERMINATE" -> "TERMINATED"

\* ... and writes the status afterwards; suspendedAt is set by a suspension.
AdminSave ==
    /\ \E op \in admin :
          /\ status' = [status EXCEPT ![op[1]] = StatusAfter(op[2])]
          /\ ripe' = [ripe EXCEPT ![op[1]] = @ /\ op[2] = "TERMINATE"]
    /\ admin' = {}
    /\ UNCHANGED <<queueVars, decided, schedule, paid, pastGrace, sweep, restore, reaper, faults>>

\* The answer is lost, or the process dies between the call and the write.
AdminAbort ==
    /\ admin # {}
    /\ faults < MaxFaults
    /\ faults' = faults + 1
    /\ admin' = {}
    /\ UNCHANGED <<queueVars, status, ripe, decided, schedule, paid, pastGrace, sweep, restore, reaper>>

\* updateAutomationSchedule replaces both dates.
AdminSetDates(s) ==
    /\ \E d \in Schedules : DateOrder(d) /\ schedule' = [schedule EXCEPT ![s] = d]
    /\ UNCHANGED <<queueVars, status, ripe, decided, paid, pastGrace,
                   sweep, restore, reaper, admin, faults>>

-----------------------------------------------------------------------------
Sweep ==
    \/ SweepStart \/ SweepQueue \/ SweepDates \/ SweepDateQueue
    \/ \E i \in Invoices : SweepSuspend(i)
    \/ \E s \in Services : SweepDateSave(s)

Restore(i) ==
    \/ RestoreRead(i) \/ RestoreQueue(i)
    \/ \E s \in Services : RestoreSave(i, s)

Reaper == ReaperStart \/ ReaperQueue \/ \E s \in Services : ReaperSave(s)

SystemNext ==
    \/ QueueStep /\ UNCHANGED lifecycleVars
    \/ Sweep \/ SweepAbort
    \/ Reaper \/ ReaperAbort
    \/ AdminSave \/ AdminAbort
    \/ \E i \in Invoices :
          DueDatePasses(i) \/ InvoicePaid(i) \/ Restore(i) \/ RestoreAbort(i)
    \/ \E s \in Services :
          \/ SuspensionRipens(s) \/ DatesPass(s)
          \/ \E a \in AdminActions : AdminCallWhm(s, a)

Next == SystemNext \/ \E s \in Services : AdminSetDates(s)

Spec == Init /\ [][Next]_vars

\* The enforcement cron comes back and goes on.  Nothing else has to happen for
\* the property below: payments, administrators and other crons may never come.
Fairness == WF_vars(Sweep)

FairSpec == Spec /\ Fairness

-----------------------------------------------------------------------------
(* Properties *)

\* The queue as a component of the whole: crons, payment handlers and
\* administrators touch it only by inserting jobs and by their own WHM calls.
QueueRefinement == QueueSpec

\* A provider account is destroyed only for a service that the termination cron
\* marked TERMINATED or that an administrator terminated, however crons,
\* payments, administrators and workers interleave and fail.
DestroyedOnlyDecided ==
    \A s \in Services : remote[s] = "destroyed" => s \in decided

\* A suspension is queued under an invoice only past its grace period, and an
\* unsuspension only under a paid one: also from invoices read long before.
JobsJustified ==
    \A s \in Services, i \in Invoices :
        /\ job[<<s, "SUSPEND", i>>].status # "absent" => s \in Linked[i] /\ pastGrace[i]
        /\ job[<<s, "UNSUSPEND", i>>].status # "absent" => s \in Linked[i] /\ paid[i]

\* Whoever acts on a service does so on a decision, however stale the documents
\* he works from (service-renewal.scheduler.ts:234, :300).
ActionsDecided == DestroyedOnlyDecided /\ JobsJustified

\* Recovery of the enforcement from crashes and failed inserts: while an
\* invoice stays overdue, each of its services gets its SUSPEND job, for the
\* sweep queues the services it finds suspended as well.
SuspensionQueued ==
    \A i \in Invoices : \A s \in Linked[i] :
        (pastGrace[i] /\ ~paid[i]) ~> (paid[i] \/ job[<<s, "SUSPEND", i>>].status # "absent")

\* Nobody is at work on services, and every job was carried out.
Quiet ==
    /\ sweep.pc = "idle" /\ reaper.pc = "idle" /\ admin = {}
    /\ \A i \in Invoices : restore[i].pc \in {"none", "done"}
    /\ \A w \in Workers : wpc[w] = "idle"
    /\ \A k \in Keys : job[k].status \in {"absent", "SUCCESS"}

\* docs/AUTO-RENEWAL-CRON-CHECKLIST.md:32, "Unsuspend on payment":
\* once every job has succeeded, the account of an ACTIVE service runs.
UnsuspendedOnPayment ==
    Quiet => \A s \in Services : status[s] = "ACTIVE" => remote[s] = "running"

\* The same line: with every invoice paid and its handler through, no
\* service is left SUSPENDED (without administrators and dates).
PaidNotSuspended ==
    Quiet /\ (\A i \in Invoices : paid[i]) => \A s \in Services : status[s] # "SUSPENDED"
=============================================================================

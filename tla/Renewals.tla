------------------------------ MODULE Renewals ------------------------------
(***************************************************************************)
(* Renewal of recurring services: the cron that invoices services before     *)
(* their due date (processRenewals of jobs/service-renewal.scheduler.ts),    *)
(* the RenewalLedger it uses to invoice a cycle once, and the handler that   *)
(* advances a service when its invoice is paid (applyRenewalPayment of       *)
(* core/service-lifecycle.service.ts).                                       *)
(*                                                                          *)
(* A due date is the number of the billing cycle that begins with it.  The   *)
(* services belong to one client, so that those due on one date share an     *)
(* invoice, and are not domains, whose renewal needs a job as well.          *)
(***************************************************************************)
EXTENDS Integers, FiniteSets

CONSTANTS
    Services,
    Crons,       \* concurrent calls of processRenewals
    Appliers,    \* concurrent calls of applyRenewalPayment
    MaxCycle,    \* bound: last cycle that comes up for renewal
    MaxInvoices, \* bound: renewal invoices made
    MaxChanges,  \* bound: services suspended, restored or terminated
    MaxFaults,   \* bound: calls that die and inserts that fail
    MaxAdmin,    \* bound: invoices an administrator sets back to UNPAID
    MaxRepeats   \* bound: payments that are applied once more

ASSUME MaxCycleAssumption == MaxCycle \in Nat
ASSUME BoundsAssumption == {MaxInvoices, MaxChanges, MaxFaults, MaxAdmin, MaxRepeats} \subseteq Nat

VARIABLES
    horizon,   \* last cycle that begins within renewalLeadDays
    status,    \* Service.status
    nextDue,   \* Service.nextDueDate
    ledger,    \* RenewalLedger, by its unique index (service, due date)
    bill,      \* renewal invoices
    owed,      \* paid invoices whose payment is still to be applied
    cron,      \* [pc, todo, fresh, at] of each cron call
    applier,   \* [pc, at, todo, cur] of each handler
    used,      \* used parts of the bounds
    history    \* what happened: see RenewalTypeOK

vars == <<horizon, status, nextDue, ledger, bill, owed, cron, applier, used, history>>

\* invoiceNumber; 0 stands for no invoice
Invoices == 1..MaxInvoices
NoInvoice == 0

Cycles == 0..MaxCycle
DueDates == 0..(MaxCycle + 1)
Loaded == Services \X DueDates   \* a service with the due date it was read with

RenewalTypeOK ==
    /\ horizon \in Cycles
    /\ status \in [Services -> {"ACTIVE", "SUSPENDED", "TERMINATED"}]
    /\ nextDue \in [Services -> DueDates]
    /\ ledger \in [Services \X Cycles ->
                      [invoice : Invoices \cup {NoInvoice}, paid : BOOLEAN]]
    /\ bill \in [Invoices -> [status : {"none", "UNPAID", "PAID"},
                              cycle : Cycles, services : SUBSET Services]]
    /\ owed \in SUBSET Invoices
    /\ cron \in [Crons -> [pc : {"idle", "check", "invoice", "ledger"},
                           todo : SUBSET (Services \X Cycles),
                           fresh : SUBSET (Services \X Cycles),
                           at : SUBSET Invoices]]
    /\ applier \in [Appliers -> [pc : {"idle", "next", "save", "ledger"},
                                 at : SUBSET Invoices, todo : SUBSET Loaded,
                                 cur : SUBSET (Loaded \X BOOLEAN)]]
    /\ used \in [faults : Nat, admin : Nat, repeats : Nat, changes : Nat]
    /\ history \in [paid : SUBSET Invoices,   \* invoices that were PAID once
                    overlap : BOOLEAN,        \* two cron calls ran at once
                    stale : BOOLEAN,          \* two handlers ran at once
                    refused : BOOLEAN]        \* the ledger's index refused a handler

CronIdle == [pc |-> "idle", todo |-> {}, fresh |-> {}, at |-> {}]
ApplierIdle == [pc |-> "idle", at |-> {}, todo |-> {}, cur |-> {}]

Init ==
    /\ horizon = 0
    /\ status = [s \in Services |-> "ACTIVE"]
    /\ nextDue = [s \in Services |-> 0]
    /\ ledger = [e \in Services \X Cycles |-> [invoice |-> NoInvoice, paid |-> FALSE]]
    /\ bill = [i \in Invoices |-> [status |-> "none", cycle |-> 0, services |-> {}]]
    /\ owed = {}
    /\ cron = [c \in Crons |-> CronIdle]
    /\ applier = [a \in Appliers |-> ApplierIdle]
    /\ used = [faults |-> 0, admin |-> 0, repeats |-> 0, changes |-> 0]
    /\ history = [paid |-> {}, overlap |-> FALSE, stale |-> FALSE, refused |-> FALSE]

Fault ==
    /\ used.faults < MaxFaults
    /\ used' = [used EXCEPT !.faults = @ + 1]

-----------------------------------------------------------------------------
(* Time, and what other components do *)

CycleComesUp ==
    /\ horizon < MaxCycle
    /\ horizon' = horizon + 1
    /\ UNCHANGED <<status, nextDue, ledger, bill, owed, cron, applier, used, history>>

\* Enforcement and payment suspend and restore services; some are terminated.
StatusChanges(s) ==
    /\ status[s] # "TERMINATED"
    /\ used.changes < MaxChanges
    /\ used' = [used EXCEPT !.changes = @ + 1]
    /\ \E new \in {"ACTIVE", "SUSPENDED", "TERMINATED"} \ {status[s]} :
          status' = [status EXCEPT ![s] = new]
    /\ UNCHANGED <<horizon, nextDue, ledger, bill, owed, cron, applier, history>>

\* The payment is committed; its callback goes on to applyRenewalPayment.
Pay(i) ==
    /\ bill[i].status = "UNPAID"
    /\ bill' = [bill EXCEPT ![i].status = "PAID"]
    /\ owed' = owed \cup {i}
    /\ history' = [history EXCEPT !.paid = @ \cup {i}]
    /\ UNCHANGED <<horizon, status, nextDue, ledger, cron, applier, used>>

\* A second payment of the invoice, seen unpaid by both, is applied as well.
PayAgain(i) ==
    /\ bill[i].status = "PAID" /\ i \notin owed
    /\ used.repeats < MaxRepeats
    /\ used' = [used EXCEPT !.repeats = @ + 1]
    /\ owed' = owed \cup {i}
    /\ UNCHANGED <<horizon, status, nextDue, ledger, bill, cron, applier, history>>

\* updateInvoiceStatus(UNPAID): nothing of what the payment did is taken back.
AdminUnpay(i) ==
    /\ bill[i].status = "PAID"
    /\ used.admin < MaxAdmin
    /\ used' = [used EXCEPT !.admin = @ + 1]
    /\ bill' = [bill EXCEPT ![i].status = "UNPAID"]
    /\ UNCHANGED <<horizon, status, nextDue, ledger, owed, cron, applier, history>>

-----------------------------------------------------------------------------
(* processRenewals *)

\* Mistake: services are invoiced however far ahead their due date is.
DueAhead(s) == status[s] = "ACTIVE"

\* Mistake: services are found on one day only.
DueOnTheDay(s) == status[s] = "ACTIVE" /\ nextDue[s] = horizon

Due(s) == status[s] = "ACTIVE" /\ nextDue[s] <= horizon

\* Active services with autoRenew that are due, as plain objects
CronRead(c) ==
    LET due == {s \in Services : Due(s)}
    IN /\ cron[c].pc = "idle"
       /\ due # {}
       /\ cron' = [cron EXCEPT ![c] = [CronIdle EXCEPT
                      !.pc = "check", !.todo = {<<s, nextDue[s]>> : s \in due}]]
       /\ history' = [history EXCEPT !.overlap = @ \/ \E d \in Crons : cron[d].pc # "idle"]
       /\ UNCHANGED <<horizon, status, nextDue, ledger, bill, owed, applier, used>>

\* Mistake: the ledger of the next cycle is looked up.
InvoicedOffByOne(e) == e[2] < MaxCycle /\ ledger[<<e[1], e[2] + 1>>].invoice # NoInvoice

Invoiced(e) == ledger[e].invoice # NoInvoice

\* One query per service: those with an entry are left out.
CronCheck(c) ==
    /\ cron[c].pc = "check"
    /\ \E e \in cron[c].todo :
          LET fresh == IF Invoiced(e) THEN cron[c].fresh ELSE cron[c].fresh \cup {e}
              todo == cron[c].todo \ {e}
          IN cron' = [cron EXCEPT ![c] =
                IF todo # {} THEN [@ EXCEPT !.todo = todo, !.fresh = fresh]
                ELSE IF fresh = {} THEN CronIdle
                ELSE [@ EXCEPT !.pc = "invoice", !.todo = {}, !.fresh = fresh]]
    /\ UNCHANGED <<horizon, status, nextDue, ledger, bill, owed, applier, used, history>>

\* One invoice for the services due on one date, with the next number
CronInvoice(c) ==
    /\ cron[c].pc = "invoice"
    /\ \E d \in Cycles, i \in Invoices :
          LET group == {s \in Services : <<s, d>> \in cron[c].fresh}
          IN /\ group # {}
             /\ i = 1 + Cardinality({j \in Invoices : bill[j].status # "none"})
             /\ bill' = [bill EXCEPT
                   ![i] = [status |-> "UNPAID", cycle |-> d, services |-> group]]
             /\ cron' = [cron EXCEPT ![c].pc = "ledger", ![c].at = {i},
                            ![c].fresh = @ \ (group \X {d})]
    /\ UNCHANGED <<horizon, status, nextDue, ledger, owed, applier, used, history>>

\* Unordered insertMany: an entry that exists stays as it is.
InsertEntries(es, i) ==
    ledger' = [e \in DOMAIN ledger |->
                  IF e \in es /\ ledger[e].invoice = NoInvoice
                  THEN [invoice |-> i, paid |-> FALSE] ELSE ledger[e]]

\* An error other than a duplicate key is only printed.
CronLedger(c) ==
    /\ cron[c].pc = "ledger"
    /\ \E i \in cron[c].at :
          LET all == bill[i].services \X {bill[i].cycle}
          IN \/ InsertEntries(all, i) /\ UNCHANGED used
             \/ Fault /\ \E some \in SUBSET all : some # all /\ InsertEntries(some, i)
    /\ cron' = [cron EXCEPT ![c] = IF @.fresh = {} THEN CronIdle
                                   ELSE [@ EXCEPT !.pc = "invoice", !.at = {}]]
    /\ UNCHANGED <<horizon, status, nextDue, bill, owed, applier, history>>

CronStep(c) == CronRead(c) \/ CronCheck(c) \/ CronInvoice(c) \/ CronLedger(c)

CronAborts(c) ==
    /\ cron[c].pc # "idle"
    /\ Fault
    /\ cron' = [cron EXCEPT ![c] = CronIdle]
    /\ UNCHANGED <<horizon, status, nextDue, ledger, bill, owed, applier, history>>

-----------------------------------------------------------------------------
(* applyRenewalPayment *)

\* Mistake: a suspended service is left as it is.
RenewableActiveOnly(s) == status[s] = "ACTIVE"

Renewable(s) == status[s] # "TERMINATED"

\* The invoice, if it is still PAID, and its services are read once.
ApplyRead(a, i) ==
    /\ applier[a].pc = "idle" /\ i \in owed
    /\ owed' = owed \ {i}
    /\ applier' = [applier EXCEPT ![a] =
          IF bill[i].status # "PAID" THEN ApplierIdle
          ELSE [ApplierIdle EXCEPT !.pc = "next", !.at = {i},
                   !.todo = {<<s, nextDue[s]>> : s \in {t \in bill[i].services :
                                                           Renewable(t)}}]]
    /\ history' = [history EXCEPT !.stale = @ \/ \E b \in Appliers : applier[b].pc # "idle"]
    /\ UNCHANGED <<horizon, status, nextDue, ledger, bill, cron, used>>

\* Mistake: every payment of the cycle advances the service.
AppliedNever(entry) == FALSE

Applied(entry) == entry.paid

\* A cycle whose entry has a paidInvoiceId was advanced already.
ApplyNext(a) ==
    /\ applier[a].pc = "next"
    /\ IF applier[a].todo = {}
       THEN applier' = [applier EXCEPT ![a] = ApplierIdle]
       ELSE \E e \in applier[a].todo, i \in applier[a].at :
               LET entry == ledger[<<e[1], bill[i].cycle>>]
                   todo == applier[a].todo \ {e}
               IN applier' = [applier EXCEPT ![a] =
                     IF Applied(entry) THEN [@ EXCEPT !.todo = todo]
                     ELSE [@ EXCEPT !.pc = "save", !.todo = todo,
                                    !.cur = {<<e, entry.invoice # NoInvoice>>}]]
    /\ UNCHANGED <<horizon, status, nextDue, ledger, bill, owed, cron, used, history>>

\* Mistake: one more cycle on whatever the service has by now.
AdvancedFromNow(s, cycle) == nextDue[s] + 1

\* The next due date is counted from the due date in the invoice item.
Advanced(s, cycle) == cycle + 1

\* svc.save() writes the date only if it differs from the one that was read.
ApplySave(a) ==
    /\ applier[a].pc = "save"
    /\ \E c \in applier[a].cur, i \in applier[a].at :
          LET s == c[1][1]
              new == Advanced(s, bill[i].cycle)
          IN nextDue' = IF new = c[1][2] THEN nextDue ELSE [nextDue EXCEPT ![s] = new]
    /\ applier' = [applier EXCEPT ![a].pc = "ledger"]
    /\ UNCHANGED <<horizon, status, ledger, bill, owed, cron, used, history>>

\* The entry that was read is marked as paid; a missing one is created, unless
\* it exists by now: then the handler throws and leaves the other services.
ApplyLedger(a) ==
    /\ applier[a].pc = "ledger"
    /\ \E c \in applier[a].cur, i \in applier[a].at :
          LET e == <<c[1][1], bill[i].cycle>>
              refused == ~c[2] /\ ledger[e].invoice # NoInvoice
          IN /\ ledger' = IF refused THEN ledger
                          ELSE [ledger EXCEPT ![e] =
                                   [invoice |-> IF c[2] THEN @.invoice ELSE i, paid |-> TRUE]]
             /\ applier' = [applier EXCEPT ![a] =
                               IF refused THEN ApplierIdle
                               ELSE [@ EXCEPT !.pc = "next", !.cur = {}]]
             /\ history' = [history EXCEPT !.refused = @ \/ refused]
    /\ UNCHANGED <<horizon, status, nextDue, bill, owed, cron, used>>

ApplyStep(a) ==
    \/ \E i \in Invoices : ApplyRead(a, i)
    \/ ApplyNext(a) \/ ApplySave(a) \/ ApplyLedger(a)

\* The process dies or an await throws; nobody applies the payment again.
ApplyAborts(a) ==
    /\ applier[a].pc # "idle"
    /\ Fault
    /\ applier' = [applier EXCEPT ![a] = ApplierIdle]
    /\ UNCHANGED <<horizon, status, nextDue, ledger, bill, owed, cron, history>>

-----------------------------------------------------------------------------
Next ==
    \/ CycleComesUp
    \/ \E s \in Services : StatusChanges(s)
    \/ \E i \in Invoices : Pay(i) \/ PayAgain(i) \/ AdminUnpay(i)
    \/ \E c \in Crons : CronStep(c) \/ CronAborts(c)
    \/ \E a \in Appliers : ApplyStep(a) \/ ApplyAborts(a)

Spec == Init /\ [][Next]_vars

\* The cron task comes back, and a call that lives goes on.
Fairness ==
    /\ \A c \in Crons : WF_vars(CronStep(c))
    /\ \A a \in Appliers : WF_vars(ApplyStep(a))

FairSpec == Spec /\ Fairness

-----------------------------------------------------------------------------
(* Properties *)

Covers(i, s, cycle) ==
    bill[i].status # "none" /\ bill[i].cycle = cycle /\ s \in bill[i].services

\* docs/AUTO-RENEWAL-CRON-CHECKLIST.md:15, "RenewalLedger prevents same
\* service+dueDate invoiced twice".
InvoicedOnce ==
    \A s \in Services, d \in Cycles, i, j \in Invoices :
        Covers(i, s, d) /\ Covers(j, s, d) => i = j

\* The part of it that holds: only a fault between the invoice and its ledger
\* entries, or a second cron call at the same time, gives a cycle two invoices.
InvoicedOnceUndisturbed ==
    used.faults = 0 /\ ~history.overlap => InvoicedOnce

\* A service gets no cycle for free: each cycle before its next due date was
\* paid, however late, often or concurrently the payments are applied.
NoFreeCycle ==
    \A s \in Services : \A d \in 0..(nextDue[s] - 1) :
        \E i \in history.paid : Covers(i, s, d)

\* A paid cycle is behind the service.  Else no invoice would be made for it
\* again, and the service would stay where it is.
PaidCyclePassed ==
    used.faults = 0 /\ ~history.stale /\ ~history.refused =>
        \A e \in DOMAIN ledger : ledger[e].paid => nextDue[e[1]] > e[2]

\* The due dates tell what was paid: no cycle is passed without a payment, and
\* none is left behind with one (service-lifecycle.service.ts:235).
CyclesPaid == NoFreeCycle /\ PaidCyclePassed

\* An active service that is due is invoiced, also after faults of the cron,
\* for as long as invoice numbers last.
DueIsInvoiced ==
    []<>(\A s \in Services :
            status[s] = "ACTIVE" /\ nextDue[s] <= horizon =>
                \/ \E i \in Invoices : Covers(i, s, nextDue[s])
                \/ \A i \in Invoices : bill[i].status # "none")

\* docs/RENEWAL-FLOW-VERIFICATION.md:13, "Paid renewal advances nextDueDate",
\* for every service of the invoice, unless a handler dies, is refused by the
\* ledger's index or works from what another one has overtaken.
PaymentAdvances ==
    []<>(\A i \in Invoices : \A s \in bill[i].services :
            bill[i].status = "PAID" =>
                \/ nextDue[s] > bill[i].cycle
                \/ status[s] = "TERMINATED"
                \/ used.faults > 0 \/ history.refused \/ history.stale)

\* Both ways of a renewal lead on: due, invoiced; paid, advanced.
RenewalsGoOn == DueIsInvoiced /\ PaymentAdvances
=============================================================================

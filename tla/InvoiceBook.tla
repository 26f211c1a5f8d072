---------------------------- MODULE InvoiceBook ----------------------------
(***************************************************************************)
(* Who else writes an invoice: the administrator's edits, status changes,   *)
(* manual payments, bulk actions and deletion (invoice/invoice.service.ts), *)
(* and the nightly sweep of services/jobs/invoice-reminder.scheduler.ts that *)
(* charges late fees, marks invoices overdue and sends reminders.           *)
(*                                                                          *)
(* Each writer reads the document, changes its copy and saves it.  Mongoose  *)
(* validates the copy, then runs the model's hook, which recomputes total   *)
(* and balance from the items and the credit, and then writes only the      *)
(* fields that differ from those read.  Replacing the items checks the      *)
(* version, pushing one does not.  A balance below zero, which the hook may *)
(* write, is invalid for whoever reads it next.                             *)
(* Amounts are units of money; a late fee is one.  Text is left out.         *)
(***************************************************************************)
EXTENDS Integers, FiniteSets

CONSTANTS
    Bills,        \* invoices
    Clerks,       \* requests of administrators under way
    NoBill,
    Charge,       \* the amount of a new invoice
    MaxWrites     \* bound: requests made and sweeps begun

BookNull == NoBill \notin Bills
BookBounds == Charge \in Nat \ {0} /\ MaxWrites \in Nat

VARIABLES
    book,     \* the Invoice documents
    clerk,    \* requests
    sweep,    \* the sweep: where it is, what it read
    logs,     \* InvoiceReminderLog: pairs of invoice and type
    mails,    \* reminders of each type sent by the sweep
    account   \* begun: requests and sweeps; edited: invoices whose items were replaced;
              \* unlogged: reminders sent and not logged

bookVars == <<book, clerk, sweep, logs, mails, account>>

Kinds == {"due", "overdue"}
BookStates == {"UNPAID", "PAID", "OVERDUE", "CANCELLED", "gone"}

\* Created UNPAID, with the balance of its items.
Fee == 1
Unpaid == [status |-> "UNPAID", items |-> Charge, fees |-> 0, credit |-> 0,
           total |-> Charge, balance |-> Charge, age |-> 0, version |-> 0]
Ask == [at |-> "idle", bill |-> NoBill, kind |-> "none", value |-> "none", amount |-> 0,
        read |-> Unpaid, mem |-> Unpaid]
Asleep == [at |-> "idle", todo |-> {}, read |-> [b \in Bills |-> Unpaid], bill |-> NoBill]

BookTypeOK ==
    /\ \A b \in Bills :
          /\ book[b].status \in BookStates /\ book[b].age \in 0 .. 1
          /\ {book[b].items, book[b].fees, book[b].credit, book[b].total, book[b].version} \subseteq Nat
          /\ book[b].balance \in Int
    /\ \A c \in Clerks : clerk[c].at \in {"idle", "read", "save", "rates"}
    /\ sweep.at \in {"idle", "fees", "list", "look", "send", "log"}
    /\ sweep.todo \subseteq Bills
    /\ logs \subseteq Bills \X Kinds
    \* what the sweeps leave: one late fee, one reminder of a kind, although a
    \* sweep may die anywhere and payments and status changes cross it
    /\ \A b \in Bills \ account.edited : book[b].fees <= 1
    /\ \A b \in Bills, k \in Kinds : mails[<<b, k>>] <= 1 \/ <<b, k>> \in account.unlogged

BookInit ==
    /\ book = [b \in Bills |-> Unpaid]
    /\ clerk = [c \in Clerks |-> Ask]
    /\ sweep = Asleep
    /\ logs = {}
    /\ mails = [p \in Bills \X Kinds |-> 0]
    /\ account = [begun |-> 0, edited |-> {}, unlogged |-> {}]

-----------------------------------------------------------------------------
(* invoice.save() *)

Valid(d) == d.balance >= 0

\* The pre-save hook.
Hook(d) == [d EXCEPT !.total = d.items + d.fees, !.balance = d.items + d.fees - d.credit]

\* Mistake: the whole document is written.
StoredWhole(b, read, mem) == [Hook(mem) EXCEPT !.version = book[b].version]
Stored(b, read, mem) ==
    [f \in DOMAIN mem |-> IF Hook(mem)[f] = read[f] THEN book[b][f] ELSE Hook(mem)[f]]

-----------------------------------------------------------------------------
(* Requests *)

Request(c, b, kind, value, amount) ==
    /\ clerk[c].at = "idle" /\ account.begun < MaxWrites
    /\ clerk' = [clerk EXCEPT ![c] = [Ask EXCEPT !.at = "read", !.bill = b, !.kind = kind,
                                                 !.value = value, !.amount = amount]]
    /\ account' = [account EXCEPT !.begun = @ + 1]
    /\ UNCHANGED <<book, sweep, logs, mails>>

\* bulkAction reads each invoice, skips those already there, and hands the
\* rest to the single actions, which read again; the next of the list is
\* another request.
BulkMarkPaid(c, b) ==
    /\ book[b].status \notin {"PAID", "CANCELLED", "gone"}
    /\ IF book[b].balance <= 0 THEN Request(c, b, "status", "PAID", 0)
       ELSE Request(c, b, "pay", "none", book[b].balance)

BulkMark(c, b, status) ==
    /\ book[b].status \notin {status, "gone"}
    /\ Request(c, b, "status", status, 0)

SetStatus(d, status) ==
    CASE status = "PAID" -> [d EXCEPT !.status = "PAID", !.balance = 0, !.credit = d.total]
      [] status = "UNPAID" -> [d EXCEPT !.status = "UNPAID", !.credit = 0, !.balance = d.total]
      [] OTHER -> [d EXCEPT !.status = status]

FullyPaid(d, amount) == d.balance <= amount

Paid(d, amount) ==
    [d EXCEPT !.credit = IF FullyPaid(d, amount) THEN d.total ELSE d.credit + amount,
              !.status = IF FullyPaid(d, amount) THEN "PAID" ELSE d.status]

\* Replaced items; the request's may keep a late fee or not.
Edited(d, m) ==
    CASE m.kind = "items" -> [d EXCEPT !.items = m.amount, !.fees = IF m.value = "fee" THEN 1 ELSE 0]
      [] m.kind = "credit" -> [d EXCEPT !.credit = m.amount]
      [] m.kind = "dates" -> [d EXCEPT !.age = 0]

Asked(d, m) ==
    CASE m.kind = "status" -> SetStatus(d, m.value)
      [] m.kind = "pay" -> Paid(d, m.amount)
      [] OTHER -> Edited(d, m)

Refused(d, m) ==
    \/ d.status = "gone"
    \/ m.kind = "pay" /\ (d.status \in {"PAID", "CANCELLED"} \/ m.amount > d.balance)

Answer(c) == clerk' = [clerk EXCEPT ![c] = Ask]

ReadBill(c) ==
    LET m == clerk[c]
        d == book[m.bill]
    IN /\ m.at = "read"
       /\ IF Refused(d, m) THEN Answer(c)
          ELSE clerk' = [clerk EXCEPT ![c] = [m EXCEPT !.at = "save", !.read = d, !.mem = Asked(d, m)]]
       /\ UNCHANGED <<book, sweep, logs, mails, account>>

\* A document changed or deleted since, or an invalid copy, is an error.
Saves(c) ==
    LET m == clerk[c]
    IN /\ book[m.bill].status # "gone" /\ Valid(m.mem)
       /\ m.kind = "items" => book[m.bill].version = m.read.version

Save(c) ==
    LET m == clerk[c]
        stored == Stored(m.bill, m.read, m.mem)
    IN /\ m.at = "save" /\ Saves(c)
       /\ book' = [book EXCEPT ![m.bill] =
             IF m.kind = "items" THEN [stored EXCEPT !.items = m.mem.items, !.fees = m.mem.fees,
                                                     !.version = @ + 1]
             ELSE stored]
       /\ clerk' = [clerk EXCEPT ![c].at = "rates", ![c].mem = Hook(m.mem),
                                 ![c].read = Unpaid]
       /\ account' = [account EXCEPT !.edited = IF m.kind = "items" THEN @ \cup {m.bill} ELSE @]
       /\ UNCHANGED <<sweep, logs, mails>>

\* setInvoiceFxSnapshot saves the amounts in the base currency, which only
\* reports read; it refuses those below zero.
Rated(b, d) == Valid(d) /\ book[b].status # "gone"

\* What follows, the PaymentTransaction and what the other components are told
\* of a payment or of its reversal, is in Payment.
SaveRates(c) ==
    /\ clerk[c].at = "rates" /\ Rated(clerk[c].bill, clerk[c].mem)
    /\ Answer(c)
    /\ UNCHANGED <<book, sweep, logs, mails, account>>

\* An error, or the process dies.
Fail(c) ==
    /\ clerk[c].at # "idle"
    /\ Answer(c)
    /\ UNCHANGED <<book, sweep, logs, mails, account>>

DeleteInvoice(b) ==
    /\ book[b].status # "gone" /\ account.begun < MaxWrites
    /\ book' = [book EXCEPT ![b].status = "gone"]
    /\ account' = [account EXCEPT !.begun = @ + 1]
    /\ UNCHANGED <<clerk, sweep, logs, mails>>

-----------------------------------------------------------------------------
(* The sweep.  Its task lock lets one run at a time. *)

Owing(b) == book[b].status \in {"UNPAID", "OVERDUE"}

Age(b) ==
    /\ book[b].age = 0
    /\ book' = [book EXCEPT ![b].age = 1]
    /\ UNCHANGED <<clerk, sweep, logs, mails, account>>

\* Old enough for the late fee; the documents are listed as they are now.
Late == {b \in Bills : Owing(b) /\ book[b].age = 1}
Copies(S) == [b \in Bills |-> IF b \in S THEN book[b] ELSE Unpaid]

FindLate ==
    /\ sweep.at = "idle" /\ account.begun < MaxWrites
    /\ sweep' = [Asleep EXCEPT !.at = "fees", !.todo = Late, !.read = Copies(Late)]
    /\ account' = [account EXCEPT !.begun = @ + 1]
    /\ UNCHANGED <<book, clerk, logs, mails>>

Charged(d) == d.fees > 0

SkipFee(b) ==
    /\ sweep.at = "fees" /\ b \in sweep.todo /\ Charged(sweep.read[b])
    /\ sweep' = [sweep EXCEPT !.todo = @ \ {b}, !.read[b] = Unpaid]
    /\ UNCHANGED <<book, clerk, logs, mails, account>>

\* The fee's amounts in the base currency are left out; their failure is logged.
ApplyLateFee(b) ==
    LET r == sweep.read[b]
        mem == [r EXCEPT !.fees = @ + Fee, !.total = @ + Fee, !.balance = @ + Fee]
    IN /\ sweep.at = "fees" /\ b \in sweep.todo /\ ~Charged(r)
       /\ Valid(mem) /\ book[b].status # "gone"
       /\ book' = [book EXCEPT ![b] = [Stored(b, r, mem) EXCEPT !.fees = book[b].fees + Fee,
                                                                !.version = book[b].version + 1]]
       /\ sweep' = [sweep EXCEPT !.todo = @ \ {b}, !.read[b] = Unpaid]
       /\ UNCHANGED <<clerk, logs, mails, account>>

MarkOverdue ==
    /\ sweep.at = "fees" /\ sweep.todo = {}
    /\ book' = [b \in Bills |-> IF book[b].status = "UNPAID" /\ book[b].age = 1
                                THEN [book[b] EXCEPT !.status = "OVERDUE"] ELSE book[b]]
    /\ sweep' = [Asleep EXCEPT !.at = "list"]
    /\ UNCHANGED <<clerk, logs, mails, account>>

ListUnpaid ==
    /\ sweep.at = "list"
    /\ sweep' = [Asleep EXCEPT !.at = "look", !.todo = {b \in Bills : Owing(b)},
                               !.read = [b \in Bills |-> [Unpaid EXCEPT !.age = book[b].age]]]
    /\ UNCHANGED <<book, clerk, logs, mails, account>>

\* The reminder an invoice's age calls for: one before it is overdue, one after.
Reminder(d) == IF d.age = 0 THEN "due" ELSE "overdue"

LookAtLog(b) ==
    /\ sweep.at = "look" /\ b \in sweep.todo
    /\ sweep' = [sweep EXCEPT !.todo = @ \ {b}, !.bill = b,
                              !.at = IF <<b, Reminder(sweep.read[b])>> \in logs THEN "look" ELSE "send"]
    /\ UNCHANGED <<book, clerk, logs, mails, account>>

\* The mail server may refuse; the next sweep tries again.
SendReminder ==
    LET k == Reminder(sweep.read[sweep.bill])
    IN /\ sweep.at = "send"
       /\ \/ /\ mails' = [mails EXCEPT ![<<sweep.bill, k>>] = @ + 1]
             /\ sweep' = [sweep EXCEPT !.at = "log"]
          \/ /\ sweep' = [sweep EXCEPT !.at = "look"]
             /\ UNCHANGED mails
       /\ UNCHANGED <<book, clerk, logs, account>>

\* The log may fail to be written: the sweep goes on.
LogReminder ==
    LET p == <<sweep.bill, Reminder(sweep.read[sweep.bill])>>
    IN /\ sweep.at = "log"
       /\ \/ logs' = logs \cup {p} /\ UNCHANGED account
          \/ account' = [account EXCEPT !.unlogged = @ \cup {p}] /\ UNCHANGED logs
       /\ sweep' = [sweep EXCEPT !.at = "look"]
       /\ UNCHANGED <<book, clerk, mails>>

EndSweep ==
    /\ sweep.at = "look" /\ sweep.todo = {}
    /\ sweep' = Asleep
    /\ UNCHANGED <<book, clerk, logs, mails, account>>

\* An invoice that cannot be saved ends the sweep, and so does a crash.
SweepFails ==
    /\ sweep.at # "idle"
    /\ sweep' = Asleep
    /\ account' = [account EXCEPT !.unlogged =
          IF sweep.at = "log" THEN @ \cup {<<sweep.bill, Reminder(sweep.read[sweep.bill])>>} ELSE @]
    /\ UNCHANGED <<book, clerk, logs, mails>>

Clerking(c) ==
    \/ \E b \in Bills :
          \/ \E s \in {"UNPAID", "PAID", "CANCELLED"} : Request(c, b, "status", s, 0)
          \/ \E n \in 1 .. Charge : Request(c, b, "pay", "none", n)
          \/ Request(c, b, "items", "none", 0) \/ Request(c, b, "items", "fee", Charge)
          \/ Request(c, b, "credit", "none", Charge)
          \/ Request(c, b, "dates", "none", 0)
          \/ BulkMarkPaid(c, b)
          \/ \E s \in {"UNPAID", "CANCELLED"} : BulkMark(c, b, s)
    \/ ReadBill(c) \/ Save(c) \/ SaveRates(c) \/ Fail(c)

Sweeping ==
    \/ FindLate \/ MarkOverdue \/ ListUnpaid
    \/ \E b \in Bills : SkipFee(b) \/ ApplyLateFee(b) \/ LookAtLog(b)
    \/ SendReminder \/ LogReminder \/ EndSweep \/ SweepFails

BookNext ==
    \/ \E c \in Clerks : Clerking(c)
    \/ Sweeping
    \/ \E b \in Bills : Age(b) \/ DeleteInvoice(b)

BookSpec == BookInit /\ [][BookNext]_bookVars

-----------------------------------------------------------------------------
(* Properties *)

\* An invoice leaves PAID only by an administrator's status change or its
\* deletion: no late fee, overdue mark, edit or partial payment that read it
\* before puts it back to unpaid (invoice-reminder.scheduler.ts:93, :148;
\* invoice.service.ts:237, :332).
PaidStep ==
    \A b \in Bills :
        book[b].status = "PAID" /\ book'[b].status \notin {"PAID", "gone"} =>
            \E c \in Clerks : clerk[c].at = "save" /\ clerk[c].bill = b /\ clerk[c].kind = "status" /\ clerk'[c].at = "rates"
PaidKept == [][PaidStep]_bookVars

-----------------------------------------------------------------------------
(* Why: what the requests and the sweep carry between reading and writing.   *)

BillDoc == [status : BookStates, items : Nat, fees : Nat, credit : Nat, total : Nat, balance : Int,
            age : 0 .. 1, version : Nat]
ClerkDoc == [at : {"idle", "read", "save", "rates"}, bill : Bills \cup {NoBill},
             kind : {"none", "status", "pay", "items", "credit", "dates"},
             value : {"none", "fee", "UNPAID", "PAID", "CANCELLED"}, amount : Nat, read : BillDoc, mem : BillDoc]
SweepDoc == [at : {"idle", "fees", "list", "look", "send", "log"}, todo : SUBSET Bills,
             read : [Bills -> BillDoc], bill : Bills \cup {NoBill}]

DocsOK ==
    /\ book \in [Bills -> BillDoc] /\ clerk \in [Clerks -> ClerkDoc] /\ sweep \in SweepDoc
    /\ logs \subseteq Bills \X Kinds /\ mails \in [Bills \X Kinds -> Nat]
    /\ account \in [begun : Nat, edited : SUBSET Bills, unlogged : SUBSET (Bills \X Kinds)]

\* Only a status change takes an invoice out of PAID, and only an edit of the items writes its fees.
Harmless(m) ==
    /\ m.at \in {"read", "save"} => m.bill \in Bills /\ m.kind # "none"
    /\ m.at \in {"read", "save"} /\ m.kind = "status" => m.value \in {"UNPAID", "PAID", "CANCELLED"}
    /\ m.at = "save" /\ m.kind # "status" => m.mem.status \in {m.read.status, "PAID"}
    /\ m.at = "save" /\ m.kind # "items" => m.mem.fees = m.read.fees

\* The sweep's copy without a late fee is of an invoice that has none.
FeeOnce ==
    \A b \in Bills \ account.edited :
        /\ book[b].fees <= 1
        /\ sweep.at = "fees" /\ b \in sweep.todo /\ ~Charged(sweep.read[b]) => book[b].fees = 0

\* The reminder the sweep is about.
Reminded == <<sweep.bill, Reminder(sweep.read[sweep.bill])>>

\* What was sent is in the log, or is about to be, or was lost.
ReminderOnce ==
    /\ sweep.at \in {"send", "log"} => sweep.bill \in Bills
    /\ sweep.at = "send" => Reminded \in account.unlogged \/ mails[Reminded] = 0
    /\ \A p \in (Bills \X Kinds) \ account.unlogged :
          mails[p] <= 1 /\ (mails[p] > 0 => p \in logs \/ (sweep.at = "log" /\ p = Reminded))

BookInv == DocsOK /\ (\A c \in Clerks : Harmless(clerk[c])) /\ FeeOnce /\ ReminderOnce
=============================================================================

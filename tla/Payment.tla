------------------------------ MODULE Payment -------------------------------
(***************************************************************************)
(* Payment of one invoice of an order: the callbacks of the gateway, that     *)
(* is its redirect and its IPN for each transaction it charged               *)
(* (handlePaymentSuccess of payment/payment.service.ts), manual payments and *)
(* the administrator's change of status (addPayment, updateInvoiceStatus of   *)
(* invoice/invoice.service.ts), and the calls into other components that      *)
(* follow a payment.                                                         *)
(*                                                                          *)
(* The callback changes invoice, order and PaymentTransaction in a database  *)
(* transaction; the other two save one document after another.  Mongoose      *)
(* writes the fields that differ from those it read, and checks no version.   *)
(* UNPAID stands for OVERDUE as well.  The invoice's items do not change.      *)
(***************************************************************************)
EXTENDS Integers, Sequences, FiniteSets, Functions

CONSTANTS
    Transactions,  \* tran_id values
    Calls,         \* requests to the server (bounds the behaviour)
    Nobody,
    Total,         \* the invoice's total, in units of money
    MaxFaults      \* bound: calls that die or whose database calls fail

ASSUME TotalAssumption == Total \in Nat \ {0}
ASSUME NobodyAssumption == Nobody \notin Calls
ASSUME CallsAssumption == IsFiniteSet(Calls)

VARIABLES
    invoice,   \* the document: status, credit, balanceDue
    order,     \* Order.status
    session,   \* gateway sessions: amount charged for, and how far they are
    call,      \* the requests
    writer,    \* call whose open database transaction has written the invoice
    recorded,  \* amount of the PaymentTransaction each call created, or 0
    ran,       \* components each call went on to
    history    \* what happened: see PaymentTypeOK

vars == <<invoice, order, session, call, writer, recorded, ran, history>>

Statuses == {"UNPAID", "PAID", "CANCELLED"}
Invoice == [status : Statuses, credit : 0..Total, balanceDue : 0..Total]
Components == {"provisioning", "affiliate", "trial", "unsuspend", "renewal"}

PaymentTypeOK ==
    /\ invoice \in Invoice
    /\ order \in {"PENDING_PAYMENT", "PROCESSING"}
    /\ session \in [Transactions -> [state : {"none", "open", "charged"}, amount : 0..Total]]
    /\ call \in [Calls -> [kind : {"none", "callback", "manual", "status"},
                          pc : {"idle", "read", "check", "write", "insert",
                                "save", "record", "fanout", "done"},
                          amount : 0..Total, tran : SUBSET Transactions,
                          read : Invoice, new : Invoice, todo : Seq(Components)]]
    /\ writer \in Calls \cup {Nobody}
    /\ recorded \in [Calls -> 0..Total]
    /\ ran \in [Calls -> SUBSET Components]
    /\ history \in [paid : BOOLEAN,     \* the invoice was PAID once
                    overlap : BOOLEAN,  \* a call read while another one was to save
                    admin : SUBSET Statuses,  \* statuses set by administrators
                    crossed : SUBSET SUBSET Calls,  \* see Racing
                    again : SUBSET Calls,  \* calls whose record repeats a transaction's
                    lost : Nat,         \* manual payments saved and not recorded
                    faults : Nat]

Fresh == [status |-> "UNPAID", credit |-> 0, balanceDue |-> Total]

Idle == [kind |-> "none", pc |-> "idle", amount |-> 0, tran |-> {},
         read |-> Fresh, new |-> Fresh, todo |-> <<>>]

Init ==
    /\ invoice = Fresh
    /\ order = "PENDING_PAYMENT"
    /\ session = [t \in Transactions |-> [state |-> "none", amount |-> 0]]
    /\ call = [c \in Calls |-> Idle]
    /\ writer = Nobody
    /\ recorded = [c \in Calls |-> 0]
    /\ ran = [c \in Calls |-> {}]
    /\ history = [paid |-> FALSE, overlap |-> FALSE, admin |-> {}, crossed |-> {},
                  again |-> {}, lost |-> 0, faults |-> 0]

-----------------------------------------------------------------------------
(* Helpers *)

Goto(c, pc) == call' = [call EXCEPT ![c].pc = pc]

\* The request is answered; only what it was about is remembered.
Return(c) == call' = [call EXCEPT ![c] = [@ EXCEPT
                         !.pc = "done", !.read = Fresh, !.new = Fresh, !.todo = <<>>]]

\* Calls that have read the invoice and are still to save it
Changing == {c \in Calls : call[c].pc \in {"check", "write", "insert", "save"}}

\* invoice.save(): the fields that differ from the ones that were read
Saved(c) ==
    [f \in DOMAIN invoice |->
        IF call[c].new[f] = call[c].read[f] THEN invoice[f] ELSE call[c].new[f]]

\* The pre-save hook computes balanceDue.
Doc(status, credit) == [status |-> status, credit |-> credit, balanceDue |-> Total - credit]

\* Mistake: one component is not called.
CalledNoRenewal(kind) == <<"provisioning", "affiliate", "trial", "unsuspend">>

\* What follows a payment, in order
Called(kind) ==
    IF kind = "status" THEN <<"provisioning", "trial", "unsuspend", "renewal", "affiliate">>
    ELSE <<"provisioning", "affiliate", "trial", "unsuspend", "renewal">>

Fault(h) == h.faults < MaxFaults /\ history' = [h EXCEPT !.faults = @ + 1]

-----------------------------------------------------------------------------
(* The gateway *)

\* payInvoice opens a session for the balance; its tran_id is new.
PayInvoice(t) ==
    /\ session[t].state = "none"
    /\ invoice.status # "PAID" /\ invoice.balanceDue > 0
    /\ session' = [session EXCEPT ![t] = [state |-> "open", amount |-> invoice.balanceDue]]
    /\ UNCHANGED <<invoice, order, call, writer, recorded, ran, history>>

\* The client pays, also when another session of the invoice was paid before.
GatewayCharges(t) ==
    /\ session[t].state = "open"
    /\ session' = [session EXCEPT ![t].state = "charged"]
    /\ UNCHANGED <<invoice, order, call, writer, recorded, ran, history>>

-----------------------------------------------------------------------------
(* handlePaymentSuccess *)

\* The gateway may call any number of times for one transaction, at any time.
Callback(c, t) ==
    /\ call[c].pc = "idle"
    /\ session[t].state = "charged"
    /\ call' = [call EXCEPT ![c] = [Idle EXCEPT
                   !.kind = "callback", !.pc = "read", !.tran = {t},
                   !.amount = session[t].amount]]
    /\ UNCHANGED <<invoice, order, session, writer, recorded, ran, history>>

ReadInvoice(c) ==
    /\ call[c].pc = "read"
    /\ call' = [call EXCEPT ![c].pc = "check", ![c].read = invoice,
                            ![c].new = Doc("PAID", Total)]
    /\ history' = [history EXCEPT !.overlap = @ \/ Changing # {}]
    /\ UNCHANGED <<invoice, order, session, writer, recorded, ran>>

\* Mistake: nobody looks for an earlier record.
ProcessedNever(c) == FALSE

\* A PaymentTransaction has this tran_id.  Only this look-up finds it: the unique
\* index the schema declares on gateway and externalTransactionId has $ne in its
\* partialFilterExpression, which MongoDB does not build.
Processed(c) == \E d \in Calls : recorded[d] > 0 /\ call[d].tran = call[c].tran

\* Callbacks of the same transaction that looked before and are still to commit
Racing(c) == {d \in Calls \ {c} : /\ call[d].pc \in {"write", "insert"}
                                 /\ call[d].tran = call[c].tran}

\* Mistake: the amount is not compared with what is due.
MatchesAnything(c) == TRUE

\* assertPaymentMatchesInvoice
Matches(c) == call[c].amount = call[c].read.balanceDue

\* "Already processed", a payment that does not match, "Already paid", or on
Check(c) ==
    /\ call[c].pc = "check"
    /\ IF Processed(c) \/ ~Matches(c) \/ call[c].read.status = "PAID"
       THEN Return(c) /\ UNCHANGED history
       ELSE /\ Goto(c, "write")
            /\ history' = [history EXCEPT !.crossed = @ \cup {{c, d} : d \in Racing(c)}]
    /\ UNCHANGED <<invoice, order, session, writer, recorded, ran>>

\* Mistake: the order is saved without the session.
SaveOrderAtOnce(c) == order' = "PROCESSING"

\* The order is saved with the session: nobody else sees it yet.
SaveOrder(c) == UNCHANGED order

\* Both saves within the transaction; a second writer gets a WriteConflict.
TransactionWrite(c) ==
    /\ call[c].pc = "write"
    /\ IF writer = Nobody
       THEN SaveOrder(c) /\ writer' = c /\ Goto(c, "insert")
       ELSE Return(c) /\ UNCHANGED <<order, writer>>
    /\ UNCHANGED <<invoice, session, recorded, ran, history>>

\* The invoice is PAID from here on.
WasPaid == [history EXCEPT !.paid = TRUE]

Commit(c) ==
    /\ invoice' = Saved(c)
    /\ order' = "PROCESSING"
    /\ recorded' = [recorded EXCEPT ![c] = call[c].amount]

Committed(c) == [WasPaid EXCEPT !.again = IF Processed(c) THEN @ \cup {c} ELSE @]

\* create and commitTransaction.  Nothing refuses a second record of a tran_id; a
\* commit that fails may have happened, and the catch clause then throws.
TransactionCommit(c) ==
    /\ call[c].pc = "insert"
    /\ writer' = Nobody
    /\ \/ /\ Commit(c)
          /\ call' = [call EXCEPT ![c].pc = "fanout", ![c].todo = Called("callback")]
          /\ history' = Committed(c)
       \/ /\ Return(c)
          /\ \/ Commit(c) /\ Fault(Committed(c))
             \/ UNCHANGED <<invoice, order, recorded>> /\ Fault(history)
    /\ UNCHANGED <<session, ran>>

-----------------------------------------------------------------------------
(* addPayment and updateInvoiceStatus *)

\* Mistake: a payment one short of the balance settles it.
SettlesOneShort(read, amount) == read.balanceDue <= amount + 1

Settles(read, amount) == read.balanceDue <= amount

\* Mistake: the amount is taken off.
CreditedMinus(read, amount) == read.credit - amount

Credited(read, amount) == read.credit + amount

AddPayment(c, amount) ==
    /\ call[c].pc = "idle"
    /\ invoice.status = "UNPAID"
    /\ amount <= invoice.balanceDue
    /\ call' = [call EXCEPT ![c] = [Idle EXCEPT
                   !.kind = "manual", !.pc = "save", !.amount = amount, !.read = invoice,
                   !.new = IF Settles(invoice, amount) THEN Doc("PAID", Total)
                           ELSE Doc(invoice.status, Credited(invoice, amount))]]
    /\ history' = [history EXCEPT !.overlap = @ \/ Changing # {}]
    /\ UNCHANGED <<invoice, order, session, writer, recorded, ran>>

UpdateInvoiceStatus(c, status) ==
    /\ call[c].pc = "idle"
    /\ call' = [call EXCEPT ![c] = [Idle EXCEPT
                   !.kind = "status", !.pc = "save", !.read = invoice,
                   !.new = CASE status = "PAID" -> Doc("PAID", Total)
                             [] status = "UNPAID" -> Doc("UNPAID", 0)
                             [] OTHER -> Doc(status, invoice.credit)]]
    /\ history' = [history EXCEPT !.overlap = @ \/ Changing # {}, !.admin = @ \cup {status}]
    /\ UNCHANGED <<invoice, order, session, writer, recorded, ran>>

\* A save outside a transaction waits for an open one that wrote the document.
Save(c) ==
    LET paid == call[c].new.status = "PAID"
    IN /\ call[c].pc = "save"
       /\ writer = Nobody
       /\ invoice' = Saved(c)
       /\ IF call[c].kind = "status" /\ ~paid THEN Return(c)
          ELSE call' = [call EXCEPT
                  ![c].pc = IF call[c].kind = "manual" THEN "record" ELSE "fanout",
                  ![c].todo = IF paid THEN Called(call[c].kind) ELSE <<>>]
       /\ history' = IF paid THEN WasPaid ELSE history
       /\ UNCHANGED <<order, session, writer, recorded, ran>>

Record(c) ==
    /\ call[c].pc = "record"
    /\ recorded' = [recorded EXCEPT ![c] = call[c].amount]
    /\ IF call[c].todo = <<>> THEN Return(c) ELSE Goto(c, "fanout")
    /\ UNCHANGED <<invoice, order, session, writer, ran, history>>

-----------------------------------------------------------------------------
(* Components called after a payment, and failure *)

\* handleInvoicePaid turns back unless the invoice is paid in full by now.
PaidInFull == invoice.status = "PAID" /\ invoice.balanceDue = 0

FanOut(c) ==
    /\ call[c].pc = "fanout"
    /\ ran' = [ran EXCEPT ![c] = @ \cup {Head(call[c].todo)}]
    /\ order' = IF Head(call[c].todo) = "provisioning" /\ PaidInFull
                THEN "PROCESSING" ELSE order
    /\ IF Len(call[c].todo) = 1 THEN Return(c) ELSE call' = [call EXCEPT ![c].todo = Tail(@)]
    /\ UNCHANGED <<invoice, session, writer, recorded, history>>

\* The process dies, or the call awaited throws: the rest does not happen, and
\* an open transaction is aborted.
Fails(c) ==
    /\ call[c].pc \notin {"idle", "done"}
    /\ Return(c)
    /\ writer' = IF writer = c THEN Nobody ELSE writer
    /\ Fault([history EXCEPT !.lost = IF call[c].pc = "record" THEN @ + call[c].amount ELSE @])
    /\ UNCHANGED <<invoice, order, session, recorded, ran>>

Step(c) ==
    \/ ReadInvoice(c) \/ Check(c) \/ TransactionWrite(c) \/ TransactionCommit(c)
    \/ Save(c) \/ Record(c) \/ FanOut(c)

Next ==
    \/ \E t \in Transactions : PayInvoice(t) \/ GatewayCharges(t)
    \/ \E c \in Calls :
          \/ \E t \in Transactions : Callback(c, t)
          \/ \E amount \in 1..Total : AddPayment(c, amount)
          \/ \E status \in Statuses : UpdateInvoiceStatus(c, status)
          \/ Step(c) \/ Fails(c)

Spec == Init /\ [][Next]_vars

-----------------------------------------------------------------------------
(* Properties *)

RecordedSum == SumFunction(recorded)

\* Amounts saved in the invoice and not yet recorded
InFlight == [c \in Calls |-> IF call[c].pc = "record" THEN call[c].amount ELSE 0]
InFlightSum == SumFunction(InFlight)

\* Payments recorded, each transaction of the gateway counted once
Taken == [c \in Calls |-> IF c \in history.again THEN 0 ELSE recorded[c]]
TakenSum == SumFunction(Taken)

\* The credit of an invoice never exceeds the money taken for it, a transaction
\* counted once however often it was recorded, and however callbacks, manual
\* payments and changes of status overlap; and balanceDue is the rest of the
\* total, although both are saved from a stale read.
NoUnbackedCredit ==
    /\ invoice.balanceDue = Total - invoice.credit
    /\ "PAID" \notin history.admin =>
          invoice.credit <= TakenSum + InFlightSum + history.lost

\* "Only queue after commit so unpaid invoices never get jobs if commit fails"
\* (payment.service.ts:350): no order is in PROCESSING, and no component was
\* called, before the invoice was PAID in the database.
NothingBeforePayment ==
    order = "PROCESSING" \/ (\E c \in Calls : ran[c] # {}) => history.paid

\* Callbacks of one transaction, its redirect, its IPN and their repeats, also
\* after an administrator reopened the invoice: two of them call the other
\* components only if each looked for the transaction's record while the other
\* had looked and not yet committed (payment.service.ts:202).
FanOutTwiceOnlyCrossing ==
    \A c, d \in Calls :
        /\ c # d
        /\ call[c].kind = "callback" /\ call[d].kind = "callback"
        /\ call[c].tran = call[d].tran
        /\ (ran[c] # {} \/ call[c].pc = "fanout")
        /\ (ran[d] # {} \/ call[d].pc = "fanout")
        => {c, d} \in history.crossed

\* Calls that do not overlap, and no call cut short, leave an invoice whose
\* credit is the sum of its PaymentTransactions, and PAID exactly when nothing
\* is due.  (Two calls that read the invoice before either saves it can leave
\* two charges for one invoice, or a PAID invoice with a balance.)
BalanceMatchesRecords ==
    ~history.overlap /\ history.admin = {} /\ history.lost = 0 /\ InFlightSum = 0 =>
        /\ invoice.credit = RecordedSum
        /\ invoice.status = "PAID" <=> invoice.balanceDue = 0

\* What an invoice says was paid, what is recorded and what a payment sets going
\* agree (payment.service.ts:202, invoice.service.ts:332, :343).
MoneyAccounted ==
    /\ NoUnbackedCredit /\ NothingBeforePayment
    /\ FanOutTwiceOnlyCrossing /\ BalanceMatchesRecords

\* Once an invoice was PAID and its calls are over, every component heard of it
\* from one of them, unless a call failed: nobody else makes up for that, a
\* callback that comes later is "Already processed".
PaymentReachesAll ==
    /\ history.paid /\ history.faults = 0
    /\ \A c \in Calls : call[c].pc \notin {"record", "fanout"}
    => \E c \in Calls : ran[c] = Components
=============================================================================

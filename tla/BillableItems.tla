--------------------------- MODULE BillableItems ---------------------------
(***************************************************************************)
(* Items billed by a nightly run: processRecurringDueItems of               *)
(* billable-item/billable-item.service.ts, with the administrator's changes. *)
(*                                                                          *)
(* For each due item the run makes an invoice and then advances the item.   *)
(* Nothing joins the two writes; the invoice carries the item's run key, its *)
(* id and the number of its next invoice, and a run that finds the key       *)
(* leaves the item alone.  Dates are cycles: an item due in cycle n is next  *)
(* due in n + 1.  Amounts and clients are left out.                          *)
(***************************************************************************)
EXTENDS Integers, FiniteSets

CONSTANTS
    Billables,    \* billable items
    NoBillable,
    MaxCycle,     \* bound: the clock stops there
    MaxRuns,      \* bound: runs begun
    MaxChanges    \* bound: changes by administrators

BillableNull == NoBillable \notin Billables
BillableBounds == MaxCycle \in Nat /\ MaxRuns \in Nat /\ MaxChanges \in Nat

VARIABLES
    item,      \* the BillableItem documents
    billed,    \* invoices made: records of item, run key and cycle, with how many there are
    runner,    \* the run
    cycle,     \* the clock
    changes    \* counts of runs and of changes by administrators; touched: items they changed

billableVars == <<item, billed, runner, cycle, changes>>

\* ADD_TO_NEXT_INVOICE and INVOICE_NORMAL are, to the code, DONT_INVOICE.
InvoiceAction == {"DONT_INVOICE", "INVOICE_ON_CRON", "RECUR"}
Cycles == 0 .. MaxCycle + 1
Keys == 1 .. MaxRuns + 1
Waiting == [at |-> "idle", todo |-> {}, read |-> [i \in Billables |-> [count |-> 0, due |-> 0, action |-> "DONT_INVOICE",
                                                                 limit |-> 0]], item |-> NoBillable]

BillableTypeOK ==
    /\ item \in [Billables -> [kept : BOOLEAN, action : InvoiceAction, due : Cycles, count : Nat,
                               limit : Nat, invoiced : BOOLEAN]]
    /\ billed \in [Billables \X Keys \X Cycles -> Nat]
    /\ runner \in [at : {"idle", "run", "client", "bill", "advance"}, todo : SUBSET Billables,
                   read : [Billables -> [count : Nat, due : Cycles, action : InvoiceAction, limit : Nat]],
                   item : Billables \cup {NoBillable}]
    /\ cycle \in 0 .. MaxCycle
    /\ changes \in [runs : Nat, count : Nat, touched : SUBSET Billables]

BillableInit ==
    /\ item \in [Billables -> [kept : {TRUE}, action : InvoiceAction, due : {0}, count : {0},
                               limit : {0, 2}, invoiced : {FALSE}]]
    /\ billed = [b \in Billables \X Keys \X Cycles |-> 0]
    /\ runner = Waiting
    /\ cycle = 0
    /\ changes = [runs |-> 0, count |-> 0, touched |-> {}]

-----------------------------------------------------------------------------
(* The run.  Its task lock lets one go at a time. *)

Due(i) == /\ item[i].kept /\ item[i].due <= cycle
          /\ item[i].action \in {"RECUR", "INVOICE_ON_CRON"}

Seen(i) == [count |-> item[i].count, due |-> item[i].due, action |-> item[i].action, limit |-> item[i].limit]

\* One run at a time: the task lock keeps runs apart for twice their interval
\* (automation-task-lock.service.ts:9), and a run is taken to end within it.
FindDue ==
    /\ runner.at = "idle" /\ changes.runs < MaxRuns
    /\ changes' = [changes EXCEPT !.runs = @ + 1]
    /\ runner' = [Waiting EXCEPT !.at = "run", !.todo = {i \in Billables : Due(i)},
                                 !.read = [i \in Billables |-> IF Due(i) THEN Seen(i) ELSE @[i]]]
    /\ UNCHANGED <<item, billed, cycle>>

\* The number in the run key.
RunKey(i) == runner.read[i].count + 1

\* Mistake: the invoices there are are not looked at.
ExistingNone(i) == FALSE
Existing(i) == \E c \in Cycles : billed[<<i, RunKey(i), c>>] > 0

Consider(i) ==
    /\ runner.at = "run" /\ i \in runner.todo
    /\ runner' = [runner EXCEPT !.todo = @ \ {i}, !.item = i, !.at = IF Existing(i) THEN "run" ELSE "client"]
    /\ UNCHANGED <<item, billed, cycle, changes>>

\* A client there is none of counts as a failure.
FindClient ==
    /\ runner.at = "client"
    /\ \E found \in BOOLEAN : runner' = [runner EXCEPT !.at = IF found THEN "bill" ELSE "run"]
    /\ UNCHANGED <<item, billed, cycle, changes>>

\* The invoice, with a new number and the run key.
Bill ==
    LET i == runner.item
    IN /\ runner.at = "bill"
       /\ billed' = [billed EXCEPT ![<<i, RunKey(i), runner.read[i].due>>] = @ + 1]
       /\ runner' = [runner EXCEPT !.at = "advance"]
       /\ UNCHANGED <<item, cycle, changes>>

ReachedLimit(r) == r.limit > 0 /\ r.count + 1 >= r.limit

\* The fields the run sets, computed from the item it read.
Advanced(d, r) ==
    CASE r.action = "INVOICE_ON_CRON" -> [d EXCEPT !.count = r.count + 1, !.invoiced = TRUE]
      [] r.action = "RECUR" /\ ReachedLimit(r) ->
            [d EXCEPT !.count = r.count + 1, !.invoiced = TRUE, !.action = "DONT_INVOICE"]
      [] OTHER -> [d EXCEPT !.count = r.count + 1, !.invoiced = FALSE, !.due = r.due + 1]

Advance ==
    LET i == runner.item
    IN /\ runner.at = "advance"
       /\ item' = IF item[i].kept THEN [item EXCEPT ![i] = Advanced(@, runner.read[i])] ELSE item
       /\ runner' = [runner EXCEPT !.at = "run"]
       /\ UNCHANGED <<billed, cycle, changes>>

\* A write fails: the run goes on with the next item.
ItemFails ==
    /\ runner.at \in {"client", "bill", "advance"}
    /\ runner' = [runner EXCEPT !.at = "run"]
    /\ UNCHANGED <<item, billed, cycle, changes>>

\* The run ends, or its process dies.
EndRun ==
    /\ runner.at # "idle"
    /\ runner' = Waiting
    /\ UNCHANGED <<item, billed, cycle, changes>>

NextCycle ==
    /\ cycle < MaxCycle
    /\ cycle' = cycle + 1
    /\ UNCHANGED <<item, billed, runner, changes>>

-----------------------------------------------------------------------------
(* The administrator *)

Change(S, new) ==
    /\ changes.count < MaxChanges /\ \A i \in S : item[i].kept
    /\ item' = new
    /\ changes' = [changes EXCEPT !.count = @ + 1, !.touched = @ \cup S]
    /\ UNCHANGED <<billed, runner, cycle>>

Update(i, field, value) == Change({i}, [item EXCEPT ![i][field] = value])

SetAll(S, field, value) ==
    Change(S, [i \in Billables |-> IF i \in S THEN [item[i] EXCEPT ![field] = value] ELSE item[i]])

BulkUpdateInvoiceAction(S) == SetAll(S, "action", "INVOICE_ON_CRON")

DeleteBillables(S) == SetAll(S, "kept", FALSE)

Changing ==
    \/ \E i \in Billables :
          \/ Update(i, "due", cycle) \/ Update(i, "limit", 1)
          \/ \E a \in InvoiceAction : Update(i, "action", a)
    \/ \E S \in (SUBSET Billables) \ {{}} : BulkUpdateInvoiceAction(S) \/ DeleteBillables(S)

BillableNext ==
    \/ FindDue \/ (\E i \in Billables : Consider(i)) \/ FindClient \/ Bill \/ Advance \/ ItemFails
    \/ EndRun \/ NextCycle \/ Changing

BillableSpec == BillableInit /\ [][BillableNext]_billableVars

-----------------------------------------------------------------------------
(* Properties *)

\* A cycle of a recurring item is billed once, and no item more often than its
\* limit, although a run may die or fail between the invoice and the item's
\* advance and the next run reads the item unchanged; items the administrator
\* has set otherwise excepted (billable-item.service.ts:187).
BilledOnce ==
    \A i \in Billables \ changes.touched : \A c \in Cycles, n \in Keys :
       billed[<<i, n, c>>] > 0 =>
          /\ billed[<<i, n, c>>] = 1
          /\ item[i].action # "INVOICE_ON_CRON" =>
                /\ \A m \in Keys \ {n} : billed[<<i, m, c>>] = 0
                /\ item[i].limit > 0 => n <= item[i].limit

(* The invariant BilledOnce follows from *)

\* The items the run has read and is not done with.
Underway == runner.todo \cup (IF runner.at \in {"client", "bill", "advance"} THEN {runner.item} ELSE {})

\* What the run holds of them was due when it looked; of an item nobody else has
\* set, it is still what the item says.
RunInv ==
    /\ runner.at \in {"client", "bill", "advance"} => runner.item \in Billables \ runner.todo
    /\ \A i \in Underway : runner.read[i].due <= cycle
    /\ \A i \in Underway \ changes.touched :
          runner.read[i] = Seen(i) /\ item[i].action \in {"RECUR", "INVOICE_ON_CRON"}
    /\ runner.at \in {"client", "bill"} => ~Existing(runner.item)

\* A recurring item is due in the cycle of its count, before its limit; what was
\* billed of it has the key after its cycle, at most one key beyond its count: the
\* invoice whose run has not advanced the item, or never did.
ItemInv ==
    \A i \in Billables \ changes.touched :
       /\ item[i].kept
       /\ item[i].action = "RECUR" => item[i].due = item[i].count /\ (item[i].limit > 0 => item[i].count < item[i].limit)
       /\ item[i].action = "DONT_INVOICE" /\ item[i].limit > 0 => item[i].count <= item[i].limit
       /\ \A n \in Keys, c \in Cycles : billed[<<i, n, c>>] > 0 =>
             /\ billed[<<i, n, c>>] = 1
             /\ item[i].action # "INVOICE_ON_CRON" => c = n - 1 /\ n <= item[i].count + 1
             /\ item[i].action = "DONT_INVOICE" => n <= item[i].count

BillableInv == BillableTypeOK /\ RunInv /\ ItemInv
=============================================================================

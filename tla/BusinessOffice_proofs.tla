----------------------- MODULE BusinessOffice_proofs -----------------------
(***************************************************************************)
(* Proofs about the components of MCBusiness that the staff and the clients  *)
(* keep busy: billable items, tickets, accounts, servers, the desk of a      *)
(* service, the book of invoices, checkout, hosting and the notices of all   *)
(* these. Each is meant through its instance: a scenario's variables are     *)
(* v1, v2, ..., in the order MCBusiness gives them.                          *)
(***************************************************************************)
EXTENDS MCBusiness, FiniteSetTheorems, TLAPS

-----------------------------------------------------------------------------
(* Billable items: v1 item, v2 billed, v3 runner, v4 cycle, v5 changes.     *)

Reading == [count : Nat, due : Bil!Cycles, action : Bil!InvoiceAction, limit : Nat]
Running == [at : {"idle", "run", "client", "bill", "advance"}, todo : SUBSET Ones, read : [Ones -> Reading],
            item : Ones \cup {Nobody}]

LEMMA WaitingOK == Bil!Waiting \in Running /\ Bil!Waiting.at = "idle" /\ Bil!Waiting.todo = {}
<1>1. [count |-> 0, due |-> 0, action |-> "DONT_INVOICE", limit |-> 0] \in Reading
    BY BillableAssumption DEF Reading, Bil!Cycles, Bil!InvoiceAction, Bil!BillableBounds
<1> QED BY <1>1 DEF Bil!Waiting, Running

LEMMA BilInit == Bil!BillableInit => Bil!BillableInv
<1> SUFFICES ASSUME Bil!BillableInit PROVE Bil!BillableInv
    OBVIOUS
<1>1. Bil!BillableTypeOK
    <2>1. 0 \in Bil!Cycles /\ 0 \in 0 .. MaxCycle /\ {0, 2} \subseteq Nat
        BY BillableAssumption DEF Bil!Cycles, Bil!BillableBounds
    <2>2. v1 \in [Ones -> [kept : BOOLEAN, action : Bil!InvoiceAction, due : Bil!Cycles, count : Nat,
                          limit : Nat, invoiced : BOOLEAN]]
        BY <2>1 DEF Bil!BillableInit
    <2> QED BY <2>1, <2>2, WaitingOK DEF Bil!BillableInit, Bil!BillableTypeOK, Running, Reading
<1>2. Bil!RunInv
    BY WaitingOK DEF Bil!BillableInit, Bil!RunInv, Bil!Underway
<1>3. Bil!ItemInv
    <2>1. \A i \in Ones, n \in Bil!Keys, c \in Bil!Cycles : v2[<<i, n, c>>] = 0
        BY DEF Bil!BillableInit
    <2>2. \A i \in Ones : v1[i].kept /\ v1[i].due = 0 /\ v1[i].count = 0 /\ v1[i].limit \in {0, 2}
        BY DEF Bil!BillableInit
    <2> QED BY <2>1, <2>2 DEF Bil!ItemInv
<1> QED BY <1>1, <1>2, <1>3 DEF Bil!BillableInv

LEMMA OneMore ==
    ASSUME NEW D, NEW f \in [D -> Nat], NEW k
    PROVE  /\ [f EXCEPT ![k] = @ + 1] \in [D -> Nat]
           /\ \A x \in D : [f EXCEPT ![k] = @ + 1][x] = IF x = k THEN f[x] + 1 ELSE f[x]
<1>1. \A x \in D : [f EXCEPT ![k] = @ + 1][x] = IF x = k THEN f[x] + 1 ELSE f[x]
    OBVIOUS
<1>2. \A x \in D : [f EXCEPT ![k] = @ + 1][x] \in Nat
    BY <1>1
<1> QED BY <1>1, <1>2

\* What Advance and an administrator write is an item again.
Item == [kept : BOOLEAN, action : Bil!InvoiceAction, due : Bil!Cycles, count : Nat, limit : Nat, invoiced : BOOLEAN]

LEMMA AdvancedItem ==
    ASSUME NEW d \in Item, NEW r \in Reading, r.due + 1 \in Bil!Cycles
    PROVE  Bil!Advanced(d, r) \in Item
<1>1. \A n \in Nat, b \in BOOLEAN : [d EXCEPT !.count = n, !.invoiced = b] \in Item
    BY DEF Item
<1>2. \A n \in Nat, b \in BOOLEAN, a \in Bil!InvoiceAction : [d EXCEPT !.count = n, !.invoiced = b, !.action = a] \in Item
    BY DEF Item
<1>3. \A n \in Nat, b \in BOOLEAN, t \in Bil!Cycles : [d EXCEPT !.count = n, !.invoiced = b, !.due = t] \in Item
    BY DEF Item
<1>4. r.count + 1 \in Nat /\ "DONT_INVOICE" \in Bil!InvoiceAction
    BY DEF Reading, Bil!InvoiceAction
<1> QED BY <1>1, <1>2, <1>3, <1>4, Zenon DEF Bil!Advanced

LEMMA ChangedTypes ==
    ASSUME Bil!BillableTypeOK, NEW S \in SUBSET Ones, NEW new \in [Ones -> Item], Bil!Change(S, new)
    PROVE  Bil!BillableTypeOK'
<1>1. v5' \in [runs : Nat, count : Nat, touched : SUBSET Ones]
    <2>1. \A n \in Nat, T \in SUBSET Ones : [v5 EXCEPT !.count = n, !.touched = T] \in [runs : Nat, count : Nat, touched : SUBSET Ones]
        BY DEF Bil!BillableTypeOK
    <2>2. v5.count + 1 \in Nat /\ v5.touched \cup S \in SUBSET Ones
        BY DEF Bil!BillableTypeOK
    <2> QED BY <2>1, <2>2 DEF Bil!Change
<1>2. v1' = new /\ UNCHANGED <<v2, v3, v4>>
    BY DEF Bil!Change
<1> QED BY <1>1, <1>2 DEF Bil!BillableTypeOK, Item

\* Every step keeps the types.
LEMMA BilTypes == Bil!BillableInv /\ [Bil!BillableNext]_Bil!billableVars => Bil!BillableTypeOK'
<1> SUFFICES ASSUME Bil!BillableInv, [Bil!BillableNext]_Bil!billableVars PROVE Bil!BillableTypeOK'
    OBVIOUS
<1>0. /\ v1 \in [Ones -> Item] /\ v2 \in [Ones \X Bil!Keys \X Bil!Cycles -> Nat] /\ v3 \in Running
      /\ v4 \in 0 .. MaxCycle /\ v5 \in [runs : Nat, count : Nat, touched : SUBSET Ones]
      /\ Bil!RunInv /\ Bil!BillableTypeOK
    BY DEF Bil!BillableInv, Bil!BillableTypeOK, Item, Running, Reading
<1>a. ASSUME v1' \in [Ones -> Item], v2' \in [Ones \X Bil!Keys \X Bil!Cycles -> Nat], v3' \in Running,
             v4' \in 0 .. MaxCycle, v5' \in [runs : Nat, count : Nat, touched : SUBSET Ones]
      PROVE  Bil!BillableTypeOK'
    BY <1>a DEF Bil!BillableTypeOK, Item, Running, Reading
<1>1. CASE Bil!FindDue
    <2>1. \A i \in Ones : Bil!Seen(i) \in Reading
        BY <1>0 DEF Bil!Seen, Item, Reading
    <2>2. v3' \in Running
        BY <1>1, <1>0, <2>1, WaitingOK DEF Bil!FindDue, Running
    <2> QED BY <1>1, <1>0, <1>a, <2>2 DEF Bil!FindDue
<1>2. ASSUME NEW i \in Ones, Bil!Consider(i) PROVE Bil!BillableTypeOK'
    BY <1>2, <1>0, <1>a DEF Bil!Consider, Running
<1>3. CASE Bil!FindClient
    BY <1>3, <1>0, <1>a DEF Bil!FindClient, Running
<1>4. CASE Bil!Bill
    <2>1. v3' \in Running
        BY <1>4, <1>0 DEF Bil!Bill, Running
    <2>2. v2' \in [Ones \X Bil!Keys \X Bil!Cycles -> Nat]
        <3> DEFINE k == <<v3.item, Bil!RunKey(v3.item), v3.read[v3.item].due>>
        <3>1. v2' = [v2 EXCEPT ![k] = @ + 1]
            BY <1>4 DEF Bil!Bill
        <3> HIDE DEF k
        <3>2. [v2 EXCEPT ![k] = @ + 1] \in [Ones \X Bil!Keys \X Bil!Cycles -> Nat]
            BY <1>0, OneMore, Zenon
        <3> QED BY <3>1, <3>2
    <2> QED BY <1>4, <1>0, <1>a, <2>1, <2>2 DEF Bil!Bill
<1>5. CASE Bil!Advance
    <2> DEFINE i == v3.item
    <2>1. i \in Ones /\ v3.read[i] \in Reading /\ v3.read[i].due <= v4
        BY <1>5, <1>0 DEF Bil!Advance, Bil!RunInv, Bil!Underway, Running
    <2>2. v3.read[i].due + 1 \in Bil!Cycles
        BY <2>1, <1>0, BillableAssumption DEF Bil!Cycles, Reading, Bil!BillableBounds
    <2>3. Bil!Advanced(v1[i], v3.read[i]) \in Item
        BY <2>1, <2>2, <1>0, AdvancedItem
    <2>4. v1' \in [Ones -> Item]
        BY <1>5, <1>0, <2>1, <2>3 DEF Bil!Advance
    <2>5. v3' \in Running
        BY <1>5, <1>0 DEF Bil!Advance, Running
    <2> QED BY <1>5, <1>0, <1>a, <2>4, <2>5 DEF Bil!Advance
<1>6. CASE Bil!ItemFails
    BY <1>6, <1>0, <1>a DEF Bil!ItemFails, Running
<1>7. CASE Bil!EndRun
    BY <1>7, <1>0, <1>a, WaitingOK DEF Bil!EndRun
<1>8. CASE Bil!NextCycle
    BY <1>8, <1>0, <1>a, BillableAssumption DEF Bil!NextCycle, Bil!BillableBounds
<1>9. CASE Bil!Changing
    <2>1. ASSUME NEW i \in Ones, Bil!Update(i, "due", v4) \/ Bil!Update(i, "limit", 1) PROVE Bil!BillableTypeOK'
        <3>1. /\ [v1 EXCEPT ![i]["due"] = v4] \in [Ones -> Item]
              /\ [v1 EXCEPT ![i]["limit"] = 1] \in [Ones -> Item]
            BY <1>0, BillableAssumption DEF Item, Bil!Cycles, Bil!BillableBounds
        <3> QED BY <2>1, <3>1, <1>0, ChangedTypes DEF Bil!Update
    <2>2. ASSUME NEW i \in Ones, NEW a \in Bil!InvoiceAction, Bil!Update(i, "action", a) PROVE Bil!BillableTypeOK'
        <3>1. [v1 EXCEPT ![i]["action"] = a] \in [Ones -> Item]
            BY <1>0 DEF Item
        <3> QED BY <2>2, <3>1, <1>0, ChangedTypes DEF Bil!Update
    <2>3. ASSUME NEW S \in SUBSET Ones, Bil!BulkUpdateInvoiceAction(S) \/ Bil!DeleteBillables(S) PROVE Bil!BillableTypeOK'
        <3>1. \A i \in Ones : /\ [v1[i] EXCEPT !["action"] = "INVOICE_ON_CRON"] \in Item
                              /\ [v1[i] EXCEPT !["kept"] = FALSE] \in Item
            BY <1>0 DEF Item, Bil!InvoiceAction
        <3>2. /\ [i \in Ones |-> IF i \in S THEN [v1[i] EXCEPT !["action"] = "INVOICE_ON_CRON"] ELSE v1[i]] \in [Ones -> Item]
              /\ [i \in Ones |-> IF i \in S THEN [v1[i] EXCEPT !["kept"] = FALSE] ELSE v1[i]] \in [Ones -> Item]
            BY <3>1, <1>0
        <3> QED BY <2>3, <3>2, <1>0, ChangedTypes DEF Bil!BulkUpdateInvoiceAction, Bil!DeleteBillables, Bil!SetAll
    <2> QED BY <1>9, <2>1, <2>2, <2>3 DEF Bil!Changing
<1>10. CASE UNCHANGED Bil!billableVars
    BY <1>10, <1>0, <1>a DEF Bil!billableVars
<1> QED BY <1>1, <1>2, <1>3, <1>4, <1>5, <1>6, <1>7, <1>8, <1>9, <1>10 DEF Bil!BillableNext

\* What the run knows stays true when it goes on with fewer items, nobody else having set them.
LEMMA RunKept ==
    ASSUME Bil!RunInv, Bil!BillableTypeOK, Bil!BillableTypeOK',
           Bil!Underway' \subseteq Bil!Underway, v3'.read = v3.read, v4 <= v4', v5.touched \subseteq v5'.touched,
           \A i \in Bil!Underway' : i \notin v5'.touched => v1'[i] = v1[i],
           v3'.at \in {"client", "bill", "advance"} => v3'.item \in Ones \ v3'.todo,
           v3'.at \in {"client", "bill"} => ~Bil!Existing(v3.item) /\ v3'.item = v3.item /\ v2' = v2
    PROVE  Bil!RunInv'
<1>0. Bil!Underway \subseteq Ones /\ v3.read \in [Ones -> Reading] /\ v4 \in Nat /\ v4' \in Nat
    BY BillableAssumption DEF Bil!BillableTypeOK, Reading, Bil!Underway, Bil!RunInv, Bil!BillableBounds
<1>1. \A i \in Bil!Underway' : v3'.read[i].due <= v4'
    <2> SUFFICES ASSUME NEW i \in Bil!Underway' PROVE v3'.read[i].due <= v4'
        OBVIOUS
    <2>1. v3.read[i].due <= v4 /\ v3.read[i].due \in Int
        BY <1>0 DEF Bil!RunInv, Reading, Bil!Cycles
    <2> QED BY <2>1, <1>0
<1>2. ASSUME NEW i \in Bil!Underway', i \notin v5'.touched
      PROVE  v3'.read[i] = Bil!Seen(i)' /\ v1'[i].action \in {"RECUR", "INVOICE_ON_CRON"}
    BY <1>2 DEF Bil!RunInv, Bil!Seen
<1>3. v3'.at \in {"client", "bill"} => ~\E c \in Bil!Cycles : v2'[<<v3'.item, v3'.read[v3'.item].count + 1, c>>] > 0
    BY DEF Bil!Existing, Bil!RunKey
<1> QED BY <1>1, <1>2, <1>3 DEF Bil!RunInv, Bil!Existing, Bil!RunKey

LEMMA BilRun == Bil!BillableInv /\ [Bil!BillableNext]_Bil!billableVars => Bil!RunInv'
<1> SUFFICES ASSUME Bil!BillableInv, [Bil!BillableNext]_Bil!billableVars PROVE Bil!RunInv'
    OBVIOUS
<1>0. Bil!RunInv /\ Bil!BillableTypeOK /\ Bil!BillableTypeOK' /\ v3 \in Running /\ v3' \in Running /\ v4 \in Nat /\ v4 <= v4
    BY BilTypes, BillableAssumption DEF Bil!BillableInv, Bil!BillableTypeOK, Running, Reading, Bil!BillableBounds
<1>1. CASE Bil!FindDue
    <2>1. v3'.at = "run" /\ v3'.todo = {i \in Ones : Bil!Due(i)} /\ \A i \in v3'.todo : v3'.read[i] = Bil!Seen(i)
        BY <1>1, WaitingOK DEF Bil!FindDue, Running
    <2>2. UNCHANGED <<v1, v4>>
        BY <1>1 DEF Bil!FindDue
    <2>3. Bil!Underway' = v3'.todo
        BY <2>1 DEF Bil!Underway
    <2>4. \A i \in v3'.todo : /\ v3'.read[i].due <= v4'
                              /\ v3'.read[i] = Bil!Seen(i)'
                              /\ v1'[i].action \in {"RECUR", "INVOICE_ON_CRON"}
        BY <2>1, <2>2 DEF Bil!Due, Bil!Seen
    <2> QED BY <2>1, <2>3, <2>4 DEF Bil!RunInv
<1>2. ASSUME NEW i \in Ones, Bil!Consider(i) PROVE Bil!RunInv'
    <2>1. /\ v3'.todo = v3.todo \ {i} /\ v3'.item = i /\ v3'.read = v3.read /\ i \in v3.todo
          /\ v3'.at = IF Bil!Existing(i) THEN "run" ELSE "client"
        BY <1>2, <1>0 DEF Bil!Consider, Running
    <2>2. UNCHANGED <<v1, v2, v4, v5>>
        BY <1>2 DEF Bil!Consider
    <2>3. Bil!Underway' \subseteq Bil!Underway
        BY <2>1 DEF Bil!Underway
    <2>4. \A j \in Bil!Underway' : v3'.read[j] = v3.read[j] /\ Bil!Seen(j)' = Bil!Seen(j)
        BY <2>1, <2>2 DEF Bil!Seen
    <2>5. v3'.at \in {"client", "bill"} => ~\E c \in Bil!Cycles : v2'[<<v3'.item, v3'.read[v3'.item].count + 1, c>>] > 0
        BY <2>1, <2>2 DEF Bil!Existing, Bil!RunKey
    <2>6. \A j \in Bil!Underway' : /\ v3'.read[j].due <= v4'
                                   /\ j \notin v5'.touched => /\ v3'.read[j] = Bil!Seen(j)'
                                                             /\ v1'[j].action \in {"RECUR", "INVOICE_ON_CRON"}
        BY <2>2, <2>3, <2>4, <1>0 DEF Bil!RunInv
    <2> QED BY <2>1, <2>5, <2>6, <1>0 DEF Bil!RunInv, Bil!Existing, Bil!RunKey
<1>3. CASE Bil!FindClient
    <2>1. v3'.todo = v3.todo /\ v3'.item = v3.item /\ v3'.read = v3.read /\ v3'.at \in {"bill", "run"} /\ v3.at = "client"
        BY <1>3, <1>0 DEF Bil!FindClient, Running
    <2>2. UNCHANGED <<v1, v2, v4, v5>>
        BY <1>3 DEF Bil!FindClient
    <2> QED BY <2>1, <2>2, <1>0, RunKept DEF Bil!Underway, Bil!RunInv
<1>4. CASE Bil!Bill
    <2>1. v3'.todo = v3.todo /\ v3'.item = v3.item /\ v3'.read = v3.read /\ v3'.at = "advance" /\ v3.at = "bill"
        BY <1>4, <1>0 DEF Bil!Bill, Running
    <2>2. UNCHANGED <<v1, v4, v5>>
        BY <1>4 DEF Bil!Bill
    <2> QED BY <2>1, <2>2, <1>0, RunKept DEF Bil!Underway, Bil!RunInv
<1>5. CASE Bil!Advance
    <2>1. /\ v3'.todo = v3.todo /\ v3'.item = v3.item /\ v3'.read = v3.read /\ v3'.at = "run" /\ v3.at = "advance"
          /\ v3.item \notin v3.todo
        BY <1>5, <1>0 DEF Bil!Advance, Running, Bil!RunInv
    <2>2. UNCHANGED <<v2, v4, v5>> /\ \A j \in v3.todo : v1'[j] = v1[j]
        BY <1>5, <2>1, <1>0 DEF Bil!Advance, Bil!BillableTypeOK
    <2> QED BY <2>1, <2>2, <1>0, RunKept DEF Bil!Underway
<1>6. CASE Bil!ItemFails
    <2>1. v3'.todo = v3.todo /\ v3'.item = v3.item /\ v3'.read = v3.read /\ v3'.at = "run"
        BY <1>6, <1>0 DEF Bil!ItemFails, Running
    <2>2. UNCHANGED <<v1, v2, v4, v5>>
        BY <1>6 DEF Bil!ItemFails
    <2> QED BY <2>1, <2>2, <1>0, RunKept DEF Bil!Underway
<1>7. CASE Bil!EndRun
    BY <1>7, WaitingOK DEF Bil!EndRun, Bil!RunInv, Bil!Underway
<1>8. CASE Bil!NextCycle
    <2>1. UNCHANGED <<v1, v2, v3, v5>> /\ v4' = v4 + 1
        BY <1>8 DEF Bil!NextCycle
    <2>2. Bil!Underway' = Bil!Underway
        BY <2>1 DEF Bil!Underway
    <2>3. v4 <= v4'
        BY <2>1, <1>0
    <2> QED BY <2>1, <2>2, <2>3, <1>0, RunKept DEF Bil!RunInv
<1>9. CASE Bil!Changing
    <2>1. ASSUME NEW S \in SUBSET Ones, NEW new, Bil!Change(S, new), \A j \in Ones \ S : new[j] = v1[j]
          PROVE  Bil!RunInv'
        <3>1. UNCHANGED <<v2, v3, v4>> /\ v1' = new /\ v5'.touched = v5.touched \cup S
            BY <2>1, <1>0 DEF Bil!Change, Bil!BillableTypeOK
        <3>2. Bil!Underway' = Bil!Underway /\ Bil!Underway \subseteq Ones
            BY <3>1, <1>0 DEF Bil!Underway, Bil!RunInv, Running
        <3> QED BY <2>1, <3>1, <3>2, <1>0, RunKept DEF Bil!RunInv
    <2>2. ASSUME NEW i \in Ones, NEW f, NEW x, Bil!Update(i, f, x) PROVE Bil!RunInv'
        <3>1. \A j \in Ones \ {i} : [v1 EXCEPT ![i][f] = x][j] = v1[j]
            BY <1>0 DEF Bil!BillableTypeOK
        <3> QED BY <2>2, <3>1, <2>1 DEF Bil!Update
    <2>3. ASSUME NEW T \in SUBSET Ones, NEW f, NEW x, Bil!SetAll(T, f, x) PROVE Bil!RunInv'
        BY <2>3, <2>1 DEF Bil!SetAll
    <2> QED BY <1>9, <2>2, <2>3 DEF Bil!Changing, Bil!BulkUpdateInvoiceAction, Bil!DeleteBillables
<1>10. CASE UNCHANGED Bil!billableVars
    BY <1>10, <1>0, RunKept DEF Bil!billableVars, Bil!Underway, Bil!RunInv
<1> QED BY <1>1, <1>2, <1>3, <1>4, <1>5, <1>6, <1>7, <1>8, <1>9, <1>10 DEF Bil!BillableNext

LEMMA ItemKept ==
    ASSUME Bil!ItemInv, UNCHANGED v2, v5.touched \subseteq v5'.touched, \A i \in Ones \ v5'.touched : v1'[i] = v1[i]
    PROVE  Bil!ItemInv'
BY DEF Bil!ItemInv

\* A new invoice has a key the item had no invoice with, and the cycle that goes with it.
LEMMA BillKeeps == Bil!BillableInv /\ Bil!Bill => Bil!ItemInv'
<1> SUFFICES ASSUME Bil!BillableInv, Bil!Bill PROVE Bil!ItemInv'
    OBVIOUS
<1> DEFINE j == v3.item
           k == v3.read[j].count + 1
           d == v3.read[j].due
<1>1. UNCHANGED <<v1, v4, v5>> /\ v2' = [v2 EXCEPT ![<<j, k, d>>] = @ + 1] /\ v3.at = "bill"
    BY DEF Bil!Bill, Bil!RunKey
<1>2. v2 \in [Ones \X Bil!Keys \X Bil!Cycles -> Nat] /\ v1 \in [Ones -> Item] /\ v3 \in Running
    BY DEF Bil!BillableInv, Bil!BillableTypeOK, Item, Running, Reading
<1>3. \A i \in Ones, n \in Bil!Keys, c \in Bil!Cycles :
         v2'[<<i, n, c>>] = IF <<i, n, c>> = <<j, k, d>> THEN v2[<<i, n, c>>] + 1 ELSE v2[<<i, n, c>>]
    BY <1>1, <1>2, OneMore
<1>4. /\ j \in Ones /\ ~\E c \in Bil!Cycles : v2[<<j, k, c>>] > 0
      /\ j \notin v5.touched => /\ v1[j].action \in {"RECUR", "INVOICE_ON_CRON"}
                                /\ k = v1[j].count + 1 /\ d = v1[j].due
    <2>1. j \in Ones /\ ~Bil!Existing(j) /\ j \in Bil!Underway
        BY <1>1 DEF Bil!BillableInv, Bil!RunInv, Bil!Underway
    <2>2. j \notin v5.touched => v3.read[j] = Bil!Seen(j) /\ v1[j].action \in {"RECUR", "INVOICE_ON_CRON"}
        BY <2>1 DEF Bil!BillableInv, Bil!RunInv
    <2> QED BY <2>1, <2>2 DEF Bil!Existing, Bil!RunKey, Bil!Seen
<1> SUFFICES ASSUME NEW i \in Ones \ v5.touched, NEW n \in Bil!Keys, NEW c \in Bil!Cycles, v2'[<<i, n, c>>] > 0
             PROVE  /\ v2'[<<i, n, c>>] = 1
                    /\ v1[i].action # "INVOICE_ON_CRON" => c = n - 1 /\ n <= v1[i].count + 1
                    /\ v1[i].action = "DONT_INVOICE" => n <= v1[i].count
    BY <1>1 DEF Bil!ItemInv, Bil!BillableInv
<1>5. CASE <<i, n, c>> = <<j, k, d>>
    <2>1. v2[<<i, n, c>>] = 0
        BY <1>5, <1>4, <1>2
    <2>2. v1[i].action = "RECUR" => v1[i].due = v1[i].count /\ v1[i].count \in Nat
        BY <1>2 DEF Bil!BillableInv, Bil!ItemInv, Item
    <2>3. i = j /\ n = k /\ c = d
        BY <1>5
    <2>4. v2'[<<i, n, c>>] = 1
        BY <1>5, <1>3, <2>1
    <2> HIDE DEF j, k, d
    <2> QED BY <2>2, <2>3, <2>4, <1>4
<1>6. CASE <<i, n, c>> # <<j, k, d>>
    BY <1>6, <1>3 DEF Bil!BillableInv, Bil!ItemInv
<1> QED BY <1>5, <1>6

\* The item goes past the invoice of its cycle, or the run ends it at its limit.
LEMMA AdvanceKeeps == Bil!BillableInv /\ Bil!Advance => Bil!ItemInv'
<1> SUFFICES ASSUME Bil!BillableInv, Bil!Advance PROVE Bil!ItemInv'
    OBVIOUS
<1>1. UNCHANGED <<v2, v4, v5>> /\ v3.at = "advance"
    BY DEF Bil!Advance
<1>2. v1 \in [Ones -> Item] /\ v3 \in Running
    BY DEF Bil!BillableInv, Bil!BillableTypeOK, Item, Running, Reading
<1> SUFFICES ASSUME NEW i \in Ones \ v5.touched
             PROVE  /\ v1'[i].kept
                    /\ v1'[i].action = "RECUR" => v1'[i].due = v1'[i].count /\ (v1'[i].limit > 0 => v1'[i].count < v1'[i].limit)
                    /\ v1'[i].action = "DONT_INVOICE" /\ v1'[i].limit > 0 => v1'[i].count <= v1'[i].limit
                    /\ \A n \in Bil!Keys, c \in Bil!Cycles : v2[<<i, n, c>>] > 0 =>
                         /\ v2[<<i, n, c>>] = 1
                         /\ v1'[i].action # "INVOICE_ON_CRON" => c = n - 1 /\ n <= v1'[i].count + 1
                         /\ v1'[i].action = "DONT_INVOICE" => n <= v1'[i].count
    BY <1>1 DEF Bil!ItemInv
<1>3. /\ v1[i].kept /\ v1[i].count \in Nat /\ v1[i].limit \in Nat
      /\ v1[i].action = "RECUR" => v1[i].due = v1[i].count /\ (v1[i].limit > 0 => v1[i].count < v1[i].limit)
      /\ \A n \in Bil!Keys, c \in Bil!Cycles : v2[<<i, n, c>>] > 0 =>
           /\ v2[<<i, n, c>>] = 1
           /\ v1[i].action # "INVOICE_ON_CRON" => c = n - 1 /\ n <= v1[i].count + 1
    BY <1>2 DEF Bil!BillableInv, Bil!ItemInv, Item
<1>4. CASE i # v3.item
    <2>1. v1'[i] = v1[i]
        BY <1>4, <1>2 DEF Bil!Advance
    <2> QED BY <2>1, <1>1 DEF Bil!BillableInv, Bil!ItemInv
<1>5. CASE i = v3.item
    <2>1. v3.read[i] = Bil!Seen(i) /\ v1[i].action \in {"RECUR", "INVOICE_ON_CRON"}
        BY <1>5, <1>1 DEF Bil!BillableInv, Bil!RunInv, Bil!Underway
    <2>2. v1'[i] = Bil!Advanced(v1[i], Bil!Seen(i))
        BY <1>5, <1>2, <1>3, <2>1 DEF Bil!Advance
    <2>3. CASE v1[i].action = "INVOICE_ON_CRON"
        <3>1. v1'[i].kept /\ v1'[i].action = "INVOICE_ON_CRON"
            <4>1. v1'[i] = [v1[i] EXCEPT !.count = Bil!Seen(i).count + 1, !.invoiced = TRUE]
                BY <2>2, <2>3 DEF Bil!Advanced, Bil!Seen
            <4> QED BY <4>1, <2>3, <1>2, <1>3 DEF Item
        <3> QED BY <3>1, <1>3
    <2>4. CASE v1[i].action = "RECUR" /\ Bil!ReachedLimit(Bil!Seen(i))
        <3>1. /\ v1'[i].kept /\ v1'[i].action = "DONT_INVOICE" /\ v1'[i].count = v1[i].count + 1
              /\ v1'[i].limit = v1[i].limit
            <4>1. Bil!Seen(i).action = "RECUR" /\ Bil!Seen(i).count = v1[i].count
                BY <2>4 DEF Bil!Seen
            <4>2. v1'[i] = [v1[i] EXCEPT !.count = v1[i].count + 1, !.invoiced = TRUE, !.action = "DONT_INVOICE"]
                BY <2>2, <2>4, <4>1 DEF Bil!Advanced
            <4> QED BY <4>2, <1>2, <1>3 DEF Item
        <3>2. \A n \in Bil!Keys : n \in Nat
            BY BillableAssumption DEF Bil!Keys, Bil!BillableBounds
        <3> QED BY <3>1, <3>2, <1>3, <2>4
    <2>5. CASE v1[i].action = "RECUR" /\ ~Bil!ReachedLimit(Bil!Seen(i))
        <3>1. /\ v1'[i].kept /\ v1'[i].action = "RECUR" /\ v1'[i].count = v1[i].count + 1
              /\ v1'[i].limit = v1[i].limit /\ v1'[i].due = v1[i].due + 1
            <4>1. Bil!Seen(i).action = "RECUR" /\ Bil!Seen(i).count = v1[i].count /\ Bil!Seen(i).due = v1[i].due
                BY <2>5 DEF Bil!Seen
            <4>2. v1'[i] = [v1[i] EXCEPT !.count = v1[i].count + 1, !.invoiced = FALSE, !.due = v1[i].due + 1]
                BY <2>2, <2>5, <4>1 DEF Bil!Advanced
            <4> QED BY <4>2, <2>5, <1>2, <1>3 DEF Item
        <3>2. \A n \in Bil!Keys : n \in Nat
            BY BillableAssumption DEF Bil!Keys, Bil!BillableBounds
        <3>3. v1[i].limit > 0 => v1[i].count + 1 < v1[i].limit
            BY <2>5, <1>3 DEF Bil!ReachedLimit, Bil!Seen
        <3> QED BY <3>1, <3>2, <3>3, <1>3, <2>5
    <2> QED BY <2>1, <2>3, <2>4, <2>5
<1> QED BY <1>4, <1>5

LEMMA BilItems == Bil!BillableInv /\ [Bil!BillableNext]_Bil!billableVars => Bil!ItemInv'
<1> SUFFICES ASSUME Bil!BillableInv, [Bil!BillableNext]_Bil!billableVars PROVE Bil!ItemInv'
    OBVIOUS
<1>0. Bil!ItemInv /\ v1 \in [Ones -> Item] /\ v5 \in [runs : Nat, count : Nat, touched : SUBSET Ones]
    BY DEF Bil!BillableInv, Bil!BillableTypeOK, Item
<1>1. CASE Bil!FindDue
    BY <1>1, <1>0, ItemKept DEF Bil!FindDue
<1>2. ASSUME NEW i \in Ones, Bil!Consider(i) PROVE Bil!ItemInv'
    BY <1>2, <1>0, ItemKept DEF Bil!Consider
<1>3. CASE Bil!FindClient \/ Bil!ItemFails \/ Bil!EndRun \/ Bil!NextCycle \/ UNCHANGED Bil!billableVars
    BY <1>3, <1>0, ItemKept DEF Bil!FindClient, Bil!ItemFails, Bil!EndRun, Bil!NextCycle, Bil!billableVars
<1>9. CASE Bil!Changing
    <2>3. ASSUME NEW S \in SUBSET Ones, NEW new, Bil!Change(S, new), \A j \in Ones \ S : new[j] = v1[j]
          PROVE  Bil!ItemInv'
        <3>1. UNCHANGED v2 /\ v1' = new /\ v5'.touched = v5.touched \cup S
            BY <2>3, <1>0 DEF Bil!Change
        <3> QED BY <2>3, <3>1, <1>0, ItemKept
    <2>1. ASSUME NEW i \in Ones, NEW f, NEW x, Bil!Update(i, f, x) PROVE Bil!ItemInv'
        <3>1. \A j \in Ones \ {i} : [v1 EXCEPT ![i][f] = x][j] = v1[j]
            BY <1>0
        <3> QED BY <2>1, <3>1, <2>3 DEF Bil!Update
    <2>2. ASSUME NEW T \in SUBSET Ones, NEW f, NEW x, Bil!SetAll(T, f, x) PROVE Bil!ItemInv'
        BY <2>2, <2>3 DEF Bil!SetAll
    <2> QED BY <1>9, <2>1, <2>2 DEF Bil!Changing, Bil!BulkUpdateInvoiceAction, Bil!DeleteBillables
<1> QED BY <1>1, <1>2, <1>3, <1>9, BillKeeps, AdvanceKeeps DEF Bil!BillableNext

LEMMA BilStep == Bil!BillableInv /\ [Bil!BillableNext]_Bil!billableVars => Bil!BillableInv'
BY BilTypes, BilRun, BilItems DEF Bil!BillableInv

LEMMA BilImplies == Bil!BillableInv => Bil!BilledOnce
<1> SUFFICES ASSUME Bil!BillableInv, NEW i \in Ones \ v5.touched, NEW c \in Bil!Cycles, NEW n \in Bil!Keys,
                    v2[<<i, n, c>>] > 0
             PROVE  /\ v2[<<i, n, c>>] = 1
                    /\ v1[i].action # "INVOICE_ON_CRON" =>
                          /\ \A m \in Bil!Keys \ {n} : v2[<<i, m, c>>] = 0
                          /\ v1[i].limit > 0 => n <= v1[i].limit
    BY DEF Bil!BilledOnce
<1>1. /\ v1[i].count \in Nat /\ v1[i].limit \in Nat /\ v1[i].action \in Bil!InvoiceAction
      /\ Bil!Keys \subseteq Int /\ \A m \in Bil!Keys : v2[<<i, m, c>>] \in Nat
    BY BillableAssumption DEF Bil!BillableInv, Bil!BillableTypeOK, Bil!Keys, Bil!BillableBounds
<1>2. \A m \in Bil!Keys : v2[<<i, m, c>>] > 0 =>
        /\ v2[<<i, m, c>>] = 1
        /\ v1[i].action # "INVOICE_ON_CRON" => c = m - 1 /\ m <= v1[i].count + 1
        /\ v1[i].action = "DONT_INVOICE" => m <= v1[i].count
    BY DEF Bil!BillableInv, Bil!ItemInv
<1>3. /\ v1[i].action = "RECUR" /\ v1[i].limit > 0 => v1[i].count < v1[i].limit
      /\ v1[i].action = "DONT_INVOICE" /\ v1[i].limit > 0 => v1[i].count <= v1[i].limit
    BY DEF Bil!BillableInv, Bil!ItemInv
<1> QED BY <1>1, <1>2, <1>3 DEF Bil!InvoiceAction

\* A cycle of a billable item is billed once, within the item's limit, whatever runs die between the
\* invoice and the advance of the item (billable-item.service.ts:187).
THEOREM BusinessBilledOnce == BusinessSpec => []BilledOnce
<1> DEFINE Inv == scenario = "billables" => Bil!BillableInv
<1>1. BusinessInit => Inv
    BY BilInit DEF BusinessInit, Senders, Routers, Shelves
<1>2. Inv /\ [BusinessNext]_businessVars => Inv'
    <2> SUFFICES ASSUME Inv, [BusinessNext]_businessVars, scenario' = "billables" PROVE Bil!BillableInv'
        OBVIOUS
    <2>1. scenario = "billables" /\ [Bil!BillableNext]_Bil!billableVars
        BY DEF BusinessNext, BusinessStep, businessVars, shared, Bil!billableVars, Senders, Routers, Shelves
    <2> QED BY <2>1, BilStep
<1>3. Inv => BilledOnce
    BY BilImplies DEF BilledOnce
<1> QED BY <1>1, <1>2, <1>3, PTL DEF BusinessSpec

-----------------------------------------------------------------------------
(* Tickets: v1 ticket, v2 lastMessage, v3 notes, v4 post, v5 posted.        *)

\* FiniteSets, as Tickets extends it, is FiniteSets.
LEMMA TicCounts == \A S : (Tic!IsFiniteSet(S) <=> IsFiniteSet(S)) /\ Tic!Cardinality(S) = Cardinality(S)
<1>1. \A S : Tic!IsFiniteSet(S) <=> IsFiniteSet(S)
    BY DEF Tic!IsFiniteSet, IsFiniteSet
<1>2. \A S : Tic!Cardinality(S) = Cardinality(S)
    BY DEF Tic!Cardinality, Cardinality
<1> QED BY <1>1, <1>2

LEMMA TicInit == Tic!TicketInit => Tic!TicketInv
<1> SUFFICES ASSUME Tic!TicketInit PROVE Tic!TicketInv
    OBVIOUS
<1>1. Tic!Quiet \in Tic!Request /\ Tic!Quiet.at = "idle" /\ \A p \in Seconds : v4[p] = Tic!Quiet
    BY DEF Tic!TicketInit, Tic!Quiet, Tic!Request
<1>2. Tic!DocsOK
    BY <1>1 DEF Tic!TicketInit, Tic!DocsOK
<1> QED BY <1>1, <1>2 DEF Tic!TicketInit, Tic!TicketInv, Tic!OnOpened, Tic!StillAsking, Tic!ReplyAsksAnswer

\* The requests but p are as they were, p at its next step or gone.
LEMMA TicProceeds ==
    ASSUME Tic!DocsOK, NEW p \in Seconds, NEW at \in {"idle", "message", "save", "notify"}, Tic!Proceed(p, at)
    PROVE  /\ v4' \in [Seconds -> Tic!Request]
           /\ \A q \in Seconds \ {p} : v4'[q] = v4[q]
           /\ at = "idle" => v4'[p] = Tic!Quiet
           /\ at # "idle" => v4'[p] = [v4[p] EXCEPT !.at = at]
<1>1. Tic!Quiet \in Tic!Request
    BY DEF Tic!Quiet, Tic!Request
<1>2. [v4[p] EXCEPT !.at = at] \in Tic!Request
    BY DEF Tic!DocsOK, Tic!Request
<1> QED BY <1>1, <1>2 DEF Tic!Proceed, Tic!DocsOK

LEMMA TicReceives ==
    ASSUME Tic!DocsOK, NEW p \in Seconds, NEW r \in Tic!Request, Tic!Receive(p, r)
    PROVE  /\ v4' \in [Seconds -> Tic!Request] /\ v4' = [v4 EXCEPT ![p] = r]
           /\ v5' \in [begun : Nat, heard : SUBSET Firsts] /\ v5'.heard = v5.heard
<1>1. \A n \in Nat : [v5 EXCEPT !.begun = n] \in [begun : Nat, heard : SUBSET Firsts] /\ [v5 EXCEPT !.begun = n].heard = v5.heard
    BY DEF Tic!DocsOK
<1> QED BY <1>1 DEF Tic!Receive, Tic!DocsOK

\* A save of the staff crosses the replies to its ticket.
LEMMA TicStaffSaves ==
    ASSUME Tic!DocsOK, NEW p \in Seconds, NEW t \in Firsts, NEW next \in Tic!Request, Tic!StaffSaved(p, t, next)
    PROVE  /\ v4' \in [Seconds -> Tic!Request] /\ v4'[p] = next
           /\ \A q \in Seconds \ {p} : /\ v4[q].on = t => v4'[q] = [v4[q] EXCEPT !.crossed = TRUE]
                                       /\ v4[q].on # t => v4'[q] = v4[q]
           /\ v5' \in [begun : Nat, heard : SUBSET Firsts] /\ v5'.heard = v5.heard \ {t}
<1>1. \A q \in Seconds : v4[q] \in Tic!Request /\ [v4[q] EXCEPT !.crossed = TRUE] \in Tic!Request
    BY DEF Tic!DocsOK, Tic!Request
<1>2. v5' \in [begun : Nat, heard : SUBSET Firsts] /\ v5'.heard = v5.heard \ {t}
    BY DEF Tic!StaffSaved, Tic!DocsOK
<1> QED BY <1>1, <1>2 DEF Tic!StaffSaved

\* The tickets of L may stop waiting for the staff: nobody is heard on them, and no reply that the
\* staff has not crossed is on its way to them.
LEMMA TicKept ==
    ASSUME Tic!TicketInv, Tic!DocsOK', NEW L, Tic!Opened \subseteq Tic!Opened',
           \A t \in Tic!Opened \ L : v1[t].status = "customer_reply" => v1'[t].status = "customer_reply",
           \A t \in v5'.heard : t \in Tic!Opened' /\ (t \in v5.heard \ L \/ v1'[t].status = "customer_reply"),
           \A q \in Seconds : v4'[q].at \in {"message", "save"} =>
              \/ /\ v4[q].at \in {"message", "save"} /\ v4'[q].on = v4[q].on
                 /\ v4'[q].kind = "client" /\ ~v4'[q].crossed =>
                       v4[q].kind = "client" /\ ~v4[q].crossed /\ v4'[q].status = v4[q].status /\ v4[q].on \notin L
              \/ v4'[q].on \in Tic!Opened /\ (v4'[q].kind # "client" \/ v4'[q].status = v1'[v4'[q].on].status)
    PROVE  Tic!TicketInv'
<1>1. Tic!OnOpened'
    BY DEF Tic!TicketInv, Tic!OnOpened
<1>2. Tic!StillAsking'
    BY DEF Tic!TicketInv, Tic!OnOpened, Tic!StillAsking
<1>3. Tic!ReplyAsksAnswer' /\ v5'.heard \subseteq Tic!Opened'
    BY DEF Tic!TicketInv, Tic!ReplyAsksAnswer
<1> QED BY <1>1, <1>2, <1>3 DEF Tic!TicketInv

\* Where no ticket changes, a request that may save one was about to already, or has just read its status.
LEMMA TicUnmoved ==
    ASSUME Tic!TicketInv, Tic!DocsOK', UNCHANGED v1, v5'.heard = v5.heard,
           \A q \in Seconds : v4'[q].at \in {"message", "save"} =>
              \/ /\ v4[q].at \in {"message", "save"} /\ v4'[q].on = v4[q].on /\ v4'[q].kind = v4[q].kind
                 /\ v4'[q].crossed = v4[q].crossed /\ v4'[q].status = v4[q].status
              \/ v4'[q].on \in Tic!Opened /\ (v4'[q].kind # "client" \/ v4'[q].status = v1[v4'[q].on].status)
    PROVE  Tic!TicketInv'
<1>1. Tic!Opened' = Tic!Opened
    BY DEF Tic!Opened
<1>2. Tic!OnOpened'
    BY <1>1 DEF Tic!TicketInv, Tic!OnOpened
<1>3. Tic!StillAsking'
    BY DEF Tic!TicketInv, Tic!StillAsking
<1>4. Tic!ReplyAsksAnswer' /\ v5'.heard \subseteq Tic!Opened'
    BY <1>1 DEF Tic!TicketInv, Tic!ReplyAsksAnswer
<1> QED BY <1>2, <1>3, <1>4 DEF Tic!TicketInv

\* Written, a ticket is one of those there are.
LEMMA TicWritten ==
    ASSUME Tic!DocsOK, NEW t \in Firsts, NEW d \in Tic!Doc, v1' = [v1 EXCEPT ![t] = d]
    PROVE  /\ v1' \in [Firsts -> Tic!Doc \cup {Tic!NoDoc}]
           /\ Tic!Opened \subseteq Tic!Opened' /\ t \in Tic!Opened'
           /\ v1'[t] = d /\ \A u \in Firsts \ {t} : v1'[u] = v1[u]
<1>1. d # Tic!NoDoc
    BY DEF Tic!Doc, Tic!NoDoc, Tic!TicketStatuses
<1>2. v1' \in [Firsts -> Tic!Doc \cup {Tic!NoDoc}] /\ v1'[t] = d /\ \A u \in Firsts \ {t} : v1'[u] = v1[u]
    BY DEF Tic!DocsOK
<1> QED BY <1>1, <1>2 DEF Tic!Opened

LEMMA TicAskCreate == ASSUME Tic!TicketInv, NEW p \in Seconds, Tic!AskCreate(p) PROVE Tic!TicketInv'
<1>1. Tic!Cardinality(Tic!Opened) + 1 \in Nat
    <2>1. IsFiniteSet(Firsts) /\ Tic!Opened \in SUBSET Firsts
        BY TicketAssumption, TicCounts DEF Tic!TicketBounds, Tic!Opened
    <2>2. IsFiniteSet(Tic!Opened)
        BY <2>1, FS_Subset
    <2>3. Tic!Cardinality(Tic!Opened) \in Nat
        BY <2>2, FS_CardinalityType, TicCounts
    <2> QED BY <2>3
<1> DEFINE r == [Tic!Quiet EXCEPT !.at = "create", !.kind = "client", !.number = Tic!Cardinality(Tic!Opened) + 1]
<1>2. r \in Tic!Request /\ r.at = "create"
    <2>1. \A n \in Nat : /\ [Tic!Quiet EXCEPT !.at = "create", !.kind = "client", !.number = n] \in Tic!Request
                         /\ [Tic!Quiet EXCEPT !.at = "create", !.kind = "client", !.number = n].at = "create"
        BY DEF Tic!Quiet, Tic!Request
    <2> QED BY <1>1, <2>1
<1>3. Tic!Receive(p, r) /\ UNCHANGED <<v1, v2, v3>>
    BY Zenon DEF Tic!AskCreate
<1> HIDE DEF r
<1>4. v4' = [v4 EXCEPT ![p] = r] /\ v4' \in [Seconds -> Tic!Request] /\ v5'.heard = v5.heard /\ Tic!DocsOK'
    BY <1>2, <1>3, TicReceives DEF Tic!TicketInv, Tic!DocsOK
<1>5. Tic!Opened' = Tic!Opened
    BY <1>3 DEF Tic!Opened
<1>6. \A q \in Seconds : v4'[q].at \in {"message", "save"} => v4'[q] = v4[q]
    BY <1>2, <1>4 DEF Tic!TicketInv, Tic!DocsOK
<1> QED BY <1>3, <1>4, <1>5, <1>6, TicUnmoved DEF Tic!TicketInv

LEMMA TicCreateTicket == ASSUME Tic!TicketInv, NEW p \in Seconds, Tic!CreateTicket(p) PROVE Tic!TicketInv'
<1>0. Tic!DocsOK /\ UNCHANGED <<v2, v3, v5>>
    BY DEF Tic!TicketInv, Tic!CreateTicket
<1>1. CASE Tic!NumberTaken(v4[p].number)
    <2>1. Tic!Proceed(p, "idle") /\ UNCHANGED v1
        BY <1>1 DEF Tic!CreateTicket
    <2>2. v4' \in [Seconds -> Tic!Request] /\ v4'[p] = Tic!Quiet /\ \A q \in Seconds \ {p} : v4'[q] = v4[q]
        BY <1>0, <2>1, TicProceeds
    <2>3. Tic!DocsOK' /\ Tic!Opened' = Tic!Opened
        BY <1>0, <2>1, <2>2 DEF Tic!DocsOK, Tic!Opened
    <2>4. \A q \in Seconds : v4'[q].at \in {"message", "save"} => v4'[q] = v4[q]
        BY <2>2 DEF Tic!Quiet
    <2> QED BY <1>0, <2>1, <2>3, <2>4, TicUnmoved DEF Tic!TicketInv
<1>2. CASE ~Tic!NumberTaken(v4[p].number)
    <2>1. PICK t \in Firsts \ Tic!Opened :
             /\ v1' = [v1 EXCEPT ![t] = [number |-> v4[p].number, status |-> "open", replier |-> "client"]]
             /\ v4' = [v4 EXCEPT ![p].at = "message", ![p].kind = "first", ![p].on = t]
        BY <1>2 DEF Tic!CreateTicket
    <2>2. [number |-> v4[p].number, status |-> "open", replier |-> "client"] \in Tic!Doc
        BY <1>0 DEF Tic!DocsOK, Tic!Request, Tic!Doc, Tic!TicketStatuses, Tic!Sides
    <2>3. /\ v1' \in [Firsts -> Tic!Doc \cup {Tic!NoDoc}]
          /\ Tic!Opened \subseteq Tic!Opened' /\ t \in Tic!Opened' /\ \A u \in Firsts \ {t} : v1'[u] = v1[u]
        BY <1>0, <2>1, <2>2, TicWritten
    <2>4. /\ v4' \in [Seconds -> Tic!Request] /\ \A q \in Seconds \ {p} : v4'[q] = v4[q]
          /\ v4'[p].at = "message" /\ v4'[p].kind = "first" /\ v4'[p].on = t
        <3> DEFINE r == [v4[p] EXCEPT !.at = "message", !.kind = "first", !.on = t]
        <3>1. v4[p] \in Tic!Request /\ v4 \in [Seconds -> Tic!Request]
            BY <1>0 DEF Tic!DocsOK
        <3>2. r \in Tic!Request
            BY <2>1, <3>1 DEF Tic!Request
        <3>3. r.at = "message" /\ r.kind = "first" /\ r.on = t
            BY <3>1 DEF Tic!Request
        <3>4. v4' = [v4 EXCEPT ![p] = r]
            BY <2>1, <3>1
        <3> HIDE DEF r
        <3> QED BY <3>1, <3>2, <3>3, <3>4
    <2>5. Tic!DocsOK'
        BY <1>0, <2>3, <2>4 DEF Tic!DocsOK
    <2>6. Tic!OnOpened'
        BY <2>3, <2>4 DEF Tic!TicketInv, Tic!OnOpened
    <2>7. Tic!StillAsking'
        BY <2>1, <2>3, <2>4 DEF Tic!TicketInv, Tic!StillAsking, Tic!OnOpened
    <2>8. v5'.heard \subseteq Tic!Opened' /\ Tic!ReplyAsksAnswer'
        BY <1>0, <2>1, <2>3 DEF Tic!TicketInv, Tic!ReplyAsksAnswer
    <2> QED BY <2>5, <2>6, <2>7, <2>8 DEF Tic!TicketInv
<1> QED BY <1>1, <1>2

LEMMA TicAskReply ==
    ASSUME Tic!TicketInv, NEW p \in Seconds, NEW t \in Firsts, NEW kind \in {"client", "staff", "note"}, Tic!AskReply(p, t, kind)
    PROVE  Tic!TicketInv'
<1> DEFINE r == [Tic!Quiet EXCEPT !.at = "message", !.kind = kind, !.on = t, !.status = v1[t].status]
<1>1. Tic!Receive(p, r) /\ UNCHANGED <<v1, v2, v3>> /\ t \in Tic!Opened /\ Tic!DocsOK
    BY DEF Tic!AskReply, Tic!TicketInv
<1>2. r \in Tic!Request /\ r.on = t /\ r.status = v1[t].status
    BY <1>1 DEF Tic!DocsOK, Tic!Opened, Tic!Quiet, Tic!Request, Tic!Doc
<1> HIDE DEF r
<1>4. v4' = [v4 EXCEPT ![p] = r] /\ v5'.heard = v5.heard /\ Tic!DocsOK'
    BY <1>1, <1>2, TicReceives DEF Tic!DocsOK
<1>5. Tic!Opened' = Tic!Opened
    BY <1>1 DEF Tic!Opened
<1>6. \A q \in Seconds : v4'[q] = v4[q] \/ (v4'[q].on \in Tic!Opened /\ v4'[q].status = v1'[v4'[q].on].status)
    BY <1>1, <1>2, <1>4 DEF Tic!DocsOK
<1> QED BY <1>1, <1>4, <1>5, <1>6, TicUnmoved DEF Tic!TicketInv

LEMMA TicAskStatus ==
    ASSUME Tic!TicketInv, NEW p \in Seconds, NEW t \in Firsts, NEW kind \in {"status", "resolve", "own"},
           NEW s \in Chosen \cup {"resolved"}, Tic!AskStatus(p, t, kind, s)
    PROVE  Tic!TicketInv'
<1> DEFINE r == [Tic!Quiet EXCEPT !.at = "save", !.kind = kind, !.on = t, !.number = 0,
                                  !.status = IF v1[t].status = s THEN "none" ELSE s]
<1>1. Tic!Receive(p, r) /\ UNCHANGED <<v1, v2, v3>> /\ t \in Tic!Opened /\ Tic!DocsOK
    BY DEF Tic!AskStatus, Tic!TicketInv
<1>2. r \in Tic!Request /\ r.on = t /\ r.kind # "client"
    <2>1. s \in Tic!TicketStatuses
        BY TicketAssumption DEF Tic!TicketBounds, Tic!TicketStatuses
    <2> QED BY <2>1 DEF Tic!Quiet, Tic!Request
<1> HIDE DEF r
<1>4. v4' = [v4 EXCEPT ![p] = r] /\ v5'.heard = v5.heard /\ Tic!DocsOK'
    BY <1>1, <1>2, TicReceives DEF Tic!DocsOK
<1>5. Tic!Opened' = Tic!Opened
    BY <1>1 DEF Tic!Opened
<1>6. \A q \in Seconds : v4'[q] = v4[q] \/ (v4'[q].on \in Tic!Opened /\ v4'[q].kind # "client")
    BY <1>1, <1>2, <1>4 DEF Tic!DocsOK
<1> QED BY <1>1, <1>4, <1>5, <1>6, TicUnmoved DEF Tic!TicketInv

LEMMA TicCreateMessage == ASSUME Tic!TicketInv, NEW p \in Seconds, Tic!CreateMessage(p) PROVE Tic!TicketInv'
<1>0. Tic!DocsOK /\ v4[p].at = "message" /\ UNCHANGED <<v1, v3, v5>>
    BY DEF Tic!TicketInv, Tic!CreateMessage
<1>1. PICK at \in {"notify", "save"} : Tic!Proceed(p, at)
    BY DEF Tic!CreateMessage
<1>2. /\ v4' \in [Seconds -> Tic!Request] /\ v4'[p] = [v4[p] EXCEPT !.at = at]
      /\ \A q \in Seconds \ {p} : v4'[q] = v4[q]
    BY <1>0, <1>1, TicProceeds
<1>3. /\ v4'[p].on = v4[p].on /\ v4'[p].kind = v4[p].kind
      /\ v4'[p].crossed = v4[p].crossed /\ v4'[p].status = v4[p].status
    BY <1>0, <1>2 DEF Tic!DocsOK, Tic!Request
<1>4. Tic!DocsOK'
    BY <1>0, <1>2 DEF Tic!DocsOK
<1> QED BY <1>0, <1>2, <1>3, <1>4, TicUnmoved

\* A request that ends has no more to save.
LEMMA TicEnds ==
    ASSUME Tic!TicketInv, NEW p \in Seconds, Tic!Proceed(p, "idle"), UNCHANGED <<v1, v5>>
    PROVE  Tic!TicketInv'
<1>1. v4' \in [Seconds -> Tic!Request] /\ v4'[p] = Tic!Quiet /\ \A q \in Seconds \ {p} : v4'[q] = v4[q]
    BY TicProceeds DEF Tic!TicketInv
<1>2. Tic!DocsOK'
    BY <1>1 DEF Tic!DocsOK, Tic!TicketInv
<1>3. \A q \in Seconds : v4'[q].at \in {"message", "save"} => v4'[q] = v4[q]
    BY <1>1 DEF Tic!Quiet
<1>4. \A q \in Seconds : v4'[q].at \in {"message", "save"} =>
              /\ v4[q].at \in {"message", "save"} /\ v4'[q].on = v4[q].on /\ v4'[q].kind = v4[q].kind
              /\ v4'[q].crossed = v4[q].crossed /\ v4'[q].status = v4[q].status
    BY <1>3
<1> QED BY <1>2, <1>4, TicUnmoved

\* The client's reply leaves the ticket waiting for the staff, unless the staff crossed it.
LEMMA TicClientSaves ==
    ASSUME Tic!TicketInv, NEW p \in Seconds, Tic!SaveReply(p), v4[p].kind = "client"
    PROVE  Tic!TicketInv'
<1> DEFINE t == v4[p].on
           s == Tic!Written(t, v4[p].status, "customer_reply")
           L == {}
<1>0. Tic!DocsOK /\ v4[p].at = "save" /\ t \in Tic!Opened /\ t \in Firsts /\ v1[t] \in Tic!Doc
    BY DEF Tic!TicketInv, Tic!SaveReply, Tic!OnOpened, Tic!Opened, Tic!DocsOK
<1>1. /\ v1' = [v1 EXCEPT ![t].status = s, ![t].replier = "client"] /\ Tic!Proceed(p, "notify")
      /\ v5' = IF v4[p].crossed THEN v5 ELSE [v5 EXCEPT !.heard = @ \cup {t}]
    BY DEF Tic!SaveReply, Tic!AnswerStatus
<1>2. /\ s \in Tic!TicketStatuses
      /\ v1[t].status = "customer_reply" => s = "customer_reply"
      /\ ~v4[p].crossed => s = "customer_reply"
    BY <1>0 DEF Tic!Written, Tic!TicketStatuses, Tic!Doc, Tic!TicketInv, Tic!StillAsking
<1> HIDE DEF s
<1>3. v1' = [v1 EXCEPT ![t] = [v1[t] EXCEPT !.status = s, !.replier = "client"]]
    BY <1>1, <1>0 DEF Tic!DocsOK
<1>4. [v1[t] EXCEPT !.status = s, !.replier = "client"] \in Tic!Doc
    BY <1>0, <1>2 DEF Tic!Doc, Tic!Sides
<1>5. /\ v1' \in [Firsts -> Tic!Doc \cup {Tic!NoDoc}] /\ Tic!Opened \subseteq Tic!Opened' /\ t \in Tic!Opened'
      /\ v1'[t].status = s /\ \A u \in Firsts \ {t} : v1'[u] = v1[u]
    <2>1. /\ v1' \in [Firsts -> Tic!Doc \cup {Tic!NoDoc}] /\ Tic!Opened \subseteq Tic!Opened' /\ t \in Tic!Opened'
          /\ v1'[t] = [v1[t] EXCEPT !.status = s, !.replier = "client"] /\ \A u \in Firsts \ {t} : v1'[u] = v1[u]
        BY <1>0, <1>3, <1>4, TicWritten
    <2> QED BY <2>1, <1>0 DEF Tic!Doc
<1>6. v4' \in [Seconds -> Tic!Request] /\ v4'[p].at = "notify" /\ \A q \in Seconds \ {p} : v4'[q] = v4[q]
    <2>1. /\ v4' \in [Seconds -> Tic!Request] /\ v4'[p] = [v4[p] EXCEPT !.at = "notify"]
          /\ \A q \in Seconds \ {p} : v4'[q] = v4[q]
        BY <1>0, <1>1, TicProceeds
    <2> QED BY <2>1, <1>0 DEF Tic!DocsOK, Tic!Request
<1>7. /\ v5' \in [begun : Nat, heard : SUBSET Firsts] /\ v5'.heard \subseteq v5.heard \cup {t}
      /\ v4[p].crossed => v5'.heard = v5.heard
    BY <1>0, <1>1 DEF Tic!DocsOK, Tic!Request
<1>8. Tic!DocsOK'
    BY <1>5, <1>6, <1>7 DEF Tic!DocsOK
<1>9. \A u \in Tic!Opened \ L : v1[u].status = "customer_reply" => v1'[u].status = "customer_reply"
    BY <1>5, <1>2 DEF Tic!Opened
<1>10. \A u \in v5'.heard : u \in Tic!Opened' /\ (u \in v5.heard \ L \/ v1'[u].status = "customer_reply")
    BY <1>5, <1>7, <1>2 DEF Tic!TicketInv, L
<1>11. \A q \in Seconds : v4'[q].at \in {"message", "save"} => v4'[q] = v4[q]
    BY <1>6
<1>12. \A q \in Seconds : v4'[q].at \in {"message", "save"} =>
              /\ v4[q].at \in {"message", "save"} /\ v4'[q].on = v4[q].on
              /\ v4'[q].kind = "client" /\ ~v4'[q].crossed =>
                       v4[q].kind = "client" /\ ~v4[q].crossed /\ v4'[q].status = v4[q].status /\ v4[q].on \notin L
    BY <1>11 DEF L
<1> HIDE DEF t, L
<1> QED BY <1>5, <1>8, <1>9, <1>10, <1>12, TicKept

\* After a save of the staff nobody is heard on the ticket, and the replies to it are crossed.
LEMMA TicStaffKeeps ==
    ASSUME Tic!TicketInv, NEW p \in Seconds, NEW t \in Firsts, NEW next \in Tic!Request, Tic!StaffSaved(p, t, next),
           next.at \notin {"message", "save"}, Tic!Opened \subseteq Tic!Opened',
           v1' \in [Firsts -> Tic!Doc \cup {Tic!NoDoc}], \A u \in Firsts \ {t} : v1'[u] = v1[u]
    PROVE  Tic!TicketInv'
<1>0. Tic!DocsOK
    BY DEF Tic!TicketInv
<1>1. /\ v4' \in [Seconds -> Tic!Request] /\ v4'[p] = next
      /\ \A q \in Seconds \ {p} : /\ v4[q].on = t => v4'[q] = [v4[q] EXCEPT !.crossed = TRUE]
                                  /\ v4[q].on # t => v4'[q] = v4[q]
      /\ v5' \in [begun : Nat, heard : SUBSET Firsts] /\ v5'.heard = v5.heard \ {t}
    BY <1>0, TicStaffSaves
<1>2. Tic!DocsOK'
    BY <1>1 DEF Tic!DocsOK
<1>3. \A q \in Seconds : v4'[q].at \in {"message", "save"} =>
              /\ v4[q].at \in {"message", "save"} /\ v4'[q].on = v4[q].on
              /\ v4'[q].kind = "client" /\ ~v4'[q].crossed =>
                       v4[q].kind = "client" /\ ~v4[q].crossed /\ v4'[q].status = v4[q].status /\ v4[q].on \notin {t}
    <2> SUFFICES ASSUME NEW q \in Seconds, v4'[q].at \in {"message", "save"}
                 PROVE  /\ v4[q].at \in {"message", "save"} /\ v4'[q].on = v4[q].on
                        /\ v4'[q].kind = "client" /\ ~v4'[q].crossed =>
                              v4[q].kind = "client" /\ ~v4[q].crossed /\ v4'[q].status = v4[q].status /\ v4[q].on \notin {t}
        OBVIOUS
    <2>1. q # p
        BY <1>1
    <2>2. CASE v4[q].on = t
        <3>1. v4'[q] = [v4[q] EXCEPT !.crossed = TRUE] /\ v4[q] \in Tic!Request
            BY <1>1, <2>1, <2>2, <1>0 DEF Tic!DocsOK
        <3> QED BY <3>1 DEF Tic!Request
    <2>3. CASE v4[q].on # t
        BY <1>1, <2>1, <2>3
    <2> QED BY <2>2, <2>3
<1>4. \A u \in Tic!Opened \ {t} : v1[u].status = "customer_reply" => v1'[u].status = "customer_reply"
    BY DEF Tic!Opened
<1>5. \A u \in v5'.heard : u \in Tic!Opened' /\ (u \in v5.heard \ {t} \/ v1'[u].status = "customer_reply")
    BY <1>1 DEF Tic!TicketInv
<1> QED BY <1>2, <1>3, <1>4, <1>5, TicKept

LEMMA TicStaffReplies ==
    ASSUME Tic!TicketInv, NEW p \in Seconds, Tic!SaveReply(p), v4[p].kind # "client"
    PROVE  Tic!TicketInv'
<1> DEFINE t == v4[p].on
           s == Tic!Written(t, v4[p].status, "answered")
<1>0. Tic!DocsOK /\ v4[p].at = "save" /\ v4[p] \in Tic!Request /\ t \in Tic!Opened /\ t \in Firsts /\ v1[t] \in Tic!Doc
    BY DEF Tic!TicketInv, Tic!SaveReply, Tic!OnOpened, Tic!Opened, Tic!DocsOK
<1>1. /\ v1' = [v1 EXCEPT ![t].status = s, ![t].replier = "staff"]
      /\ Tic!StaffSaved(p, t, IF v4[p].kind = "staff" THEN [v4[p] EXCEPT !.at = "notify"] ELSE Tic!Quiet)
    BY DEF Tic!SaveReply, Tic!AnswerStatus
<1>2. s \in Tic!TicketStatuses
    BY <1>0 DEF Tic!Written, Tic!TicketStatuses, Tic!Doc
<1> HIDE DEF s
<1>3. v1' = [v1 EXCEPT ![t] = [v1[t] EXCEPT !.status = s, !.replier = "staff"]]
    BY <1>1, <1>0 DEF Tic!DocsOK
<1>4. [v1[t] EXCEPT !.status = s, !.replier = "staff"] \in Tic!Doc
    BY <1>0, <1>2 DEF Tic!Doc, Tic!Sides
<1>5. /\ v1' \in [Firsts -> Tic!Doc \cup {Tic!NoDoc}] /\ Tic!Opened \subseteq Tic!Opened'
      /\ \A u \in Firsts \ {t} : v1'[u] = v1[u]
    BY <1>0, <1>3, <1>4, TicWritten
<1>6. PICK next \in Tic!Request : Tic!StaffSaved(p, t, next) /\ next.at \notin {"message", "save"}
    <2>1. [v4[p] EXCEPT !.at = "notify"] \in Tic!Request /\ [v4[p] EXCEPT !.at = "notify"].at = "notify"
        BY <1>0 DEF Tic!Request
    <2>2. Tic!Quiet \in Tic!Request /\ Tic!Quiet.at = "idle"
        BY DEF Tic!Quiet, Tic!Request
    <2> QED BY <1>1, <2>1, <2>2
<1> HIDE DEF t
<1> QED BY <1>0, <1>5, <1>6, TicStaffKeeps

LEMMA TicSaveStatus == ASSUME Tic!TicketInv, NEW p \in Seconds, Tic!SaveStatus(p) PROVE Tic!TicketInv'
<1> DEFINE t == v4[p].on
           s == v4[p].status
<1>0. Tic!DocsOK /\ v4[p].at = "save" /\ v4[p] \in Tic!Request /\ t \in Tic!Opened /\ t \in Firsts /\ v1[t] \in Tic!Doc
    BY DEF Tic!TicketInv, Tic!SaveStatus, Tic!OnOpened, Tic!Opened, Tic!DocsOK
<1>1. /\ v1' = IF s = "none" THEN v1 ELSE [v1 EXCEPT ![t].status = s]
      /\ Tic!StaffSaved(p, t, Tic!Quiet)
    BY DEF Tic!SaveStatus
<1>2. Tic!Quiet \in Tic!Request /\ Tic!Quiet.at = "idle"
    BY DEF Tic!Quiet, Tic!Request
<1>3. /\ v1' \in [Firsts -> Tic!Doc \cup {Tic!NoDoc}] /\ Tic!Opened \subseteq Tic!Opened'
      /\ \A u \in Firsts \ {t} : v1'[u] = v1[u]
    <2>1. CASE s = "none"
        BY <2>1, <1>1, <1>0 DEF Tic!DocsOK, Tic!Opened
    <2>2. CASE s # "none"
        <3>1. v1' = [v1 EXCEPT ![t] = [v1[t] EXCEPT !.status = s]]
            BY <1>1, <2>2, <1>0 DEF Tic!DocsOK
        <3>2. [v1[t] EXCEPT !.status = s] \in Tic!Doc
            BY <1>0, <2>2 DEF Tic!Doc, Tic!Request
        <3> QED BY <1>0, <3>1, <3>2, TicWritten
    <2> QED BY <2>1, <2>2
<1> HIDE DEF t
<1> QED BY <1>0, <1>1, <1>2, <1>3, TicStaffKeeps

LEMMA TicStep == Tic!TicketInv /\ [Tic!TicketNext]_Tic!ticketVars => Tic!TicketInv'
<1> SUFFICES ASSUME Tic!TicketInv, [Tic!TicketNext]_Tic!ticketVars PROVE Tic!TicketInv'
    OBVIOUS
<1>1. ASSUME NEW p \in Seconds, Tic!NotifyOpened(p) \/ Tic!NotifyReplied(p) \/ Tic!PostFails(p) PROVE Tic!TicketInv'
    BY <1>1, TicEnds DEF Tic!NotifyOpened, Tic!NotifyReplied, Tic!PostFails
<1>2. CASE Tic!NoteActions \/ UNCHANGED Tic!ticketVars
    <2>1. UNCHANGED <<v1, v4, v5>>
        BY <1>2 DEF Tic!NoteActions, Tic!ticketVars
    <2> QED BY <2>1 DEF Tic!TicketInv, Tic!DocsOK, Tic!Opened, Tic!OnOpened, Tic!StillAsking, Tic!ReplyAsksAnswer
<1>3. ASSUME NEW p \in Seconds, Tic!SaveReply(p) PROVE Tic!TicketInv'
    BY <1>3, TicClientSaves, TicStaffReplies
<1> QED BY <1>1, <1>2, <1>3, TicAskCreate, TicCreateTicket, TicCreateMessage, TicSaveStatus, TicAskReply, TicAskStatus
        DEF Tic!TicketNext

\* A client's reply asks for an answer until the staff, or the client by resolving it, saves the ticket
\* again; a save that crosses the reply is left out (ticket.controller.ts, addReply).
THEOREM BusinessReplyAsksAnswer == BusinessSpec => []ReplyAsksAnswer
<1> DEFINE Inv == scenario = "tickets" => Tic!TicketInv
<1>1. BusinessInit => Inv
    BY TicInit DEF BusinessInit, Senders, Routers, Shelves
<1>2. Inv /\ [BusinessNext]_businessVars => Inv'
    <2> SUFFICES ASSUME Inv, [BusinessNext]_businessVars, scenario' = "tickets" PROVE Tic!TicketInv'
        OBVIOUS
    <2>1. scenario = "tickets" /\ [Tic!TicketNext]_Tic!ticketVars
        BY DEF BusinessNext, BusinessStep, businessVars, shared, Tic!ticketVars, Senders, Routers, Shelves
    <2> QED BY <2>1, TicStep
<1>3. Inv => ReplyAsksAnswer
    BY DEF ReplyAsksAnswer, Tic!TicketInv
<1> QED BY <1>1, <1>2, <1>3, PTL DEF BusinessSpec

-----------------------------------------------------------------------------
(* Accounts: v1 member, v2 profile, v3 role, v4 visit, v5 met.              *)

Members == Firsts \cup Ones
Enrolling == {"register", "signup", "oauth"}
Alone == {"idle", "register", "signup", "oauth", "unrole"}       \* requests of no user

LEMMA AccCounts == \A S : (Acc!IsFiniteSet(S) <=> IsFiniteSet(S)) /\ Acc!Cardinality(S) = Cardinality(S)
<1>1. \A S : Acc!IsFiniteSet(S) <=> IsFiniteSet(S)
    BY DEF Acc!IsFiniteSet, IsFiniteSet
<1>2. \A S : Acc!Cardinality(S) = Cardinality(S)
    BY DEF Acc!Cardinality, Cardinality
<1> QED BY <1>1, <1>2

LEMMA AccNoUser == Acc!NoUser \notin Acc!UserDoc
<1>1. Acc!NoUser.mail = Acc!NoUser.mail /\ "tries" \notin DOMAIN Acc!NoUser
    BY DEF Acc!NoUser
<1>2. \A d \in Acc!UserDoc : "tries" \in DOMAIN d
    BY DEF Acc!UserDoc
<1> QED BY <1>1, <1>2

LEMMA AccSeeded == ASSUME NEW m \in Thirds
                   PROVE  Acc!Seeded(m) \in Acc!UserDoc /\ Acc!Seeded(m).tries = 0 /\ Acc!Seeded(m).lock = "none"
BY DEF Acc!Seeded, Acc!UserDoc

\* The failed sign-ins on their way are no more than the requests.
LEMMA AccUnlocking ==
    ASSUME NEW S \in SUBSET Seconds
    PROVE  /\ IsFiniteSet(S) /\ Acc!Cardinality(S) \in Nat /\ Acc!Cardinality(Seconds) \in Nat
           /\ Acc!Cardinality(S) <= Acc!Cardinality(Seconds)
           /\ S # Seconds => Acc!Cardinality(S) + 1 <= Acc!Cardinality(Seconds)
<1>1. IsFiniteSet(Seconds)
    BY AccountAssumption, AccCounts DEF Acc!AccountBounds
<1>2. IsFiniteSet(S) /\ Cardinality(S) <= Cardinality(Seconds) /\ (Cardinality(S) = Cardinality(Seconds) => S = Seconds)
    BY <1>1, FS_Subset
<1>3. Cardinality(S) \in Nat /\ Cardinality(Seconds) \in Nat
    BY <1>1, <1>2, FS_CardinalityType
<1>4. Acc!Cardinality(S) = Cardinality(S) /\ Acc!Cardinality(Seconds) = Cardinality(Seconds)
    BY AccCounts
<1> QED BY <1>2, <1>3, <1>4

LEMMA AccIdle == Acc!Idle \in Acc!Visit /\ Acc!Idle.at = "idle" /\ Acc!Idle.who = Nobody
BY DEF Acc!Idle, Acc!Visit

LEMMA AccInit == Acc!AccountInit => Acc!AccountInv
<1> SUFFICES ASSUME Acc!AccountInit PROVE Acc!AccountInv
    OBVIOUS
<1>1. PICK u \in Members, m \in Thirds :
        /\ v1 = [x \in Members |-> IF x = u THEN Acc!Seeded(m) ELSE Acc!NoUser]
        /\ v2 = [x \in Members |-> IF x = u THEN "open" ELSE "none"]
        /\ v4 = [v \in Seconds |-> Acc!Idle]
        /\ v5 = [begun |-> 0, used |-> {u}, kept |-> {}]
    BY DEF Acc!AccountInit, Members
<1>2. Acc!DocsOK
    BY <1>1, AccSeeded, AccIdle DEF Acc!DocsOK, Members
<1>3. Acc!IdsOnce /\ Acc!ProfileKept /\ Acc!RequestsOK
    BY <1>1, AccIdle DEF Acc!IdsOnce, Acc!ProfileKept, Acc!RequestsOK, Acc!Exists, Members
<1>4. Acc!TriesLeft
    <2> SUFFICES ASSUME NEW x \in Members, Acc!Exists(x)
                 PROVE  v1[x].tries + Acc!Cardinality(Acc!Unlocking(x)) <= MaxAttempts - 2 + Acc!Cardinality(Seconds)
        BY DEF Acc!TriesLeft, Members
    <2>1. v1[x].tries = 0
        BY <1>1, AccSeeded DEF Acc!Exists
    <2>2. /\ Acc!Cardinality(Acc!Unlocking(x)) \in Nat /\ Acc!Cardinality(Seconds) \in Nat
          /\ Acc!Cardinality(Acc!Unlocking(x)) <= Acc!Cardinality(Seconds)
        BY AccUnlocking DEF Acc!Unlocking
    <2>3. MaxAttempts \in Nat /\ MaxAttempts >= 2
        BY AccountAssumption DEF Acc!AccountBounds
    <2> QED BY <2>1, <2>2, <2>3
<1> QED BY <1>2, <1>3, <1>4 DEF Acc!AccountInv

\* No id comes back, and no profile goes while its user is found.
LEMMA AccIds ==
    ASSUME Acc!AccountInv, v5.used \subseteq v5'.used, v5.kept \subseteq v5'.kept,
           \A u \in Members : Acc!Exists(u)' => /\ Acc!Exists(u) \/ u \in v5'.used
                                                /\ v2'[u] # "none" \/ u \in v5'.kept \/ (Acc!Exists(u) /\ v2[u] = "none"),
           \A u \in Members : v2'[u] # "none" => v2[u] # "none" \/ u \in v5'.used,
           \A v \in Seconds : v4'[v].who # Nobody => v4'[v].who \in v5'.used,
           \A v \in Seconds : v4'[v].who = Nobody => v4'[v].at \in Alone,
           \A v \in Seconds : v4'[v].at = "remove" /\ v4'[v].seen = Acc!NoUser => v1'[v4'[v].who] = Acc!NoUser
    PROVE  Acc!IdsOnce' /\ Acc!ProfileKept'
<1>1. Acc!ProfileKept'
    BY DEF Acc!AccountInv, Acc!ProfileKept, Members
<1>2. Acc!IdsOnce'
    <2>1. \A u \in Members : Acc!Exists(u)' \/ v2'[u] # "none" => u \in v5'.used
        BY DEF Acc!AccountInv, Acc!IdsOnce, Members
    <2> QED BY <2>1 DEF Acc!IdsOnce, Acc!Exists, Members, Alone
<1> QED BY <1>1, <1>2

\* Failures counted only by those there were leave the bound where it is.
LEMMA AccTries ==
    ASSUME Acc!AccountInv,
           \A u \in Members : Acc!Exists(u)' /\ v1'[u].lock = "none" =>
              \/ v1'[u].tries = 0
              \/ Acc!Exists(u) /\ v1[u].lock = "none" /\ v1'[u].tries = v1[u].tries,
           \A v \in Seconds : v4'[v].at = "failed" => v4'[v] = v4[v],
           \A v \in Seconds : v4'[v].at \in Enrolling => v4'[v] = v4[v] \/ v4'[v].mail \in Thirds
    PROVE  Acc!RequestsOK' /\ Acc!TriesLeft'
<1>1. Acc!RequestsOK'
    BY DEF Acc!AccountInv, Acc!RequestsOK, Enrolling
<1>2. Acc!TriesLeft'
    <2> SUFFICES ASSUME NEW u \in Members, Acc!Exists(u)', v1'[u].lock = "none"
                 PROVE  v1'[u].tries + Acc!Cardinality(Acc!Unlocking(u)') <= MaxAttempts - 2 + Acc!Cardinality(Seconds)
        BY DEF Acc!TriesLeft, Members
    <2>0. MaxAttempts \in Nat /\ MaxAttempts >= 2
        BY AccountAssumption DEF Acc!AccountBounds
    <2>1. Acc!Unlocking(u) \in SUBSET Seconds /\ Acc!Unlocking(u)' \subseteq Acc!Unlocking(u)
        BY DEF Acc!Unlocking
    <2>2. Acc!Cardinality(Acc!Unlocking(u)') <= Acc!Cardinality(Acc!Unlocking(u))
        <3>1. IsFiniteSet(Acc!Unlocking(u))
            BY <2>1, AccUnlocking
        <3>2. Cardinality(Acc!Unlocking(u)') <= Cardinality(Acc!Unlocking(u))
            BY <2>1, <3>1, FS_Subset
        <3> QED BY <3>2, AccCounts
    <2>3. /\ Acc!Cardinality(Acc!Unlocking(u)') \in Nat /\ Acc!Cardinality(Acc!Unlocking(u)) \in Nat
          /\ Acc!Cardinality(Seconds) \in Nat /\ Acc!Cardinality(Acc!Unlocking(u)) <= Acc!Cardinality(Seconds)
        BY <2>1, AccUnlocking
    <2>4. CASE v1'[u].tries = 0
        BY <2>0, <2>2, <2>3, <2>4
    <2>5. CASE Acc!Exists(u) /\ v1[u].lock = "none" /\ v1'[u].tries = v1[u].tries
        <3>1. v1[u].tries + Acc!Cardinality(Acc!Unlocking(u)) <= MaxAttempts - 2 + Acc!Cardinality(Seconds)
            BY <2>5 DEF Acc!AccountInv, Acc!TriesLeft, Members
        <3>2. v1[u].tries \in Nat
            BY <2>5 DEF Acc!AccountInv, Acc!DocsOK, Acc!Exists, Acc!UserDoc, Members
        <3> QED BY <2>5, <3>1, <3>2, <2>0, <2>2, <2>3
    <2> QED BY <2>4, <2>5
<1> QED BY <1>1, <1>2

\* A step that makes no user, takes no profile and counts no failure.
LEMMA AccCalm ==
    ASSUME Acc!AccountInv, v1' \in [Members -> Acc!UserDoc \cup {Acc!NoUser}],
           v2' \in [Members -> {"none", "open", "complete"}], v4' \in [Seconds -> Acc!Visit],
           v5' \in [begun : Nat, used : SUBSET Members, kept : SUBSET Members], v5'.used = v5.used, v5'.kept = v5.kept,
           \A u \in Members : Acc!Exists(u)' =>
              /\ Acc!Exists(u)
              /\ v1'[u].lock = "none" => v1'[u].tries = 0 \/ (v1[u].lock = "none" /\ v1'[u].tries = v1[u].tries),
           \A u \in Members : /\ v2'[u] # "none" => v2[u] # "none" \/ u \in v5.used
                              /\ v2'[u] # "none" \/ v2[u] = "none",
           \A v \in Seconds : \/ v4'[v] = v4[v]
                              \/ v4'[v] = Acc!Idle
                              \/ (v4'[v].at = "token" /\ v4'[v].who = v4[v].who /\ v4[v].who # Nobody)
    PROVE  Acc!AccountInv'
<1>1. Acc!DocsOK'
    BY DEF Acc!DocsOK, Members
<1>2. \A v \in Seconds : v4'[v].who # Nobody => v4'[v].who \in v5'.used
    BY AccIdle DEF Acc!AccountInv, Acc!IdsOnce
<1>3. /\ \A v \in Seconds : v4'[v].who = Nobody => v4'[v].at \in Alone
      /\ \A v \in Seconds : v4'[v].at = "remove" /\ v4'[v].seen = Acc!NoUser => v1'[v4'[v].who] = Acc!NoUser
    <2>1. ASSUME NEW v \in Seconds, v4'[v].who = Nobody PROVE v4'[v].at \in Alone
        <3>1. CASE v4'[v].at = "token" /\ v4'[v].who = v4[v].who /\ v4[v].who # Nobody
            BY <2>1, <3>1
        <3>2. CASE v4'[v] = Acc!Idle
            BY <3>2, AccIdle DEF Alone
        <3>3. CASE v4'[v] = v4[v]
            BY <2>1, <3>3 DEF Acc!AccountInv, Acc!IdsOnce, Alone
        <3> QED BY <3>1, <3>2, <3>3
    <2>2. ASSUME NEW v \in Seconds, v4'[v].at = "remove", v4'[v].seen = Acc!NoUser PROVE v1'[v4'[v].who] = Acc!NoUser
        <3>1. v4'[v] = v4[v]
            BY <2>2, AccIdle
        <3>2. ~Acc!Exists(v4[v].who) /\ v4[v].who \in Members
            BY <2>2, <3>1 DEF Acc!AccountInv, Acc!IdsOnce, Acc!DocsOK, Acc!Visit, Members
        <3> QED BY <3>1, <3>2 DEF Acc!Exists
    <2> QED BY <2>1, <2>2
<1>4. Acc!IdsOnce' /\ Acc!ProfileKept'
    <2>1. \A u \in Members : Acc!Exists(u)' => /\ Acc!Exists(u) \/ u \in v5'.used
                                               /\ v2'[u] # "none" \/ u \in v5'.kept \/ (Acc!Exists(u) /\ v2[u] = "none")
        OBVIOUS
    <2>2. \A u \in Members : v2'[u] # "none" => v2[u] # "none" \/ u \in v5'.used
        OBVIOUS
    <2> QED BY <2>1, <2>2, <1>2, <1>3, AccIds
<1>5. \A u \in Members : Acc!Exists(u)' /\ v1'[u].lock = "none" =>
         v1'[u].tries = 0 \/ (Acc!Exists(u) /\ v1[u].lock = "none" /\ v1'[u].tries = v1[u].tries)
    OBVIOUS
<1>6. \A v \in Seconds : v4'[v].at = "failed" \/ v4'[v].at \in Enrolling => v4'[v] = v4[v]
    BY AccIdle DEF Enrolling
<1>7. Acc!RequestsOK' /\ Acc!TriesLeft'
    BY <1>5, <1>6, AccTries
<1> QED BY <1>1, <1>4, <1>7 DEF Acc!AccountInv

LEMMA AccPuts ==
    ASSUME Acc!DocsOK, NEW u \in Members, NEW rec, Acc!Exists(u) => rec \in Acc!UserDoc, Acc!Put(u, rec)
    PROVE  /\ v1' \in [Members -> Acc!UserDoc \cup {Acc!NoUser}]
           /\ Acc!Exists(u) => v1'[u] = rec
           /\ \A x \in Members : /\ Acc!Exists(x)' <=> Acc!Exists(x)
                                 /\ x # u \/ ~Acc!Exists(u) => v1'[x] = v1[x]
<1>1. CASE Acc!Exists(u)
    <2>1. v1' = [v1 EXCEPT ![u] = rec] /\ rec \in Acc!UserDoc /\ rec # Acc!NoUser
        BY <1>1, AccNoUser DEF Acc!Put
    <2>2. v1 \in [Members -> Acc!UserDoc \cup {Acc!NoUser}]
        BY DEF Acc!DocsOK, Members
    <2> QED BY <1>1, <2>1, <2>2 DEF Acc!Exists
<1>2. CASE ~Acc!Exists(u)
    BY <1>2 DEF Acc!Put, Acc!Exists, Acc!DocsOK, Members
<1> QED BY <1>1, <1>2

LEMMA AccLeaves ==
    ASSUME Acc!DocsOK, NEW v \in Seconds, Acc!Finish(v) \/ (Acc!Goto(v, "token") /\ v4[v].who # Nobody)
    PROVE  /\ v4' \in [Seconds -> Acc!Visit]
           /\ \A w \in Seconds : \/ v4'[w] = v4[w]
                                  \/ v4'[w] = Acc!Idle
                                  \/ (v4'[w].at = "token" /\ v4'[w].who = v4[w].who /\ v4[w].who # Nobody)
           /\ v4'[v].at \in {"idle", "token"} /\ \A w \in Seconds \ {v} : v4'[w] = v4[w]
<1>1. CASE Acc!Finish(v)
    <2>1. v4' = [v4 EXCEPT ![v] = Acc!Idle] /\ v4 \in [Seconds -> Acc!Visit]
        BY <1>1 DEF Acc!Finish, Acc!DocsOK
    <2>2. v4' \in [Seconds -> Acc!Visit] /\ v4'[v] = Acc!Idle /\ \A w \in Seconds \ {v} : v4'[w] = v4[w]
        BY <2>1, AccIdle
    <2>3. \A w \in Seconds : v4'[w] = v4[w] \/ v4'[w] = Acc!Idle
        BY <2>2
    <2>4. v4'[v].at = "idle"
        BY <2>2, AccIdle
    <2> QED BY <2>2, <2>3, <2>4
<1>2. CASE Acc!Goto(v, "token") /\ v4[v].who # Nobody
    <2>1. /\ [v4[v] EXCEPT !.at = "token"] \in Acc!Visit /\ [v4[v] EXCEPT !.at = "token"].at = "token"
          /\ [v4[v] EXCEPT !.at = "token"].who = v4[v].who
        BY DEF Acc!DocsOK, Acc!Visit
    <2>2. v4' = [v4 EXCEPT ![v] = [v4[v] EXCEPT !.at = "token"]]
        BY <1>2 DEF Acc!Goto, Acc!DocsOK
    <2>3. v4' \in [Seconds -> Acc!Visit] /\ v4'[v] = [v4[v] EXCEPT !.at = "token"] /\ \A w \in Seconds \ {v} : v4'[w] = v4[w]
        BY <2>1, <2>2 DEF Acc!DocsOK
    <2> QED BY <1>2, <2>1, <2>3
<1> QED BY <1>1, <1>2

LEMMA AccBegins ==
    ASSUME Acc!AccountInv, NEW v \in Seconds, NEW at, NEW u \in Members \cup {Nobody}, NEW m \in Thirds \cup {"none"},
           [at |-> at, who |-> u, mail |-> m, seen |-> Acc!NoUser] \in Acc!Visit, Acc!Begin(v, at, u, m)
    PROVE  /\ v4' \in [Seconds -> Acc!Visit] /\ v4[v] = Acc!Idle /\ \A w \in Seconds \ {v} : v4'[w] = v4[w]
           /\ v4'[v].at = at /\ v4'[v].who = u /\ v4'[v].mail = m
           /\ u # Nobody => v4'[v].seen = v1[u]
           /\ v5' \in [begun : Nat, used : SUBSET Members, kept : SUBSET Members]
           /\ v5'.used = v5.used /\ v5'.kept = v5.kept
<1> DEFINE r == [at |-> at, who |-> u, mail |-> m, seen |-> IF u = Nobody THEN Acc!NoUser ELSE v1[u]]
<1>1. r \in Acc!Visit
    BY DEF Acc!AccountInv, Acc!DocsOK, Acc!Visit, Members
<1>2. v4' = [v4 EXCEPT ![v] = r] /\ v4[v] = Acc!Idle
    BY DEF Acc!Begin
<1>3. \A n \in Nat : /\ [v5 EXCEPT !.begun = n] \in [begun : Nat, used : SUBSET Members, kept : SUBSET Members]
                     /\ [v5 EXCEPT !.begun = n].used = v5.used /\ [v5 EXCEPT !.begun = n].kept = v5.kept
    BY DEF Acc!AccountInv, Acc!DocsOK, Members
<1>4. v5.begun + 1 \in Nat /\ v5' = [v5 EXCEPT !.begun = v5.begun + 1]
    BY DEF Acc!AccountInv, Acc!DocsOK, Acc!Begin
<1>5. v4' \in [Seconds -> Acc!Visit] /\ v4'[v] = r /\ \A w \in Seconds \ {v} : v4'[w] = v4[w]
    BY <1>1, <1>2 DEF Acc!AccountInv, Acc!DocsOK
<1> QED BY <1>2, <1>3, <1>4, <1>5


\* A request that has only looked.
LEMMA AccAsks ==
    ASSUME Acc!AccountInv, NEW v \in Seconds, NEW at, NEW u \in Members \cup {Nobody}, NEW m \in Thirds \cup {"none"},
           [at |-> at, who |-> u, mail |-> m, seen |-> Acc!NoUser] \in Acc!Visit, Acc!Begin(v, at, u, m),
           UNCHANGED <<v1, v2>>, at # "failed", u # Nobody => u \in v5.used, u = Nobody => at \in Alone,
           at \in Enrolling => m \in Thirds
    PROVE  Acc!AccountInv'
<1>1. /\ v4' \in [Seconds -> Acc!Visit] /\ v4[v] = Acc!Idle /\ \A w \in Seconds \ {v} : v4'[w] = v4[w]
      /\ v4'[v].at = at /\ v4'[v].who = u /\ v4'[v].mail = m
      /\ u # Nobody => v4'[v].seen = v1[u]
      /\ v5' \in [begun : Nat, used : SUBSET Members, kept : SUBSET Members]
      /\ v5'.used = v5.used /\ v5'.kept = v5.kept
    BY AccBegins
<1>2. Acc!DocsOK'
    BY <1>1 DEF Acc!AccountInv, Acc!DocsOK, Members
<1>3. \A x \in Members : (Acc!Exists(x)' <=> Acc!Exists(x)) /\ v1'[x] = v1[x] /\ v2'[x] = v2[x]
    BY DEF Acc!Exists
<1>4. \A w \in Seconds : v4'[w].who # Nobody => v4'[w].who \in v5'.used
    BY <1>1 DEF Acc!AccountInv, Acc!IdsOnce
<1>5. /\ \A w \in Seconds : v4'[w].who = Nobody => v4'[w].at \in Alone
      /\ \A w \in Seconds : v4'[w].at = "remove" /\ v4'[w].seen = Acc!NoUser => v1'[v4'[w].who] = Acc!NoUser
    <2>1. \A w \in Seconds : v4'[w].who = Nobody => v4'[w].at \in Alone
        BY <1>1 DEF Acc!AccountInv, Acc!IdsOnce, Alone
    <2>2. \A w \in Seconds : v4'[w].at = "remove" /\ v4'[w].seen = Acc!NoUser => v1'[v4'[w].who] = Acc!NoUser
        BY <1>1 DEF Acc!AccountInv, Acc!IdsOnce, Acc!Exists, Alone
    <2> QED BY <2>1, <2>2
<1>6. Acc!IdsOnce' /\ Acc!ProfileKept'
    <2>1. \A x \in Members : /\ Acc!Exists(x)' => /\ Acc!Exists(x) \/ x \in v5'.used
                                                  /\ v2'[x] # "none" \/ x \in v5'.kept \/ (Acc!Exists(x) /\ v2[x] = "none")
                             /\ v2'[x] # "none" => v2[x] # "none" \/ x \in v5'.used
        BY <1>3
    <2> QED BY <2>1, <1>1, <1>4, <1>5, AccIds
<1>7. Acc!RequestsOK' /\ Acc!TriesLeft'
    <2>1. \A x \in Members : Acc!Exists(x)' /\ v1'[x].lock = "none" =>
             v1'[x].tries = 0 \/ (Acc!Exists(x) /\ v1[x].lock = "none" /\ v1'[x].tries = v1[x].tries)
        BY <1>3
    <2>2. /\ \A w \in Seconds : v4'[w].at = "failed" => v4'[w] = v4[w]
          /\ \A w \in Seconds : v4'[w].at \in Enrolling => v4'[w] = v4[w] \/ v4'[w].mail \in Thirds
        BY <1>1
    <2> QED BY <2>1, <2>2, AccTries
<1> QED BY <1>2, <1>6, <1>7 DEF Acc!AccountInv

\* Of a user there is, or a profile, the id is used.
LEMMA AccUsed ==
    ASSUME Acc!AccountInv
    PROVE  /\ \A u \in Members : Acc!Exists(u) \/ v2[u] # "none" => u \in v5.used
           /\ \A v \in Seconds : v4[v].who \in Members \cup {Nobody} /\ v4[v].mail \in Thirds \cup {"none"}
           /\ Nobody \notin Members
BY AccountAssumption DEF Acc!AccountInv, Acc!IdsOnce, Acc!DocsOK, Acc!Visit, Members, Acc!AccountNulls

\* A visit whose user goes, and one of a user alone, is a Visit.
LEMMA AccVisits ==
    ASSUME NEW u \in Members \cup {Nobody}, NEW m \in Thirds \cup {"none"},
           NEW at \in {"register", "signup", "adopt", "oauth", "link", "token", "failed", "passed", "assign",
                       "unrole", "delete", "destroy", "remove"}
    PROVE  [at |-> at, who |-> u, mail |-> m, seen |-> Acc!NoUser] \in Acc!Visit
BY DEF Acc!Visit, Members

LEMMA AccAskActions ==
    ASSUME Acc!AccountInv, NEW v \in Seconds,
           \/ \E m \in Thirds : Acc!AskRegister(v, m) \/ Acc!AskSignUp(v, m) \/ Acc!AskOAuth(v, m)
           \/ Acc!AskDeleteRole(v)
           \/ \E u \in Members : \/ Acc!Refresh(v, u) \/ Acc!AskAssign(v, u) \/ Acc!AskDeleteUser(v, u)
                                 \/ Acc!AskDeleteClient(v, u) \/ Acc!AskRemoveClient(v, u)
    PROVE  Acc!AccountInv'
<1> DEFINE Asked == \E at \in {"register", "signup", "adopt", "oauth", "link", "token", "passed", "assign", "unrole",
                              "delete", "destroy", "remove"}, u \in Members \cup {Nobody}, m \in Thirds \cup {"none"} :
                       Acc!Begin(v, at, u, m) /\ (u # Nobody => u \in v5.used) /\ (u = Nobody => at \in Alone)
                       /\ (at \in Enrolling => m \in Thirds)
<1>1. UNCHANGED <<v1, v2>>
    BY DEF Acc!AskRegister, Acc!AskSignUp, Acc!AskOAuth, Acc!AskDeleteRole, Acc!Refresh, Acc!AskAssign,
           Acc!AskDeleteUser, Acc!AskDeleteClient, Acc!AskRemoveClient
<1>2. ASSUME NEW m \in Thirds, Acc!AskRegister(v, m) \/ Acc!AskSignUp(v, m) \/ Acc!AskOAuth(v, m) PROVE Asked
    <2>1. \A u \in Acc!Holder(m) : u \in Members /\ u \in v5.used /\ u # Nobody
        BY AccUsed DEF Acc!Holder, Acc!Found, Members
    <2>2. CASE Acc!AskRegister(v, m)
        BY <2>2 DEF Acc!AskRegister, Alone, Enrolling
    <2>3. CASE Acc!AskSignUp(v, m)
        BY <2>1, <2>3 DEF Acc!AskSignUp, Alone, Enrolling
    <2>4. CASE Acc!AskOAuth(v, m)
        BY <2>1, <2>4 DEF Acc!AskOAuth, Alone, Enrolling
    <2> QED BY <1>2, <2>2, <2>3, <2>4
<1>3. ASSUME Acc!AskDeleteRole(v) PROVE Acc!AccountInv'
    <2>1. Acc!Begin(v, "unrole", Nobody, "none") /\ "unrole" \in Alone /\ "unrole" \notin Enrolling /\ "unrole" # "failed"
        BY <1>3 DEF Acc!AskDeleteRole, Alone, Enrolling
    <2>2. [at |-> "unrole", who |-> Nobody, mail |-> "none", seen |-> Acc!NoUser] \in Acc!Visit
        BY AccVisits
    <2> QED BY <1>1, <2>1, <2>2, AccAsks
<1>4. ASSUME NEW u \in Members, \/ Acc!Refresh(v, u) \/ Acc!AskAssign(v, u) \/ Acc!AskDeleteUser(v, u)
                                \/ Acc!AskDeleteClient(v, u) \/ Acc!AskRemoveClient(v, u)
      PROVE Asked
    <2>1. (Acc!Exists(u) \/ v2[u] # "none" => u \in v5.used) /\ u # Nobody
        BY AccUsed
    <2>2. CASE Acc!Refresh(v, u)
        BY <2>1, <2>2 DEF Acc!Refresh, Acc!Found, Enrolling
    <2>3. CASE Acc!AskAssign(v, u)
        BY <2>1, <2>3 DEF Acc!AskAssign, Enrolling
    <2>4. CASE Acc!AskDeleteUser(v, u)
        BY <2>1, <2>4 DEF Acc!AskDeleteUser, Enrolling
    <2>5. CASE Acc!AskDeleteClient(v, u) \/ Acc!AskRemoveClient(v, u)
        BY <2>1, <2>5 DEF Acc!AskDeleteClient, Acc!AskRemoveClient, Enrolling
    <2> QED BY <1>4, <2>2, <2>3, <2>4, <2>5
<1>5. Asked \/ Acc!AskDeleteRole(v)
    BY <1>2, <1>4
<1>6. ASSUME NEW at \in {"register", "signup", "adopt", "oauth", "link", "token", "passed", "assign", "unrole",
                         "delete", "destroy", "remove"}, NEW u \in Members \cup {Nobody}, NEW m \in Thirds \cup {"none"},
             Acc!Begin(v, at, u, m), u # Nobody => u \in v5.used, u = Nobody => at \in Alone,
           at \in Enrolling => m \in Thirds
      PROVE  Acc!AccountInv'
    <2>1. [at |-> at, who |-> u, mail |-> m, seen |-> Acc!NoUser] \in Acc!Visit /\ at # "failed"
        BY AccVisits
    <2> QED BY <1>1, <1>6, <2>1, AccAsks
<1> HIDE DEF Asked
<1> QED BY <1>3, <1>5, <1>6 DEF Asked

\* One user written, who counts no failure by it.
LEMMA AccWrites ==
    ASSUME Acc!AccountInv, NEW u \in Members, NEW rec, Acc!Put(u, rec),
           Acc!Exists(u) => /\ rec \in Acc!UserDoc
                            /\ rec.lock = "none" => rec.tries = 0 \/ (v1[u].lock = "none" /\ rec.tries = v1[u].tries),
           UNCHANGED v2, v4' \in [Seconds -> Acc!Visit],
           \A v \in Seconds : \/ v4'[v] = v4[v]
                              \/ v4'[v] = Acc!Idle
                              \/ (v4'[v].at = "token" /\ v4'[v].who = v4[v].who /\ v4[v].who # Nobody),
           v5' \in [begun : Nat, used : SUBSET Members, kept : SUBSET Members], v5'.used = v5.used, v5'.kept = v5.kept
    PROVE  Acc!AccountInv'
<1>1. /\ v1' \in [Members -> Acc!UserDoc \cup {Acc!NoUser}]
      /\ Acc!Exists(u) => v1'[u] = rec
      /\ \A x \in Members : /\ Acc!Exists(x)' <=> Acc!Exists(x)
                            /\ x # u \/ ~Acc!Exists(u) => v1'[x] = v1[x]
    BY AccPuts DEF Acc!AccountInv
<1>2. v2' \in [Members -> {"none", "open", "complete"}]
    BY DEF Acc!AccountInv, Acc!DocsOK, Members
<1>3. \A x \in Members : Acc!Exists(x)' =>
         /\ Acc!Exists(x)
         /\ v1'[x].lock = "none" => v1'[x].tries = 0 \/ (v1[x].lock = "none" /\ v1'[x].tries = v1[x].tries)
    <2> SUFFICES ASSUME NEW x \in Members, Acc!Exists(x)'
                 PROVE  /\ Acc!Exists(x)
                        /\ v1'[x].lock = "none" => v1'[x].tries = 0 \/ (v1[x].lock = "none" /\ v1'[x].tries = v1[x].tries)
        OBVIOUS
    <2>1. CASE x = u
        BY <1>1, <2>1
    <2>2. CASE x # u
        BY <1>1, <2>2
    <2> QED BY <2>1, <2>2
<1> QED BY <1>1, <1>2, <1>3, AccCalm

\* A step between requests, or in one that ends with it.
LEMMA AccOnce ==
    ASSUME Acc!AccountInv, Acc!Once
    PROVE  v5' \in [begun : Nat, used : SUBSET Members, kept : SUBSET Members] /\ v5'.used = v5.used /\ v5'.kept = v5.kept
<1>1. \A n \in Nat : /\ [v5 EXCEPT !.begun = n] \in [begun : Nat, used : SUBSET Members, kept : SUBSET Members]
                     /\ [v5 EXCEPT !.begun = n].used = v5.used /\ [v5 EXCEPT !.begun = n].kept = v5.kept
    BY DEF Acc!AccountInv, Acc!DocsOK, Members
<1>2. v5.begun + 1 \in Nat /\ v5' = [v5 EXCEPT !.begun = v5.begun + 1]
    BY DEF Acc!AccountInv, Acc!DocsOK, Acc!Once
<1> QED BY <1>1, <1>2

LEMMA AccStays ==
    ASSUME Acc!AccountInv
    PROVE  /\ UNCHANGED v5 => v5' \in [begun : Nat, used : SUBSET Members, kept : SUBSET Members] /\ v5'.used = v5.used /\ v5'.kept = v5.kept
           /\ UNCHANGED v4 => v4' \in [Seconds -> Acc!Visit]
           /\ v1 \in [Members -> Acc!UserDoc \cup {Acc!NoUser}]
           /\ v2 \in [Members -> {"none", "open", "complete"}] /\ v4 \in [Seconds -> Acc!Visit]
           /\ \A v \in Seconds : v4[v].at \notin Alone => v4[v].who \in Members /\ v4[v].who # Nobody
<1>1. \A v \in Seconds : v4[v].at \notin Alone => v4[v].who \in Members /\ v4[v].who # Nobody
    BY DEF Acc!AccountInv, Acc!DocsOK, Acc!IdsOnce, Acc!Visit, Members, Alone
<1> QED BY <1>1 DEF Acc!AccountInv, Acc!DocsOK, Members

\* Requests that write the user they read, and his own and an administrator's writes.
LEMMA AccVisitWrites ==
    ASSUME Acc!AccountInv, NEW v \in Seconds,
           Acc!CommitLinked(v) \/ Acc!LoginPassed(v) \/ Acc!SaveToken(v) \/ Acc!Assign(v) \/ Acc!DeleteUser(v)
    PROVE  Acc!AccountInv'
<1> DEFINE u == v4[v].who
<1>1. u \in Members /\ u # Nobody /\ UNCHANGED <<v2, v5>>
    BY AccStays DEF Alone, Acc!CommitLinked, Acc!LoginPassed, Acc!SaveToken, Acc!Assign, Acc!DeleteUser
<1>2. Acc!Finish(v) \/ (Acc!Goto(v, "token") /\ u # Nobody)
    BY <1>1 DEF Acc!CommitLinked, Acc!LoginPassed, Acc!SaveToken, Acc!Assign, Acc!DeleteUser
<1>3. /\ v4' \in [Seconds -> Acc!Visit]
      /\ \A w \in Seconds : \/ v4'[w] = v4[w]
                            \/ v4'[w] = Acc!Idle
                            \/ (v4'[w].at = "token" /\ v4'[w].who = v4[w].who /\ v4[w].who # Nobody)
    BY <1>2, AccLeaves DEF Acc!AccountInv
<1>4. Acc!Exists(u) => v1[u] \in Acc!UserDoc
    BY <1>1, AccStays DEF Acc!Exists
<1>5. \E rec : /\ Acc!Put(u, rec)
               /\ Acc!Exists(u) => /\ rec \in Acc!UserDoc
                                   /\ rec.lock = "none" => rec.tries = 0 \/ (v1[u].lock = "none" /\ rec.tries = v1[u].tries)
    <2> DEFINE Good(rec) == Acc!Exists(u) => /\ rec \in Acc!UserDoc
                                             /\ rec.lock = "none" => rec.tries = 0 \/ (v1[u].lock = "none" /\ rec.tries = v1[u].tries)
    <2>1. /\ Good([v1[u] EXCEPT !.keyed = TRUE, !.session = TRUE]) /\ Good([v1[u] EXCEPT !.tries = 0, !.lock = "none"])
          /\ Good([v1[u] EXCEPT !.session = TRUE]) /\ Good([v1[u] EXCEPT !.assigned = TRUE])
          /\ Good([v1[u] EXCEPT !.active = FALSE]) /\ Good(v1[u])
        BY <1>4 DEF Acc!UserDoc
    <2>2. UNCHANGED v1 => Acc!Put(u, v1[u])
        BY AccStays, <1>1 DEF Acc!Put
    <2>3. \/ Acc!Put(u, [v1[u] EXCEPT !.keyed = TRUE, !.session = TRUE])
          \/ Acc!Put(u, [v1[u] EXCEPT !.tries = 0, !.lock = "none"])
          \/ Acc!Put(u, [v1[u] EXCEPT !.session = TRUE])
          \/ Acc!Put(u, [v1[u] EXCEPT !.assigned = TRUE])
          \/ Acc!Put(u, [v1[u] EXCEPT !.active = FALSE])
          \/ Acc!Put(u, v1[u])
        BY <2>2 DEF Acc!CommitLinked, Acc!LoginPassed, Acc!SaveToken, Acc!Assign, Acc!DeleteUser
    <2> HIDE DEF Good
    <2>4. \E rec : Acc!Put(u, rec) /\ Good(rec)
        BY <2>1, <2>3, Zenon
    <2> QED BY <2>4 DEF Good
<1>6. PICK rec : /\ Acc!Put(u, rec)
                 /\ Acc!Exists(u) => /\ rec \in Acc!UserDoc
                                     /\ rec.lock = "none" => rec.tries = 0 \/ (v1[u].lock = "none" /\ rec.tries = v1[u].tries)
    BY <1>5
<1>7. v5' \in [begun : Nat, used : SUBSET Members, kept : SUBSET Members] /\ v5'.used = v5.used /\ v5'.kept = v5.kept
    BY <1>1, AccStays
<1> HIDE DEF u
<1> QED BY <1>1, <1>3, <1>6, <1>7, AccWrites

LEMMA AccDirectWrites ==
    ASSUME Acc!AccountInv, \/ Acc!OwnWrite
                           \/ \E u \in Members : Acc!LockExpires(u) \/ Acc!ResetExpires(u) \/ Acc!UpdateUser(u)
    PROVE  Acc!AccountInv'
<1>1. PICK u \in Members :
         /\ \/ Acc!Once /\ (\/ Acc!Logout(u) \/ Acc!ForgotPassword(u) \/ Acc!ResetPassword(u) \/ Acc!VerifyEmail(u)
                            \/ (\E m \in Thirds : Acc!UpdateMe(u, m)) \/ Acc!UpdateUser(u))
            \/ UNCHANGED v5 /\ (Acc!LockExpires(u) \/ Acc!ResetExpires(u))
         /\ UNCHANGED <<v2, v4>>
    BY DEF Acc!OwnWrite, Acc!LockExpires, Acc!ResetExpires, Acc!UpdateUser, Members
<1>2. Acc!Exists(u) => v1[u] \in Acc!UserDoc
    BY AccStays DEF Acc!Exists
<1> DEFINE Good(rec) == Acc!Exists(u) => /\ rec \in Acc!UserDoc
                                         /\ rec.lock = "none" => rec.tries = 0 \/ (v1[u].lock = "none" /\ rec.tries = v1[u].tries)
<1>a. /\ Good([v1[u] EXCEPT !.session = FALSE]) /\ Good([v1[u] EXCEPT !.reset = TRUE])
      /\ Good([v1[u] EXCEPT !.reset = FALSE, !.secret = TRUE]) /\ Good([v1[u] EXCEPT !.verified = TRUE])
    BY <1>2 DEF Acc!UserDoc
<1>b. Good([v1[u] EXCEPT !.lock = "expired"]) /\ Good([v1[u] EXCEPT !.reset = FALSE])
    BY <1>2 DEF Acc!UserDoc
<1>c. \A m \in Thirds : Good([v1[u] EXCEPT !.mail = m])
    BY <1>2 DEF Acc!UserDoc
<1>d. \A m \in Thirds, a, b \in BOOLEAN : Good([v1[u] EXCEPT !.mail = m, !.chief = a, !.active = b])
    BY <1>2 DEF Acc!UserDoc
<1>4. \/ Acc!Put(u, [v1[u] EXCEPT !.session = FALSE]) \/ Acc!Put(u, [v1[u] EXCEPT !.reset = TRUE])
      \/ Acc!Put(u, [v1[u] EXCEPT !.reset = FALSE, !.secret = TRUE]) \/ Acc!Put(u, [v1[u] EXCEPT !.verified = TRUE])
      \/ Acc!Put(u, [v1[u] EXCEPT !.lock = "expired"]) \/ Acc!Put(u, [v1[u] EXCEPT !.reset = FALSE])
      \/ \E m \in Thirds : Acc!Put(u, [v1[u] EXCEPT !.mail = m])
      \/ \E m \in Thirds, a, b \in BOOLEAN : Acc!Put(u, [v1[u] EXCEPT !.mail = m, !.chief = a, !.active = b])
    BY <1>1 DEF Acc!Logout, Acc!ForgotPassword, Acc!ResetPassword, Acc!VerifyEmail, Acc!UpdateMe, Acc!UpdateUser,
                Acc!LockExpires, Acc!ResetExpires
<1> HIDE DEF Good
<1>5. PICK rec : Acc!Put(u, rec) /\ Good(rec)
    BY <1>a, <1>b, <1>c, <1>d, <1>4, Zenon
<1>6. v5' \in [begun : Nat, used : SUBSET Members, kept : SUBSET Members] /\ v5'.used = v5.used /\ v5'.kept = v5.kept
    BY <1>1, AccOnce, AccStays
<1>7. v4' \in [Seconds -> Acc!Visit] /\ v4' = v4 /\ v2' = v2
    BY <1>1, AccStays
<1>8. Acc!Exists(u) => /\ rec \in Acc!UserDoc
                       /\ rec.lock = "none" => rec.tries = 0 \/ (v1[u].lock = "none" /\ rec.tries = v1[u].tries)
    BY <1>5 DEF Good
<1> QED BY <1>5, <1>6, <1>7, <1>8, AccWrites

\* Steps that write no user, or take one away, and leave profiles or complete them.
LEMMA AccOthers ==
    ASSUME Acc!AccountInv,
           \/ \E v \in Seconds : Acc!CommitAdopted(v) \/ Acc!DeleteRole(v) \/ Acc!DestroyUser(v)
           \/ \E u \in Members : Acc!CompleteProfile(u)
           \/ Acc!ArchiveRole
           \/ UNCHANGED Acc!accountVars
    PROVE  Acc!AccountInv'
<1> DEFINE Kept == v5' \in [begun : Nat, used : SUBSET Members, kept : SUBSET Members] /\ v5'.used = v5.used /\ v5'.kept = v5.kept
           Calm == \A v \in Seconds : \/ v4'[v] = v4[v]
                                      \/ v4'[v] = Acc!Idle
                                      \/ (v4'[v].at = "token" /\ v4'[v].who = v4[v].who /\ v4[v].who # Nobody)
<1>1. \A u \in Members : UNCHANGED v1 => (Acc!Exists(u)' <=> Acc!Exists(u))
    BY DEF Acc!Exists
<1>2. /\ v1 \in [Members -> Acc!UserDoc \cup {Acc!NoUser}]
      /\ v2 \in [Members -> {"none", "open", "complete"}] /\ v4 \in [Seconds -> Acc!Visit]
      /\ UNCHANGED v5 => Kept
    BY AccStays
<1>3. ASSUME NEW v \in Seconds, Acc!CommitAdopted(v) PROVE Acc!AccountInv'
    <2>1. v4[v].who \in Members /\ v4[v].who # Nobody /\ v4[v].who \in v5.used
        BY <1>3, AccStays, AccUsed DEF Acc!CommitAdopted, Alone, Acc!AccountInv, Acc!IdsOnce
    <2>2. v4' \in [Seconds -> Acc!Visit] /\ Calm
        BY <1>3, <2>1, AccLeaves DEF Acc!CommitAdopted, Acc!AccountInv
    <2>3. /\ v2' \in [Members -> {"none", "open", "complete"}]
          /\ \A u \in Members : /\ v2'[u] # "none" => v2[u] # "none" \/ u \in v5.used
                                /\ v2'[u] # "none" \/ v2[u] = "none"
        BY <1>2, <1>3, <2>1 DEF Acc!CommitAdopted
    <2>4. UNCHANGED v1 /\ Kept
        BY <1>2, <1>3 DEF Acc!CommitAdopted
    <2> QED BY <1>1, <1>2, <2>2, <2>3, <2>4, AccCalm
<1>4. ASSUME NEW v \in Seconds, Acc!DeleteRole(v) \/ Acc!DestroyUser(v) PROVE Acc!AccountInv'
    <2>1. v4' \in [Seconds -> Acc!Visit] /\ Calm
        BY <1>4, AccLeaves DEF Acc!DeleteRole, Acc!DestroyUser, Acc!AccountInv
    <2>2. UNCHANGED v2 /\ Kept
        BY <1>2, <1>4 DEF Acc!DeleteRole, Acc!DestroyUser
    <2>3. /\ v1' \in [Members -> Acc!UserDoc \cup {Acc!NoUser}]
          /\ \A u \in Members : v1'[u] = v1[u] \/ v1'[u] = Acc!NoUser
        BY <1>2, <1>4 DEF Acc!DeleteRole, Acc!DestroyUser
    <2>4. \A u \in Members : Acc!Exists(u)' => Acc!Exists(u) /\ v1'[u] = v1[u]
        BY <2>3 DEF Acc!Exists
    <2> QED BY <1>2, <2>1, <2>2, <2>3, <2>4, AccCalm
<1>5. ASSUME NEW u \in Members, Acc!CompleteProfile(u) PROVE Acc!AccountInv'
    <2>1. Kept
        BY <1>5, AccOnce DEF Acc!CompleteProfile
    <2>2. /\ v2' \in [Members -> {"none", "open", "complete"}]
          /\ \A x \in Members : (v2'[x] # "none") <=> (v2[x] # "none")
        BY <1>2, <1>5 DEF Acc!CompleteProfile
    <2>3. UNCHANGED <<v1, v4>>
        BY <1>5 DEF Acc!CompleteProfile
    <2> QED BY <1>1, <1>2, <2>1, <2>2, <2>3, AccCalm
<1>6. CASE Acc!ArchiveRole \/ UNCHANGED Acc!accountVars
    <2>1. UNCHANGED <<v1, v2, v4>>
        BY <1>6 DEF Acc!ArchiveRole, Acc!accountVars
    <2>2. Kept
        BY <1>2, <1>6, AccOnce DEF Acc!ArchiveRole, Acc!accountVars
    <2> QED BY <1>1, <1>2, <2>1, <2>2, AccCalm
<1> HIDE DEF Kept, Calm
<1> QED BY <1>3, <1>4, <1>5, <1>6

\* A deletion for good takes the user it found, or leaves him without a profile.
LEMMA AccRemoveClient ==
    ASSUME Acc!AccountInv, NEW v \in Seconds, Acc!RemoveClient(v)
    PROVE  Acc!AccountInv'
<1> DEFINE u == v4[v].who
           seen == v4[v].seen
           both == seen # Acc!NoUser /\ seen.active
<1>1. u \in Members /\ u # Nobody /\ v4[v].at = "remove"
    BY AccStays DEF Acc!RemoveClient, Alone
<1>2. /\ v4' \in [Seconds -> Acc!Visit] /\ \A w \in Seconds : v4'[w] = v4[w] \/ v4'[w] = Acc!Idle
    BY AccIdle DEF Acc!RemoveClient, Acc!Finish, Acc!AccountInv, Acc!DocsOK
<1>3. CASE UNCHANGED <<v1, v2, v5>>
    BY <1>2, <1>3, AccStays, AccCalm DEF Acc!Exists
<1>4. CASE /\ v2' = [v2 EXCEPT ![u] = "none"]
           /\ v1' = IF both THEN [v1 EXCEPT ![u] = Acc!NoUser] ELSE v1
           /\ v5' = IF seen # Acc!NoUser /\ ~both THEN [v5 EXCEPT !.kept = @ \cup {u}] ELSE v5
    <2>1. /\ v5' \in [begun : Nat, used : SUBSET Members, kept : SUBSET Members]
          /\ v5'.used = v5.used /\ v5.kept \subseteq v5'.kept
          /\ seen # Acc!NoUser /\ ~both => u \in v5'.kept
        <3>1. v5.kept \cup {u} \in SUBSET Members
            BY <1>1 DEF Acc!AccountInv, Acc!DocsOK, Members
        <3>2. /\ [v5 EXCEPT !.kept = v5.kept \cup {u}] \in [begun : Nat, used : SUBSET Members, kept : SUBSET Members]
              /\ [v5 EXCEPT !.kept = v5.kept \cup {u}].used = v5.used
              /\ [v5 EXCEPT !.kept = v5.kept \cup {u}].kept = v5.kept \cup {u}
            BY <3>1 DEF Acc!AccountInv, Acc!DocsOK, Members
        <3> HIDE DEF u, seen, both
        <3> QED BY <1>4, <3>2 DEF Acc!AccountInv, Acc!DocsOK, Members
    <2>2. seen = Acc!NoUser => ~Acc!Exists(u)
        BY <1>1 DEF Acc!AccountInv, Acc!IdsOnce
    <2>3. /\ v1' \in [Members -> Acc!UserDoc \cup {Acc!NoUser}]
          /\ \A x \in Members : Acc!Exists(x)' => /\ Acc!Exists(x) /\ v1'[x] = v1[x]
                                                  /\ x = u => ~both
        <3> HIDE DEF u, seen, both
        <3> QED BY <1>1, <1>4, AccStays DEF Acc!Exists
    <2>4. /\ v2' \in [Members -> {"none", "open", "complete"}] /\ \A x \in Members : x # u => v2'[x] = v2[x]
          /\ v2'[u] = "none"
        <3> HIDE DEF u, seen, both
        <3> QED BY <1>1, <1>4, AccStays
    <2> HIDE DEF u, seen, both
    <2>5. Acc!DocsOK'
        BY <1>2, <2>1, <2>3, <2>4 DEF Acc!DocsOK, Members
    <2>6. Acc!IdsOnce' /\ Acc!ProfileKept'
        <3>1. \A x \in Members : Acc!Exists(x)' => /\ Acc!Exists(x) \/ x \in v5'.used
                                                   /\ v2'[x] # "none" \/ x \in v5'.kept \/ (Acc!Exists(x) /\ v2[x] = "none")
            BY <2>1, <2>2, <2>3, <2>4
        <3>2. \A x \in Members : v2'[x] # "none" => v2[x] # "none" \/ x \in v5'.used
            BY <2>4
        <3>3. /\ \A w \in Seconds : v4'[w].who # Nobody => v4'[w].who \in v5'.used
              /\ \A w \in Seconds : v4'[w].who = Nobody => v4'[w].at \in Alone
            BY <1>2, <2>1, AccIdle DEF Acc!AccountInv, Acc!IdsOnce, Alone
        <3>4. \A w \in Seconds : v4'[w].at = "remove" /\ v4'[w].seen = Acc!NoUser => v1'[v4'[w].who] = Acc!NoUser
            <4> SUFFICES ASSUME NEW w \in Seconds, v4'[w].at = "remove", v4'[w].seen = Acc!NoUser
                         PROVE  v1'[v4'[w].who] = Acc!NoUser
                OBVIOUS
            <4>1. v4'[w] = v4[w]
                BY <1>2, AccIdle
            <4>2. ~Acc!Exists(v4[w].who) /\ v4[w].who \in Members
                BY <4>1, AccStays DEF Acc!AccountInv, Acc!IdsOnce, Alone
            <4> QED BY <2>3, <4>1, <4>2 DEF Acc!Exists
        <3> QED BY <2>1, <3>1, <3>2, <3>3, <3>4, AccIds
    <2>7. Acc!RequestsOK' /\ Acc!TriesLeft'
        <3>1. \A w \in Seconds : v4'[w].at = "failed" \/ v4'[w].at \in Enrolling => v4'[w] = v4[w]
            BY <1>2, AccIdle DEF Enrolling
        <3> QED BY <2>3, <3>1, AccTries
    <2> QED BY <2>5, <2>6, <2>7 DEF Acc!AccountInv
<1> QED BY <1>3, <1>4 DEF Acc!RemoveClient

\* A new user has an id that no request has seen, and a profile when he has one.
LEMMA AccCommitNew ==
    ASSUME Acc!AccountInv, NEW v \in Seconds, Acc!CommitNew(v)
    PROVE  Acc!AccountInv'
<1> DEFINE m == v4[v].mail
           social == v4[v].at = "oauth"
<1>1. CASE Acc!Finish(v) /\ UNCHANGED <<v1, v2, v5>>
    <2>1. v4' \in [Seconds -> Acc!Visit] /\ \A w \in Seconds : v4'[w] = v4[w] \/ v4'[w] = Acc!Idle
        BY <1>1, AccIdle DEF Acc!Finish, Acc!AccountInv, Acc!DocsOK
    <2> QED BY <1>1, <2>1, AccStays, AccCalm DEF Acc!Exists
<1>2. ASSUME NEW u \in Members \ v5.used, NEW rec,
             rec = [Acc!Seeded(m) EXCEPT !.keyed = social, !.secret = ~social, !.chief = FALSE,
                                         !.verified = social, !.session = v4[v].at # "signup"],
             v1' = [v1 EXCEPT ![u] = rec], v2' = [v2 EXCEPT ![u] = "open"],
             v5' = [v5 EXCEPT !.used = @ \cup {u}],
             v4' = [v4 EXCEPT ![v] = IF @.at = "signup" THEN [@ EXCEPT !.at = "token", !.who = u] ELSE Acc!Idle],
             v4[v].mail \in Thirds
      PROVE  Acc!AccountInv'
    <2>1. rec \in Acc!UserDoc /\ rec.tries = 0 /\ rec # Acc!NoUser
        <3>1. Acc!Seeded(m) \in Acc!UserDoc /\ Acc!Seeded(m).tries = 0
            BY <1>2, AccSeeded
        <3>0. \A d \in Acc!UserDoc, k, c, f, n \in BOOLEAN :
                 [d EXCEPT !.keyed = k, !.secret = c, !.chief = FALSE, !.verified = f, !.session = n] \in Acc!UserDoc
            BY DEF Acc!UserDoc
        <3>3. \A d \in Acc!UserDoc, k, c, f, n \in BOOLEAN :
                 [d EXCEPT !.keyed = k, !.secret = c, !.chief = FALSE, !.verified = f, !.session = n].tries = d.tries
            BY DEF Acc!UserDoc
        <3>2. social \in BOOLEAN /\ (~social) \in BOOLEAN /\ (v4[v].at # "signup") \in BOOLEAN
            OBVIOUS
        <3> HIDE DEF m, social
        <3>4. rec \in Acc!UserDoc
            BY <1>2, <3>0, <3>1, <3>2, Zenon
        <3>5. rec.tries = Acc!Seeded(m).tries
            BY <1>2, <3>1, <3>2, <3>3
        <3> QED BY <3>1, <3>4, <3>5, AccNoUser
    <2>2. /\ v1' \in [Members -> Acc!UserDoc \cup {Acc!NoUser}]
          /\ v1'[u] = rec /\ \A x \in Members : x # u => v1'[x] = v1[x]
          /\ v2' \in [Members -> {"none", "open", "complete"}]
          /\ v2'[u] = "open" /\ \A x \in Members : x # u => v2'[x] = v2[x]
        BY <1>2, <2>1, AccStays
    <2>3. /\ v5' \in [begun : Nat, used : SUBSET Members, kept : SUBSET Members]
          /\ v5'.used = v5.used \cup {u} /\ v5'.kept = v5.kept
        <3>1. v5.used \cup {u} \in SUBSET Members /\ v5 \in [begun : Nat, used : SUBSET Members, kept : SUBSET Members]
            BY <1>2 DEF Acc!AccountInv, Acc!DocsOK, Members
        <3> QED BY <1>2, <3>1
    <2>4. /\ v4' \in [Seconds -> Acc!Visit] /\ \A w \in Seconds \ {v} : v4'[w] = v4[w]
          /\ \/ v4'[v] = Acc!Idle
             \/ v4'[v].at = "token" /\ v4'[v].who = u
        <3>1. [v4[v] EXCEPT !.at = "token", !.who = u] \in Acc!Visit
            <4>1. v4[v] \in Acc!Visit /\ u \in Firsts \cup Ones \cup {Nobody}
                BY AccStays DEF Members
            <4> QED BY <4>1 DEF Acc!Visit
        <3>2. [v4[v] EXCEPT !.at = "token", !.who = u].at = "token" /\ [v4[v] EXCEPT !.at = "token", !.who = u].who = u
            BY AccStays DEF Acc!Visit
        <3>3. /\ v4' = [v4 EXCEPT ![v] = IF v4[v].at = "signup" THEN [v4[v] EXCEPT !.at = "token", !.who = u] ELSE Acc!Idle]
              /\ v4 \in [Seconds -> Acc!Visit]
            BY <1>2, AccStays
        <3> QED BY <3>1, <3>2, <3>3, AccIdle
    <2>5. Acc!DocsOK'
        BY <2>2, <2>3, <2>4 DEF Acc!DocsOK, Members
    <2>6. Acc!IdsOnce' /\ Acc!ProfileKept'
        <3>1. \A x \in Members : Acc!Exists(x)' => /\ Acc!Exists(x) \/ x \in v5'.used
                                                   /\ v2'[x] # "none" \/ x \in v5'.kept \/ (Acc!Exists(x) /\ v2[x] = "none")
            BY <2>2, <2>3 DEF Acc!Exists, Acc!AccountInv, Acc!ProfileKept, Members
        <3>2. \A x \in Members : v2'[x] # "none" => v2[x] # "none" \/ x \in v5'.used
            BY <2>2, <2>3
        <3>3. /\ \A w \in Seconds : v4'[w].who # Nobody => v4'[w].who \in v5'.used
              /\ \A w \in Seconds : v4'[w].who = Nobody => v4'[w].at \in Alone
            <4>1. u # Nobody
                BY AccUsed
            <4> QED BY <2>3, <2>4, <4>1, AccIdle DEF Acc!AccountInv, Acc!IdsOnce, Alone
        <3>4. \A w \in Seconds : v4'[w].at = "remove" /\ v4'[w].seen = Acc!NoUser => v1'[v4'[w].who] = Acc!NoUser
            <4> SUFFICES ASSUME NEW w \in Seconds, v4'[w].at = "remove", v4'[w].seen = Acc!NoUser
                         PROVE  v1'[v4'[w].who] = Acc!NoUser
                OBVIOUS
            <4>1. v4'[w] = v4[w]
                BY <2>4, AccIdle
            <4>2. ~Acc!Exists(v4[w].who) /\ v4[w].who \in Members /\ v4[w].who \in v5.used
                BY <4>1, AccStays DEF Acc!AccountInv, Acc!IdsOnce, Alone
            <4> QED BY <1>2, <2>2, <4>1, <4>2 DEF Acc!Exists
        <3> QED BY <2>3, <3>1, <3>2, <3>3, <3>4, AccIds
    <2>7. Acc!RequestsOK' /\ Acc!TriesLeft'
        <3>1. \A x \in Members : Acc!Exists(x)' /\ v1'[x].lock = "none" =>
                 v1'[x].tries = 0 \/ (Acc!Exists(x) /\ v1[x].lock = "none" /\ v1'[x].tries = v1[x].tries)
            BY <2>1, <2>2 DEF Acc!Exists
        <3>2. \A w \in Seconds : v4'[w].at = "failed" \/ v4'[w].at \in Enrolling => v4'[w] = v4[w]
            BY <2>4, AccIdle DEF Enrolling
        <3> QED BY <3>1, <3>2, AccTries
    <2> QED BY <2>5, <2>6, <2>7 DEF Acc!AccountInv
<1>3. ASSUME ~(Acc!Finish(v) /\ UNCHANGED <<v1, v2, v5>>) PROVE Acc!AccountInv'
    <2>1. PICK u \in Members \ v5.used :
              /\ v1' = [v1 EXCEPT ![u] = [Acc!Seeded(m) EXCEPT !.keyed = social, !.secret = ~social, !.chief = FALSE,
                                         !.verified = social, !.session = v4[v].at # "signup"]]
              /\ v2' = [v2 EXCEPT ![u] = "open"]
              /\ v5' = [v5 EXCEPT !.used = @ \cup {u}]
              /\ v4' = [v4 EXCEPT ![v] = IF @.at = "signup" THEN [@ EXCEPT !.at = "token", !.who = u] ELSE Acc!Idle]
        BY <1>3 DEF Acc!CommitNew, Acc!Enrol, Members
    <2>2. v4[v].mail \in Thirds
        BY DEF Acc!CommitNew, Acc!AccountInv, Acc!RequestsOK
    <2> QED BY <1>2, <2>1, <2>2
<1> QED BY <1>1, <1>3

\* Failures with those still to be counted stay within the bound, and the requests keep what they saw.
LEMMA AccFailures ==
    ASSUME Acc!AccountInv, NEW v \in Seconds, \A w \in Seconds \ {v} : v4'[w] = v4[w],
           v4' \in [Seconds -> Acc!Visit], v2' = v2, v5'.used = v5.used, v5'.kept = v5.kept,
           v1' \in [Members -> Acc!UserDoc \cup {Acc!NoUser}],
           v5' \in [begun : Nat, used : SUBSET Members, kept : SUBSET Members],
           \A x \in Members : Acc!Exists(x)' <=> Acc!Exists(x),
           \/ v4'[v] = Acc!Idle
           \/ /\ v4'[v].at = "failed" /\ v4'[v].who \in v5.used /\ v4'[v].who # Nobody
              /\ v4'[v].seen # Acc!NoUser /\ v4'[v].seen.lock # "held",
           \A x \in Members : Acc!Exists(x)' /\ v1'[x].lock = "none" =>
               v1'[x].tries + Acc!Cardinality(Acc!Unlocking(x)') <= MaxAttempts - 2 + Acc!Cardinality(Seconds)
    PROVE  Acc!AccountInv'
<1>1. Acc!DocsOK'
    BY AccStays DEF Acc!DocsOK, Members
<1>2. \A w \in Seconds : v4'[w] = v4[w] \/ w = v
    OBVIOUS
<1>3. Acc!RequestsOK' /\ Acc!TriesLeft'
    <2>1. Acc!TriesLeft'
        BY DEF Acc!TriesLeft, Members
    <2>2. Acc!RequestsOK'
        BY <1>2, AccIdle DEF Acc!AccountInv, Acc!RequestsOK
    <2> QED BY <2>1, <2>2
<1>4. Acc!IdsOnce' /\ Acc!ProfileKept'
    <2>1. \A x \in Members : Acc!Exists(x)' => /\ Acc!Exists(x) \/ x \in v5'.used
                                               /\ v2'[x] # "none" \/ x \in v5'.kept \/ (Acc!Exists(x) /\ v2[x] = "none")
        OBVIOUS
    <2>2. \A x \in Members : v2'[x] # "none" => v2[x] # "none" \/ x \in v5'.used
        OBVIOUS
    <2>3. /\ \A w \in Seconds : v4'[w].who # Nobody => v4'[w].who \in v5'.used
          /\ \A w \in Seconds : v4'[w].who = Nobody => v4'[w].at \in Alone
        BY <1>2, AccIdle DEF Acc!AccountInv, Acc!IdsOnce, Alone
    <2>4. \A w \in Seconds : v4'[w].at = "remove" /\ v4'[w].seen = Acc!NoUser => v1'[v4'[w].who] = Acc!NoUser
        <3> SUFFICES ASSUME NEW w \in Seconds, v4'[w].at = "remove", v4'[w].seen = Acc!NoUser
                     PROVE  v1'[v4'[w].who] = Acc!NoUser
            OBVIOUS
        <3>1. v4'[w] = v4[w]
            BY <1>2, AccIdle
        <3>2. ~Acc!Exists(v4[w].who) /\ v4[w].who \in Members
            BY <3>1, AccStays DEF Acc!AccountInv, Acc!IdsOnce, Alone
        <3> QED BY <3>1, <3>2 DEF Acc!Exists
    <2> QED BY <2>1, <2>2, <2>3, <2>4, AccIds
<1> QED BY <1>1, <1>3, <1>4 DEF Acc!AccountInv

LEMMA AccLogin ==
    ASSUME Acc!AccountInv, NEW v \in Seconds, NEW u \in Members, Acc!Login(v, u)
    PROVE  Acc!AccountInv'
<1>1. Acc!Found(u) /\ v1[u].lock # "held" /\ UNCHANGED <<v1, v2>> /\ u # Nobody /\ u \in v5.used
    BY AccUsed DEF Acc!Login, Acc!Found
<1>2. ASSUME NEW at \in {"passed", "token"}, Acc!Begin(v, at, u, "none") PROVE Acc!AccountInv'
    <2>1. [at |-> at, who |-> u, mail |-> "none", seen |-> Acc!NoUser] \in Acc!Visit /\ at # "failed" /\ at \notin Enrolling
        BY AccVisits DEF Enrolling
    <2> QED BY <1>1, <1>2, <2>1, AccAsks
<1>3. ASSUME Acc!Begin(v, "failed", u, "none") PROVE Acc!AccountInv'
    <2>1. [at |-> "failed", who |-> u, mail |-> "none", seen |-> Acc!NoUser] \in Acc!Visit
        BY AccVisits
    <2>2. /\ v4' \in [Seconds -> Acc!Visit] /\ v4[v] = Acc!Idle /\ \A w \in Seconds \ {v} : v4'[w] = v4[w]
          /\ v4'[v].at = "failed" /\ v4'[v].who = u /\ v4'[v].seen = v1[u]
          /\ v5' \in [begun : Nat, used : SUBSET Members, kept : SUBSET Members]
          /\ v5'.used = v5.used /\ v5'.kept = v5.kept
        BY <1>1, <1>3, <2>1, AccBegins
    <2>3. \A x \in Members : (Acc!Exists(x)' <=> Acc!Exists(x)) /\ v1'[x] = v1[x]
        BY <1>1 DEF Acc!Exists
    <2>4. v1[u] # Acc!NoUser
        BY <1>1 DEF Acc!Found, Acc!Exists
    <2>5. ASSUME NEW x \in Members, Acc!Exists(x), v1[x].lock = "none"
          PROVE  v1[x].tries + Acc!Cardinality(Acc!Unlocking(x)') <= MaxAttempts - 2 + Acc!Cardinality(Seconds)
        <3>1. v1[x].tries + Acc!Cardinality(Acc!Unlocking(x)) <= MaxAttempts - 2 + Acc!Cardinality(Seconds)
            BY <2>5 DEF Acc!AccountInv, Acc!TriesLeft, Members
        <3>2. v1[x].tries \in Nat /\ MaxAttempts \in Nat
            BY <2>5, AccStays, AccountAssumption DEF Acc!Exists, Acc!UserDoc, Acc!AccountBounds
        <3>3. /\ Acc!Cardinality(Acc!Unlocking(x)') \in Nat /\ Acc!Cardinality(Seconds) \in Nat
              /\ Acc!Cardinality(Acc!Unlocking(x)') <= Acc!Cardinality(Seconds)
            <4>1. Acc!Unlocking(x)' \in SUBSET Seconds
                BY DEF Acc!Unlocking
            <4> QED BY <4>1, AccUnlocking
        <3>4. CASE x = u /\ v1[x].tries <= MaxAttempts - 2
            BY <3>2, <3>3, <3>4
        <3>5. CASE x # u \/ ~(v1[x].tries <= MaxAttempts - 2)
            <4>1. v \notin Acc!Unlocking(x)'
                BY <2>2, <3>5 DEF Acc!Unlocking
            <4>2. v \notin Acc!Unlocking(x)
                BY <2>2, AccIdle DEF Acc!Unlocking
            <4>3. \A w \in Seconds : w \in Acc!Unlocking(x)' <=> w \in Acc!Unlocking(x)
                BY <2>2, <4>1, <4>2 DEF Acc!Unlocking
            <4>4. Acc!Unlocking(x)' = Acc!Unlocking(x)
                BY <4>3 DEF Acc!Unlocking
            <4> QED BY <3>1, <4>4
        <3> QED BY <3>4, <3>5
    <2> QED BY <1>1, <2>2, <2>3, <2>4, <2>5, AccStays, AccFailures
<1> QED BY <1>2, <1>3 DEF Acc!Login

LEMMA AccLoginFailed ==
    ASSUME Acc!AccountInv, NEW v \in Seconds, Acc!LoginFailed(v)
    PROVE  Acc!AccountInv'
<1> DEFINE u == v4[v].who
           seen == v4[v].seen
           rec == Acc!FailureCounted(u, seen)
<1>1. /\ u \in Members /\ u # Nobody /\ v4[v].at = "failed" /\ UNCHANGED <<v2, v5>>
      /\ seen \in Acc!UserDoc /\ seen.lock # "held"
    BY AccStays DEF Acc!LoginFailed, Alone, Acc!AccountInv, Acc!RequestsOK, Acc!Visit
<1>2. /\ v4' \in [Seconds -> Acc!Visit] /\ v4'[v] = Acc!Idle
      /\ \A w \in Seconds \ {v} : v4'[w] = v4[w]
    BY AccIdle, AccStays DEF Acc!LoginFailed, Acc!Finish
<1>3. CASE ~Acc!Exists(u)
    <2>1. v1' = v1
        BY <1>3 DEF Acc!LoginFailed
    <2>2. \A w \in Seconds : v4'[w] = v4[w] \/ v4'[w] = Acc!Idle
        BY <1>2
    <2> HIDE DEF u, seen, rec
    <2> QED BY <1>1, <1>2, <2>1, <2>2, AccStays, AccCalm DEF Acc!Exists
<1>4. ASSUME Acc!Exists(u) PROVE Acc!AccountInv'
    <2>1. v1[u] \in Acc!UserDoc /\ Acc!Put(u, rec)
        BY <1>1, <1>4, AccStays DEF Acc!Exists, Acc!LoginFailed
    <2>2. /\ rec \in Acc!UserDoc
          /\ \/ seen.lock = "expired" /\ rec.tries = 1
             \/ seen.lock = "none" /\ seen.tries + 1 >= MaxAttempts /\ rec.lock = "held"
             \/ /\ seen.lock = "none" /\ ~(seen.tries + 1 >= MaxAttempts) /\ rec.lock = v1[u].lock
                /\ rec.tries = v1[u].tries + 1
        <3>1. v1[u].tries + 1 \in Nat /\ v1[u].lock \in {"none", "held", "expired"}
            BY <2>1 DEF Acc!UserDoc
        <3>2. \A n \in Nat, l \in {"none", "held", "expired"} :
                 /\ [v1[u] EXCEPT !.tries = n, !.lock = l] \in Acc!UserDoc
                 /\ [v1[u] EXCEPT !.tries = n, !.lock = l].tries = n /\ [v1[u] EXCEPT !.tries = n, !.lock = l].lock = l
            BY <2>1 DEF Acc!UserDoc
        <3>3. seen.lock \in {"none", "expired"}
            BY <1>1 DEF Acc!UserDoc
        <3>4. CASE seen.lock = "expired"
            <4>1. rec = [v1[u] EXCEPT !.tries = 1, !.lock = "none"]
                BY <3>4 DEF Acc!FailureCounted
            <4> HIDE DEF rec, u, seen
            <4> QED BY <3>2, <3>4, <4>1
        <3>5. CASE seen.lock = "none" /\ seen.tries + 1 >= MaxAttempts
            <4>1. rec = [v1[u] EXCEPT !.tries = v1[u].tries + 1, !.lock = "held"]
                BY <3>5 DEF Acc!FailureCounted, Acc!Locks
            <4> HIDE DEF rec, u, seen
            <4>2. rec \in Acc!UserDoc /\ rec.lock = "held"
                BY <3>1, <3>2, <4>1, Zenon
            <4> QED BY <3>5, <4>2
        <3>6. CASE seen.lock = "none" /\ ~(seen.tries + 1 >= MaxAttempts)
            <4>1. rec = [v1[u] EXCEPT !.tries = v1[u].tries + 1, !.lock = v1[u].lock]
                BY <3>6 DEF Acc!FailureCounted, Acc!Locks
            <4> HIDE DEF rec, u, seen
            <4>2. ASSUME NEW n \in Nat, NEW l \in {"none", "held", "expired"}, rec = [v1[u] EXCEPT !.tries = n, !.lock = l]
                  PROVE  rec \in Acc!UserDoc /\ rec.tries = n /\ rec.lock = l
                BY <3>2, <4>2, Zenon
            <4>3. rec \in Acc!UserDoc /\ rec.tries = v1[u].tries + 1 /\ rec.lock = v1[u].lock
                BY <3>1, <4>1, <4>2, Zenon
            <4> QED BY <3>6, <4>3
        <3> QED BY <3>3, <3>4, <3>5, <3>6
    <2> HIDE DEF rec
    <2>3. /\ v1' \in [Members -> Acc!UserDoc \cup {Acc!NoUser}]
          /\ v1'[u] = rec
          /\ \A x \in Members : (Acc!Exists(x)' <=> Acc!Exists(x)) /\ (x # u => v1'[x] = v1[x])
        <3> HIDE DEF u
        <3> QED BY <1>1, <1>4, <2>1, <2>2, AccPuts DEF Acc!AccountInv
    <2>4. MaxAttempts \in Nat /\ MaxAttempts >= 2 /\ v1[u].tries \in Nat /\ seen.tries \in Nat
        BY <1>1, <2>1, AccountAssumption DEF Acc!UserDoc, Acc!AccountBounds
    <2>5. ASSUME NEW x \in Members, Acc!Exists(x), v1'[x].lock = "none"
          PROVE  v1'[x].tries + Acc!Cardinality(Acc!Unlocking(x)') <= MaxAttempts - 2 + Acc!Cardinality(Seconds)
        <3>0. v \notin Acc!Unlocking(x)'
            BY <1>2, AccIdle DEF Acc!Unlocking
        <3>1. /\ Acc!Unlocking(x) \in SUBSET Seconds /\ Acc!Unlocking(x)' \in SUBSET Seconds
              /\ Acc!Unlocking(x)' = Acc!Unlocking(x) \ {v}
            <4>1. \A w \in Seconds : w \in Acc!Unlocking(x)' <=> w \in Acc!Unlocking(x) /\ w # v
                BY <1>2, <3>0 DEF Acc!Unlocking
            <4>2. Acc!Unlocking(x) \in SUBSET Seconds /\ Acc!Unlocking(x)' \in SUBSET Seconds
                BY DEF Acc!Unlocking
            <4> QED BY <4>1, <4>2
        <3>2. /\ Acc!Cardinality(Acc!Unlocking(x)) \in Nat /\ Acc!Cardinality(Acc!Unlocking(x)') \in Nat
              /\ Acc!Cardinality(Seconds) \in Nat /\ IsFiniteSet(Acc!Unlocking(x))
              /\ Acc!Cardinality(Acc!Unlocking(x)) <= Acc!Cardinality(Seconds)
              /\ Acc!Cardinality(Acc!Unlocking(x)') + 1 <= Acc!Cardinality(Seconds)
            <4>1. Acc!Unlocking(x)' # Seconds
                BY <3>0
            <4> QED BY <3>1, <4>1, AccUnlocking
        <3>3. /\ Acc!Cardinality(Acc!Unlocking(x)') <= Acc!Cardinality(Acc!Unlocking(x))
              /\ v \in Acc!Unlocking(x) => Acc!Cardinality(Acc!Unlocking(x)') = Acc!Cardinality(Acc!Unlocking(x)) - 1
            <4>1. Cardinality(Acc!Unlocking(x)') = IF v \in Acc!Unlocking(x) THEN Cardinality(Acc!Unlocking(x)) - 1
                                                   ELSE Cardinality(Acc!Unlocking(x))
                BY <3>1, <3>2, FS_RemoveElement
            <4>2. Acc!Cardinality(Acc!Unlocking(x)') = Cardinality(Acc!Unlocking(x)') /\ Acc!Cardinality(Acc!Unlocking(x)) = Cardinality(Acc!Unlocking(x))
                BY AccCounts
            <4> QED BY <3>2, <4>1, <4>2
        <3>4. v1[x].lock = "none" => v1[x].tries + Acc!Cardinality(Acc!Unlocking(x)) <= MaxAttempts - 2 + Acc!Cardinality(Seconds)
            BY <2>5 DEF Acc!AccountInv, Acc!TriesLeft, Members
        <3>5. CASE x # u
            <4>1. v1[x].tries \in Nat
                BY <2>5, AccStays DEF Acc!Exists, Acc!UserDoc
            <4> QED BY <2>3, <2>4, <2>5, <3>2, <3>3, <3>4, <3>5, <4>1
        <3>6. CASE x = u /\ seen.lock = "expired" /\ rec.tries = 1
            BY <2>3, <2>4, <3>2, <3>6
        <3>7. CASE x = u /\ seen.lock = "none" /\ ~(seen.tries + 1 >= MaxAttempts) /\ rec.lock = v1[u].lock /\ rec.tries = v1[u].tries + 1
            <4>1. v \in Acc!Unlocking(x)
                BY <1>1, <2>4, <3>7 DEF Acc!Unlocking
            <4> QED BY <2>3, <2>4, <2>5, <3>2, <3>3, <3>4, <3>7, <4>1
        <3> QED BY <2>2, <2>3, <2>5, <3>5, <3>6, <3>7
    <2> HIDE DEF u, seen
    <2> QED BY <1>1, <1>2, <2>3, <2>5, AccStays, AccFailures
<1> QED BY <1>3, <1>4

LEMMA AccNext == Acc!AccountInv /\ [Acc!AccountNext]_(Acc!accountVars) => Acc!AccountInv'
<1> SUFFICES ASSUME Acc!AccountInv, Acc!AccountNext \/ UNCHANGED Acc!accountVars PROVE Acc!AccountInv'
    OBVIOUS
<1>1. ASSUME NEW v \in Seconds,
             \/ \E m \in Thirds : Acc!AskRegister(v, m) \/ Acc!AskSignUp(v, m) \/ Acc!AskOAuth(v, m)
             \/ Acc!AskDeleteRole(v)
             \/ \E u \in Members : \/ Acc!Refresh(v, u) \/ Acc!AskAssign(v, u) \/ Acc!AskDeleteUser(v, u)
                                   \/ Acc!AskDeleteClient(v, u) \/ Acc!AskRemoveClient(v, u)
      PROVE  Acc!AccountInv'
    BY <1>1, AccAskActions
<1>2. ASSUME NEW v \in Seconds,
             Acc!CommitLinked(v) \/ Acc!LoginPassed(v) \/ Acc!SaveToken(v) \/ Acc!Assign(v) \/ Acc!DeleteUser(v)
      PROVE  Acc!AccountInv'
    BY <1>2, AccVisitWrites
<1>3. ASSUME NEW v \in Seconds, Acc!CommitAdopted(v) \/ Acc!DeleteRole(v) \/ Acc!DestroyUser(v)
      PROVE  Acc!AccountInv'
    BY <1>3, AccOthers
<1>4. ASSUME NEW v \in Seconds,
             Acc!CommitNew(v) \/ Acc!LoginFailed(v) \/ Acc!RemoveClient(v) \/ \E u \in Members : Acc!Login(v, u)
      PROVE  Acc!AccountInv'
    BY <1>4, AccCommitNew, AccLoginFailed, AccRemoveClient, AccLogin
<1>5. ASSUME \/ \E u \in Members : Acc!LockExpires(u) \/ Acc!ResetExpires(u) \/ Acc!UpdateUser(u)
             \/ Acc!OwnWrite
      PROVE  Acc!AccountInv'
    BY <1>5, AccDirectWrites
<1>6. ASSUME (\E u \in Members : Acc!CompleteProfile(u)) \/ Acc!ArchiveRole \/ UNCHANGED Acc!accountVars
      PROVE  Acc!AccountInv'
    BY <1>6, AccOthers
<1> QED BY <1>1, <1>2, <1>3, <1>4, <1>5, <1>6 DEF Acc!AccountNext, Members

LEMMA AccImplies == Acc!AccountInv => Acc!ProfileKept /\ Acc!LockTakes
<1> SUFFICES ASSUME Acc!AccountInv PROVE Acc!LockTakes
    BY DEF Acc!AccountInv
<1> SUFFICES ASSUME NEW u \in Members, Acc!Exists(u), v1[u].lock = "none"
             PROVE  v1[u].tries <= MaxAttempts - 2 + Acc!Cardinality(Seconds)
    BY DEF Acc!LockTakes, Members
<1>1. v1[u].tries + Acc!Cardinality(Acc!Unlocking(u)) <= MaxAttempts - 2 + Acc!Cardinality(Seconds)
    BY DEF Acc!AccountInv, Acc!TriesLeft, Members
<1>2. v1[u].tries \in Nat /\ MaxAttempts \in Nat
    BY AccStays, AccountAssumption DEF Acc!Exists, Acc!UserDoc, Acc!AccountBounds
<1>3. Acc!Cardinality(Acc!Unlocking(u)) \in Nat /\ Acc!Cardinality(Seconds) \in Nat
    <2>1. Acc!Unlocking(u) \in SUBSET Seconds
        BY DEF Acc!Unlocking
    <2> QED BY <2>1, AccUnlocking
<1> QED BY <1>1, <1>2, <1>3

\* BusinessSpec => []AccountsKept: a user has a profile by whichever route he was made, and the lock is
\* gone around no more often than sign-ins cross (user.service.ts register, user.model.ts
\* incrementLoginAttempts).
THEOREM BusinessAccountsKept == BusinessSpec => []AccountsKept
<1> DEFINE I == scenario = "accounts" => Acc!AccountInv
<1>1. BusinessInit => I
    BY AccInit DEF BusinessInit, Senders, Routers, Shelves
<1>2. I /\ [BusinessNext]_businessVars => I'
    <2> SUFFICES ASSUME I, [BusinessNext]_businessVars, scenario' = "accounts" PROVE Acc!AccountInv'
        OBVIOUS
    <2>1. scenario = "accounts" /\ Acc!AccountInv
        BY DEF BusinessNext, businessVars
    <2>2. CASE BusinessStep
        BY <2>1, <2>2, AccNext DEF BusinessStep, Senders, Routers, Shelves
    <2>3. CASE UNCHANGED businessVars
        <3>1. UNCHANGED Acc!accountVars
            BY <2>3 DEF businessVars, shared, Acc!accountVars
        <3> QED BY <2>1, <3>1, AccNext
    <2> QED BY <2>2, <2>3 DEF BusinessNext
<1>3. I => AccountsKept
    BY AccImplies DEF AccountsKept
<1> QED BY <1>1, <1>2, <1>3, PTL DEF BusinessSpec
-----------------------------------------------------------------------------
(* Panels: v1 machine, v2 panel, v3 desk, v4 measure, v5 mailbox.           *)

DeskSteps == {"idle", "copying", "named", "checked", "merging", "testing", "tested", "counting", "listing",
              "counted", "measuring", "measured", "mailing"}
DeskAsk == {r \in [at : DeskSteps, id : Firsts \cup {Nobody}, doc : Pan!Machine] : r.at = "counting" => r.id \in Firsts}
PanInv == Pan!PanelTypeOK /\ v3 \in [Thirds -> DeskAsk]

LEMMA PanBlank == Pan!Blank \in Pan!Machine /\ Pan!Blank.host = Nobody /\ MaxAccounts \in Nat
BY PanelAssumption DEF Pan!Blank, Pan!Machine, Pan!PanelBounds

\* What a request may carry.
LEMMA PanDocs ==
    ASSUME NEW d \in Pan!Machine
    PROVE  /\ \A h \in Seconds \cup {Nobody} : [d EXCEPT !.host = h] \in Pan!Machine
           /\ \A t \in Fourths \cup {Nobody} : [d EXCEPT !.token = t] \in Pan!Machine
           /\ \A t \in Fourths \cup {Nobody}, p \in BOOLEAN : [d EXCEPT !.token = t, !.password = p] \in Pan!Machine
           /\ \A s \in {"none", "success", "failed"} : [d EXCEPT !.status = s] \in Pan!Machine
           /\ \A a \in -1..MaxAccounts : [d EXCEPT !.accounts = a] \in Pan!Machine
           /\ \A a \in -1..MaxAccounts, t \in Fourths \cup {Nobody} : [d EXCEPT !.accounts = a, !.token = t] \in Pan!Machine
           /\ \A k \in {"none", "listed", "empty"}, t \in Fourths \cup {Nobody} :
                 [d EXCEPT !.packages = k, !.token = t] \in Pan!Machine
           /\ \A a \in -1..MaxAccounts, k \in {"none", "listed", "empty"} :
                 [d EXCEPT !.accounts = a, !.packages = k] \in Pan!Machine
           /\ d.host \in Seconds \cup {Nobody} /\ d.token \in Fourths \cup {Nobody} /\ d.accounts \in -1..MaxAccounts
           /\ d.status \in {"none", "success", "failed"} /\ d.packages \in {"none", "listed", "empty"}
<1>1. d.host \in Seconds \cup {Nobody} /\ d.token \in Fourths \cup {Nobody} /\ d.accounts \in -1..MaxAccounts
      /\ d.status \in {"none", "success", "failed"} /\ d.packages \in {"none", "listed", "empty"}
    BY DEF Pan!Machine
<1>2. \A h \in Seconds \cup {Nobody} : [d EXCEPT !.host = h] \in Pan!Machine
    BY DEF Pan!Machine
<1>3. \A t \in Fourths \cup {Nobody} : [d EXCEPT !.token = t] \in Pan!Machine
    BY DEF Pan!Machine
<1>4. \A t \in Fourths \cup {Nobody}, p \in BOOLEAN : [d EXCEPT !.token = t, !.password = p] \in Pan!Machine
    BY DEF Pan!Machine
<1>5. \A s \in {"none", "success", "failed"} : [d EXCEPT !.status = s] \in Pan!Machine
    BY DEF Pan!Machine
<1>6. \A a \in -1..MaxAccounts : [d EXCEPT !.accounts = a] \in Pan!Machine
    BY DEF Pan!Machine
<1>7. \A a \in -1..MaxAccounts, t \in Fourths \cup {Nobody} : [d EXCEPT !.accounts = a, !.token = t] \in Pan!Machine
    BY DEF Pan!Machine
<1>8. \A k \in {"none", "listed", "empty"}, t \in Fourths \cup {Nobody} : [d EXCEPT !.packages = k, !.token = t] \in Pan!Machine
    BY DEF Pan!Machine
<1>9. \A a \in -1..MaxAccounts, k \in {"none", "listed", "empty"} : [d EXCEPT !.accounts = a, !.packages = k] \in Pan!Machine
    BY DEF Pan!Machine
<1> QED BY <1>1, <1>2, <1>3, <1>4, <1>5, <1>6, <1>7, <1>8, <1>9

\* A document written keeps its host name, or has one that no other has.
LEMMA PanWritten ==
    ASSUME PanInv, NEW m \in Firsts, NEW doc \in Pan!Machine, v1' = [v1 EXCEPT ![m] = doc],
           doc.host = v1[m].host \/ doc.host = Nobody \/ \A n \in Firsts : v1[n].host # doc.host
    PROVE  /\ v1' \in [Firsts -> Pan!Machine]
           /\ \A n, k \in Firsts : v1'[n].host = v1'[k].host => n = k \/ v1'[n].host = Nobody
<1>1. v1' \in [Firsts -> Pan!Machine] /\ v1'[m] = doc /\ \A n \in Firsts : n # m => v1'[n] = v1[n]
    BY DEF PanInv, Pan!PanelTypeOK
<1>2. \A n, k \in Firsts : v1[n].host = v1[k].host => n = k \/ v1[n].host = Nobody
    BY DEF PanInv, Pan!PanelTypeOK
<1>3. ASSUME NEW n \in Firsts, NEW k \in Firsts, v1'[n].host = v1'[k].host, v1'[n].host # Nobody, n # k PROVE FALSE
    <2>1. CASE n # m /\ k # m
        BY <1>1, <1>2, <1>3, <2>1
    <2>2. CASE n = m
        BY <1>1, <1>2, <1>3, <2>2
    <2>3. CASE k = m
        BY <1>1, <1>2, <1>3, <2>3
    <2> QED BY <2>1, <2>2, <2>3
<1> QED BY <1>1, <1>3

LEMMA PanAt ==
    ASSUME v3 \in [Thirds -> DeskAsk], NEW d \in Thirds, NEW step \in DeskSteps, NEW m \in Firsts \cup {Nobody},
           NEW doc \in Pan!Machine, Pan!At(d, step, m, doc), step = "counting" => m \in Firsts
    PROVE  v3' \in [Thirds -> DeskAsk] /\ v3'[d].at = step
<1>1. [at |-> step, id |-> m, doc |-> doc] \in DeskAsk
    BY DEF DeskAsk
<1> QED BY <1>1 DEF Pan!At

LEMMA PanLeave ==
    ASSUME v3 \in [Thirds -> DeskAsk], NEW d \in Thirds, Pan!Leave(d)
    PROVE  v3' \in [Thirds -> DeskAsk] /\ v3'[d].at = "idle"
BY PanBlank, PanAt DEF Pan!Leave, DeskSteps

\* What a request at the desk carries, and the document it is about.
LEMMA PanCarries ==
    ASSUME PanInv, NEW d \in Thirds
    PROVE  /\ v3[d].at \in DeskSteps /\ v3[d].id \in Firsts \cup {Nobody} /\ v3[d].doc \in Pan!Machine
           /\ v1 \in [Firsts -> Pan!Machine]
BY DEF PanInv, Pan!PanelTypeOK, DeskAsk

\* A request that writes some fields of the document it is about, if that is there.
LEMMA PanUnless ==
    ASSUME PanInv, NEW m \in Firsts \cup {Nobody}, NEW doc,
           m \in Firsts => doc \in Pan!Machine /\ doc.host = v1[m].host,
           v1' = Pan!Unless(m, doc)
    PROVE  /\ v1' \in [Firsts -> Pan!Machine]
           /\ \A n, k \in Firsts : v1'[n].host = v1'[k].host => n = k \/ v1'[n].host = Nobody
           /\ \A n \in Firsts : v1'[n] = v1[n] \/ (n = m /\ v1'[n] = doc)
<1>1. CASE v1' = v1
    BY <1>1 DEF PanInv, Pan!PanelTypeOK
<1>2. CASE v1' = [v1 EXCEPT ![m] = doc] /\ m \in Firsts
    <2>1. \A n \in Firsts : v1'[n] = v1[n] \/ (n = m /\ v1'[n] = doc)
        BY <1>2 DEF PanInv, Pan!PanelTypeOK
    <2> QED BY <1>2, <2>1, PanWritten
<1>3. CASE v1' = [v1 EXCEPT ![m] = doc] /\ m \notin Firsts
    <2>1. v1' = v1
        BY <1>3 DEF PanInv, Pan!PanelTypeOK
    <2> QED BY <1>1, <2>1
<1> QED BY <1>1, <1>2, <1>3 DEF Pan!Unless

LEMMA PanInit == Pan!PanelInit \/ Pan!PanelBegun => PanInv
<1> SUFFICES ASSUME Pan!PanelInit \/ Pan!PanelBegun PROVE PanInv
    OBVIOUS
<1>1. /\ v2 \in [accepts : Fourths, accounts : 0..MaxAccounts, used : 0..MaxAccounts]
      /\ v3 \in [Thirds -> DeskAsk] /\ v4 \in -1..MaxAccounts
      /\ v5 \in [exists : BOOLEAN, told : {"none", "made", "error"}]
    <2>1. Pan!Away \in DeskAsk
        BY PanBlank DEF Pan!Away, DeskAsk, DeskSteps
    <2>2. Pan!Quiet
        BY DEF Pan!PanelInit, Pan!PanelBegun
    <2>3. -1 \in -1..MaxAccounts /\ 0 \in 0..MaxAccounts
        BY PanBlank
    <2>4. v3 \in [Thirds -> DeskAsk] /\ v4 \in -1..MaxAccounts /\ v5 \in [exists : BOOLEAN, told : {"none", "made", "error"}]
        BY <2>1, <2>2, <2>3 DEF Pan!Quiet
    <2>5. v2 \in [accepts : Fourths, accounts : 0..MaxAccounts, used : 0..MaxAccounts]
        BY <2>2, <2>3 DEF Pan!Quiet
    <2> QED BY <2>4, <2>5
<1>2. CASE Pan!PanelInit
    BY <1>1, <1>2, PanBlank DEF PanInv, Pan!PanelTypeOK, Pan!PanelInit, DeskAsk, DeskSteps
<1>3. CASE Pan!PanelBegun
    <2>1. PICK m \in Firsts, h \in Seconds, t \in Fourths :
             v1 = [[n \in Firsts |-> Pan!Blank] EXCEPT ![m].host = h, ![m].token = t]
        BY <1>3 DEF Pan!PanelBegun
    <2>2. [Pan!Blank EXCEPT !.host = h, !.token = t] \in Pan!Machine
        BY PanBlank DEF Pan!Machine
    <2>3. v1 \in [Firsts -> Pan!Machine] /\ \A n \in Firsts : n # m => v1[n].host = Nobody
        BY <2>1, <2>2, PanBlank
    <2> QED BY <1>1, <2>3 DEF PanInv, Pan!PanelTypeOK, DeskAsk, DeskSteps
<1> QED BY <1>2, <1>3

\* A step of a request that only reads, or ends.
LEMMA PanReads ==
    ASSUME PanInv, UNCHANGED v1, v3' \in [Thirds -> DeskAsk],
           v2' \in [accepts : Fourths, accounts : 0..MaxAccounts, used : 0..MaxAccounts], v4' \in -1..MaxAccounts,
           v5' \in [exists : BOOLEAN, told : {"none", "made", "error"}]
    PROVE  PanInv' /\ Pan!TokenStep
<1>1. PanInv'
    BY DEF PanInv, Pan!PanelTypeOK, DeskAsk, DeskSteps
<1>2. Pan!TokenStep
    BY DEF Pan!TokenStep, Pan!TokenOf
<1> QED BY <1>1, <1>2

\* A step that writes a server document, and takes no token from one unless a request merged none.
LEMMA PanWrites ==
    ASSUME PanInv, v1' \in [Firsts -> Pan!Machine], v3' \in [Thirds -> DeskAsk], UNCHANGED <<v2, v4, v5>>,
           \A n, k \in Firsts : v1'[n].host = v1'[k].host => n = k \/ v1'[n].host = Nobody,
           \A n \in Firsts : \/ v1'[n].token = v1[n].token \/ v1'[n].token # Nobody
                             \/ v1[n].host = Nobody \/ v1'[n].host = Nobody
                             \/ \E d \in Thirds : v3[d].at = "merging" /\ v3[d].id = n /\ v3[d].doc.token = Nobody /\ v3'[d].at = "idle"
    PROVE  PanInv' /\ Pan!TokenStep
<1>1. PanInv'
    BY DEF PanInv, Pan!PanelTypeOK, DeskAsk, DeskSteps
<1>2. Pan!TokenStep
    BY DEF Pan!TokenStep, Pan!TokenOf, Pan!Entered
<1> QED BY <1>1, <1>2

LEMMA PanEdits == PanInv /\ Pan!EditNext => PanInv' /\ Pan!TokenStep
<1> SUFFICES ASSUME PanInv, Pan!EditNext PROVE PanInv' /\ Pan!TokenStep
    OBVIOUS
<1>0. /\ v1 \in [Firsts -> Pan!Machine] /\ v3 \in [Thirds -> DeskAsk] /\ v4 \in -1..MaxAccounts
      /\ v2 \in [accepts : Fourths, accounts : 0..MaxAccounts, used : 0..MaxAccounts]
      /\ v5 \in [exists : BOOLEAN, told : {"none", "made", "error"}]
      /\ Nobody \notin Fourths /\ Nobody \notin Seconds
      /\ \A n, k \in Firsts : v1[n].host = v1[k].host => n = k \/ v1[n].host = Nobody
    BY PanelAssumption DEF PanInv, Pan!PanelTypeOK, Pan!PanelNulls
<1>1. ASSUME NEW d \in Thirds, NEW h \in Seconds, NEW t \in Fourths \cup {Nobody}, Pan!EnterHost(d, h, t)
      PROVE  PanInv' /\ Pan!TokenStep
    <2>1. [Pan!Blank EXCEPT !.host = h, !.token = t] \in Pan!Machine
        BY PanBlank DEF Pan!Machine
    <2>2. v3' \in [Thirds -> DeskAsk] /\ UNCHANGED <<v1, v2, v4, v5>>
        BY <1>0, <1>1, <2>1, PanAt DEF Pan!EnterHost, DeskSteps
    <2> QED BY <1>0, <2>2, PanReads
<1>2. ASSUME NEW d \in Thirds, NEW m \in Firsts, Pan!ReadOriginal(d, m) \/ Pan!ReadToken(d, m)
      PROVE  PanInv' /\ Pan!TokenStep
    <2>1. Pan!CopyOf(m) \in Pan!Machine /\ [Pan!Blank EXCEPT !.token = Pan!TokenOf(m)] \in Pan!Machine
        BY <1>0, PanBlank, PanDocs DEF Pan!CopyOf, Pan!TokenOf
    <2>2. v3' \in [Thirds -> DeskAsk] /\ UNCHANGED <<v1, v2, v4, v5>>
        BY <1>0, <1>2, <2>1, PanAt DEF Pan!ReadOriginal, Pan!ReadToken, DeskSteps
    <2> QED BY <1>0, <2>2, PanReads
<1>3. ASSUME NEW d \in Thirds, NEW h \in Seconds, Pan!NameMachine(d, h)
      PROVE  PanInv' /\ Pan!TokenStep
    <2>1. [v3[d].doc EXCEPT !.host = h] \in Pan!Machine /\ v3[d].id \in Firsts \cup {Nobody}
        BY PanCarries, PanDocs
    <2>2. v3' \in [Thirds -> DeskAsk] /\ UNCHANGED <<v1, v2, v4, v5>>
        BY <1>0, <1>3, <2>1, PanAt DEF Pan!NameMachine, DeskSteps
    <2> QED BY <1>0, <2>2, PanReads
<1>4. ASSUME NEW d \in Thirds, Pan!FindHost(d) PROVE PanInv' /\ Pan!TokenStep
    <2>1. v3' \in [Thirds -> DeskAsk] /\ UNCHANGED <<v1, v2, v4, v5>>
        BY <1>0, <1>4, PanCarries, PanAt, PanLeave DEF Pan!FindHost, DeskSteps
    <2> QED BY <1>0, <2>1, PanReads
<1>5. ASSUME NEW d \in Thirds, Pan!InsertMachine(d) PROVE PanInv' /\ Pan!TokenStep
    <2>1. v3' \in [Thirds -> DeskAsk] /\ UNCHANGED <<v2, v4, v5>>
        BY <1>0, <1>5, PanLeave DEF Pan!InsertMachine
    <2>2. CASE UNCHANGED v1
        BY <1>0, <2>1, <2>2, PanReads
    <2>3. ASSUME NEW m \in Firsts, ~Pan!Entered(m), v1' = [v1 EXCEPT ![m] = v3[d].doc], Pan!Unclaimed(v3[d].doc.host)
          PROVE  PanInv' /\ Pan!TokenStep
        <3>1. /\ v1' \in [Firsts -> Pan!Machine]
              /\ \A n, k \in Firsts : v1'[n].host = v1'[k].host => n = k \/ v1'[n].host = Nobody
            BY <2>3, PanCarries, PanWritten DEF Pan!Unclaimed
        <3>2. \A n \in Firsts : v1'[n] = v1[n] \/ v1[n].host = Nobody
            BY <1>0, <2>3 DEF Pan!Entered
        <3> QED BY <2>1, <3>1, <3>2, PanWrites
    <2> QED BY <1>5, <2>2, <2>3 DEF Pan!InsertMachine
<1>6. ASSUME NEW d \in Thirds, NEW password \in BOOLEAN, Pan!SaveModule(d, password) PROVE PanInv' /\ Pan!TokenStep
    <2> DEFINE m == v3[d].id
               doc == [v1[m] EXCEPT !.token = Pan!Carried(d), !.password = password]
    <2>1. v3' \in [Thirds -> DeskAsk] /\ v3'[d].at = "idle" /\ v3[d].at = "merging" /\ UNCHANGED <<v2, v4, v5>>
        BY <1>0, <1>6, PanLeave DEF Pan!SaveModule
    <2>2. m \in Firsts => /\ doc \in Pan!Machine /\ doc.host = v1[m].host
                          /\ doc.token = v3[d].doc.token /\ v3[d].doc.token \in Fourths \cup {Nobody}
        <3>1. Pan!Carried(d) = v3[d].doc.token /\ v3[d].doc.token \in Fourths \cup {Nobody}
            BY PanCarries, PanDocs DEF Pan!Carried
        <3>2. ASSUME m \in Firsts PROVE v1[m] \in Pan!Machine
            BY <1>0, <3>2
        <3>3. \A r \in Pan!Machine, t \in Fourths \cup {Nobody} :
                 /\ [r EXCEPT !.token = t, !.password = password].host = r.host
                 /\ [r EXCEPT !.token = t, !.password = password].token = t
            BY DEF Pan!Machine
        <3>4. \A r \in Pan!Machine, t \in Fourths \cup {Nobody} : [r EXCEPT !.token = t, !.password = password] \in Pan!Machine
            BY PanDocs
        <3> HIDE DEF m
        <3> QED BY <3>1, <3>2, <3>3, <3>4
    <2>3. v1' = Pan!Unless(m, doc)
        BY <1>6 DEF Pan!SaveModule
    <2>4. m \in Firsts \cup {Nobody}
        BY PanCarries
    <2> HIDE DEF doc
    <2>5. /\ v1' \in [Firsts -> Pan!Machine]
          /\ \A n, k \in Firsts : v1'[n].host = v1'[k].host => n = k \/ v1'[n].host = Nobody
          /\ \A n \in Firsts : v1'[n] = v1[n] \/ (n = m /\ v1'[n] = doc)
        BY <2>2, <2>3, <2>4, PanUnless
    <2> QED BY <2>1, <2>2, <2>5, PanWrites
<1>7. ASSUME NEW m \in Firsts, Pan!DeleteMachine(m) \/ (\E h \in Seconds : Pan!RenameMachine(m, h))
                               \/ (\E t \in Fourths, password \in BOOLEAN : Pan!SaveApiToken(m, t, password))
      PROVE  PanInv' /\ Pan!TokenStep
    <2>0. UNCHANGED <<v2, v3, v4, v5>>
        BY <1>7 DEF Pan!DeleteMachine, Pan!RenameMachine, Pan!SaveApiToken
    <2>1. \E doc \in Pan!Machine : /\ v1' = [v1 EXCEPT ![m] = doc]
                                   /\ doc.host = v1[m].host \/ doc.host = Nobody \/ \A n \in Firsts : v1[n].host # doc.host
                                   /\ doc.token = v1[m].token \/ doc.token # Nobody \/ doc.host = Nobody
        <3> DEFINE Good(doc) == /\ doc \in Pan!Machine
                                /\ doc.host = v1[m].host \/ doc.host = Nobody \/ \A n \in Firsts : v1[n].host # doc.host
                                /\ doc.token = v1[m].token \/ doc.token # Nobody \/ doc.host = Nobody
        <3>1. Good(Pan!Blank)
            BY PanBlank
        <3>2. \A h \in Seconds : Pan!Unclaimed(h) => Good([v1[m] EXCEPT !.host = h])
            <4>1. \A h \in Seconds : [v1[m] EXCEPT !.host = h] \in Pan!Machine
                BY <1>0, PanDocs
            <4>2. \A h \in Seconds : [v1[m] EXCEPT !.host = h].host = h /\ [v1[m] EXCEPT !.host = h].token = v1[m].token
                BY <1>0 DEF Pan!Machine
            <4> QED BY <4>1, <4>2 DEF Pan!Unclaimed
        <3>3. \A t \in Fourths, password \in BOOLEAN : Good([v1[m] EXCEPT !.token = t, !.password = password])
            <4>1. \A t \in Fourths, password \in BOOLEAN : [v1[m] EXCEPT !.token = t, !.password = password] \in Pan!Machine
                BY <1>0, PanDocs
            <4>2. \A t \in Fourths, password \in BOOLEAN : /\ [v1[m] EXCEPT !.token = t, !.password = password].token = t
                                                           /\ [v1[m] EXCEPT !.token = t, !.password = password].host = v1[m].host
                BY <1>0 DEF Pan!Machine
            <4> SUFFICES ASSUME NEW t \in Fourths, NEW password \in BOOLEAN
                         PROVE  Good([v1[m] EXCEPT !.token = t, !.password = password])
                OBVIOUS
            <4> DEFINE doc == [v1[m] EXCEPT !.token = t, !.password = password]
            <4>3. doc \in Pan!Machine /\ doc.token = t /\ doc.host = v1[m].host /\ t # Nobody
                BY <1>0, <4>1, <4>2
            <4> HIDE DEF doc
            <4>4. Good(doc)
                BY <4>3
            <4> QED BY <4>4 DEF doc
        <3>4. \A h \in Seconds : v1' = [v1 EXCEPT ![m].host = h] => v1' = [v1 EXCEPT ![m] = [v1[m] EXCEPT !.host = h]]
            BY <1>0
        <3>5. \A t \in Fourths, password \in BOOLEAN :
                 v1' = [v1 EXCEPT ![m].token = t, ![m].password = password] =>
                     v1' = [v1 EXCEPT ![m] = [v1[m] EXCEPT !.token = t, !.password = password]]
            <4> SUFFICES ASSUME NEW t \in Fourths, NEW password \in BOOLEAN,
                                v1' = [v1 EXCEPT ![m].token = t, ![m].password = password]
                         PROVE  v1' = [v1 EXCEPT ![m] = [v1[m] EXCEPT !.token = t, !.password = password]]
                OBVIOUS
            <4> QED BY <1>0
        <3>6. \/ v1' = [v1 EXCEPT ![m] = Pan!Blank]
              \/ \E h \in Seconds : v1' = [v1 EXCEPT ![m] = [v1[m] EXCEPT !.host = h]] /\ Pan!Unclaimed(h)
              \/ \E t \in Fourths, password \in BOOLEAN :
                    v1' = [v1 EXCEPT ![m] = [v1[m] EXCEPT !.token = t, !.password = password]]
            BY <1>7, <3>4, <3>5 DEF Pan!DeleteMachine, Pan!RenameMachine, Pan!SaveApiToken
        <3> HIDE DEF Good
        <3>7. \E doc : v1' = [v1 EXCEPT ![m] = doc] /\ Good(doc)
            BY <3>1, <3>2, <3>3, <3>6, Zenon
        <3> QED BY <3>7 DEF Good
    <2>2. PICK doc \in Pan!Machine : /\ v1' = [v1 EXCEPT ![m] = doc]
                                     /\ doc.host = v1[m].host \/ doc.host = Nobody \/ \A n \in Firsts : v1[n].host # doc.host
                                     /\ doc.token = v1[m].token \/ doc.token # Nobody \/ doc.host = Nobody
        BY <2>1
    <2>3. /\ v1' \in [Firsts -> Pan!Machine]
          /\ \A n, k \in Firsts : v1'[n].host = v1'[k].host => n = k \/ v1'[n].host = Nobody
        BY <2>2, PanWritten
    <2>4. \A n \in Firsts : v1'[n] = v1[n] \/ (n = m /\ v1'[n] = doc)
        BY <1>0, <2>2
    <2> QED BY <1>0, <2>0, <2>2, <2>3, <2>4, PanWrites
<1> QED BY <1>1, <1>2, <1>3, <1>4, <1>5, <1>6, <1>7 DEF Pan!EditNext

LEMMA PanCalls == PanInv /\ Pan!CallNext => PanInv' /\ Pan!TokenStep
<1> SUFFICES ASSUME PanInv, Pan!CallNext PROVE PanInv' /\ Pan!TokenStep
    OBVIOUS
<1>0. /\ v1 \in [Firsts -> Pan!Machine] /\ v3 \in [Thirds -> DeskAsk] /\ v4 \in -1..MaxAccounts
      /\ v2 \in [accepts : Fourths, accounts : 0..MaxAccounts, used : 0..MaxAccounts]
      /\ v5 \in [exists : BOOLEAN, told : {"none", "made", "error"}]
      /\ \A t \in Fourths \cup {Nobody} : [Pan!Blank EXCEPT !.token = t] \in Pan!Machine
      /\ \A m \in Firsts : Pan!TokenOf(m) \in Fourths \cup {Nobody}
      /\ MaxAccounts \in Nat
    BY PanBlank, PanDocs DEF PanInv, Pan!PanelTypeOK, Pan!TokenOf
<1>1. ASSUME NEW d \in Thirds, NEW m \in Firsts, \/ Pan!StartTest(d, m) \/ Pan!StartSync(d, m)
                                                 \/ Pan!HostingContext(d, m, "measuring") \/ Pan!HostingContext(d, m, "mailing")
      PROVE  PanInv' /\ Pan!TokenStep
    <2>1. \A t \in Fourths \cup {Nobody}, s \in {"none", "failed"} : [Pan!Blank EXCEPT !.token = t, !.status = s] \in Pan!Machine
        BY PanBlank DEF Pan!Machine
    <2>2. UNCHANGED <<v1, v2, v4, v5>>
        BY <1>1 DEF Pan!StartTest, Pan!StartSync, Pan!HostingContext
    <2>3. \E step \in DeskSteps, doc \in Pan!Machine : Pan!At(d, step, m, doc)
        <3>1. {"testing", "tested", "counting", "measuring", "mailing"} \subseteq DeskSteps
            BY DEF DeskSteps
        <3>2. CASE Pan!StartTest(d, m)
            <4>1. CASE Pan!TokenOf(m) = Nobody
                <5>1. Pan!At(d, "tested", m, [Pan!Blank EXCEPT !.token = Pan!TokenOf(m), !.status = "failed"])
                    BY <3>2, <4>1 DEF Pan!StartTest
                <5>2. [Pan!Blank EXCEPT !.token = Pan!TokenOf(m), !.status = "failed"] \in Pan!Machine
                    BY <1>0, <2>1
                <5> QED BY <3>1, <5>1, <5>2
            <4>2. CASE Pan!TokenOf(m) # Nobody
                <5>1. Pan!At(d, "testing", m, [Pan!Blank EXCEPT !.token = Pan!TokenOf(m), !.status = "none"])
                    BY <3>2, <4>2 DEF Pan!StartTest
                <5>2. [Pan!Blank EXCEPT !.token = Pan!TokenOf(m), !.status = "none"] \in Pan!Machine
                    BY <1>0, <2>1
                <5> QED BY <3>1, <5>1, <5>2
            <4> QED BY <4>1, <4>2
        <3>3. CASE Pan!StartSync(d, m)
            BY <1>0, <3>1, <3>3 DEF Pan!StartSync
        <3>4. CASE Pan!HostingContext(d, m, "measuring") \/ Pan!HostingContext(d, m, "mailing")
            BY <1>0, <3>1, <3>4 DEF Pan!HostingContext
        <3> QED BY <1>1, <3>2, <3>3, <3>4
    <2>4. v3' \in [Thirds -> DeskAsk]
        BY <1>0, <2>3, PanAt
    <2> QED BY <1>0, <2>2, <2>4, PanReads
<1>2. ASSUME NEW d \in Thirds, Pan!AnswerTest(d) \/ Pan!CountAccounts(d) \/ Pan!ListPackages(d) \/ Pan!Measure(d)
      PROVE  PanInv' /\ Pan!TokenStep
    <2>0. /\ v3[d].doc \in Pan!Machine /\ v3[d].id \in Firsts \cup {Nobody}
          /\ {"tested", "listing", "counted", "measured"} \subseteq DeskSteps
        BY PanCarries DEF DeskSteps
    <2>1. UNCHANGED <<v1, v2, v4, v5>>
        BY <1>2 DEF Pan!AnswerTest, Pan!CountAccounts, Pan!ListPackages, Pan!Measure
    <2>2. CASE Pan!AnswerTest(d)
        <3>1. PICK status \in {"failed", "success"} : Pan!At(d, "tested", v3[d].id, [Pan!Blank EXCEPT !.status = status])
            BY <2>2 DEF Pan!AnswerTest
        <3>2. [Pan!Blank EXCEPT !.status = status] \in Pan!Machine
            BY PanBlank, PanDocs
        <3>3. v3' \in [Thirds -> DeskAsk]
            BY <1>0, <2>0, <3>1, <3>2, PanAt
        <3> QED BY <1>0, <2>1, <3>3, PanReads
    <2>3. CASE Pan!CountAccounts(d)
        <3>1. CASE Pan!Leave(d)
            <4>1. v3' \in [Thirds -> DeskAsk]
                BY <1>0, <3>1, PanLeave
            <4> QED BY <1>0, <2>1, <4>1, PanReads
        <3>2. CASE Pan!At(d, "listing", v3[d].id, [v3[d].doc EXCEPT !.accounts = v2.accounts, !.token = Pan!TokenOf(v3[d].id)])
            \* a request that counts is about a document
            <4>1. Pan!TokenOf(v3[d].id) \in Fourths \cup {Nobody}
                <5>1. v3[d].id \in Firsts
                    BY <1>0, <2>3 DEF Pan!CountAccounts, DeskAsk
                <5> QED BY <1>0, <5>1
            <4>2. v2.accounts \in -1..MaxAccounts
                BY <1>0
            <4>3. [v3[d].doc EXCEPT !.accounts = v2.accounts, !.token = Pan!TokenOf(v3[d].id)] \in Pan!Machine
                BY <2>0, <4>1, <4>2, PanDocs
            <4>4. v3' \in [Thirds -> DeskAsk]
                BY <1>0, <2>0, <3>2, <4>3, PanAt
            <4> QED BY <1>0, <2>1, <4>4, PanReads
        <3> QED BY <2>3, <3>1, <3>2 DEF Pan!CountAccounts
    <2>4. CASE Pan!ListPackages(d)
        <3>1. PICK packages \in {"empty", "listed"} :
                 Pan!At(d, "counted", v3[d].id, [v3[d].doc EXCEPT !.packages = packages, !.token = Nobody])
            BY <2>4 DEF Pan!ListPackages
        <3>2. [v3[d].doc EXCEPT !.packages = packages, !.token = Nobody] \in Pan!Machine
            BY <2>0, PanDocs
        <3>3. v3' \in [Thirds -> DeskAsk]
            BY <1>0, <2>0, <3>1, <3>2, PanAt
        <3> QED BY <1>0, <2>1, <3>3, PanReads
    <2>5. CASE Pan!Measure(d)
        <3>1. CASE Pan!Leave(d)
            <4>1. v3' \in [Thirds -> DeskAsk]
                BY <1>0, <3>1, PanLeave
            <4> QED BY <1>0, <2>1, <4>1, PanReads
        <3>2. CASE Pan!At(d, "measured", v3[d].id, [Pan!Blank EXCEPT !.accounts = IF v2.accounts = 0 THEN 0 ELSE v2.used])
            <4>1. (IF v2.accounts = 0 THEN 0 ELSE v2.used) \in -1..MaxAccounts
                BY <1>0
            <4>2. [Pan!Blank EXCEPT !.accounts = IF v2.accounts = 0 THEN 0 ELSE v2.used] \in Pan!Machine
                BY <4>1, PanBlank, PanDocs
            <4>3. v3' \in [Thirds -> DeskAsk]
                BY <1>0, <2>0, <3>2, <4>2, PanAt
            <4> QED BY <1>0, <2>1, <4>3, PanReads
        <3> QED BY <2>5, <3>1, <3>2 DEF Pan!Measure
    <2> QED BY <1>2, <2>2, <2>3, <2>4, <2>5
<1>3. ASSUME NEW d \in Thirds, Pan!WriteTest(d) \/ Pan!WriteSync(d) PROVE PanInv' /\ Pan!TokenStep
    <2> DEFINE m == v3[d].id
    <2>1. v3' \in [Thirds -> DeskAsk] /\ UNCHANGED <<v2, v4, v5>>
        BY <1>0, <1>3, PanLeave DEF Pan!WriteTest, Pan!WriteSync
    <2>2. v3[d].doc \in Pan!Machine /\ m \in Firsts \cup {Nobody}
        BY PanCarries
    <2>3. \A r \in Pan!Machine, s \in {"none", "success", "failed"} :
             [r EXCEPT !.status = s] \in Pan!Machine /\ [r EXCEPT !.status = s].host = r.host /\ [r EXCEPT !.status = s].token = r.token
        BY DEF Pan!Machine
    <2>4. \A r \in Pan!Machine, a \in -1..MaxAccounts, k \in {"none", "listed", "empty"} :
             /\ [r EXCEPT !.accounts = a, !.packages = k] \in Pan!Machine
             /\ [r EXCEPT !.accounts = a, !.packages = k].host = r.host /\ [r EXCEPT !.accounts = a, !.packages = k].token = r.token
        BY DEF Pan!Machine
    <2>5. /\ v3[d].doc.status \in {"none", "success", "failed"} /\ v3[d].doc.accounts \in -1..MaxAccounts
          /\ v3[d].doc.packages \in {"none", "listed", "empty"}
        BY <2>2, PanDocs
    <2>6. \E doc : /\ v1' = Pan!Unless(m, doc)
                   /\ m \in Firsts => doc \in Pan!Machine /\ doc.host = v1[m].host /\ doc.token = v1[m].token
        <3> DEFINE Good(doc) == m \in Firsts => doc \in Pan!Machine /\ doc.host = v1[m].host /\ doc.token = v1[m].token
        <3>1. m \in Firsts => v1[m] \in Pan!Machine
            BY <1>0
        <3>2. Good([v1[m] EXCEPT !.status = v3[d].doc.status])
            <4> HIDE DEF m
            <4> QED BY <2>3, <2>5, <3>1
        <3>3. Good([v1[m] EXCEPT !.accounts = v3[d].doc.accounts, !.packages = v3[d].doc.packages])
            <4> HIDE DEF m
            <4> QED BY <2>4, <2>5, <3>1
        <3>4. \/ v1' = Pan!Unless(m, [v1[m] EXCEPT !.status = v3[d].doc.status])
              \/ v1' = Pan!Unless(m, [v1[m] EXCEPT !.accounts = v3[d].doc.accounts, !.packages = v3[d].doc.packages])
            BY <1>3 DEF Pan!WriteTest, Pan!WriteSync
        <3> HIDE DEF Good
        <3>5. \E doc : v1' = Pan!Unless(m, doc) /\ Good(doc)
            BY <3>2, <3>3, <3>4, Zenon
        <3> QED BY <3>5 DEF Good
    <2> HIDE DEF m
    <2>7. PICK doc : /\ v1' = Pan!Unless(m, doc)
                     /\ m \in Firsts => doc \in Pan!Machine /\ doc.host = v1[m].host /\ doc.token = v1[m].token
        BY <2>6
    <2>8. /\ v1' \in [Firsts -> Pan!Machine]
          /\ \A n, k \in Firsts : v1'[n].host = v1'[k].host => n = k \/ v1'[n].host = Nobody
          /\ \A n \in Firsts : v1'[n] = v1[n] \/ (n = m /\ v1'[n] = doc)
        BY <2>2, <2>7, PanUnless
    <2> QED BY <2>1, <2>7, <2>8, PanWrites
<1>4. ASSUME NEW d \in Thirds, Pan!WriteUsage(d) \/ Pan!MakeMailbox(d) PROVE PanInv' /\ Pan!TokenStep
    <2>1. v3' \in [Thirds -> DeskAsk] /\ UNCHANGED <<v1, v2>>
        BY <1>0, <1>4, PanLeave DEF Pan!WriteUsage, Pan!MakeMailbox
    <2>2. v3[d].doc.accounts \in -1..MaxAccounts
        BY PanCarries, PanDocs
    <2>3. v4' \in -1..MaxAccounts /\ v5' \in [exists : BOOLEAN, told : {"none", "made", "error"}]
        <3>1. CASE Pan!WriteUsage(d)
            BY <1>0, <2>2, <3>1 DEF Pan!WriteUsage
        <3>2. CASE Pan!MakeMailbox(d)
            <4>1. \A e \in BOOLEAN, t \in {"none", "made", "error"} :
                     [exists |-> e, told |-> t] \in [exists : BOOLEAN, told : {"none", "made", "error"}]
                OBVIOUS
            <4>2. [v5 EXCEPT !.told = "error"] \in [exists : BOOLEAN, told : {"none", "made", "error"}]
                BY <1>0
            <4>3. v5' \in [exists : BOOLEAN, told : {"none", "made", "error"}]
                BY <3>2, <4>1, <4>2 DEF Pan!MakeMailbox
            <4> QED BY <1>0, <3>2, <4>3 DEF Pan!MakeMailbox
        <3> QED BY <1>4, <3>1, <3>2
    <2> QED BY <1>0, <2>1, <2>3, PanReads
<1>5. CASE Pan!PanelChanges
    <2>1. UNCHANGED <<v1, v3, v4, v5>>
        BY <1>5 DEF Pan!PanelChanges
    <2>2. /\ \A t \in Fourths : [v2 EXCEPT !.accepts = t] \in [accepts : Fourths, accounts : 0..MaxAccounts, used : 0..MaxAccounts]
          /\ \A n \in 0..MaxAccounts : [v2 EXCEPT !.accounts = n] \in [accepts : Fourths, accounts : 0..MaxAccounts, used : 0..MaxAccounts]
          /\ \A n \in 0..MaxAccounts : [v2 EXCEPT !.used = n] \in [accepts : Fourths, accounts : 0..MaxAccounts, used : 0..MaxAccounts]
        BY <1>0
    <2>3. /\ v2.accounts < MaxAccounts => v2.accounts + 1 \in 0..MaxAccounts
          /\ v2.used < MaxAccounts => v2.used + 1 \in 0..MaxAccounts
        BY <1>0
    <2>4. v2' \in [accepts : Fourths, accounts : 0..MaxAccounts, used : 0..MaxAccounts]
        BY <1>5, <2>2, <2>3 DEF Pan!PanelChanges
    <2> QED BY <1>0, <2>1, <2>4, PanReads
<1> QED BY <1>1, <1>2, <1>3, <1>4, <1>5 DEF Pan!CallNext
-----------------------------------------------------------------------------
(* A service's desk: v1 service, v2 meta, v3 account, v4 staff, v5 log.     *)

DeskLog == [requests : Nat, parted : BOOLEAN, unpriced : BOOLEAN]
DeskService == [status : {"open", "ACTIVE", "CANCELLED", "gone"}, linked : BOOLEAN, priced : Codes, labelled : Codes]

LEMMA DesAway == /\ Des!Away \in Des!Request /\ Des!Away.at = "idle" /\ Des!Away.kind = "notes" /\ Des!Away.password = Nobody
                 /\ Nobody \in Des!Keys /\ Nobody \notin Fourths
BY DeskAssumption DEF Des!Away, Des!Request, Des!Meta, Des!Keys, Des!Kinds, Des!Edits, Des!DeskNulls, Des!Marks

\* The log's fields, one at a time.
LEMMA DesLog ==
    ASSUME v5 \in DeskLog
    PROVE  /\ \A n \in Nat : /\ [v5 EXCEPT !.requests = n] \in DeskLog /\ [v5 EXCEPT !.requests = n].parted = v5.parted
                             /\ [v5 EXCEPT !.requests = n].unpriced = v5.unpriced
           /\ \A b \in BOOLEAN : /\ [v5 EXCEPT !.parted = b] \in DeskLog /\ [v5 EXCEPT !.parted = b].parted = b
                                 /\ [v5 EXCEPT !.parted = b].unpriced = v5.unpriced
           /\ \A b, c \in BOOLEAN : /\ [v5 EXCEPT !.parted = b, !.unpriced = c] \in DeskLog
                                    /\ [v5 EXCEPT !.parted = b, !.unpriced = c].parted = b
                                    /\ [v5 EXCEPT !.parted = b, !.unpriced = c].unpriced = c
<1>1. \A n \in Nat : /\ [v5 EXCEPT !.requests = n] \in DeskLog /\ [v5 EXCEPT !.requests = n].parted = v5.parted
                     /\ [v5 EXCEPT !.requests = n].unpriced = v5.unpriced
    BY DEF DeskLog
<1>2. \A b \in BOOLEAN : /\ [v5 EXCEPT !.parted = b] \in DeskLog /\ [v5 EXCEPT !.parted = b].parted = b
                         /\ [v5 EXCEPT !.parted = b].unpriced = v5.unpriced
    BY DEF DeskLog
<1>3. \A b, c \in BOOLEAN : /\ [v5 EXCEPT !.parted = b, !.unpriced = c] \in DeskLog
                            /\ [v5 EXCEPT !.parted = b, !.unpriced = c].parted = b
                            /\ [v5 EXCEPT !.parted = b, !.unpriced = c].unpriced = c
    BY DEF DeskLog
<1> QED BY <1>1, <1>2, <1>3

LEMMA DesDocs ==
    ASSUME Des!DeskInv
    PROVE  /\ v1 \in DeskService /\ v2 \in Des!Meta /\ v3 \in Des!Keys /\ v4 \in [Firsts -> Des!Request] /\ v5 \in DeskLog
           /\ \A d \in Firsts : /\ v4[d] \in Des!Request /\ v4[d].copy \in Des!Meta /\ v4[d].password \in Des!Keys
                                /\ v4[d].kind \in Des!Kinds
           /\ v5.parted \in BOOLEAN /\ v5.unpriced \in BOOLEAN /\ v5.requests \in Nat
BY DEF Des!DeskInv, Des!DeskDocsOK, DeskService, DeskLog, Des!Request

\* One request of the staff moves.
LEMMA DesGoto ==
    ASSUME v4 \in [Firsts -> Des!Request], NEW d \in Firsts, NEW at \in {"idle", "call", "create", "load", "save", "activate"},
           Des!Goto(d, at)
    PROVE  /\ v4' \in [Firsts -> Des!Request] /\ \A e \in Firsts \ {d} : v4'[e] = v4[e]
           /\ v4'[d].at = at /\ v4'[d].kind = v4[d].kind /\ v4'[d].password = v4[d].password /\ v4'[d].copy = v4[d].copy
<1> DEFINE r == [v4[d] EXCEPT !.at = at]
<1>1. r \in Des!Request /\ r.at = at /\ r.kind = v4[d].kind /\ r.password = v4[d].password /\ r.copy = v4[d].copy
    BY DEF Des!Request
<1>2. v4' = [v4 EXCEPT ![d] = r]
    BY DEF Des!Goto
<1> HIDE DEF r
<1> QED BY <1>1, <1>2

LEMMA DesEnds ==
    ASSUME v4 \in [Firsts -> Des!Request], NEW d \in Firsts, Des!Ends(d)
    PROVE  /\ v4' \in [Firsts -> Des!Request] /\ \A e \in Firsts \ {d} : v4'[e] = v4[e]
           /\ v4'[d].at = "idle" /\ v4'[d].kind = "notes" /\ v4'[d].password = Nobody
BY DesAway DEF Des!Ends

\* After a step that parted the two passwords nothing is promised of them.
LEMMA DesParted ==
    ASSUME Des!DeskDocsOK', Des!RequestsOK', Des!PriceLabelled', v5'.parted
    PROVE  Des!DeskInv'
BY DEF Des!DeskInv, Des!Delivered, Des!FormKept, Des!WillAgree

\* A step that gives neither account nor meta a password.
LEMMA DesCalm ==
    ASSUME Des!DeskInv, Des!DeskDocsOK', Des!RequestsOK', Des!PriceLabelled',
           v3' = v3, v2'.password = v2.password, v5'.parted = v5.parted \/ v5'.parted, Des!Exists' => Des!Exists,
           \A d \in Firsts : (Des!Delivering(d)' <=> Des!Delivering(d)) /\ (Des!Asking(d)' <=> Des!Asking(d)),
           \A d \in Firsts : Des!Delivering(d) \/ Des!Asking(d) => v4'[d].password = v4[d].password
    PROVE  Des!DeskInv'
<1>1. CASE v5'.parted
    BY <1>1, DesParted
<1>2. CASE ~v5'.parted
    <2>0. ~v5.parted
        BY <1>2
    <2>1. Des!Delivered'
        BY <2>0 DEF Des!DeskInv, Des!Delivered
    <2>2. Des!FormKept'
        BY <2>0 DEF Des!DeskInv, Des!FormKept
    <2>3. Des!WillAgree'
        BY <2>0 DEF Des!DeskInv, Des!WillAgree
    <2> QED BY <2>1, <2>2, <2>3 DEF Des!DeskInv
<1> QED BY <1>1, <1>2

LEMMA DesInit == Des!DeskInit => Des!DeskInv
<1> SUFFICES ASSUME Des!DeskInit PROVE Des!DeskInv
    OBVIOUS
<1>1. PICK c \in Codes : v1 \in [status : {"open", "ACTIVE"}, linked : BOOLEAN, priced : {c}, labelled : {c}]
    BY DEF Des!DeskInit
<1>2. v1 \in DeskService /\ v1.priced = v1.labelled
    BY <1>1 DEF DeskService
<1>3. v3 \in Des!Keys /\ v2.password = v3 /\ v2 \in Des!Meta
    BY DEF Des!DeskInit, Des!Keys, Des!Meta
<1>4. v4 \in [Firsts -> Des!Request] /\ \A d \in Firsts : v4[d] = Des!Away
    BY DesAway DEF Des!DeskInit
<1>5. v5 \in DeskLog
    BY DEF Des!DeskInit, DeskLog
<1>6. Des!DeskDocsOK /\ Des!PriceLabelled
    BY <1>2, <1>3, <1>4, <1>5 DEF Des!DeskDocsOK, DeskService, DeskLog, Des!PriceLabelled
<1>7. Des!RequestsOK
    BY <1>4, DesAway DEF Des!RequestsOK
<1>8. Des!Delivered /\ Des!FormKept /\ Des!WillAgree
    BY <1>3, <1>4, DesAway DEF Des!Delivered, Des!FormKept, Des!WillAgree, Des!Delivering, Des!Asking
<1> QED BY <1>6, <1>7, <1>8 DEF Des!DeskInv

LEMMA DesBegin ==
    ASSUME Des!DeskInv, NEW d \in Firsts, NEW kind \in Des!Kinds, NEW password \in Des!Keys, Des!Begin(d, kind, password)
    PROVE  Des!DeskInv' /\ Des!MarkStep
<1> DEFINE r == [at |-> Des!FirstStep(kind), kind |-> kind, copy |-> v2, password |-> password]
<1>1. UNCHANGED <<v1, v2, v3>> /\ v4[d].at = "idle" /\ v4' = [v4 EXCEPT ![d] = r]
    BY DEF Des!Begin
<1>2. v5' \in DeskLog /\ v5'.parted = v5.parted /\ v5'.unpriced = v5.unpriced
    <2>1. v5.requests + 1 \in Nat /\ v5' = [v5 EXCEPT !.requests = v5.requests + 1]
        BY DesDocs DEF Des!Begin
    <2> QED BY <2>1, DesDocs, DesLog
<1>3. /\ Des!FirstStep(kind) \in {"call", "create", "save"}
      /\ Des!FirstStep(kind) = "call" <=> kind \in {"package", "password"}
      /\ Des!FirstStep(kind) = "create" <=> kind = "trigger"
    BY DEF Des!FirstStep
<1>4. r \in Des!Request /\ r.at = Des!FirstStep(kind) /\ r.kind = kind /\ r.password = password
    BY <1>3, DesDocs DEF Des!Request
<1> HIDE DEF r
<1>5. v4' \in [Firsts -> Des!Request] /\ v4'[d] = r /\ \A e \in Firsts \ {d} : v4'[e] = v4[e]
    BY <1>1, <1>4, DesDocs
<1>6. Des!DeskDocsOK' /\ Des!PriceLabelled'
    BY <1>1, <1>2, <1>5, DesDocs DEF Des!DeskInv, Des!DeskDocsOK, DeskLog, Des!PriceLabelled
<1>7. Des!RequestsOK'
    <2>1. /\ kind = "password" => password # Nobody
          /\ kind \notin {"password", "provision", "trigger"} => password = Nobody
        BY DEF Des!Begin
    <2>2. ASSUME NEW e \in Firsts
          PROVE  /\ v4'[e].at = "load" => v4'[e].kind = "trigger"
                 /\ v4'[e].at = "create" => v4'[e].kind \in {"trigger", "provision"}
                 /\ v4'[e].at = "call" => v4'[e].kind \in {"package", "password"}
                 /\ v4'[e].kind = "password" => v4'[e].password # Nobody
                 /\ v4'[e].kind \notin {"password", "provision", "trigger"} => v4'[e].password = Nobody
        <3>1. CASE e = d
            BY <1>3, <1>4, <1>5, <2>1, <3>1
        <3>2. CASE e # d
            BY <1>5, <3>2 DEF Des!DeskInv, Des!RequestsOK
        <3> QED BY <3>1, <3>2
    <2> QED BY <2>2 DEF Des!RequestsOK
<1>8. \A e \in Firsts : /\ (Des!Delivering(e)' <=> Des!Delivering(e)) /\ (Des!Asking(e)' <=> Des!Asking(e))
                        /\ Des!Delivering(e) \/ Des!Asking(e) => v4'[e].password = v4[e].password
    BY <1>1, <1>3, <1>4, <1>5 DEF Des!Delivering, Des!Asking
<1>9. Des!DeskInv'
    BY <1>1, <1>2, <1>6, <1>7, <1>8, DesCalm DEF Des!Exists
<1> QED BY <1>1, <1>9 DEF Des!MarkStep

\* A request that moves on, or ends, keeps what all requests keep.
LEMMA DesRequests ==
    ASSUME Des!DeskInv, NEW d \in Firsts, \A e \in Firsts \ {d} : v4'[e] = v4[e],
           \/ v4'[d].at = "idle" /\ v4'[d].kind = "notes" /\ v4'[d].password = Nobody
           \/ /\ v4'[d].at \in {"save", "activate"} \/ (v4'[d].at = "load" /\ v4[d].kind = "trigger")
                 \/ (v4'[d].at = "create" /\ v4[d].kind = "provision")
              /\ v4'[d].kind = v4[d].kind
              /\ v4'[d].password = v4[d].password \/ (v4'[d].password # Nobody /\ v4[d].kind \in {"provision", "trigger"})
    PROVE  Des!RequestsOK'
<1>1. ASSUME NEW e \in Firsts
      PROVE  /\ v4'[e].at = "load" => v4'[e].kind = "trigger"
             /\ v4'[e].at = "create" => v4'[e].kind \in {"trigger", "provision"}
             /\ v4'[e].at = "call" => v4'[e].kind \in {"package", "password"}
             /\ v4'[e].kind = "password" => v4'[e].password # Nobody
             /\ v4'[e].kind \notin {"password", "provision", "trigger"} => v4'[e].password = Nobody
    <2>1. CASE e = d
        BY <2>1 DEF Des!DeskInv, Des!RequestsOK
    <2>2. CASE e # d
        BY <2>2 DEF Des!DeskInv, Des!RequestsOK
    <2> QED BY <2>1, <2>2
<1> QED BY <1>1 DEF Des!RequestsOK

LEMMA DesCallPanel ==
    ASSUME Des!DeskInv, NEW d \in Firsts, Des!CallPanel(d)
    PROVE  Des!DeskInv' /\ Des!MarkStep
<1>0. /\ v4[d].at = "call" /\ v4[d].kind \in {"package", "password"} /\ UNCHANGED <<v1, v2>>
      /\ v4[d].kind = "password" => v4[d].password # Nobody
    BY DEF Des!CallPanel, Des!DeskInv, Des!RequestsOK
<1>1. Des!MarkStep
    BY <1>0 DEF Des!MarkStep
<1>2. CASE /\ Des!Ends(d)
           /\ \/ UNCHANGED <<v3, v5>>
              \/ /\ v3' = IF v4[d].kind = "password" THEN v4[d].password ELSE v3
                 /\ v5' = [v5 EXCEPT !.parted = @ \/ v4[d].kind = "password"]
    <2>1. /\ v4' \in [Firsts -> Des!Request] /\ \A e \in Firsts \ {d} : v4'[e] = v4[e]
          /\ v4'[d].at = "idle" /\ v4'[d].kind = "notes" /\ v4'[d].password = Nobody
        BY <1>2, DesDocs, DesEnds
    <2>2. Des!RequestsOK'
        BY <2>1, DesRequests
    <2>3. CASE UNCHANGED <<v3, v5>>
        <3>1. Des!DeskDocsOK' /\ Des!PriceLabelled'
            BY <1>0, <2>1, <2>3, DesDocs DEF Des!DeskInv, Des!DeskDocsOK, Des!PriceLabelled
        <3>2. \A e \in Firsts : /\ (Des!Delivering(e)' <=> Des!Delivering(e)) /\ (Des!Asking(e)' <=> Des!Asking(e))
                                /\ Des!Delivering(e) \/ Des!Asking(e) => v4'[e].password = v4[e].password
            BY <1>0, <2>1 DEF Des!Delivering, Des!Asking
        <3> QED BY <1>0, <1>1, <2>2, <2>3, <3>1, <3>2, DesCalm DEF Des!Exists
    <2>4. CASE /\ v3' = IF v4[d].kind = "password" THEN v4[d].password ELSE v3
               /\ v5' = [v5 EXCEPT !.parted = @ \/ v4[d].kind = "password"]
        <3>1. (v5.parted \/ v4[d].kind = "password") \in BOOLEAN
            OBVIOUS
        <3>2. /\ v5' \in DeskLog /\ v5'.unpriced = v5.unpriced /\ v5'.parted = (v5.parted \/ v4[d].kind = "password")
            BY <2>4, <3>1, DesDocs, DesLog
        <3>3. v3' \in Des!Keys
            BY <2>4, DesDocs
        <3>4. Des!DeskDocsOK' /\ Des!PriceLabelled'
            BY <1>0, <2>1, <3>2, <3>3, DesDocs DEF Des!DeskInv, Des!DeskDocsOK, Des!PriceLabelled, DeskLog
        <3>5. CASE v4[d].kind = "password"
            BY <1>1, <2>2, <3>2, <3>4, <3>5, DesParted
        <3>6. CASE v4[d].kind # "password"
            <4>1. \A e \in Firsts : /\ (Des!Delivering(e)' <=> Des!Delivering(e)) /\ (Des!Asking(e)' <=> Des!Asking(e))
                                    /\ Des!Delivering(e) \/ Des!Asking(e) => v4'[e].password = v4[e].password
                BY <1>0, <2>1 DEF Des!Delivering, Des!Asking
            <4>2. v3' = v3 /\ v5'.parted = v5.parted
                BY <2>4, <3>2, <3>6, DesDocs
            <4> QED BY <1>0, <1>1, <2>2, <3>4, <4>1, <4>2, DesCalm DEF Des!Exists
        <3> QED BY <3>5, <3>6
    <2> QED BY <1>2, <2>3, <2>4
<1>3. CASE /\ v3 # Nobody
           /\ v3' = IF v4[d].kind = "password" THEN v4[d].password ELSE v3
           /\ Des!Goto(d, "save") /\ v5' = [v5 EXCEPT !.parted = @ \/ (v4[d].kind = "password" /\ Des!Contested(d))]
    <2>1. /\ v4' \in [Firsts -> Des!Request] /\ \A e \in Firsts \ {d} : v4'[e] = v4[e]
          /\ v4'[d].at = "save" /\ v4'[d].kind = v4[d].kind /\ v4'[d].password = v4[d].password
        BY <1>3, DesDocs, DesGoto
    <2>2. Des!RequestsOK'
        BY <2>1, DesRequests
    <2>3. (v5.parted \/ (v4[d].kind = "password" /\ Des!Contested(d))) \in BOOLEAN
        BY DEF Des!Contested
    <2>4. /\ v5' \in DeskLog /\ v5'.unpriced = v5.unpriced
          /\ v5'.parted = (v5.parted \/ (v4[d].kind = "password" /\ Des!Contested(d)))
        BY <1>3, <2>3, DesDocs, DesLog
    <2>5. v3' \in Des!Keys
        BY <1>3, DesDocs
    <2>6. Des!DeskDocsOK' /\ Des!PriceLabelled'
        BY <1>0, <2>1, <2>4, <2>5, DesDocs DEF Des!DeskInv, Des!DeskDocsOK, Des!PriceLabelled, DeskLog
    <2>7. CASE v5'.parted
        BY <1>1, <2>2, <2>6, <2>7, DesParted
    <2>8. CASE v4[d].kind # "password"
        <3>1. \A e \in Firsts : /\ (Des!Delivering(e)' <=> Des!Delivering(e)) /\ (Des!Asking(e)' <=> Des!Asking(e))
                                /\ Des!Delivering(e) \/ Des!Asking(e) => v4'[e].password = v4[e].password
            BY <1>0, <2>1, <2>8 DEF Des!Delivering, Des!Asking
        <3>2. v3' = v3 /\ v5'.parted = v5.parted
            BY <1>3, <2>4, <2>8, DesDocs
        <3> QED BY <1>0, <1>1, <2>2, <2>6, <3>1, <3>2, DesCalm DEF Des!Exists
    <2>9. CASE v4[d].kind = "password" /\ ~v5'.parted
        <3>1. ~v5.parted /\ ~Des!Contested(d) /\ v3' = v4[d].password /\ v3' # Nobody
            BY <1>0, <1>3, <2>4, <2>9
        <3>2. \A e \in Firsts \ {d} : ~Des!Delivering(e)
            BY <3>1 DEF Des!Contested, Des!Midway, Des!Delivering
        <3>3. Des!Delivered'
            <4>1. \A e \in Firsts : Des!Delivering(e)' => e = d
                BY <2>1, <3>2 DEF Des!Delivering
            <4> QED BY <2>1, <3>1, <4>1 DEF Des!Delivered
        <3>4. Des!FormKept' /\ Des!WillAgree'
            <4>1. Des!Delivering(d)'
                BY <2>1, <2>9 DEF Des!Delivering
            <4> QED BY <3>1, <4>1 DEF Des!FormKept, Des!WillAgree
        <3> QED BY <1>1, <2>2, <2>6, <3>3, <3>4 DEF Des!DeskInv
    <2> QED BY <2>7, <2>8, <2>9
<1> QED BY <1>2, <1>3 DEF Des!CallPanel

\* A creation that fails and marks the service FAILED.
LEMMA DesNotMade ==
    ASSUME Des!DeskInv, NEW d \in Firsts, Des!NotMade(d)
    PROVE  v1' \in DeskService /\ v1'.priced = v1.priced /\ v1'.labelled = v1.labelled /\ (Des!Exists' => Des!Exists)
<1>1. /\ [v1 EXCEPT !.status = "open"] \in DeskService /\ [v1 EXCEPT !.status = "open"].priced = v1.priced
      /\ [v1 EXCEPT !.status = "open"].labelled = v1.labelled
    BY DesDocs DEF DeskService
<1> QED BY <1>1, DesDocs DEF Des!NotMade, Des!Exists

LEMMA DesCreate ==
    ASSUME Des!DeskInv, NEW d \in Firsts, Des!CreateAccount(d) \/ Des!CreateFails(d)
    PROVE  Des!DeskInv' /\ Des!MarkStep
<1>0. /\ v4[d].at = "create" /\ v4[d].kind \in {"trigger", "provision"} /\ UNCHANGED v2
    BY DEF Des!CreateAccount, Des!CreateFails, Des!DeskInv, Des!RequestsOK
<1>1. Des!MarkStep
    BY <1>0 DEF Des!MarkStep
<1>2. ASSUME Des!Ends(d), Des!NotMade(d), v3' \in Des!Keys, v5' \in DeskLog, v5'.unpriced = v5.unpriced,
             v5'.parted \/ (v3' = v3 /\ v4[d].kind = "trigger" /\ v5'.parted = v5.parted)
      PROVE  Des!DeskInv'
    <2>1. /\ v4' \in [Firsts -> Des!Request] /\ \A e \in Firsts \ {d} : v4'[e] = v4[e]
          /\ v4'[d].at = "idle" /\ v4'[d].kind = "notes" /\ v4'[d].password = Nobody
        BY <1>2, DesDocs, DesEnds
    <2>2. Des!RequestsOK'
        BY <2>1, DesRequests
    <2>4. v1' \in DeskService /\ v1'.priced = v1.priced /\ v1'.labelled = v1.labelled /\ (Des!Exists' => Des!Exists)
        BY <1>2, DesNotMade
    <2>5. Des!DeskDocsOK' /\ Des!PriceLabelled'
        BY <1>0, <1>2, <2>1, <2>4, DesDocs DEF Des!DeskInv, Des!DeskDocsOK, Des!PriceLabelled, DeskLog, DeskService
    <2>6. CASE v5'.parted
        BY <2>2, <2>5, <2>6, DesParted
    <2>7. CASE v3' = v3 /\ v4[d].kind = "trigger" /\ v5'.parted = v5.parted
        <3>1. \A e \in Firsts : /\ (Des!Delivering(e)' <=> Des!Delivering(e)) /\ (Des!Asking(e)' <=> Des!Asking(e))
                                /\ Des!Delivering(e) \/ Des!Asking(e) => v4'[e].password = v4[e].password
            BY <1>0, <2>1, <2>7 DEF Des!Delivering, Des!Asking
        <3> QED BY <1>0, <2>2, <2>4, <2>5, <2>7, <3>1, DesCalm
    <2> QED BY <1>2, <2>6, <2>7
<1>3. ASSUME Des!CreateFails(d) PROVE Des!DeskInv'
    <2>1. (v5.parted \/ v4[d].kind = "provision") \in BOOLEAN
        OBVIOUS
    <2>2. Des!Ends(d) /\ Des!NotMade(d) /\ v3' = v3 /\ v5' = [v5 EXCEPT !.parted = v5.parted \/ v4[d].kind = "provision"]
        BY <1>3 DEF Des!CreateFails
    <2>3. v5' \in DeskLog /\ v5'.unpriced = v5.unpriced /\ v5'.parted = (v5.parted \/ v4[d].kind = "provision")
        BY <2>1, <2>2, DesDocs, DesLog
    <2>4. v3' \in Des!Keys
        BY <2>2, DesDocs
    <2>5. v5'.parted \/ (v3' = v3 /\ v4[d].kind = "trigger" /\ v5'.parted = v5.parted)
        <3>1. CASE v4[d].kind = "provision"
            BY <2>3, <3>1
        <3>2. CASE v4[d].kind = "trigger"
            BY <2>2, <2>3, <3>2, DesDocs
        <3> QED BY <1>0, <3>1, <3>2
    <2> QED BY <1>2, <2>2, <2>3, <2>4, <2>5
<1>4. ASSUME NEW p \in Fourths \cup {v4[d].password}, v4[d].password # Nobody => p = v4[d].password, p # Nobody,
             v3' = IF v3 = Nobody THEN p ELSE v3
      PROVE  p \in Des!Keys /\ v3' \in Des!Keys /\ v3' # Nobody
    BY <1>4, DesDocs DEF Des!Keys
<1>5. ASSUME NEW p \in Des!Keys, v4[d].password # Nobody => p = v4[d].password, p # Nobody,
             v3' = (IF v3 = Nobody THEN p ELSE v3), v3' \in Des!Keys, v3' # Nobody,
             v4' = [v4 EXCEPT ![d].at = IF v4[d].kind = "trigger" THEN "load" ELSE "activate", ![d].password = p],
             v5' = [v5 EXCEPT !.parted = @ \/ v3 # Nobody \/ Des!Contested(d)
                                           \/ (v4[d].kind = "provision" /\ v4[d].password = Nobody)],
             UNCHANGED v1
      PROVE  Des!DeskInv'
    <2> DEFINE at == IF v4[d].kind = "trigger" THEN "load" ELSE "activate"
               r == [v4[d] EXCEPT !.at = at, !.password = p]
    <2>1. r \in Des!Request /\ r.at = at /\ r.kind = v4[d].kind /\ r.password = p
        <3>1. v4[d] \in Des!Request /\ p \in Des!Keys /\ at \in {"load", "activate"}
            BY <1>5, DesDocs
        <3> HIDE DEF at
        <3> QED BY <3>1 DEF Des!Request
    <2>2. v4' = [v4 EXCEPT ![d] = r]
        BY <1>5, DesDocs
    <2>3. v4' \in [Firsts -> Des!Request] /\ v4'[d] = r /\ \A e \in Firsts \ {d} : v4'[e] = v4[e]
        <3> HIDE DEF r
        <3> QED BY <2>1, <2>2, DesDocs
    <2>4. /\ v4'[d].at = at /\ v4'[d].kind = v4[d].kind /\ v4'[d].password = p
        <3> HIDE DEF r, at
        <3> QED BY <2>1, <2>3
    <2>5. Des!RequestsOK'
        BY <1>0, <1>5, <2>3, <2>4, DesRequests
    <2>6. (v5.parted \/ v3 # Nobody \/ Des!Contested(d) \/ (v4[d].kind = "provision" /\ v4[d].password = Nobody)) \in BOOLEAN
        BY DEF Des!Contested
    <2>7. /\ v5' \in DeskLog /\ v5'.unpriced = v5.unpriced
          /\ v5'.parted = (v5.parted \/ v3 # Nobody \/ Des!Contested(d) \/ (v4[d].kind = "provision" /\ v4[d].password = Nobody))
        BY <1>5, <2>6, DesDocs, DesLog
    <2>8. Des!DeskDocsOK' /\ Des!PriceLabelled'
        BY <1>0, <1>5, <2>3, <2>7, DesDocs DEF Des!DeskInv, Des!DeskDocsOK, Des!PriceLabelled, DeskLog
    <2>9. CASE v5'.parted
        BY <2>5, <2>8, <2>9, DesParted
    <2>10. CASE ~v5'.parted
        <3>1. /\ ~v5.parted /\ v3 = Nobody /\ ~Des!Contested(d) /\ v3' = p
              /\ v4[d].kind = "provision" => v4[d].password # Nobody
            BY <1>5, <2>7, <2>10
        <3>2. \A e \in Firsts \ {d} : ~Des!Delivering(e) /\ ~Des!Asking(e)
            BY <3>1 DEF Des!Contested, Des!Midway, Des!Delivering, Des!Asking
        <3>3. Des!Delivered'
            <4>1. \A e \in Firsts : Des!Delivering(e)' => e = d
                BY <2>3, <3>2 DEF Des!Delivering
            <4> QED BY <1>5, <2>4, <3>1, <4>1 DEF Des!Delivered
        <3>4. Des!FormKept'
            BY <1>5 DEF Des!FormKept
        <3>5. Des!WillAgree'
            <4>1. CASE v4[d].kind = "trigger"
                <5>1. Des!Delivering(d)'
                    BY <2>4, <4>1 DEF Des!Delivering
                <5> QED BY <5>1 DEF Des!WillAgree
            <4>2. CASE v4[d].kind = "provision"
                <5>1. ASSUME Des!Exists PROVE v2.password = v4[d].password
                    BY <1>0, <3>1, <3>2, <4>2, <5>1 DEF Des!DeskInv, Des!FormKept, Des!Asking
                <5> QED BY <1>0, <1>5, <3>1, <4>2, <5>1 DEF Des!WillAgree, Des!Exists
            <4> QED BY <1>0, <4>1, <4>2
        <3> QED BY <2>5, <2>8, <3>3, <3>4, <3>5 DEF Des!DeskInv
    <2> QED BY <2>9, <2>10
<1>6. ASSUME Des!CreateAccount(d) PROVE Des!DeskInv'
    <2>1. PICK p \in IF v4[d].password = Nobody THEN Fourths ELSE {v4[d].password} :
            /\ v3' = IF v3 = Nobody THEN p ELSE v3
            /\ \/ /\ v4' = [v4 EXCEPT ![d].at = IF v4[d].kind = "trigger" THEN "load" ELSE "activate", ![d].password = p]
                  /\ v5' = [v5 EXCEPT !.parted = @ \/ v3 # Nobody \/ Des!Contested(d)
                                                   \/ (v4[d].kind = "provision" /\ v4[d].password = Nobody)]
                  /\ UNCHANGED v1
               \/ Des!Ends(d) /\ Des!NotMade(d) /\ v5' = [v5 EXCEPT !.parted = TRUE]
        BY <1>6 DEF Des!CreateAccount
    <2>2. p \in Fourths \cup {v4[d].password} /\ (v4[d].password # Nobody => p = v4[d].password) /\ p # Nobody
        BY <2>1, DesAway
    <2>3. p \in Des!Keys /\ v3' \in Des!Keys /\ v3' # Nobody
        BY <1>4, <2>1, <2>2
    <2>4. CASE Des!Ends(d) /\ Des!NotMade(d) /\ v5' = [v5 EXCEPT !.parted = TRUE]
        <3>1. v5' \in DeskLog /\ v5'.unpriced = v5.unpriced /\ v5'.parted
            BY <2>4, DesDocs, DesLog
        <3> QED BY <1>2, <2>3, <2>4, <3>1
    <2>5. CASE /\ v4' = [v4 EXCEPT ![d].at = IF v4[d].kind = "trigger" THEN "load" ELSE "activate", ![d].password = p]
               /\ v5' = [v5 EXCEPT !.parted = @ \/ v3 # Nobody \/ Des!Contested(d)
                                                \/ (v4[d].kind = "provision" /\ v4[d].password = Nobody)]
               /\ UNCHANGED v1
        BY <1>5, <2>1, <2>2, <2>3, <2>5
    <2> QED BY <2>1, <2>4, <2>5
<1> QED BY <1>1, <1>3, <1>6

LEMMA DesLoad ==
    ASSUME Des!DeskInv, NEW d \in Firsts, Des!Load(d)
    PROVE  Des!DeskInv' /\ Des!MarkStep
<1>0. v4[d].at = "load" /\ v4[d].kind = "trigger" /\ UNCHANGED <<v2, v3, v5>>
    BY DEF Des!Load, Des!DeskInv, Des!RequestsOK
<1>1. Des!MarkStep
    BY <1>0 DEF Des!MarkStep
<1>2. CASE Des!Exists
    <2> DEFINE r == [v4[d] EXCEPT !.at = "save", !.copy = v2]
    <2>1. r \in Des!Request /\ r.at = "save" /\ r.kind = v4[d].kind /\ r.password = v4[d].password
        BY DesDocs DEF Des!Request
    <2>2. v4' = [v4 EXCEPT ![d] = r] /\ v1' = [v1 EXCEPT !.linked = TRUE]
        BY <1>2, DesDocs DEF Des!Load
    <2> HIDE DEF r
    <2>3. /\ v4' \in [Firsts -> Des!Request] /\ \A e \in Firsts \ {d} : v4'[e] = v4[e]
          /\ v4'[d].at = "save" /\ v4'[d].kind = v4[d].kind /\ v4'[d].password = v4[d].password
        BY <2>1, <2>2, DesDocs
    <2>4. v1' \in DeskService /\ v1'.priced = v1.priced /\ v1'.labelled = v1.labelled
        BY <2>2, DesDocs DEF DeskService
    <2>5. Des!DeskDocsOK' /\ Des!PriceLabelled'
        BY <1>0, <2>3, <2>4, DesDocs DEF Des!DeskInv, Des!DeskDocsOK, Des!PriceLabelled, DeskLog, DeskService
    <2>6. Des!RequestsOK'
        BY <2>3, DesRequests
    <2>7. \A e \in Firsts : /\ (Des!Delivering(e)' <=> Des!Delivering(e)) /\ (Des!Asking(e)' <=> Des!Asking(e))
                            /\ Des!Delivering(e) \/ Des!Asking(e) => v4'[e].password = v4[e].password
        BY <1>0, <2>3 DEF Des!Delivering, Des!Asking
    <2> QED BY <1>0, <1>1, <1>2, <2>5, <2>6, <2>7, DesCalm
<1>3. CASE ~Des!Exists
    <2>1. v1' = v1 /\ Des!Ends(d)
        BY <1>3 DEF Des!Load
    <2>2. /\ v4' \in [Firsts -> Des!Request] /\ \A e \in Firsts \ {d} : v4'[e] = v4[e]
          /\ v4'[d].at = "idle" /\ v4'[d].kind = "notes" /\ v4'[d].password = Nobody
        BY <2>1, DesDocs, DesEnds
    <2>3. Des!DeskDocsOK' /\ Des!PriceLabelled'
        BY <1>0, <2>1, <2>2, DesDocs DEF Des!DeskInv, Des!DeskDocsOK, Des!PriceLabelled
    <2>4. Des!RequestsOK'
        BY <2>2, DesRequests
    <2>5. ~Des!Exists'
        BY <1>3, <2>1 DEF Des!Exists
    <2>6. Des!Delivered'
        BY <1>0, <2>2 DEF Des!DeskInv, Des!Delivered, Des!Delivering
    <2> QED BY <1>1, <2>3, <2>4, <2>5, <2>6 DEF Des!DeskInv, Des!FormKept, Des!WillAgree
<1> QED BY <1>2, <1>3

\* What a save leaves of meta, and of what is known of the two passwords.
LEMMA DesWrites ==
    ASSUME Des!DeskInv, NEW d \in Firsts, NEW unpriced \in BOOLEAN, Des!Write(d, unpriced)
    PROVE  /\ v2' \in Des!Meta /\ v5' \in DeskLog
           /\ Des!Exists => v2'.password = IF v4[d].password = Nobody THEN v4[d].copy.password ELSE v4[d].password
           /\ ~Des!Exists => v2' = v2
           /\ \A mark \in v2.marks \ v2'.marks : mark \notin v4[d].copy.marks
           /\ v5.parted => v5'.parted
           /\ v5'.parted \/ v2 = v4[d].copy \/ v2'.password = v2.password
           /\ v5'.unpriced = (v5.unpriced \/ unpriced)
<1>1. Des!MarkOf(v4[d].kind) \in Des!Marks
    BY DesDocs DEF Des!MarkOf, Des!Marks, Des!Edits
<1>2. /\ v4[d].copy.marks \subseteq Des!Marks /\ v4[d].copy.password \in Des!Keys
    BY DesDocs DEF Des!Meta
<1>3. /\ Des!Merged(d, v4[d].password) \in Des!Meta
      /\ Des!Merged(d, v4[d].password).password = IF v4[d].password = Nobody THEN v4[d].copy.password ELSE v4[d].password
      /\ v4[d].copy.marks \subseteq Des!Merged(d, v4[d].password).marks
    BY <1>1, <1>2, DesDocs DEF Des!Merged, Des!Meta
<1>4. v2' = IF Des!Exists THEN Des!Merged(d, v4[d].password) ELSE v2
    BY DEF Des!Write
<1>5. (v5.parted \/ (v2 # v4[d].copy /\ v2'.password # v2.password)) \in BOOLEAN /\ (v5.unpriced \/ unpriced) \in BOOLEAN
    OBVIOUS
<1>6. v5' = [v5 EXCEPT !.parted = v5.parted \/ (v2 # v4[d].copy /\ v2'.password # v2.password),
                       !.unpriced = v5.unpriced \/ unpriced]
    BY DEF Des!Write
<1>7. /\ v5' \in DeskLog /\ v5'.parted = (v5.parted \/ (v2 # v4[d].copy /\ v2'.password # v2.password))
      /\ v5'.unpriced = (v5.unpriced \/ unpriced)
    BY <1>5, <1>6, DesDocs, DesLog
<1> QED BY <1>3, <1>4, <1>7, DesDocs

LEMMA DesSaved ==
    ASSUME Des!DeskInv, NEW d \in Firsts, v4[d].at = "save", NEW unpriced \in BOOLEAN, Des!Write(d, unpriced), v3' = v3,
           v1' \in DeskService, v5'.unpriced \/ v1'.priced = v1'.labelled, Des!Exists' => Des!Exists,
           v4[d].kind # "provision" => Des!Ends(d), v4[d].kind = "provision" => Des!Goto(d, "create")
    PROVE  Des!DeskInv' /\ Des!MarkStep
<1>1. /\ v2' \in Des!Meta /\ v5' \in DeskLog
      /\ Des!Exists => v2'.password = IF v4[d].password = Nobody THEN v4[d].copy.password ELSE v4[d].password
      /\ ~Des!Exists => v2' = v2
      /\ \A mark \in v2.marks \ v2'.marks : mark \notin v4[d].copy.marks
      /\ v5.parted => v5'.parted
      /\ v5'.parted \/ v2 = v4[d].copy \/ v2'.password = v2.password
    BY DesWrites
<1>2. /\ v4' \in [Firsts -> Des!Request] /\ \A e \in Firsts \ {d} : v4'[e] = v4[e]
      /\ \/ v4[d].kind # "provision" /\ v4'[d].at = "idle" /\ v4'[d].kind = "notes" /\ v4'[d].password = Nobody
         \/ /\ v4[d].kind = "provision" /\ v4'[d].at = "create" /\ v4'[d].kind = "provision"
            /\ v4'[d].password = v4[d].password
    <2>1. CASE v4[d].kind # "provision"
        BY <2>1, DesDocs, DesEnds
    <2>2. CASE v4[d].kind = "provision"
        BY <2>2, DesDocs, DesGoto
    <2> QED BY <2>1, <2>2
<1>3. Des!MarkStep
    BY <1>1, <1>2 DEF Des!MarkStep
<1>4. Des!RequestsOK'
    BY <1>2, DesRequests
<1>5. Des!DeskDocsOK' /\ Des!PriceLabelled'
    BY <1>1, <1>2, DesDocs DEF Des!DeskDocsOK, Des!PriceLabelled, DeskLog, DeskService
<1>6. CASE v5'.parted
    BY <1>3, <1>4, <1>5, <1>6, DesParted
<1>7. ASSUME ~v5'.parted PROVE Des!DeskInv'
    <2>1. ~v5.parted
        BY <1>1, <1>7
    <2>2. ~Des!Delivering(d)'
        BY <1>2 DEF Des!Delivering
    <2>3. Des!Delivered'
        BY <1>2, <2>1, <2>2 DEF Des!DeskInv, Des!Delivered, Des!Delivering
    <2>4. CASE ~Des!Exists
        BY <1>4, <1>5, <2>3, <2>4 DEF Des!DeskInv, Des!FormKept, Des!WillAgree
    <2>5. CASE Des!Exists /\ v4[d].kind \in {"password", "trigger"}
        <3>1. v3 = v4[d].password /\ v3 # Nobody
            BY <2>1, <2>5 DEF Des!DeskInv, Des!Delivered, Des!Delivering
        <3>2. v2'.password = v3'
            BY <1>1, <2>5, <3>1
        <3> QED BY <1>4, <1>5, <2>3, <3>1, <3>2 DEF Des!DeskInv, Des!FormKept, Des!WillAgree
    <2>6. CASE Des!Exists /\ v4[d].kind = "provision"
        <3>1. Des!Asking(d)' /\ v4'[d].password = v4[d].password
            BY <1>2, <2>6 DEF Des!Asking
        <3>2. v4[d].password # Nobody => v2'.password = v4[d].password
            BY <1>1, <2>6
        <3>3. Des!WillAgree'
            BY <3>1 DEF Des!WillAgree
        <3>4. Des!FormKept'
            <4> SUFFICES ASSUME NEW e \in Firsts, v4'[e].password # Nobody, \A f \in Firsts \ {e} : ~Des!Asking(f)'
                         PROVE  v2'.password = v4'[e].password
                BY DEF Des!FormKept
            <4>1. e = d
                BY <3>1
            <4> QED BY <3>1, <3>2, <4>1
        <3> QED BY <1>4, <1>5, <2>3, <3>3, <3>4 DEF Des!DeskInv
    <2>7. CASE Des!Exists /\ v4[d].kind \notin {"password", "trigger", "provision"}
        <3>1. v4[d].password = Nobody
            BY <2>7 DEF Des!DeskInv, Des!RequestsOK
        <3>2. v2'.password = v2.password
            BY <1>1, <1>7, <2>7, <3>1
        <3>3. \A e \in Firsts : /\ (Des!Delivering(e)' <=> Des!Delivering(e)) /\ (Des!Asking(e)' <=> Des!Asking(e))
                                /\ Des!Delivering(e) \/ Des!Asking(e) => v4'[e].password = v4[e].password
            BY <1>2, <2>7 DEF Des!Delivering, Des!Asking
        <3>4. v5'.parted = v5.parted \/ v5'.parted
            BY <1>7, <2>1, <1>1, DesDocs DEF DeskLog
        <3> QED BY <1>4, <1>5, <3>2, <3>3, <3>4, DesCalm
    <2> QED BY <2>4, <2>5, <2>6, <2>7
<1> QED BY <1>3, <1>6, <1>7

LEMMA DesSave ==
    ASSUME Des!DeskInv, NEW d \in Firsts, Des!Save(d)
    PROVE  Des!DeskInv' /\ Des!MarkStep
<1>1. /\ v4[d].at = "save" /\ Des!Write(d, FALSE) /\ v3' = v3
      /\ v4[d].kind # "provision" => Des!Ends(d)
      /\ v4[d].kind = "provision" => Des!Goto(d, "create")
    BY DEF Des!Save
<1>2. \/ v1' = v1
      \/ Des!Exists /\ v1' = [v1 EXCEPT !.status = "CANCELLED"]
      \/ Des!Exists /\ v1' = [v1 EXCEPT !.status = "ACTIVE"]
      \/ Des!Exists /\ v1' = [v1 EXCEPT !.linked = TRUE]
    BY DEF Des!Save
<1>3. /\ \A s \in {"CANCELLED", "ACTIVE"} : /\ [v1 EXCEPT !.status = s] \in DeskService
                                            /\ [v1 EXCEPT !.status = s].priced = v1.priced
                                            /\ [v1 EXCEPT !.status = s].labelled = v1.labelled
      /\ [v1 EXCEPT !.linked = TRUE] \in DeskService
      /\ [v1 EXCEPT !.linked = TRUE].priced = v1.priced /\ [v1 EXCEPT !.linked = TRUE].labelled = v1.labelled
    BY DesDocs DEF DeskService
<1>4. v1' \in DeskService /\ v1'.priced = v1.priced /\ v1'.labelled = v1.labelled /\ (Des!Exists' => Des!Exists)
    BY <1>2, <1>3, DesDocs DEF Des!Exists
<1>5. v5'.unpriced \/ v1'.priced = v1'.labelled
    BY <1>1, <1>4, DesWrites DEF Des!DeskInv, Des!PriceLabelled
<1> QED BY <1>1, <1>4, <1>5, DesSaved

LEMMA DesSaveProfile ==
    ASSUME Des!DeskInv, NEW d \in Firsts, Des!SaveProfile(d)
    PROVE  Des!DeskInv' /\ Des!MarkStep
<1>1. v4[d].at = "save" /\ v4[d].kind = "profile" /\ Des!Ends(d) /\ v3' = v3
    BY DEF Des!SaveProfile
<1>2. CASE UNCHANGED v1 /\ Des!Write(d, FALSE)
    <2>1. v1' \in DeskService /\ (v5'.unpriced \/ v1'.priced = v1'.labelled) /\ (Des!Exists' => Des!Exists)
        BY <1>2, DesDocs, DesWrites DEF Des!DeskInv, Des!PriceLabelled, Des!Exists
    <2> QED BY <1>1, <1>2, <2>1, DesSaved
<1>3. \A p, l \in Codes : /\ [v1 EXCEPT !.priced = p, !.labelled = l] \in DeskService
                          /\ [v1 EXCEPT !.priced = p, !.labelled = l].priced = p
                          /\ [v1 EXCEPT !.priced = p, !.labelled = l].labelled = l
    BY DesDocs DEF DeskService
<1>4. ASSUME NEW code \in Codes, Des!Exists, Des!Write(d, FALSE), v1' = [v1 EXCEPT !.priced = code, !.labelled = code]
      PROVE  Des!DeskInv' /\ Des!MarkStep
    <2>1. v1' \in DeskService /\ v1'.priced = v1'.labelled
        BY <1>3, <1>4
    <2> QED BY <1>1, <1>4, <2>1, DesSaved
<1>5. ASSUME NEW priced \in SUBSET Codes, NEW asked \in Codes, NEW code \in Des!Rows(priced, asked), Des!Exists,
             Des!Write(d, asked \notin priced), v1' = [v1 EXCEPT !.priced = code, !.labelled = asked]
      PROVE  Des!DeskInv' /\ Des!MarkStep
    <2>1. code \in Codes /\ (asked \in priced => code = asked)
        BY DEF Des!Rows
    <2>2. (asked \notin priced) \in BOOLEAN
        OBVIOUS
    <2>3. v1' \in DeskService /\ v1'.priced = code /\ v1'.labelled = asked
        BY <1>3, <1>5, <2>1
    <2>4. v5'.unpriced = (v5.unpriced \/ asked \notin priced)
        BY <1>5, <2>2, DesWrites
    <2>5. v5'.unpriced \/ v1'.priced = v1'.labelled
        BY <2>1, <2>3, <2>4
    <2> QED BY <1>1, <1>5, <2>2, <2>3, <2>5, DesSaved
<1> QED BY <1>2, <1>4, <1>5 DEF Des!SaveProfile

LEMMA DesOthers ==
    ASSUME Des!DeskInv, \/ \E d \in Firsts : Des!Activate(d) \/ Des!Dies(d)
                        \/ \E status \in {"open", "ACTIVE", "CANCELLED", "gone"} : Des!SetStatus(status)
                        \/ UNCHANGED Des!deskVars
    PROVE  Des!DeskInv' /\ Des!MarkStep
<1>0. UNCHANGED <<v2, v3>>
    BY DEF Des!Activate, Des!Dies, Des!SetStatus, Des!deskVars
<1>1. Des!MarkStep
    BY <1>0 DEF Des!MarkStep
<1>2. ASSUME NEW d \in Firsts, Des!Activate(d) PROVE Des!DeskInv'
    <2>1. /\ v4' \in [Firsts -> Des!Request] /\ \A e \in Firsts \ {d} : v4'[e] = v4[e]
          /\ v4'[d].at = "idle" /\ v4'[d].kind = "notes" /\ v4'[d].password = Nobody
        BY <1>2, DesDocs, DesEnds DEF Des!Activate
    <2>2. Des!RequestsOK'
        BY <2>1, DesRequests
    <2>3. /\ [v1 EXCEPT !.status = "ACTIVE", !.linked = TRUE] \in DeskService
          /\ [v1 EXCEPT !.status = "ACTIVE", !.linked = TRUE].priced = v1.priced
          /\ [v1 EXCEPT !.status = "ACTIVE", !.linked = TRUE].labelled = v1.labelled
        BY DesDocs DEF DeskService
    <2>4. /\ v1' = IF Des!Exists THEN [v1 EXCEPT !.status = "ACTIVE", !.linked = TRUE] ELSE v1
          /\ v5' = v5 /\ v4[d].at = "activate"
        BY <1>2 DEF Des!Activate
    <2>5. v1' \in DeskService /\ v1'.priced = v1.priced /\ v1'.labelled = v1.labelled /\ (Des!Exists' => Des!Exists)
        BY <2>3, <2>4, DesDocs DEF Des!Exists
    <2>6. Des!DeskDocsOK' /\ Des!PriceLabelled'
        BY <1>0, <2>1, <2>4, <2>5, DesDocs DEF Des!DeskInv, Des!DeskDocsOK, Des!PriceLabelled, DeskLog, DeskService
    <2>7. \A e \in Firsts : /\ (Des!Delivering(e)' <=> Des!Delivering(e)) /\ (Des!Asking(e)' <=> Des!Asking(e))
                            /\ Des!Delivering(e) \/ Des!Asking(e) => v4'[e].password = v4[e].password
        BY <2>1, <2>4 DEF Des!Delivering, Des!Asking
    <2> QED BY <1>0, <2>2, <2>4, <2>5, <2>6, <2>7, DesCalm
<1>3. ASSUME NEW d \in Firsts, Des!Dies(d) PROVE Des!DeskInv'
    <2>1. /\ v4' \in [Firsts -> Des!Request] /\ \A e \in Firsts \ {d} : v4'[e] = v4[e]
          /\ v4'[d].at = "idle" /\ v4'[d].kind = "notes" /\ v4'[d].password = Nobody
        BY <1>3, DesDocs, DesEnds DEF Des!Dies
    <2>2. Des!RequestsOK'
        BY <2>1, DesRequests
    <2>3. (v5.parted \/ Des!Midway(d)) \in BOOLEAN
        BY DEF Des!Midway
    <2>4. v5' \in DeskLog /\ v5'.parted = (v5.parted \/ Des!Midway(d)) /\ v5'.unpriced = v5.unpriced
        <3>1. v5' = [v5 EXCEPT !.parted = v5.parted \/ Des!Midway(d)]
            BY <1>3 DEF Des!Dies
        <3> QED BY <2>3, <3>1, DesDocs, DesLog
    <2>5. v1' = v1
        BY <1>3 DEF Des!Dies
    <2>6. Des!DeskDocsOK' /\ Des!PriceLabelled'
        BY <1>0, <2>1, <2>4, <2>5, DesDocs DEF Des!DeskInv, Des!DeskDocsOK, Des!PriceLabelled, DeskLog, DeskService
    <2>7. CASE v5'.parted
        BY <2>2, <2>6, <2>7, DesParted
    <2>8. CASE ~v5'.parted
        <3>1. ~Des!Midway(d) /\ v5'.parted = v5.parted
            BY <2>4, <2>8, DesDocs
        <3>2. \A e \in Firsts : /\ (Des!Delivering(e)' <=> Des!Delivering(e)) /\ (Des!Asking(e)' <=> Des!Asking(e))
                                /\ Des!Delivering(e) \/ Des!Asking(e) => v4'[e].password = v4[e].password
            BY <2>1, <3>1 DEF Des!Delivering, Des!Asking, Des!Midway
        <3> QED BY <1>0, <2>2, <2>5, <2>6, <3>1, <3>2, DesCalm DEF Des!Exists
    <2> QED BY <2>7, <2>8
<1>4. ASSUME UNCHANGED <<v4, v5>>, v1' \in DeskService, v1'.priced = v1.priced, v1'.labelled = v1.labelled, Des!Exists' => Des!Exists
      PROVE  Des!DeskInv'
    <2>1. Des!DeskDocsOK' /\ Des!PriceLabelled' /\ Des!RequestsOK'
        BY <1>0, <1>4, DesDocs DEF Des!DeskInv, Des!DeskDocsOK, Des!PriceLabelled, Des!RequestsOK, DeskLog, DeskService
    <2>2. \A e \in Firsts : /\ (Des!Delivering(e)' <=> Des!Delivering(e)) /\ (Des!Asking(e)' <=> Des!Asking(e))
                            /\ Des!Delivering(e) \/ Des!Asking(e) => v4'[e].password = v4[e].password
        BY <1>4 DEF Des!Delivering, Des!Asking
    <2> QED BY <1>0, <1>4, <2>1, <2>2, DesCalm
<1>5. ASSUME NEW status \in {"open", "ACTIVE", "CANCELLED", "gone"}, Des!SetStatus(status) PROVE Des!DeskInv'
    <2>1. /\ [v1 EXCEPT !.status = status] \in DeskService /\ [v1 EXCEPT !.status = status].priced = v1.priced
          /\ [v1 EXCEPT !.status = status].labelled = v1.labelled
        BY DesDocs DEF DeskService
    <2> QED BY <1>4, <1>5, <2>1 DEF Des!SetStatus
<1>6. ASSUME UNCHANGED Des!deskVars PROVE Des!DeskInv'
    BY <1>4, <1>6, DesDocs DEF Des!deskVars, Des!Exists
<1> QED BY <1>1, <1>2, <1>3, <1>5, <1>6

LEMMA DesNext == Des!DeskInv /\ [Des!DeskNext]_(Des!deskVars) => Des!DeskInv' /\ Des!MarkStep
BY DesBegin, DesCallPanel, DesCreate, DesLoad, DesSave, DesSaveProfile, DesOthers DEF Des!DeskNext

LEMMA DesImplies == Des!DeskInv => Des!RevealedOpens /\ Des!PriceLabelled
<1> SUFFICES ASSUME Des!DeskInv, Des!Exists, v3 # Nobody, ~v5.parted, \A d \in Firsts : ~Des!Midway(d)
             PROVE  v2.password = v3
    BY DEF Des!DeskInv, Des!RevealedOpens, Des!Revealed
<1>1. \A d \in Firsts : ~Des!Delivering(d) /\ ~Des!Asking(d)
    BY DEF Des!Midway, Des!Delivering, Des!Asking
<1> QED BY <1>1 DEF Des!DeskInv, Des!WillAgree

-----------------------------------------------------------------------------
\* BusinessSpec => EditsKept: a form without a token keeps the one that is stored, and a save of a
\* service takes what another noted on it only if it had read the service before (server.service.ts
\* updateServer, service-admin.service.ts updateForAdmin).
THEOREM BusinessEditsKept == BusinessSpec => EditsKept
<1> DEFINE I == (scenario \in Machinery => PanInv) /\ (scenario = "services" => Des!DeskInv)
<1>1. BusinessInit => I
    BY PanInit, DesInit DEF BusinessInit, Senders, Routers, Shelves, Machinery
<1>2. I /\ [BusinessNext]_businessVars => /\ I'
                                          /\ scenario \in Machinery => Pan!TokenStep
                                          /\ scenario = "services" => Des!MarkStep
    <2> SUFFICES ASSUME I, [BusinessNext]_businessVars
                 PROVE  /\ scenario' = scenario
                        /\ scenario \in Machinery => PanInv' /\ Pan!TokenStep
                        /\ scenario = "services" => Des!DeskInv' /\ Des!MarkStep
        OBVIOUS
    <2>1. scenario' = scenario
        BY DEF BusinessNext, businessVars
    <2>2. ASSUME scenario \in Machinery PROVE PanInv' /\ Pan!TokenStep
        <3>1. CASE BusinessStep
            <4>1. Pan!EditNext \/ Pan!CallNext \/ Pan!MeanwhileNext
                BY <2>2, <3>1 DEF BusinessStep, Senders, Routers, Shelves, Machinery
            <4>2. Pan!MeanwhileNext => Pan!EditNext
                BY DEF Pan!MeanwhileNext, Pan!EditNext
            <4> QED BY <2>2, <4>1, <4>2, PanEdits, PanCalls
        <3>2. CASE UNCHANGED businessVars
            <4>1. UNCHANGED v1 /\ UNCHANGED v2 /\ UNCHANGED v3 /\ UNCHANGED v4 /\ UNCHANGED v5
                BY <3>2 DEF businessVars, shared
            <4> QED BY <2>2, <4>1, PanReads DEF PanInv, Pan!PanelTypeOK
        <3> QED BY <3>1, <3>2 DEF BusinessNext
    <2>3. ASSUME scenario = "services" PROVE Des!DeskInv' /\ Des!MarkStep
        <3>1. CASE BusinessStep
            BY <2>3, <3>1, DesNext DEF BusinessStep, Senders, Routers, Shelves, Machinery
        <3>2. CASE UNCHANGED businessVars
            <4>1. UNCHANGED Des!deskVars
                BY <3>2 DEF businessVars, shared, Des!deskVars
            <4> QED BY <2>3, <4>1, DesNext
        <3> QED BY <3>1, <3>2 DEF BusinessNext
    <2> QED BY <2>1, <2>2, <2>3
<1>3. (scenario \in Machinery => Pan!TokenStep) /\ (scenario = "services" => Des!MarkStep)
      => [/\ scenario \in Machinery => Pan!TokenStep
          /\ scenario = "services" => Des!MarkStep]_businessVars
    OBVIOUS
<1> QED BY <1>1, <1>2, <1>3, PTL DEF BusinessSpec, EditsKept
-----------------------------------------------------------------------------
(* The book of invoices: v1 book, v2 clerk, v3 sweep, v4 logs, v5 mails,    *)
(* v6 account.                                                              *)

BookAccount == [begun : Nat, edited : SUBSET Ones, unlogged : SUBSET (Ones \X Boo!Kinds)]

LEMMA BooBlank == /\ Boo!Unpaid \in Boo!BillDoc /\ Boo!Ask \in Boo!ClerkDoc /\ Boo!Asleep \in Boo!SweepDoc
                  /\ Boo!Ask.at = "idle" /\ Boo!Asleep.at = "idle" /\ Boo!Harmless(Boo!Ask) /\ Boo!Unpaid.fees = 0
<1>1. Boo!Unpaid \in Boo!BillDoc /\ Boo!Unpaid.fees = 0
    BY BookAssumption DEF Boo!Unpaid, Boo!BillDoc, Boo!BookStates, Boo!BookBounds
<1>2. Boo!Ask \in Boo!ClerkDoc /\ Boo!Ask.at = "idle"
    BY <1>1 DEF Boo!Ask, Boo!ClerkDoc
<1>3. [b \in Ones |-> Boo!Unpaid] \in [Ones -> Boo!BillDoc]
    BY <1>1
<1>4. Boo!Asleep \in Boo!SweepDoc /\ Boo!Asleep.at = "idle"
    BY <1>3 DEF Boo!Asleep, Boo!SweepDoc
<1> QED BY <1>1, <1>2, <1>4 DEF Boo!Harmless

\* The fields of an invoice, one write at a time.
LEMMA BooFields ==
    ASSUME NEW d \in Boo!BillDoc
    PROVE  /\ \A s \in Boo!BookStates : [d EXCEPT !.status = s] \in Boo!BillDoc /\ [d EXCEPT !.status = s].status = s
                                        /\ [d EXCEPT !.status = s].fees = d.fees
           /\ \A n \in 0 .. 1 : [d EXCEPT !.age = n] \in Boo!BillDoc /\ [d EXCEPT !.age = n].status = d.status
                                /\ [d EXCEPT !.age = n].fees = d.fees
           /\ \A i, f \in Nat : [d EXCEPT !.items = i, !.fees = f] \in Boo!BillDoc
                                /\ [d EXCEPT !.items = i, !.fees = f].status = d.status
           /\ \A n \in Nat : [d EXCEPT !.credit = n] \in Boo!BillDoc /\ [d EXCEPT !.credit = n].status = d.status
                             /\ [d EXCEPT !.credit = n].fees = d.fees
BY DEF Boo!BillDoc

LEMMA BooHook ==
    ASSUME NEW d \in Boo!BillDoc
    PROVE  Boo!Hook(d) \in Boo!BillDoc /\ Boo!Hook(d).status = d.status /\ Boo!Hook(d).fees = d.fees
<1>1. d.items \in Nat /\ d.fees \in Nat /\ d.credit \in Nat
    BY DEF Boo!BillDoc
<1>2. d.items + d.fees \in Nat /\ d.items + d.fees - d.credit \in Int
    BY <1>1
<1>3. \A t \in Nat, n \in Int : /\ [d EXCEPT !.total = t, !.balance = n] \in Boo!BillDoc
                                /\ [d EXCEPT !.total = t, !.balance = n].status = d.status
                                /\ [d EXCEPT !.total = t, !.balance = n].fees = d.fees
    BY DEF Boo!BillDoc
<1> QED BY <1>2, <1>3 DEF Boo!Hook

\* A save writes the fields that changed and leaves the others as they are now.
LEMMA BooStored ==
    ASSUME NEW b, v1[b] \in Boo!BillDoc, NEW read \in Boo!BillDoc, NEW mem \in Boo!BillDoc
    PROVE  /\ Boo!Stored(b, read, mem) \in Boo!BillDoc
           /\ Boo!Stored(b, read, mem).status = IF mem.status = read.status THEN v1[b].status ELSE mem.status
           /\ Boo!Stored(b, read, mem).fees = IF mem.fees = read.fees THEN v1[b].fees ELSE mem.fees
<1> DEFINE h == Boo!Hook(mem)
           d == v1[b]
           S == Boo!Stored(b, read, mem)
           W(x, y, z) == IF x = y THEN z ELSE x
           R == [status |-> W(h.status, read.status, d.status), items |-> W(h.items, read.items, d.items),
                 fees |-> W(h.fees, read.fees, d.fees), credit |-> W(h.credit, read.credit, d.credit),
                 total |-> W(h.total, read.total, d.total), balance |-> W(h.balance, read.balance, d.balance),
                 age |-> W(h.age, read.age, d.age), version |-> W(h.version, read.version, d.version)]
           F == {"status", "items", "fees", "credit", "total", "balance", "age", "version"}
<1>1. h \in Boo!BillDoc /\ h.status = mem.status /\ h.fees = mem.fees
    BY BooHook
<1>2. DOMAIN mem = F
    BY DEF Boo!BillDoc
<1>3. R \in Boo!BillDoc
    BY <1>1 DEF Boo!BillDoc
<1>4. S = [f \in F |-> IF h[f] = read[f] THEN v1[b][f] ELSE h[f]]
    BY <1>2 DEF Boo!Stored
<1>5. R = [f \in F |-> R[f]]
    OBVIOUS
<1>6. \A f \in F : R[f] = IF h[f] = read[f] THEN v1[b][f] ELSE h[f]
    OBVIOUS
<1>7. S = R
    BY <1>4, <1>5, <1>6
<1> QED BY <1>1, <1>3, <1>7

\* What a request makes of the invoice it read.
LEMMA BooAsked ==
    ASSUME NEW d \in Boo!BillDoc, NEW m \in Boo!ClerkDoc, m.at = "read", Boo!Harmless(m), ~Boo!Refused(d, m)
    PROVE  /\ Boo!Asked(d, m) \in Boo!BillDoc
           /\ m.kind # "status" => Boo!Asked(d, m).status \in {d.status, "PAID"}
           /\ m.kind # "items" => Boo!Asked(d, m).fees = d.fees
<1>0. /\ d.total \in Nat /\ d.credit \in Nat /\ m.amount \in Nat /\ d.status \in Boo!BookStates /\ m.kind # "none"
      /\ m.kind \in {"none", "status", "pay", "items", "credit", "dates"}
    BY DEF Boo!BillDoc, Boo!ClerkDoc, Boo!Harmless
<1>1. CASE m.kind = "status"
    <2>0. \A x \in Boo!BookStates, y \in Int, z \in Nat :
             /\ [d EXCEPT !.status = x, !.balance = y, !.credit = z] \in Boo!BillDoc
             /\ [d EXCEPT !.status = x, !.balance = y, !.credit = z].fees = d.fees
        BY DEF Boo!BillDoc
    <2>00. d.total \in Nat /\ d.total \in Int
        BY <1>0
    <2>1. m.value \in {"UNPAID", "PAID", "CANCELLED"}
        BY <1>1 DEF Boo!Harmless
    <2>2. CASE m.value = "PAID"
        <3>0. PICK x \in Boo!BookStates, n \in Int : x = "PAID" /\ n = 0
            BY DEF Boo!BookStates
        <3>1. Boo!Asked(d, m) = [d EXCEPT !.status = x, !.balance = n, !.credit = d.total]
            BY <1>1, <2>2, <3>0 DEF Boo!Asked, Boo!SetStatus
        <3>2. /\ [d EXCEPT !.status = x, !.balance = n, !.credit = d.total] \in Boo!BillDoc
              /\ [d EXCEPT !.status = x, !.balance = n, !.credit = d.total].fees = d.fees
            BY <2>00, <2>0
        <3> QED BY <1>1, <3>1, <3>2
    <2>3. CASE m.value = "UNPAID"
        <3>0. PICK x \in Boo!BookStates, n \in Nat : x = "UNPAID" /\ n = 0
            BY DEF Boo!BookStates
        <3>1. Boo!Asked(d, m) = [d EXCEPT !.status = x, !.balance = d.total, !.credit = n]
            BY <1>1, <2>3, <3>0 DEF Boo!Asked, Boo!SetStatus
        <3>2. /\ [d EXCEPT !.status = x, !.balance = d.total, !.credit = n] \in Boo!BillDoc
              /\ [d EXCEPT !.status = x, !.balance = d.total, !.credit = n].fees = d.fees
            BY <2>00, <2>0
        <3> QED BY <1>1, <3>1, <3>2
    <2>4. CASE m.value = "CANCELLED"
        <3>1. Boo!Asked(d, m) = [d EXCEPT !.status = m.value]
            BY <1>1, <2>4 DEF Boo!Asked, Boo!SetStatus
        <3>2. m.value \in Boo!BookStates
            BY <2>4 DEF Boo!BookStates
        <3>3. [d EXCEPT !.status = m.value] \in Boo!BillDoc /\ [d EXCEPT !.status = m.value].fees = d.fees
            BY <3>2, BooFields
        <3> QED BY <1>1, <3>1, <3>3
    <2> QED BY <2>1, <2>2, <2>3, <2>4
<1>2. CASE m.kind = "pay"
    <2> DEFINE c == IF Boo!FullyPaid(d, m.amount) THEN d.total ELSE d.credit + m.amount
               s == IF Boo!FullyPaid(d, m.amount) THEN "PAID" ELSE d.status
    <2>1. c \in Nat /\ s \in Boo!BookStates /\ s \in {d.status, "PAID"}
        BY <1>0 DEF Boo!BookStates
    <2>2. \A x \in Nat, y \in Boo!BookStates : /\ [d EXCEPT !.credit = x, !.status = y] \in Boo!BillDoc
                                               /\ [d EXCEPT !.credit = x, !.status = y].status = y
                                               /\ [d EXCEPT !.credit = x, !.status = y].fees = d.fees
        BY DEF Boo!BillDoc
    <2>3. Boo!Asked(d, m) = [d EXCEPT !.credit = c, !.status = s]
        BY <1>2 DEF Boo!Asked, Boo!Paid
    <2> HIDE DEF c, s
    <2> QED BY <1>2, <2>1, <2>2, <2>3
<1>3. CASE m.kind = "items"
    <2>1. \A f \in Nat : /\ [d EXCEPT !.items = m.amount, !.fees = f] \in Boo!BillDoc
                         /\ [d EXCEPT !.items = m.amount, !.fees = f].status = d.status
        BY <1>0, BooFields
    <2>2. (IF m.value = "fee" THEN 1 ELSE 0) \in Nat
        OBVIOUS
    <2> QED BY <1>3, <2>1, <2>2 DEF Boo!Asked, Boo!Edited
<1>4. CASE m.kind = "credit"
    BY <1>0, <1>4, BooFields DEF Boo!Asked, Boo!Edited
<1>5. CASE m.kind = "dates"
    <2>0. PICK n \in 0 .. 1 : n = 0
        OBVIOUS
    <2>1. Boo!Asked(d, m) = [d EXCEPT !.age = n]
        BY <1>5, <2>0 DEF Boo!Asked, Boo!Edited
    <2>2. /\ [d EXCEPT !.age = n] \in Boo!BillDoc /\ [d EXCEPT !.age = n].status = d.status
          /\ [d EXCEPT !.age = n].fees = d.fees
        BY BooFields
    <2> QED BY <1>5, <2>1, <2>2
<1> QED BY <1>0, <1>1, <1>2, <1>3, <1>4, <1>5

LEMMA BooStays ==
    Boo!BookInv => /\ v1 \in [Ones -> Boo!BillDoc] /\ v2 \in [Firsts -> Boo!ClerkDoc] /\ v3 \in Boo!SweepDoc
                   /\ v4 \subseteq Ones \X Boo!Kinds /\ v5 \in [Ones \X Boo!Kinds -> Nat] /\ v6 \in BookAccount
BY DEF Boo!BookInv, Boo!DocsOK, BookAccount

LEMMA BooAccount ==
    ASSUME v6 \in BookAccount
    PROVE  /\ \A n \in Nat : /\ [v6 EXCEPT !.begun = n] \in BookAccount /\ [v6 EXCEPT !.begun = n].edited = v6.edited
                             /\ [v6 EXCEPT !.begun = n].unlogged = v6.unlogged
           /\ \A S \in SUBSET Ones : /\ [v6 EXCEPT !.edited = S] \in BookAccount /\ [v6 EXCEPT !.edited = S].edited = S
                                     /\ [v6 EXCEPT !.edited = S].unlogged = v6.unlogged
           /\ \A S \in SUBSET (Ones \X Boo!Kinds) :
                 /\ [v6 EXCEPT !.unlogged = S] \in BookAccount /\ [v6 EXCEPT !.unlogged = S].edited = v6.edited
                 /\ [v6 EXCEPT !.unlogged = S].unlogged = S
BY DEF BookAccount

\* A request goes on, or ends.
LEMMA BooGoes ==
    ASSUME Boo!BookInv, NEW c \in Firsts, NEW m \in Boo!ClerkDoc, Boo!Harmless(m), v2' = [v2 EXCEPT ![c] = m],
           UNCHANGED <<v1, v3, v4, v5>>, v6' \in BookAccount, v6'.edited = v6.edited, v6'.unlogged = v6.unlogged
    PROVE  Boo!BookInv' /\ Boo!PaidStep
<1>1. Boo!DocsOK'
    BY BooStays DEF Boo!BookInv, Boo!DocsOK, BookAccount
<1>2. \A k \in Firsts : Boo!Harmless(v2[k])'
    BY BooStays DEF Boo!BookInv, Boo!Harmless
<1>3. Boo!FeeOnce' /\ Boo!ReminderOnce'
    BY DEF Boo!BookInv, Boo!FeeOnce, Boo!ReminderOnce, Boo!Reminded, Boo!Charged
<1>4. Boo!PaidStep
    BY DEF Boo!PaidStep
<1> QED BY <1>1, <1>2, <1>3, <1>4 DEF Boo!BookInv

LEMMA BooRequest ==
    ASSUME Boo!BookInv, NEW c \in Firsts, NEW b \in Ones, NEW k \in {"status", "pay", "items", "credit", "dates"},
           NEW v \in {"none", "fee", "UNPAID", "PAID", "CANCELLED"}, NEW n \in Nat,
           k = "status" => v \in {"UNPAID", "PAID", "CANCELLED"}, Boo!Request(c, b, k, v, n)
    PROVE  Boo!BookInv' /\ Boo!PaidStep
<1> DEFINE m == [Boo!Ask EXCEPT !.at = "read", !.bill = b, !.kind = k, !.value = v, !.amount = n]
<1>1. m \in Boo!ClerkDoc /\ m.at = "read" /\ m.bill = b /\ m.kind = k /\ m.value = v
    BY BooBlank DEF Boo!ClerkDoc
<1>2. Boo!Harmless(m)
    BY <1>1 DEF Boo!Harmless
<1>3. v6' \in BookAccount /\ v6'.edited = v6.edited /\ v6'.unlogged = v6.unlogged
    <2>1. v6.begun + 1 \in Nat
        BY BooStays DEF BookAccount
    <2> QED BY <2>1, BooStays, BooAccount DEF Boo!Request
<1>4. v2' = [v2 EXCEPT ![c] = m] /\ UNCHANGED <<v1, v3, v4, v5>>
    BY DEF Boo!Request
<1> HIDE DEF m
<1> QED BY <1>1, <1>2, <1>3, <1>4, BooGoes

LEMMA BooReadBill ==
    ASSUME Boo!BookInv, NEW c \in Firsts, Boo!ReadBill(c)
    PROVE  Boo!BookInv' /\ Boo!PaidStep
<1> DEFINE m == v2[c]
           d == v1[m.bill]
           a == Boo!Asked(d, m)
           r == [m EXCEPT !.at = "save", !.read = d, !.mem = a]
<1>1. m \in Boo!ClerkDoc /\ Boo!Harmless(m) /\ m.at = "read" /\ m.bill \in Ones /\ d \in Boo!BillDoc
    BY BooStays DEF Boo!ReadBill, Boo!BookInv, Boo!Harmless
<1>2. CASE Boo!Refused(d, m)
    <2>1. v2' = [v2 EXCEPT ![c] = Boo!Ask] /\ UNCHANGED <<v1, v3, v4, v5>> /\ UNCHANGED v6
        BY <1>2 DEF Boo!ReadBill, Boo!Answer
    <2> QED BY <2>1, BooBlank, BooGoes, BooStays
<1>3. CASE ~Boo!Refused(d, m)
    <2>1. /\ a \in Boo!BillDoc /\ (m.kind # "status" => a.status \in {d.status, "PAID"})
          /\ m.kind # "items" => a.fees = d.fees
        BY <1>1, <1>3, BooAsked
    <2>2. v2' = [v2 EXCEPT ![c] = r] /\ UNCHANGED <<v1, v3, v4, v5>> /\ UNCHANGED v6
        BY <1>3 DEF Boo!ReadBill
    <2> HIDE DEF a, d
    <2>3. r \in Boo!ClerkDoc /\ r.at = "save" /\ r.read = d /\ r.mem = a /\ r.kind = m.kind /\ r.bill = m.bill /\ r.value = m.value
        BY <1>1, <2>1 DEF Boo!ClerkDoc
    <2>4. Boo!Harmless(r)
        BY <1>1, <2>1, <2>3 DEF Boo!Harmless
    <2> HIDE DEF r
    <2> QED BY <2>2, <2>3, <2>4, BooGoes, BooStays
<1> QED BY <1>2, <1>3

LEMMA BooEnds ==
    ASSUME Boo!BookInv, NEW c \in Firsts, Boo!SaveRates(c) \/ Boo!Fail(c)
    PROVE  Boo!BookInv' /\ Boo!PaidStep
<1>1. v2' = [v2 EXCEPT ![c] = Boo!Ask] /\ UNCHANGED <<v1, v3, v4, v5>> /\ UNCHANGED v6
    BY DEF Boo!SaveRates, Boo!Fail, Boo!Answer
<1> QED BY <1>1, BooBlank, BooGoes, BooStays

\* A step that leaves the requests alone and takes no invoice out of PAID but by deleting it.
LEMMA BooSweeps ==
    ASSUME Boo!BookInv, v1' \in [Ones -> Boo!BillDoc], UNCHANGED v2, v3' \in Boo!SweepDoc,
           \A b \in Ones : v1[b].status = "PAID" => v1'[b].status \in {"PAID", "gone"},
           v4' \subseteq Ones \X Boo!Kinds, v5' \in [Ones \X Boo!Kinds -> Nat], v6' \in BookAccount,
           Boo!FeeOnce', Boo!ReminderOnce'
    PROVE  Boo!BookInv' /\ Boo!PaidStep
<1>1. Boo!DocsOK'
    BY BooStays DEF Boo!BookInv, Boo!DocsOK, BookAccount
<1>2. \A k \in Firsts : Boo!Harmless(v2[k])'
    BY DEF Boo!BookInv, Boo!Harmless
<1>3. Boo!PaidStep
    BY DEF Boo!PaidStep
<1> QED BY <1>1, <1>2, <1>3 DEF Boo!BookInv

LEMMA BooDirect ==
    ASSUME Boo!BookInv, NEW b \in Ones, Boo!Age(b) \/ Boo!DeleteInvoice(b)
    PROVE  Boo!BookInv' /\ Boo!PaidStep
<1>0. v1[b] \in Boo!BillDoc /\ "gone" \in Boo!BookStates
    BY BooStays DEF Boo!BookStates
<1>1. PICK d \in Boo!BillDoc : v1' = [v1 EXCEPT ![b] = d] /\ d.fees = v1[b].fees /\ d.status \in {v1[b].status, "gone"}
    <2>1. CASE Boo!Age(b)
        <3>0. PICK n \in 0 .. 1 : n = 1
            OBVIOUS
        <3> DEFINE e == [v1[b] EXCEPT !.age = n]
        <3>1. v1' = [v1 EXCEPT ![b] = e]
            BY <2>1, <3>0 DEF Boo!Age
        <3>2. e \in Boo!BillDoc /\ e.status = v1[b].status /\ e.fees = v1[b].fees
            BY <1>0, BooFields
        <3> HIDE DEF e
        <3> QED BY <3>1, <3>2
    <2>2. CASE Boo!DeleteInvoice(b)
        <3> DEFINE e == [v1[b] EXCEPT !.status = "gone"]
        <3>1. v1' = [v1 EXCEPT ![b] = e]
            BY <2>2 DEF Boo!DeleteInvoice
        <3>2. e \in Boo!BillDoc /\ e.status = "gone" /\ e.fees = v1[b].fees
            BY <1>0, BooFields
        <3> HIDE DEF e
        <3> QED BY <3>1, <3>2
    <2> QED BY <2>1, <2>2
<1>2. v6' \in BookAccount /\ v6'.edited = v6.edited /\ v6'.unlogged = v6.unlogged
    <2>1. PICK n \in Nat : n = v6.begun + 1
        BY BooStays DEF BookAccount
    <2>2. UNCHANGED v6 \/ v6' = [v6 EXCEPT !.begun = n]
        BY <2>1 DEF Boo!Age, Boo!DeleteInvoice
    <2>3. /\ v6 \in BookAccount /\ [v6 EXCEPT !.begun = n] \in BookAccount
          /\ [v6 EXCEPT !.begun = n].edited = v6.edited /\ [v6 EXCEPT !.begun = n].unlogged = v6.unlogged
        BY BooStays, BooAccount
    <2> QED BY <2>2, <2>3
<1>3. UNCHANGED <<v2, v3, v4, v5>>
    BY DEF Boo!Age, Boo!DeleteInvoice
<1>4. /\ v1' \in [Ones -> Boo!BillDoc]
      /\ \A n \in Ones : v1'[n].fees = v1[n].fees /\ (v1[n].status = "PAID" => v1'[n].status \in {"PAID", "gone"})
    BY <1>1, BooStays
<1>5. Boo!FeeOnce'
    BY <1>2, <1>3, <1>4 DEF Boo!BookInv, Boo!FeeOnce, Boo!Charged
<1>6. Boo!ReminderOnce'
    BY <1>2, <1>3 DEF Boo!BookInv, Boo!ReminderOnce, Boo!Reminded
<1> QED BY <1>2, <1>3, <1>4, <1>5, <1>6, BooStays, BooSweeps

\* invoice.save() of a request.
LEMMA BooSave ==
    ASSUME Boo!BookInv, NEW c \in Firsts, Boo!Save(c)
    PROVE  Boo!BookInv' /\ Boo!PaidStep
<1> DEFINE m == v2[c]
           b == m.bill
           s == Boo!Stored(b, m.read, m.mem)
           h == Boo!Hook(m.mem)
<1>1. /\ m \in Boo!ClerkDoc /\ Boo!Harmless(m) /\ m.at = "save" /\ b \in Ones /\ v1[b] \in Boo!BillDoc
      /\ m.read \in Boo!BillDoc /\ m.mem \in Boo!BillDoc
    BY BooStays DEF Boo!Save, Boo!BookInv, Boo!Harmless, Boo!ClerkDoc
<1>2. /\ s \in Boo!BillDoc /\ s.status = (IF m.mem.status = m.read.status THEN v1[b].status ELSE m.mem.status)
      /\ s.fees = IF m.mem.fees = m.read.fees THEN v1[b].fees ELSE m.mem.fees
    BY <1>1, BooStored
<1>3. PICK d \in Boo!BillDoc : /\ v1' = [v1 EXCEPT ![b] = d] /\ d.status = s.status
                               /\ m.kind # "items" => d.fees = s.fees
    <2>1. CASE m.kind = "items"
        <3>1. PICK i, f, n \in Nat : i = m.mem.items /\ f = m.mem.fees /\ n = s.version + 1
            BY <1>1, <1>2 DEF Boo!BillDoc
        <3> DEFINE e == [s EXCEPT !.items = i, !.fees = f, !.version = n]
        <3>2. v1' = [v1 EXCEPT ![b] = e]
            BY <2>1, <3>1 DEF Boo!Save
        <3>3. e \in Boo!BillDoc /\ e.status = s.status
            <4> HIDE DEF s
            <4> QED BY <1>2 DEF Boo!BillDoc
        <3> HIDE DEF e
        <3> QED BY <2>1, <3>2, <3>3
    <2>2. CASE m.kind # "items"
        <3>1. v1' = [v1 EXCEPT ![b] = s]
            BY <2>2 DEF Boo!Save
        <3> QED BY <2>2, <1>2, <3>1
    <2> QED BY <2>1, <2>2
<1>4. /\ h \in Boo!BillDoc /\ Boo!Unpaid \in Boo!BillDoc
      /\ v2' = [v2 EXCEPT ![c] = [m EXCEPT !.at = "rates", !.mem = h, !.read = Boo!Unpaid]]
    <2>1. v2' = [v2 EXCEPT ![c] = [v2[c] EXCEPT !.at = "rates", !.mem = h, !.read = Boo!Unpaid]]
        BY DEF Boo!Save
    <2> QED BY <1>1, <2>1, BooHook, BooBlank
<1> HIDE DEF s, h
<1>5. v6' \in BookAccount /\ v6'.unlogged = v6.unlogged /\ v6'.edited = IF m.kind = "items" THEN v6.edited \cup {b} ELSE v6.edited
    <2>1. (IF m.kind = "items" THEN v6.edited \cup {b} ELSE v6.edited) \in SUBSET Ones
        BY <1>1, BooStays DEF BookAccount
    <2>2. v6' = [v6 EXCEPT !.edited = IF m.kind = "items" THEN v6.edited \cup {b} ELSE v6.edited]
        BY DEF Boo!Save
    <2> QED BY <2>1, <2>2, BooStays, BooAccount
<1>6. UNCHANGED <<v3, v4, v5>>
    BY DEF Boo!Save
<1>7. /\ v2' \in [Firsts -> Boo!ClerkDoc] /\ \A k \in Firsts : Boo!Harmless(v2[k])'
      /\ v2'[c].at = "rates" /\ \A k \in Firsts \ {c} : v2'[k] = v2[k]
    <2>1. [m EXCEPT !.at = "rates", !.mem = h, !.read = Boo!Unpaid] \in Boo!ClerkDoc
        BY <1>1, <1>4 DEF Boo!ClerkDoc
    <2>2. [m EXCEPT !.at = "rates", !.mem = h, !.read = Boo!Unpaid].at = "rates"
        BY <1>1 DEF Boo!ClerkDoc
    <2> QED BY <1>4, <2>1, <2>2, BooStays DEF Boo!BookInv, Boo!Harmless
<1>8. v1' \in [Ones -> Boo!BillDoc] /\ v1'[b] = d /\ \A n \in Ones \ {b} : v1'[n] = v1[n]
    BY <1>1, <1>3, BooStays
<1>9. Boo!DocsOK'
    BY <1>5, <1>6, <1>7, <1>8, BooStays DEF Boo!DocsOK, BookAccount
<1>10. Boo!FeeOnce'
    <2>1. \A n \in Ones \ v6'.edited : n \notin v6.edited /\ v1'[n].fees = v1[n].fees
        <3>1. m.kind # "items" => d.fees = v1[b].fees
            BY <1>1, <1>2, <1>3 DEF Boo!Harmless
        <3> QED BY <1>5, <1>8, <3>1
    <2> QED BY <1>6, <2>1 DEF Boo!BookInv, Boo!FeeOnce, Boo!Charged
<1>11. Boo!ReminderOnce'
    BY <1>5, <1>6 DEF Boo!BookInv, Boo!ReminderOnce, Boo!Reminded
<1>12. Boo!PaidStep
    <2> SUFFICES ASSUME NEW n \in Ones, v1[n].status = "PAID", v1'[n].status \notin {"PAID", "gone"}
                 PROVE  m.bill = n /\ m.kind = "status"
        BY <1>1, <1>7 DEF Boo!PaidStep
    <2>1. n = b
        BY <1>8
    <2>2. m.kind = "status"
        BY <1>1, <1>2, <1>3, <1>8, <2>1 DEF Boo!Harmless
    <2> QED BY <2>1, <2>2
<1> QED BY <1>7, <1>9, <1>10, <1>11, <1>12 DEF Boo!BookInv

\* The sweep's document, field by field.
LEMMA BooSweep ==
    ASSUME NEW w \in Boo!SweepDoc
    PROVE  /\ w.at \in {"idle", "fees", "list", "look", "send", "log"} /\ w.todo \subseteq Ones
           /\ w.read \in [Ones -> Boo!BillDoc]
           /\ \A a \in {"look", "send", "log"} : /\ [w EXCEPT !.at = a] \in Boo!SweepDoc /\ [w EXCEPT !.at = a].at = a
                                                 /\ [w EXCEPT !.at = a].bill = w.bill
                                                 /\ [w EXCEPT !.at = a].read = w.read
BY DEF Boo!SweepDoc

LEMMA BooUnpaidLeaves ==
    ASSUME NEW w \in Boo!SweepDoc, NEW b \in Ones
    PROVE  LET x == [w EXCEPT !.todo = @ \ {b}, !.read[b] = Boo!Unpaid]
           IN  x \in Boo!SweepDoc /\ x.todo = w.todo \ {b} /\ x.at = w.at /\ \A n \in Ones \ {b} : x.read[n] = w.read[n]
<1> DEFINE r == [w.read EXCEPT ![b] = Boo!Unpaid]
<1>0. w.read \in [Ones -> Boo!BillDoc] /\ Boo!Unpaid \in Boo!BillDoc
    BY BooBlank, BooSweep
<1>1. r \in [Ones -> Boo!BillDoc] /\ \A n \in Ones \ {b} : r[n] = w.read[n]
    BY <1>0
<1>2. [w EXCEPT !.todo = @ \ {b}, !.read[b] = Boo!Unpaid] = [w EXCEPT !.todo = w.todo \ {b}, !.read = r]
    OBVIOUS
<1> HIDE DEF r
<1>3. \A S \in SUBSET Ones : LET y == [w EXCEPT !.todo = S, !.read = r]
                             IN  y \in Boo!SweepDoc /\ y.todo = S /\ y.at = w.at /\ y.read = r
    BY <1>1 DEF Boo!SweepDoc
<1>4. w.todo \ {b} \in SUBSET Ones
    BY BooSweep
<1> QED BY <1>1, <1>2, <1>3, <1>4

LEMMA BooFees ==
    ASSUME Boo!BookInv,
           Boo!FindLate \/ \E b \in Ones : Boo!SkipFee(b) \/ Boo!ApplyLateFee(b)
    PROVE  Boo!BookInv' /\ Boo!PaidStep
<1>1. ASSUME Boo!FindLate PROVE Boo!BookInv' /\ Boo!PaidStep
    <2> DEFINE R == Boo!Copies(Boo!Late)
               w == [Boo!Asleep EXCEPT !.at = "fees", !.todo = Boo!Late, !.read = R]
    <2>1. R \in [Ones -> Boo!BillDoc] /\ Boo!Late \in SUBSET Ones /\ \A b \in Boo!Late : R[b] = v1[b]
        BY BooStays, BooBlank DEF Boo!Copies, Boo!Late
    <2>2. v3' = w /\ UNCHANGED <<v1, v2, v4, v5>>
        BY <1>1 DEF Boo!FindLate
    <2>3. w \in Boo!SweepDoc /\ w.at = "fees" /\ w.todo = Boo!Late /\ w.read = R
        <3> HIDE DEF R
        <3> QED BY <2>1, BooBlank DEF Boo!SweepDoc
    <2>4. PICK n \in Nat : n = v6.begun + 1
        BY BooStays DEF BookAccount
    <2>5. v6' = [v6 EXCEPT !.begun = n]
        BY <1>1, <2>4 DEF Boo!FindLate
    <2>6. v6' \in BookAccount /\ v6'.edited = v6.edited /\ v6'.unlogged = v6.unlogged
        BY <2>5, BooStays, BooAccount
    <2> HIDE DEF w, R
    <2>7. Boo!FeeOnce'
        <3>1. \A b \in Ones : v1[b].fees \in Nat
            BY BooStays DEF Boo!BillDoc
        <3> QED BY <2>1, <2>2, <2>3, <2>6, <3>1 DEF Boo!BookInv, Boo!FeeOnce, Boo!Charged
    <2>8. Boo!ReminderOnce'
        BY <1>1, <2>2, <2>3, <2>6 DEF Boo!FindLate, Boo!BookInv, Boo!ReminderOnce
    <2> QED BY <2>2, <2>3, <2>6, <2>7, <2>8, BooStays, BooSweeps
<1>2. ASSUME NEW b \in Ones, Boo!SkipFee(b) PROVE Boo!BookInv' /\ Boo!PaidStep
    <2>1. /\ v3' \in Boo!SweepDoc /\ v3'.todo = v3.todo \ {b} /\ v3'.at = v3.at
          /\ \A n \in Ones \ {b} : v3'.read[n] = v3.read[n]
        <3>1. v3' = [v3 EXCEPT !.todo = @ \ {b}, !.read[b] = Boo!Unpaid]
            BY <1>2 DEF Boo!SkipFee
        <3>2. v3 \in Boo!SweepDoc
            BY BooStays
        <3> QED BY ONLY <3>1, <3>2, BooUnpaidLeaves, b \in Ones
    <2>2. UNCHANGED <<v1, v2, v4, v5>> /\ UNCHANGED v6 /\ v3.at = "fees"
        BY <1>2 DEF Boo!SkipFee
    <2>3. Boo!FeeOnce' /\ Boo!ReminderOnce'
        BY <2>1, <2>2 DEF Boo!BookInv, Boo!FeeOnce, Boo!ReminderOnce, Boo!Charged
    <2> QED BY <2>1, <2>2, <2>3, BooStays, BooSweeps
<1>3. ASSUME NEW b \in Ones, Boo!ApplyLateFee(b) PROVE Boo!BookInv' /\ Boo!PaidStep
    <2>1. /\ v3' \in Boo!SweepDoc /\ v3'.todo = v3.todo \ {b} /\ v3'.at = v3.at
          /\ \A n \in Ones \ {b} : v3'.read[n] = v3.read[n]
        <3>1. v3' = [v3 EXCEPT !.todo = @ \ {b}, !.read[b] = Boo!Unpaid]
            BY <1>3 DEF Boo!ApplyLateFee
        <3>2. v3 \in Boo!SweepDoc
            BY BooStays
        <3> QED BY ONLY <3>1, <3>2, BooUnpaidLeaves, b \in Ones
    <2>2. UNCHANGED <<v2, v4, v5>> /\ UNCHANGED v6 /\ v3.at = "fees" /\ b \in v3.todo /\ ~Boo!Charged(v3.read[b])
        BY <1>3 DEF Boo!ApplyLateFee
    <2> DEFINE r == v3.read[b]
               mem == [r EXCEPT !.fees = @ + Boo!Fee, !.total = @ + Boo!Fee, !.balance = @ + Boo!Fee]
               s == Boo!Stored(b, r, mem)
    <2>3. r \in Boo!BillDoc /\ v1[b] \in Boo!BillDoc
        <3>1. v3.read \in [Ones -> Boo!BillDoc] /\ v1 \in [Ones -> Boo!BillDoc]
            BY BooStays, BooSweep
        <3> QED BY <3>1
    <2>4. mem \in Boo!BillDoc /\ mem.status = r.status
        <3>1. PICK f, t \in Nat, n \in Int : f = r.fees + Boo!Fee /\ t = r.total + Boo!Fee /\ n = r.balance + Boo!Fee
            BY <2>3 DEF Boo!BillDoc, Boo!Fee
        <3>2. mem = [r EXCEPT !.fees = f, !.total = t, !.balance = n]
            BY <3>1
        <3> HIDE DEF mem, r
        <3>3. [r EXCEPT !.fees = f, !.total = t, !.balance = n] \in Boo!BillDoc
              /\ [r EXCEPT !.fees = f, !.total = t, !.balance = n].status = r.status
            BY <2>3 DEF Boo!BillDoc
        <3> QED BY <3>2, <3>3
    <2>5. s \in Boo!BillDoc /\ s.status = v1[b].status
        <3> HIDE DEF mem, r
        <3> QED BY <2>3, <2>4, BooStored
    <2>6. PICK f, n \in Nat : f = v1[b].fees + 1 /\ n = v1[b].version + 1
        BY <2>3 DEF Boo!BillDoc
    <2>7. v1' = [v1 EXCEPT ![b] = [s EXCEPT !.fees = f, !.version = n]]
        BY <1>3, <2>6 DEF Boo!ApplyLateFee, Boo!Fee
    <2> HIDE DEF s, mem, r
    <2>8. /\ [s EXCEPT !.fees = f, !.version = n] \in Boo!BillDoc /\ [s EXCEPT !.fees = f, !.version = n].fees = f
          /\ [s EXCEPT !.fees = f, !.version = n].status = v1[b].status
        BY <2>5 DEF Boo!BillDoc
    <2>9. /\ v1' \in [Ones -> Boo!BillDoc] /\ v1'[b].fees = v1[b].fees + 1 /\ v1'[b].status = v1[b].status
          /\ \A n1 \in Ones \ {b} : v1'[n1] = v1[n1]
        BY <2>6, <2>7, <2>8, BooStays
    <2>10. Boo!FeeOnce'
        <3> SUFFICES ASSUME NEW n1 \in Ones \ v6.edited
                     PROVE  /\ v1'[n1].fees <= 1
                            /\ (v3'.at = "fees" /\ n1 \in v3'.todo /\ ~(v3'.read[n1].fees > 0)) => v1'[n1].fees = 0
            BY <2>2 DEF Boo!FeeOnce, Boo!Charged
        <3>1. CASE n1 = b
            <4>1. v1[b].fees = 0
                BY <2>2, <3>1 DEF Boo!BookInv, Boo!FeeOnce
            <4> QED BY <2>1, <2>9, <3>1, <4>1
        <3>2. CASE n1 # b
            BY <2>1, <2>2, <2>9, <3>2 DEF Boo!BookInv, Boo!FeeOnce, Boo!Charged
        <3> QED BY <3>1, <3>2
    <2>11. Boo!ReminderOnce'
        BY <2>1, <2>2 DEF Boo!BookInv, Boo!ReminderOnce
    <2>12. \A n1 \in Ones : v1[n1].status = "PAID" => v1'[n1].status \in {"PAID", "gone"}
        BY <2>9
    <2> QED BY <2>1, <2>2, <2>9, <2>10, <2>11, <2>12, BooStays, BooSweeps
<1> QED BY <1>1, <1>2, <1>3

LEMMA BooMarks ==
    ASSUME Boo!BookInv, Boo!MarkOverdue \/ Boo!ListUnpaid \/ Boo!EndSweep
    PROVE  Boo!BookInv' /\ Boo!PaidStep
<1>1. /\ v1' \in [Ones -> Boo!BillDoc]
      /\ \A b \in Ones : v1'[b].fees = v1[b].fees /\ (v1[b].status = "PAID" => v1'[b].status \in {"PAID", "gone"})
    <2>1. CASE Boo!MarkOverdue
        <3>1. /\ \A b \in Ones : v1'[b] = v1[b] \/ (v1'[b] = [v1[b] EXCEPT !.status = "OVERDUE"] /\ v1[b].status = "UNPAID")
              /\ v1' = [b \in Ones |-> v1'[b]]
            BY <2>1 DEF Boo!MarkOverdue
        <3>2. "OVERDUE" \in Boo!BookStates
            BY DEF Boo!BookStates
        <3>3. ASSUME NEW b \in Ones
              PROVE  /\ v1'[b] \in Boo!BillDoc /\ v1'[b].fees = v1[b].fees
                     /\ v1[b].status = "PAID" => v1'[b].status \in {"PAID", "gone"}
            <4>1. v1[b] \in Boo!BillDoc
                BY BooStays
            <4>2. [v1[b] EXCEPT !.status = "OVERDUE"] \in Boo!BillDoc /\ [v1[b] EXCEPT !.status = "OVERDUE"].fees = v1[b].fees
                BY <3>2, <4>1, BooFields
            <4> QED BY <3>1, <4>1, <4>2
        <3>4. v1' \in [Ones -> Boo!BillDoc]
            BY <3>1, <3>3
        <3> QED BY <3>3, <3>4
    <2>2. CASE Boo!ListUnpaid \/ Boo!EndSweep
        BY <2>2, BooStays DEF Boo!ListUnpaid, Boo!EndSweep
    <2> QED BY <2>1, <2>2
<1>2. v3' \in Boo!SweepDoc /\ v3'.at \in {"idle", "list", "look"} /\ v3.at \notin {"send", "log"}
    <2>1. CASE Boo!MarkOverdue
        <3>1. [Boo!Asleep EXCEPT !.at = "list"] \in Boo!SweepDoc /\ [Boo!Asleep EXCEPT !.at = "list"].at = "list"
            BY BooBlank DEF Boo!SweepDoc
        <3> QED BY <2>1, <3>1 DEF Boo!MarkOverdue
    <2>2. CASE Boo!ListUnpaid
        <3> DEFINE T == {b \in Ones : Boo!Owing(b)}
                   R == [b \in Ones |-> [Boo!Unpaid EXCEPT !.age = v1[b].age]]
        <3>1. T \in SUBSET Ones
            OBVIOUS
        <3>2. R \in [Ones -> Boo!BillDoc]
            <4>1. ASSUME NEW b \in Ones PROVE [Boo!Unpaid EXCEPT !.age = v1[b].age] \in Boo!BillDoc
                <5>1. v1[b].age \in 0 .. 1
                    BY BooStays DEF Boo!BillDoc
                <5> QED BY <5>1, BooBlank DEF Boo!BillDoc
            <4> QED BY <4>1
        <3>3. v3' = [Boo!Asleep EXCEPT !.at = "look", !.todo = T, !.read = R] /\ v3.at = "list"
            BY <2>2 DEF Boo!ListUnpaid
        <3> HIDE DEF T, R
        <3>4. /\ [Boo!Asleep EXCEPT !.at = "look", !.todo = T, !.read = R] \in Boo!SweepDoc
              /\ [Boo!Asleep EXCEPT !.at = "look", !.todo = T, !.read = R].at = "look"
            BY <3>1, <3>2, BooBlank DEF Boo!SweepDoc
        <3> QED BY <3>3, <3>4
    <2>3. CASE Boo!EndSweep
        BY <2>3, BooBlank DEF Boo!EndSweep
    <2> QED BY <2>1, <2>2, <2>3 DEF Boo!MarkOverdue
<1>3. UNCHANGED <<v2, v4, v5>> /\ UNCHANGED v6
    BY DEF Boo!MarkOverdue, Boo!ListUnpaid, Boo!EndSweep
<1>4. Boo!FeeOnce' /\ Boo!ReminderOnce'
    BY <1>1, <1>2, <1>3 DEF Boo!BookInv, Boo!FeeOnce, Boo!ReminderOnce
<1> QED BY <1>1, <1>2, <1>3, <1>4, BooStays, BooSweeps

LEMMA BooMails ==
    ASSUME Boo!BookInv, (\E b \in Ones : Boo!LookAtLog(b)) \/ Boo!SendReminder \/ Boo!LogReminder \/ Boo!SweepFails
    PROVE  Boo!BookInv' /\ Boo!PaidStep
<1>0. v3 \in Boo!SweepDoc /\ (v3.at \in {"send", "log"} => v3.bill \in Ones)
    BY BooStays DEF Boo!BookInv, Boo!ReminderOnce
<1>00. /\ v3.at \in {"send", "log"} => Boo!Reminded \in Ones \X Boo!Kinds
      /\ Boo!Reminded = <<v3.bill, Boo!Reminder(v3.read[v3.bill])>>
    BY <1>0 DEF Boo!Reminded, Boo!Reminder, Boo!Kinds
<1>1. ASSUME NEW b \in Ones, Boo!LookAtLog(b) PROVE Boo!BookInv' /\ Boo!PaidStep
    <2> DEFINE p == <<b, Boo!Reminder(v3.read[b])>>
               a == IF p \in v4 THEN "look" ELSE "send"
    <2>1. v3' = [v3 EXCEPT !.todo = v3.todo \ {b}, !.bill = b, !.at = a] /\ v3.at = "look"
        BY <1>1 DEF Boo!LookAtLog
    <2>2. a \in {"look", "send"} /\ v3.todo \ {b} \in SUBSET Ones /\ (a = "send" => p \notin v4)
        BY <1>0 DEF Boo!SweepDoc
    <2> HIDE DEF a
    <2>3. v3' \in Boo!SweepDoc /\ v3'.at = a /\ v3'.bill = b /\ v3'.read = v3.read
        BY <1>0, <2>1, <2>2 DEF Boo!SweepDoc
    <2>4. UNCHANGED <<v1, v2, v4, v5>> /\ UNCHANGED v6
        BY <1>1 DEF Boo!LookAtLog
    <2>5. Boo!FeeOnce'
        BY <2>2, <2>3, <2>4 DEF Boo!BookInv, Boo!FeeOnce
    <2>6. (Boo!Reminded)' = p /\ p \in Ones \X Boo!Kinds
        BY <2>3 DEF Boo!Reminded, Boo!Reminder, Boo!Kinds
    <2>7. a = "send" => p \in v6.unlogged \/ v5[p] = 0
        <3> HIDE DEF p
        <3>1. v5[p] \in Nat
            BY <2>6, BooStays
        <3> QED BY <2>1, <2>2, <2>6, <3>1 DEF Boo!BookInv, Boo!ReminderOnce
    <2>8. Boo!ReminderOnce'
        <3> HIDE DEF p
        <3> QED BY <2>1, <2>2, <2>3, <2>4, <2>6, <2>7 DEF Boo!BookInv, Boo!ReminderOnce
    <2> QED BY <2>3, <2>4, <2>5, <2>8, BooStays, BooSweeps
<1>2. ASSUME Boo!SendReminder PROVE Boo!BookInv' /\ Boo!PaidStep
    <2> DEFINE p == Boo!Reminded
    <2>1. /\ v3.at = "send" /\ UNCHANGED <<v1, v2, v4>> /\ UNCHANGED v6
          /\ \/ v5' = [v5 EXCEPT ![p] = v5[p] + 1] /\ v3' = [v3 EXCEPT !.at = "log"]
             \/ v3' = [v3 EXCEPT !.at = "look"] /\ UNCHANGED v5
        BY <1>2, <1>00 DEF Boo!SendReminder
    <2>2. /\ v3' \in Boo!SweepDoc /\ v3'.at \in {"look", "log"} /\ v3'.bill = v3.bill /\ v3'.read = v3.read
          /\ v3'.at = "look" => UNCHANGED v5
          /\ v3'.at = "log" => v5' = [v5 EXCEPT ![p] = v5[p] + 1]
        <3>1. \A a \in {"look", "log"} : /\ [v3 EXCEPT !.at = a] \in Boo!SweepDoc /\ [v3 EXCEPT !.at = a].at = a
                                         /\ [v3 EXCEPT !.at = a].bill = v3.bill /\ [v3 EXCEPT !.at = a].read = v3.read
            BY <1>0 DEF Boo!SweepDoc
        <3> QED BY <2>1, <3>1
    <2>3. (Boo!Reminded)' = p /\ p \in Ones \X Boo!Kinds
        BY <1>00, <2>1, <2>2 DEF Boo!Reminded, Boo!Reminder
    <2>4. Boo!FeeOnce'
        BY <2>1, <2>2 DEF Boo!BookInv, Boo!FeeOnce
    <2> HIDE DEF p
    <2>5. v5[p] \in Nat /\ v5 \in [Ones \X Boo!Kinds -> Nat] /\ (p \in v6.unlogged \/ v5[p] = 0)
        BY <2>1, <2>3, BooStays DEF Boo!BookInv, Boo!ReminderOnce, p
    <2>6. v5' \in [Ones \X Boo!Kinds -> Nat]
        BY <2>2, <2>5
    <2>7. Boo!ReminderOnce'
        <3>1. \A q \in (Ones \X Boo!Kinds) \ v6.unlogged : v5[q] <= 1 /\ (v5[q] > 0 => q \in v4)
            BY <2>1 DEF Boo!BookInv, Boo!ReminderOnce
        <3>2. \A q \in (Ones \X Boo!Kinds) \ {p} : v5'[q] = v5[q]
            BY <2>2, <2>5
        <3>3. v3'.at = "log" => v5'[p] = v5[p] + 1
            BY <2>2, <2>3, <2>5
        <3>4. \A q \in (Ones \X Boo!Kinds) \ v6.unlogged :
                 v5'[q] <= 1 /\ (v5'[q] > 0 => q \in v4 \/ (v3'.at = "log" /\ q = p))
            BY <2>2, <2>3, <2>5, <3>1, <3>2, <3>3
        <3> QED BY <1>0, <2>1, <2>2, <2>3, <3>4 DEF Boo!ReminderOnce
    <2> QED BY <2>1, <2>2, <2>4, <2>6, <2>7, BooStays, BooSweeps
<1>3. ASSUME Boo!LogReminder PROVE Boo!BookInv' /\ Boo!PaidStep
    <2> DEFINE p == Boo!Reminded
               U == v6.unlogged \cup {p}
    <2>1. /\ v3.at = "log" /\ UNCHANGED <<v1, v2, v5>> /\ v3' = [v3 EXCEPT !.at = "look"]
          /\ \/ v4' = v4 \cup {p} /\ UNCHANGED v6
             \/ v6' = [v6 EXCEPT !.unlogged = U] /\ UNCHANGED v4
        BY <1>3, <1>00 DEF Boo!LogReminder
    <2>2. v3' \in Boo!SweepDoc /\ v3'.at = "look"
        BY <1>0, <2>1, BooSweep
    <2>3. U \in SUBSET (Ones \X Boo!Kinds) /\ p \in Ones \X Boo!Kinds
        BY <1>00, <2>1, BooStays DEF BookAccount
    <2>4. /\ [v6 EXCEPT !.unlogged = U] \in BookAccount /\ [v6 EXCEPT !.unlogged = U].edited = v6.edited
          /\ [v6 EXCEPT !.unlogged = U].unlogged = U
        <3> HIDE DEF U
        <3> QED BY <2>3, BooStays, BooAccount
    <2>5. /\ v6' \in BookAccount /\ v6'.edited = v6.edited /\ v4' \subseteq Ones \X Boo!Kinds
          /\ v4 \subseteq v4' /\ v6.unlogged \subseteq v6'.unlogged /\ p \in v4' \cup v6'.unlogged
        BY <2>1, <2>3, <2>4, BooStays
    <2>6. Boo!FeeOnce'
        BY <2>1, <2>2, <2>5 DEF Boo!BookInv, Boo!FeeOnce
    <2>7. Boo!ReminderOnce'
        BY <2>1, <2>2, <2>5 DEF Boo!BookInv, Boo!ReminderOnce
    <2> QED BY <2>1, <2>2, <2>5, <2>6, <2>7, BooStays, BooSweeps
<1>4. ASSUME Boo!SweepFails PROVE Boo!BookInv' /\ Boo!PaidStep
    <2> DEFINE p == Boo!Reminded
               U == IF v3.at = "log" THEN v6.unlogged \cup {p} ELSE v6.unlogged
    <2>1. UNCHANGED <<v1, v2, v4, v5>> /\ v3' = Boo!Asleep /\ v6' = [v6 EXCEPT !.unlogged = U]
        BY <1>4, <1>00 DEF Boo!SweepFails
    <2>2. U \in SUBSET (Ones \X Boo!Kinds)
        BY <1>00, BooStays DEF BookAccount
    <2>3. v6' \in BookAccount /\ v6'.edited = v6.edited /\ v6'.unlogged = U
        <3> HIDE DEF U
        <3> QED BY <2>1, <2>2, BooStays, BooAccount
    <2>4. v3' \in Boo!SweepDoc /\ v3'.at = "idle"
        BY <2>1, BooBlank
    <2>5. Boo!FeeOnce'
        BY <2>1, <2>3, <2>4 DEF Boo!BookInv, Boo!FeeOnce
    <2>6. Boo!ReminderOnce'
        BY <2>1, <2>3, <2>4 DEF Boo!BookInv, Boo!ReminderOnce
    <2> QED BY <2>1, <2>3, <2>4, <2>5, <2>6, BooStays, BooSweeps
<1> QED BY <1>1, <1>2, <1>3, <1>4

LEMMA BooInit == Boo!BookInit => Boo!BookInv
<1> SUFFICES ASSUME Boo!BookInit PROVE Boo!BookInv
    OBVIOUS
<1>1. /\ v1 = [b \in Ones |-> Boo!Unpaid] /\ v2 = [c \in Firsts |-> Boo!Ask] /\ v3 = Boo!Asleep /\ v4 = {}
      /\ v5 = [p \in Ones \X Boo!Kinds |-> 0] /\ v6 = [begun |-> 0, edited |-> {}, unlogged |-> {}]
    BY DEF Boo!BookInit
<1>2. Boo!DocsOK
    BY <1>1, BooBlank DEF Boo!DocsOK
<1>3. Boo!FeeOnce /\ Boo!ReminderOnce
    BY <1>1, BooBlank DEF Boo!FeeOnce, Boo!ReminderOnce
<1> QED BY <1>1, <1>2, <1>3, BooBlank DEF Boo!BookInv

LEMMA BooNext == Boo!BookInv /\ [Boo!BookNext]_(Boo!bookVars) => Boo!BookInv' /\ Boo!PaidStep
<1> SUFFICES ASSUME Boo!BookInv, [Boo!BookNext]_(Boo!bookVars) PROVE Boo!BookInv' /\ Boo!PaidStep
    OBVIOUS
<1>1. ASSUME NEW c \in Firsts, Boo!Clerking(c) PROVE Boo!BookInv' /\ Boo!PaidStep
    <2>0. Charge \in Nat /\ Charge \in Nat \ {0}
        BY BookAssumption DEF Boo!BookBounds
    <2>1. ASSUME NEW b \in Ones,
                 \/ \E s \in {"UNPAID", "PAID", "CANCELLED"} : Boo!Request(c, b, "status", s, 0)
                 \/ \E n \in 1 .. Charge : Boo!Request(c, b, "pay", "none", n)
                 \/ Boo!Request(c, b, "items", "none", 0) \/ Boo!Request(c, b, "items", "fee", Charge)
                 \/ Boo!Request(c, b, "credit", "none", Charge)
                 \/ Boo!Request(c, b, "dates", "none", 0)
          PROVE  Boo!BookInv' /\ Boo!PaidStep
        BY <2>0, <2>1, BooRequest
    <2>2. ASSUME NEW b \in Ones, Boo!BulkMarkPaid(c, b) \/ \E s \in {"UNPAID", "CANCELLED"} : Boo!BulkMark(c, b, s)
          PROVE  Boo!BookInv' /\ Boo!PaidStep
        <3>1. v1[b].balance \in Int
            BY BooStays DEF Boo!BillDoc
        <3>2. \/ Boo!Request(c, b, "status", "PAID", 0)
              \/ v1[b].balance \in Nat /\ Boo!Request(c, b, "pay", "none", v1[b].balance)
              \/ \E s \in {"UNPAID", "CANCELLED"} : Boo!Request(c, b, "status", s, 0)
            BY <2>2, <3>1 DEF Boo!BulkMarkPaid, Boo!BulkMark
        <3> QED BY <3>2, BooRequest
    <2> QED BY <1>1, <2>1, <2>2, BooReadBill, BooSave, BooEnds DEF Boo!Clerking
<1>2. ASSUME Boo!Sweeping PROVE Boo!BookInv' /\ Boo!PaidStep
    BY <1>2, BooFees, BooMarks, BooMails DEF Boo!Sweeping
<1>3. ASSUME UNCHANGED Boo!bookVars PROVE Boo!BookInv' /\ Boo!PaidStep
    <2>1. UNCHANGED v1 /\ UNCHANGED v2 /\ UNCHANGED <<v3, v4, v5>> /\ UNCHANGED v6
        BY <1>3 DEF Boo!bookVars
    <2>2. Boo!FeeOnce' /\ Boo!ReminderOnce'
        BY <2>1 DEF Boo!BookInv, Boo!FeeOnce, Boo!ReminderOnce, Boo!Reminded, Boo!Charged
    <2> QED BY <2>1, <2>2, BooStays, BooSweeps
<1> QED BY <1>1, <1>2, <1>3, BooDirect DEF Boo!BookNext

LEMMA BooTyped == Boo!BookInv => Boo!BookTypeOK
<1> SUFFICES ASSUME Boo!BookInv PROVE Boo!BookTypeOK
    OBVIOUS
<1>1. \A b \in Ones : /\ v1[b].status \in Boo!BookStates /\ v1[b].age \in 0 .. 1
                      /\ {v1[b].items, v1[b].fees, v1[b].credit, v1[b].total, v1[b].version} \subseteq Nat
                      /\ v1[b].balance \in Int
    BY BooStays DEF Boo!BillDoc
<1>2. \A c \in Firsts : v2[c].at \in {"idle", "read", "save", "rates"}
    BY BooStays DEF Boo!ClerkDoc
<1>3. v3.at \in {"idle", "fees", "list", "look", "send", "log"} /\ v3.todo \subseteq Ones
    BY BooStays, BooSweep
<1>4. \A b \in Ones \ v6.edited : v1[b].fees <= 1
    BY DEF Boo!BookInv, Boo!FeeOnce
<1>5. \A b \in Ones, k \in Boo!Kinds : v5[<<b, k>>] <= 1 \/ <<b, k>> \in v6.unlogged
    BY DEF Boo!BookInv, Boo!ReminderOnce
<1> QED BY <1>1, <1>2, <1>3, <1>4, <1>5, BooStays DEF Boo!BookTypeOK

\* BusinessSpec => PaidKept: no late fee, overdue mark, edit or partial payment, whatever it read before,
\* takes an invoice out of PAID (invoice.service.ts updateInvoice, invoice-reminder.scheduler.ts).
THEOREM BusinessPaidKept == BusinessSpec => PaidKept
<1> DEFINE I == scenario = "invoices" => Boo!BookInv
<1>1. BusinessInit => I
    BY BooInit DEF BusinessInit, Senders, Routers, Shelves
<1>2. I /\ [BusinessNext]_businessVars => I' /\ (scenario = "invoices" => Boo!PaidStep)
    <2> SUFFICES ASSUME I, [BusinessNext]_businessVars
                 PROVE  scenario' = scenario /\ (scenario = "invoices" => Boo!BookInv' /\ Boo!PaidStep)
        OBVIOUS
    <2>1. scenario' = scenario
        BY DEF BusinessNext, businessVars
    <2>2. ASSUME scenario = "invoices" PROVE Boo!BookInv' /\ Boo!PaidStep
        <3>1. CASE BusinessStep
            BY <2>2, <3>1, BooNext DEF BusinessStep, Senders, Routers, Shelves, Machinery
        <3>2. CASE UNCHANGED businessVars
            <4>1. UNCHANGED Boo!bookVars
                BY <3>2 DEF businessVars, shared, Boo!bookVars
            <4> QED BY <2>2, <4>1, BooNext
        <3> QED BY <3>1, <3>2 DEF BusinessNext
    <2> QED BY <2>1, <2>2
<1>3. (scenario = "invoices" => Boo!PaidStep) => [(scenario = "invoices") => Boo!PaidStep]_businessVars
    OBVIOUS
<1> QED BY <1>1, <1>2, <1>3, PTL DEF BusinessSpec, PaidKept
-----------------------------------------------------------------------------
(* The bounds of the type invariants that the invariants above leave open:  *)
(* the requests begun, the numbers that follow from them, and the tries.    *)

\* Only a request begun counts one.
LEMMA DesBounded ==
    Des!DeskInv /\ v5.requests <= MaxRequests /\ [Des!DeskNext]_(Des!deskVars) => v5'.requests <= MaxRequests
<1> SUFFICES ASSUME Des!DeskInv, v5.requests <= MaxRequests, Des!DeskNext \/ UNCHANGED Des!deskVars
             PROVE  v5'.requests <= MaxRequests
    OBVIOUS
<1>0. /\ \A b \in BOOLEAN : [v5 EXCEPT !.parted = b].requests = v5.requests
      /\ \A b, c \in BOOLEAN : [v5 EXCEPT !.parted = b, !.unpriced = c].requests = v5.requests
      /\ \A n \in Nat : [v5 EXCEPT !.requests = n].requests = n
      /\ v5.parted \in BOOLEAN /\ v5.unpriced \in BOOLEAN /\ v5.requests \in Nat
    BY DesDocs DEF DeskLog
<1>1. MaxRequests \in Nat
    BY DeskAssumption DEF Des!DeskBounds
<1>2. ASSUME NEW d \in Firsts, NEW kind \in Des!Kinds, NEW password \in Des!Keys, Des!Begin(d, kind, password)
      PROVE  v5'.requests <= MaxRequests
    BY <1>0, <1>1, <1>2 DEF Des!Begin
<1>3. ASSUME \E b \in BOOLEAN : v5' = [v5 EXCEPT !.parted = b] PROVE v5'.requests = v5.requests
    BY <1>0, <1>3
<1>4. ASSUME NEW d \in Firsts, Des!CallPanel(d) \/ Des!CreateAccount(d) \/ Des!CreateFails(d) \/ Des!Dies(d)
      PROVE  (\E b \in BOOLEAN : v5' = [v5 EXCEPT !.parted = b]) \/ UNCHANGED v5
    <2>1. CASE Des!CallPanel(d)
        BY <1>0, <2>1 DEF Des!CallPanel
    <2>2. CASE Des!CreateAccount(d)
        BY <1>0, <2>2 DEF Des!CreateAccount
    <2>3. CASE Des!CreateFails(d) \/ Des!Dies(d)
        BY <1>0, <2>3 DEF Des!CreateFails, Des!Dies
    <2> QED BY <1>4, <2>1, <2>2, <2>3
<1>5. ASSUME NEW d \in Firsts, NEW unpriced \in BOOLEAN, Des!Write(d, unpriced) PROVE v5'.requests = v5.requests
    <2>1. /\ (v5.parted \/ (v2 # v4[d].copy /\ v2'.password # v2.password)) \in BOOLEAN /\ (v5.unpriced \/ unpriced) \in BOOLEAN
          /\ v5' = [v5 EXCEPT !.parted = v5.parted \/ (v2 # v4[d].copy /\ v2'.password # v2.password),
                             !.unpriced = v5.unpriced \/ unpriced]
        BY <1>5 DEF Des!Write
    <2> QED BY <1>0, <2>1
<1>6. ASSUME NEW d \in Firsts, Des!Save(d) \/ Des!SaveProfile(d)
      PROVE  v5'.requests = v5.requests
    <2>1. \E unpriced \in BOOLEAN : Des!Write(d, unpriced)
        BY <1>6 DEF Des!Save, Des!SaveProfile
    <2> QED BY <1>5, <2>1
<1>7. ASSUME NEW d \in Firsts, Des!Load(d) \/ Des!Activate(d) PROVE UNCHANGED v5
    BY <1>7 DEF Des!Load, Des!Activate
<1>8. ASSUME \/ \E status \in {"open", "ACTIVE", "CANCELLED", "gone"} : Des!SetStatus(status)
             \/ UNCHANGED Des!deskVars
      PROVE  UNCHANGED v5
    BY <1>8 DEF Des!SetStatus, Des!deskVars
<1> QED BY <1>2, <1>3, <1>4, <1>6, <1>7, <1>8 DEF Des!DeskNext

LEMMA DesTyped == Des!DeskInv /\ v5.requests <= MaxRequests => Des!DeskTypeOK
BY DeskAssumption DEF Des!DeskInv, Des!DeskDocsOK, Des!DeskTypeOK, Des!Request, Des!DeskBounds

\* Where no ticket is opened, requests keep the number they have, or begin with one of the count.
LEMMA TicNumbers ==
    ASSUME Tic!TicketInv, Tic!NumbersOK, v5'.begun \in Nat, v5.begun <= v5'.begun, v5'.begun <= MaxPosts,
           Tic!DocsOK', Tic!Opened' = Tic!Opened, \A t \in Tic!Opened : v1'[t].number = v1[t].number,
           \A q \in Seconds :
              \/ /\ v4'[q].number = v4[q].number /\ v4'[q].kind = v4[q].kind
                 /\ v4'[q].at = v4[q].at \/ v4'[q].at \in {"save", "notify"}
              \/ /\ v4'[q].number <= v5'.begun /\ (v4'[q].at = "create" => v4'[q].number > 0)
                 /\ v4'[q].at = "message" => v4'[q].kind \in {"first", "client", "staff", "note"}
    PROVE  Tic!NumbersOK'
<1>1. v5.begun \in Nat /\ MaxPosts \in Nat /\ \A q \in Seconds : v4[q].number \in Nat
    BY TicketAssumption DEF Tic!TicketInv, Tic!DocsOK, Tic!Request, Tic!TicketBounds
<1>2. \A q \in Seconds : /\ v4'[q].number <= v5'.begun /\ (v4'[q].at = "create" => v4'[q].number > 0)
                         /\ v4'[q].at = "message" => v4'[q].kind \in {"first", "client", "staff", "note"}
    BY <1>1 DEF Tic!NumbersOK
<1>3. \A t \in Tic!Opened' : v1'[t].number \in 1..v5'.begun
    BY <1>1 DEF Tic!NumbersOK
<1>4. \A t, u \in Tic!Opened' : v1'[t].number = v1'[u].number => t = u
    BY DEF Tic!NumbersOK
<1> QED BY <1>2, <1>3, <1>4 DEF Tic!NumbersOK

\* There are no more tickets than numbers.
LEMMA TicCount ==
    ASSUME Tic!TicketInv, Tic!NumbersOK
    PROVE  Tic!Cardinality(Tic!Opened) \in Nat /\ Tic!Cardinality(Tic!Opened) <= v5.begun
<1> DEFINE n == v5.begun
           f == [t \in Tic!Opened |-> v1[t].number]
<1>0. n \in Nat
    BY DEF Tic!TicketInv, Tic!DocsOK
<1>1. IsFiniteSet(1..n) /\ Cardinality(1..n) = n
    BY <1>0, FS_Interval
<1>2. f \in Injection(Tic!Opened, 1..n)
    BY DEF Tic!NumbersOK, Injection, IsInjective
<1>3. IsFiniteSet(Tic!Opened) /\ Cardinality(Tic!Opened) <= Cardinality(1..n)
    <2> HIDE DEF f, n
    <2> QED BY <1>1, <1>2, FS_Injection
<1>4. Cardinality(Tic!Opened) \in Nat
    BY <1>3, FS_CardinalityType
<1> QED BY <1>1, <1>3, <1>4, TicCounts

LEMMA TicBegins ==
    ASSUME Tic!TicketInv, Tic!NumbersOK, NEW p \in Seconds, NEW r \in Tic!Request, Tic!Receive(p, r), UNCHANGED v1,
           r.number <= v5.begun + 1, r.at = "create" => r.number > 0,
           r.at = "message" => r.kind \in {"client", "staff", "note"}
    PROVE  Tic!NumbersOK'
<1>1. v5'.begun = v5.begun + 1 /\ v5.begun < MaxPosts /\ v5.begun \in Nat /\ MaxPosts \in Nat
    <2>1. \A n \in Nat : [v5 EXCEPT !.begun = n].begun = n
        BY DEF Tic!TicketInv, Tic!DocsOK
    <2>2. v5.begun \in Nat /\ MaxPosts \in Nat
        BY TicketAssumption DEF Tic!TicketInv, Tic!DocsOK, Tic!TicketBounds
    <2> QED BY <2>1, <2>2 DEF Tic!Receive
<1>2. v4' = [v4 EXCEPT ![p] = r] /\ v4' \in [Seconds -> Tic!Request] /\ Tic!DocsOK'
    BY TicReceives DEF Tic!TicketInv, Tic!DocsOK
<1>3. v4'[p] = r /\ \A q \in Seconds \ {p} : v4'[q] = v4[q]
    BY <1>2 DEF Tic!TicketInv, Tic!DocsOK
<1>4. Tic!Opened' = Tic!Opened
    BY DEF Tic!Opened
<1> QED BY <1>1, <1>2, <1>3, <1>4, TicNumbers

LEMMA TicAsked ==
    ASSUME Tic!TicketInv, Tic!NumbersOK, NEW p \in Seconds,
           \/ Tic!AskCreate(p)
           \/ \E t \in Firsts : \/ \E kind \in {"client", "staff", "note"} : Tic!AskReply(p, t, kind)
                                \/ \E kind \in {"status", "resolve", "own"}, s \in Chosen \cup {"resolved"} : Tic!AskStatus(p, t, kind, s)
    PROVE  Tic!NumbersOK'
<1>0. v5.begun \in Nat
    BY DEF Tic!TicketInv, Tic!DocsOK
<1>1. CASE Tic!AskCreate(p)
    <2> DEFINE n == Tic!Cardinality(Tic!Opened) + 1
               r == [Tic!Quiet EXCEPT !.at = "create", !.kind = "client", !.number = n]
    <2>1. n \in Nat /\ n > 0 /\ n <= v5.begun + 1
        BY <1>0, TicCount
    <2>2. Tic!Receive(p, r) /\ UNCHANGED v1
        BY <1>1, Zenon DEF Tic!AskCreate
    <2> HIDE DEF n
    <2>3. r \in Tic!Request /\ r.at = "create" /\ r.number = n
        BY <2>1 DEF Tic!Quiet, Tic!Request
    <2> HIDE DEF r
    <2> QED BY <2>1, <2>2, <2>3, TicBegins
<1>2. ASSUME NEW t \in Firsts, NEW kind \in {"client", "staff", "note"}, Tic!AskReply(p, t, kind) PROVE Tic!NumbersOK'
    <2> DEFINE r == [Tic!Quiet EXCEPT !.at = "message", !.kind = kind, !.on = t, !.status = v1[t].status]
    <2>1. Tic!Receive(p, r) /\ UNCHANGED v1
        BY <1>2 DEF Tic!AskReply
    <2>2. r \in Tic!Request /\ r.at = "message" /\ r.number = 0 /\ r.kind = kind
        BY <1>2 DEF Tic!AskReply, Tic!TicketInv, Tic!DocsOK, Tic!Opened, Tic!Quiet, Tic!Request, Tic!Doc
    <2> HIDE DEF r
    <2> QED BY <1>0, <2>1, <2>2, TicBegins
<1>3. ASSUME NEW t \in Firsts, NEW kind \in {"status", "resolve", "own"}, NEW s \in Chosen \cup {"resolved"}, Tic!AskStatus(p, t, kind, s)
      PROVE  Tic!NumbersOK'
    <2> DEFINE r == [Tic!Quiet EXCEPT !.at = "save", !.kind = kind, !.on = t, !.number = 0,
                                      !.status = IF v1[t].status = s THEN "none" ELSE s]
    <2>1. Tic!Receive(p, r) /\ UNCHANGED v1
        BY <1>3 DEF Tic!AskStatus
    <2>2. r \in Tic!Request /\ r.at = "save" /\ r.number = 0
        <3>1. s \in Tic!TicketStatuses
            BY TicketAssumption DEF Tic!TicketBounds, Tic!TicketStatuses
        <3> QED BY <3>1 DEF Tic!Quiet, Tic!Request
    <2> HIDE DEF r
    <2> QED BY <1>0, <2>1, <2>2, TicBegins
<1> QED BY <1>1, <1>2, <1>3

LEMMA TicNumberKept ==
    ASSUME Tic!TicketInv, Tic!TicketInv', Tic!NumbersOK, NEW p \in Seconds,
           \/ Tic!CreateMessage(p) \/ Tic!SaveReply(p) \/ Tic!SaveStatus(p)
           \/ Tic!NotifyOpened(p) \/ Tic!NotifyReplied(p) \/ Tic!PostFails(p)
    PROVE  Tic!NumbersOK'
<1>0. /\ v5'.begun = v5.begun /\ v5.begun \in Nat /\ MaxPosts \in Nat
      /\ Tic!DocsOK /\ Tic!DocsOK' /\ Tic!Quiet \in Tic!Request /\ Tic!Quiet.number = 0 /\ Tic!Quiet.at = "idle"
    <2>1. Tic!DocsOK /\ Tic!DocsOK' /\ Tic!Quiet \in Tic!Request /\ Tic!Quiet.number = 0 /\ Tic!Quiet.at = "idle" /\ MaxPosts \in Nat
        BY TicketAssumption DEF Tic!TicketInv, Tic!TicketBounds, Tic!Quiet, Tic!Request
    <2>2. \A H \in SUBSET Firsts : [v5 EXCEPT !.heard = H].begun = v5.begun
        BY <2>1 DEF Tic!DocsOK
    <2>3. \E H \in SUBSET Firsts : v5' = [v5 EXCEPT !.heard = H] \/ v5' = v5
        <3>1. \A t \in Firsts \cup {Nobody} : v5.heard \ {t} \in SUBSET Firsts
            BY <2>1 DEF Tic!DocsOK
        <3>2. \A q \in Seconds : v4[q].on \in Firsts \cup {Nobody}
            BY <2>1 DEF Tic!DocsOK, Tic!Request
        <3>3. CASE Tic!SaveReply(p)
            <4>1. v4[p].on \in Firsts
                BY <3>3 DEF Tic!SaveReply, Tic!TicketInv, Tic!OnOpened, Tic!Opened
            <4>2. v5.heard \cup {v4[p].on} \in SUBSET Firsts
                BY <2>1, <4>1 DEF Tic!DocsOK
            <4> QED BY <3>1, <3>3, <4>1, <4>2 DEF Tic!SaveReply, Tic!StaffSaved
        <3>4. CASE Tic!SaveStatus(p)
            BY <3>1, <3>2, <3>4 DEF Tic!SaveStatus, Tic!StaffSaved
        <3>5. CASE Tic!CreateMessage(p) \/ Tic!NotifyOpened(p) \/ Tic!NotifyReplied(p) \/ Tic!PostFails(p)
            BY <3>5 DEF Tic!CreateMessage, Tic!NotifyOpened, Tic!NotifyReplied, Tic!PostFails
        <3> QED BY <3>3, <3>4, <3>5
    <2>4. v5.begun \in Nat
        BY <2>1 DEF Tic!DocsOK
    <2> QED BY <2>1, <2>2, <2>3, <2>4
<1> DEFINE Moves == \A q \in Seconds :
              \/ /\ v4'[q].number = v4[q].number /\ v4'[q].kind = v4[q].kind
                 /\ v4'[q].at = v4[q].at \/ v4'[q].at \in {"save", "notify"}
              \/ v4'[q].number = 0 /\ v4'[q].at = "idle"
           Written == /\ Tic!Opened' = Tic!Opened /\ \A t \in Tic!Opened : v1'[t].number = v1[t].number
<1>1. ASSUME NEW at \in {"idle", "save", "notify"}, Tic!Proceed(p, at) PROVE Moves
    <2>1. /\ v4' \in [Seconds -> Tic!Request] /\ \A q \in Seconds \ {p} : v4'[q] = v4[q]
          /\ at = "idle" => v4'[p] = Tic!Quiet
          /\ at # "idle" => v4'[p] = [v4[p] EXCEPT !.at = at]
        BY <1>0, <1>1, TicProceeds
    <2>2. [v4[p] EXCEPT !.at = at].number = v4[p].number /\ [v4[p] EXCEPT !.at = at].kind = v4[p].kind /\ [v4[p] EXCEPT !.at = at].at = at
        BY <1>0 DEF Tic!DocsOK, Tic!Request
    <2> QED BY <1>0, <2>1, <2>2
<1>2. ASSUME NEW t \in Firsts, NEW next \in Tic!Request, Tic!StaffSaved(p, t, next),
             \/ next = Tic!Quiet
             \/ next.number = v4[p].number /\ next.kind = v4[p].kind /\ next.at = "notify"
      PROVE  Moves
    <2>1. /\ v4'[p] = next
          /\ \A q \in Seconds \ {p} : /\ v4[q].on = t => v4'[q] = [v4[q] EXCEPT !.crossed = TRUE]
                                      /\ v4[q].on # t => v4'[q] = v4[q]
        BY <1>0, <1>2, TicStaffSaves
    <2>2. \A q \in Seconds : /\ [v4[q] EXCEPT !.crossed = TRUE].number = v4[q].number
                             /\ [v4[q] EXCEPT !.crossed = TRUE].kind = v4[q].kind /\ [v4[q] EXCEPT !.crossed = TRUE].at = v4[q].at
        BY <1>0 DEF Tic!DocsOK, Tic!Request
    <2>3. \A q \in Seconds \ {p} : v4'[q].number = v4[q].number /\ v4'[q].kind = v4[q].kind /\ v4'[q].at = v4[q].at
        BY <2>1, <2>2
    <2> QED BY <1>0, <1>2, <2>1, <2>3
<1>3. ASSUME NEW t \in Tic!Opened, NEW d \in Tic!Doc, v1' = [v1 EXCEPT ![t] = d], d.number = v1[t].number PROVE Written
    <2>1. t \in Firsts
        BY DEF Tic!Opened
    <2>2. Tic!Opened \subseteq Tic!Opened' /\ t \in Tic!Opened' /\ v1'[t] = d /\ \A u \in Firsts \ {t} : v1'[u] = v1[u]
        BY <1>0, <1>3, <2>1, TicWritten
    <2> QED BY <1>3, <2>1, <2>2 DEF Tic!Opened
<1>4. ASSUME UNCHANGED v1 PROVE Written
    BY <1>4 DEF Tic!Opened
<1>5. ASSUME v4[p].at = "save"
      PROVE  /\ v4[p].on \in Tic!Opened /\ v4[p].on \in Firsts /\ v1[v4[p].on] \in Tic!Doc
             /\ v1 \in [Firsts -> Tic!Doc \cup {Tic!NoDoc}] /\ v4[p].status \in Tic!TicketStatuses \cup {"none"}
    BY <1>0, <1>5 DEF Tic!TicketInv, Tic!OnOpened, Tic!Opened, Tic!DocsOK, Tic!Request
<1>6. CASE Tic!SaveReply(p)
    <2> DEFINE t == v4[p].on
               s == Tic!Written(t, v4[p].status, Tic!AnswerStatus(v4[p].kind, v4[p].status))
               side == IF v4[p].kind = "client" THEN "client" ELSE "staff"
               d == [v1[t] EXCEPT !.status = s, !.replier = side]
    <2>0. v4[p].at = "save"
        BY <1>6 DEF Tic!SaveReply
    <2>1. Written
        <3>1. s \in Tic!TicketStatuses /\ side \in Tic!Sides
            BY <1>5, <2>0 DEF Tic!Written, Tic!AnswerStatus, Tic!TicketStatuses, Tic!Doc, Tic!Sides
        <3>2. v1' = [v1 EXCEPT ![t] = d]
            BY <1>5, <1>6, <2>0 DEF Tic!SaveReply
        <3> HIDE DEF s, side
        <3>3. d \in Tic!Doc /\ d.number = v1[t].number
            BY <1>5, <2>0, <3>1 DEF Tic!Doc
        <3> HIDE DEF d
        <3> QED BY <1>3, <1>5, <2>0, <3>2, <3>3
    <2>2. Moves
        <3>1. CASE v4[p].kind = "client"
            <4>1. Tic!Proceed(p, "notify")
                BY <1>6, <3>1 DEF Tic!SaveReply
            <4> QED BY <1>1, <4>1
        <3>2. CASE v4[p].kind # "client"
            <4> DEFINE next == IF v4[p].kind = "staff" THEN [v4[p] EXCEPT !.at = "notify"] ELSE Tic!Quiet
            <4>1. Tic!StaffSaved(p, v4[p].on, next)
                BY <1>6, <3>2 DEF Tic!SaveReply
            <4>2. /\ next \in Tic!Request
                  /\ next = Tic!Quiet \/ (next.number = v4[p].number /\ next.kind = v4[p].kind /\ next.at = "notify")
                BY <1>0 DEF Tic!DocsOK, Tic!Request
            <4> HIDE DEF next
            <4> QED BY <1>2, <1>5, <2>0, <4>1, <4>2
        <3> QED BY <3>1, <3>2
    <2> HIDE DEF Moves, Written
    <2>3. Moves /\ Written
        BY <2>1, <2>2
    <2> QED BY <1>0, <2>3, TicNumbers DEF Moves, Written, Tic!NumbersOK
<1>7. CASE Tic!SaveStatus(p)
    <2>0. v4[p].at = "save"
        BY <1>7 DEF Tic!SaveStatus
    <2>1. Written
        <3>1. CASE v4[p].status = "none"
            BY <1>4, <1>7, <3>1 DEF Tic!SaveStatus
        <3>2. CASE v4[p].status # "none"
            <4> DEFINE d == [v1[v4[p].on] EXCEPT !.status = v4[p].status]
            <4>1. v1' = [v1 EXCEPT ![v4[p].on] = d]
                BY <1>5, <1>7, <2>0, <3>2 DEF Tic!SaveStatus
            <4>2. d \in Tic!Doc /\ d.number = v1[v4[p].on].number
                BY <1>5, <2>0, <3>2 DEF Tic!Doc
            <4> HIDE DEF d
            <4> QED BY <1>3, <1>5, <2>0, <4>1, <4>2
        <3> QED BY <3>1, <3>2
    <2>2. Moves
        <3>1. Tic!StaffSaved(p, v4[p].on, Tic!Quiet)
            BY <1>7 DEF Tic!SaveStatus
        <3> QED BY <1>0, <1>2, <1>5, <2>0, <3>1
    <2> HIDE DEF Moves, Written
    <2>3. Moves /\ Written
        BY <2>1, <2>2
    <2> QED BY <1>0, <2>3, TicNumbers DEF Moves, Written, Tic!NumbersOK
<1>8. CASE Tic!CreateMessage(p) \/ Tic!NotifyOpened(p) \/ Tic!NotifyReplied(p) \/ Tic!PostFails(p)
    <2>1. UNCHANGED v1 /\ \E at \in {"idle", "save", "notify"} : Tic!Proceed(p, at)
        BY <1>8 DEF Tic!CreateMessage, Tic!NotifyOpened, Tic!NotifyReplied, Tic!PostFails
    <2> HIDE DEF Moves, Written
    <2>2. Moves /\ Written
        BY <1>1, <1>4, <2>1
    <2> QED BY <1>0, <2>2, TicNumbers DEF Moves, Written, Tic!NumbersOK
<1> QED BY <1>6, <1>7, <1>8

\* A ticket is opened under its request's number, which no other has.
LEMMA TicOpens ==
    ASSUME Tic!TicketInv, Tic!NumbersOK, NEW p \in Seconds, Tic!CreateTicket(p)
    PROVE  Tic!NumbersOK'
<1>0. /\ Tic!DocsOK /\ UNCHANGED v5 /\ v5.begun \in Nat /\ MaxPosts \in Nat /\ v5.begun <= MaxPosts /\ v4[p].at = "create"
      /\ v4[p] \in Tic!Request /\ v4[p].number \in 1..v5.begun
    <2>1. /\ Tic!DocsOK /\ UNCHANGED v5 /\ v5.begun \in Nat /\ MaxPosts \in Nat /\ v4[p].at = "create" /\ v4[p] \in Tic!Request
        BY TicketAssumption DEF Tic!TicketInv, Tic!DocsOK, Tic!CreateTicket, Tic!TicketBounds
    <2>2. v4[p].number \in Nat /\ v4[p].number > 0 /\ v4[p].number <= v5.begun /\ v5.begun <= MaxPosts
        BY <2>1 DEF Tic!NumbersOK, Tic!Request
    <2> QED BY <2>1, <2>2
<1>1. CASE Tic!NumberTaken(v4[p].number)
    <2>1. Tic!Proceed(p, "idle") /\ UNCHANGED v1
        BY <1>1 DEF Tic!CreateTicket
    <2>2. v4' \in [Seconds -> Tic!Request] /\ v4'[p] = Tic!Quiet /\ \A q \in Seconds \ {p} : v4'[q] = v4[q]
        BY <1>0, <2>1, TicProceeds
    <2>3. Tic!Opened' = Tic!Opened
        BY <2>1 DEF Tic!Opened
    <2>4. \A q \in Seconds : v4'[q] = v4[q] \/ (v4'[q].at = "idle" /\ v4'[q].number = 0)
        BY <2>2 DEF Tic!Quiet
    <2> QED BY <1>0, <2>1, <2>3, <2>4 DEF Tic!NumbersOK
<1>2. CASE ~Tic!NumberTaken(v4[p].number)
    <2> DEFINE doc == [number |-> v4[p].number, status |-> "open", replier |-> "client"]
    <2>1. PICK t \in Firsts \ Tic!Opened :
             /\ v1' = [v1 EXCEPT ![t] = doc]
             /\ v4' = [v4 EXCEPT ![p].at = "message", ![p].kind = "first", ![p].on = t]
        BY <1>2 DEF Tic!CreateTicket
    <2>2. doc \in Tic!Doc /\ doc.number = v4[p].number
        BY <1>0 DEF Tic!DocsOK, Tic!Request, Tic!Doc, Tic!TicketStatuses, Tic!Sides
    <2> HIDE DEF doc
    <2>3. v1'[t] = doc /\ Tic!Opened \subseteq Tic!Opened' /\ \A u \in Firsts \ {t} : v1'[u] = v1[u]
        BY <1>0, <2>1, <2>2, TicWritten
    <2>4. \A u \in Tic!Opened' : u = t \/ (u \in Tic!Opened /\ v1'[u] = v1[u])
        BY <2>3 DEF Tic!Opened
    <2>5. \A u \in Tic!Opened : v1[u].number # v4[p].number
        BY <1>2 DEF Tic!NumberTaken
    <2>6. \A q \in Seconds : \/ v4'[q] = v4[q]
                             \/ v4'[q].at = "message" /\ v4'[q].kind = "first" /\ v4'[q].number = v4[q].number
        <3>1. v4 \in [Seconds -> Tic!Request] /\ v4' = [v4 EXCEPT ![p] = [v4[p] EXCEPT !.at = "message", !.kind = "first", !.on = t]]
            BY <1>0, <2>1 DEF Tic!DocsOK
        <3>2. \A r \in Tic!Request : /\ [r EXCEPT !.at = "message", !.kind = "first", !.on = t].at = "message"
                                     /\ [r EXCEPT !.at = "message", !.kind = "first", !.on = t].kind = "first"
                                     /\ [r EXCEPT !.at = "message", !.kind = "first", !.on = t].number = r.number
            BY DEF Tic!Request
        <3> QED BY <3>1, <3>2
    <2>7. \A q \in Seconds : /\ v4'[q].number <= v5'.begun /\ (v4'[q].at = "create" => v4'[q].number > 0)
                             /\ v4'[q].at = "message" => v4'[q].kind \in {"first", "client", "staff", "note"}
        BY <1>0, <2>6 DEF Tic!NumbersOK
    <2>8. \A u \in Tic!Opened' : v1'[u].number \in 1..v5'.begun
        BY <1>0, <2>2, <2>3, <2>4 DEF Tic!NumbersOK
    <2>9. \A u, w \in Tic!Opened' : v1'[u].number = v1'[w].number => u = w
        BY <2>2, <2>3, <2>4, <2>5 DEF Tic!NumbersOK
    <2> QED BY <1>0, <2>7, <2>8, <2>9 DEF Tic!NumbersOK
<1> QED BY <1>1, <1>2

LEMMA TicNotes ==
    ASSUME Tic!TicketInv, Tic!NumbersOK, Tic!NotesOK, Tic!TicketNext \/ UNCHANGED Tic!ticketVars
    PROVE  Tic!NotesOK'
<1> DEFINE Written == v2' \in [Firsts -> Tic!Sides \cup {"none", "note"}]
           Heard == v3' \in [Tic!Sides -> SUBSET {"read", "unread"}]
<1>0. (UNCHANGED v2 => Written) /\ (UNCHANGED v3 => Heard)
    BY DEF Tic!NotesOK
<1>1. ASSUME NEW S, Tic!Notify(S) PROVE Heard
    BY <1>1 DEF Tic!Notify, Tic!NotesOK
<1>2. ASSUME NEW p \in Seconds, Tic!CreateMessage(p) PROVE Written
    <2>1. v4[p].kind \in {"first", "client", "staff", "note"}
        BY <1>2 DEF Tic!CreateMessage, Tic!NumbersOK
    <2>2. \E kind \in Tic!Sides \cup {"none", "note"} : v2' = [v2 EXCEPT ![v4[p].on] = kind]
        BY <1>2, <2>1 DEF Tic!CreateMessage, Tic!Sides
    <2> QED BY <2>2 DEF Tic!NotesOK
<1>3. ASSUME NEW p \in Seconds, Tic!NotifyOpened(p) \/ Tic!NotifyReplied(p) PROVE Heard /\ UNCHANGED v2
    BY <1>1, <1>3 DEF Tic!NotifyOpened, Tic!NotifyReplied
<1>4. ASSUME NEW s \in Tic!Sides, Tic!MarkRead(s) \/ Tic!MarkAllRead(s) \/ Tic!DeleteNote(s) \/ Tic!DeleteAllRead(s) PROVE Heard
    <2>1. v3[s] \in SUBSET {"read", "unread"}
        BY DEF Tic!NotesOK
    <2>2. \E N \in SUBSET {"read", "unread"} : v3' = [v3 EXCEPT ![s] = N]
        <3>1. CASE Tic!MarkRead(s) \/ Tic!MarkAllRead(s)
            BY <3>1 DEF Tic!MarkRead, Tic!MarkAllRead
        <3>2. CASE Tic!DeleteNote(s) \/ Tic!DeleteAllRead(s)
            BY <2>1, <3>2 DEF Tic!DeleteNote, Tic!DeleteAllRead
        <3> QED BY <1>4, <3>1, <3>2
    <2> QED BY <2>2 DEF Tic!NotesOK
<1> HIDE DEF Written, Heard
<1>5. ASSUME Tic!NoteActions PROVE Heard /\ UNCHANGED v2
    BY <1>4, <1>5 DEF Tic!NoteActions
<1>6. ASSUME NEW p \in Seconds, Tic!CreateMessage(p) PROVE UNCHANGED v3
    BY <1>6 DEF Tic!CreateMessage
<1>7. ASSUME \/ \E p \in Seconds : \/ Tic!AskCreate(p) \/ Tic!CreateTicket(p) \/ Tic!SaveReply(p) \/ Tic!SaveStatus(p) \/ Tic!PostFails(p)
                                   \/ \E t \in Firsts : \/ \E kind \in {"client", "staff", "note"} : Tic!AskReply(p, t, kind)
                                                        \/ \E kind \in {"status", "resolve", "own"}, s \in Chosen \cup {"resolved"} : Tic!AskStatus(p, t, kind, s)
             \/ UNCHANGED Tic!ticketVars
      PROVE  UNCHANGED <<v2, v3>>
    BY <1>7 DEF Tic!AskCreate, Tic!CreateTicket, Tic!SaveReply, Tic!SaveStatus, Tic!PostFails, Tic!AskReply, Tic!AskStatus, Tic!ticketVars
<1>8. Written /\ Heard
    BY <1>0, <1>2, <1>3, <1>5, <1>6, <1>7 DEF Tic!TicketNext
<1> QED BY <1>8 DEF Written, Heard, Tic!NotesOK

LEMMA TicBounded ==
    Tic!TicketInv /\ Tic!NumbersOK /\ Tic!NotesOK /\ [Tic!TicketNext]_Tic!ticketVars => Tic!NumbersOK' /\ Tic!NotesOK'
<1> SUFFICES ASSUME Tic!TicketInv, Tic!NumbersOK, Tic!NotesOK, Tic!TicketNext \/ UNCHANGED Tic!ticketVars
             PROVE  Tic!NumbersOK' /\ Tic!NotesOK'
    OBVIOUS
<1>1. Tic!NotesOK'
    BY TicNotes
<1>2. Tic!TicketInv'
    BY TicStep
<1>3. ASSUME Tic!NoteActions \/ UNCHANGED Tic!ticketVars PROVE Tic!NumbersOK'
    BY <1>3 DEF Tic!NoteActions, Tic!ticketVars, Tic!NumbersOK, Tic!Opened
<1> QED BY <1>1, <1>2, <1>3, TicAsked, TicNumberKept, TicOpens DEF Tic!TicketNext

LEMMA TicTyped == Tic!TicketInv /\ Tic!NumbersOK /\ Tic!NotesOK => Tic!TicketTypeOK
<1> SUFFICES ASSUME Tic!TicketInv, Tic!NumbersOK, Tic!NotesOK PROVE Tic!TicketTypeOK
    OBVIOUS
<1>0. v5.begun \in Nat /\ MaxPosts \in Nat /\ v5.begun <= MaxPosts /\ Tic!DocsOK
    BY TicketAssumption DEF Tic!TicketInv, Tic!DocsOK, Tic!NumbersOK, Tic!TicketBounds
<1>1. \A p \in Seconds : /\ v4[p].at \in {"idle", "create", "message", "save", "notify"} /\ v4[p].on \in Firsts \cup {Nobody}
                         /\ v4[p].number \in 0..MaxPosts
    <2>1. \A p \in Seconds : v4[p] \in Tic!Request
        BY <1>0 DEF Tic!DocsOK
    <2>2. \A p \in Seconds : v4[p].number \in Nat /\ v4[p].number <= v5.begun
        BY <2>1 DEF Tic!NumbersOK, Tic!Request
    <2> QED BY <1>0, <2>1, <2>2 DEF Tic!Request
<1>2. v1 \in [Firsts -> [number : 1..MaxPosts, status : Tic!TicketStatuses, replier : Tic!Sides] \cup {Tic!NoDoc}]
    <2> SUFFICES ASSUME NEW t \in Firsts, v1[t] # Tic!NoDoc
                 PROVE  v1[t] \in [number : 1..MaxPosts, status : Tic!TicketStatuses, replier : Tic!Sides]
        BY <1>0 DEF Tic!DocsOK
    <2>1. v1[t] \in Tic!Doc
        BY <1>0 DEF Tic!DocsOK
    <2>2. v1[t].number \in 1..v5.begun
        BY DEF Tic!NumbersOK, Tic!Opened
    <2>3. v1[t].number \in 1..MaxPosts
        BY <1>0, <2>2
    <2> QED BY <2>1, <2>3 DEF Tic!Doc
<1>3. v5.begun \in 0..MaxPosts /\ v5.heard \subseteq Firsts
    BY <1>0 DEF Tic!DocsOK
<1> QED BY <1>1, <1>2, <1>3 DEF Tic!TicketTypeOK, Tic!NotesOK

LEMMA TicStarts == Tic!TicketInit => Tic!NumbersOK /\ Tic!NotesOK
BY TicketAssumption DEF Tic!TicketInit, Tic!TicketBounds, Tic!NumbersOK, Tic!NotesOK, Tic!Opened, Tic!Quiet
-----------------------------------------------------------------------------
Roles == {"live", "archived", "gone"}

LEMMA AccFailing ==
    ASSUME NEW x PROVE /\ Acc!Failing(x) \in SUBSET Seconds /\ IsFiniteSet(Acc!Failing(x))
                       /\ Acc!Cardinality(Acc!Failing(x)) \in Nat
<1>1. Acc!Failing(x) \in SUBSET Seconds
    BY DEF Acc!Failing
<1> QED BY <1>1, AccUnlocking

\* Where no failure begins or is counted, those there are keep their requests.
LEMMA AccSteady ==
    ASSUME Acc!AccountInv, Acc!FailuresBegun, v3' \in Roles, v5'.begun \in Nat, v5.begun <= v5'.begun, v5'.begun <= MaxVisits,
           \A x \in Members : Acc!Exists(x)' => \/ Acc!Exists(x) /\ v1'[x].tries \in {0, v1[x].tries}
                                                \/ v1'[x].tries = 0 /\ x \notin v5.used,
           \A w \in Seconds : v4'[w].at = "failed" => v4'[w] = v4[w],
           \A w \in Seconds : v4'[w].seen # Acc!NoUser =>
              v4'[w].seen = v4[w].seen \/ \E x \in Members : Acc!Exists(x) /\ v4'[w].seen = v1[x]
    PROVE  Acc!FailuresBegun'
<1>0. v5.begun \in Nat /\ MaxVisits \in Nat /\ v5.begun <= MaxVisits
    BY AccountAssumption DEF Acc!AccountInv, Acc!DocsOK, Acc!AccountBounds, Acc!FailuresBegun
<1>1. ASSUME NEW x \in Members PROVE /\ Acc!Cardinality(Acc!Failing(x)') \in Nat
                                     /\ Acc!Cardinality(Acc!Failing(x)') <= Acc!Cardinality(Acc!Failing(x))
    <2>1. Acc!Failing(x)' \subseteq Acc!Failing(x)
        BY DEF Acc!Failing
    <2>2. IsFiniteSet(Acc!Failing(x)') /\ Cardinality(Acc!Failing(x)') <= Cardinality(Acc!Failing(x))
        BY <2>1, AccFailing, FS_Subset
    <2>3. Cardinality(Acc!Failing(x)') \in Nat
        BY <2>2, FS_CardinalityType
    <2> QED BY <2>2, <2>3, AccCounts
<1>2. ASSUME NEW x \in Members, Acc!Exists(x)
      PROVE  v1[x].tries \in Nat /\ v1[x].tries + Acc!Cardinality(Acc!Failing(x)) <= v5.begun /\ v1[x].tries <= MaxVisits
    <2>1. v1[x].tries \in Nat /\ v1[x].tries + Acc!Cardinality(Acc!Failing(x)) <= v5.begun
        BY <1>2, AccStays DEF Acc!Exists, Acc!UserDoc, Acc!FailuresBegun, Members
    <2> QED BY <1>0, <2>1, AccFailing
<1>3. ASSUME NEW x \in Members, Acc!Exists(x)' PROVE v1'[x].tries + Acc!Cardinality(Acc!Failing(x)') <= v5'.begun
    <2>1. CASE Acc!Exists(x) /\ v1'[x].tries \in {0, v1[x].tries}
        BY <1>0, <1>1, <1>2, <2>1, AccFailing
    <2>2. CASE v1'[x].tries = 0 /\ x \notin v5.used
        <3>1. Acc!Failing(x) = {}
            BY <2>2, AccUsed DEF Acc!Failing, Acc!AccountInv, Acc!IdsOnce
        <3>2. Acc!Failing(x)' = {}
            BY <3>1 DEF Acc!Failing
        <3>3. Acc!Cardinality(Acc!Failing(x)') = 0
            BY <3>2, FS_EmptySet, AccCounts
        <3> QED BY <2>2, <3>3
    <2> QED BY <1>3, <2>1, <2>2
<1>4. ASSUME NEW w \in Seconds, v4'[w].seen # Acc!NoUser PROVE v4'[w].seen.tries <= MaxVisits
    BY <1>2, <1>4 DEF Acc!FailuresBegun
<1> QED BY <1>3, <1>4 DEF Acc!FailuresBegun, Roles, Members

LEMMA AccBegun ==
    ASSUME Acc!AccountInv, NEW v \in Seconds,
           NEW at \in {"register", "signup", "adopt", "oauth", "link", "token", "failed", "passed", "assign", "unrole",
                       "delete", "destroy", "remove"}, NEW u \in Members \cup {Nobody}, NEW m \in Thirds \cup {"none"},
           Acc!Begin(v, at, u, m)
    PROVE  /\ v5'.begun = v5.begun + 1 /\ v5'.begun \in Nat /\ v5'.begun <= MaxVisits
           /\ v4[v] = Acc!Idle /\ \A w \in Seconds \ {v} : v4'[w] = v4[w]
           /\ v4'[v].at = at /\ v4'[v].who = u
           /\ v4'[v].seen = Acc!NoUser \/ (u \in Members /\ v4'[v].seen = v1[u])
<1> DEFINE r == [at |-> at, who |-> u, mail |-> m, seen |-> IF u = Nobody THEN Acc!NoUser ELSE v1[u]]
<1>1. v4' = [v4 EXCEPT ![v] = r] /\ v4[v] = Acc!Idle
    BY DEF Acc!Begin
<1>2. v4'[v] = r /\ \A w \in Seconds \ {v} : v4'[w] = v4[w]
    BY <1>1, AccStays
<1>3. v5.begun \in Nat /\ MaxVisits \in Nat /\ \A n \in Nat : [v5 EXCEPT !.begun = n].begun = n
    BY AccountAssumption DEF Acc!AccountInv, Acc!DocsOK, Acc!AccountBounds
<1>4. v5'.begun = v5.begun + 1 /\ v5'.begun \in Nat /\ v5'.begun <= MaxVisits
    BY <1>3 DEF Acc!Begin
<1> QED BY <1>1, <1>2, <1>4

LEMMA AccBegunOnce == Acc!AccountInv /\ Acc!Once => v5'.begun = v5.begun + 1 /\ v5'.begun \in Nat /\ v5'.begun <= MaxVisits
<1>1. Acc!AccountInv => v5.begun \in Nat /\ MaxVisits \in Nat /\ \A n \in Nat : [v5 EXCEPT !.begun = n].begun = n
    BY AccountAssumption DEF Acc!AccountInv, Acc!DocsOK, Acc!AccountBounds
<1> QED BY <1>1 DEF Acc!Once

\* A request that ends, or goes on to its token.
LEMMA AccEnds ==
    ASSUME Acc!AccountInv, NEW v \in Seconds, Acc!Finish(v) \/ Acc!Goto(v, "token")
    PROVE  \A w \in Seconds : /\ v4'[w].at = "failed" => v4'[w] = v4[w]
                              /\ v4'[w].seen # Acc!NoUser => v4'[w].seen = v4[w].seen
<1>1. Acc!Idle.at = "idle" /\ Acc!Idle.seen = Acc!NoUser
    BY DEF Acc!Idle
<1>2. [v4[v] EXCEPT !.at = "token"].at = "token" /\ [v4[v] EXCEPT !.at = "token"].seen = v4[v].seen
    BY AccStays DEF Acc!Visit
<1>3. v4' = [v4 EXCEPT ![v] = Acc!Idle] \/ v4' = [v4 EXCEPT ![v] = [v4[v] EXCEPT !.at = "token"]]
    BY AccStays DEF Acc!Finish, Acc!Goto
<1> QED BY <1>1, <1>2, <1>3, AccStays

\* One user written, with no failure counted by it.
LEMMA AccWritten ==
    ASSUME Acc!AccountInv, NEW u \in Members, NEW rec, Acc!Put(u, rec), Acc!Exists(u) => rec.tries \in {0, v1[u].tries}
    PROVE  \A x \in Members : Acc!Exists(x)' => Acc!Exists(x) /\ v1'[x].tries \in {0, v1[x].tries}
BY AccStays DEF Acc!Put, Acc!Exists

LEMMA AccLeavesCounts ==
    ASSUME Acc!AccountInv, Acc!FailuresBegun
    PROVE  /\ v3 \in Roles /\ v5.begun \in Nat /\ v5.begun <= v5.begun /\ v5.begun <= MaxVisits
           /\ UNCHANGED v1 => \A x \in Members : Acc!Exists(x)' => Acc!Exists(x) /\ v1'[x].tries \in {0, v1[x].tries}
           /\ UNCHANGED v4 => \A w \in Seconds : /\ v4'[w].at = "failed" => v4'[w] = v4[w]
                                                 /\ v4'[w].seen # Acc!NoUser => v4'[w].seen = v4[w].seen
BY DEF Acc!AccountInv, Acc!DocsOK, Acc!FailuresBegun, Acc!Exists, Roles

\* Requests that only look.
LEMMA AccAskSteady ==
    ASSUME Acc!AccountInv, Acc!FailuresBegun, NEW v \in Seconds,
           \/ \E m \in Thirds : Acc!AskRegister(v, m) \/ Acc!AskSignUp(v, m) \/ Acc!AskOAuth(v, m)
           \/ Acc!AskDeleteRole(v)
           \/ \E u \in Members : \/ Acc!Refresh(v, u) \/ Acc!AskAssign(v, u) \/ Acc!AskDeleteUser(v, u)
                                 \/ Acc!AskDeleteClient(v, u) \/ Acc!AskRemoveClient(v, u)
                                 \/ Acc!Login(v, u) /\ ~Acc!Begin(v, "failed", u, "none")
    PROVE  Acc!FailuresBegun'
<1>1. UNCHANGED <<v1, v3>>
    BY DEF Acc!AskRegister, Acc!AskSignUp, Acc!AskOAuth, Acc!AskDeleteRole, Acc!Refresh, Acc!AskAssign,
           Acc!AskDeleteUser, Acc!AskDeleteClient, Acc!AskRemoveClient, Acc!Login
<1> DEFINE Asked == \E at \in {"register", "signup", "adopt", "oauth", "link", "token", "passed", "assign", "unrole",
                              "delete", "destroy", "remove"}, u \in Members \cup {Nobody}, m \in Thirds \cup {"none"} :
                       Acc!Begin(v, at, u, m)
<1>2. Asked
    <2>1. ASSUME NEW m \in Thirds, Acc!AskRegister(v, m) \/ Acc!AskSignUp(v, m) \/ Acc!AskOAuth(v, m) PROVE Asked
        BY <2>1 DEF Acc!AskRegister, Acc!AskSignUp, Acc!AskOAuth, Acc!Holder, Members
    <2>2. CASE Acc!AskDeleteRole(v)
        BY <2>2 DEF Acc!AskDeleteRole
    <2>3. ASSUME NEW u \in Members, \/ Acc!Refresh(v, u) \/ Acc!AskAssign(v, u) \/ Acc!AskDeleteUser(v, u)
                                    \/ Acc!AskDeleteClient(v, u) \/ Acc!AskRemoveClient(v, u)
          PROVE Asked
        BY <2>3 DEF Acc!Refresh, Acc!AskAssign, Acc!AskDeleteUser, Acc!AskDeleteClient, Acc!AskRemoveClient
    <2>4. ASSUME NEW u \in Members, Acc!Login(v, u) /\ ~Acc!Begin(v, "failed", u, "none") PROVE Asked
        BY <2>4 DEF Acc!Login
    <2> HIDE DEF Asked
    <2> QED BY <2>1, <2>2, <2>3, <2>4
<1>3. ASSUME NEW at \in {"register", "signup", "adopt", "oauth", "link", "token", "passed", "assign", "unrole",
                         "delete", "destroy", "remove"}, NEW u \in Members \cup {Nobody}, NEW m \in Thirds \cup {"none"},
             Acc!Begin(v, at, u, m)
      PROVE  Acc!FailuresBegun'
    <2>1. /\ v5'.begun = v5.begun + 1 /\ v5'.begun \in Nat /\ v5'.begun <= MaxVisits
          /\ v4[v] = Acc!Idle /\ \A w \in Seconds \ {v} : v4'[w] = v4[w]
          /\ v4'[v].at = at /\ v4'[v].who = u
          /\ v4'[v].seen = Acc!NoUser \/ (u \in Members /\ v4'[v].seen = v1[u])
        BY <1>3, AccBegun
    <2>2. v3' \in Roles /\ v5.begun <= v5'.begun
        BY <1>1, <2>1, AccLeavesCounts
    <2>3. \A x \in Members : Acc!Exists(x)' => Acc!Exists(x) /\ v1'[x].tries \in {0, v1[x].tries}
        BY <1>1, AccLeavesCounts
    <2>4. \A w \in Seconds : /\ v4'[w].at = "failed" => v4'[w] = v4[w]
                             /\ v4'[w].seen # Acc!NoUser => v4'[w].seen = v4[w].seen \/ \E x \in Members : Acc!Exists(x) /\ v4'[w].seen = v1[x]
        BY <2>1 DEF Acc!Exists
    <2> QED BY <2>1, <2>2, <2>3, <2>4, AccSteady
<1> QED BY <1>2, <1>3

\* Requests that write and end, with no failure counted.
LEMMA AccWriteSteady ==
    ASSUME Acc!AccountInv, Acc!FailuresBegun, NEW v \in Seconds,
           \/ Acc!CommitLinked(v) \/ Acc!LoginPassed(v) \/ Acc!SaveToken(v) \/ Acc!Assign(v) \/ Acc!DeleteUser(v)
           \/ Acc!CommitAdopted(v) \/ Acc!DeleteRole(v) \/ Acc!DestroyUser(v) \/ Acc!RemoveClient(v)
    PROVE  Acc!FailuresBegun'
<1> DEFINE u == v4[v].who
<1>1. Acc!Finish(v) \/ Acc!Goto(v, "token")
    BY DEF Acc!CommitLinked, Acc!LoginPassed, Acc!SaveToken, Acc!Assign, Acc!DeleteUser,
           Acc!CommitAdopted, Acc!DeleteRole, Acc!DestroyUser, Acc!RemoveClient
<1>2. \A w \in Seconds : /\ v4'[w].at = "failed" => v4'[w] = v4[w]
                         /\ v4'[w].seen # Acc!NoUser => v4'[w].seen = v4[w].seen
    BY <1>1, AccEnds
<1>3. v5'.begun = v5.begun
    <2>1. \A K \in SUBSET Members : [v5 EXCEPT !.kept = K].begun = v5.begun
        BY DEF Acc!AccountInv, Acc!DocsOK, Members
    <2>2. CASE Acc!RemoveClient(v)
        <3>1. u \in Members
            BY <2>2, AccStays DEF Acc!RemoveClient, Alone
        <3>2. v5.kept \cup {u} \in SUBSET Members
            BY <3>1 DEF Acc!AccountInv, Acc!DocsOK, Members
        <3> QED BY <2>1, <2>2, <3>2 DEF Acc!RemoveClient
    <2>3. CASE ~Acc!RemoveClient(v)
        BY <2>3 DEF Acc!CommitLinked, Acc!LoginPassed, Acc!SaveToken, Acc!Assign, Acc!DeleteUser,
                    Acc!CommitAdopted, Acc!DeleteRole, Acc!DestroyUser
    <2> QED BY <2>2, <2>3
<1>4. v3' \in Roles
    BY AccLeavesCounts DEF Acc!CommitLinked, Acc!LoginPassed, Acc!SaveToken, Acc!Assign, Acc!DeleteUser,
           Acc!CommitAdopted, Acc!DeleteRole, Acc!DestroyUser, Acc!RemoveClient, Roles
<1>5. \A x \in Members : Acc!Exists(x)' => Acc!Exists(x) /\ v1'[x].tries \in {0, v1[x].tries}
    <2>1. CASE Acc!CommitLinked(v) \/ Acc!LoginPassed(v) \/ Acc!SaveToken(v) \/ Acc!Assign(v) \/ Acc!DeleteUser(v)
        <3>1. u \in Members
            BY <2>1, AccStays DEF Alone, Acc!CommitLinked, Acc!LoginPassed, Acc!SaveToken, Acc!Assign, Acc!DeleteUser
        <3>2. CASE UNCHANGED v1
            BY <3>2, AccLeavesCounts
        <3>3. CASE ~UNCHANGED v1
            <4> DEFINE Good(rec) == Acc!Exists(u) => rec.tries \in {0, v1[u].tries}
            <4>1. Acc!Exists(u) => v1[u] \in Acc!UserDoc
                BY <3>1, AccStays DEF Acc!Exists
            <4>2. /\ Good([v1[u] EXCEPT !.keyed = TRUE, !.session = TRUE]) /\ Good([v1[u] EXCEPT !.tries = 0, !.lock = "none"])
                  /\ Good([v1[u] EXCEPT !.session = TRUE]) /\ Good([v1[u] EXCEPT !.assigned = TRUE])
                  /\ Good([v1[u] EXCEPT !.active = FALSE])
                BY <4>1 DEF Acc!UserDoc
            <4>3. \/ Acc!Put(u, [v1[u] EXCEPT !.keyed = TRUE, !.session = TRUE])
                  \/ Acc!Put(u, [v1[u] EXCEPT !.tries = 0, !.lock = "none"])
                  \/ Acc!Put(u, [v1[u] EXCEPT !.session = TRUE])
                  \/ Acc!Put(u, [v1[u] EXCEPT !.assigned = TRUE])
                  \/ Acc!Put(u, [v1[u] EXCEPT !.active = FALSE])
                BY <2>1, <3>3 DEF Acc!CommitLinked, Acc!LoginPassed, Acc!SaveToken, Acc!Assign, Acc!DeleteUser
            <4> HIDE DEF Good
            <4>4. \E rec : Acc!Put(u, rec) /\ Good(rec)
                BY <4>2, <4>3, Zenon
            <4>5. PICK rec : Acc!Put(u, rec) /\ (Acc!Exists(u) => rec.tries \in {0, v1[u].tries})
                BY <4>4 DEF Good
            <4> HIDE DEF u
            <4> QED BY <3>1, <4>5, AccWritten
        <3> QED BY <3>2, <3>3
    <2>2. CASE Acc!CommitAdopted(v) \/ Acc!DeleteRole(v)
        BY <2>2, AccLeavesCounts DEF Acc!CommitAdopted, Acc!DeleteRole
    <2>3. CASE Acc!DestroyUser(v) \/ Acc!RemoveClient(v)
        <3>1. UNCHANGED v1 \/ v1' = [v1 EXCEPT ![u] = Acc!NoUser]
            BY <2>3 DEF Acc!DestroyUser, Acc!RemoveClient
        <3> HIDE DEF u
        <3>2. \A x \in Members : v1'[x] = v1[x] \/ v1'[x] = Acc!NoUser
            BY <3>1, AccStays
        <3> QED BY <3>2 DEF Acc!Exists
    <2> QED BY <2>1, <2>2, <2>3
<1> HIDE DEF u
<1> QED BY <1>2, <1>3, <1>4, <1>5, AccLeavesCounts, AccSteady

\* Writes of one request each, and what time does.
LEMMA AccDirectSteady ==
    ASSUME Acc!AccountInv, Acc!FailuresBegun,
           \/ \E u \in Members : Acc!LockExpires(u) \/ Acc!ResetExpires(u) \/ Acc!CompleteProfile(u) \/ Acc!UpdateUser(u)
           \/ Acc!OwnWrite \/ Acc!ArchiveRole \/ UNCHANGED Acc!accountVars
    PROVE  Acc!FailuresBegun'
<1>1. v5'.begun \in Nat /\ v5.begun <= v5'.begun /\ v5'.begun <= MaxVisits
    <2>1. Acc!Once \/ UNCHANGED v5
        BY DEF Acc!OwnWrite, Acc!LockExpires, Acc!ResetExpires, Acc!UpdateUser, Acc!CompleteProfile, Acc!ArchiveRole, Acc!accountVars
    <2> QED BY <2>1, AccBegunOnce, AccLeavesCounts
<1>2. UNCHANGED v4 /\ v3' \in Roles
    BY AccLeavesCounts DEF Acc!OwnWrite, Acc!LockExpires, Acc!ResetExpires, Acc!UpdateUser, Acc!CompleteProfile, Acc!ArchiveRole,
           Acc!accountVars, Roles
<1>3. \A x \in Members : Acc!Exists(x)' => Acc!Exists(x) /\ v1'[x].tries \in {0, v1[x].tries}
    <2>1. CASE UNCHANGED v1
        BY <2>1, AccLeavesCounts
    <2>2. CASE ~UNCHANGED v1
        <3>1. PICK u \in Members : \/ Acc!LockExpires(u) \/ Acc!ResetExpires(u) \/ Acc!UpdateUser(u)
                                   \/ Acc!Logout(u) \/ Acc!ForgotPassword(u) \/ Acc!ResetPassword(u) \/ Acc!VerifyEmail(u)
                                   \/ \E m \in Thirds : Acc!UpdateMe(u, m)
            BY <2>2 DEF Acc!OwnWrite, Acc!CompleteProfile, Acc!ArchiveRole, Acc!accountVars, Members
        <3> DEFINE Good(rec) == Acc!Exists(u) => rec.tries \in {0, v1[u].tries}
        <3>2. Acc!Exists(u) => v1[u] \in Acc!UserDoc
            BY <3>1, AccStays DEF Acc!Exists
        <3>3. /\ Good([v1[u] EXCEPT !.lock = "expired"]) /\ Good([v1[u] EXCEPT !.reset = FALSE])
              /\ Good([v1[u] EXCEPT !.session = FALSE]) /\ Good([v1[u] EXCEPT !.reset = TRUE])
              /\ Good([v1[u] EXCEPT !.reset = FALSE, !.secret = TRUE]) /\ Good([v1[u] EXCEPT !.verified = TRUE])
              /\ \A m \in Thirds : Good([v1[u] EXCEPT !.mail = m])
              /\ \A m \in Thirds, f \in [{"chief", "active"} -> BOOLEAN] :
                    Good([v1[u] EXCEPT !.mail = m, !.chief = f["chief"], !.active = f["active"]])
            BY <3>2 DEF Acc!UserDoc
        <3>4. \/ Acc!Put(u, [v1[u] EXCEPT !.lock = "expired"]) \/ Acc!Put(u, [v1[u] EXCEPT !.reset = FALSE])
              \/ Acc!Put(u, [v1[u] EXCEPT !.session = FALSE]) \/ Acc!Put(u, [v1[u] EXCEPT !.reset = TRUE])
              \/ Acc!Put(u, [v1[u] EXCEPT !.reset = FALSE, !.secret = TRUE]) \/ Acc!Put(u, [v1[u] EXCEPT !.verified = TRUE])
              \/ \E m \in Thirds : Acc!Put(u, [v1[u] EXCEPT !.mail = m])
              \/ \E m \in Thirds, f \in [{"chief", "active"} -> BOOLEAN] :
                    Acc!Put(u, [v1[u] EXCEPT !.mail = m, !.chief = f["chief"], !.active = f["active"]])
            BY <3>1, Zenon DEF Acc!LockExpires, Acc!ResetExpires, Acc!UpdateUser, Acc!Logout, Acc!ForgotPassword, Acc!ResetPassword,
                        Acc!VerifyEmail, Acc!UpdateMe
        <3> HIDE DEF Good
        <3>5. \E rec : Acc!Put(u, rec) /\ Good(rec)
            BY <3>3, <3>4, Zenon
        <3>6. PICK rec : Acc!Put(u, rec) /\ (Acc!Exists(u) => rec.tries \in {0, v1[u].tries})
            BY <3>5 DEF Good
        <3> QED BY <3>1, <3>6, AccWritten
    <2> QED BY <2>1, <2>2
<1>4. \A w \in Seconds : /\ v4'[w].at = "failed" => v4'[w] = v4[w]
                         /\ v4'[w].seen # Acc!NoUser => v4'[w].seen = v4[w].seen
    BY <1>2, AccLeavesCounts
<1> QED BY <1>1, <1>2, <1>3, <1>4, AccSteady

LEMMA AccNewSteady ==
    ASSUME Acc!AccountInv, Acc!FailuresBegun, NEW v \in Seconds, Acc!CommitNew(v)
    PROVE  Acc!FailuresBegun'
<1>1. CASE Acc!Finish(v) /\ UNCHANGED <<v1, v5>>
    BY <1>1, AccEnds, AccLeavesCounts, AccSteady DEF Acc!CommitNew
<1>2. CASE ~(Acc!Finish(v) /\ UNCHANGED <<v1, v2, v5>>) /\ ~(Acc!Finish(v) /\ UNCHANGED <<v1, v5>>)
    <2> DEFINE m == v4[v].mail
               social == v4[v].at = "oauth"
               rec == [Acc!Seeded(m) EXCEPT !.keyed = social, !.secret = ~social, !.chief = FALSE,
                                            !.verified = social, !.session = v4[v].at # "signup"]
    <2>1. PICK u \in Members \ v5.used :
              /\ v1' = [v1 EXCEPT ![u] = rec]
              /\ v5' = [v5 EXCEPT !.used = @ \cup {u}]
              /\ v4' = [v4 EXCEPT ![v] = IF @.at = "signup" THEN [@ EXCEPT !.at = "token", !.who = u] ELSE Acc!Idle]
        BY <1>2 DEF Acc!CommitNew, Acc!Enrol, Members
    <2>2. rec.tries = 0
        BY DEF Acc!Seeded
    <2> HIDE DEF rec
    <2>3. \A x \in Members : Acc!Exists(x)' => \/ Acc!Exists(x) /\ v1'[x].tries \in {0, v1[x].tries}
                                               \/ v1'[x].tries = 0 /\ x \notin v5.used
        BY <2>1, <2>2, AccStays DEF Acc!Exists
    <2>4. v5'.begun = v5.begun
        <3>1. v5.used \cup {u} \in SUBSET Members
            BY <2>1 DEF Acc!AccountInv, Acc!DocsOK, Members
        <3>2. \A U \in SUBSET Members : [v5 EXCEPT !.used = U].begun = v5.begun
            BY DEF Acc!AccountInv, Acc!DocsOK, Members
        <3> QED BY <2>1, <3>1, <3>2
    <2>5. \A w \in Seconds : /\ v4'[w].at = "failed" => v4'[w] = v4[w]
                             /\ v4'[w].seen # Acc!NoUser => v4'[w].seen = v4[w].seen
        <3>1. /\ [v4[v] EXCEPT !.at = "token", !.who = u].at = "token"
              /\ [v4[v] EXCEPT !.at = "token", !.who = u].seen = v4[v].seen
            BY AccStays DEF Acc!Visit
        <3>2. Acc!Idle.at = "idle" /\ Acc!Idle.seen = Acc!NoUser
            BY DEF Acc!Idle
        <3>3. v4' = [v4 EXCEPT ![v] = IF v4[v].at = "signup" THEN [v4[v] EXCEPT !.at = "token", !.who = u] ELSE Acc!Idle]
            BY <2>1, AccStays
        <3> QED BY <3>1, <3>2, <3>3, AccStays
    <2>6. UNCHANGED v3
        BY DEF Acc!CommitNew
    <2> QED BY <2>3, <2>4, <2>5, <2>6, AccLeavesCounts, AccSteady
<1>3. CASE Acc!Finish(v) /\ UNCHANGED <<v1, v2, v5>>
    BY <1>1, <1>3
<1> QED BY <1>1, <1>2, <1>3

\* A failed sign-in begins, or is counted: what is counted and what is still to be are no more than the requests.
LEMMA AccFailureBegun ==
    ASSUME Acc!AccountInv, Acc!FailuresBegun, NEW v \in Seconds, v3' = v3,
           v5'.begun \in Nat, v5.begun <= v5'.begun, v5'.begun <= MaxVisits,
           \A x \in Members : /\ Acc!Exists(x)' <=> Acc!Exists(x)
                              /\ Acc!Exists(x) => v1'[x].tries \in Nat /\ v1'[x].tries + Acc!Cardinality(Acc!Failing(x)') <= v5'.begun,
           \A w \in Seconds \ {v} : v4'[w] = v4[w],
           v4'[v].seen = Acc!NoUser \/ \E x \in Members : v4'[v].seen = v1[x]
    PROVE  Acc!FailuresBegun'
<1>1. \A w \in Seconds : v4'[w].seen # Acc!NoUser => v4'[w].seen.tries <= MaxVisits
    <2>1. ASSUME NEW x \in Members, Acc!Exists(x) PROVE v1[x].tries <= MaxVisits
        <3>1. v1[x].tries \in Nat /\ v1[x].tries + Acc!Cardinality(Acc!Failing(x)) <= v5.begun
            BY <2>1, AccStays DEF Acc!Exists, Acc!UserDoc, Acc!FailuresBegun, Members
        <3>2. v5.begun \in Nat /\ v5.begun <= MaxVisits /\ MaxVisits \in Nat
            BY AccLeavesCounts, AccountAssumption DEF Acc!AccountBounds
        <3> QED BY <3>1, <3>2, AccFailing
    <2> QED BY <2>1 DEF Acc!FailuresBegun, Acc!Exists
<1> QED BY <1>1, AccLeavesCounts DEF Acc!FailuresBegun, Members, Roles

LEMMA AccLoginSteady ==
    ASSUME Acc!AccountInv, Acc!FailuresBegun, NEW v \in Seconds, NEW u \in Members, Acc!Login(v, u), Acc!Begin(v, "failed", u, "none")
    PROVE  Acc!FailuresBegun'
<1>1. /\ v5'.begun = v5.begun + 1 /\ v5'.begun \in Nat /\ v5'.begun <= MaxVisits
      /\ v4[v] = Acc!Idle /\ \A w \in Seconds \ {v} : v4'[w] = v4[w]
      /\ v4'[v].at = "failed" /\ v4'[v].who = u
      /\ v4'[v].seen = Acc!NoUser \/ v4'[v].seen = v1[u]
    BY AccBegun
<1>2. UNCHANGED <<v1, v3>> /\ v5.begun \in Nat
    BY AccLeavesCounts DEF Acc!Login
<1>3. ASSUME NEW x \in Members, Acc!Exists(x)
      PROVE  v1'[x].tries \in Nat /\ v1'[x].tries + Acc!Cardinality(Acc!Failing(x)') <= v5'.begun
    <2>1. v1[x].tries \in Nat /\ v1[x].tries + Acc!Cardinality(Acc!Failing(x)) <= v5.begun
        BY <1>3, AccStays DEF Acc!Exists, Acc!UserDoc, Acc!FailuresBegun, Members
    <2>2. v \notin Acc!Failing(x)
        BY <1>1, AccIdle DEF Acc!Failing
    <2>3. Acc!Failing(x)' = IF x = u THEN Acc!Failing(x) \cup {v} ELSE Acc!Failing(x)
        <3>1. \A w \in Seconds : w \in Acc!Failing(x)' <=> w \in Acc!Failing(x) \/ (x = u /\ w = v)
            BY <1>1, <2>2 DEF Acc!Failing
        <3>2. Acc!Failing(x)' \subseteq Seconds /\ Acc!Failing(x) \subseteq Seconds
            BY DEF Acc!Failing
        <3> QED BY <3>1, <3>2
    <2>4. Cardinality(Acc!Failing(x) \cup {v}) = Cardinality(Acc!Failing(x)) + 1
        BY <2>2, AccFailing, FS_AddElement
    <2>5. /\ Acc!Cardinality(Acc!Failing(x)') \in Nat
          /\ Acc!Cardinality(Acc!Failing(x)') <= Acc!Cardinality(Acc!Failing(x)) + 1
        <3>1. Acc!Cardinality(Acc!Failing(x) \cup {v}) = Acc!Cardinality(Acc!Failing(x)) + 1
            BY <2>4, AccCounts
        <3>2. Acc!Cardinality(Acc!Failing(x)) \in Nat
            BY AccFailing
        <3> QED BY <2>3, <3>1, <3>2
    <2> QED BY <1>1, <1>2, <2>1, <2>5, AccFailing
<1>4. \A x \in Members : Acc!Exists(x)' <=> Acc!Exists(x)
    BY <1>2 DEF Acc!Exists
<1> QED BY <1>1, <1>2, <1>3, <1>4, AccFailureBegun

LEMMA AccLoginFailedSteady ==
    ASSUME Acc!AccountInv, Acc!FailuresBegun, NEW v \in Seconds, Acc!LoginFailed(v)
    PROVE  Acc!FailuresBegun'
<1> DEFINE u == v4[v].who
           rec == Acc!FailureCounted(u, v4[v].seen)
<1>1. u \in Members /\ v4[v].at = "failed" /\ UNCHANGED <<v3, v5>> /\ Acc!Finish(v)
    BY AccStays DEF Acc!LoginFailed, Alone
<1>2. v4'[v] = Acc!Idle /\ Acc!Idle.at = "idle" /\ Acc!Idle.seen = Acc!NoUser /\ \A w \in Seconds \ {v} : v4'[w] = v4[w]
    BY <1>1, AccStays DEF Acc!Finish, Acc!Idle
<1>3. CASE ~Acc!Exists(u)
    <2>1. UNCHANGED v1
        BY <1>3 DEF Acc!LoginFailed
    <2> HIDE DEF u, rec
    <2> QED BY <1>1, <2>1, AccEnds, AccLeavesCounts, AccSteady
<1>4. CASE Acc!Exists(u)
    <2>1. v1[u] \in Acc!UserDoc /\ v1[u].tries \in Nat /\ v1[u].tries + 1 \in Nat
        BY <1>1, <1>4, AccStays DEF Acc!Exists, Acc!UserDoc
    <2>2. rec.tries \in {1, v1[u].tries + 1}
        <3>1. \A n \in Nat, l \in {"none", "held", "expired"} : [v1[u] EXCEPT !.tries = n, !.lock = l].tries = n
            BY <2>1 DEF Acc!UserDoc
        <3>2. /\ [v1[u] EXCEPT !.tries = 1, !.lock = "none"].tries = 1
              /\ [v1[u] EXCEPT !.tries = v1[u].tries + 1, !.lock = "held"].tries = v1[u].tries + 1
              /\ [v1[u] EXCEPT !.tries = v1[u].tries + 1, !.lock = v1[u].lock].tries = v1[u].tries + 1
            <4>1. v1[u].lock \in {"none", "held", "expired"}
                BY <2>1 DEF Acc!UserDoc
            <4> QED BY <2>1, <3>1, <4>1
        <3>3. \/ rec = [v1[u] EXCEPT !.tries = 1, !.lock = "none"]
              \/ rec = [v1[u] EXCEPT !.tries = v1[u].tries + 1, !.lock = "held"]
              \/ rec = [v1[u] EXCEPT !.tries = v1[u].tries + 1, !.lock = v1[u].lock]
            BY <2>1 DEF Acc!FailureCounted
        <3> HIDE DEF rec
        <3> QED BY <3>2, <3>3
    <2>3. v1' = [v1 EXCEPT ![u] = rec] /\ rec # Acc!NoUser
        <3>1. v1' = [v1 EXCEPT ![u] = rec]
            BY <1>4 DEF Acc!LoginFailed, Acc!Put
        <3>2. "tries" \in DOMAIN rec
            BY <2>1 DEF Acc!FailureCounted, Acc!UserDoc
        <3> QED BY <3>1, <3>2 DEF Acc!NoUser
    <2> HIDE DEF u, rec
    <2>4. \A x \in Members : Acc!Exists(x)' <=> Acc!Exists(x)
        BY <1>1, <1>4, <2>3, AccStays DEF Acc!Exists
    <2>5. ASSUME NEW x \in Members, Acc!Exists(x)
          PROVE  v1'[x].tries \in Nat /\ v1'[x].tries + Acc!Cardinality(Acc!Failing(x)') <= v5'.begun
        <3>1. v1[x].tries \in Nat /\ v1[x].tries + Acc!Cardinality(Acc!Failing(x)) <= v5.begun /\ v5.begun \in Nat /\ v5'.begun = v5.begun
            BY <1>1, <2>5, AccStays, AccLeavesCounts DEF Acc!Exists, Acc!UserDoc, Acc!FailuresBegun, Members
        <3>2. Acc!Failing(x)' = Acc!Failing(x) \ {v} /\ (x = u => v \in Acc!Failing(x))
            <4>1. \A w \in Seconds : w \in Acc!Failing(x)' <=> w \in Acc!Failing(x) /\ w # v
                BY <1>2 DEF Acc!Failing
            <4>2. Acc!Failing(x)' \subseteq Seconds /\ Acc!Failing(x) \subseteq Seconds
                BY DEF Acc!Failing
            <4>3. x = u => v \in Acc!Failing(x)
                BY <1>1 DEF Acc!Failing, u
            <4> QED BY <4>1, <4>2, <4>3
        <3>3. Cardinality(Acc!Failing(x)') = IF v \in Acc!Failing(x) THEN Cardinality(Acc!Failing(x)) - 1
                                             ELSE Cardinality(Acc!Failing(x))
            <4>1. IsFiniteSet(Acc!Failing(x))
                BY AccFailing
            <4> QED BY <3>2, <4>1, FS_RemoveElement
        <3>4. /\ Acc!Cardinality(Acc!Failing(x)') = Cardinality(Acc!Failing(x)')
              /\ Acc!Cardinality(Acc!Failing(x)) = Cardinality(Acc!Failing(x)) /\ Acc!Cardinality(Acc!Failing(x)) \in Nat
            BY AccCounts, AccFailing
        <3>5. CASE x = u
            <4>1. v1'[x].tries = rec.tries
                BY <1>1, <2>3, <3>5, AccStays
            <4> QED BY <2>2, <3>1, <3>2, <3>3, <3>4, <3>5, <4>1
        <3>6. CASE x # u
            <4>1. v1'[x] = v1[x]
                BY <2>3, <3>6, AccStays
            <4> QED BY <3>1, <3>2, <3>3, <3>4, <4>1
        <3> QED BY <3>5, <3>6
    <2>6. v5'.begun \in Nat /\ v5.begun <= v5'.begun /\ v5'.begun <= MaxVisits /\ v3' = v3
        BY <1>1, AccLeavesCounts
    <2> QED BY <1>2, <2>4, <2>5, <2>6, AccFailureBegun
<1> QED BY <1>3, <1>4

LEMMA AccBounded == Acc!AccountInv /\ Acc!FailuresBegun /\ [Acc!AccountNext]_(Acc!accountVars) => Acc!FailuresBegun'
<1> SUFFICES ASSUME Acc!AccountInv, Acc!FailuresBegun, Acc!AccountNext \/ UNCHANGED Acc!accountVars PROVE Acc!FailuresBegun'
    OBVIOUS
<1>1. ASSUME NEW v \in Seconds,
             \/ \E m \in Thirds : Acc!AskRegister(v, m) \/ Acc!AskSignUp(v, m) \/ Acc!AskOAuth(v, m)
             \/ Acc!AskDeleteRole(v)
             \/ \E u \in Members : \/ Acc!Refresh(v, u) \/ Acc!AskAssign(v, u) \/ Acc!AskDeleteUser(v, u)
                                   \/ Acc!AskDeleteClient(v, u) \/ Acc!AskRemoveClient(v, u)
                                   \/ Acc!Login(v, u) /\ ~Acc!Begin(v, "failed", u, "none")
      PROVE  Acc!FailuresBegun'
    BY <1>1, AccAskSteady
<1>2. ASSUME NEW v \in Seconds,
             \/ Acc!CommitLinked(v) \/ Acc!LoginPassed(v) \/ Acc!SaveToken(v) \/ Acc!Assign(v) \/ Acc!DeleteUser(v)
             \/ Acc!CommitAdopted(v) \/ Acc!DeleteRole(v) \/ Acc!DestroyUser(v) \/ Acc!RemoveClient(v)
      PROVE  Acc!FailuresBegun'
    BY <1>2, AccWriteSteady
<1>3. ASSUME NEW v \in Seconds, Acc!CommitNew(v) \/ Acc!LoginFailed(v) PROVE Acc!FailuresBegun'
    BY <1>3, AccNewSteady, AccLoginFailedSteady
<1>4. ASSUME NEW v \in Seconds, NEW u \in Members, Acc!Login(v, u), Acc!Begin(v, "failed", u, "none") PROVE Acc!FailuresBegun'
    BY <1>4, AccLoginSteady
<1>5. ASSUME \/ \E u \in Members : Acc!LockExpires(u) \/ Acc!ResetExpires(u) \/ Acc!CompleteProfile(u) \/ Acc!UpdateUser(u)
             \/ Acc!OwnWrite \/ Acc!ArchiveRole \/ UNCHANGED Acc!accountVars
      PROVE  Acc!FailuresBegun'
    BY <1>5, AccDirectSteady
<1> QED BY <1>1, <1>2, <1>3, <1>4, <1>5 DEF Acc!AccountNext, Members

LEMMA AccStarts == Acc!AccountInit => Acc!FailuresBegun
<1> SUFFICES ASSUME Acc!AccountInit PROVE Acc!FailuresBegun
    OBVIOUS
<1>0. MaxVisits \in Nat /\ v5.begun = 0 /\ v3 = "live" /\ \A v \in Seconds : v4[v] = Acc!Idle
    BY AccountAssumption DEF Acc!AccountInit, Acc!AccountBounds
<1>1. \A x : Acc!Failing(x) = {}
    BY <1>0, AccIdle DEF Acc!Failing
<1>2. \A x : Acc!Cardinality(Acc!Failing(x)) = 0
    BY <1>1, FS_EmptySet, AccCounts
<1>3. \A x \in Members : Acc!Exists(x) => v1[x].tries = 0
    BY AccSeeded DEF Acc!AccountInit, Acc!Exists, Members
<1>4. Acc!Idle.seen = Acc!NoUser
    BY DEF Acc!Idle
<1> QED BY <1>0, <1>2, <1>3, <1>4 DEF Acc!FailuresBegun, Members

LEMMA AccTyped == Acc!AccountInv /\ Acc!FailuresBegun => Acc!AccountTypeOK
<1> SUFFICES ASSUME Acc!AccountInv, Acc!FailuresBegun PROVE Acc!AccountTypeOK
    OBVIOUS
<1>0. MaxVisits \in Nat /\ v5.begun \in Nat /\ v5.begun <= MaxVisits /\ v3 \in Roles
    BY AccountAssumption, AccLeavesCounts DEF Acc!AccountBounds
<1>1. \A d \in Acc!UserDoc : d.tries <= MaxVisits => d \in Acc!User
    BY <1>0 DEF Acc!UserDoc, Acc!User
<1>2. ASSUME NEW x \in Members PROVE v1[x] \in Acc!User \cup {Acc!NoUser}
    <2>1. CASE Acc!Exists(x)
        <3>1. v1[x] \in Acc!UserDoc
            BY <2>1, AccStays DEF Acc!Exists
        <3>2. v1[x].tries \in Nat /\ v1[x].tries + Acc!Cardinality(Acc!Failing(x)) <= v5.begun
            BY <2>1, <3>1 DEF Acc!UserDoc, Acc!FailuresBegun, Members
        <3>3. v1[x].tries <= MaxVisits
            BY <1>0, <3>2, AccFailing
        <3> QED BY <1>1, <3>1, <3>3
    <2>2. CASE ~Acc!Exists(x)
        BY <2>2 DEF Acc!Exists
    <2> QED BY <2>1, <2>2
<1>3. \A v \in Seconds : /\ v4[v].who \in Members \cup {Nobody} /\ v4[v].mail \in Thirds \cup {"none"}
                         /\ v4[v].seen \in Acc!User \cup {Acc!NoUser}
    <2>1. \A v \in Seconds : v4[v].seen \in Acc!UserDoc \cup {Acc!NoUser}
        BY AccStays DEF Acc!Visit
    <2>2. \A v \in Seconds : v4[v].seen \in Acc!User \cup {Acc!NoUser}
        BY <1>1, <2>1 DEF Acc!FailuresBegun
    <2> QED BY <2>2, AccUsed
<1>4. v5.begun \in 0..MaxVisits /\ v5.used \subseteq Members /\ v5.kept \subseteq Members
    BY <1>0 DEF Acc!AccountInv, Acc!DocsOK, Members
<1> QED BY <1>0, <1>2, <1>3, <1>4, AccStays DEF Acc!AccountTypeOK, Members, Roles

-----------------------------------------------------------------------------
(* Checkout: v1 promotion, v2 usage, v3 sale, v4 pending, v5 tracked,       *)
(* v6 checkout.                                                             *)

LEMMA CheStays ==
    Che!CheckoutInv => /\ v1 \in Che!PromotionDoc /\ v2 \in [Seconds -> {"none", "used", "first"}]
                       /\ v3 \in [Seconds -> Che!Sale] /\ v4 \in [Seconds -> 0 .. Items] /\ v5 \in SUBSET Seconds
                       /\ v6 \in [Seconds -> Che!Call]
BY DEF Che!CheckoutInv, Che!DocsOK

LEMMA CheFresh == /\ Che!Fresh \in Che!Call /\ Che!Fresh.at = "idle" /\ Che!NoSale \in Che!Sale /\ Che!NoSale.status = "none"
                  /\ Items \in Nat \ {0} /\ MaxEdits \in Nat
                  /\ [Che!Fresh EXCEPT !.at = "ended"] \in Che!Call /\ [Che!Fresh EXCEPT !.at = "ended"].at = "ended"
BY CheckoutAssumption DEF Che!Fresh, Che!Call, Che!NoSale, Che!Sale, Che!SaleStates, Che!CheckoutSteps, Che!CheckoutBounds

\* What a call r has seen of the promotion, if it is still the one it saw.
Looked(r) == r.coupon = "promotion" /\ r.at \notin {"price", "validate"}
Allows(r) ==
    /\ v1.active
    /\ v1.usageLimit > 0 => v1.usageCount < v1.usageLimit
    /\ v1.firstOrderOnly => ~r.earlier
    /\ v1.usagePerClient > 0 /\ r.at # "count" => Che!UsagesOf(r.client) = {}
Seen(r) ==
    /\ r.client \in Firsts /\ r.version <= v1.version
    /\ r.version = v1.version /\ ~r.earlier => Che!UsagesOf(r.client) = {}
    /\ r.version = v1.version /\ Looked(r) => Allows(r)

LEMMA CheSeen ==
    /\ Che!SeenOK => \A o \in Seconds : Che!UnderWay(o) => Seen(v6[o])
    /\ (\A o \in Seconds : Che!UnderWay(o) => Seen(v6[o])) => Che!SeenOK
BY DEF Che!SeenOK, Seen, Looked, Allows, Che!UnderWay, Che!Same, Che!Validated, Che!Accepts, Che!PerClient

\* A call goes on, and nobody sees the difference.
LEMMA CheMoves ==
    ASSUME Che!CheckoutInv, NEW o \in Seconds, NEW r \in Che!Call, v6' = [v6 EXCEPT ![o] = r], UNCHANGED <<v1, v2, v3>>,
           v4' \in [Seconds -> 0 .. Items], \A p \in Seconds \ {o} : v4'[p] = v4[p], v5' \in SUBSET Seconds,
           r.at \notin {"track", "ended"} => v6[o].at \notin {"track", "ended"},
           v3[o].status # "none" => v4'[o] = Items,
           r.at \in {"invoice", "usage", "commit"} => v4'[o] = Items,
           r.at \in {"idle", "price", "validate", "count", "create", "services"} => v4'[o] < Items,
           o \notin v1.writer, ~(r.at = "commit" /\ r.coupon = "promotion"), r.at = "usage" => r.coupon = "promotion",
           r.at \notin {"idle", "track", "ended"} => Seen(r)
    PROVE  Che!CheckoutInv' /\ Che!CouponStep
<1>1. v6' \in [Seconds -> Che!Call] /\ v6'[o] = r /\ \A p \in Seconds \ {o} : v6'[p] = v6[p]
    BY CheStays
<1>2. Che!DocsOK'
    BY <1>1, CheStays DEF Che!DocsOK
<1>3. Che!CommitOK'
    <2>1. UNCHANGED Che!Used
        BY DEF Che!Used
    <2>2. Che!Cardinality(Che!Used)' = Che!Cardinality(Che!Used) /\ (Che!IsFiniteSet(Che!Used) => Che!IsFiniteSet(Che!Used)')
        BY <2>1 DEF Che!Cardinality, Che!IsFiniteSet
    <2> QED BY <1>1, <2>2 DEF Che!CheckoutInv, Che!CommitOK
<1>4. Che!WriterOK'
    BY <1>1 DEF Che!CheckoutInv, Che!WriterOK
<1>5. Che!SeenOK'
    <2>1. \A c : (Che!UsagesOf(c))' = Che!UsagesOf(c)
        BY DEF Che!UsagesOf, Che!SalesOf
    <2>2. \A p \in Seconds : Che!UnderWay(p)' => Seen(v6'[p])
        BY <1>1, CheSeen DEF Che!CheckoutInv, Che!UnderWay
    <2>3. \A x : Seen(x) => Seen(x)'
        BY <2>1 DEF Seen, Looked, Allows
    <2> QED BY <2>1, <2>2, <2>3 DEF Seen, Allows, Looked, Che!SeenOK, Che!UnderWay, Che!Same, Che!Validated, Che!Accepts, Che!PerClient
<1>6. Che!CouponStep
    BY DEF Che!CouponStep
<1> QED BY <1>2, <1>3, <1>4, <1>5, <1>6 DEF Che!CheckoutInv

LEMMA CheCall ==
    ASSUME NEW m \in Che!Call, NEW a \in Che!CheckoutSteps
    PROVE  LET r == [m EXCEPT !.at = a]
           IN  /\ r \in Che!Call /\ r.at = a /\ r.client = m.client /\ r.coupon = m.coupon /\ r.version = m.version
               /\ r.earlier = m.earlier /\ r.invoice = m.invoice
BY DEF Che!Call

LEMMA CheIdentify ==
    ASSUME Che!CheckoutInv, NEW o \in Seconds, NEW c \in Firsts, NEW coupon \in {"none", "promotion", "referral"},
           NEW invoice \in BOOLEAN, Che!Identify(o, c, coupon, invoice)
    PROVE  Che!CheckoutInv' /\ Che!CouponStep
<1> DEFINE e == ~Che!FirstOrder(c)
           r == [Che!Fresh EXCEPT !.at = "price", !.client = c, !.coupon = coupon, !.invoice = invoice,
                                  !.version = v1.version, !.earlier = e]
<1>1. v6' = [v6 EXCEPT ![o] = r] /\ UNCHANGED <<v1, v2, v3>> /\ UNCHANGED v4 /\ UNCHANGED v5 /\ v6[o].at = "idle"
    BY DEF Che!Identify
<1>2. e \in BOOLEAN /\ (~e => Che!UsagesOf(c) = {})
    BY DEF Che!FirstOrder, Che!UsagesOf
<1>3. v1.version \in Nat
    BY CheStays DEF Che!PromotionDoc
<1>5. /\ r \in Che!Call /\ r.at = "price" /\ r.client = c /\ r.version = v1.version /\ (~r.earlier => Che!UsagesOf(c) = {})
    <2> HIDE DEF e
    <2> QED BY <1>2, <1>3, CheFresh DEF Che!Call, Che!CheckoutSteps
<1> HIDE DEF r
<1>6. Seen(r)
    BY <1>3, <1>5 DEF Seen, Looked
<1>7. v4[o] < Items /\ v3[o].status = "none" /\ o \notin v1.writer
    BY <1>1, CheFresh DEF Che!CheckoutInv, Che!CommitOK, Che!WriterOK
<1> QED BY <1>1, <1>5, <1>6, <1>7, CheMoves, CheStays

\* What a call under way leaves as it is.
LEMMA CheAt ==
    ASSUME Che!CheckoutInv, NEW o \in Seconds, Che!UnderWay(o)
    PROVE  /\ v6[o] \in Che!Call /\ Seen(v6[o]) /\ v3[o].status = "none" /\ v2[o] = "none" /\ v3[o] = Che!NoSale
           /\ v6[o].at # "commit" => o \notin v1.writer /\ (v6[o].at \notin {"invoice", "usage"} => v4[o] < Items)
           /\ v6[o].at \in {"invoice", "usage", "commit"} => v4[o] = Items
<1>1. v6[o] \in Che!Call /\ Seen(v6[o]) /\ v3[o] = Che!NoSale /\ v2[o] = "none"
    BY CheStays, CheSeen DEF Che!CheckoutInv, Che!CommitOK, Che!UnderWay
<1>2. v6[o].at \in Che!CheckoutSteps
    BY <1>1 DEF Che!Call
<1> QED BY <1>1, <1>2, CheFresh DEF Che!CheckoutInv, Che!CommitOK, Che!WriterOK, Che!UnderWay, Che!CheckoutSteps

LEMMA ChePrice ==
    ASSUME Che!CheckoutInv, NEW o \in Seconds, Che!Price(o) \/ Che!ValidateReferral(o) \/ Che!CountUsages(o) \/ Che!CreateOrder(o)
    PROVE  Che!CheckoutInv' /\ Che!CouponStep
<1>0. /\ v6[o] \in Che!Call /\ Seen(v6[o]) /\ v3[o].status = "none" /\ o \notin v1.writer /\ v4[o] < Items
      /\ v6[o].at \notin {"track", "ended"}
    BY CheAt DEF Che!UnderWay, Che!Price, Che!ValidateReferral, Che!CountUsages, Che!CreateOrder
<1>1. PICK a \in {"validate", "create", "services"} :
         /\ v6' = [v6 EXCEPT ![o] = [v6[o] EXCEPT !.at = a]]
         /\ a = "validate" => v6[o].at = "price" /\ v6[o].coupon # "none"
         /\ a = "create" => \/ v6[o].at = "price" /\ v6[o].coupon = "none"
                            \/ v6[o].at = "validate" /\ v6[o].coupon = "referral"
                            \/ v6[o].at = "count" /\ Che!UsagesOf(v6[o].client) = {}
         /\ a = "services" => v6[o].at = "create"
    BY DEF Che!Price, Che!ValidateReferral, Che!CountUsages, Che!CreateOrder, Che!Goes
<1> DEFINE r == [v6[o] EXCEPT !.at = a]
<1>2. a \in Che!CheckoutSteps
    BY DEF Che!CheckoutSteps
<1>3. /\ r \in Che!Call /\ r.at = a /\ r.client = v6[o].client /\ r.coupon = v6[o].coupon /\ r.version = v6[o].version
      /\ r.earlier = v6[o].earlier
    BY <1>0, <1>2, CheCall
<1>4. UNCHANGED <<v1, v2, v3>> /\ UNCHANGED v4 /\ UNCHANGED v5
    BY DEF Che!Price, Che!ValidateReferral, Che!CountUsages, Che!CreateOrder
<1> HIDE DEF r
<1>5. Seen(r)
    BY <1>0, <1>1, <1>3 DEF Seen, Looked, Allows
<1>6. v6' = [v6 EXCEPT ![o] = r]
    BY <1>1 DEF r
<1> QED BY <1>0, <1>3, <1>4, <1>5, <1>6, CheMoves, CheStays

LEMMA CheValidate ==
    ASSUME Che!CheckoutInv, NEW o \in Seconds, Che!ValidateCoupon(o)
    PROVE  Che!CheckoutInv' /\ Che!CouponStep
<1>0. /\ v6[o] \in Che!Call /\ Seen(v6[o]) /\ v3[o].status = "none" /\ o \notin v1.writer /\ v4[o] < Items
      /\ v6[o].at = "validate"
    BY CheAt DEF Che!UnderWay, Che!ValidateCoupon
<1> DEFINE a == IF v1.usagePerClient > 0 THEN "count" ELSE "create"
           f == v1.firstOrderOnly
           r == [v6[o] EXCEPT !.at = a, !.first = f]
<1>1. a \in {"count", "create"} /\ f \in BOOLEAN /\ (a = "create" => ~(v1.usagePerClient > 0))
    BY CheStays DEF Che!PromotionDoc
<1>2. v6' = [v6 EXCEPT ![o] = r] /\ UNCHANGED <<v1, v2, v3>> /\ UNCHANGED v4 /\ UNCHANGED v5 /\ Che!Accepts(o)
    BY DEF Che!ValidateCoupon
<1>3. /\ r \in Che!Call /\ r.at = a /\ r.client = v6[o].client /\ r.coupon = v6[o].coupon /\ r.version = v6[o].version
      /\ r.earlier = v6[o].earlier
    <2> HIDE DEF a, f
    <2> QED BY <1>0, <1>1 DEF Che!Call, Che!CheckoutSteps
<1> HIDE DEF r, a, f
<1>4. Seen(r)
    BY <1>0, <1>1, <1>2, <1>3 DEF Seen, Looked, Allows, Che!Accepts
<1> QED BY <1>0, <1>1, <1>2, <1>3, <1>4, CheMoves, CheStays

LEMMA CheServices ==
    ASSUME Che!CheckoutInv, NEW o \in Seconds, Che!CreateService(o) \/ Che!CreateInvoice(o)
    PROVE  Che!CheckoutInv' /\ Che!CouponStep
<1>0. /\ v6[o] \in Che!Call /\ Seen(v6[o]) /\ v3[o].status = "none" /\ o \notin v1.writer
      /\ v6[o].at \in {"services", "invoice"}
      /\ v6[o].at = "services" => v4[o] < Items
      /\ v6[o].at = "invoice" => v4[o] = Items
    BY CheAt DEF Che!UnderWay, Che!CreateService, Che!CreateInvoice
<1>1. PICK a \in {"services", "invoice", "usage", "commit"} :
         /\ v6' = [v6 EXCEPT ![o] = [v6[o] EXCEPT !.at = a]]
         /\ a = "services" => v6[o].at = "services" /\ v4'[o] # Items
         /\ a = "invoice" => v6[o].at = "services" /\ v4'[o] = Items
         /\ a \in {"usage", "commit"} => v6[o].at = "invoice"
         /\ a = "commit" => v6[o].coupon # "promotion"
         /\ a = "usage" => v6[o].coupon = "promotion"
    <2>1. CASE Che!CreateInvoice(o)
        BY <2>1 DEF Che!CreateInvoice, Che!Goes
    <2>2. CASE Che!CreateService(o) /\ v4'[o] = Items
        BY <2>2 DEF Che!CreateService, Che!Goes
    <2>3. CASE Che!CreateService(o) /\ v4'[o] # Items
        <3>1. v6[o].at = "services" /\ UNCHANGED v6
            BY <2>3 DEF Che!CreateService
        <3>2. [v6[o] EXCEPT !.at = "services"] = v6[o]
            BY <1>0, <3>1 DEF Che!Call
        <3>3. v6 = [v6 EXCEPT ![o] = v6[o]]
            BY CheStays
        <3> QED BY <2>3, <3>1, <3>2, <3>3
    <2> QED BY <2>1, <2>2, <2>3
<1> DEFINE r == [v6[o] EXCEPT !.at = a]
<1>2. a \in Che!CheckoutSteps
    BY DEF Che!CheckoutSteps
<1>3. /\ r \in Che!Call /\ r.at = a /\ r.client = v6[o].client /\ r.coupon = v6[o].coupon /\ r.version = v6[o].version
      /\ r.earlier = v6[o].earlier
    BY <1>0, <1>2, CheCall
<1>4. UNCHANGED <<v1, v2, v3>> /\ UNCHANGED v5 /\ v4' \in [Seconds -> 0 .. Items]
      /\ (\A p \in Seconds \ {o} : v4'[p] = v4[p]) /\ v4'[o] <= Items
      /\ (v6[o].at = "invoice" => v4'[o] = v4[o])
    <2>1. CASE Che!CreateInvoice(o)
        BY <2>1, CheStays, CheFresh DEF Che!CreateInvoice
    <2>2. CASE Che!CreateService(o)
        <3>1. v4' = [v4 EXCEPT ![o] = v4[o] + 1] /\ v6[o].at = "services" /\ UNCHANGED <<v1, v2, v3>> /\ UNCHANGED v5
            BY <2>2 DEF Che!CreateService
        <3>2. v4[o] + 1 \in 0 .. Items
            BY <1>0, <3>1, CheStays, CheFresh
        <3>3. v4 \in [Seconds -> 0 .. Items]
            BY CheStays
        <3> QED BY <3>1, <3>2, <3>3
    <2> QED BY <2>1, <2>2
<1> HIDE DEF r
<1>5. Seen(r)
    BY <1>0, <1>1, <1>3 DEF Seen, Looked, Allows
<1>6. v6' = [v6 EXCEPT ![o] = r]
    BY <1>1 DEF r
<1>7. v4'[o] \in 0 .. Items /\ Items \in Nat
    BY <1>4, CheFresh
<1>8. /\ r.at \in {"invoice", "usage", "commit"} => v4'[o] = Items
      /\ r.at \in {"idle", "price", "validate", "count", "create", "services"} => v4'[o] < Items
      /\ ~(r.at = "commit" /\ r.coupon = "promotion") /\ (r.at = "usage" => r.coupon = "promotion") /\ v6[o].at \notin {"track", "ended"}
    BY <1>0, <1>1, <1>3, <1>4, <1>7
<1> QED BY <1>0, <1>3, <1>4, <1>5, <1>6, <1>8, CheMoves, CheStays

LEMMA CheCounts == \A S : (Che!IsFiniteSet(S) <=> IsFiniteSet(S)) /\ Che!Cardinality(S) = Cardinality(S)
<1>1. \A S : Che!IsFiniteSet(S) <=> IsFiniteSet(S)
    BY DEF Che!IsFiniteSet, IsFiniteSet
<1>2. \A S : Che!Cardinality(S) = Cardinality(S)
    BY DEF Che!Cardinality, Cardinality
<1> QED BY <1>1, <1>2

\* A call ends: an answer without a commit, or the referral of one that committed.
LEMMA CheTrack ==
    ASSUME Che!CheckoutInv, NEW o \in Seconds, Che!Track(o)
    PROVE  Che!CheckoutInv' /\ Che!CouponStep
<1> DEFINE r == [Che!Fresh EXCEPT !.at = "ended"]
<1>1. /\ v6' = [v6 EXCEPT ![o] = r] /\ UNCHANGED <<v1, v2, v3>> /\ UNCHANGED v4 /\ v6[o].at = "track"
      /\ v5' \in SUBSET Seconds
    BY CheStays DEF Che!Track, Che!Goes
<1>2. r \in Che!Call /\ r.at = "ended"
    BY CheFresh
<1> HIDE DEF r
<1>3. o \notin v1.writer /\ (v3[o].status # "none" => v4[o] = Items)
    BY <1>1 DEF Che!CheckoutInv, Che!CommitOK, Che!WriterOK
<1> QED BY <1>1, <1>2, <1>3, CheMoves, CheStays

\* The writers of the promotion, and what a change of them leaves.
LEMMA CheWriters ==
    ASSUME v1 \in Che!PromotionDoc, NEW S \in SUBSET Seconds
    PROVE  LET p == [v1 EXCEPT !.writer = S]
           IN  /\ p \in Che!PromotionDoc /\ p.writer = S /\ p.active = v1.active /\ p.usageLimit = v1.usageLimit
               /\ p.usagePerClient = v1.usagePerClient /\ p.firstOrderOnly = v1.firstOrderOnly
               /\ p.usageCount = v1.usageCount /\ p.version = v1.version
BY DEF Che!PromotionDoc

\* A step of one call that writes nothing but the promotion's writer.
LEMMA CheHolds ==
    ASSUME Che!CheckoutInv, NEW o \in Seconds, NEW r \in Che!Call, v6' = [v6 EXCEPT ![o] = r], UNCHANGED <<v2, v3, v4, v5>>,
           NEW S \in SUBSET Seconds, v1' = [v1 EXCEPT !.writer = S], v1.writer \subseteq S \cup {o}, S \subseteq v1.writer \cup {o},
           Che!UnderWay(o), r.at \in {"commit", "ended"},
           r.at = "ended" => o \notin S,
           r.at = "commit" => /\ r.coupon = "promotion" /\ r.version = v1.version /\ v1.writer = {} /\ o \in S
                              /\ Seen(r) /\ v4[o] = Items
    PROVE  Che!CheckoutInv' /\ Che!CouponStep
<1>1. v6' \in [Seconds -> Che!Call] /\ v6'[o] = r /\ \A p \in Seconds \ {o} : v6'[p] = v6[p]
    BY CheStays
<1>2. /\ v1' \in Che!PromotionDoc /\ v1'.writer = S /\ v1'.active = v1.active /\ v1'.usageLimit = v1.usageLimit
      /\ v1'.usagePerClient = v1.usagePerClient /\ v1'.firstOrderOnly = v1.firstOrderOnly
      /\ v1'.usageCount = v1.usageCount /\ v1'.version = v1.version
    BY CheStays, CheWriters
<1>3. Che!DocsOK'
    BY <1>1, <1>2, CheStays DEF Che!DocsOK
<1>4. Che!CommitOK'
    <2>1. UNCHANGED Che!Used
        BY DEF Che!Used
    <2>2. Che!Cardinality(Che!Used)' = Che!Cardinality(Che!Used) /\ (Che!IsFiniteSet(Che!Used) => Che!IsFiniteSet(Che!Used)')
        BY <2>1 DEF Che!Cardinality, Che!IsFiniteSet
    <2>3. v2[o] = "none" /\ v3[o] = Che!NoSale
        BY CheAt
    <2> QED BY <1>1, <1>2, <2>2, <2>3 DEF Che!CheckoutInv, Che!CommitOK
<1>5. Che!WriterOK'
    BY <1>1, <1>2 DEF Che!CheckoutInv, Che!WriterOK
<1>6. Che!SeenOK'
    <2>1. \A c : (Che!UsagesOf(c))' = Che!UsagesOf(c)
        BY DEF Che!UsagesOf, Che!SalesOf
    <2>2. \A p \in Seconds : Che!UnderWay(p)' => Seen(v6'[p])
        BY <1>1, CheSeen DEF Che!CheckoutInv, Che!UnderWay
    <2>3. \A x : Seen(x) => Seen(x)'
        BY <1>2, <2>1 DEF Seen, Looked, Allows
    <2> QED BY <2>1, <2>2, <2>3 DEF Seen, Allows, Looked, Che!SeenOK, Che!UnderWay, Che!Same, Che!Validated, Che!Accepts, Che!PerClient
<1>7. Che!CouponStep
    BY DEF Che!CouponStep
<1> QED BY <1>3, <1>4, <1>5, <1>6, <1>7 DEF Che!CheckoutInv

LEMMA CheWrites ==
    ASSUME Che!CheckoutInv, NEW o \in Seconds, Che!RecordUsage(o) \/ Che!AbortTransaction(o)
    PROVE  Che!CheckoutInv' /\ Che!CouponStep
<1>1. CASE Che!AbortTransaction(o)
    <2> DEFINE r == [Che!Fresh EXCEPT !.at = "ended"]
               S == v1.writer \ {o}
    <2>1. v6' = [v6 EXCEPT ![o] = r] /\ UNCHANGED <<v2, v3, v4, v5>> /\ v1' = [v1 EXCEPT !.writer = S] /\ Che!UnderWay(o)
        BY <1>1 DEF Che!AbortTransaction, Che!Goes, Che!UnderWay
    <2>2. r \in Che!Call /\ r.at = "ended"
        BY CheFresh
    <2>3. S \in SUBSET Seconds /\ v1.writer \subseteq S \cup {o} /\ S \subseteq v1.writer \cup {o} /\ o \notin S
        BY CheStays DEF Che!PromotionDoc
    <2> HIDE DEF r, S
    <2> QED BY <2>1, <2>2, <2>3, CheHolds
<1>2. CASE Che!RecordUsage(o)
    <2> DEFINE r == [v6[o] EXCEPT !.at = "commit"]
               S == v1.writer \cup {o}
    <2>1. /\ v6' = [v6 EXCEPT ![o] = r] /\ UNCHANGED <<v2, v3, v4, v5>> /\ v1' = [v1 EXCEPT !.writer = S]
          /\ v6[o].at = "usage" /\ v1.version = v6[o].version /\ v1.writer = {}
        BY <1>2 DEF Che!RecordUsage, Che!Goes, Che!Conflict
    <2>2. v6[o] \in Che!Call /\ Seen(v6[o]) /\ v4[o] = Items /\ Che!UnderWay(o)
        BY <2>1, CheAt DEF Che!UnderWay
    <2>3. "commit" \in Che!CheckoutSteps
        BY DEF Che!CheckoutSteps
    <2>4. /\ r \in Che!Call /\ r.at = "commit" /\ r.client = v6[o].client /\ r.coupon = v6[o].coupon
          /\ r.version = v6[o].version /\ r.earlier = v6[o].earlier
        BY <2>2, <2>3, CheCall
    <2>5. S \in SUBSET Seconds /\ v1.writer \subseteq S \cup {o} /\ S \subseteq v1.writer \cup {o} /\ o \in S
        BY CheStays DEF Che!PromotionDoc
    <2> HIDE DEF r, S
    <2>6. Seen(r)
        BY <2>1, <2>2, <2>4 DEF Seen, Looked, Allows
    <2>7. r.coupon = "promotion"
        BY <2>1, <2>4 DEF Che!CheckoutInv, Che!WriterOK
    <2> QED BY <2>1, <2>2, <2>4, <2>5, <2>6, <2>7, CheHolds
<1> QED BY <1>1, <1>2

LEMMA CheCommit ==
    ASSUME Che!CheckoutInv, NEW o \in Seconds, Che!Commit(o)
    PROVE  Che!CheckoutInv' /\ Che!CouponStep
<1> DEFINE m == v6[o]
<1>0. /\ m \in Che!Call /\ Seen(m) /\ v3[o] = Che!NoSale /\ v2[o] = "none" /\ v4[o] = Items /\ m.at = "commit"
      /\ m.client \in Firsts /\ Che!UnderWay(o)
    BY CheAt DEF Che!UnderWay, Che!Commit, Seen
<1>1. PICK status \in {"PENDING_PAYMENT", "ACTIVE"} :
         v3' = [v3 EXCEPT ![o] = [client |-> m.client, status |-> status, invoice |-> m.invoice, discount |-> m.coupon # "none"]]
    BY DEF Che!Commit
<1>2. /\ v3' \in [Seconds -> Che!Sale] /\ v3'[o].client = m.client /\ (m.coupon # "none" => v3'[o].discount)
      /\ \A p \in Seconds \ {o} : v3'[p] = v3[p]
    <2> DEFINE s == [client |-> m.client, status |-> status, invoice |-> m.invoice, discount |-> m.coupon # "none"]
    <2>1. s \in Che!Sale /\ s.client = m.client /\ (m.coupon # "none" => s.discount)
        BY <1>0 DEF Che!Sale, Che!SaleStates, Che!Call
    <2> HIDE DEF s
    <2>2. v3' = [v3 EXCEPT ![o] = s]
        BY <1>1 DEF s
    <2> QED BY <2>1, <2>2, CheStays
<1>3. PICK r \in Che!Call : v6' = [v6 EXCEPT ![o] = r] /\ r.at \in {"track", "ended"}
    <2>1. \/ v6' = [v6 EXCEPT ![o] = [m EXCEPT !.at = "track"]]
          \/ v6' = [v6 EXCEPT ![o] = [Che!Fresh EXCEPT !.at = "ended"]]
        BY DEF Che!Commit, Che!Goes
    <2> DEFINE a == [m EXCEPT !.at = "track"]
               b == [Che!Fresh EXCEPT !.at = "ended"]
    <2>2. a \in Che!Call /\ a.at = "track" /\ b \in Che!Call /\ b.at = "ended"
        <3>1. "track" \in Che!CheckoutSteps
            BY DEF Che!CheckoutSteps
        <3> QED BY <1>0, <3>1, CheCall, CheFresh
    <2> HIDE DEF a, b
    <2>3. v6' = [v6 EXCEPT ![o] = a] \/ v6' = [v6 EXCEPT ![o] = b]
        BY <2>1 DEF a, b
    <2> QED BY <2>2, <2>3
<1>4. v6' \in [Seconds -> Che!Call] /\ v6'[o] = r /\ \A p \in Seconds \ {o} : v6'[p] = v6[p]
    BY <1>3, CheStays
<1>5. UNCHANGED v4 /\ UNCHANGED v5
    BY DEF Che!Commit
<1>6. CASE m.coupon # "promotion"
    <2>1. o \notin v1.writer
        BY <1>6 DEF Che!CheckoutInv, Che!WriterOK
    <2>2. UNCHANGED v1 /\ UNCHANGED v2
        BY <1>6, <2>1 DEF Che!Commit, Che!Counted
    <2>3. Che!DocsOK'
        BY <1>2, <1>4, <1>5, <2>2, CheStays DEF Che!DocsOK
    <2>4. Che!CommitOK'
        <3>1. UNCHANGED Che!Used
            BY <2>2 DEF Che!Used
        <3>2. Che!Cardinality(Che!Used)' = Che!Cardinality(Che!Used) /\ (Che!IsFiniteSet(Che!Used) => Che!IsFiniteSet(Che!Used)')
            BY <3>1 DEF Che!Cardinality, Che!IsFiniteSet
        <3> QED BY <1>0, <1>2, <1>3, <1>4, <1>5, <2>2, <3>2 DEF Che!CheckoutInv, Che!CommitOK
    <2>5. Che!WriterOK'
        BY <1>3, <1>4, <2>1, <2>2 DEF Che!CheckoutInv, Che!WriterOK
    <2>6. Che!SeenOK'
        <3>1. \A c : (Che!UsagesOf(c))' = Che!UsagesOf(c)
            BY <1>0, <1>2, <2>2 DEF Che!UsagesOf, Che!SalesOf
        <3>2. \A p \in Seconds : Che!UnderWay(p)' => Seen(v6'[p])
            BY <1>3, <1>4, CheSeen DEF Che!CheckoutInv, Che!UnderWay
        <3>3. \A x : Seen(x) => Seen(x)'
            BY <2>2, <3>1 DEF Seen, Looked, Allows
        <3> QED BY <3>1, <3>2, <3>3 DEF Seen, Allows, Looked, Che!SeenOK, Che!UnderWay, Che!Same, Che!Validated, Che!Accepts, Che!PerClient
    <2>7. Che!CouponStep
        BY <2>2 DEF Che!CouponStep
    <2> QED BY <2>3, <2>4, <2>5, <2>6, <2>7 DEF Che!CheckoutInv
<1>7. CASE m.coupon = "promotion"
    <2>1. o \in v1.writer /\ m.version = v1.version /\ v1.writer = {o}
        BY <1>0, <1>7 DEF Che!CheckoutInv, Che!WriterOK
    <2> DEFINE n == v1.usageCount + 1
               k == v1.version + 1
               u == IF m.first THEN "first" ELSE "used"
    <2>2. v1' = [v1 EXCEPT !.usageCount = n, !.version = k, !.writer = {}] /\ v2' = [v2 EXCEPT ![o] = u]
        BY <1>7, <2>1 DEF Che!Commit, Che!Counted
    <2>3. n \in Nat /\ k \in Nat /\ v1.version \in Nat /\ v1.usageCount \in Nat /\ u \in {"used", "first"} /\ k > v1.version
        BY CheStays DEF Che!PromotionDoc
    <2>4. v1' \in Che!PromotionDoc /\ v1'.usageCount = n /\ v1'.version = k /\ v1'.writer = {}
        <3> HIDE DEF n, k
        <3> QED BY <2>2, <2>3, CheStays DEF Che!PromotionDoc
    <2>5. /\ v2' \in [Seconds -> {"none", "used", "first"}] /\ v2'[o] \in {"used", "first"}
          /\ \A p \in Seconds \ {o} : v2'[p] = v2[p]
        <3> HIDE DEF u
        <3> QED BY <2>2, <2>3, CheStays
    <2>6. Che!DocsOK'
        BY <1>2, <1>4, <1>5, <2>4, <2>5, CheStays DEF Che!DocsOK
    <2>7. Che!CommitOK'
        <3>1. Che!Used' = Che!Used \cup {o} /\ o \notin Che!Used
            BY <1>0, <2>5 DEF Che!Used
        <3>2. IsFiniteSet(Che!Used) /\ v1.usageCount = Cardinality(Che!Used)
            BY CheCounts DEF Che!CheckoutInv, Che!CommitOK
        <3>3. IsFiniteSet(Che!Used \cup {o}) /\ Cardinality(Che!Used \cup {o}) = Cardinality(Che!Used) + 1
            BY <3>1, <3>2, FS_AddElement
        <3>4. Che!IsFiniteSet(Che!Used') /\ Che!Cardinality(Che!Used') = n
            BY <3>1, <3>2, <3>3, CheCounts
        <3>5. Che!IsFiniteSet(Che!Used)' /\ Che!Cardinality(Che!Used)' = n
            BY <3>4 DEF Che!IsFiniteSet, Che!Cardinality
        <3> HIDE DEF n
        <3>6. \A p \in Seconds : /\ v6'[p].at \notin {"track", "ended"} => v2'[p] = "none" /\ v3'[p] = Che!NoSale
                                 /\ v2'[p] # "none" => v3'[p].discount
                                 /\ v3'[p].status # "none" => v4'[p] = Items
                                 /\ v6'[p].at \in {"invoice", "usage", "commit"} => v4'[p] = Items
                                 /\ v6'[p].at \in {"idle", "price", "validate", "count", "create", "services"} => v4'[p] < Items
            BY <1>0, <1>2, <1>3, <1>4, <1>5, <1>7, <2>5 DEF Che!CheckoutInv, Che!CommitOK
        <3>7. v1'.usageCount = Che!Cardinality(Che!Used)' /\ Che!IsFiniteSet(Che!Used)'
            BY <2>4, <3>5
        <3> QED BY <3>6, <3>7 DEF Che!CommitOK
    <2>8. Che!WriterOK'
        BY <1>3, <1>4, <2>1, <2>4 DEF Che!CheckoutInv, Che!WriterOK
    <2>9. Che!SeenOK'
        <3> HIDE DEF n, u
        <3> SUFFICES ASSUME NEW p \in Seconds, Che!UnderWay(p)'
                     PROVE  v6'[p].client \in Firsts /\ v6'[p].version <= v1'.version /\ v6'[p].version # v1'.version
            BY DEF Che!SeenOK, Che!Same
        <3>1. p # o /\ Che!UnderWay(p) /\ v6'[p] = v6[p]
            BY <1>3, <1>4 DEF Che!UnderWay
        <3>2. Seen(v6[p]) /\ v6[p].version \in Nat
            BY <3>1, CheSeen, CheStays DEF Che!CheckoutInv, Che!Call
        <3> QED BY <2>3, <2>4, <3>1, <3>2 DEF Seen
    <2>10. Che!CouponStep
        <3> HIDE DEF n, u, k
        <3> SUFFICES ASSUME NEW p \in Seconds, v2[p] # v2'[p] PROVE Che!WithinLimits(p, v3'[p].client)
            BY DEF Che!CouponStep
        <3>1. p = o
            BY <2>5
        <3> QED BY <1>0, <1>2, <1>7, <2>1, <3>1 DEF Seen, Looked, Allows, Che!WithinLimits
    <2> QED BY <2>6, <2>7, <2>8, <2>9, <2>10 DEF Che!CheckoutInv
<1> QED BY <1>6, <1>7

\* The administrator edits the promotion: what was seen of it is of no use any more.
LEMMA CheEdits ==
    ASSUME Che!CheckoutInv, v1.writer = {}, v1' \in Che!PromotionDoc, v1'.writer = {}, v1'.version = v1.version + 1,
           v1'.usageCount = v1.usageCount, UNCHANGED <<v2, v3, v4, v5, v6>>
    PROVE  Che!CheckoutInv' /\ Che!CouponStep
<1>1. Che!DocsOK'
    BY CheStays DEF Che!DocsOK
<1>2. Che!CommitOK'
    <2>1. UNCHANGED Che!Used
        BY DEF Che!Used
    <2>2. Che!Cardinality(Che!Used)' = Che!Cardinality(Che!Used) /\ (Che!IsFiniteSet(Che!Used) => Che!IsFiniteSet(Che!Used)')
        BY <2>1 DEF Che!Cardinality, Che!IsFiniteSet
    <2> QED BY <2>2 DEF Che!CheckoutInv, Che!CommitOK
<1>3. Che!WriterOK'
    BY DEF Che!CheckoutInv, Che!WriterOK
<1>4. Che!SeenOK'
    <2>1. v1.version \in Nat /\ \A p \in Seconds : v6[p].version \in Nat
        BY CheStays DEF Che!PromotionDoc, Che!Call
    <2> QED BY <2>1 DEF Che!CheckoutInv, Che!SeenOK, Che!UnderWay, Che!Same
<1>5. Che!CouponStep
    BY DEF Che!CouponStep
<1> QED BY <1>1, <1>2, <1>3, <1>4, <1>5 DEF Che!CheckoutInv

LEMMA ChePromotion ==
    ASSUME Che!CheckoutInv,
           \/ \E n \in 0 .. 1 : Che!UpdatePromotion("usageLimit", n) \/ Che!UpdatePromotion("usagePerClient", n)
           \/ \E b \in BOOLEAN : Che!UpdatePromotion("firstOrderOnly", b)
           \/ Che!ToggleActive
    PROVE  Che!CheckoutInv' /\ Che!CouponStep
<1>1. PICK k \in Nat : k = v1.version + 1
    BY CheStays DEF Che!PromotionDoc
<1>2. v1 \in Che!PromotionDoc
    BY CheStays
<1>3. \A n \in Nat : LET p == [v1 EXCEPT !.usageLimit = n, !.version = k]
                     IN  p \in Che!PromotionDoc /\ p.writer = v1.writer /\ p.version = k /\ p.usageCount = v1.usageCount
    BY <1>2 DEF Che!PromotionDoc
<1>4. \A n \in Nat : LET p == [v1 EXCEPT !.usagePerClient = n, !.version = k]
                     IN  p \in Che!PromotionDoc /\ p.writer = v1.writer /\ p.version = k /\ p.usageCount = v1.usageCount
    BY <1>2 DEF Che!PromotionDoc
<1>5. \A b \in BOOLEAN : LET p == [v1 EXCEPT !.firstOrderOnly = b, !.version = k]
                         IN  p \in Che!PromotionDoc /\ p.writer = v1.writer /\ p.version = k /\ p.usageCount = v1.usageCount
    BY <1>2 DEF Che!PromotionDoc
<1>6. \A b \in BOOLEAN : LET p == [v1 EXCEPT !.active = b, !.version = k]
                         IN  p \in Che!PromotionDoc /\ p.writer = v1.writer /\ p.version = k /\ p.usageCount = v1.usageCount
    BY <1>2 DEF Che!PromotionDoc
<1>7. /\ v1.writer = {} /\ UNCHANGED <<v2, v3, v4, v5, v6>>
      /\ \/ \E n \in Nat : v1' = [v1 EXCEPT !.usageLimit = n, !.version = k]
         \/ \E n \in Nat : v1' = [v1 EXCEPT !.usagePerClient = n, !.version = k]
         \/ \E b \in BOOLEAN : v1' = [v1 EXCEPT !.firstOrderOnly = b, !.version = k]
         \/ \E b \in BOOLEAN : v1' = [v1 EXCEPT !.active = b, !.version = k]
    <2>1. ASSUME NEW n \in 0 .. 1, Che!UpdatePromotion("usageLimit", n) PROVE <1>7!:
        <3>1. n \in Nat
            OBVIOUS
        <3> QED BY <1>1, <2>1, <3>1 DEF Che!UpdatePromotion
    <2>2. ASSUME NEW n \in 0 .. 1, Che!UpdatePromotion("usagePerClient", n) PROVE <1>7!:
        <3>1. n \in Nat
            OBVIOUS
        <3> QED BY <1>1, <2>2, <3>1 DEF Che!UpdatePromotion
    <2>3. ASSUME NEW b \in BOOLEAN, Che!UpdatePromotion("firstOrderOnly", b) PROVE <1>7!:
        BY <1>1, <2>3 DEF Che!UpdatePromotion
    <2>4. ASSUME Che!ToggleActive PROVE <1>7!:
        <3>1. (~v1.active) \in BOOLEAN
            OBVIOUS
        <3> QED BY <1>1, <2>4, <3>1 DEF Che!ToggleActive
    <2> QED BY <2>1, <2>2, <2>3, <2>4
<1>8. v1' \in Che!PromotionDoc /\ v1'.writer = {} /\ v1'.version = v1.version + 1 /\ v1'.usageCount = v1.usageCount
    <2>1. ASSUME NEW n \in Nat, v1' = [v1 EXCEPT !.usageLimit = n, !.version = k] PROVE <1>8!:
        BY <1>1, <1>3, <1>7, <2>1
    <2>2. ASSUME NEW n \in Nat, v1' = [v1 EXCEPT !.usagePerClient = n, !.version = k] PROVE <1>8!:
        BY <1>1, <1>4, <1>7, <2>2
    <2>3. ASSUME NEW b \in BOOLEAN, v1' = [v1 EXCEPT !.firstOrderOnly = b, !.version = k] PROVE <1>8!:
        BY <1>1, <1>5, <1>7, <2>3
    <2>4. ASSUME NEW b \in BOOLEAN, v1' = [v1 EXCEPT !.active = b, !.version = k] PROVE <1>8!:
        BY <1>1, <1>6, <1>7, <2>4
    <2> QED BY <1>7, <2>1, <2>2, <2>3, <2>4
<1> QED BY <1>7, <1>8, CheEdits

\* The administrator changes orders: they stay the client's, and so does their discount.
LEMMA CheSales ==
    ASSUME Che!CheckoutInv, v3' \in [Seconds -> Che!Sale], UNCHANGED <<v1, v2, v4, v5, v6>>,
           \A o \in Seconds : v3'[o].client = v3[o].client /\ v3'[o].discount = v3[o].discount
                              /\ (v3[o].status = "none" => v3'[o] = v3[o])
    PROVE  Che!CheckoutInv' /\ Che!CouponStep
<1>1. Che!DocsOK'
    BY CheStays DEF Che!DocsOK
<1>2. Che!CommitOK'
    <2>1. UNCHANGED Che!Used
        BY DEF Che!Used
    <2>2. Che!Cardinality(Che!Used)' = Che!Cardinality(Che!Used) /\ (Che!IsFiniteSet(Che!Used) => Che!IsFiniteSet(Che!Used)')
        BY <2>1 DEF Che!Cardinality, Che!IsFiniteSet
    <2> QED BY <2>2, CheFresh DEF Che!CheckoutInv, Che!CommitOK
<1>3. Che!WriterOK'
    BY DEF Che!CheckoutInv, Che!WriterOK
<1>4. Che!SeenOK'
    <2>1. \A c : (Che!UsagesOf(c))' = Che!UsagesOf(c)
        BY DEF Che!UsagesOf, Che!SalesOf
    <2> QED BY <2>1 DEF Che!CheckoutInv, Che!SeenOK, Che!UnderWay, Che!Same, Che!Validated, Che!Accepts, Che!PerClient
<1>5. Che!CouponStep
    BY DEF Che!CouponStep
<1> QED BY <1>1, <1>2, <1>3, <1>4, <1>5 DEF Che!CheckoutInv

LEMMA CheOrders ==
    ASSUME Che!CheckoutInv,
           (\E o \in Seconds : Che!UpdateOrderStatus(o, "ACTIVE")) \/ \E S \in (SUBSET Seconds) \ {{}} : Che!BulkDelete(S)
    PROVE  Che!CheckoutInv' /\ Che!CouponStep
<1>0. \A o \in Seconds, s \in {"ACTIVE", "CANCELLED"} :
         LET w == [v3[o] EXCEPT !.status = s]
         IN  w \in Che!Sale /\ w.client = v3[o].client /\ w.discount = v3[o].discount
    BY CheStays DEF Che!Sale, Che!SaleStates
<1>1. ASSUME NEW o \in Seconds, Che!UpdateOrderStatus(o, "ACTIVE") PROVE Che!CheckoutInv' /\ Che!CouponStep
    <2> DEFINE w == [v3[o] EXCEPT !.status = "ACTIVE"]
    <2>1. w \in Che!Sale /\ w.client = v3[o].client /\ w.discount = v3[o].discount
        BY <1>0
    <2>2. v3' = [v3 EXCEPT ![o] = w] /\ UNCHANGED <<v1, v2, v4, v5, v6>> /\ v3[o].status # "none"
        BY <1>1 DEF Che!UpdateOrderStatus
    <2> HIDE DEF w
    <2> QED BY <2>1, <2>2, CheStays, CheSales
<1>2. ASSUME NEW S \in (SUBSET Seconds) \ {{}}, Che!BulkDelete(S) PROVE Che!CheckoutInv' /\ Che!CouponStep
    <2>1. /\ v3' = [o \in Seconds |-> IF o \in S THEN [v3[o] EXCEPT !.status = "CANCELLED"] ELSE v3[o]]
          /\ UNCHANGED <<v1, v2, v4, v5, v6>> /\ \A o \in S : v3[o].status # "none"
        BY <1>2 DEF Che!BulkDelete
    <2>2. ASSUME NEW o \in Seconds
          PROVE  /\ v3'[o] \in Che!Sale /\ v3'[o].client = v3[o].client /\ v3'[o].discount = v3[o].discount
                 /\ v3[o].status = "none" => v3'[o] = v3[o]
        <3> DEFINE w == [v3[o] EXCEPT !.status = "CANCELLED"]
        <3>1. w \in Che!Sale /\ w.client = v3[o].client /\ w.discount = v3[o].discount
            BY <1>0
        <3>2. v3'[o] = IF o \in S THEN w ELSE v3[o]
            BY <2>1
        <3> HIDE DEF w
        <3> QED BY <2>1, <3>1, <3>2, CheStays
    <2>3. v3' \in [Seconds -> Che!Sale]
        BY <2>1, <2>2
    <2> QED BY <2>1, <2>2, <2>3, CheSales
<1> QED BY <1>1, <1>2

LEMMA CheInit == Che!CheckoutInit => Che!CheckoutInv
<1> SUFFICES ASSUME Che!CheckoutInit PROVE Che!CheckoutInv
    OBVIOUS
<1>0. v1 \in [active : {TRUE}, usageLimit : 0 .. 1, usagePerClient : 0 .. 1, firstOrderOnly : BOOLEAN,
              usageCount : {0}, version : {0}, writer : {{}}]
    BY DEF Che!CheckoutInit
<1>1. v1 \in Che!PromotionDoc /\ v1.usageCount = 0 /\ v1.version = 0 /\ v1.writer = {}
    <2>1. 0 .. 1 \subseteq Nat /\ {0} \subseteq Nat /\ {TRUE} \subseteq BOOLEAN /\ {{}} \subseteq SUBSET Seconds
        OBVIOUS
    <2> QED BY <1>0, <2>1 DEF Che!PromotionDoc
<1>5. /\ v2 = [o \in Seconds |-> "none"] /\ v3 = [o \in Seconds |-> Che!NoSale] /\ v4 = [o \in Seconds |-> 0] /\ v5 = {}
      /\ v6 = [o \in Seconds |-> Che!Fresh]
    BY DEF Che!CheckoutInit
<1>2. Che!DocsOK
    BY <1>1, <1>5, CheFresh DEF Che!DocsOK
<1>3. Che!CommitOK
    <2>1. Che!Used = {}
        BY <1>5 DEF Che!Used
    <2>2. Che!IsFiniteSet(Che!Used) /\ Che!Cardinality(Che!Used) = 0
        BY <2>1, CheCounts, FS_EmptySet
    <2> QED BY <1>1, <1>5, <2>2, CheFresh DEF Che!CommitOK
<1>4. Che!WriterOK /\ Che!SeenOK
    BY <1>1, <1>5, CheFresh DEF Che!WriterOK, Che!SeenOK, Che!UnderWay
<1> QED BY <1>2, <1>3, <1>4 DEF Che!CheckoutInv

LEMMA CheNext == Che!CheckoutInv /\ [Che!CheckoutNext]_(Che!checkoutVars) => Che!CheckoutInv' /\ Che!CouponStep
<1> SUFFICES ASSUME Che!CheckoutInv, [Che!CheckoutNext]_(Che!checkoutVars) PROVE Che!CheckoutInv' /\ Che!CouponStep
    OBVIOUS
<1>1. ASSUME NEW o \in Seconds, Che!Checking(o) PROVE Che!CheckoutInv' /\ Che!CouponStep
    BY <1>1, CheIdentify, ChePrice, CheValidate, CheServices, CheWrites, CheCommit, CheTrack DEF Che!Checking
<1>2. ASSUME Che!Administering PROVE Che!CheckoutInv' /\ Che!CouponStep
    BY <1>2, ChePromotion, CheOrders DEF Che!Administering
<1>3. ASSUME UNCHANGED Che!checkoutVars PROVE Che!CheckoutInv' /\ Che!CouponStep
    <2>1. UNCHANGED <<v1, v2, v4, v5, v6>> /\ UNCHANGED v3
        BY <1>3 DEF Che!checkoutVars
    <2> QED BY <2>1, CheSales, CheStays
<1> QED BY <1>1, <1>2, <1>3 DEF Che!CheckoutNext

LEMMA CheTyped == Che!CheckoutInv => Che!CheckoutTypeOK
<1> SUFFICES ASSUME Che!CheckoutInv PROVE Che!CheckoutTypeOK
    OBVIOUS
<1>1. Che!Cardinality(v1.writer) <= 1
    <2>1. v1.writer = {} \/ \E o : v1.writer = {o}
        BY DEF Che!CheckoutInv, Che!WriterOK
    <2>2. Cardinality(v1.writer) <= 1
        <3>1. CASE v1.writer = {}
            BY <3>1, FS_EmptySet
        <3>2. ASSUME NEW o, v1.writer = {o} PROVE Cardinality(v1.writer) <= 1
            BY <3>2, FS_Singleton
        <3> QED BY <2>1, <3>1, <3>2
    <2> QED BY <2>2, CheCounts
<1>2. v1.usageCount = Che!Cardinality({o \in Seconds : v2[o] # "none"})
    BY DEF Che!CheckoutInv, Che!CommitOK, Che!Used
<1>3. \A o \in Seconds : v6[o].at \in {"idle", "price", "validate", "count", "create", "services", "invoice",
                                       "usage", "commit", "track", "ended"}
    BY CheStays DEF Che!Call, Che!CheckoutSteps
<1> QED BY <1>1, <1>2, <1>3, CheStays DEF Che!CheckoutTypeOK, Che!CheckoutInv, Che!CommitOK, Che!PromotionDoc, Che!Sale

\* BusinessSpec => CouponWithinLimits: the transaction that spends a coupon has looked at the limits it
\* still has, and at all the client's earlier uses (promotion.service.ts validateCoupon, order.service.ts
\* createOrder).
THEOREM BusinessCouponWithinLimits == BusinessSpec => CouponWithinLimits
<1> DEFINE I == scenario = "checkout" => Che!CheckoutInv
<1>1. BusinessInit => I
    BY CheInit DEF BusinessInit, Senders, Routers, Shelves
<1>2. I /\ [BusinessNext]_businessVars => I' /\ (scenario = "checkout" => Che!CouponStep)
    <2> SUFFICES ASSUME I, [BusinessNext]_businessVars
                 PROVE  scenario' = scenario /\ (scenario = "checkout" => Che!CheckoutInv' /\ Che!CouponStep)
        OBVIOUS
    <2>1. scenario' = scenario
        BY DEF BusinessNext, businessVars
    <2>2. ASSUME scenario = "checkout" PROVE Che!CheckoutInv' /\ Che!CouponStep
        <3>1. CASE BusinessStep
            BY <2>2, <3>1, CheNext DEF BusinessStep, Senders, Routers, Shelves, Machinery
        <3>2. CASE UNCHANGED businessVars
            <4>1. UNCHANGED Che!checkoutVars
                BY <3>2 DEF businessVars, shared, Che!checkoutVars
            <4> QED BY <2>2, <4>1, CheNext
        <3> QED BY <3>1, <3>2 DEF BusinessNext
    <2> QED BY <2>1, <2>2
<1>3. (scenario = "checkout" => Che!CouponStep) => [(scenario = "checkout") => Che!CouponStep]_businessVars
    OBVIOUS
<1> QED BY <1>1, <1>2, <1>3, PTL DEF BusinessSpec, CouponWithinLimits
-----------------------------------------------------------------------------
(* Hosting: v1 accounts, v2 itemMeta, v3 hosting, v4 settled, v5 ended,     *)
(* v6 creator, v7 trials, v8 converting, v9 past.                           *)

HosPast == [creates : Nat, crowded : SUBSET Seconds, late : SUBSET Fourths]
HosTrial == [at : {"idle", "look", "save", "job"}, item : Fourths \cup {Nobody}]
HosConversion == [at : {"idle", "job", "save"}, item : Fourths \cup {Nobody}, status : Hos!HostingStates]

LEMMA HosStays ==
    Hos!HostingInv => /\ v1 \in [Seconds -> [Thirds -> Fourths \cup {Nobody}]] /\ v2 \in [Fourths -> Hos!Account]
                      /\ v3 \in [Fourths -> Hos!ServiceDoc] /\ v4 \in SUBSET Fourths /\ v5 \in SUBSET Fourths
                      /\ v6 \in [Firsts -> Hos!CreatorDoc] /\ v7 \in HosTrial /\ v8 \in HosConversion /\ v9 \in HosPast
BY DEF Hos!HostingInv, Hos!DocsOK, HosTrial, HosConversion, HosPast

LEMMA HosCounts == \A S : (Hos!IsFiniteSet(S) <=> IsFiniteSet(S)) /\ Hos!Cardinality(S) = Cardinality(S)
<1>1. \A S : Hos!IsFiniteSet(S) <=> IsFiniteSet(S)
    BY DEF Hos!IsFiniteSet, IsFiniteSet
<1>2. \A S : Hos!Cardinality(S) = Cardinality(S)
    BY DEF Hos!Cardinality, Cardinality
<1> QED BY <1>1, <1>2

LEMMA HosBounds == /\ Capacity \in Nat /\ MaxCreates \in Nat /\ IsFiniteSet(Thirds) /\ IsFiniteSet(Firsts)
                   /\ Cardinality(Firsts) \in Nat /\ Cardinality(Firsts) >= 1 /\ Nobody \notin Fourths
<1>1. /\ Capacity \in Nat /\ MaxCreates \in Nat /\ IsFiniteSet(Thirds) /\ IsFiniteSet(Firsts) /\ Firsts # {}
      /\ Nobody \notin Fourths
    BY HostingAssumption, HosCounts DEF Hos!HostingBounds, Hos!HostingNulls
<1>2. Cardinality(Firsts) \in Nat /\ Cardinality(Firsts) # 0
    BY <1>1, FS_CardinalityType, FS_EmptySet
<1> QED BY <1>1, <1>2

\* Sets of calls, and of users of a server, are finite, and smaller ones do not count more.
LEMMA HosCallSets ==
    ASSUME NEW S \in SUBSET Firsts
    PROVE  /\ IsFiniteSet(S) /\ Hos!Cardinality(S) \in Nat /\ Hos!Cardinality(S) <= Cardinality(Firsts)
           /\ \A T \in SUBSET S : Hos!Cardinality(T) \in Nat /\ Hos!Cardinality(T) <= Hos!Cardinality(S)
<1>1. IsFiniteSet(S) /\ Cardinality(S) \in Nat /\ Cardinality(S) <= Cardinality(Firsts)
    BY HosBounds, FS_Subset, FS_CardinalityType
<1>2. \A T \in SUBSET S : Cardinality(T) \in Nat /\ Cardinality(T) <= Cardinality(S)
    BY <1>1, FS_Subset, FS_CardinalityType
<1> QED BY <1>1, <1>2, HosCounts

LEMMA HosBetween == \A s : Hos!Between(s) \in SUBSET Firsts
BY DEF Hos!Between

LEMMA HosCountNat == \A s : Hos!Count(s) \in Nat
<1> SUFFICES ASSUME NEW s PROVE Hos!Count(s) \in Nat
    OBVIOUS
<1> DEFINE U == {u \in Thirds : v1[s][u] # Nobody}
<1>1. IsFiniteSet(U)
    BY HosBounds, FS_Subset
<1>2. Hos!Cardinality(U) \in Nat
    BY <1>1, FS_CardinalityType, HosCounts
<1> QED BY <1>2 DEF Hos!Count

\* No account is made and no call has begun to make one.
LEMMA HosRoom ==
    ASSUME Hos!HostingInv, UNCHANGED v1, v9'.crowded = v9.crowded,
           \A s \in Seconds : Hos!Between(s)' \subseteq Hos!Between(s)
    PROVE  Hos!RoomShared'
<1>1. \A s : Hos!Count(s)' = Hos!Count(s)
    BY DEF Hos!Count, Hos!Cardinality
<1>2. \A s \in Seconds : /\ Hos!Cardinality(Hos!Between(s)) \in Nat /\ Hos!Cardinality(Hos!Between(s))' \in Nat
                         /\ Hos!Cardinality(Hos!Between(s))' <= Hos!Cardinality(Hos!Between(s))
    <2> SUFFICES ASSUME NEW s \in Seconds
                 PROVE  /\ Hos!Cardinality(Hos!Between(s)) \in Nat /\ Hos!Cardinality(Hos!Between(s))' \in Nat
                        /\ Hos!Cardinality(Hos!Between(s))' <= Hos!Cardinality(Hos!Between(s))
        OBVIOUS
    <2>1. Hos!Cardinality(Hos!Between(s))' = Hos!Cardinality(Hos!Between(s)')
        BY DEF Hos!Cardinality
    <2>2. Hos!Between(s) \in SUBSET Firsts /\ Hos!Between(s)' \in SUBSET Hos!Between(s)
        BY HosBetween
    <2> QED BY <2>1, <2>2, HosCallSets
<1>3. Capacity \in Nat /\ Hos!Cardinality(Firsts) \in Nat /\ Hos!Cardinality(Firsts)' = Hos!Cardinality(Firsts)
    BY HosBounds, HosCounts DEF Hos!Cardinality
<1> QED BY <1>1, <1>2, <1>3, HosCountNat DEF Hos!HostingInv, Hos!RoomShared

\* A call goes on without making an account, and suspends no service.
LEMMA HosGoes ==
    ASSUME Hos!HostingInv, NEW c \in Firsts, NEW r \in Hos!CreatorDoc, Hos!CallOK(r), r.at # "create",
           v6' = [v6 EXCEPT ![c] = r], UNCHANGED <<v1, v4, v5, v7, v8>>, v2' \in [Fourths -> Hos!Account],
           v3' \in [Fourths -> Hos!ServiceDoc],
           \A i \in Fourths : /\ v3[i].trial => v3'[i].trial
                              /\ v3'[i].status = "SUSPENDED" => v3[i].status = "SUSPENDED",
           v9' \in HosPast, v9'.crowded = v9.crowded, v9'.late = v9.late
    PROVE  Hos!HostingInv'
<1>1. v6' \in [Firsts -> Hos!CreatorDoc] /\ v6'[c] = r /\ \A d \in Firsts \ {c} : v6'[d] = v6[d]
    BY HosStays
<1>2. Hos!DocsOK'
    BY <1>1, HosStays DEF Hos!DocsOK, HosPast, HosTrial, HosConversion
<1>3. \A d \in Firsts : Hos!CallOK(v6[d])'
    BY <1>1 DEF Hos!HostingInv, Hos!CallOK
<1>4. Hos!RoomShared'
    <2>1. \A s \in Seconds : Hos!Between(s)' \subseteq Hos!Between(s)
        BY <1>1 DEF Hos!Between
    <2> QED BY <2>1, HosRoom
<1>5. Hos!TrialsOK'
    BY HosStays DEF Hos!HostingInv, Hos!TrialsOK, Hos!PaidRuns, Hos!Running, Hos!Converting
<1> QED BY <1>2, <1>3, <1>4, <1>5 DEF Hos!HostingInv

LEMMA HosFree == /\ Hos!Free \in Hos!CreatorDoc /\ Hos!Free.at = "idle" /\ Hos!CallOK(Hos!Free) /\ Hos!NoAccount \in Hos!Account
BY DEF Hos!Free, Hos!CreatorDoc, Hos!CallOK, Hos!NoAccount, Hos!Account, Hos!Callers

CallSteps == {"idle", "pick", "check", "create", "reconcile", "item", "service", "fail"}

\* The fields of a call, one write at a time.
LEMMA HosCallAt ==
    ASSUME NEW m \in Hos!CreatorDoc, NEW a \in CallSteps
    PROVE  /\ [m EXCEPT !.at = a] \in Hos!CreatorDoc /\ [m EXCEPT !.at = a].at = a
           /\ [m EXCEPT !.at = a].item = m.item /\ [m EXCEPT !.at = a].account = m.account
BY DEF Hos!CreatorDoc, CallSteps

LEMMA HosCallParts ==
    ASSUME NEW m \in Hos!CreatorDoc
    PROVE  m.account \in Hos!Account /\ m.meta \in Hos!Account /\ m.item \in Fourths \cup {Nobody} /\ m.trial \in BOOLEAN
BY DEF Hos!CreatorDoc

LEMMA HosAccountOf ==
    ASSUME NEW x \in Hos!Account
    PROVE  /\ \A s \in Seconds : [x EXCEPT !.server = s] \in Hos!Account /\ [x EXCEPT !.server = s].server = s
           /\ \A u \in Thirds : [x EXCEPT !.user = u] \in Hos!Account /\ [x EXCEPT !.user = u].user = u
                                /\ [x EXCEPT !.user = u].server = x.server
BY DEF Hos!Account

\* The services a call writes: it activates them, or marks them, and suspends none.
LEMMA HosStart ==
    ASSUME Hos!HostingInv, NEW c \in Firsts, NEW i \in Fourths, NEW kind \in Hos!Callers, NEW trial \in BOOLEAN,
           Hos!Start(c, i, kind, trial)
    PROVE  Hos!HostingInv'
<1> DEFINE f == kind \in {"trigger", "retry"} \/ (kind = "worker" /\ v3[i].status = "PROVISIONING")
           r == [Hos!Free EXCEPT !.at = "pick", !.kind = kind, !.item = i, !.meta = v2[i], !.trial = trial, !.force = f]
<1>1. v6' = [v6 EXCEPT ![c] = r] /\ UNCHANGED <<v1, v4, v5, v7, v8>> /\ UNCHANGED v2
    BY DEF Hos!Start
<1>2. r \in Hos!CreatorDoc /\ r.at = "pick" /\ r.item = i
    <2>1. f \in BOOLEAN /\ v2[i] \in Hos!Account
        BY HosStays
    <2> HIDE DEF f
    <2> QED BY <2>1, HosFree DEF Hos!CreatorDoc
<1>3. /\ v3' \in [Fourths -> Hos!ServiceDoc]
      /\ \A n \in Fourths : /\ v3[n].trial => v3'[n].trial
                            /\ v3'[n].status = "SUSPENDED" => v3[n].status = "SUSPENDED"
    <2> DEFINE w == [v3[i] EXCEPT !.status = "PROVISIONING"]
    <2>1. w \in Hos!ServiceDoc /\ w.trial = v3[i].trial /\ w.status = "PROVISIONING"
        BY HosStays DEF Hos!ServiceDoc, Hos!HostingStates
    <2>2. v3' = [v3 EXCEPT ![i] = w] \/ UNCHANGED v3
        BY DEF Hos!Start
    <2> HIDE DEF w
    <2> QED BY <2>1, <2>2, HosStays
<1>4. v9' \in HosPast /\ v9'.crowded = v9.crowded /\ v9'.late = v9.late
    <2>1. PICK n \in Nat : n = v9.creates + 1
        BY HosStays DEF HosPast
    <2>2. v9' = [v9 EXCEPT !.creates = n]
        BY <2>1 DEF Hos!Start
    <2> QED BY <2>2, HosStays DEF HosPast
<1> HIDE DEF r
<1>5. Hos!CallOK(r)
    BY <1>2 DEF Hos!CallOK
<1> QED BY <1>1, <1>2, <1>3, <1>4, <1>5, HosStays, HosGoes

LEMMA HosPicks ==
    ASSUME Hos!HostingInv, NEW c \in Firsts,
           Hos!Known(c) \/ Hos!Pick(c) \/ Hos!Full(c) \/ Hos!Reconcile(c) \/ Hos!RecordItem(c) \/ Hos!CreatorDies(c)
    PROVE  Hos!HostingInv'
<1> DEFINE m == v6[c]
<1>0. m \in Hos!CreatorDoc /\ Hos!CallOK(m)
    BY HosStays DEF Hos!HostingInv
<1>1. UNCHANGED <<v1, v4, v5, v7, v8>> /\ UNCHANGED v3 /\ UNCHANGED v9
    BY DEF Hos!Known, Hos!Pick, Hos!Full, Hos!Reconcile, Hos!RecordItem, Hos!CreatorDies
<1>2. v2' \in [Fourths -> Hos!Account]
    <2>1. CASE Hos!RecordItem(c)
        <3>1. v2' = [v2 EXCEPT ![m.item] = m.account] /\ m.account \in Hos!Account
            BY <1>0, <2>1, HosCallParts DEF Hos!RecordItem
        <3> QED BY <3>1, HosStays
    <2>2. CASE ~Hos!RecordItem(c)
        BY <2>2, HosStays DEF Hos!Known, Hos!Pick, Hos!Full, Hos!Reconcile, Hos!CreatorDies
    <2> QED BY <2>1, <2>2
<1> SUFFICES \E r \in Hos!CreatorDoc : v6' = [v6 EXCEPT ![c] = r] /\ Hos!CallOK(r) /\ r.at # "create"
    BY <1>1, <1>2, HosStays, HosGoes
<1>3. CASE Hos!Known(c)
    <2> DEFINE r == [m EXCEPT !.at = "service", !.account = m.meta]
    <2>1. v6' = [v6 EXCEPT ![c] = r] /\ m.at = "pick"
        BY <1>3 DEF Hos!Known
    <2>2. r \in Hos!CreatorDoc /\ r.at = "service" /\ r.item = m.item
        BY <1>0 DEF Hos!CreatorDoc
    <2> HIDE DEF r
    <2>3. Hos!CallOK(r)
        BY <1>0, <2>1, <2>2 DEF Hos!CallOK
    <2> QED BY <2>1, <2>2, <2>3
<1>4. CASE Hos!Pick(c)
    <2>1. \/ \E s \in Seconds : v6' = [v6 EXCEPT ![c] = [m EXCEPT !.at = "check", !.account.server = s]]
          \/ v6' = [v6 EXCEPT ![c] = [m EXCEPT !.at = "fail"]]
        BY <1>4 DEF Hos!Pick, Hos!Step
    <2>2. m.at = "pick"
        BY <1>4 DEF Hos!Pick
    <2>3. ASSUME NEW s \in Seconds, v6' = [v6 EXCEPT ![c] = [m EXCEPT !.at = "check", !.account.server = s]]
          PROVE  \E r \in Hos!CreatorDoc : v6' = [v6 EXCEPT ![c] = r] /\ Hos!CallOK(r) /\ r.at # "create"
        <3> DEFINE x == [m.account EXCEPT !.server = s]
                   r == [m EXCEPT !.at = "check", !.account = x]
        <3>1. x \in Hos!Account /\ x.server = s
            BY <1>0, HosCallParts, HosAccountOf
        <3>2. v6' = [v6 EXCEPT ![c] = r]
            BY <2>3
        <3> HIDE DEF x
        <3>3. r \in Hos!CreatorDoc /\ r.at = "check" /\ r.item = m.item /\ r.account = x
            BY <1>0, <3>1 DEF Hos!CreatorDoc
        <3> HIDE DEF r
        <3>4. Hos!CallOK(r)
            BY <1>0, <2>2, <3>1, <3>3 DEF Hos!CallOK
        <3> QED BY <3>2, <3>3, <3>4
    <2>4. ASSUME v6' = [v6 EXCEPT ![c] = [m EXCEPT !.at = "fail"]]
          PROVE  \E r \in Hos!CreatorDoc : v6' = [v6 EXCEPT ![c] = r] /\ Hos!CallOK(r) /\ r.at # "create"
        <3> DEFINE r == [m EXCEPT !.at = "fail"]
        <3>1. r \in Hos!CreatorDoc /\ r.at = "fail" /\ r.item = m.item
            <4>1. "fail" \in CallSteps
                BY DEF CallSteps
            <4> QED BY <1>0, <4>1, HosCallAt
        <3> HIDE DEF r
        <3>2. Hos!CallOK(r)
            BY <1>0, <2>2, <3>1 DEF Hos!CallOK
        <3> QED BY <2>4, <3>1, <3>2 DEF r
    <2> QED BY <2>1, <2>3, <2>4
<1>5. CASE Hos!Full(c) \/ Hos!RecordItem(c)
    <2>1. PICK a \in {"fail", "service"} : v6' = [v6 EXCEPT ![c] = [m EXCEPT !.at = a]] /\ m.at # "idle"
        BY <1>5 DEF Hos!Full, Hos!RecordItem, Hos!Step
    <2> DEFINE r == [m EXCEPT !.at = a]
    <2>2. r \in Hos!CreatorDoc /\ r.at = a /\ r.item = m.item
        <3>1. a \in CallSteps
            BY DEF CallSteps
        <3> QED BY <1>0, <3>1, HosCallAt
    <2> HIDE DEF r
    <2>3. Hos!CallOK(r)
        BY <1>0, <2>1, <2>2 DEF Hos!CallOK
    <2> QED BY <2>1, <2>2, <2>3 DEF r
<1>6. CASE Hos!Reconcile(c)
    <2>1. \/ \E u \in Thirds : v6' = [v6 EXCEPT ![c] = [m EXCEPT !.at = "item", !.account.user = u]]
          \/ v6' = [v6 EXCEPT ![c] = [m EXCEPT !.at = "fail"]]
        <3>1. m.account.user \in Thirds
            BY <1>0, <1>6 DEF Hos!Reconcile, Hos!CallOK
        <3> QED BY <1>6, <3>1 DEF Hos!Reconcile, Hos!Step, Hos!Listed, Hos!DomainOn
    <2>2. m.at = "reconcile"
        BY <1>6 DEF Hos!Reconcile
    <2>3. ASSUME NEW u \in Thirds, v6' = [v6 EXCEPT ![c] = [m EXCEPT !.at = "item", !.account.user = u]]
          PROVE  \E r \in Hos!CreatorDoc : v6' = [v6 EXCEPT ![c] = r] /\ Hos!CallOK(r) /\ r.at # "create"
        <3> DEFINE x == [m.account EXCEPT !.user = u]
                   r == [m EXCEPT !.at = "item", !.account = x]
        <3>1. x \in Hos!Account /\ x.user = u /\ x.server = m.account.server
            BY <1>0, HosCallParts, HosAccountOf
        <3>2. v6' = [v6 EXCEPT ![c] = r]
            BY <2>3
        <3> HIDE DEF x
        <3>3. r \in Hos!CreatorDoc /\ r.at = "item" /\ r.item = m.item /\ r.account = x
            BY <1>0, <3>1 DEF Hos!CreatorDoc
        <3> HIDE DEF r
        <3>4. Hos!CallOK(r)
            BY <1>0, <2>2, <3>1, <3>3 DEF Hos!CallOK
        <3> QED BY <3>2, <3>3, <3>4
    <2>4. ASSUME v6' = [v6 EXCEPT ![c] = [m EXCEPT !.at = "fail"]]
          PROVE  \E r \in Hos!CreatorDoc : v6' = [v6 EXCEPT ![c] = r] /\ Hos!CallOK(r) /\ r.at # "create"
        <3> DEFINE r == [m EXCEPT !.at = "fail"]
        <3>1. r \in Hos!CreatorDoc /\ r.at = "fail" /\ r.item = m.item
            <4>1. "fail" \in CallSteps
                BY DEF CallSteps
            <4> QED BY <1>0, <4>1, HosCallAt
        <3> HIDE DEF r
        <3>2. Hos!CallOK(r)
            BY <1>0, <2>2, <3>1 DEF Hos!CallOK
        <3> QED BY <2>4, <3>1, <3>2 DEF r
    <2> QED BY <2>1, <2>3, <2>4
<1>7. CASE Hos!CreatorDies(c)
    BY <1>7, HosFree DEF Hos!CreatorDies
<1> QED BY <1>3, <1>4, <1>5, <1>6, <1>7

LEMMA HosEnds ==
    ASSUME Hos!HostingInv, NEW c \in Firsts, Hos!ActivateHosting(c) \/ Hos!CreateFails(c)
    PROVE  Hos!HostingInv'
<1> DEFINE m == v6[c]
           i == m.item
           h == v3[i]
<1>0. m \in Hos!CreatorDoc /\ m.at # "idle" /\ i \in Fourths /\ h \in Hos!ServiceDoc /\ m.account \in Hos!Account
    <2>1. m \in Hos!CreatorDoc /\ m.at # "idle" /\ i \in Fourths
        BY HosStays DEF Hos!HostingInv, Hos!CallOK, Hos!ActivateHosting, Hos!CreateFails
    <2> QED BY <2>1, HosStays, HosCallParts
<1>1. v6' = [v6 EXCEPT ![c] = Hos!Free] /\ UNCHANGED <<v1, v4, v5, v7, v8>> /\ UNCHANGED v2 /\ UNCHANGED v9
    BY DEF Hos!ActivateHosting, Hos!CreateFails
<1>2. UNCHANGED v3 \/ \E w \in Hos!ServiceDoc : v3' = [v3 EXCEPT ![i] = w] /\ (h.trial => w.trial) /\ w.status # "SUSPENDED"
    <2>1. CASE Hos!ActivateHosting(c)
        <3> DEFINE w == [status |-> "ACTIVE", account |-> m.account, linked |-> h.linked \/ h.status = "absent",
                         trial |-> h.trial \/ m.trial]
        <3>1. v3' = [v3 EXCEPT ![i] = w] \/ UNCHANGED v3
            BY <2>1 DEF Hos!ActivateHosting
        <3>2. w \in Hos!ServiceDoc /\ (h.trial => w.trial) /\ w.status = "ACTIVE"
            BY <1>0 DEF Hos!ServiceDoc, Hos!HostingStates
        <3> HIDE DEF w
        <3> QED BY <3>1, <3>2
    <2>2. CASE Hos!CreateFails(c)
        <3> DEFINE w == [h EXCEPT !.status = "FAILED"]
        <3>1. v3' = [v3 EXCEPT ![i] = w] \/ UNCHANGED v3
            BY <2>2 DEF Hos!CreateFails
        <3>2. w \in Hos!ServiceDoc /\ (h.trial => w.trial) /\ w.status = "FAILED"
            BY <1>0 DEF Hos!ServiceDoc, Hos!HostingStates
        <3> HIDE DEF w
        <3> QED BY <3>1, <3>2
    <2> QED BY <2>1, <2>2
<1>3. /\ v3' \in [Fourths -> Hos!ServiceDoc]
      /\ \A n \in Fourths : /\ v3[n].trial => v3'[n].trial
                            /\ v3'[n].status = "SUSPENDED" => v3[n].status = "SUSPENDED"
    BY <1>0, <1>2, HosStays
<1> QED BY <1>1, <1>3, HosFree, HosStays, HosGoes

\* The check: whoever is about to create an account on the server shares its room.
LEMMA HosCheck ==
    ASSUME Hos!HostingInv, NEW c \in Firsts, Hos!Check(c)
    PROVE  Hos!HostingInv'
<1> DEFINE m == v6[c]
<1>00. PICK s \in Seconds : s = m.account.server
    BY DEF Hos!HostingInv, Hos!CallOK, Hos!Check
<1>1. PICK u \in Thirds : v6' = [v6 EXCEPT ![c] = [m EXCEPT !.at = "create", !.account.user = u]]
    BY DEF Hos!Check
<1>0. m \in Hos!CreatorDoc /\ m.at = "check" /\ m.item \in Fourths /\ Hos!Count(s) < Capacity
    BY <1>00, HosStays DEF Hos!HostingInv, Hos!CallOK, Hos!Check, Hos!HasRoom
<1>2. UNCHANGED <<v1, v2, v3, v4, v5>> /\ UNCHANGED v7 /\ UNCHANGED v8
    BY DEF Hos!Check
<1> DEFINE x == [m.account EXCEPT !.user = u]
           r == [m EXCEPT !.at = "create", !.account = x]
<1>3. x \in Hos!Account /\ x.user = u /\ x.server = s
    BY <1>0, <1>00, HosCallParts, HosAccountOf
<1>4. v6' = [v6 EXCEPT ![c] = r]
    BY <1>1
<1> HIDE DEF x
<1>5. r \in Hos!CreatorDoc /\ r.at = "create" /\ r.item = m.item /\ r.account = x
    BY <1>0, <1>3 DEF Hos!CreatorDoc
<1> HIDE DEF r
<1>6. v6' \in [Firsts -> Hos!CreatorDoc] /\ v6'[c] = r /\ \A d \in Firsts \ {c} : v6'[d] = v6[d]
    BY <1>4, <1>5, HosStays
<1>7. \A d \in Firsts : Hos!CallOK(v6[d])'
    BY <1>0, <1>3, <1>5, <1>6 DEF Hos!HostingInv, Hos!CallOK
<1>8. /\ v9' \in HosPast /\ v9'.late = v9.late /\ v9.crowded \subseteq v9'.crowded
      /\ s \notin v9'.crowded => Hos!Between(s) = {}
    <2> DEFINE E == \E d \in Firsts : v6[d].at = "create" /\ v6[d].account.server = s
               C == IF E THEN v9.crowded \cup {s} ELSE v9.crowded
    <2>1. v9' = [v9 EXCEPT !.crowded = C]
        BY <1>00 DEF Hos!Check
    <2>2. C \in SUBSET Seconds /\ v9.crowded \subseteq C /\ (s \notin C => Hos!Between(s) = {})
        BY <1>0, HosStays DEF HosPast, Hos!Between
    <2> HIDE DEF C
    <2>3. v9' \in HosPast /\ v9'.crowded = C /\ v9'.late = v9.late
        BY <2>1, <2>2, HosStays DEF HosPast
    <2> QED BY <2>2, <2>3
<1>9. Hos!DocsOK'
    BY <1>2, <1>6, <1>8, HosStays DEF Hos!DocsOK, HosPast, HosTrial, HosConversion
<1>10. Hos!RoomShared'
    <2>1. \A t : Hos!Count(t)' = Hos!Count(t)
        BY <1>2 DEF Hos!Count, Hos!Cardinality
    <2>2. Hos!Between(s)' = Hos!Between(s) \cup {c} /\ c \notin Hos!Between(s)
        BY <1>0, <1>3, <1>5, <1>6 DEF Hos!Between
    <2>3. \A t \in Seconds \ {s} : Hos!Between(t)' = Hos!Between(t)
        BY <1>0, <1>3, <1>5, <1>6 DEF Hos!Between
    <2>4. \A t : Hos!Cardinality(Hos!Between(t))' = Hos!Cardinality(Hos!Between(t)')
        BY DEF Hos!Cardinality
    <2>5. /\ Hos!Cardinality(Hos!Between(s))' = Hos!Cardinality(Hos!Between(s)) + 1
          /\ Hos!Cardinality(Hos!Between(s)) \in Nat /\ Hos!Cardinality(Hos!Between(s))' <= Cardinality(Firsts)
        <3>1. IsFiniteSet(Hos!Between(s)) /\ Hos!Cardinality(Hos!Between(s)) \in Nat
            BY HosBetween, HosCallSets
        <3>2. Cardinality(Hos!Between(s) \cup {c}) = Cardinality(Hos!Between(s)) + 1
            BY <2>2, <3>1, FS_AddElement
        <3>3. Hos!Between(s) \cup {c} \in SUBSET Firsts
            BY HosBetween
        <3>4. Cardinality(Hos!Between(s) \cup {c}) <= Cardinality(Firsts)
            BY <3>3, HosCallSets, HosCounts
        <3> QED BY <2>2, <2>4, <3>1, <3>2, <3>4, HosCounts
    <2>6. /\ Capacity \in Nat /\ Cardinality(Firsts) \in Nat /\ Hos!Cardinality(Firsts)' = Cardinality(Firsts)
          /\ Hos!Cardinality(Firsts) = Cardinality(Firsts) /\ Hos!Count(s) \in Nat
        BY HosBounds, HosCounts, HosCountNat DEF Hos!Cardinality
    <2>7. s \notin v9'.crowded => Hos!Cardinality(Hos!Between(s)) = 0
        BY <1>8, HosCounts, FS_EmptySet
    <2>8. \A t \in Seconds \ {s} : Hos!Cardinality(Hos!Between(t))' = Hos!Cardinality(Hos!Between(t))
        BY <2>3, <2>4
    <2> SUFFICES ASSUME NEW t \in Seconds
                 PROVE  /\ Hos!Count(t)' + Hos!Cardinality(Hos!Between(t))' <= Capacity + Cardinality(Firsts) - 1
                        /\ t \notin v9'.crowded => Hos!Count(t)' + Hos!Cardinality(Hos!Between(t))' <= Capacity
        BY <2>6 DEF Hos!RoomShared
    <2>9. CASE t = s
        <3>1. Hos!Count(s)' = Hos!Count(s)
            BY <2>1
        <3> QED BY <1>0, <2>5, <2>6, <2>7, <2>9, <3>1
    <2>10. CASE t # s
        <3>1. Hos!Count(t)' = Hos!Count(t) /\ Hos!Cardinality(Hos!Between(t))' = Hos!Cardinality(Hos!Between(t))
            BY <2>1, <2>8, <2>10
        <3> QED BY <1>8, <2>6, <3>1 DEF Hos!HostingInv, Hos!RoomShared
    <2> QED BY <2>9, <2>10
<1>11. Hos!TrialsOK'
    BY <1>2, <1>8 DEF Hos!HostingInv, Hos!TrialsOK, Hos!PaidRuns, Hos!Running, Hos!Converting
<1> QED BY <1>7, <1>9, <1>10, <1>11 DEF Hos!HostingInv

\* The creation: an account takes the room its call shared.
LEMMA HosCreate ==
    ASSUME Hos!HostingInv, NEW c \in Firsts, Hos!CreateAccount(c)
    PROVE  Hos!HostingInv'
<1> DEFINE m == v6[c]
<1>00. PICK s \in Seconds, u \in Thirds, i \in Fourths : s = m.account.server /\ u = m.account.user /\ i = m.item
    BY DEF Hos!HostingInv, Hos!CallOK, Hos!CreateAccount
<1>0. m \in Hos!CreatorDoc /\ m.at = "create" /\ UNCHANGED <<v2, v3, v4, v5, v7, v8, v9>>
    BY HosStays DEF Hos!CreateAccount
<1>1. PICK a \in {"item", "reconcile", "fail"} :
         /\ v6' = [v6 EXCEPT ![c] = [m EXCEPT !.at = a]]
         /\ \/ UNCHANGED v1
            \/ v1' = [v1 EXCEPT ![s][u] = i] /\ v1[s][u] = Nobody
    BY <1>00 DEF Hos!CreateAccount, Hos!Step
<1> DEFINE r == [m EXCEPT !.at = a]
<1>2. r \in Hos!CreatorDoc /\ r.at = a /\ r.item = m.item /\ r.account = m.account
    <2>1. a \in CallSteps
        BY DEF CallSteps
    <2> QED BY <1>0, <2>1, HosCallAt
<1>3. v6' = [v6 EXCEPT ![c] = r]
    BY <1>1
<1> HIDE DEF r
<1>4. Hos!CallOK(r)
    BY <1>00, <1>2 DEF Hos!CallOK
<1>5. CASE UNCHANGED v1
    BY <1>0, <1>2, <1>3, <1>4, <1>5, HosStays, HosGoes
<1>6. CASE v1' = [v1 EXCEPT ![s][u] = i] /\ v1[s][u] = Nobody
    <2>1. v6' \in [Firsts -> Hos!CreatorDoc] /\ v6'[c] = r /\ \A d \in Firsts \ {c} : v6'[d] = v6[d]
        BY <1>2, <1>3, HosStays
    <2>2. \A d \in Firsts : Hos!CallOK(v6[d])'
        BY <1>4, <2>1 DEF Hos!HostingInv, Hos!CallOK
    <2>3. /\ v1' \in [Seconds -> [Thirds -> Fourths \cup {Nobody}]] /\ v1'[s][u] = i
          /\ \A w \in Thirds \ {u} : v1'[s][w] = v1[s][w]
          /\ \A t \in Seconds \ {s} : v1'[t] = v1[t]
        <3>1. v1' = [v1 EXCEPT ![s] = [v1[s] EXCEPT ![u] = i]] /\ v1 \in [Seconds -> [Thirds -> Fourths \cup {Nobody}]]
            BY <1>6, HosStays
        <3>2. [v1[s] EXCEPT ![u] = i] \in [Thirds -> Fourths \cup {Nobody}]
            BY <3>1
        <3> QED BY <3>1, <3>2
    <2>4. Hos!DocsOK'
        BY <1>0, <2>1, <2>3, HosStays DEF Hos!DocsOK, HosPast, HosTrial, HosConversion
    <2> DEFINE U == {w \in Thirds : v1[s][w] # Nobody}
               V == {w \in Thirds : v1'[s][w] # Nobody}
    <2>5. V = U \cup {u} /\ u \notin U
        BY <1>6, <2>3, HosBounds
    <2>6. Hos!Count(s) = Hos!Cardinality(U) /\ Hos!Count(s)' = Hos!Cardinality(V)
        BY DEF Hos!Count, Hos!Cardinality
    <2>7. Hos!Count(s)' = Hos!Count(s) + 1 /\ Hos!Count(s) \in Nat
        <3>1. IsFiniteSet(U)
            BY HosBounds, FS_Subset
        <3> HIDE DEF U, V
        <3>2. Cardinality(V) = Cardinality(U) + 1 /\ Cardinality(U) \in Nat
            BY <2>5, <3>1, FS_AddElement, FS_CardinalityType
        <3> QED BY <2>6, <3>2, HosCounts
    <2> HIDE DEF U, V
    <2>8. \A t \in Seconds \ {s} : Hos!Count(t)' = Hos!Count(t)
        <3> SUFFICES ASSUME NEW t \in Seconds \ {s} PROVE Hos!Count(t)' = Hos!Count(t)
            OBVIOUS
        <3>1. v1'[t] = v1[t]
            BY <2>3
        <3> QED BY <3>1 DEF Hos!Count, Hos!Cardinality
    <2>9. Hos!Between(s)' = Hos!Between(s) \ {c} /\ c \in Hos!Between(s)
        BY <1>00, <1>0, <1>2, <2>1 DEF Hos!Between
    <2>10. \A t \in Seconds \ {s} : Hos!Between(t)' = Hos!Between(t)
        BY <1>00, <1>0, <1>2, <2>1 DEF Hos!Between
    <2>11. \A t : Hos!Cardinality(Hos!Between(t))' = Hos!Cardinality(Hos!Between(t)')
        BY DEF Hos!Cardinality
    <2>12. /\ Hos!Cardinality(Hos!Between(s))' = Hos!Cardinality(Hos!Between(s)) - 1
           /\ Hos!Cardinality(Hos!Between(s)) \in Nat
        <3>1. IsFiniteSet(Hos!Between(s)) /\ Hos!Cardinality(Hos!Between(s)) \in Nat
            BY HosBetween, HosCallSets
        <3>2. Cardinality(Hos!Between(s) \ {c}) = Cardinality(Hos!Between(s)) - 1
            BY <2>9, <3>1, FS_RemoveElement
        <3> QED BY <2>9, <2>11, <3>1, <3>2, HosCounts
    <2>13. \A t \in Seconds \ {s} : Hos!Cardinality(Hos!Between(t))' = Hos!Cardinality(Hos!Between(t))
        BY <2>10, <2>11
    <2>14. Capacity \in Nat /\ Cardinality(Firsts) \in Nat /\ Hos!Cardinality(Firsts)' = Cardinality(Firsts)
           /\ Hos!Cardinality(Firsts) = Cardinality(Firsts)
        BY HosBounds, HosCounts DEF Hos!Cardinality
    <2>15. Hos!RoomShared'
        <3> SUFFICES ASSUME NEW t \in Seconds
                     PROVE  /\ Hos!Count(t)' + Hos!Cardinality(Hos!Between(t))' <= Capacity + Cardinality(Firsts) - 1
                            /\ t \notin v9.crowded => Hos!Count(t)' + Hos!Cardinality(Hos!Between(t))' <= Capacity
            BY <1>0, <2>14 DEF Hos!RoomShared
        <3>1. Hos!Count(t)' + Hos!Cardinality(Hos!Between(t))' = Hos!Count(t) + Hos!Cardinality(Hos!Between(t))
            <4>1. CASE t = s
                BY <2>7, <2>12, <4>1
            <4>2. CASE t # s
                BY <2>8, <2>13, <4>2
            <4> QED BY <4>1, <4>2
        <3> QED BY <2>14, <3>1 DEF Hos!HostingInv, Hos!RoomShared
    <2>16. Hos!TrialsOK'
        BY <1>0 DEF Hos!HostingInv, Hos!TrialsOK, Hos!PaidRuns, Hos!Running, Hos!Converting
    <2> QED BY <2>2, <2>4, <2>15, <2>16 DEF Hos!HostingInv
<1> QED BY <1>1, <1>5, <1>6

\* A step of the trial run or of a conversion: no call and no server sees it.
LEMMA HosTrials ==
    ASSUME Hos!HostingInv, UNCHANGED <<v1, v2, v6>>, v3' \in [Fourths -> Hos!ServiceDoc], v4' \in SUBSET Fourths,
           v5' \in SUBSET Fourths, v7' \in HosTrial, v8' \in HosConversion, v9' \in HosPast, v9'.crowded = v9.crowded,
           Hos!TrialsOK'
    PROVE  Hos!HostingInv'
<1>1. Hos!DocsOK'
    BY HosStays DEF Hos!DocsOK, HosPast, HosTrial, HosConversion
<1>2. \A d \in Firsts : Hos!CallOK(v6[d])'
    BY DEF Hos!HostingInv, Hos!CallOK
<1>3. Hos!RoomShared'
    <2>1. \A s \in Seconds : Hos!Between(s)' \subseteq Hos!Between(s)
        BY DEF Hos!Between
    <2> QED BY <2>1, HosRoom
<1> QED BY <1>1, <1>2, <1>3 DEF Hos!HostingInv

LEMMA HosRuns ==
    ASSUME Hos!HostingInv,
           \/ \E i \in Fourths : Hos!TrialEnds(i) \/ Hos!FindExpired(i)
           \/ Hos!LookAtInvoice \/ Hos!QueueTrialJob \/ Hos!TrialRunDies
    PROVE  Hos!HostingInv'
<1>0. UNCHANGED <<v1, v2, v6>> /\ UNCHANGED v3 /\ UNCHANGED v4 /\ UNCHANGED v8
    BY DEF Hos!TrialEnds, Hos!FindExpired, Hos!LookAtInvoice, Hos!QueueTrialJob, Hos!TrialRunDies
<1>1. ASSUME NEW i \in Fourths, Hos!TrialEnds(i) PROVE Hos!HostingInv'
    <2>1. v5' \in SUBSET Fourths /\ UNCHANGED v7 /\ UNCHANGED v9
        BY <1>1, HosStays DEF Hos!TrialEnds
    <2>2. Hos!TrialsOK'
        BY <1>0, <2>1 DEF Hos!HostingInv, Hos!TrialsOK, Hos!PaidRuns, Hos!Running, Hos!Converting
    <2> QED BY <1>0, <2>1, <2>2, HosStays, HosTrials
<1>2. ASSUME NEW i \in Fourths, Hos!FindExpired(i) PROVE Hos!HostingInv'
    <2>1. UNCHANGED v5 /\ UNCHANGED v9 /\ v7' = [at |-> "look", item |-> i] /\ v3[i].trial
        BY <1>2 DEF Hos!FindExpired
    <2>2. v7' \in HosTrial /\ v7'.at = "look" /\ v7'.item = i
        BY <2>1 DEF HosTrial
    <2>3. Hos!TrialsOK'
        BY <1>0, <2>1, <2>2 DEF Hos!HostingInv, Hos!TrialsOK, Hos!PaidRuns, Hos!Running, Hos!Converting
    <2> QED BY <1>0, <2>1, <2>2, <2>3, HosStays, HosTrials
<1>3. ASSUME Hos!LookAtInvoice PROVE Hos!HostingInv'
    <2> DEFINE a == IF Hos!SeenPaid(v7.item) THEN "idle" ELSE "save"
               L == v9.late \cup {i \in {v7.item} \cap v4 : ~v3[i].linked}
    <2>1. UNCHANGED v5 /\ v7.at = "look" /\ v7' = [v7 EXCEPT !.at = a] /\ v9' = [v9 EXCEPT !.late = L]
        BY <1>3 DEF Hos!LookAtInvoice
    <2>2. a \in {"idle", "save"} /\ L \in SUBSET Fourths /\ v9.late \subseteq L /\ (a = "save" /\ v7.item \in v4 => v7.item \in L)
        BY HosStays DEF Hos!SeenPaid, HosPast
    <2> HIDE DEF a, L
    <2>3. v7' \in HosTrial /\ v7'.at = a /\ v7'.item = v7.item
        BY <2>1, <2>2, HosStays DEF HosTrial
    <2>4. v9' \in HosPast /\ v9'.late = L /\ v9'.crowded = v9.crowded
        BY <2>1, <2>2, HosStays DEF HosPast
    <2>5. Hos!TrialsOK'
        BY <1>0, <2>1, <2>2, <2>3, <2>4 DEF Hos!HostingInv, Hos!TrialsOK, Hos!PaidRuns, Hos!Running, Hos!Converting
    <2> QED BY <1>0, <2>1, <2>3, <2>4, <2>5, HosStays, HosTrials
<1>4. ASSUME Hos!QueueTrialJob \/ Hos!TrialRunDies PROVE Hos!HostingInv'
    <2>1. UNCHANGED v5 /\ UNCHANGED v9 /\ v7' = [v7 EXCEPT !.at = "idle"]
        BY <1>4 DEF Hos!QueueTrialJob, Hos!TrialRunDies
    <2>2. v7' \in HosTrial /\ v7'.at = "idle" /\ v7'.item = v7.item
        BY <2>1, HosStays DEF HosTrial
    <2>3. Hos!TrialsOK'
        BY <1>0, <2>1, <2>2 DEF Hos!HostingInv, Hos!TrialsOK, Hos!PaidRuns, Hos!Running, Hos!Converting
    <2> QED BY <1>0, <2>1, <2>2, <2>3, HosStays, HosTrials
<1> QED BY <1>1, <1>2, <1>3, <1>4

LEMMA HosConverts ==
    ASSUME Hos!HostingInv,
           \/ \E i \in Fourths : Hos!Convert(i)
           \/ Hos!SuspendTrial \/ Hos!ConvertJob \/ Hos!SaveConverted \/ Hos!ConversionDies
    PROVE  Hos!HostingInv'
<1>0. UNCHANGED <<v1, v2, v6>> /\ UNCHANGED v5
    BY DEF Hos!Convert, Hos!SuspendTrial, Hos!ConvertJob, Hos!SaveConverted, Hos!ConversionDies
<1>1. ASSUME NEW i \in Fourths, Hos!Convert(i) PROVE Hos!HostingInv'
    <2> DEFINE e == [at |-> IF v3[i].status = "SUSPENDED" THEN "job" ELSE "save", item |-> i, status |-> v3[i].status]
               L == v9.late \cup {j \in {i} : v7.item = i /\ v7.at = "save"}
    <2>1. /\ UNCHANGED v3 /\ UNCHANGED v7 /\ v4' = v4 \cup {i} /\ v8.at = "idle" /\ v9' = [v9 EXCEPT !.late = L]
          /\ v8' = IF v3[i].trial THEN e ELSE v8
        BY <1>1 DEF Hos!Convert
    <2>2. /\ e \in HosConversion /\ e.at # "idle" /\ e.item = i /\ e.status = v3[i].status
          /\ e.at = "job" => e.status = "SUSPENDED"
        BY HosStays DEF HosConversion, Hos!ServiceDoc
    <2>3. L \in SUBSET Fourths /\ v9.late \subseteq L /\ (v7.item = i /\ v7.at = "save" => i \in L)
        BY HosStays DEF HosPast
    <2> HIDE DEF e, L
    <2>4. v9' \in HosPast /\ v9'.late = L /\ v9'.crowded = v9.crowded
        BY <2>1, <2>3, HosStays DEF HosPast
    <2>5. v8' \in HosConversion /\ v4' \in SUBSET Fourths
        BY <2>1, <2>2, HosStays
    <2>6. Hos!TrialsOK'
        <3>1. CASE v3[i].trial
            <4>1. v8' = e
                BY <2>1, <3>1
            <4> QED BY <2>1, <2>2, <2>3, <2>4, <4>1
                    DEF Hos!HostingInv, Hos!TrialsOK, Hos!PaidRuns, Hos!Running, Hos!Converting
        <3>2. CASE ~v3[i].trial
            <4>1. v8' = v8
                BY <2>1, <3>2
            <4> QED BY <2>1, <2>3, <2>4, <3>2, <4>1
                    DEF Hos!HostingInv, Hos!TrialsOK, Hos!PaidRuns, Hos!Running, Hos!Converting
        <3> QED BY <3>1, <3>2
    <2> QED BY <1>0, <2>1, <2>4, <2>5, <2>6, HosStays, HosTrials
<1>2. ASSUME Hos!SuspendTrial PROVE Hos!HostingInv'
    <2>0. PICK i \in Fourths : i = v7.item
        BY <1>2 DEF Hos!HostingInv, Hos!TrialsOK, Hos!SuspendTrial
    <2> DEFINE w == [v3[i] EXCEPT !.status = "SUSPENDED"]
    <2>1. /\ UNCHANGED v4 /\ UNCHANGED v8 /\ UNCHANGED v9 /\ v7.at = "save" /\ v7' = [v7 EXCEPT !.at = "job"]
          /\ v3' = [v3 EXCEPT ![i] = w]
        BY <1>2, <2>0 DEF Hos!SuspendTrial
    <2>2. w \in Hos!ServiceDoc /\ w.trial = v3[i].trial /\ w.status = "SUSPENDED"
        BY HosStays DEF Hos!ServiceDoc, Hos!HostingStates
    <2> HIDE DEF w
    <2>3. v3' \in [Fourths -> Hos!ServiceDoc] /\ v3'[i] = w /\ \A j \in Fourths \ {i} : v3'[j] = v3[j]
        BY <2>1, <2>2, HosStays
    <2>4. v7' \in HosTrial /\ v7'.at = "job" /\ v7'.item = v7.item
        BY <2>1, HosStays DEF HosTrial
    <2>5. Hos!TrialsOK'
        BY <2>0, <2>1, <2>2, <2>3, <2>4, HosStays DEF Hos!HostingInv, Hos!TrialsOK, Hos!PaidRuns, Hos!Running, Hos!Converting
    <2> QED BY <1>0, <2>1, <2>3, <2>4, <2>5, HosStays, HosTrials
<1>3. ASSUME Hos!ConvertJob PROVE Hos!HostingInv'
    <2>1. UNCHANGED v3 /\ UNCHANGED v4 /\ UNCHANGED v7 /\ UNCHANGED v9 /\ v8.at = "job" /\ v8' = [v8 EXCEPT !.at = "save"]
        BY <1>3 DEF Hos!ConvertJob
    <2>2. v8' \in HosConversion /\ v8'.at = "save" /\ v8'.item = v8.item /\ v8'.status = v8.status
        BY <2>1, HosStays DEF HosConversion
    <2>3. Hos!TrialsOK'
        BY <2>1, <2>2 DEF Hos!HostingInv, Hos!TrialsOK, Hos!PaidRuns, Hos!Running, Hos!Converting
    <2> QED BY <1>0, <2>1, <2>2, <2>3, HosStays, HosTrials
<1>4. ASSUME Hos!SaveConverted PROVE Hos!HostingInv'
    <2>0. PICK i \in Fourths : i = v8.item
        BY <1>4, HosStays DEF Hos!HostingInv, Hos!TrialsOK, Hos!SaveConverted
    <2> DEFINE w == [v3[i] EXCEPT !.status = "ACTIVE"]
    <2>1. /\ UNCHANGED v4 /\ UNCHANGED v7 /\ UNCHANGED v9 /\ v8.at = "save" /\ v8' = [v8 EXCEPT !.at = "idle"]
          /\ v3' = IF v8.status = "SUSPENDED" THEN [v3 EXCEPT ![i] = w] ELSE v3
        BY <1>4, <2>0 DEF Hos!SaveConverted
    <2>2. w \in Hos!ServiceDoc /\ w.trial = v3[i].trial /\ w.status = "ACTIVE"
        BY HosStays DEF Hos!ServiceDoc, Hos!HostingStates
    <2> HIDE DEF w
    <2>3. v8' \in HosConversion /\ v8'.at = "idle" /\ v8'.item = v8.item
        BY <2>1, HosStays DEF HosConversion
    <2>4. CASE v8.status = "SUSPENDED"
        <3>1. v3' \in [Fourths -> Hos!ServiceDoc] /\ v3'[i] = w /\ \A j \in Fourths \ {i} : v3'[j] = v3[j]
            BY <2>1, <2>2, <2>4, HosStays
        <3>2. Hos!TrialsOK'
            BY <2>0, <2>1, <2>2, <2>3, <3>1, HosStays DEF Hos!HostingInv, Hos!TrialsOK, Hos!PaidRuns, Hos!Running, Hos!Converting
        <3> QED BY <1>0, <2>1, <2>3, <3>1, <3>2, HosStays, HosTrials
    <2>5. CASE v8.status # "SUSPENDED"
        <3>1. v3' = v3
            BY <2>1, <2>5
        <3>2. Hos!TrialsOK'
            BY <2>0, <2>1, <2>3, <2>5, <3>1, HosStays DEF Hos!HostingInv, Hos!TrialsOK, Hos!PaidRuns, Hos!Running, Hos!Converting
        <3> QED BY <1>0, <2>1, <2>3, <3>1, <3>2, HosStays, HosTrials
    <2> QED BY <2>4, <2>5
<1>5. ASSUME Hos!ConversionDies PROVE Hos!HostingInv'
    <2>0. PICK i \in Fourths : i = v8.item
        BY <1>5, HosStays DEF Hos!HostingInv, Hos!TrialsOK, Hos!ConversionDies
    <2> DEFINE L == v9.late \cup {i}
    <2>1. /\ UNCHANGED v3 /\ UNCHANGED v4 /\ UNCHANGED v7 /\ v8' = [v8 EXCEPT !.at = "idle"]
          /\ v9' = [v9 EXCEPT !.late = L]
        BY <1>5, <2>0 DEF Hos!ConversionDies
    <2>2. L \in SUBSET Fourths /\ v9.late \subseteq L /\ i \in L
        BY HosStays DEF HosPast
    <2> HIDE DEF L
    <2>3. v9' \in HosPast /\ v9'.late = L /\ v9'.crowded = v9.crowded
        BY <2>1, <2>2, HosStays DEF HosPast
    <2>4. v8' \in HosConversion /\ v8'.at = "idle" /\ v8'.item = v8.item
        BY <2>1, HosStays DEF HosConversion
    <2>5. Hos!TrialsOK'
        BY <2>0, <2>1, <2>2, <2>3, <2>4 DEF Hos!HostingInv, Hos!TrialsOK, Hos!PaidRuns, Hos!Running, Hos!Converting
    <2> QED BY <1>0, <2>1, <2>3, <2>4, <2>5, HosStays, HosTrials
<1> QED BY <1>1, <1>2, <1>3, <1>4, <1>5

LEMMA HosInit == Hos!HostingInit => Hos!HostingInv
<1> SUFFICES ASSUME Hos!HostingInit PROVE Hos!HostingInv
    OBVIOUS
<1>1. Hos!DocsOK
    <2>1. Hos!NoAccount \in Hos!Account /\ Hos!Free \in Hos!CreatorDoc
        BY HosFree
    <2>2. v3 \in [Fourths -> Hos!ServiceDoc]
        BY <2>1 DEF Hos!HostingInit, Hos!ServiceDoc, Hos!HostingStates
    <2> QED BY <2>1, <2>2 DEF Hos!HostingInit, Hos!DocsOK, Hos!HostingStates
<1>2. \A d \in Firsts : Hos!CallOK(v6[d])
    BY HosFree DEF Hos!HostingInit
<1>3. Hos!RoomShared
    <2>1. \A s \in Seconds : Hos!Between(s) = {} /\ Hos!Count(s) = 0
        <3> SUFFICES ASSUME NEW s \in Seconds PROVE Hos!Between(s) = {} /\ Hos!Count(s) = 0
            OBVIOUS
        <3>1. Hos!Between(s) = {}
            BY HosFree DEF Hos!HostingInit, Hos!Between
        <3>2. {u \in Thirds : v1[s][u] # Nobody} = {}
            BY DEF Hos!HostingInit
        <3>3. Hos!Count(s) = 0
            BY <3>2, HosCounts, FS_EmptySet DEF Hos!Count
        <3> QED BY <3>1, <3>3
    <2>2. Hos!Cardinality({}) = 0
        BY HosCounts, FS_EmptySet
    <2>3. \A s \in Seconds : Hos!Count(s) + Hos!Cardinality(Hos!Between(s)) = 0
        BY <2>1, <2>2
    <2>4. Hos!Cardinality(Firsts) \in Nat /\ Hos!Cardinality(Firsts) >= 1 /\ Capacity \in Nat
        BY HosBounds, HosCounts
    <2> QED BY <2>3, <2>4 DEF Hos!RoomShared
<1>4. Hos!TrialsOK
    BY DEF Hos!HostingInit, Hos!TrialsOK, Hos!PaidRuns, Hos!Running, Hos!Converting
<1> QED BY <1>1, <1>2, <1>3, <1>4 DEF Hos!HostingInv

LEMMA HosNext == Hos!HostingInv /\ [Hos!HostingNext]_<<v1, v2, v3, v4, v5, v6, v7, v8, v9>> => Hos!HostingInv'
<1> SUFFICES ASSUME Hos!HostingInv, [Hos!HostingNext]_<<v1, v2, v3, v4, v5, v6, v7, v8, v9>>
             PROVE  Hos!HostingInv'
    OBVIOUS
<1>1. ASSUME NEW c \in Firsts, Hos!Creating(c) PROVE Hos!HostingInv'
    BY <1>1, HosStart, HosPicks, HosEnds, HosCheck, HosCreate DEF Hos!Creating
<1>2. CASE Hos!Trialling
    BY <1>2, HosRuns, HosConverts DEF Hos!Trialling
<1>3. CASE UNCHANGED <<v1, v2, v3, v4, v5, v6, v7, v8, v9>>
    <2>1. UNCHANGED <<v1, v2, v6>> /\ UNCHANGED <<v3, v4, v5>> /\ UNCHANGED <<v7, v8, v9>>
        BY <1>3
    <2>2. Hos!TrialsOK'
        BY <2>1 DEF Hos!HostingInv, Hos!TrialsOK, Hos!PaidRuns, Hos!Running, Hos!Converting
    <2> QED BY <2>1, <2>2, HosStays, HosTrials
<1> QED BY <1>1, <1>2, <1>3 DEF Hos!HostingNext

LEMMA HosImplies == Hos!HostingInv => Hos!WithinCapacity /\ Hos!PaidRuns
<1> SUFFICES ASSUME Hos!HostingInv PROVE Hos!WithinCapacity
    BY DEF Hos!HostingInv, Hos!TrialsOK
<1>1. \A s \in Seconds : Hos!Count(s) \in Nat /\ Hos!Cardinality(Hos!Between(s)) \in Nat
    BY HosCountNat, HosBetween, HosCallSets
<1>2. Capacity \in Nat /\ Hos!Cardinality(Firsts) \in Nat
    BY HosBounds, HosCounts
<1> QED BY <1>1, <1>2 DEF Hos!HostingInv, Hos!RoomShared, Hos!WithinCapacity

LEMMA HosTyped == Hos!HostingInv => Hos!HostingTypeOK
BY HosStays DEF Hos!HostingTypeOK, Hos!ServiceDoc, Hos!CreatorDoc, HosTrial, HosConversion

\* A server has no more accounts than its capacity but for one of each creation that checked it between the
\* check and the creation of another, paid hosting is not left suspended by the end of its trial unless the
\* payment crossed it, and the password shown opens the account (order.service.ts:1261,
\* trial-lifecycle.scheduler.ts:25, service-admin.service.ts:524).
THEOREM BusinessHostingSound == BusinessSpec => []HostingSound
<1> DEFINE I == /\ scenario = "hosting" => Hos!HostingInv
                /\ scenario = "services" => Des!DeskInv
<1>1. BusinessInit => I
    BY HosInit, DesInit DEF BusinessInit, Senders, Routers, Shelves, Machinery
<1>2. I /\ [BusinessNext]_businessVars => I'
    <2> SUFFICES ASSUME I, [BusinessNext]_businessVars
                 PROVE  /\ scenario' = scenario
                        /\ scenario = "hosting" => Hos!HostingInv'
                        /\ scenario = "services" => Des!DeskInv'
        OBVIOUS
    <2>1. scenario' = scenario
        BY DEF BusinessNext, businessVars
    <2>2. ASSUME scenario = "hosting" PROVE Hos!HostingInv'
        <3>1. [Hos!HostingNext]_<<v1, v2, v3, v4, v5, v6, v7, v8, v9>>
            BY <2>2 DEF BusinessNext, BusinessStep, businessVars, shared, Senders, Routers, Shelves, Machinery
        <3> QED BY <2>2, <3>1, HosNext
    <2>3. ASSUME scenario = "services" PROVE Des!DeskInv'
        <3>1. CASE BusinessStep
            BY <2>3, <3>1, DesNext DEF BusinessStep, Senders, Routers, Shelves, Machinery
        <3>2. CASE UNCHANGED businessVars
            <4>1. UNCHANGED Des!deskVars
                BY <3>2 DEF businessVars, shared, Des!deskVars
            <4> QED BY <2>3, <4>1, DesNext
        <3> QED BY <3>1, <3>2 DEF BusinessNext
    <2> QED BY <2>1, <2>2, <2>3
<1>3. I => HostingSound
    BY HosImplies, DesImplies DEF HostingSound
<1> QED BY <1>1, <1>2, <1>3, PTL DEF BusinessSpec
-----------------------------------------------------------------------------
(* Notices: v1 transport, v2 mailLog, v3 portal, v4 today, v5 expires,      *)
(* v6 notified, v7 alert, v8 recipients, v9 task, v10 told.                 *)

NotAlert == [fails : 0..MaxFailures, alerted : 0..MaxFailures, open : BOOLEAN]
MailStatuses == {"sent", "failed"}
Categories == {"service", "billing", "automation"}

LEMMA NotBounds == /\ ReminderDays \subseteq Nat \ {0} /\ LastDay \in Nat /\ Term \in Nat \ {0}
                   /\ Threshold \in Nat \ {0} /\ Repeat \in Nat \ {0} /\ MaxFailures \in Nat
BY NoticeAssumption DEF Not!NoticeDays, Not!NoticeCounts

LEMMA NotStays ==
    Not!NoticeInv =>
        /\ v1 \in {"set", "unset"} /\ v2 \in SUBSET MailStatuses /\ v3 \in SUBSET Categories /\ v4 \in 0..LastDay
        /\ v5 \in [Ones -> 0..LastDay + Term] /\ v6 \in SUBSET Not!NoticeSet /\ v7 \in NotAlert /\ v8 \in BOOLEAN
        /\ v9 \in Not!TaskDoc /\ v10 \in Not!ToldDoc
BY DEF Not!NoticeInv, Not!NoticeTypeOK, NotAlert, MailStatuses, Categories

\* The same of the next state, for what a step leaves is either as it was or said to be a document.
LEMMA NotDocs ==
    ASSUME v1' \in {"set", "unset"}, v2' \in SUBSET MailStatuses, v3' \in SUBSET Categories, v4' \in 0..LastDay,
           v5' \in [Ones -> 0..LastDay + Term], v6' \in SUBSET Not!NoticeSet, v7' \in NotAlert, v8' \in BOOLEAN,
           v9' \in Not!TaskDoc, v10' \in Not!ToldDoc
    PROVE  Not!NoticeTypeOK' /\ (v9 \in Not!TaskDoc)' /\ (v10 \in Not!ToldDoc)'
BY DEF Not!NoticeTypeOK, Not!TaskDoc, Not!ToldDoc, NotAlert, MailStatuses, Categories

LEMMA NotMail ==
    ASSUME v2 \in SUBSET MailStatuses
    PROVE  /\ Not!Mail(Not!Raw) \/ Not!Mail(Not!Templated) => v2' \in SUBSET MailStatuses
           /\ \A r \in Not!ByOldName : Not!MailAnswered(r) => v2' \in SUBSET MailStatuses
BY DEF Not!Mail, Not!MailAnswered, Not!Raw, Not!Templated, Not!ByOldName, Not!Delivered, MailStatuses

\* A step that concerns neither the run nor what was told.
LEMMA NotAside ==
    ASSUME Not!NoticeInv, UNCHANGED <<v6, v7, v9, v10>>, v1' \in {"set", "unset"}, v2' \in SUBSET MailStatuses,
           v3' \in SUBSET Categories, v4' \in 0..LastDay, v5' \in [Ones -> 0..LastDay + Term], v8' \in BOOLEAN
    PROVE  Not!NoticeInv'
<1>1. Not!NoticeTypeOK' /\ (v9 \in Not!TaskDoc)' /\ (v10 \in Not!ToldDoc)'
    BY NotStays, NotDocs
<1>2. Not!RecordsOK' /\ Not!AlertsOK' /\ Not!NoticeOnce' /\ Not!AdminsHear'
    BY DEF Not!NoticeInv, Not!RecordsOK, Not!Recording, Not!Needless, Not!AlertsOK, Not!AlertDue, Not!NoticeOnce,
           Not!AdminsHear
<1> QED BY <1>1, <1>2 DEF Not!NoticeInv

LEMMA NotAsides ==
    ASSUME Not!NoticeInv,
           \/ Not!MailNext \/ Not!NextDay \/ Not!RecipientsChange
           \/ \E d \in Ones : Not!DomainRenewed(d)
           \/ UNCHANGED <<v1, v2, v3, v4, v5, v6, v7, v8, v9, v10>>
    PROVE  Not!NoticeInv'
<1>1. CASE Not!MailNext
    <2>1. UNCHANGED <<v6, v7, v9, v10>> /\ UNCHANGED v1 /\ UNCHANGED v4 /\ UNCHANGED v5 /\ UNCHANGED v8
        BY <1>1 DEF Not!MailNext
    <2>2. v2' \in SUBSET MailStatuses
        BY <1>1, NotMail, NotStays DEF Not!MailNext, Not!AccountMail, Not!HostingMail, Not!InvoiceMail, Not!ClientMail,
           Not!BulkMail, Not!ActionNotice, Not!ServiceTemplate, Not!ServiceGeneric, Not!Tell
    <2>3. v3' \in SUBSET Categories
        BY <1>1, NotStays DEF Not!MailNext, Not!AccountMail, Not!HostingMail, Not!InvoiceMail, Not!ClientMail,
           Not!BulkMail, Not!ActionNotice, Not!ServiceTemplate, Not!ServiceGeneric, Not!Tell, Categories
    <2> QED BY <2>1, <2>2, <2>3, NotStays, NotAside
<1>2. CASE Not!NextDay
    <2>1. UNCHANGED <<v6, v7, v9, v10>> /\ UNCHANGED <<v1, v2, v3>> /\ UNCHANGED v5 /\ UNCHANGED v8
        BY <1>2 DEF Not!NextDay
    <2>2. v4' \in 0..LastDay
        BY <1>2, NotStays, NotBounds DEF Not!NextDay
    <2> QED BY <2>1, <2>2, NotStays, NotAside
<1>3. CASE Not!RecipientsChange
    <2>1. UNCHANGED <<v6, v7, v9, v10>> /\ UNCHANGED <<v1, v2, v3>> /\ UNCHANGED v5 /\ UNCHANGED v4 /\ v8' \in BOOLEAN
        BY <1>3, NotStays DEF Not!RecipientsChange
    <2> QED BY <2>1, NotStays, NotAside
<1>4. ASSUME NEW d \in Ones, Not!DomainRenewed(d) PROVE Not!NoticeInv'
    <2>1. UNCHANGED <<v6, v7, v9, v10>> /\ UNCHANGED <<v1, v2, v3>> /\ UNCHANGED v4 /\ UNCHANGED v8
        BY <1>4 DEF Not!DomainRenewed
    <2>2. PICK n \in 0..LastDay + Term : n = v5[d] + Term
        BY <1>4, NotStays, NotBounds DEF Not!DomainRenewed
    <2>3. v5' = [v5 EXCEPT ![d] = n]
        BY <1>4, <2>2 DEF Not!DomainRenewed
    <2>4. v5' \in [Ones -> 0..LastDay + Term]
        BY <2>3, NotStays
    <2> QED BY <2>1, <2>4, NotStays, NotAside
<1>5. CASE UNCHANGED <<v1, v2, v3, v4, v5, v6, v7, v8, v9, v10>>
    <2>1. UNCHANGED <<v6, v7, v9, v10>> /\ UNCHANGED <<v1, v2, v3>> /\ UNCHANGED <<v4, v5, v8>>
        BY <1>5
    <2> QED BY <2>1, NotStays, NotAside
<1> QED BY <1>1, <1>2, <1>3, <1>4, <1>5

\* The run goes on, or ends, and has nothing to record.
LEMMA NotQuiet ==
    ASSUME Not!NoticeInv, ~Not!Recording, v9' \in Not!TaskDoc, v9'.at \in {"idle", "window", "domain", "recovery"},
           UNCHANGED <<v1, v4, v5, v6, v7, v8, v10>>, v2' \in SUBSET MailStatuses, v3' \in SUBSET Categories
    PROVE  Not!NoticeInv'
<1>1. Not!NoticeTypeOK' /\ (v9 \in Not!TaskDoc)' /\ (v10 \in Not!ToldDoc)'
    BY NotStays, NotDocs
<1>2. Not!RecordsOK'
    BY DEF Not!NoticeInv, Not!RecordsOK, Not!Recording
<1>3. Not!AlertsOK'
    BY DEF Not!NoticeInv, Not!AlertsOK
<1>4. Not!NoticeOnce' /\ Not!AdminsHear'
    BY DEF Not!NoticeInv, Not!NoticeOnce, Not!AdminsHear
<1> QED BY <1>1, <1>2, <1>3, <1>4 DEF Not!NoticeInv

LEMMA NotIdle == Not!NoTask \in Not!TaskDoc /\ Not!NoTask.at = "idle" /\ Not!NoTask.now = Not!NoNotice
<1>1. 0 \in 0..LastDay
    BY NotBounds
<1> QED BY <1>1 DEF Not!NoTask, Not!TaskDoc

\* The expiry of a domain and the digest of a day are notices.
LEMMA NotKinds == /\ \A n \in Ones \X Not!ExpiryKinds : n \in Not!NoticeSet
                  /\ \A d \in 0..LastDay : <<"digest", d>> \in Not!NoticeSet
BY DEF Not!NoticeSet

LEMMA NotWindows ==
    ASSUME Not!NoticeInv,
           \/ Not!StartReminders \/ Not!FindWindow \/ Not!EndWindow \/ Not!SendRecovery
           \/ \E n \in Ones \X Not!ExpiryKinds : Not!SkipDomain(n)
    PROVE  Not!NoticeInv'
<1>0. UNCHANGED <<v1, v4, v5, v6, v7, v8, v10>>
    BY DEF Not!StartReminders, Not!FindWindow, Not!EndWindow, Not!SendRecovery, Not!SkipDomain
<1>1. ~Not!Recording
    <2>1. Not!NoTask.at = "idle"
        BY NotIdle
    <2> QED BY <2>1 DEF Not!StartReminders, Not!FindWindow, Not!EndWindow, Not!SendRecovery, Not!SkipDomain, Not!Recording
<1>2. CASE Not!StartReminders
    <2> DEFINE t == [Not!NoTask EXCEPT !.at = "window", !.day = v4, !.left = Not!ExpiryKinds]
    <2>1. t \in Not!TaskDoc /\ t.at = "window"
        BY NotIdle, NotStays DEF Not!TaskDoc
    <2>2. v9' = t /\ UNCHANGED v2 /\ UNCHANGED v3
        BY <1>2 DEF Not!StartReminders
    <2> HIDE DEF t
    <2> QED BY <1>0, <1>1, <2>1, <2>2, NotStays, NotQuiet
<1>3. CASE Not!FindWindow
    <2>1. PICK k \in v9.left : v9' = [v9 EXCEPT !.at = "domain", !.left = v9.left \ {k}, !.todo = Not!Window(k) \X {k}]
        BY <1>3 DEF Not!FindWindow
    <2>2. v9 \in Not!TaskDoc /\ v9.left \in SUBSET Not!ExpiryKinds
        BY NotStays DEF Not!TaskDoc
    <2>3. Not!Window(k) \X {k} \in SUBSET (Ones \X Not!ExpiryKinds) /\ v9.left \ {k} \in SUBSET Not!ExpiryKinds
        BY <2>2 DEF Not!Window
    <2>4. v9' \in Not!TaskDoc /\ v9'.at = "domain"
        BY <2>1, <2>2, <2>3 DEF Not!TaskDoc
    <2>5. UNCHANGED v2 /\ UNCHANGED v3
        BY <1>3 DEF Not!FindWindow
    <2> QED BY <1>0, <1>1, <2>4, <2>5, NotStays, NotQuiet
<1>4. CASE Not!EndWindow
    <2>1. v9' = Not!NoTask \/ v9' = [v9 EXCEPT !.at = "window"]
        BY <1>4 DEF Not!EndWindow
    <2>2. v9' \in Not!TaskDoc /\ v9'.at \in {"idle", "window"}
        BY <2>1, NotIdle, NotStays DEF Not!TaskDoc
    <2>3. UNCHANGED v2 /\ UNCHANGED v3
        BY <1>4 DEF Not!EndWindow
    <2> QED BY <1>0, <1>1, <2>2, <2>3, NotStays, NotQuiet
<1>5. CASE Not!SendRecovery
    <2>1. v9' \in Not!TaskDoc /\ v9'.at = "idle"
        BY <1>5, NotIdle DEF Not!SendRecovery
    <2>2. v2' \in SUBSET MailStatuses /\ v3' \in SUBSET Categories
        BY <1>5, NotStays, NotMail DEF Not!SendRecovery, Not!NotifyAdmins, Categories
    <2> QED BY <1>0, <1>1, <2>1, <2>2, NotQuiet
<1>6. ASSUME NEW n \in Ones \X Not!ExpiryKinds, Not!SkipDomain(n) PROVE Not!NoticeInv'
    <2>1. v9' = [v9 EXCEPT !.todo = v9.todo \ {n}] /\ v9.at = "domain" /\ UNCHANGED v2 /\ UNCHANGED v3
        BY <1>6 DEF Not!SkipDomain
    <2>2. v9' \in Not!TaskDoc /\ v9'.at = "domain"
        BY <2>1, NotStays DEF Not!TaskDoc
    <2> QED BY <1>0, <1>1, <2>1, <2>2, NotStays, NotQuiet
<1> QED BY <1>2, <1>3, <1>4, <1>5, <1>6

\* What a run says it sent, and marks as sent again if it was.
LEMMA NotSent ==
    ASSUME NEW n \in Not!NoticeSet, v10 \in Not!ToldDoc
    PROVE  /\ Not!Sent(n) \in Not!ToldDoc /\ Not!Sent(n).sent = v10.sent \cup {n} /\ Not!Sent(n).lapsed = v10.lapsed
           /\ Not!Sent(n).again = IF n \in v10.sent THEN v10.again \cup {n} ELSE v10.again
           /\ Not!Sent(n).heard = v10.heard /\ Not!Sent(n).deaf = v10.deaf
BY DEF Not!Sent, Not!ToldDoc

\* A reminder, or the digest, is sent by a run that found no record of it.
LEMMA NotSends ==
    ASSUME Not!NoticeInv, NEW n \in Not!NoticeSet, ~Not!Recording, n \notin v6, v10' = Not!Sent(n),
           v9' \in Not!TaskDoc, v9'.at \in {"portal", "log", "digestlog"}, v9'.now = n,
           UNCHANGED <<v1, v4, v5, v6, v7, v8>>, v2' \in SUBSET MailStatuses, v3' \in SUBSET Categories
    PROVE  Not!NoticeInv'
<1>1. /\ v10' \in Not!ToldDoc /\ v10'.sent = v10.sent \cup {n} /\ v10'.lapsed = v10.lapsed
      /\ v10'.again = IF n \in v10.sent THEN v10.again \cup {n} ELSE v10.again
      /\ v10'.heard = v10.heard /\ v10'.deaf = v10.deaf
    BY NotSent, NotStays
<1>2. v10.sent \subseteq v6 \cup v10.lapsed
    BY DEF Not!NoticeInv, Not!RecordsOK
<1>3. Not!NoticeTypeOK' /\ (v9 \in Not!TaskDoc)' /\ (v10 \in Not!ToldDoc)'
    BY <1>1, NotStays, NotDocs
<1>4. Not!RecordsOK'
    BY <1>1, <1>2 DEF Not!RecordsOK, Not!Recording
<1>5. Not!AlertsOK' /\ Not!AdminsHear'
    BY <1>1 DEF Not!NoticeInv, Not!AlertsOK, Not!AdminsHear
<1>6. Not!NoticeOnce'
    BY <1>1, <1>2 DEF Not!NoticeInv, Not!NoticeOnce
<1> QED BY <1>3, <1>4, <1>5, <1>6 DEF Not!NoticeInv

\* What was sent is recorded, or the run ends without that.
LEMMA NotRecords ==
    ASSUME Not!NoticeInv, Not!Recording, v9' \in Not!TaskDoc, v9'.at \in {"idle", "domain"},
           \/ v6' = v6 \cup {v9.now} /\ UNCHANGED v10
           \/ UNCHANGED v6 /\ v10' = [v10 EXCEPT !.lapsed = v10.lapsed \cup {v9.now}],
           UNCHANGED <<v1, v2, v3, v4, v5, v7, v8>>
    PROVE  Not!NoticeInv'
<1>1. v9.now \in Not!NoticeSet /\ v10.sent \subseteq v6 \cup v10.lapsed \cup {v9.now}
    BY DEF Not!NoticeInv, Not!RecordsOK
<1> DEFINE L == v10.lapsed \cup {v9.now}
<1>2. L \in SUBSET Not!NoticeSet /\ v10.lapsed \subseteq L /\ v9.now \in L
    BY <1>1, NotStays DEF Not!ToldDoc
<1>3. (v6' = v6 \cup {v9.now} /\ UNCHANGED v10) \/ (UNCHANGED v6 /\ v10' = [v10 EXCEPT !.lapsed = L])
    OBVIOUS
<1> HIDE DEF L
<1>4. /\ v6' \in SUBSET Not!NoticeSet /\ v10' \in Not!ToldDoc /\ v10'.sent = v10.sent /\ v10'.again = v10.again
      /\ v10'.heard = v10.heard /\ v10'.deaf = v10.deaf /\ v10.lapsed \subseteq v10'.lapsed
      /\ v10.sent \subseteq v6' \cup v10'.lapsed
    <2>1. CASE v6' = v6 \cup {v9.now} /\ UNCHANGED v10
        BY <1>1, <2>1, NotStays
    <2>2. CASE UNCHANGED v6 /\ v10' = [v10 EXCEPT !.lapsed = L]
        <3>1. v10' \in Not!ToldDoc
            BY <1>2, <2>2, NotStays DEF Not!ToldDoc
        <3>2. v10'.lapsed = L /\ v10'.sent = v10.sent /\ v10'.again = v10.again /\ v10'.heard = v10.heard /\ v10'.deaf = v10.deaf
            BY <2>2, NotStays DEF Not!ToldDoc
        <3>3. v10.sent \subseteq v6' \cup v10'.lapsed
            BY <1>1, <1>2, <2>2, <3>2
        <3> QED BY <1>2, <2>2, <3>1, <3>2, <3>3, NotStays
    <2> QED BY <1>3, <2>1, <2>2
<1>5. Not!NoticeTypeOK' /\ (v9 \in Not!TaskDoc)' /\ (v10 \in Not!ToldDoc)'
    BY <1>4, NotStays, NotDocs
<1>6. Not!RecordsOK'
    BY <1>4 DEF Not!RecordsOK, Not!Recording
<1>7. Not!AlertsOK' /\ Not!AdminsHear'
    BY <1>4 DEF Not!NoticeInv, Not!AlertsOK, Not!AdminsHear
<1>8. Not!NoticeOnce'
    BY <1>4 DEF Not!NoticeInv, Not!NoticeOnce
<1> QED BY <1>5, <1>6, <1>7, <1>8 DEF Not!NoticeInv

LEMMA NotReminder ==
    ASSUME Not!NoticeInv, NEW n \in Ones \X Not!ExpiryKinds, Not!SendExpiryReminder(n)
    PROVE  Not!NoticeInv'
<1>1. PICK r \in Not!ByOldName :
         /\ Not!MailAnswered(r)
         /\ IF r = "sent"
            THEN /\ v9' = [v9 EXCEPT !.todo = v9.todo \ {n}, !.now = n,
                                     !.at = IF n[2] = Not!Expired THEN "log" ELSE "portal"]
                 /\ v10' = Not!Sent(n)
            ELSE v9' = [v9 EXCEPT !.todo = v9.todo \ {n}] /\ UNCHANGED v10
    BY DEF Not!SendExpiryReminder
<1>2. /\ v9.at = "domain" /\ ~Not!Recording /\ n \notin v6 /\ n \in Not!NoticeSet
      /\ UNCHANGED <<v1, v4, v5, v6, v7, v8>> /\ UNCHANGED v3
    BY NotKinds DEF Not!SendExpiryReminder, Not!Needless, Not!Recording
<1>3. v2' \in SUBSET MailStatuses
    BY <1>1, NotStays, NotMail
<1>4. CASE r = "sent"
    <2> DEFINE a == IF n[2] = Not!Expired THEN "log" ELSE "portal"
    <2>1. v9' = [v9 EXCEPT !.todo = v9.todo \ {n}, !.now = n, !.at = a] /\ a \in {"log", "portal"} /\ v10' = Not!Sent(n)
        BY <1>1, <1>4
    <2> HIDE DEF a
    <2>2. v9' \in Not!TaskDoc /\ v9'.at = a /\ v9'.now = n
        BY <1>2, <2>1, NotStays DEF Not!TaskDoc
    <2> QED BY <1>2, <1>3, <2>1, <2>2, NotStays, NotSends
<1>5. CASE r # "sent"
    <2>1. v9' = [v9 EXCEPT !.todo = v9.todo \ {n}] /\ UNCHANGED v10
        BY <1>1, <1>5
    <2>2. v9' \in Not!TaskDoc /\ v9'.at = "domain"
        BY <1>2, <2>1, NotStays DEF Not!TaskDoc
    <2> QED BY <1>2, <1>3, <2>1, <2>2, NotStays, NotQuiet
<1> QED BY <1>4, <1>5

LEMMA NotLogs ==
    ASSUME Not!NoticeInv, Not!LogExpiryReminder \/ Not!ReminderFails \/ Not!LogDigest \/ Not!TaskDies
    PROVE  Not!NoticeInv'
<1>0. UNCHANGED <<v1, v2, v3, v4, v5, v7, v8>>
    BY DEF Not!LogExpiryReminder, Not!ReminderFails, Not!LogDigest, Not!TaskDies
<1>1. v9' \in Not!TaskDoc /\ v9'.at \in {"idle", "domain"}
    <2>1. v9' = Not!NoTask \/ v9' = [v9 EXCEPT !.at = "domain", !.now = Not!NoNotice]
        BY DEF Not!LogExpiryReminder, Not!ReminderFails, Not!LogDigest, Not!TaskDies
    <2> QED BY <2>1, NotIdle, NotStays DEF Not!TaskDoc
<1>2. CASE Not!Recording
    <2>1. \/ v6' = v6 \cup {v9.now} /\ UNCHANGED v10
          \/ UNCHANGED v6 /\ v10' = [v10 EXCEPT !.lapsed = v10.lapsed \cup {v9.now}]
        BY <1>2 DEF Not!LogExpiryReminder, Not!ReminderFails, Not!LogDigest, Not!TaskDies, Not!Recording
    <2> QED BY <1>0, <1>1, <1>2, <2>1, NotRecords
<1>3. CASE ~Not!Recording
    <2>1. UNCHANGED v6 /\ UNCHANGED v10
        BY <1>3 DEF Not!LogExpiryReminder, Not!ReminderFails, Not!LogDigest, Not!TaskDies, Not!Recording
    <2> QED BY <1>0, <1>1, <1>3, <2>1, NotStays, NotQuiet
<1> QED BY <1>2, <1>3

\* The portal is told, or a period found that has no digest yet.
LEMMA NotDigests ==
    ASSUME Not!NoticeInv, Not!NotifyPortal \/ Not!StartDigest \/ Not!SendDigest
    PROVE  Not!NoticeInv'
<1>1. CASE Not!NotifyPortal
    <2>1. /\ v9.at = "portal" /\ v9' = [v9 EXCEPT !.at = "log"] /\ UNCHANGED <<v1, v2, v4, v5, v6, v7, v8, v10>>
          /\ v3' \in SUBSET Categories
        BY <1>1, NotStays DEF Not!NotifyPortal, Categories
    <2>2. v9' \in Not!TaskDoc /\ v9'.at = "log" /\ v9'.now = v9.now
        BY <2>1, NotStays DEF Not!TaskDoc
    <2>3. Not!NoticeTypeOK' /\ (v9 \in Not!TaskDoc)' /\ (v10 \in Not!ToldDoc)'
        BY <2>1, <2>2, NotStays, NotDocs
    <2>4. Not!RecordsOK'
        BY <2>1, <2>2 DEF Not!NoticeInv, Not!RecordsOK, Not!Recording
    <2>5. Not!AlertsOK' /\ Not!AdminsHear' /\ Not!NoticeOnce'
        BY <2>1, <2>2 DEF Not!NoticeInv, Not!AlertsOK, Not!AdminsHear, Not!NoticeOnce
    <2> QED BY <2>3, <2>4, <2>5 DEF Not!NoticeInv
<1>2. CASE Not!StartDigest
    <2> DEFINE n == <<"digest", v4>>
               t == [Not!NoTask EXCEPT !.at = "digest", !.now = n]
    <2>1. v9 = Not!NoTask /\ n \notin v6 /\ v9' = t /\ UNCHANGED <<v1, v2, v3, v4, v5, v6, v7, v8, v10>>
        BY <1>2 DEF Not!StartDigest, Not!Needless
    <2>2. n \in Not!NoticeSet
        BY NotKinds, NotStays
    <2> HIDE DEF n
    <2>3. t \in Not!TaskDoc /\ t.at = "digest" /\ t.now = n
        BY <2>2, NotIdle DEF Not!TaskDoc
    <2> HIDE DEF t
    <2>4. Not!NoticeTypeOK' /\ (v9 \in Not!TaskDoc)' /\ (v10 \in Not!ToldDoc)'
        BY <2>1, <2>3, NotStays, NotDocs
    <2>5. ~Not!Recording
        BY <2>1, NotIdle DEF Not!Recording
    <2>6. Not!RecordsOK'
        BY <2>1, <2>2, <2>3, <2>5 DEF Not!NoticeInv, Not!RecordsOK, Not!Recording, Not!Needless
    <2>7. Not!AlertsOK' /\ Not!AdminsHear' /\ Not!NoticeOnce'
        BY <2>1, <2>3 DEF Not!NoticeInv, Not!AlertsOK, Not!AdminsHear, Not!NoticeOnce
    <2> QED BY <2>4, <2>6, <2>7 DEF Not!NoticeInv
<1>3. CASE Not!SendDigest
    <2>1. /\ v9.at = "digest" /\ v9.now \in Not!NoticeSet /\ v9.now \notin v6 /\ ~Not!Recording
          /\ v9' = [v9 EXCEPT !.at = "digestlog"] /\ UNCHANGED <<v1, v4, v5, v6, v7, v8>>
        BY <1>3 DEF Not!NoticeInv, Not!RecordsOK, Not!Needless, Not!Recording, Not!SendDigest
    <2>2. v9' \in Not!TaskDoc /\ v9'.at = "digestlog" /\ v9'.now = v9.now
        BY <2>1, NotStays DEF Not!TaskDoc
    <2>3. v2' \in SUBSET MailStatuses /\ v3' \in SUBSET Categories
        BY <1>3, NotStays, NotMail DEF Not!SendDigest, Not!NotifyAdmins, Categories
    <2>4. CASE v8
        BY <1>3, <2>1, <2>2, <2>3, <2>4, NotStays, NotSends DEF Not!SendDigest
    <2>5. CASE ~v8
        <3>1. UNCHANGED v10
            BY <1>3, <2>5 DEF Not!SendDigest
        <3>2. Not!NoticeTypeOK' /\ (v9 \in Not!TaskDoc)' /\ (v10 \in Not!ToldDoc)'
            BY <2>1, <2>2, <2>3, <3>1, NotStays, NotDocs
        <3>3. Not!RecordsOK'
            BY <2>1, <2>2, <3>1 DEF Not!NoticeInv, Not!RecordsOK, Not!Recording
        <3>4. Not!AlertsOK' /\ Not!AdminsHear' /\ Not!NoticeOnce'
            BY <2>1, <2>2, <3>1 DEF Not!NoticeInv, Not!AlertsOK, Not!AdminsHear, Not!NoticeOnce
        <3> QED BY <3>2, <3>3, <3>4 DEF Not!NoticeInv
    <2> QED BY <2>4, <2>5
<1> QED BY <1>1, <1>2, <1>3

\* One more failure, one less than the bound.
LEMMA NotFails ==
    ASSUME Not!NoticeInv, v7.fails < MaxFailures
    PROVE  v7.fails + 1 \in 0..MaxFailures /\ v7.fails \in Nat /\ v7.alerted \in Nat /\ v10.heard \in Nat
BY NotStays, NotBounds DEF NotAlert, Not!ToldDoc

LEMMA NotAlerts ==
    ASSUME Not!NoticeInv, Not!RecordFailure \/ Not!SendFailureAlert
    PROVE  Not!NoticeInv'
<1>1. CASE Not!RecordFailure
    <2> DEFINE a == IF Not!AlertDue(v7.fails + 1) THEN "alert" ELSE "save"
               t == [Not!NoTask EXCEPT !.at = a]
    <2>1. v9 = Not!NoTask /\ v7.fails < MaxFailures /\ v9' = t /\ UNCHANGED <<v1, v2, v3, v4, v5, v6, v7, v8, v10>>
        BY <1>1 DEF Not!RecordFailure
    <2>2. a \in {"alert", "save"} /\ (a = "alert" => Not!AlertDue(v7.fails + 1)) /\ (a = "save" => ~Not!AlertDue(v7.fails + 1))
        OBVIOUS
    <2> HIDE DEF a
    <2>3. t \in Not!TaskDoc /\ t.at = a /\ t.now = Not!NoNotice
        BY <2>2, NotIdle DEF Not!TaskDoc
    <2> HIDE DEF t
    <2>4. Not!NoticeTypeOK' /\ (v9 \in Not!TaskDoc)' /\ (v10 \in Not!ToldDoc)'
        BY <2>1, <2>3, NotStays, NotDocs
    <2>5. ~Not!Recording
        BY <2>1, NotIdle DEF Not!Recording
    <2>6. Not!RecordsOK' /\ Not!AdminsHear' /\ Not!NoticeOnce'
        BY <2>1, <2>2, <2>3, <2>5 DEF Not!NoticeInv, Not!RecordsOK, Not!Recording, Not!AdminsHear, Not!NoticeOnce
    <2>7. Not!AlertsOK'
        BY <2>1, <2>2, <2>3 DEF Not!NoticeInv, Not!AlertsOK, Not!AlertDue
    <2> QED BY <2>4, <2>6, <2>7 DEF Not!NoticeInv
<1>2. CASE Not!SendFailureAlert
    <2>1. /\ v9.at = "alert" /\ v7.fails < MaxFailures /\ Not!AlertDue(v7.fails + 1) /\ ~Not!Recording
          /\ UNCHANGED <<v1, v4, v5, v6, v7, v8>>
        BY <1>2 DEF Not!SendFailureAlert, Not!NoticeInv, Not!AlertsOK, Not!Recording
    <2>2. v2' \in SUBSET MailStatuses /\ v3' \in SUBSET Categories
        BY <1>2, NotStays, NotMail DEF Not!SendFailureAlert, Not!NotifyAdmins, Categories
    <2>3. v10.sent \subseteq v6 \cup v10.lapsed /\ v10.again \subseteq v10.lapsed
        BY <2>1 DEF Not!NoticeInv, Not!RecordsOK, Not!NoticeOnce
    <2>4. CASE v8
        <3>1. PICK f \in 0..MaxFailures : f = v7.fails + 1
            BY <2>1, NotFails
        <3>2. v10' = [v10 EXCEPT !.heard = f, !.deaf = FALSE] /\ v9' = [v9 EXCEPT !.at = "save", !.now = <<"alerted", 0>>]
            BY <1>2, <2>4, <3>1 DEF Not!SendFailureAlert
        <3>3. /\ v10' \in Not!ToldDoc /\ v10'.heard = f /\ v10'.deaf = FALSE /\ v10'.sent = v10.sent
              /\ v10'.again = v10.again /\ v10'.lapsed = v10.lapsed
            BY <3>2, NotStays DEF Not!ToldDoc
        <3>4. v9' \in Not!TaskDoc /\ v9'.at = "save" /\ v9'.now = <<"alerted", 0>> /\ v9'.now # Not!NoNotice
            BY <3>2, NotStays DEF Not!TaskDoc, Not!NoNotice
        <3>5. Not!NoticeTypeOK' /\ (v9 \in Not!TaskDoc)' /\ (v10 \in Not!ToldDoc)'
            BY <2>1, <2>2, <3>3, <3>4, NotStays, NotDocs
        <3>6. Not!RecordsOK' /\ Not!NoticeOnce'
            BY <2>1, <2>3, <3>3, <3>4 DEF Not!RecordsOK, Not!Recording, Not!NoticeOnce
        <3>7. f >= Threshold
            BY <2>1, <3>1 DEF Not!AlertDue
        <3>8. v7.alerted # 0 => v7.alerted >= Threshold /\ v7.alerted <= v10.heard /\ v7.alerted <= f
            <4>1. v7.alerted # 0 => f - v7.alerted >= Repeat
                BY <2>1, <3>1 DEF Not!AlertDue
            <4> QED BY <2>1, <4>1, NotBounds, NotFails DEF Not!NoticeInv, Not!AlertsOK
        <3>9. Not!AlertsOK'
            BY <2>1, <3>1, <3>3, <3>4, <3>7, <3>8 DEF Not!AlertsOK
        <3>10. Not!AdminsHear'
            BY <2>1, <3>1, <3>3, <3>7, NotBounds, NotFails DEF Not!AdminsHear
        <3> QED BY <3>5, <3>6, <3>9, <3>10 DEF Not!NoticeInv
    <2>5. CASE ~v8
        <3>1. v10' = [v10 EXCEPT !.deaf = TRUE] /\ v9' = [v9 EXCEPT !.at = "save"]
            BY <1>2, <2>5 DEF Not!SendFailureAlert
        <3>2. /\ v10' \in Not!ToldDoc /\ v10'.heard = v10.heard /\ v10'.deaf = TRUE /\ v10'.sent = v10.sent
              /\ v10'.again = v10.again /\ v10'.lapsed = v10.lapsed
            BY <3>1, NotStays DEF Not!ToldDoc
        <3>3. v9' \in Not!TaskDoc /\ v9'.at = "save" /\ v9'.now = v9.now
            BY <3>1, NotStays DEF Not!TaskDoc
        <3>4. Not!NoticeTypeOK' /\ (v9 \in Not!TaskDoc)' /\ (v10 \in Not!ToldDoc)'
            BY <2>1, <2>2, <3>2, <3>3, NotStays, NotDocs
        <3>5. Not!RecordsOK' /\ Not!NoticeOnce' /\ Not!AdminsHear'
            BY <2>1, <2>3, <3>2, <3>3 DEF Not!RecordsOK, Not!Recording, Not!NoticeOnce, Not!AdminsHear
        <3>6. Not!AlertsOK'
            BY <2>1, <3>2, <3>3 DEF Not!NoticeInv, Not!AlertsOK
        <3> QED BY <3>4, <3>5, <3>6 DEF Not!NoticeInv
    <2> QED BY <2>4, <2>5
<1> QED BY <1>1, <1>2

LEMMA NotSaves ==
    ASSUME Not!NoticeInv, Not!SaveFailure \/ Not!RecordSuccess
    PROVE  Not!NoticeInv'
<1>1. UNCHANGED <<v1, v2, v3, v4, v5, v6, v8>> /\ ~Not!Recording /\ v10.sent \subseteq v6 \cup v10.lapsed
    <2>1. UNCHANGED <<v1, v2, v3, v4, v5, v6, v8>> /\ ~Not!Recording
        BY NotIdle DEF Not!SaveFailure, Not!RecordSuccess, Not!Recording
    <2> QED BY <2>1 DEF Not!NoticeInv, Not!RecordsOK
<1>2. CASE Not!SaveFailure
    <2>1. v9.at = "save" /\ v7.fails < MaxFailures /\ v9' = Not!NoTask /\ UNCHANGED v10
        BY <1>2 DEF Not!SaveFailure, Not!NoticeInv, Not!AlertsOK
    <2>2. PICK f \in 0..MaxFailures : f = v7.fails + 1
        BY <2>1, NotFails
    <2> DEFINE a == IF v9.now # Not!NoNotice THEN f ELSE v7.alerted
               o == v7.open \/ v9.now # Not!NoNotice
    <2>3. v7' = [fails |-> f, alerted |-> a, open |-> o]
        BY <1>2, <2>2 DEF Not!SaveFailure
    <2>4. a \in 0..MaxFailures /\ o \in BOOLEAN
        BY NotStays DEF NotAlert
    <2>5. /\ v9.now # Not!NoNotice => a = f /\ v10.heard = f /\ v10.heard >= Threshold
          /\ v9.now = Not!NoNotice => a = v7.alerted /\ (v10.deaf \/ ~Not!AlertDue(f))
        BY <2>1, <2>2 DEF Not!NoticeInv, Not!AlertsOK
    <2> HIDE DEF a, o
    <2>6. v7' \in NotAlert /\ v7'.fails = f /\ v7'.alerted = a
        BY <2>3, <2>4 DEF NotAlert
    <2>7. v9' \in Not!TaskDoc /\ v9'.at = "idle"
        BY <2>1, NotIdle
    <2>8. Not!NoticeTypeOK' /\ (v9 \in Not!TaskDoc)' /\ (v10 \in Not!ToldDoc)'
        BY <1>1, <2>1, <2>6, <2>7, NotStays, NotDocs
    <2>9. Not!RecordsOK' /\ Not!NoticeOnce'
        BY <1>1, <2>1, <2>7 DEF Not!NoticeInv, Not!RecordsOK, Not!Recording, Not!NoticeOnce
    <2>10. f \in Nat /\ a \in Nat /\ v10.heard \in Nat /\ (v7.alerted # 0 => v7.alerted >= Threshold /\ v7.alerted <= v10.heard)
        BY <2>1, <2>4, NotBounds, NotFails DEF Not!NoticeInv, Not!AlertsOK
    <2>11. Not!AlertsOK'
        BY <2>1, <2>5, <2>6, <2>7, <2>10, NotBounds DEF Not!AlertsOK
    <2>12. Not!AdminsHear'
        <3>1. CASE v9.now # Not!NoNotice
            BY <2>1, <2>5, <2>6, <2>10, <3>1, NotBounds DEF Not!AdminsHear
        <3>2. CASE v9.now = Not!NoNotice
            <4>1. ~v10.deaf /\ f >= Threshold => v7.alerted # 0 /\ f - v7.alerted < Repeat
                BY <2>5, <2>10, <3>2, NotBounds, NotStays DEF Not!AlertDue, NotAlert
            <4>2. v7.alerted \in Nat
                BY <2>1, NotFails
            <4> QED BY <2>1, <2>6, <2>10, <4>1, <4>2, NotBounds DEF Not!AdminsHear
        <3> QED BY <3>1, <3>2
    <2> QED BY <2>8, <2>9, <2>11, <2>12 DEF Not!NoticeInv
<1>3. CASE Not!RecordSuccess
    <2>1. v7' = [v7 EXCEPT !.fails = 0, !.alerted = 0, !.open = FALSE] /\ v10' = [v10 EXCEPT !.heard = 0, !.deaf = FALSE]
        BY <1>3 DEF Not!RecordSuccess, Not!Recovered
    <2>0. 0 \in 0..MaxFailures
        BY NotBounds
    <2>2. v7' \in NotAlert /\ v7'.fails = 0 /\ v7'.alerted = 0
        BY <2>0, <2>1, NotStays DEF NotAlert
    <2>3. v10' \in Not!ToldDoc /\ v10'.sent = v10.sent /\ v10'.again = v10.again /\ v10'.lapsed = v10.lapsed
        BY <2>0, <2>1, NotStays DEF Not!ToldDoc
    <2>4. v9' = Not!NoTask \/ v9' = [Not!NoTask EXCEPT !.at = "recovery"]
        BY <1>3 DEF Not!RecordSuccess
    <2>5. v9' \in Not!TaskDoc /\ v9'.at \in {"idle", "recovery"}
        BY <2>4, NotIdle DEF Not!TaskDoc
    <2>6. Not!NoticeTypeOK' /\ (v9 \in Not!TaskDoc)' /\ (v10 \in Not!ToldDoc)'
        BY <1>1, <2>2, <2>3, <2>5, NotStays, NotDocs
    <2>7. Not!RecordsOK' /\ Not!NoticeOnce'
        BY <1>1, <2>3, <2>5 DEF Not!NoticeInv, Not!RecordsOK, Not!Recording, Not!NoticeOnce
    <2>8. Not!AlertsOK' /\ Not!AdminsHear'
        BY <2>2, <2>5, NotBounds DEF Not!AlertsOK, Not!AdminsHear
    <2> QED BY <2>6, <2>7, <2>8 DEF Not!NoticeInv
<1> QED BY <1>2, <1>3

LEMMA NotInit == Not!NoticeInit => Not!NoticeInv
<1> SUFFICES ASSUME Not!NoticeInit PROVE Not!NoticeInv
    OBVIOUS
<1>1. v9 \in Not!TaskDoc /\ v9.at = "idle"
    BY NotIdle DEF Not!NoticeInit
<1>2. v10 \in Not!ToldDoc /\ v10.sent = {} /\ v10.again = {} /\ v10.heard = 0
    BY NotBounds DEF Not!NoticeInit, Not!ToldDoc
<1>3. v7 \in NotAlert /\ v7.fails = 0 /\ v7.alerted = 0
    BY NotBounds DEF Not!NoticeInit, Not!NoAlert, NotAlert
<1>4. Not!NoticeTypeOK
    <2>1. v5 \in [Ones -> 0..LastDay + Term] /\ 0 \in 0..LastDay
        BY NotBounds DEF Not!NoticeInit
    <2> QED BY <1>1, <1>2, <1>3, <2>1 DEF Not!NoticeInit, Not!NoticeTypeOK, NotAlert, Not!TaskDoc, Not!ToldDoc
<1>5. Not!RecordsOK /\ Not!AlertsOK /\ Not!NoticeOnce /\ Not!AdminsHear
    BY <1>1, <1>2, <1>3, NotBounds DEF Not!RecordsOK, Not!Recording, Not!AlertsOK, Not!NoticeOnce, Not!AdminsHear
<1> QED BY <1>1, <1>2, <1>4, <1>5 DEF Not!NoticeInv

LEMMA NotNext == Not!NoticeInv /\ [Not!NoticeNext]_<<v1, v2, v3, v4, v5, v6, v7, v8, v9, v10>> => Not!NoticeInv'
<1> SUFFICES ASSUME Not!NoticeInv, [Not!NoticeNext]_<<v1, v2, v3, v4, v5, v6, v7, v8, v9, v10>> PROVE Not!NoticeInv'
    OBVIOUS
<1>1. CASE Not!ReminderNext
    BY <1>1, NotWindows, NotReminder, NotLogs, NotDigests DEF Not!ReminderNext
<1>2. CASE Not!AlertNext
    BY <1>2, NotAlerts, NotSaves, NotWindows DEF Not!AlertNext
<1>3. CASE Not!DigestNext
    BY <1>3, NotDigests, NotLogs DEF Not!DigestNext
<1>4. CASE Not!TaskDies
    BY <1>4, NotLogs
<1> QED BY <1>1, <1>2, <1>3, <1>4, NotAsides DEF Not!NoticeNext

LEMMA NotImplies == Not!NoticeInv => Not!NoticeOnce /\ Not!AdminsHear /\ Not!NoticeTypeOK
BY DEF Not!NoticeInv

\* A reminder or a digest is sent once but for a run that failed or died before it was recorded, and the
\* administrators hear of a task that keeps failing, again and again (automation-alert.service.ts:41).
THEOREM BusinessNoticesReach == BusinessSpec => []NoticesReach
<1> DEFINE I == scenario \in Senders => Not!NoticeInv
<1>1. BusinessInit => I
    BY NotInit DEF BusinessInit, Senders, Routers, Shelves, Machinery
<1>2. I /\ [BusinessNext]_businessVars => I'
    <2> SUFFICES ASSUME I, [BusinessNext]_businessVars, scenario' \in Senders PROVE Not!NoticeInv'
        OBVIOUS
    <2>1. scenario \in Senders
        BY DEF BusinessNext, businessVars
    <2>2. [Not!NoticeNext]_<<v1, v2, v3, v4, v5, v6, v7, v8, v9, v10>>
        BY <2>1 DEF BusinessNext, BusinessStep, businessVars, shared, Senders, Routers, Shelves, Machinery, Not!NoticeNext
    <2> QED BY <2>1, <2>2, NotNext
<1>3. I => NoticesReach
    BY NotImplies DEF NoticesReach
<1> QED BY <1>1, <1>2, <1>3, PTL DEF BusinessSpec
=============================================================================

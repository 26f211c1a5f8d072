--------------------------- MODULE Payment_proofs ---------------------------
(***************************************************************************)
(* Proofs about Payment, for every finite set of calls, every set of         *)
(* transactions, every total and every number of faults: the types, that     *)
(* each payment counts once, and that a payment reaches all components.      *)
(* The facts about sums over calls are those of Sums.                        *)
(***************************************************************************)
EXTENDS Payment, Sums

USE TotalAssumption, NobodyAssumption, CallsAssumption

-----------------------------------------------------------------------------
(* The inductive invariant *)

\* The hook of the model keeps balanceDue the rest of the total, in what is
\* stored as in what a call has read or is about to save.
IsDoc(d) == d.balanceDue = Total - d.credit
Balanced ==
    /\ IsDoc(invoice)
    /\ \A c \in Calls : IsDoc(call[c].read) /\ IsDoc(call[c].new)

\* What is under way, by the kind of request
SessionsCharge ==
    /\ \A t \in Transactions : session[t].state # "none" => session[t].amount > 0
    /\ \A c \in Calls : call[c].kind = "callback" =>
          \E t \in Transactions : /\ call[c].tran = {t} /\ call[c].amount = session[t].amount
                                  /\ session[t].state # "none"

CallbackIs(c) ==
    call[c].kind = "callback" =>
        /\ call[c].pc \in {"read", "check", "write", "insert", "fanout", "done"}
        /\ call[c].amount > 0 /\ call[c].tran # {}
        /\ call[c].pc \in {"check", "write", "insert"} => call[c].new = Doc("PAID", Total)
        /\ call[c].pc \in {"write", "insert"} =>
              Matches(c) /\ call[c].read.status # "PAID"
ManualIs(c) ==
    call[c].kind = "manual" =>
        /\ call[c].pc \in {"save", "record", "fanout", "done"}
        /\ call[c].amount > 0 /\ call[c].tran = {}
        /\ call[c].pc = "save" =>
              /\ call[c].read.status = "UNPAID" /\ call[c].new.status \in {"UNPAID", "PAID"}
              /\ call[c].new.credit = call[c].read.credit + call[c].amount
              /\ call[c].new.status = "PAID" <=> call[c].new.balanceDue = 0
StatusIs(c) ==
    call[c].kind = "status" =>
        /\ call[c].pc \in {"save", "fanout", "done"} /\ call[c].tran = {}
        /\ history.admin # {}
        /\ "PAID" \notin history.admin =>
              call[c].new.credit \in {0, call[c].read.credit}
IdleIs(c) == call[c].kind = "none" => call[c].pc = "idle" /\ call[c] = Idle
Requests == \A c \in Calls : CallbackIs(c) /\ ManualIs(c) /\ StatusIs(c) /\ IdleIs(c)

\* Components are called after a payment, all of them, and only by a callback
\* that has its PaymentTransaction.
Following(c) == call[c].todo # <<>>
Entries(s) == {s[n] : n \in 1..Len(s)}
Follows(c) ==
    /\ Following(c) => /\ history.paid /\ call[c].pc \in {"record", "fanout"}
                       /\ ran[c] \cup Entries(call[c].todo) = Components
    /\ call[c].pc = "fanout" => Following(c)
    /\ ran[c] # {} => history.paid /\ call[c].pc \in {"fanout", "done"}
    /\ recorded[c] > 0 => call[c].pc \in {"fanout", "done"}
    /\ call[c].kind = "callback" /\ (call[c].pc = "fanout" \/ ran[c] # {}) => recorded[c] > 0
Followed ==
    /\ \A c \in Calls : Follows(c)
    /\ order = "PROCESSING" => history.paid
    /\ history.paid /\ history.faults = 0 =>
          \E c \in Calls : Following(c) \/ ran[c] = Components

\* Callbacks of one transaction that both looked and found no record did so
\* while the other was to commit; only then a transaction is recorded twice.
Passed(c) ==
    call[c].kind = "callback" /\ (call[c].pc \in {"write", "insert"} \/ recorded[c] > 0)
Crossings ==
    /\ \A c, d \in Calls :
          c # d /\ Passed(c) /\ Passed(d) /\ call[c].tran = call[d].tran =>
              {c, d} \in history.crossed
    /\ \A c \in history.again : call[c].kind = "callback" /\ recorded[c] > 0
    /\ ~history.overlap => history.crossed = {} /\ history.again = {}

\* Money that came in: credit was never above it when somebody read it, either,
\* and leaves room for the transaction of a callback that looked too early.
Backing == TakenSum + InFlightSum + history.lost
Counted ==
    \A c \in Calls : call[c].pc \in {"write", "insert"} /\ Processed(c) =>
        call[c].read.credit + call[c].amount <= Backing
Backed ==
    "PAID" \notin history.admin =>
        /\ invoice.credit <= Backing
        /\ \A c \in Calls : call[c].read.credit <= Backing
        /\ Counted

\* A call that saves alone saves over what it read.
Alone ==
    ~history.overlap =>
        \A c \in Changing : call[c].read = invoice /\ Changing = {c}
Exact ==
    ~history.overlap /\ history.admin = {} /\ history.lost = 0 =>
        /\ invoice.credit = RecordedSum + InFlightSum
        /\ invoice.status = "PAID" <=> invoice.balanceDue = 0

\* The inductive invariant
PayInv ==
    /\ PaymentTypeOK /\ Balanced /\ SessionsCharge /\ Requests
    /\ Followed /\ Crossings /\ Backed /\ Alone /\ Exact

-----------------------------------------------------------------------------
(* Types *)

Kinds == {"none", "callback", "manual", "status"}
Pcs == {"idle", "read", "check", "write", "insert", "save", "record", "fanout", "done"}
CallStates == [kind : Kinds, pc : Pcs, amount : 0..Total, tran : SUBSET Transactions,
               read : Invoice, new : Invoice, todo : Seq(Components)]
Histories == [paid : BOOLEAN, overlap : BOOLEAN, admin : SUBSET Statuses,
              crossed : SUBSET SUBSET Calls, again : SUBSET Calls,
              lost : Nat, faults : Nat]
Sessions == [state : {"none", "open", "charged"}, amount : 0..Total]
Orders == {"PENDING_PAYMENT", "PROCESSING"}

LEMMA RecordTypes ==
    PaymentTypeOK <=>
        /\ invoice \in Invoice /\ order \in Orders
        /\ session \in [Transactions -> Sessions]
        /\ call \in [Calls -> CallStates]
        /\ writer \in Calls \cup {Nobody}
        /\ recorded \in [Calls -> 0..Total]
        /\ ran \in [Calls -> SUBSET Components]
        /\ history \in Histories
  BY DEF PaymentTypeOK, Orders, Sessions, CallStates, Kinds, Pcs, Histories

LEMMA TypesAfter ==
    PaymentTypeOK' <=>
        /\ invoice' \in Invoice /\ order' \in Orders
        /\ session' \in [Transactions -> Sessions]
        /\ call' \in [Calls -> CallStates]
        /\ writer' \in Calls \cup {Nobody}
        /\ recorded' \in [Calls -> 0..Total]
        /\ ran' \in [Calls -> SUBSET Components]
        /\ history' \in Histories
  BY DEF PaymentTypeOK, Orders, Sessions, CallStates, Kinds, Pcs, Histories

LEMMA DocType ==
    /\ \A st \in Statuses, n \in 0..Total :
          /\ Doc(st, n) \in Invoice /\ IsDoc(Doc(st, n))
          /\ Doc(st, n).status = st /\ Doc(st, n).credit = n
          /\ Doc(st, n).balanceDue = Total - n
    /\ Fresh \in Invoice /\ IsDoc(Fresh) /\ Fresh.credit = 0 /\ Fresh.status = "UNPAID"
  BY DEF Doc, Invoice, IsDoc, Fresh, Statuses

\* What a save leaves: the fields of the document that the call did not change.
LEMMA SavedType ==
    ASSUME PaymentTypeOK, Balanced, NEW c \in Calls
    PROVE  /\ Saved(c) \in Invoice /\ IsDoc(Saved(c))
           /\ Saved(c).status = IF call[c].new.status = call[c].read.status
                                THEN invoice.status ELSE call[c].new.status
           /\ Saved(c).credit = IF call[c].new.credit = call[c].read.credit
                                THEN invoice.credit ELSE call[c].new.credit
  <1>. DEFINE r == call[c].read
              n == call[c].new
  <1>1. r \in Invoice /\ n \in Invoice /\ invoice \in Invoice
    BY RecordTypes DEF CallStates
  <1>2. IsDoc(r) /\ IsDoc(n) /\ IsDoc(invoice)
    BY DEF Balanced
  <1>3. Saved(c) = [status |-> IF n.status = r.status THEN invoice.status ELSE n.status,
                    credit |-> IF n.credit = r.credit THEN invoice.credit ELSE n.credit,
                    balanceDue |-> IF n.balanceDue = r.balanceDue THEN invoice.balanceDue
                                   ELSE n.balanceDue]
    BY <1>1 DEF Saved, Invoice
  <1>. QED  BY <1>1, <1>2, <1>3 DEF Invoice, IsDoc

LEMMA IdleType == Idle \in CallStates /\ Idle.kind = "none" /\ Idle.pc = "idle" /\ Idle.todo = <<>>
  BY DocType DEF Idle, CallStates, Kinds, Pcs

LEMMA GotoType ==
    ASSUME NEW r \in CallStates, NEW pc \in Pcs
    PROVE  LET next == [r EXCEPT !.pc = pc]
           IN /\ next \in CallStates /\ next.pc = pc /\ next.kind = r.kind
              /\ next.amount = r.amount /\ next.tran = r.tran /\ next.read = r.read
              /\ next.new = r.new /\ next.todo = r.todo
  BY DEF CallStates

LEMMA EndType ==
    ASSUME NEW r \in CallStates
    PROVE  LET next == [r EXCEPT !.pc = "done", !.read = Fresh, !.new = Fresh, !.todo = <<>>]
           IN /\ next \in CallStates /\ next.pc = "done" /\ next.kind = r.kind
              /\ next.amount = r.amount /\ next.tran = r.tran /\ next.read = Fresh
              /\ next.new = Fresh /\ next.todo = <<>>
  <1>. DEFINE next == [r EXCEPT !.pc = "done", !.read = Fresh, !.new = Fresh, !.todo = <<>>]
  <1>1. "done" \in Pcs /\ Fresh \in Invoice /\ <<>> \in Seq(Components)
    BY DocType DEF Pcs
  <1>2. ASSUME NEW pc \in Pcs, NEW d \in Invoice, NEW e \in Invoice, NEW t \in Seq(Components)
        PROVE  [r EXCEPT !.pc = pc, !.read = d, !.new = e, !.todo = t] \in CallStates
    BY DEF CallStates
  <1>3. next \in CallStates
    BY <1>1, <1>2
  <1>4. /\ next.pc = "done" /\ next.kind = r.kind
        /\ next.amount = r.amount /\ next.tran = r.tran /\ next.read = Fresh
        /\ next.new = Fresh /\ next.todo = <<>>
    BY DEF CallStates
  <1>. QED  BY <1>3, <1>4

LEMMA CalledType ==
    \A k \in Kinds : /\ Called(k) \in Seq(Components) /\ Called(k) # <<>>
                     /\ Entries(Called(k)) = Components
  <1>. SUFFICES ASSUME NEW k \in Kinds
                PROVE  /\ Called(k) \in Seq(Components) /\ Called(k) # <<>>
                       /\ Entries(Called(k)) = Components
    OBVIOUS
  <1>. DEFINE s == Called(k)
  <1>1. ASSUME NEW v1 \in Components, NEW v2 \in Components, NEW v3 \in Components,
               NEW v4 \in Components, NEW v5 \in Components
        PROVE  LET q == <<v1, v2, v3, v4, v5>>
               IN /\ q \in Seq(Components) /\ q # <<>>
                  /\ Entries(q) = {v1, v2, v3, v4, v5}
    <2>. DEFINE q == <<v1, v2, v3, v4, v5>>
    <2>1. q \in Seq(Components) /\ Len(q) = 5
      OBVIOUS
    <2>2. q[1] = v1 /\ q[2] = v2 /\ q[3] = v3 /\ q[4] = v4 /\ q[5] = v5
      OBVIOUS
    <2>. HIDE DEF q
    <2>3. 1..5 = {1, 2, 3, 4, 5}
      <3>1. ASSUME NEW n \in 1..5 PROVE n \in {1, 2, 3, 4, 5}
        <4>1. n \in Int /\ 1 <= n /\ n <= 5
          OBVIOUS
        <4>2. n = 1 \/ n = 2 \/ n = 3 \/ n = 4 \/ n = 5
          BY <4>1
        <4>. QED  BY <4>2
      <3>. QED  BY <3>1
    <2>4. Entries(q) = {q[1], q[2], q[3], q[4], q[5]}
      <3>1. Entries(q) = {q[n] : n \in 1..5}
        BY <2>1 DEF Entries
      <3>2. Entries(q) = {q[n] : n \in {1, 2, 3, 4, 5}}
        BY <2>3, <3>1
      <3>. QED  BY <3>2
    <2>5. q # <<>>
      <3>1. Len(q) # 0 /\ Len(<<>>) = 0
        BY <2>1
      <3>. QED  BY <3>1
    <2>. QED  BY <2>1, <2>2, <2>4, <2>5 DEF q
  <1>2. /\ "provisioning" \in Components /\ "trial" \in Components
        /\ "unsuspend" \in Components /\ "renewal" \in Components
        /\ "affiliate" \in Components
    BY DEF Components
  <1>3. CASE k = "status"
    <2>1. s = <<"provisioning", "trial", "unsuspend", "renewal", "affiliate">>
      BY <1>3 DEF Called
    <2>2. LET q == <<"provisioning", "trial", "unsuspend", "renewal", "affiliate">>
          IN  q \in Seq(Components) /\ q # <<>> /\ Entries(q) = {"provisioning", "trial", "unsuspend", "renewal", "affiliate"}
      BY <1>1, <1>2
    <2>. HIDE DEF s
    <2>3. s \in Seq(Components) /\ s # <<>> /\ Entries(s) = {"provisioning", "trial", "unsuspend", "renewal", "affiliate"}
      BY <2>1, <2>2
    <2>. QED  BY <2>3 DEF Components, s
  <1>4. CASE k # "status"
    <2>1. s = <<"provisioning", "affiliate", "trial", "unsuspend", "renewal">>
      BY <1>4 DEF Called
    <2>2. LET q == <<"provisioning", "affiliate", "trial", "unsuspend", "renewal">>
          IN  q \in Seq(Components) /\ q # <<>> /\ Entries(q) = {"provisioning", "affiliate", "trial", "unsuspend", "renewal"}
      BY <1>1, <1>2
    <2>. HIDE DEF s
    <2>3. s \in Seq(Components) /\ s # <<>> /\ Entries(s) = {"provisioning", "affiliate", "trial", "unsuspend", "renewal"}
      BY <2>1, <2>2
    <2>. QED  BY <2>3 DEF Components, s
  <1>. QED  BY <1>3, <1>4

LEMMA TailType ==
    ASSUME NEW s \in Seq(Components), s # <<>>
    PROVE  /\ Tail(s) \in Seq(Components) /\ Head(s) \in Components
           /\ Entries(s) = {Head(s)} \cup Entries(Tail(s))
           /\ Len(s) = 1 => Entries(s) = {Head(s)}
           /\ Len(s) # 1 => Tail(s) # <<>>
  <1>1. /\ Len(s) \in Nat /\ Len(s) > 0 /\ Head(s) = s[1] /\ s[1] \in Components
        /\ Tail(s) \in Seq(Components) /\ Len(Tail(s)) = Len(s) - 1
        /\ \A n \in 1..(Len(s) - 1) : Tail(s)[n] = s[n + 1]
    OBVIOUS
  <1>2. ASSUME NEW x \in Entries(s) PROVE x \in {Head(s)} \cup Entries(Tail(s))
    <2>1. PICK n \in 1..Len(s) : x = s[n]
      BY DEF Entries
    <2>2. CASE n # 1
      <3>1. n - 1 \in 1..Len(Tail(s)) /\ Tail(s)[n - 1] = x
        BY <1>1, <2>1, <2>2
      <3>. QED  BY <3>1 DEF Entries
    <2>. QED  BY <1>1, <2>1, <2>2
  <1>3. ASSUME NEW x \in {Head(s)} \cup Entries(Tail(s)) PROVE x \in Entries(s)
    <2>1. CASE x = Head(s)
      BY <1>1, <2>1 DEF Entries
    <2>2. CASE x \in Entries(Tail(s))
      <3>1. PICK n \in 1..Len(Tail(s)) : x = Tail(s)[n]
        BY <2>2 DEF Entries
      <3>2. n + 1 \in 1..Len(s) /\ x = s[n + 1]
        BY <1>1, <3>1
      <3>. QED  BY <3>2 DEF Entries
    <2>. QED  BY <1>3, <2>1, <2>2
  <1>4. Len(s) = 1 => Entries(s) = {Head(s)}
    BY <1>1 DEF Entries
  <1>5. Len(s) # 1 => Tail(s) # <<>>
    <2>1. Len(s) # 1 => Len(Tail(s)) # 0
      BY <1>1
    <2>. QED  BY <2>1
  <1>. QED  BY <1>1, <1>2, <1>3, <1>4, <1>5

LEMMA NoEntries == Entries(<<>>) = {}
  BY DEF Entries

\* The others' requests and what became of them stay.
OthersKept(c) ==
    \A d \in Calls :
        d # c => call'[d] = call[d] /\ recorded'[d] = recorded[d] /\ ran'[d] = ran[d]

\* A request's own state after it is put to s
LEMMA CallPut ==
    ASSUME PaymentTypeOK, NEW c \in Calls, NEW s \in CallStates,
           call' = [call EXCEPT ![c] = s]
    PROVE  /\ call' \in [Calls -> CallStates] /\ call'[c] = s
           /\ \A d \in Calls : d # c => call'[d] = call[d]
  BY RecordTypes

LEMMA ReturnDoes ==
    ASSUME PaymentTypeOK, NEW c \in Calls, Return(c)
    PROVE  /\ call' \in [Calls -> CallStates]
           /\ \A d \in Calls : d # c => call'[d] = call[d]
           /\ call'[c].pc = "done" /\ call'[c].todo = <<>>
           /\ call'[c].read = Fresh /\ call'[c].new = Fresh
           /\ call'[c].kind = call[c].kind /\ call'[c].tran = call[c].tran
           /\ call'[c].amount = call[c].amount
  <1>. DEFINE next == [call[c] EXCEPT !.pc = "done", !.read = Fresh, !.new = Fresh,
                                      !.todo = <<>>]
  <1>1. call[c] \in CallStates
    BY RecordTypes
  <1>2. /\ next \in CallStates /\ next.pc = "done" /\ next.kind = call[c].kind
        /\ next.amount = call[c].amount /\ next.tran = call[c].tran
        /\ next.read = Fresh /\ next.new = Fresh /\ next.todo = <<>>
    BY <1>1, EndType
  <1>3. call' = [call EXCEPT ![c] = next]
    BY DEF Return
  <1>. HIDE DEF next
  <1>. QED  BY <1>2, <1>3, CallPut

LEMMA GotoDoes ==
    ASSUME PaymentTypeOK, NEW c \in Calls, NEW pc \in Pcs, Goto(c, pc)
    PROVE  /\ call' \in [Calls -> CallStates]
           /\ \A d \in Calls : d # c => call'[d] = call[d]
           /\ call'[c].pc = pc /\ call'[c].todo = call[c].todo
           /\ call'[c].read = call[c].read /\ call'[c].new = call[c].new
           /\ call'[c].kind = call[c].kind /\ call'[c].tran = call[c].tran
           /\ call'[c].amount = call[c].amount
  <1>. DEFINE next == [call[c] EXCEPT !.pc = pc]
  <1>1. call[c] \in CallStates /\ call \in [Calls -> CallStates]
    BY RecordTypes
  <1>2. /\ next \in CallStates /\ next.pc = pc /\ next.kind = call[c].kind
        /\ next.amount = call[c].amount /\ next.tran = call[c].tran
        /\ next.read = call[c].read /\ next.new = call[c].new /\ next.todo = call[c].todo
    BY <1>1, GotoType
  <1>3. call' = [call EXCEPT ![c] = next]
    BY <1>1 DEF Goto
  <1>. HIDE DEF next
  <1>. QED  BY <1>2, <1>3, CallPut

LEMMA CallbackDoes ==
    ASSUME PaymentTypeOK, NEW c \in Calls, NEW t \in Transactions, Callback(c, t)
    PROVE  /\ call' \in [Calls -> CallStates]
           /\ \A d \in Calls : d # c => call'[d] = call[d]
           /\ call[c].pc = "idle" /\ session[t].state = "charged"
           /\ call'[c].kind = "callback" /\ call'[c].pc = "read" /\ call'[c].tran = {t}
           /\ call'[c].amount = session[t].amount /\ call'[c].todo = <<>>
           /\ call'[c].read = Fresh /\ call'[c].new = Fresh
  <1>. DEFINE next == [Idle EXCEPT !.kind = "callback", !.pc = "read", !.tran = {t},
                                   !.amount = session[t].amount]
  <1>1. session[t].amount \in 0..Total /\ "callback" \in Kinds /\ "read" \in Pcs
    BY RecordTypes DEF Sessions, Kinds, Pcs
  <1>2. ASSUME NEW r \in CallStates, NEW k \in Kinds, NEW pc \in Pcs,
               NEW tr \in SUBSET Transactions, NEW n \in 0..Total
        PROVE  [r EXCEPT !.kind = k, !.pc = pc, !.tran = tr, !.amount = n] \in CallStates
    BY DEF CallStates
  <1>3. next \in CallStates
    BY <1>1, <1>2, IdleType
  <1>4. /\ next.kind = "callback" /\ next.pc = "read" /\ next.tran = {t}
        /\ next.amount = session[t].amount /\ next.todo = <<>>
        /\ next.read = Fresh /\ next.new = Fresh
    BY DEF Idle
  <1>5. call' = [call EXCEPT ![c] = next] /\ call[c].pc = "idle" /\ session[t].state = "charged"
    BY DEF Callback
  <1>. HIDE DEF next
  <1>. QED  BY <1>3, <1>4, <1>5, CallPut

LEMMA ReadDoes ==
    ASSUME PaymentTypeOK, NEW c \in Calls, ReadInvoice(c)
    PROVE  /\ call' \in [Calls -> CallStates]
           /\ \A d \in Calls : d # c => call'[d] = call[d]
           /\ call[c].pc = "read" /\ call'[c].pc = "check"
           /\ call'[c].read = invoice /\ call'[c].new = Doc("PAID", Total)
           /\ call'[c].kind = call[c].kind /\ call'[c].tran = call[c].tran
           /\ call'[c].amount = call[c].amount /\ call'[c].todo = call[c].todo
  <1>. DEFINE next == [call[c] EXCEPT !.pc = "check", !.read = invoice,
                                      !.new = Doc("PAID", Total)]
  <1>1. /\ call[c] \in CallStates /\ call \in [Calls -> CallStates]
        /\ invoice \in Invoice /\ "check" \in Pcs
    BY RecordTypes DEF Pcs
  <1>2. Doc("PAID", Total) \in Invoice
    BY DocType DEF Statuses
  <1>3. ASSUME NEW r \in CallStates, NEW pc \in Pcs, NEW d \in Invoice, NEW e \in Invoice
        PROVE  [r EXCEPT !.pc = pc, !.read = d, !.new = e] \in CallStates
    BY DEF CallStates
  <1>4. next \in CallStates
    BY <1>1, <1>2, <1>3
  <1>5. /\ next.pc = "check" /\ next.read = invoice /\ next.new = Doc("PAID", Total)
        /\ next.kind = call[c].kind /\ next.tran = call[c].tran
        /\ next.amount = call[c].amount /\ next.todo = call[c].todo
    BY <1>1 DEF CallStates
  <1>6. call' = [call EXCEPT ![c] = next] /\ call[c].pc = "read"
    BY <1>1 DEF ReadInvoice
  <1>. HIDE DEF next
  <1>. QED  BY <1>4, <1>5, <1>6, CallPut

\* A request goes on with its components.
LEMMA QueueDoes ==
    ASSUME PaymentTypeOK, NEW c \in Calls, NEW pc \in Pcs, NEW todo \in Seq(Components),
           call' = [call EXCEPT ![c].pc = pc, ![c].todo = todo]
    PROVE  /\ call' \in [Calls -> CallStates]
           /\ \A d \in Calls : d # c => call'[d] = call[d]
           /\ call'[c].pc = pc /\ call'[c].todo = todo
           /\ call'[c].read = call[c].read /\ call'[c].new = call[c].new
           /\ call'[c].kind = call[c].kind /\ call'[c].tran = call[c].tran
           /\ call'[c].amount = call[c].amount
  <1>. DEFINE next == [call[c] EXCEPT !.pc = pc, !.todo = todo]
  <1>1. call[c] \in CallStates /\ call \in [Calls -> CallStates]
    BY RecordTypes
  <1>2. ASSUME NEW r \in CallStates
        PROVE  [r EXCEPT !.pc = pc, !.todo = todo] \in CallStates
    BY DEF CallStates
  <1>3. next \in CallStates
    BY <1>1, <1>2
  <1>4. /\ next.pc = pc /\ next.todo = todo /\ next.kind = call[c].kind
        /\ next.amount = call[c].amount /\ next.tran = call[c].tran
        /\ next.read = call[c].read /\ next.new = call[c].new
    BY <1>1 DEF CallStates
  <1>5. call' = [call EXCEPT ![c] = next]
    BY <1>1
  <1>. HIDE DEF next
  <1>. QED  BY <1>3, <1>4, <1>5, CallPut

LEMMA TailDoes ==
    ASSUME PaymentTypeOK, NEW c \in Calls, call[c].todo # <<>>,
           call' = [call EXCEPT ![c].todo = Tail(@)]
    PROVE  /\ call' \in [Calls -> CallStates]
           /\ \A d \in Calls : d # c => call'[d] = call[d]
           /\ call'[c].pc = call[c].pc /\ call'[c].todo = Tail(call[c].todo)
           /\ call'[c].read = call[c].read /\ call'[c].new = call[c].new
           /\ call'[c].kind = call[c].kind /\ call'[c].tran = call[c].tran
           /\ call'[c].amount = call[c].amount
  <1>. DEFINE todo == Tail(call[c].todo)
              next == [call[c] EXCEPT !.todo = todo]
  <1>1. call[c] \in CallStates /\ call \in [Calls -> CallStates]
    BY RecordTypes
  <1>2. call[c].todo \in Seq(Components)
    BY <1>1 DEF CallStates
  <1>3. todo \in Seq(Components)
    BY <1>2, TailType
  <1>4. call' = [call EXCEPT ![c] = next]
    BY <1>1
  <1>. HIDE DEF todo
  <1>5. next \in CallStates
    BY <1>1, <1>3 DEF CallStates
  <1>6. /\ next.pc = call[c].pc /\ next.todo = todo /\ next.kind = call[c].kind
        /\ next.amount = call[c].amount /\ next.tran = call[c].tran
        /\ next.read = call[c].read /\ next.new = call[c].new
    BY <1>1 DEF CallStates
  <1>. HIDE DEF next
  <1>. QED  BY <1>4, <1>5, <1>6, CallPut DEF todo

\* A request that is not a callback begins.
LEMMA BeginDoes ==
    ASSUME PaymentTypeOK, NEW c \in Calls, NEW k \in Kinds, NEW n \in 0..Total, NEW e \in Invoice,
           call' = [call EXCEPT ![c] = [Idle EXCEPT
                       !.kind = k, !.pc = "save", !.amount = n, !.read = invoice, !.new = e]]
    PROVE  /\ call' \in [Calls -> CallStates]
           /\ \A d \in Calls : d # c => call'[d] = call[d]
           /\ call'[c].pc = "save" /\ call'[c].kind = k /\ call'[c].amount = n
           /\ call'[c].read = invoice /\ call'[c].new = e
           /\ call'[c].todo = <<>> /\ call'[c].tran = {}
  <1>. DEFINE next == [Idle EXCEPT !.kind = k, !.pc = "save", !.amount = n,
                                   !.read = invoice, !.new = e]
  <1>1. invoice \in Invoice /\ "save" \in Pcs
    BY RecordTypes DEF Pcs
  <1>2. ASSUME NEW r \in CallStates, NEW pc \in Pcs, NEW d \in Invoice
        PROVE  [r EXCEPT !.kind = k, !.pc = pc, !.amount = n, !.read = d, !.new = e]
                  \in CallStates
    BY DEF CallStates
  <1>3. next \in CallStates
    BY <1>1, <1>2, IdleType
  <1>4. /\ next.kind = k /\ next.pc = "save" /\ next.amount = n /\ next.read = invoice
        /\ next.new = e /\ next.todo = <<>> /\ next.tran = {}
    BY DEF Idle
  <1>5. call' = [call EXCEPT ![c] = next]
    OBVIOUS
  <1>. HIDE DEF next
  <1>. QED  BY <1>3, <1>4, <1>5, CallPut

LEMMA AddPaymentDoes ==
    ASSUME PaymentTypeOK, Balanced, NEW c \in Calls, NEW amount \in 1..Total, AddPayment(c, amount)
    PROVE  /\ call' \in [Calls -> CallStates]
           /\ \A d \in Calls : d # c => call'[d] = call[d]
           /\ call[c].pc = "idle" /\ call'[c].pc = "save" /\ call'[c].kind = "manual"
           /\ call'[c].amount = amount /\ call'[c].tran = {} /\ call'[c].todo = <<>>
           /\ call'[c].read = invoice /\ invoice.status = "UNPAID"
           /\ call'[c].new \in Invoice /\ IsDoc(call'[c].new)
           /\ call'[c].new.status \in {"UNPAID", "PAID"}
           /\ call'[c].new.credit = invoice.credit + amount
           /\ call'[c].new.status = "PAID" <=> call'[c].new.balanceDue = 0
  <1>. DEFINE new == IF Settles(invoice, amount) THEN Doc("PAID", Total)
                     ELSE Doc(invoice.status, Credited(invoice, amount))
  <1>1. /\ invoice \in Invoice /\ invoice.status = "UNPAID"
        /\ amount <= invoice.balanceDue /\ amount \in 1..Total
    BY RecordTypes DEF AddPayment
  <1>2. invoice.balanceDue = Total - invoice.credit
    BY DEF Balanced, IsDoc
  <1>3. invoice.credit \in 0..Total /\ invoice.balanceDue \in 0..Total
    BY <1>1 DEF Invoice
  <1>4. /\ new \in Invoice /\ IsDoc(new) /\ new.status \in {"UNPAID", "PAID"}
        /\ new.credit = invoice.credit + amount
        /\ new.status = "PAID" <=> new.balanceDue = 0
    <2>a. CASE Settles(invoice, amount)
      <3>1. new = Doc("PAID", Total)
        BY <2>a
      <3>2. invoice.credit + amount = Total
        BY <1>1, <1>2, <1>3, <2>a DEF Settles
      <3>3. "PAID" \in Statuses /\ Total \in 0..Total /\ Total - Total = 0
        BY DEF Statuses
      <3>4. /\ new \in Invoice /\ IsDoc(new) /\ new.status = "PAID" /\ new.credit = Total
            /\ new.balanceDue = 0
        BY <3>1, <3>3, DocType
      <3>. HIDE DEF new
      <3>. QED  BY <3>2, <3>4
    <2>b. CASE ~Settles(invoice, amount)
      <3>. DEFINE credit == invoice.credit + amount
      <3>1. new = Doc("UNPAID", credit)
        BY <1>1, <2>b DEF Credited
      <3>2. credit \in 0..Total /\ Total - credit # 0
        BY <1>1, <1>2, <1>3, <2>b DEF Settles
      <3>3. "UNPAID" \in Statuses
        BY DEF Statuses
      <3>. HIDE DEF new, credit
      <3>4. /\ new \in Invoice /\ IsDoc(new) /\ new.status = "UNPAID" /\ new.credit = credit
            /\ new.balanceDue # 0
        BY <3>1, <3>2, <3>3, DocType
      <3>. QED  BY <3>4 DEF credit
    <2>. QED  BY <2>a, <2>b
  <1>5. /\ call[c].pc = "idle"
        /\ call' = [call EXCEPT ![c] = [Idle EXCEPT !.kind = "manual", !.pc = "save",
                       !.amount = amount, !.read = invoice, !.new = new]]
    BY DEF AddPayment
  <1>6. "manual" \in Kinds /\ amount \in 0..Total
    BY DEF Kinds
  <1>. HIDE DEF new
  <1>7. /\ call' \in [Calls -> CallStates]
        /\ \A d \in Calls : d # c => call'[d] = call[d]
        /\ call'[c].pc = "save" /\ call'[c].kind = "manual" /\ call'[c].amount = amount
        /\ call'[c].read = invoice /\ call'[c].new = new
        /\ call'[c].todo = <<>> /\ call'[c].tran = {}
    BY <1>4, <1>5, <1>6, BeginDoes
  <1>. QED  BY <1>1, <1>4, <1>5, <1>7

LEMMA StatusDoes ==
    ASSUME PaymentTypeOK, Balanced, NEW c \in Calls, NEW status \in Statuses,
           UpdateInvoiceStatus(c, status)
    PROVE  /\ call' \in [Calls -> CallStates]
           /\ \A d \in Calls : d # c => call'[d] = call[d]
           /\ call[c].pc = "idle" /\ call'[c].pc = "save" /\ call'[c].kind = "status"
           /\ call'[c].tran = {} /\ call'[c].todo = <<>> /\ call'[c].read = invoice
           /\ call'[c].new \in Invoice /\ IsDoc(call'[c].new)
           /\ status # "PAID" => call'[c].new.credit \in {0, invoice.credit}
  <1>. DEFINE new == CASE status = "PAID" -> Doc("PAID", Total)
                       [] status = "UNPAID" -> Doc("UNPAID", 0)
                       [] OTHER -> Doc(status, invoice.credit)
              next == [Idle EXCEPT !.kind = "status", !.pc = "save", !.read = invoice, !.new = new]
  <1>1. invoice \in Invoice /\ invoice.credit \in 0..Total
    BY RecordTypes DEF Invoice
  <1>2. new \in {Doc("PAID", Total), Doc("UNPAID", 0), Doc(status, invoice.credit)}
    OBVIOUS
  <1>3. status # "PAID" => new \in {Doc("UNPAID", 0), Doc(status, invoice.credit)}
    OBVIOUS
  <1>4. call[c].pc = "idle" /\ call' = [call EXCEPT ![c] = next]
    BY DEF UpdateInvoiceStatus
  <1>. HIDE DEF new
  <1>5. /\ "PAID" \in Statuses /\ "UNPAID" \in Statuses /\ Total \in 0..Total
        /\ 0 \in 0..Total /\ "status" \in Kinds /\ "save" \in Pcs
    BY DEF Statuses, Kinds, Pcs
  <1>6. new \in Invoice /\ IsDoc(new)
    BY <1>1, <1>2, <1>5, DocType
  <1>7. status # "PAID" => new.credit \in {0, invoice.credit}
    BY <1>1, <1>3, <1>5, DocType
  <1>8. ASSUME NEW r \in CallStates, NEW k \in Kinds, NEW pc \in Pcs,
               NEW d \in Invoice, NEW e \in Invoice
        PROVE  [r EXCEPT !.kind = k, !.pc = pc, !.read = d, !.new = e] \in CallStates
    BY DEF CallStates
  <1>9. next \in CallStates
    BY <1>1, <1>5, <1>6, <1>8, IdleType
  <1>10. /\ next.kind = "status" /\ next.pc = "save" /\ next.read = invoice
         /\ next.new = new /\ next.todo = <<>> /\ next.tran = {}
    BY DEF Idle
  <1>. HIDE DEF next
  <1>11. /\ call' \in [Calls -> CallStates] /\ call'[c] = next
         /\ \A d \in Calls : d # c => call'[d] = call[d]
    BY <1>4, <1>9, CallPut
  <1>. QED  BY <1>4, <1>6, <1>7, <1>10, <1>11

-----------------------------------------------------------------------------
(* What a step of one request has to show for each part of the invariant *)

LEMMA RequestsKept ==
    ASSUME Requests, NEW c \in Calls,
           \A d \in Calls : d # c => call'[d] = call[d],
           history.admin \subseteq history'.admin,
           CallbackIs(c)', ManualIs(c)', StatusIs(c)', IdleIs(c)'
    PROVE  Requests'
  <1>1. ASSUME NEW d \in Calls, d # c
        PROVE  CallbackIs(d)' /\ ManualIs(d)' /\ StatusIs(d)' /\ IdleIs(d)'
    <2>1. call'[d] = call[d]
      BY <1>1
    <2>2. CallbackIs(d) /\ ManualIs(d) /\ StatusIs(d) /\ IdleIs(d)
      BY DEF Requests
    <2>3. CallbackIs(d)'
      BY <2>1, <2>2 DEF CallbackIs, Matches
    <2>4. ManualIs(d)'
      BY <2>1, <2>2 DEF ManualIs
    <2>5. StatusIs(d)'
      BY <2>1, <2>2 DEF StatusIs
    <2>6. IdleIs(d)'
      BY <2>1, <2>2 DEF IdleIs
    <2>. QED  BY <2>3, <2>4, <2>5, <2>6
  <1>. QED  BY <1>1 DEF Requests

LEMMA BalancedKept ==
    ASSUME Balanced, NEW c \in Calls,
           \A d \in Calls : d # c => call'[d] = call[d],
           IsDoc(invoice)', IsDoc(call[c].read)', IsDoc(call[c].new)'
    PROVE  Balanced'
  BY DEF Balanced, IsDoc

\* A request that goes on in history: paid stays, and somebody follows up.
LEMMA FollowedKept ==
    ASSUME Followed, NEW c \in Calls, OthersKept(c), Follows(c)',
           history.paid => history'.paid,
           order' = "PROCESSING" => history'.paid,
           history'.paid /\ history'.faults = 0 =>
               \/ Following(c)' \/ ran'[c] = Components
               \/ /\ history.paid /\ history.faults = 0
                  /\ ~Following(c) /\ ran[c] # Components
    PROVE  Followed'
  <1>1. ASSUME NEW d \in Calls, d # c PROVE Follows(d)'
    <2>1. call'[d] = call[d] /\ recorded'[d] = recorded[d] /\ ran'[d] = ran[d]
      BY <1>1 DEF OthersKept
    <2>2. Follows(d)
      BY DEF Followed
    <2>. QED  BY <2>1, <2>2 DEF Follows, Following, Entries
  <1>2. ASSUME history'.paid, history'.faults = 0
        PROVE  \E d \in Calls : Following(d)' \/ ran'[d] = Components
    <2>1. CASE Following(c)' \/ ran'[c] = Components
      BY <2>1
    <2>2. CASE history.paid /\ history.faults = 0 /\ ~Following(c) /\ ran[c] # Components
      <3>1. PICK d \in Calls : Following(d) \/ ran[d] = Components
        BY <2>2 DEF Followed
      <3>2. d # c
        BY <2>2, <3>1
      <3>3. call'[d] = call[d] /\ ran'[d] = ran[d]
        BY <3>2 DEF OthersKept
      <3>4. Following(d)' \/ ran'[d] = Components
        BY <3>1, <3>3 DEF Following
      <3>. QED  BY <3>4
    <2>. QED  BY <1>2, <2>1, <2>2
  <1>. QED  BY <1>1, <1>2 DEF Followed

\* Gateway sessions do not change once they are open.
LEMMA SessionsKept ==
    ASSUME SessionsCharge, NEW c \in Calls, session' = session,
           \A d \in Calls : d # c => call'[d] = call[d],
           call'[c].kind = "callback" =>
               \/ /\ call[c].kind = "callback" /\ call'[c].tran = call[c].tran
                  /\ call'[c].amount = call[c].amount
               \/ \E t \in Transactions :
                     /\ call'[c].tran = {t} /\ call'[c].amount = session[t].amount
                     /\ session[t].state # "none"
    PROVE  SessionsCharge'
  <1>1. ASSUME NEW d \in Calls, call'[d].kind = "callback"
        PROVE  \E t \in Transactions :
                  /\ call'[d].tran = {t} /\ call'[d].amount = session'[t].amount
                  /\ session'[t].state # "none"
    <2>1. CASE d = c
      BY <1>1, <2>1 DEF SessionsCharge
    <2>2. CASE d # c
      BY <1>1, <2>2 DEF SessionsCharge
    <2>. QED  BY <2>1, <2>2
  <1>. QED  BY <1>1 DEF SessionsCharge

LEMMA CrossingsKept ==
    ASSUME PaymentTypeOK, Crossings, NEW c \in Calls, OthersKept(c),
           history.crossed \subseteq history'.crossed,
           history.overlap => history'.overlap,
           ~history'.overlap => history'.crossed = history.crossed
                                /\ history'.again = history.again,
           history'.again \subseteq history.again \cup {c},
           c \in history'.again => call'[c].kind = "callback" /\ recorded'[c] > 0,
           Passed(c)' =>
               /\ call'[c].tran = call[c].tran
               /\ \/ Passed(c)
                  \/ \A d \in Calls : d # c /\ Passed(d) /\ call[d].tran = call[c].tran =>
                         {c, d} \in history'.crossed
    PROVE  Crossings'
  <1>1. \A d \in Calls : d # c => /\ call'[d] = call[d] /\ recorded'[d] = recorded[d]
    BY DEF OthersKept
  <1>a. ASSUME NEW d \in Calls, d # c PROVE Passed(d)' <=> Passed(d)
    BY <1>1, <1>a DEF Passed
  <1>2. ASSUME NEW d \in Calls, d # c, Passed(c)', Passed(d)', call'[c].tran = call'[d].tran
        PROVE  {c, d} \in history'.crossed
    <2>1. Passed(d) /\ call[d].tran = call[c].tran
      BY <1>1, <1>2, <1>a
    <2>2. CASE Passed(c)
      BY <1>2, <2>1, <2>2 DEF Crossings
    <2>. QED  BY <1>2, <2>1, <2>2
  <1>3. ASSUME NEW d \in Calls, NEW e \in Calls, d # e, Passed(d)', Passed(e)',
               call'[d].tran = call'[e].tran
        PROVE  {d, e} \in history'.crossed
    <2>1. CASE d = c
      BY <1>2, <1>3, <2>1
    <2>2. CASE e = c
      <3>1. {d, e} = {c, d}
        BY <2>2
      <3>. QED  BY <1>2, <1>3, <2>2, <3>1
    <2>3. CASE d # c /\ e # c
      <3>1. Passed(d) /\ Passed(e) /\ call[d].tran = call[e].tran
        BY <1>1, <1>3, <1>a, <2>3
      <3>. QED  BY <1>3, <3>1 DEF Crossings
    <2>. QED  BY <2>1, <2>2, <2>3
  <1>4. ASSUME NEW d \in history'.again
        PROVE  call'[d].kind = "callback" /\ recorded'[d] > 0
    <2>1. CASE d # c
      <3>1. d \in history.again /\ history.again \subseteq Calls
        BY <2>1, RecordTypes DEF Histories
      <3>2. d \in Calls
        BY <3>1
      <3>. QED  BY <1>1, <2>1, <3>1, <3>2 DEF Crossings
    <2>. QED  BY <1>4, <2>1
  <1>5. ~history'.overlap => history'.crossed = {} /\ history'.again = {}
    BY DEF Crossings
  <1>. QED  BY <1>3, <1>4, <1>5 DEF Crossings

\* What a request has added to the sums
At(c) == recorded[c] + InFlight[c]

LEMMA SumsAreNumbers ==
    ASSUME PaymentTypeOK
    PROVE  /\ RecordedSum \in Nat /\ InFlightSum \in Nat
           /\ \A c \in Calls : /\ recorded[c] \in Nat /\ InFlight[c] \in Nat
                               /\ InFlight[c] = IF call[c].pc = "record"
                                                THEN call[c].amount ELSE 0
  <1>1. recorded \in [Calls -> Nat]
    BY RecordTypes
  <1>2. \A c \in Calls : call[c].amount \in Nat
    BY RecordTypes DEF CallStates
  <1>3. InFlight \in [Calls -> Nat]
    BY <1>2 DEF InFlight
  <1>4. RecordedSum \in Nat
    BY <1>1, SumIsNumber DEF RecordedSum
  <1>5. InFlightSum \in Nat
    BY <1>3, SumIsNumber DEF InFlightSum
  <1>. QED  BY <1>1, <1>3, <1>4, <1>5 DEF InFlight

LEMMA SumsMove ==
    ASSUME PaymentTypeOK, PaymentTypeOK', NEW c \in Calls, OthersKept(c)
    PROVE  /\ RecordedSum \in Nat /\ InFlightSum \in Nat
           /\ RecordedSum' \in Nat /\ InFlightSum' \in Nat
           /\ At(c) \in Nat /\ At(c)' \in Nat
           /\ RecordedSum' + InFlightSum' = RecordedSum + InFlightSum - At(c) + At(c)'
  <1>1. recorded \in [Calls -> Nat] /\ recorded' \in [Calls -> Nat]
    BY RecordTypes, TypesAfter
  <1>2. \A d \in Calls : call[d].amount \in Nat /\ call'[d].amount \in Nat
    <2>1. \A d \in Calls : call[d] \in CallStates /\ call'[d] \in CallStates
      BY RecordTypes, TypesAfter
    <2>. QED  BY <2>1 DEF CallStates
  <1>3. InFlight \in [Calls -> Nat] /\ InFlight' \in [Calls -> Nat]
    BY <1>2 DEF InFlight
  <1>4. \A d \in Calls : d # c => recorded'[d] = recorded[d]
    BY DEF OthersKept
  <1>5. \A d \in Calls : d # c => InFlight'[d] = InFlight[d]
    BY DEF OthersKept, InFlight
  <1>6. SumFunction(recorded') = SumFunction(recorded) - recorded[c] + recorded'[c]
    BY <1>1, <1>4, SumChanges
  <1>7. SumFunction(InFlight') = SumFunction(InFlight) - InFlight[c] + InFlight'[c]
    BY <1>3, <1>5, SumChanges
  <1>8. RecordedSum' = SumFunction(recorded') /\ InFlightSum' = SumFunction(InFlight')
    BY DEF RecordedSum, InFlightSum
  <1>9. /\ SumFunction(recorded) \in Nat /\ SumFunction(InFlight) \in Nat
        /\ SumFunction(recorded') \in Nat /\ SumFunction(InFlight') \in Nat
    BY <1>1, <1>3, SumIsNumber
  <1>10. /\ recorded[c] \in Nat /\ InFlight[c] \in Nat
         /\ recorded'[c] \in Nat /\ InFlight'[c] \in Nat
    BY <1>1, <1>3
  <1>. QED  BY <1>6, <1>7, <1>8, <1>9, <1>10 DEF At, RecordedSum, InFlightSum

\* The same of the money taken, where a transaction counts once
Worth(c) == Taken[c] + InFlight[c]

LEMMA WorthIs ==
    ASSUME PaymentTypeOK, PaymentTypeOK', NEW c \in Calls
    PROVE  /\ Worth(c) = (IF c \in history.again THEN 0 ELSE recorded[c])
                          + (IF call[c].pc = "record" THEN call[c].amount ELSE 0)
           /\ Worth(c)' = (IF c \in history'.again THEN 0 ELSE recorded'[c])
                           + (IF call'[c].pc = "record" THEN call'[c].amount ELSE 0)
           /\ recorded[c] \in Nat /\ recorded'[c] \in Nat
           /\ call[c].amount \in Nat /\ call'[c].amount \in Nat
  <1>1. call[c] \in CallStates /\ call'[c] \in CallStates
    BY RecordTypes, TypesAfter
  <1>2. recorded[c] \in Nat /\ recorded'[c] \in Nat
    BY RecordTypes, TypesAfter
  <1>3. call[c].amount \in Nat /\ call'[c].amount \in Nat
    BY <1>1 DEF CallStates
  <1>. QED  BY <1>2, <1>3 DEF Worth, Taken, InFlight

LEMMA BackingMoves ==
    ASSUME PaymentTypeOK, PaymentTypeOK', NEW c \in Calls, OthersKept(c),
           history.again \subseteq history'.again, history'.again \subseteq history.again \cup {c},
           Worth(c) + history.lost <= Worth(c)' + history'.lost
    PROVE  /\ Backing \in Nat /\ Backing' \in Nat /\ Backing <= Backing'
           /\ Worth(c) + history.lost \in Nat /\ Worth(c)' + history'.lost \in Nat
           /\ Backing' = Backing + ((Worth(c)' + history'.lost) - (Worth(c) + history.lost))
  <1>1. \A d \in Calls : /\ recorded[d] \in Nat /\ recorded'[d] \in Nat
                         /\ call[d].amount \in Nat /\ call'[d].amount \in Nat
    BY WorthIs
  <1>2. /\ Taken \in [Calls -> Nat] /\ Taken' \in [Calls -> Nat]
        /\ InFlight \in [Calls -> Nat] /\ InFlight' \in [Calls -> Nat]
    BY <1>1 DEF Taken, InFlight
  <1>3. \A d \in Calls : d # c => Taken'[d] = Taken[d] /\ InFlight'[d] = InFlight[d]
    BY DEF OthersKept, Taken, InFlight
  <1>4. SumFunction(Taken') = SumFunction(Taken) - Taken[c] + Taken'[c]
    BY <1>2, <1>3, SumChanges
  <1>5. SumFunction(InFlight') = SumFunction(InFlight) - InFlight[c] + InFlight'[c]
    BY <1>2, <1>3, SumChanges
  <1>6. /\ SumFunction(Taken) \in Nat /\ SumFunction(InFlight) \in Nat
        /\ SumFunction(Taken') \in Nat /\ SumFunction(InFlight') \in Nat
    BY <1>2, SumIsNumber
  <1>7. /\ Taken[c] \in Nat /\ InFlight[c] \in Nat /\ Taken'[c] \in Nat /\ InFlight'[c] \in Nat
        /\ Worth(c) = Taken[c] + InFlight[c] /\ Worth(c)' = Taken'[c] + InFlight'[c]
    BY <1>2 DEF Worth
  <1>8. history.lost \in Nat /\ history'.lost \in Nat
    BY RecordTypes, TypesAfter DEF Histories
  <1>9. /\ Backing = (SumFunction(Taken) + SumFunction(InFlight)) + history.lost
        /\ Backing' = (SumFunction(Taken') + SumFunction(InFlight')) + history'.lost
    BY DEF Backing, TakenSum, InFlightSum
  <1>10. /\ Backing \in Nat /\ Backing' \in Nat
         /\ Worth(c) + history.lost \in Nat /\ Worth(c)' + history'.lost \in Nat
    BY <1>6, <1>7, <1>8, <1>9
  <1>11. Backing' = Backing - (Worth(c) + history.lost) + (Worth(c)' + history'.lost)
    BY <1>4, <1>5, <1>6, <1>7, <1>8, <1>9
  <1>. QED  BY <1>10, <1>11

\* Sums are as before when the request adds what it added.
LEMMA BackedMoves ==
    ASSUME PaymentTypeOK, PaymentTypeOK', Backed, NEW c \in Calls, OthersKept(c),
           history.admin \subseteq history'.admin,
           history.again \subseteq history'.again, history'.again \subseteq history.again \cup {c},
           Worth(c) + history.lost <= Worth(c)' + history'.lost,
           "PAID" \notin history'.admin =>
               /\ \/ invoice'.credit <= invoice.credit
                  \/ invoice'.credit <= Backing
                  \/ /\ c \in Changing
                     /\ invoice'.credit = call[c].read.credit
                            + ((Worth(c)' + history'.lost) - (Worth(c) + history.lost))
               /\ \/ call'[c].read = call[c].read \/ call'[c].read = Fresh
                  \/ call'[c].read = invoice
               /\ Counted'
    PROVE  Backed'
  <1>1. /\ Backing \in Nat /\ Backing' \in Nat /\ Backing <= Backing'
        /\ Backing' = Backing + ((Worth(c)' + history'.lost) - (Worth(c) + history.lost))
        /\ Worth(c) + history.lost \in Nat /\ Worth(c)' + history'.lost \in Nat
    BY BackingMoves
  <1>2. /\ invoice \in Invoice /\ invoice' \in Invoice /\ Fresh.credit = 0
        /\ \A d \in Calls : call[d].read \in Invoice
    BY RecordTypes, TypesAfter, DocType DEF CallStates
  <1>3. /\ invoice.credit \in Nat /\ invoice'.credit \in Nat
        /\ \A d \in Calls : call[d].read.credit \in Nat
    BY <1>2 DEF Invoice
  <1>. SUFFICES ASSUME "PAID" \notin history'.admin
                PROVE  /\ invoice'.credit <= Backing'
                       /\ \A d \in Calls : call'[d].read.credit <= Backing'
    BY DEF Backed
  <1>4. invoice.credit <= Backing /\ \A d \in Calls : call[d].read.credit <= Backing
    BY DEF Backed
  <1>5. invoice'.credit <= Backing'
    BY <1>1, <1>3, <1>4
  <1>6. ASSUME NEW d \in Calls PROVE call'[d].read.credit <= Backing'
    <2>1. \/ call'[d].read = call[d].read \/ call'[d].read = Fresh \/ call'[d].read = invoice
      BY DEF OthersKept
    <2>. QED  BY <1>1, <1>2, <1>3, <1>4, <2>1
  <1>. QED  BY <1>5, <1>6

\* A step that records no transaction, and sends no callback on that did not
\* look whether its transaction is recorded
Unrecording(c) ==
    /\ recorded'[c] > 0 /\ call'[c].tran # {} =>
          recorded[c] > 0 /\ call'[c].tran = call[c].tran
    /\ call'[c].pc \in {"write", "insert"} =>
          /\ call'[c].tran = call[c].tran /\ call[c].tran # {}
          /\ call'[c].amount = call[c].amount /\ call'[c].read = call[c].read
          /\ call[c].pc \in {"write", "insert"} \/ ~Processed(c)

LEMMA CountedKept ==
    ASSUME PaymentTypeOK, Counted, NEW c \in Calls, OthersKept(c), Unrecording(c),
           Backing \in Nat, Backing' \in Nat, Backing <= Backing',
           \A d \in Calls : call[d].pc \in {"write", "insert"} => call[d].tran # {}
    PROVE  Counted'
  <1>. SUFFICES ASSUME NEW d \in Calls, call'[d].pc \in {"write", "insert"}, Processed(d)'
                PROVE  call'[d].read.credit + call'[d].amount <= Backing'
    BY DEF Counted
  <1>1. /\ call'[d].tran = call[d].tran /\ call[d].tran # {}
        /\ call'[d].amount = call[d].amount /\ call'[d].read = call[d].read
        /\ call[d].pc \in {"write", "insert"} \/ ~Processed(d)
    BY DEF OthersKept, Unrecording
  <1>2. Processed(d)
    <2>1. PICK e \in Calls : recorded'[e] > 0 /\ call'[e].tran = call'[d].tran
      BY DEF Processed
    <2>2. recorded[e] > 0 /\ call[e].tran = call[d].tran
      BY <1>1, <2>1 DEF OthersKept, Unrecording
    <2>. QED  BY <2>2 DEF Processed
  <1>3. call[d].read.credit + call[d].amount <= Backing
    BY <1>1, <1>2 DEF Counted
  <1>4. call[d].read.credit \in Nat /\ call[d].amount \in Nat
    <2>1. call[d].read \in Invoice /\ call[d].amount \in Nat
      BY RecordTypes DEF CallStates
    <2>. QED  BY <2>1 DEF Invoice
  <1>. QED  BY <1>1, <1>3, <1>4

LEMMA AloneKept ==
    ASSUME Alone, NEW c \in Calls,
           \A d \in Calls : d # c => call'[d] = call[d],
           history.overlap => history'.overlap,
           c \in Changing' =>
               /\ invoice' = invoice
               /\ \/ c \in Changing /\ call'[c].read = call[c].read
                  \/ call'[c].read = invoice /\ (history'.overlap \/ Changing = {}),
           invoice' # invoice => c \in Changing
    PROVE  Alone'
  <1>. SUFFICES ASSUME ~history'.overlap, NEW d \in Changing'
                PROVE  call'[d].read = invoice' /\ Changing' = {d}
    BY DEF Alone
  <1>1. \A e \in Changing : call[e].read = invoice /\ Changing = {e}
    BY DEF Alone
  <1>2. \A e \in Calls : e # c => (e \in Changing' <=> e \in Changing)
    BY DEF Changing
  <1>3. Changing \subseteq Calls /\ Changing' \subseteq Calls
    BY DEF Changing
  <1>4. CASE d = c
    <2>1. CASE c \in Changing /\ call'[c].read = call[c].read
      BY <1>1, <1>2, <1>3, <1>4, <2>1
    <2>2. CASE call'[c].read = invoice /\ Changing = {}
      BY <1>2, <1>3, <1>4, <2>2
    <2>. QED  BY <1>4, <2>1, <2>2
  <1>5. CASE d # c
    <2>1. d \in Changing /\ Changing = {d} /\ call[d].read = invoice
      BY <1>1, <1>2, <1>3, <1>5
    <2>2. c \notin Changing /\ invoice' = invoice /\ c \notin Changing'
      BY <1>5, <2>1
    <2>3. call'[d].read = call[d].read
      BY <1>3, <1>5
    <2>. QED  BY <1>2, <1>3, <2>1, <2>2, <2>3
  <1>. QED  BY <1>4, <1>5

LEMMA ExactKept ==
    ASSUME PaymentTypeOK, PaymentTypeOK', Exact, NEW c \in Calls, OthersKept(c),
           history.overlap => history'.overlap, history.admin \subseteq history'.admin,
           history.lost <= history'.lost,
           ~history'.overlap /\ history'.admin = {} /\ history'.lost = 0 =>
               \/ invoice' = invoice /\ At(c)' = At(c)
               \/ /\ invoice'.credit = invoice.credit + (At(c)' - At(c))
                  /\ invoice'.status = "PAID" <=> invoice'.balanceDue = 0
    PROVE  Exact'
  <1>1. /\ RecordedSum \in Nat /\ InFlightSum \in Nat
           /\ RecordedSum' \in Nat /\ InFlightSum' \in Nat
        /\ At(c) \in Nat /\ At(c)' \in Nat
        /\ RecordedSum' + InFlightSum' = RecordedSum + InFlightSum - At(c) + At(c)'
    BY SumsMove
  <1>2. history.lost \in Nat /\ history'.lost \in Nat
    BY RecordTypes, TypesAfter DEF Histories
  <1>. SUFFICES ASSUME ~history'.overlap, history'.admin = {}, history'.lost = 0
                PROVE  /\ invoice'.credit = RecordedSum' + InFlightSum'
                       /\ invoice'.status = "PAID" <=> invoice'.balanceDue = 0
    BY DEF Exact
  <1>3. history.lost = 0 /\ ~history.overlap /\ history.admin = {}
    BY <1>2
  <1>4. /\ invoice.credit = RecordedSum + InFlightSum
        /\ invoice.status = "PAID" <=> invoice.balanceDue = 0
    BY <1>3 DEF Exact
  <1>5. CASE invoice' = invoice /\ At(c)' = At(c)
    BY <1>1, <1>4, <1>5
  <1>6. CASE /\ invoice'.credit = invoice.credit + (At(c)' - At(c))
             /\ invoice'.status = "PAID" <=> invoice'.balanceDue = 0
    BY <1>1, <1>4, <1>6
  <1>. QED  BY <1>5, <1>6

LEMMA AtIs ==
    ASSUME PaymentTypeOK, PaymentTypeOK', NEW c \in Calls
    PROVE  /\ At(c) = recorded[c] + (IF call[c].pc = "record" THEN call[c].amount ELSE 0)
           /\ At(c)' = recorded'[c] + (IF call'[c].pc = "record" THEN call'[c].amount ELSE 0)
           /\ recorded[c] \in Nat /\ recorded'[c] \in Nat
           /\ call[c].amount \in Nat /\ call'[c].amount \in Nat
  <1>1. call[c] \in CallStates /\ call'[c] \in CallStates
    BY RecordTypes, TypesAfter
  <1>2. recorded[c] \in Nat /\ recorded'[c] \in Nat
    BY RecordTypes, TypesAfter
  <1>3. call[c].amount \in Nat /\ call'[c].amount \in Nat
    BY <1>1 DEF CallStates
  <1>. QED  BY <1>2, <1>3 DEF At, InFlight

\* What a request is, by where it stands
LEMMA KindByPc ==
    ASSUME PaymentTypeOK, Requests, Followed, NEW c \in Calls
    PROVE  /\ call[c].pc \in {"read", "check", "write", "insert"} => call[c].kind = "callback"
           /\ call[c].pc = "record" => call[c].kind = "manual"
           /\ call[c].pc = "save" => call[c].kind \in {"manual", "status"}
           /\ call[c].kind = "none" <=> call[c].pc = "idle"
           /\ call[c].pc \notin {"fanout", "done"} => recorded[c] = 0 /\ ran[c] = {}
           /\ call[c].pc \notin {"record", "fanout"} => ~Following(c)
           /\ ran[c] \in SUBSET Components /\ recorded[c] \in 0..Total
  <1>1. call[c] \in CallStates /\ ran[c] \in SUBSET Components /\ recorded[c] \in 0..Total
    BY RecordTypes
  <1>2. call[c].kind \in Kinds
    BY <1>1 DEF CallStates
  <1>3. CallbackIs(c) /\ ManualIs(c) /\ StatusIs(c) /\ IdleIs(c) /\ Follows(c)
    BY DEF Requests, Followed
  <1>4. /\ call[c].kind = "callback" => call[c].pc \notin {"record", "save", "idle"}
        /\ call[c].kind = "manual" =>
              call[c].pc \notin {"read", "check", "write", "insert", "idle"}
        /\ call[c].kind = "status" =>
              call[c].pc \notin {"read", "check", "write", "insert", "record", "idle"}
        /\ call[c].kind = "none" => call[c].pc = "idle"
    BY <1>3 DEF CallbackIs, ManualIs, StatusIs, IdleIs
  <1>5. /\ call[c].pc \notin {"fanout", "done"} => ran[c] = {} /\ ~(recorded[c] > 0)
        /\ call[c].pc \notin {"record", "fanout"} => ~Following(c)
    BY <1>3 DEF Follows
  <1>6. ~(recorded[c] > 0) => recorded[c] = 0
    BY <1>1
  <1>. QED  BY <1>1, <1>2, <1>4, <1>5, <1>6 DEF Kinds

LEMMA BackedKept ==
    ASSUME PayInv, PaymentTypeOK', NEW c \in Calls, OthersKept(c), Unrecording(c),
           history'.again = history.again,
           c \in history.again => recorded'[c] = recorded[c],
           history.admin \subseteq history'.admin,
           At(c) + history.lost <= At(c)' + history'.lost,
           "PAID" \notin history'.admin =>
               /\ \/ invoice'.credit <= invoice.credit
                  \/ /\ c \in Changing
                     /\ invoice'.credit = call[c].read.credit
                            + ((At(c)' + history'.lost) - (At(c) + history.lost))
               /\ \/ call'[c].read = call[c].read \/ call'[c].read = Fresh
                  \/ call'[c].read = invoice
    PROVE  Backed'
  <1>. USE DEF PayInv
  <1>1. /\ At(c) = recorded[c] + (IF call[c].pc = "record" THEN call[c].amount ELSE 0)
        /\ At(c)' = recorded'[c] + (IF call'[c].pc = "record" THEN call'[c].amount ELSE 0)
        /\ Worth(c) = (IF c \in history.again THEN 0 ELSE recorded[c])
                      + (IF call[c].pc = "record" THEN call[c].amount ELSE 0)
        /\ Worth(c)' = (IF c \in history'.again THEN 0 ELSE recorded'[c])
                       + (IF call'[c].pc = "record" THEN call'[c].amount ELSE 0)
        /\ recorded[c] \in Nat /\ recorded'[c] \in Nat
        /\ call[c].amount \in Nat /\ call'[c].amount \in Nat
    BY AtIs, WorthIs
  <1>2. history.lost \in Nat /\ history'.lost \in Nat
    BY RecordTypes, TypesAfter DEF Histories
  <1>3. \/ /\ At(c) = Worth(c) /\ At(c)' = Worth(c)'
        \/ /\ At(c) = Worth(c) + recorded[c] /\ At(c)' = Worth(c)' + recorded[c]
    <2>1. CASE c \in history.again
      BY <1>1, <2>1
    <2>2. CASE c \notin history.again
      BY <1>1, <2>2
    <2>. QED  BY <2>1, <2>2
  <1>4. Worth(c) \in Nat /\ Worth(c)' \in Nat
    BY <1>1
  <1>5. (Worth(c)' + history'.lost) - (Worth(c) + history.lost)
            = (At(c)' + history'.lost) - (At(c) + history.lost)
    BY <1>1, <1>2, <1>3, <1>4
  <1>6. Worth(c) + history.lost <= Worth(c)' + history'.lost
    BY <1>1, <1>2, <1>3, <1>4
  <1>7. Backing \in Nat /\ Backing' \in Nat /\ Backing <= Backing'
    BY <1>6, BackingMoves
  <1>8. \A d \in Calls : call[d].pc \in {"write", "insert"} => call[d].tran # {}
    BY KindByPc DEF Requests, CallbackIs
  <1>9. "PAID" \notin history'.admin => Counted'
    <2>1. "PAID" \notin history'.admin => Counted
      BY DEF Backed
    <2>. QED  BY <1>7, <1>8, <2>1, CountedKept
  <1>. QED  BY <1>5, <1>6, <1>9, BackedMoves

\* A step that only prepares: no component has been called and nothing is
\* recorded of this request yet.
LEMMA PreparingKeeps ==
    ASSUME PayInv, PaymentTypeOK', NEW c \in Calls,
           \A d \in Calls : d # c => call'[d] = call[d],
           UNCHANGED <<invoice, order, session, recorded, ran>>,
           call[c].pc \in {"idle", "read", "check", "write"},
           call'[c].pc \in {"read", "check", "write", "insert", "save"},
           call'[c].todo = <<>>,
           call'[c].read = invoice \/ call'[c].read = Fresh \/ call'[c].read = call[c].read,
           history'.paid = history.paid, history'.lost = history.lost,
           history'.faults = history.faults, history.overlap => history'.overlap,
           history.admin \subseteq history'.admin, history'.again = history.again,
           call'[c].kind = "callback" =>
               \/ /\ call[c].kind = "callback" /\ call'[c].tran = call[c].tran
                  /\ call'[c].amount = call[c].amount
               \/ \E t \in Transactions :
                     /\ call'[c].tran = {t} /\ call'[c].amount = session[t].amount
                     /\ session[t].state # "none",
           \/ /\ call'[c].pc \notin {"write", "insert"}
              /\ history'.crossed = history.crossed
           \/ /\ call[c].pc \in {"check", "write"}
              /\ call'[c].tran = call[c].tran /\ call'[c].amount = call[c].amount
              /\ call'[c].read = call[c].read
              /\ \/ call[c].pc = "write" /\ history'.crossed = history.crossed
                 \/ /\ ~Processed(c)
                    /\ history'.crossed = history.crossed \cup {{c, d} : d \in Racing(c)}
    PROVE  SessionsCharge' /\ Followed' /\ Crossings' /\ Backed' /\ Exact'
  <1>. USE DEF PayInv
  <1>1. recorded[c] = 0 /\ ran[c] = {} /\ ~Following(c)
    BY KindByPc
  <1>2. OthersKept(c)
    BY DEF OthersKept
  <1>3. SessionsCharge'
    BY SessionsKept
  <1>4. Followed'
    <2>1. Follows(c)'
      BY <1>1 DEF Follows, Following
    <2>2. order' = "PROCESSING" => history'.paid
      BY DEF Followed
    <2>3. ran[c] # Components
      BY <1>1 DEF Components
    <2>. QED  BY <1>1, <1>2, <2>1, <2>2, <2>3, FollowedKept
  <1>5. Crossings'
    <2>1. CASE /\ call'[c].pc \notin {"write", "insert"}
               /\ history'.crossed = history.crossed
      <3>1. ~Passed(c)'
        BY <1>1, <2>1 DEF Passed
      <3>2. c \notin history'.again
        BY <1>1 DEF Crossings
      <3>. QED  BY <1>2, <2>1, <3>1, <3>2, CrossingsKept
    <2>2. CASE /\ call[c].pc = "write" /\ call'[c].tran = call[c].tran
               /\ history'.crossed = history.crossed
      <3>1. Passed(c)
        BY <2>2, KindByPc DEF Passed
      <3>2. c \notin history'.again
        BY <1>1 DEF Crossings
      <3>. QED  BY <1>2, <2>2, <3>1, <3>2, CrossingsKept
    <2>3. CASE /\ call[c].pc \in {"check", "write"} /\ call'[c].tran = call[c].tran
               /\ ~Processed(c)
               /\ history'.crossed = history.crossed \cup {{c, d} : d \in Racing(c)}
      <3>1. ASSUME NEW d \in Calls, d # c, Passed(d), call[d].tran = call[c].tran
            PROVE  {c, d} \in history'.crossed
        <4>1. ~(recorded[d] > 0)
          BY <2>3, <3>1 DEF Processed
        <4>2. d \in Racing(c)
          BY <3>1, <4>1 DEF Passed, Racing
        <4>. QED  BY <2>3, <4>2
      <3>2. ~history'.overlap => history'.crossed = history.crossed
        <4>1. SUFFICES ASSUME ~history.overlap PROVE Racing(c) = {}
          BY <2>3
        <4>2. Changing = {c}
          BY <2>3, <4>1 DEF Alone, Changing
        <4>3. \A d \in Racing(c) : d \in Changing /\ d # c
          BY DEF Racing, Changing
        <4>. QED  BY <4>2, <4>3
      <3>3. c \notin history'.again
        BY <1>1 DEF Crossings
      <3>. QED  BY <1>2, <2>3, <3>1, <3>2, <3>3, CrossingsKept
    <2>. QED  BY <2>1, <2>2, <2>3
  <1>6. At(c)' = At(c) /\ At(c) = 0
    <2>1. call[c].pc # "record" /\ call'[c].pc # "record" /\ recorded'[c] = 0
      BY <1>1
    <2>2. At(c) = 0
      <3>1. At(c) = recorded[c] + (IF call[c].pc = "record" THEN call[c].amount ELSE 0)
        BY AtIs
      <3>. QED  BY <1>1, <2>1, <3>1
    <2>3. At(c)' = 0
      BY <2>1, AtIs
    <2>. QED  BY <2>2, <2>3
  <1>7. invoice \in Invoice /\ history.lost \in Nat
    BY RecordTypes DEF Histories
  <1>8. Backed'
    <2>1. call[c].pc \in {"check", "write"} => call[c].tran # {}
      BY KindByPc DEF Requests, CallbackIs
    <2>2. Unrecording(c)
      <3>1. ~(recorded'[c] > 0)
        BY <1>1
      <3>. QED  BY <2>1, <3>1 DEF Unrecording
    <2>3. invoice'.credit <= invoice.credit
      BY <1>7 DEF Invoice
    <2>4. At(c) + history.lost <= At(c)' + history'.lost
      BY <1>6, <1>7
    <2>. QED  BY <1>2, <2>2, <2>3, <2>4, BackedKept
  <1>9. Exact'
    BY <1>2, <1>6, <1>7, ExactKept
  <1>. QED  BY <1>3, <1>4, <1>5, <1>8, <1>9

\* A request that ends keeps what holds of requests, whatever it wrote.
LEMMA ReturnKeeps ==
    ASSUME PayInv, NEW c \in Calls, Return(c), call[c].pc # "idle",
           session' = session, IsDoc(invoice)',
           history'.overlap = history.overlap, history'.admin = history.admin,
           invoice' # invoice => c \in Changing
    PROVE  SessionsCharge' /\ Balanced' /\ Requests' /\ Alone'
  <1>. USE DEF PayInv
  <1>1. /\ \A d \in Calls : d # c => call'[d] = call[d]
        /\ call'[c].pc = "done" /\ call'[c].todo = <<>>
        /\ call'[c].read = Fresh /\ call'[c].new = Fresh
        /\ call'[c].kind = call[c].kind /\ call'[c].tran = call[c].tran
        /\ call'[c].amount = call[c].amount
    BY ReturnDoes
  <1>2. SessionsCharge'
    BY <1>1, SessionsKept
  <1>3. Balanced'
    <2>1. IsDoc(call[c].read)' /\ IsDoc(call[c].new)'
      BY <1>1, DocType DEF IsDoc
    <2>. QED  BY <1>1, <2>1, BalancedKept
  <1>4. Requests'
    <2>1. CallbackIs(c) /\ ManualIs(c) /\ StatusIs(c) /\ call[c].kind # "none"
      BY KindByPc DEF Requests
    <2>2. CallbackIs(c)'
      BY <1>1, <2>1 DEF CallbackIs
    <2>3. ManualIs(c)'
      BY <1>1, <2>1 DEF ManualIs
    <2>4. StatusIs(c)'
      BY <1>1, <2>1, DocType DEF StatusIs
    <2>5. IdleIs(c)'
      BY <1>1, <2>1 DEF IdleIs
    <2>. QED  BY <1>1, <2>2, <2>3, <2>4, <2>5, RequestsKept
  <1>5. Alone'
    <2>1. c \notin Changing'
      BY <1>1 DEF Changing
    <2>. QED  BY <1>1, <2>1, AloneKept
  <1>. QED  BY <1>2, <1>3, <1>4, <1>5

\* A request that ends before it wrote anything, or that fails: what it saved
\* and did not record counts as lost.
LEMMA QuietReturn ==
    ASSUME PayInv, PaymentTypeOK', NEW c \in Calls, Return(c), call[c].pc # "idle",
           UNCHANGED <<invoice, order, session, recorded, ran>>,
           history'.paid = history.paid, history'.overlap = history.overlap,
           history'.admin = history.admin, history'.faults >= history.faults,
           history'.again = history.again, history'.crossed = history.crossed,
           history'.lost = IF call[c].pc = "record" THEN history.lost + call[c].amount
                           ELSE history.lost,
           Following(c) => history'.faults # 0
    PROVE  PayInv'
  <1>. USE DEF PayInv
  <1>1. /\ \A d \in Calls : d # c => call'[d] = call[d]
        /\ call'[c].pc = "done" /\ call'[c].todo = <<>>
        /\ call'[c].read = Fresh /\ call'[c].new = Fresh
        /\ call'[c].kind = call[c].kind /\ call'[c].tran = call[c].tran
        /\ call'[c].amount = call[c].amount
    BY ReturnDoes
  <1>2. OthersKept(c)
    BY <1>1 DEF OthersKept
  <1>3. invoice \in Invoice /\ history.lost \in Nat /\ history.faults \in Nat /\ IsDoc(invoice)
        /\ history'.faults \in Nat
    BY RecordTypes, TypesAfter DEF Histories, Balanced
  <1>4. SessionsCharge' /\ Balanced' /\ Requests' /\ Alone'
    <2>1. IsDoc(invoice)'
      BY <1>3 DEF IsDoc
    <2>. QED  BY <2>1, ReturnKeeps
  <1>5. Followed'
    <2>1. Follows(c) /\ (order' = "PROCESSING" => history'.paid)
      BY DEF Followed
    <2>2. Follows(c)'
      BY <1>1, <2>1 DEF Follows, Following
    <2>3. history'.faults = 0 => history.faults = 0 /\ ~Following(c)
      BY <1>3
    <2>. QED  BY <1>2, <2>1, <2>2, <2>3, FollowedKept
  <1>6. Crossings'
    <2>1. Passed(c)' => Passed(c)
      BY <1>1 DEF Passed
    <2>2. c \in history'.again => call'[c].kind = "callback" /\ recorded'[c] > 0
      BY <1>1 DEF Crossings
    <2>. QED  BY <1>1, <1>2, <2>1, <2>2, CrossingsKept
  <1>7. /\ At(c)' + history'.lost = At(c) + history.lost
        /\ history'.lost = 0 => At(c)' = At(c)
        /\ history.lost <= history'.lost /\ At(c) \in Nat
    <2>1. /\ recorded[c] \in Nat /\ recorded'[c] = recorded[c]
          /\ At(c)' = recorded[c] /\ call[c].amount \in Nat
      <3>1. At(c)' = recorded'[c] + (IF call'[c].pc = "record" THEN call'[c].amount ELSE 0)
        BY AtIs
      <3>2. recorded[c] \in Nat /\ recorded'[c] = recorded[c] /\ call[c].amount \in Nat
        BY AtIs
      <3>. QED  BY <1>1, <3>1, <3>2
    <2>2. At(c) = recorded[c] + (IF call[c].pc = "record" THEN call[c].amount ELSE 0)
      BY AtIs
    <2>3. call[c].pc = "record" => call[c].amount > 0
      BY KindByPc DEF Requests, ManualIs
    <2>a. CASE call[c].pc = "record"
      BY <1>3, <2>1, <2>2, <2>3, <2>a
    <2>b. CASE call[c].pc # "record"
      BY <1>3, <2>1, <2>2, <2>b
    <2>. QED  BY <2>a, <2>b
  <1>8. Backed'
    <2>1. invoice'.credit <= invoice.credit
      BY <1>3 DEF Invoice
    <2>2. At(c) + history.lost <= At(c)' + history'.lost
      BY <1>3, <1>7
    <2>3. Unrecording(c)
      BY <1>1 DEF Unrecording
    <2>. QED  BY <1>1, <1>2, <2>1, <2>2, <2>3, BackedKept
  <1>9. Exact'
    BY <1>2, <1>7, ExactKept
  <1>. QED  BY <1>4, <1>5, <1>6, <1>8, <1>9

-----------------------------------------------------------------------------
(* Each action keeps the invariant *)

LEMMA PayInvoiceStep ==
    ASSUME PayInv, NEW t \in Transactions, PayInvoice(t) \/ GatewayCharges(t)
    PROVE  PayInv'
  <1>. USE DEF PayInv
  <1>1. UNCHANGED <<invoice, order, call, writer, recorded, ran, history>>
    BY DEF PayInvoice, GatewayCharges
  <1>2. session' \in [Transactions -> Sessions] /\ SessionsCharge'
    <2>1. session \in [Transactions -> Sessions] /\ invoice \in Invoice
      BY RecordTypes
    <2>2. CASE PayInvoice(t)
      <3>. DEFINE new == [state |-> "open", amount |-> invoice.balanceDue]
      <3>1. session' = [session EXCEPT ![t] = new] /\ invoice.balanceDue > 0
        BY <2>2 DEF PayInvoice
      <3>2. new \in Sessions
        BY <2>1 DEF Sessions, Invoice
      <3>3. new.amount = invoice.balanceDue
        OBVIOUS
      <3>. HIDE DEF new
      <3>4. session' \in [Transactions -> Sessions]
        BY <2>1, <3>1, <3>2
      <3>5. \A s \in Transactions : session'[s] = IF s = t THEN new ELSE session[s]
        BY <2>1, <3>1
      <3>6. session[t].state = "none" /\ new.state = "open"
        BY <2>2 DEF PayInvoice, new
      <3>. QED  BY <1>1, <3>1, <3>3, <3>4, <3>5, <3>6 DEF SessionsCharge
    <2>3. CASE GatewayCharges(t)
      <3>. DEFINE new == [session[t] EXCEPT !.state = "charged"]
      <3>1. session' = [session EXCEPT ![t] = new] /\ session[t].state = "open"
        BY <2>1, <2>3 DEF GatewayCharges
      <3>2. session[t] \in Sessions
        BY <2>1
      <3>3. new \in Sessions /\ new.amount = session[t].amount /\ new.state = "charged"
        BY <3>2 DEF Sessions
      <3>4. session[t].amount > 0
        BY <3>1 DEF SessionsCharge
      <3>. HIDE DEF new
      <3>5. session' \in [Transactions -> Sessions]
        BY <2>1, <3>1, <3>3
      <3>6. \A s \in Transactions : session'[s] = IF s = t THEN new ELSE session[s]
        BY <2>1, <3>1
      <3>. QED  BY <1>1, <3>3, <3>4, <3>5, <3>6 DEF SessionsCharge
    <2>. QED  BY <2>2, <2>3
  <1>3. PaymentTypeOK'
    BY <1>1, <1>2, RecordTypes, TypesAfter
  <1>4. Balanced' /\ Requests'
    BY <1>1 DEF Balanced, IsDoc, Requests, CallbackIs, ManualIs, StatusIs, IdleIs, Matches
  <1>5. Followed' /\ Crossings'
    <2>1. Followed'
      BY <1>1 DEF Followed, Follows, Following, Entries
    <2>2. Crossings'
      BY <1>1 DEF Crossings, Passed
    <2>. QED  BY <2>1, <2>2
  <1>6. RecordedSum' = RecordedSum /\ InFlightSum' = InFlightSum /\ TakenSum' = TakenSum
    BY <1>1 DEF RecordedSum, InFlightSum, InFlight, TakenSum, Taken
  <1>7. Backed' /\ Exact'
    BY <1>1, <1>6 DEF Backed, Backing, Counted, Processed, Exact
  <1>8. Alone'
    BY <1>1 DEF Alone, Changing
  <1>. QED  BY <1>2, <1>3, <1>4, <1>5, <1>7, <1>8

LEMMA CallbackStep ==
    ASSUME PayInv, NEW c \in Calls, NEW t \in Transactions, Callback(c, t)
    PROVE  PayInv'
  <1>. USE DEF PayInv
  <1>1. /\ call' \in [Calls -> CallStates]
        /\ \A d \in Calls : d # c => call'[d] = call[d]
        /\ call[c].pc = "idle" /\ session[t].state = "charged"
        /\ call'[c].kind = "callback" /\ call'[c].pc = "read" /\ call'[c].tran = {t}
        /\ call'[c].amount = session[t].amount /\ call'[c].todo = <<>>
        /\ call'[c].read = Fresh /\ call'[c].new = Fresh
    BY CallbackDoes
  <1>2. UNCHANGED <<invoice, order, session, writer, recorded, ran, history>>
    BY DEF Callback
  <1>3. PaymentTypeOK'
    BY <1>1, <1>2, RecordTypes, TypesAfter
  <1>4. SessionsCharge' /\ Followed' /\ Crossings' /\ Backed' /\ Exact'
    <2>1. \E s \in Transactions : /\ call'[c].tran = {s} /\ call'[c].amount = session[s].amount
                                  /\ session[s].state # "none"
      BY <1>1
    <2>. QED  BY <1>1, <1>2, <1>3, <2>1, PreparingKeeps
  <1>5. Balanced'
    <2>1. IsDoc(invoice)' /\ IsDoc(call[c].read)' /\ IsDoc(call[c].new)'
      BY <1>1, <1>2, DocType DEF IsDoc, Balanced
    <2>. QED  BY <1>1, <2>1, BalancedKept
  <1>6. Requests'
    <2>1. session[t].amount > 0
      BY <1>1 DEF SessionsCharge
    <2>2. CallbackIs(c)' /\ ManualIs(c)' /\ StatusIs(c)' /\ IdleIs(c)'
      BY <1>1, <2>1 DEF CallbackIs, ManualIs, StatusIs, IdleIs
    <2>. QED  BY <1>1, <1>2, <2>2, RequestsKept
  <1>7. Alone'
    <2>1. c \notin Changing'
      BY <1>1 DEF Changing
    <2>. QED  BY <1>1, <1>2, <2>1, AloneKept
  <1>. QED  BY <1>3, <1>4, <1>5, <1>6, <1>7

LEMMA ReadInvoiceStep ==
    ASSUME PayInv, NEW c \in Calls, ReadInvoice(c)
    PROVE  PayInv'
  <1>. USE DEF PayInv
  <1>1. /\ call' \in [Calls -> CallStates]
        /\ \A d \in Calls : d # c => call'[d] = call[d]
        /\ call[c].pc = "read" /\ call'[c].pc = "check"
        /\ call'[c].read = invoice /\ call'[c].new = Doc("PAID", Total)
        /\ call'[c].kind = call[c].kind /\ call'[c].tran = call[c].tran
        /\ call'[c].amount = call[c].amount /\ call'[c].todo = call[c].todo
    BY ReadDoes
  <1>2. /\ UNCHANGED <<invoice, order, session, writer, recorded, ran>>
        /\ history' = [history EXCEPT !.overlap = @ \/ Changing # {}]
    BY DEF ReadInvoice
  <1>3. /\ history' \in Histories /\ history'.paid = history.paid
        /\ history'.lost = history.lost /\ history'.faults = history.faults
        /\ history'.admin = history.admin
        /\ history'.again = history.again /\ history'.crossed = history.crossed
        /\ history'.overlap <=> (history.overlap \/ Changing # {})
    BY <1>2, RecordTypes DEF Histories
  <1>4. PaymentTypeOK'
    BY <1>1, <1>2, <1>3, RecordTypes, TypesAfter
  <1>5. call[c].kind = "callback" /\ call[c].todo = <<>>
    BY <1>1, KindByPc DEF Following
  <1>6. SessionsCharge' /\ Followed' /\ Crossings' /\ Backed' /\ Exact'
    BY <1>1, <1>2, <1>3, <1>4, <1>5, PreparingKeeps
  <1>7. Balanced'
    <2>1. IsDoc(invoice)' /\ IsDoc(call[c].read)' /\ IsDoc(call[c].new)'
      BY <1>1, <1>2, DocType DEF IsDoc, Balanced, Statuses
    <2>. QED  BY <1>1, <2>1, BalancedKept
  <1>8. Requests'
    <2>1. CallbackIs(c)
      BY DEF Requests
    <2>2. CallbackIs(c)' /\ ManualIs(c)' /\ StatusIs(c)' /\ IdleIs(c)'
      BY <1>1, <1>5, <2>1 DEF CallbackIs, ManualIs, StatusIs, IdleIs
    <2>. QED  BY <1>1, <1>3, <2>2, RequestsKept
  <1>9. Alone'
    BY <1>1, <1>2, <1>3, AloneKept
  <1>. QED  BY <1>4, <1>6, <1>7, <1>8, <1>9

LEMMA CheckStep ==
    ASSUME PayInv, NEW c \in Calls, Check(c)
    PROVE  PayInv'
  <1>. USE DEF PayInv
  <1>1. /\ call[c].pc = "check"
        /\ UNCHANGED <<invoice, order, session, writer, recorded, ran>>
        /\ \/ Return(c) /\ history' = history
           \/ /\ Goto(c, "write") /\ Matches(c) /\ call[c].read.status # "PAID"
              /\ ~Processed(c)
              /\ history' = [history EXCEPT !.crossed = @ \cup {{c, d} : d \in Racing(c)}]
    BY DEF Check
  <1>2. call[c].kind = "callback" /\ call[c].todo = <<>>
    BY <1>1, KindByPc DEF Following
  <1>3. history \in Histories
    BY RecordTypes
  <1>4. CASE Return(c) /\ history' = history
    <2>1. call' \in [Calls -> CallStates]
      BY <1>4, ReturnDoes
    <2>2. PaymentTypeOK'
      BY <1>1, <1>4, <2>1, RecordTypes, TypesAfter
    <2>3. ~Following(c) /\ history'.faults >= history.faults
      BY <1>1, <1>2, <1>3 DEF Following, Histories
    <2>. QED  BY <1>1, <1>4, <2>2, <2>3, QuietReturn
  <1>5. CASE /\ Goto(c, "write") /\ Matches(c) /\ call[c].read.status # "PAID"
             /\ ~Processed(c)
             /\ history' = [history EXCEPT !.crossed = @ \cup {{c, d} : d \in Racing(c)}]
    <2>a. /\ history' \in Histories /\ history'.paid = history.paid
          /\ history'.lost = history.lost /\ history'.faults = history.faults
          /\ history'.admin = history.admin /\ history'.overlap = history.overlap
          /\ history'.again = history.again
          /\ history'.crossed = history.crossed \cup {{c, d} : d \in Racing(c)}
      <3>1. history.crossed \cup {{c, d} : d \in Racing(c)} \in SUBSET SUBSET Calls
        BY <1>3 DEF Histories, Racing
      <3>. QED  BY <1>3, <1>5, <3>1 DEF Histories
    <2>1. /\ call' \in [Calls -> CallStates]
          /\ \A d \in Calls : d # c => call'[d] = call[d]
          /\ call'[c].pc = "write" /\ call'[c].todo = call[c].todo
          /\ call'[c].read = call[c].read /\ call'[c].new = call[c].new
          /\ call'[c].kind = call[c].kind /\ call'[c].tran = call[c].tran
          /\ call'[c].amount = call[c].amount
      <3>1. "write" \in Pcs
        BY DEF Pcs
      <3>. QED  BY <1>5, <3>1, GotoDoes
    <2>2. PaymentTypeOK'
      BY <1>1, <2>a, <2>1, RecordTypes, TypesAfter
    <2>3. SessionsCharge' /\ Followed' /\ Crossings' /\ Backed' /\ Exact'
      BY <1>1, <1>2, <1>5, <2>a, <2>1, <2>2, PreparingKeeps
    <2>4. Balanced'
      <3>1. IsDoc(invoice)' /\ IsDoc(call[c].read)' /\ IsDoc(call[c].new)'
        BY <1>1, <2>1 DEF IsDoc, Balanced
      <3>. QED  BY <2>1, <3>1, BalancedKept
    <2>5. Requests'
      <3>1. CallbackIs(c)
        BY DEF Requests
      <3>2. CallbackIs(c)' /\ ManualIs(c)' /\ StatusIs(c)' /\ IdleIs(c)'
        BY <1>1, <1>2, <1>5, <2>1, <3>1 DEF CallbackIs, ManualIs, StatusIs, IdleIs, Matches
      <3>. QED  BY <1>1, <2>a, <2>1, <3>2, RequestsKept
    <2>6. Alone'
      <3>1. c \in Changing
        BY <1>1 DEF Changing
      <3>. QED  BY <1>1, <2>a, <2>1, <3>1, AloneKept
    <2>. QED  BY <2>2, <2>3, <2>4, <2>5, <2>6
  <1>. QED  BY <1>1, <1>4, <1>5

LEMMA TransactionWriteStep ==
    ASSUME PayInv, NEW c \in Calls, TransactionWrite(c)
    PROVE  PayInv'
  <1>. USE DEF PayInv
  <1>1. /\ call[c].pc = "write" /\ writer' \in {c, writer}
        /\ UNCHANGED <<invoice, order, session, recorded, ran, history>>
        /\ Return(c) \/ Goto(c, "insert")
    BY DEF TransactionWrite, SaveOrder
  <1>2. call[c].kind = "callback" /\ call[c].todo = <<>>
    BY <1>1, KindByPc DEF Following
  <1>3. history \in Histories
    BY RecordTypes
  <1>4. CASE Return(c)
    <2>1. call' \in [Calls -> CallStates]
      BY <1>4, ReturnDoes
    <2>2. PaymentTypeOK'
      BY <1>1, <2>1, RecordTypes, TypesAfter
    <2>3. ~Following(c) /\ history'.faults >= history.faults
      BY <1>1, <1>2, <1>3 DEF Following, Histories
    <2>. QED  BY <1>1, <1>4, <2>2, <2>3, QuietReturn
  <1>5. CASE Goto(c, "insert")
    <2>1. /\ call' \in [Calls -> CallStates]
          /\ \A d \in Calls : d # c => call'[d] = call[d]
          /\ call'[c].pc = "insert" /\ call'[c].todo = call[c].todo
          /\ call'[c].read = call[c].read /\ call'[c].new = call[c].new
          /\ call'[c].kind = call[c].kind /\ call'[c].tran = call[c].tran
          /\ call'[c].amount = call[c].amount
      <3>1. "insert" \in Pcs
        BY DEF Pcs
      <3>. QED  BY <1>5, <3>1, GotoDoes
    <2>2. PaymentTypeOK'
      BY <1>1, <2>1, RecordTypes, TypesAfter
    <2>3. SessionsCharge' /\ Followed' /\ Crossings' /\ Backed' /\ Exact'
      BY <1>1, <1>2, <2>1, <2>2, PreparingKeeps
    <2>4. Balanced'
      <3>1. IsDoc(invoice)' /\ IsDoc(call[c].read)' /\ IsDoc(call[c].new)'
        BY <1>1, <2>1 DEF IsDoc, Balanced
      <3>. QED  BY <2>1, <3>1, BalancedKept
    <2>5. Requests'
      <3>1. CallbackIs(c)
        BY DEF Requests
      <3>2. CallbackIs(c)' /\ ManualIs(c)' /\ StatusIs(c)' /\ IdleIs(c)'
        BY <1>1, <1>2, <2>1, <3>1 DEF CallbackIs, ManualIs, StatusIs, IdleIs, Matches
      <3>. QED  BY <1>1, <2>1, <3>2, RequestsKept
    <2>6. Alone'
      <3>1. c \in Changing
        BY <1>1 DEF Changing
      <3>. QED  BY <1>1, <2>1, <3>1, AloneKept
    <2>. QED  BY <2>2, <2>3, <2>4, <2>5, <2>6
  <1>. QED  BY <1>1, <1>4, <1>5

LEMMA AddPaymentStep ==
    ASSUME PayInv, NEW c \in Calls, NEW amount \in 1..Total, AddPayment(c, amount)
    PROVE  PayInv'
  <1>. USE DEF PayInv
  <1>1. /\ call' \in [Calls -> CallStates]
        /\ \A d \in Calls : d # c => call'[d] = call[d]
        /\ call[c].pc = "idle" /\ call'[c].pc = "save" /\ call'[c].kind = "manual"
        /\ call'[c].amount = amount /\ call'[c].tran = {} /\ call'[c].todo = <<>>
        /\ call'[c].read = invoice /\ invoice.status = "UNPAID"
        /\ call'[c].new \in Invoice /\ IsDoc(call'[c].new)
        /\ call'[c].new.status \in {"UNPAID", "PAID"}
        /\ call'[c].new.credit = invoice.credit + amount
        /\ call'[c].new.status = "PAID" <=> call'[c].new.balanceDue = 0
    BY AddPaymentDoes
  <1>2. /\ UNCHANGED <<invoice, order, session, writer, recorded, ran>>
        /\ history' = [history EXCEPT !.overlap = @ \/ Changing # {}]
    BY DEF AddPayment
  <1>3. /\ history' \in Histories /\ history'.paid = history.paid
        /\ history'.lost = history.lost /\ history'.faults = history.faults
        /\ history'.admin = history.admin
        /\ history'.again = history.again /\ history'.crossed = history.crossed
        /\ history'.overlap <=> (history.overlap \/ Changing # {})
    BY <1>2, RecordTypes DEF Histories
  <1>4. PaymentTypeOK'
    BY <1>1, <1>2, <1>3, RecordTypes, TypesAfter
  <1>5. SessionsCharge' /\ Followed' /\ Crossings' /\ Backed' /\ Exact'
    BY <1>1, <1>2, <1>3, <1>4, PreparingKeeps
  <1>6. Balanced'
    <2>1. IsDoc(invoice)' /\ IsDoc(call[c].read)' /\ IsDoc(call[c].new)'
      BY <1>1, <1>2 DEF IsDoc, Balanced
    <2>. QED  BY <1>1, <2>1, BalancedKept
  <1>7. Requests'
    <2>1. amount > 0
      OBVIOUS
    <2>2. CallbackIs(c)' /\ ManualIs(c)' /\ StatusIs(c)' /\ IdleIs(c)'
      BY <1>1, <2>1 DEF CallbackIs, ManualIs, StatusIs, IdleIs
    <2>. QED  BY <1>1, <1>3, <2>2, RequestsKept
  <1>8. Alone'
    BY <1>1, <1>2, <1>3, AloneKept
  <1>. QED  BY <1>4, <1>5, <1>6, <1>7, <1>8

LEMMA UpdateInvoiceStatusStep ==
    ASSUME PayInv, NEW c \in Calls, NEW status \in Statuses, UpdateInvoiceStatus(c, status)
    PROVE  PayInv'
  <1>. USE DEF PayInv
  <1>1. /\ call' \in [Calls -> CallStates]
        /\ \A d \in Calls : d # c => call'[d] = call[d]
        /\ call[c].pc = "idle" /\ call'[c].pc = "save" /\ call'[c].kind = "status"
        /\ call'[c].tran = {} /\ call'[c].todo = <<>> /\ call'[c].read = invoice
        /\ call'[c].new \in Invoice /\ IsDoc(call'[c].new)
        /\ status # "PAID" => call'[c].new.credit \in {0, invoice.credit}
    BY StatusDoes
  <1>2. /\ UNCHANGED <<invoice, order, session, writer, recorded, ran>>
        /\ history' = [history EXCEPT !.overlap = @ \/ Changing # {},
                                      !.admin = @ \cup {status}]
    BY DEF UpdateInvoiceStatus
  <1>3. history \in Histories
    BY RecordTypes
  <1>4. /\ history' \in Histories /\ history'.paid = history.paid
        /\ history'.lost = history.lost /\ history'.faults = history.faults
        /\ history'.admin = history.admin \cup {status}
        /\ history'.again = history.again /\ history'.crossed = history.crossed
        /\ history'.overlap <=> (history.overlap \/ Changing # {})
    <2>1. ASSUME NEW b \in BOOLEAN, NEW a \in SUBSET Statuses
          PROVE  [history EXCEPT !.overlap = b, !.admin = a] \in Histories
      BY <1>3 DEF Histories
    <2>2. history.overlap \in BOOLEAN /\ history.admin \cup {status} \in SUBSET Statuses
      BY <1>3 DEF Histories
    <2>3. history' \in Histories
      BY <1>2, <2>1, <2>2
    <2>4. /\ history'.paid = history.paid
          /\ history'.lost = history.lost /\ history'.faults = history.faults
          /\ history'.admin = history.admin \cup {status}
          /\ history'.again = history.again /\ history'.crossed = history.crossed
          /\ history'.overlap = (history.overlap \/ Changing # {})
      BY <1>2, <1>3 DEF Histories
    <2>. QED  BY <2>3, <2>4
  <1>5. PaymentTypeOK'
    BY <1>1, <1>2, <1>4, RecordTypes, TypesAfter
  <1>6. SessionsCharge' /\ Followed' /\ Crossings' /\ Backed' /\ Exact'
    BY <1>1, <1>2, <1>4, <1>5, PreparingKeeps
  <1>7. Balanced'
    <2>1. IsDoc(invoice)' /\ IsDoc(call[c].read)' /\ IsDoc(call[c].new)'
      BY <1>1, <1>2 DEF IsDoc, Balanced
    <2>. QED  BY <1>1, <2>1, BalancedKept
  <1>8. Requests'
    <2>1. CallbackIs(c)' /\ ManualIs(c)' /\ StatusIs(c)' /\ IdleIs(c)'
      BY <1>1, <1>4 DEF CallbackIs, ManualIs, StatusIs, IdleIs
    <2>. QED  BY <1>1, <1>4, <2>1, RequestsKept
  <1>9. Alone'
    BY <1>1, <1>2, <1>4, AloneKept
  <1>. QED  BY <1>5, <1>6, <1>7, <1>8, <1>9

LEMMA FailsStep ==
    ASSUME PayInv, NEW c \in Calls, Fails(c)
    PROVE  PayInv'
  <1>. USE DEF PayInv
  <1>. DEFINE lost == IF call[c].pc = "record" THEN history.lost + call[c].amount
                      ELSE history.lost
  <1>1. /\ call[c].pc # "idle" /\ Return(c)
        /\ writer' \in {Nobody, writer}
        /\ UNCHANGED <<invoice, order, session, recorded, ran>>
        /\ Fault([history EXCEPT !.lost = lost])
    BY DEF Fails
  <1>2. history \in Histories /\ call[c] \in CallStates
    BY RecordTypes
  <1>3. lost \in Nat
    BY <1>2 DEF Histories, CallStates
  <1>. HIDE DEF lost
  <1>4. /\ history' \in Histories /\ history'.paid = history.paid
        /\ history'.overlap = history.overlap /\ history'.admin = history.admin
        /\ history'.lost = lost /\ history'.faults = history.faults + 1
        /\ history'.again = history.again /\ history'.crossed = history.crossed
        /\ history.faults \in Nat
    <2>. DEFINE h == [history EXCEPT !.lost = lost]
    <2>1. /\ h \in Histories /\ h.paid = history.paid /\ h.overlap = history.overlap
          /\ h.admin = history.admin /\ h.lost = lost /\ h.faults = history.faults
          /\ h.again = history.again /\ h.crossed = history.crossed
      BY <1>2, <1>3 DEF Histories
    <2>2. history' = [h EXCEPT !.faults = h.faults + 1]
      BY <1>1 DEF Fault
    <2>. HIDE DEF h
    <2>. QED  BY <2>1, <2>2 DEF Histories
  <1>5. call' \in [Calls -> CallStates]
    BY <1>1, ReturnDoes
  <1>6. PaymentTypeOK'
    BY <1>1, <1>4, <1>5, RecordTypes, TypesAfter
  <1>7. history'.faults >= history.faults /\ history'.faults # 0
    BY <1>4
  <1>. QED  BY <1>1, <1>4, <1>6, <1>7, QuietReturn DEF lost

LEMMA RecordStep ==
    ASSUME PayInv, NEW c \in Calls, Record(c)
    PROVE  PayInv'
  <1>. USE DEF PayInv
  <1>1. /\ call[c].pc = "record" /\ recorded' = [recorded EXCEPT ![c] = call[c].amount]
        /\ UNCHANGED <<invoice, order, session, writer, ran, history>>
        /\ \/ Return(c) /\ call[c].todo = <<>>
           \/ Goto(c, "fanout") /\ call[c].todo # <<>>
    BY DEF Record
  <1>2. /\ call[c].kind = "manual" /\ recorded[c] = 0 /\ ran[c] = {}
        /\ call[c].amount > 0 /\ call[c].tran = {}
    <2>1. call[c].kind = "manual" /\ recorded[c] = 0 /\ ran[c] = {}
      BY <1>1, KindByPc
    <2>. QED  BY <2>1 DEF Requests, ManualIs
  <1>3. /\ call' \in [Calls -> CallStates]
        /\ \A d \in Calls : d # c => call'[d] = call[d]
        /\ call'[c].pc \in {"fanout", "done"} /\ call'[c].todo = call[c].todo
        /\ call'[c].pc = "fanout" <=> call[c].todo # <<>>
        /\ call'[c].kind = call[c].kind /\ call'[c].tran = call[c].tran
        /\ call'[c].amount = call[c].amount
        /\ \/ call'[c].read = call[c].read /\ call'[c].new = call[c].new
           \/ call'[c].read = Fresh /\ call'[c].new = Fresh
    <2>1. CASE Return(c) /\ call[c].todo = <<>>
      BY <2>1, ReturnDoes
    <2>2. CASE Goto(c, "fanout") /\ call[c].todo # <<>>
      <3>1. "fanout" \in Pcs
        BY DEF Pcs
      <3>. QED  BY <2>2, <3>1, GotoDoes
    <2>. QED  BY <1>1, <2>1, <2>2
  <1>4. /\ recorded' \in [Calls -> 0..Total] /\ recorded'[c] = call[c].amount
        /\ \A d \in Calls : d # c => recorded'[d] = recorded[d]
    <2>1. recorded \in [Calls -> 0..Total] /\ call[c] \in CallStates
      BY RecordTypes
    <2>2. call[c].amount \in 0..Total
      BY <2>1 DEF CallStates
    <2>. QED  BY <1>1, <2>1, <2>2
  <1>5. PaymentTypeOK'
    BY <1>1, <1>3, <1>4, RecordTypes, TypesAfter
  <1>6. OthersKept(c)
    BY <1>1, <1>3, <1>4 DEF OthersKept
  <1>7. invoice \in Invoice /\ history \in Histories
    BY RecordTypes
  <1>8. SessionsCharge'
    BY <1>1, <1>3, SessionsKept
  <1>9. Balanced'
    <2>1. IsDoc(invoice)' /\ IsDoc(call[c].read)' /\ IsDoc(call[c].new)'
      BY <1>1, <1>3, DocType DEF IsDoc, Balanced
    <2>. QED  BY <1>3, <2>1, BalancedKept
  <1>10. Requests'
    <2>1. CallbackIs(c)' /\ ManualIs(c)' /\ StatusIs(c)' /\ IdleIs(c)'
      BY <1>2, <1>3 DEF CallbackIs, ManualIs, StatusIs, IdleIs
    <2>. QED  BY <1>1, <1>3, <2>1, RequestsKept
  <1>11. Followed'
    <2>1. Follows(c) /\ (order' = "PROCESSING" => history'.paid)
      BY <1>1 DEF Followed
    <2>2. Follows(c)'
      BY <1>1, <1>2, <1>3, <1>4, <2>1 DEF Follows, Following, Entries
    <2>3. ran[c] # Components
      BY <1>2 DEF Components
    <2>4. Following(c)' \/ ~Following(c)
      BY <1>3 DEF Following
    <2>. QED  BY <1>1, <1>6, <2>1, <2>2, <2>3, <2>4, FollowedKept
  <1>12. Crossings' /\ c \notin history.again
    <2>1. ~Passed(c)'
      BY <1>2, <1>3 DEF Passed
    <2>2. c \notin history.again
      BY <1>2 DEF Crossings
    <2>. QED  BY <1>1, <1>6, <2>1, <2>2, CrossingsKept
  <1>13. At(c)' = At(c) /\ At(c) \in Nat
    <2>1. /\ At(c) = recorded[c] + (IF call[c].pc = "record" THEN call[c].amount ELSE 0)
          /\ At(c)' = recorded'[c] + (IF call'[c].pc = "record" THEN call'[c].amount ELSE 0)
          /\ call[c].amount \in Nat
      BY <1>5, AtIs
    <2>2. At(c) = call[c].amount
      BY <1>1, <1>2, <2>1
    <2>3. At(c)' = call[c].amount
      BY <1>3, <1>4, <2>1
    <2>. QED  BY <2>1, <2>2, <2>3
  <1>14. history.lost \in Nat /\ invoice.credit \in Nat
    BY <1>7 DEF Histories, Invoice
  <1>15. Backed'
    <2>1. call'[c].read = call[c].read \/ call'[c].read = Fresh
      BY <1>3
    <2>2. Unrecording(c)
      BY <1>2, <1>3 DEF Unrecording
    <2>3. At(c) + history.lost <= At(c)' + history'.lost /\ invoice'.credit <= invoice.credit
      BY <1>1, <1>13, <1>14
    <2>. QED  BY <1>1, <1>5, <1>6, <1>12, <2>1, <2>2, <2>3, BackedKept
  <1>16. Exact'
    BY <1>1, <1>5, <1>6, <1>13, <1>14, ExactKept
  <1>17. Alone'
    <2>1. c \notin Changing'
      BY <1>3 DEF Changing
    <2>. QED  BY <1>1, <1>3, <2>1, AloneKept
  <1>. QED  BY <1>5, <1>8, <1>9, <1>10, <1>11, <1>12, <1>15, <1>16, <1>17

LEMMA FanOutStep ==
    ASSUME PayInv, NEW c \in Calls, FanOut(c)
    PROVE  PayInv'
  <1>. USE DEF PayInv
  <1>. DEFINE todo == call[c].todo
  <1>1. /\ call[c].pc = "fanout" /\ ran' = [ran EXCEPT ![c] = @ \cup {Head(todo)}]
        /\ order' \in {order, "PROCESSING"}
        /\ UNCHANGED <<invoice, session, writer, recorded, history>>
        /\ \/ Len(todo) = 1 /\ Return(c)
           \/ Len(todo) # 1 /\ call' = [call EXCEPT ![c].todo = Tail(@)]
    BY DEF FanOut
  <1>2. call[c] \in CallStates /\ ran \in [Calls -> SUBSET Components]
    BY RecordTypes
  <1>3. Follows(c) /\ todo # <<>> /\ todo \in Seq(Components)
    BY <1>1, <1>2 DEF Followed, Follows, Following, CallStates
  <1>4. /\ history.paid /\ ran[c] \cup Entries(todo) = Components
        /\ call[c].kind = "callback" => recorded[c] > 0
    BY <1>1, <1>3 DEF Follows, Following
  <1>5. /\ Tail(todo) \in Seq(Components) /\ Head(todo) \in Components
        /\ Entries(todo) = {Head(todo)} \cup Entries(Tail(todo))
        /\ Len(todo) = 1 => Entries(todo) = {Head(todo)}
        /\ Len(todo) # 1 => Tail(todo) # <<>>
    BY <1>3, TailType
  <1>6. /\ call' \in [Calls -> CallStates]
        /\ \A d \in Calls : d # c => call'[d] = call[d]
        /\ \/ Len(todo) = 1 /\ call'[c].pc = "done" /\ call'[c].todo = <<>>
           \/ Len(todo) # 1 /\ call'[c].pc = "fanout" /\ call'[c].todo = Tail(todo)
        /\ call'[c].kind = call[c].kind /\ call'[c].tran = call[c].tran
        /\ call'[c].amount = call[c].amount
        /\ \/ call'[c].read = call[c].read /\ call'[c].new = call[c].new
           \/ call'[c].read = Fresh /\ call'[c].new = Fresh
    <2>1. CASE Len(todo) = 1 /\ Return(c)
      BY <2>1, ReturnDoes
    <2>2. CASE Len(todo) # 1 /\ call' = [call EXCEPT ![c].todo = Tail(@)]
      BY <1>1, <1>3, <2>2, TailDoes
    <2>. QED  BY <1>1, <2>1, <2>2
  <1>. HIDE DEF todo
  <1>7. /\ ran' \in [Calls -> SUBSET Components] /\ ran'[c] = ran[c] \cup {Head(todo)}
        /\ \A d \in Calls : d # c => ran'[d] = ran[d]
    BY <1>1, <1>2, <1>5
  <1>8. PaymentTypeOK'
    <2>1. order' \in Orders
      BY <1>1, RecordTypes DEF Orders
    <2>. QED  BY <1>1, <1>6, <1>7, <2>1, RecordTypes, TypesAfter
  <1>9. OthersKept(c)
    BY <1>1, <1>6, <1>7 DEF OthersKept
  <1>10. SessionsCharge'
    BY <1>1, <1>6, SessionsKept
  <1>11. Balanced'
    <2>1. IsDoc(invoice)' /\ IsDoc(call[c].read)' /\ IsDoc(call[c].new)'
      BY <1>1, <1>6, DocType DEF IsDoc, Balanced
    <2>. QED  BY <1>6, <2>1, BalancedKept
  <1>12. Requests'
    <2>1. CallbackIs(c) /\ ManualIs(c) /\ StatusIs(c) /\ IdleIs(c)
      BY DEF Requests
    <2>2. call'[c].pc \in {"fanout", "done"} /\ call[c].kind # "none"
      BY <1>1, <1>6, KindByPc
    <2>3. CallbackIs(c)' /\ ManualIs(c)'
      BY <1>6, <2>1, <2>2 DEF CallbackIs, ManualIs
    <2>4. StatusIs(c)' /\ IdleIs(c)'
      BY <1>1, <1>6, <2>1, <2>2, DocType DEF StatusIs, IdleIs
    <2>. QED  BY <1>1, <1>6, <2>3, <2>4, RequestsKept
  <1>13. Followed'
    <2>1. Len(todo) = 1 => ran'[c] = Components
      BY <1>4, <1>5, <1>7
    <2>2. Len(todo) # 1 => ran'[c] \cup Entries(Tail(todo)) = Components
      BY <1>4, <1>5, <1>7
    <2>3. Follows(c)'
      <3>1. history'.paid /\ recorded'[c] = recorded[c]
        BY <1>1, <1>4
      <3>2. CASE Len(todo) = 1
        BY <1>4, <1>6, <3>1, <3>2 DEF Follows, Following
      <3>3. CASE Len(todo) # 1
        <4>1. Entries(call[c].todo)' = Entries(Tail(todo))
          BY <1>6, <3>3 DEF Entries
        <4>. QED  BY <1>4, <1>5, <1>6, <2>2, <3>1, <3>3, <4>1 DEF Follows, Following
      <3>. QED  BY <3>2, <3>3
    <2>4. Following(c)' \/ ran'[c] = Components
      BY <1>5, <1>6, <2>1 DEF Following
    <2>. QED  BY <1>1, <1>4, <1>9, <2>3, <2>4, FollowedKept
  <1>14. Crossings'
    <2>1. Passed(c)' => Passed(c)
      BY <1>1, <1>6 DEF Passed
    <2>2. c \in history'.again => call'[c].kind = "callback" /\ recorded'[c] > 0
      BY <1>1, <1>6 DEF Crossings
    <2>. QED  BY <1>1, <1>6, <1>9, <2>1, <2>2, CrossingsKept
  <1>15. At(c)' = At(c) /\ At(c) \in Nat
    <2>1. /\ At(c) = recorded[c] + (IF call[c].pc = "record" THEN call[c].amount ELSE 0)
          /\ At(c)' = recorded'[c] + (IF call'[c].pc = "record" THEN call'[c].amount ELSE 0)
          /\ recorded[c] \in Nat
      BY <1>8, AtIs
    <2>2. At(c) = recorded[c]
      BY <1>1, <2>1
    <2>3. At(c)' = recorded[c]
      BY <1>1, <1>6, <2>1
    <2>. QED  BY <2>1, <2>2, <2>3
  <1>16. history.lost \in Nat /\ invoice.credit \in Nat
    BY RecordTypes DEF Histories, Invoice
  <1>17. Backed'
    <2>1. call'[c].read = call[c].read \/ call'[c].read = Fresh
      BY <1>6
    <2>2. Unrecording(c)
      BY <1>1, <1>6 DEF Unrecording
    <2>3. At(c) + history.lost <= At(c)' + history'.lost /\ invoice'.credit <= invoice.credit
      BY <1>1, <1>15, <1>16
    <2>. QED  BY <1>1, <1>8, <1>9, <2>1, <2>2, <2>3, BackedKept
  <1>18. Exact'
    BY <1>1, <1>8, <1>9, <1>15, <1>16, ExactKept
  <1>19. Alone'
    <2>1. c \notin Changing'
      BY <1>6 DEF Changing
    <2>. QED  BY <1>1, <1>6, <2>1, AloneKept
  <1>. QED  BY <1>8, <1>10, <1>11, <1>12, <1>13, <1>14, <1>17, <1>18, <1>19

\* A save that meets the invoice as it was read leaves what the call made of it.
LEMMA SavedAlone ==
    ASSUME PayInv, NEW c \in Changing, ~history.overlap
    PROVE  /\ call[c].read = invoice
           /\ Saved(c).status = call[c].new.status /\ Saved(c).credit = call[c].new.credit
           /\ Saved(c).balanceDue = Total - call[c].new.credit
  <1>1. call[c].read = invoice /\ c \in Calls
    BY DEF PayInv, Alone, Changing
  <1>2. PaymentTypeOK /\ Balanced
    BY DEF PayInv
  <1>3. /\ IsDoc(Saved(c))
        /\ Saved(c).status = IF call[c].new.status = call[c].read.status
                             THEN invoice.status ELSE call[c].new.status
        /\ Saved(c).credit = IF call[c].new.credit = call[c].read.credit
                             THEN invoice.credit ELSE call[c].new.credit
    BY <1>1, <1>2, SavedType
  <1>. QED  BY <1>1, <1>3 DEF IsDoc

LEMMA SaveStep ==
    ASSUME PayInv, NEW c \in Calls, Save(c)
    PROVE  PayInv'
  <1>. USE DEF PayInv
  <1>. DEFINE paid == call[c].new.status = "PAID"
              kind == call[c].kind
              todo == IF paid THEN Called(kind) ELSE <<>>
  <1>1. /\ call[c].pc = "save" /\ invoice' = Saved(c)
        /\ \/ kind = "status" /\ ~paid /\ Return(c)
           \/ /\ ~(kind = "status" /\ ~paid)
              /\ call' = [call EXCEPT ![c].pc = IF kind = "manual" THEN "record" ELSE "fanout",
                                      ![c].todo = todo]
        /\ history' = IF paid THEN WasPaid ELSE history
        /\ UNCHANGED <<order, session, writer, recorded, ran>>
    BY DEF Save
  <1>2. /\ kind \in {"manual", "status"} /\ recorded[c] = 0 /\ ran[c] = {} /\ ~Following(c)
        /\ c \in Changing
    BY <1>1, KindByPc DEF Changing
  <1>3. /\ history \in Histories /\ call[c] \in CallStates /\ invoice \in Invoice
        /\ call \in [Calls -> CallStates]
    BY RecordTypes
  <1>4. /\ history' \in Histories /\ history'.paid = (history.paid \/ paid)
        /\ history'.overlap = history.overlap /\ history'.admin = history.admin
        /\ history'.lost = history.lost /\ history'.faults = history.faults
        /\ history'.again = history.again /\ history'.crossed = history.crossed
    BY <1>1, <1>3 DEF WasPaid, Histories
  <1>5. /\ todo \in Seq(Components)
        /\ todo # <<>> <=> paid
        /\ paid => Entries(todo) = Components
    <2>1. kind \in Kinds
      BY <1>3 DEF CallStates
    <2>2. Called(kind) \in Seq(Components) /\ Called(kind) # <<>>
          /\ Entries(Called(kind)) = Components
      BY <2>1, CalledType
    <2>. HIDE DEF kind, paid
    <2>. QED  BY <2>2
  <1>. HIDE DEF todo
  <1>6. /\ call' \in [Calls -> CallStates]
        /\ \A d \in Calls : d # c => call'[d] = call[d]
        /\ \/ kind = "status" /\ call'[c].pc = "done" /\ call'[c].todo = <<>> /\ ~paid
           \/ kind = "status" /\ call'[c].pc = "fanout" /\ call'[c].todo = todo /\ paid
           \/ kind = "manual" /\ call'[c].pc = "record" /\ call'[c].todo = todo
        /\ call'[c].kind = kind /\ call'[c].tran = call[c].tran
        /\ call'[c].amount = call[c].amount
        /\ \/ call'[c].read = call[c].read /\ call'[c].new = call[c].new
           \/ call'[c].read = Fresh /\ call'[c].new = Fresh
    <2>1. CASE kind = "status" /\ ~paid /\ Return(c)
      BY <2>1, ReturnDoes
    <2>2. CASE /\ ~(kind = "status" /\ ~paid)
               /\ call' = [call EXCEPT ![c].pc = IF kind = "manual" THEN "record" ELSE "fanout",
                                       ![c].todo = todo]
      <3>1. CASE kind = "manual"
        <4>1. call' = [call EXCEPT ![c].pc = "record", ![c].todo = todo]
          BY <2>2, <3>1
        <4>2. "record" \in Pcs
          BY DEF Pcs
        <4>3. /\ call' \in [Calls -> CallStates]
              /\ \A d \in Calls : d # c => call'[d] = call[d]
              /\ call'[c].pc = "record" /\ call'[c].todo = todo
              /\ call'[c].read = call[c].read /\ call'[c].new = call[c].new
              /\ call'[c].kind = call[c].kind /\ call'[c].tran = call[c].tran
              /\ call'[c].amount = call[c].amount
          <5>. HIDE DEF kind, paid
          <5>. QED  BY <1>5, <4>1, <4>2, QueueDoes
        <4>. QED  BY <3>1, <4>1, <4>3
      <3>2. CASE kind = "status"
        <4>1. call' = [call EXCEPT ![c].pc = "fanout", ![c].todo = todo] /\ paid
          BY <2>2, <3>2
        <4>2. "fanout" \in Pcs
          BY DEF Pcs
        <4>3. /\ call' \in [Calls -> CallStates]
              /\ \A d \in Calls : d # c => call'[d] = call[d]
              /\ call'[c].pc = "fanout" /\ call'[c].todo = todo
              /\ call'[c].read = call[c].read /\ call'[c].new = call[c].new
              /\ call'[c].kind = call[c].kind /\ call'[c].tran = call[c].tran
              /\ call'[c].amount = call[c].amount
          <5>. HIDE DEF kind, paid
          <5>. QED  BY <1>5, <4>1, <4>2, QueueDoes
        <4>. QED  BY <3>2, <4>1, <4>3
      <3>. QED  BY <1>2, <3>1, <3>2
    <2>. QED  BY <1>1, <2>1, <2>2
  <1>7. CallbackIs(c) /\ ManualIs(c) /\ StatusIs(c) /\ Follows(c)
    BY DEF Requests, Followed
  <1>8. /\ Saved(c) \in Invoice /\ IsDoc(Saved(c))
        /\ Saved(c).credit = IF call[c].new.credit = call[c].read.credit
                             THEN invoice.credit ELSE call[c].new.credit
    BY SavedType
  <1>9. PaymentTypeOK'
    BY <1>1, <1>4, <1>6, <1>8, RecordTypes, TypesAfter
  <1>10. OthersKept(c)
    BY <1>1, <1>6 DEF OthersKept
  <1>11. SessionsCharge'
    BY <1>1, <1>6, SessionsKept
  <1>12. Balanced'
    <2>1. IsDoc(invoice)' /\ IsDoc(call[c].read)' /\ IsDoc(call[c].new)'
      BY <1>1, <1>6, <1>8, DocType DEF IsDoc, Balanced
    <2>. QED  BY <1>6, <2>1, BalancedKept
  <1>13. Requests'
    <2>1. CallbackIs(c)' /\ IdleIs(c)'
      BY <1>2, <1>6 DEF CallbackIs, IdleIs
    <2>2. ManualIs(c)'
      BY <1>6, <1>7 DEF ManualIs
    <2>3. StatusIs(c)'
      BY <1>4, <1>6, <1>7, DocType DEF StatusIs
    <2>. QED  BY <1>4, <1>6, <2>1, <2>2, <2>3, RequestsKept
  <1>14. Followed'
    <2>1. Follows(c)'
      <3>1. recorded'[c] = 0 /\ ran'[c] = {}
        BY <1>1, <1>2
      <3>2. CASE paid
        <4>1. /\ call'[c].todo = todo /\ call'[c].pc \in {"record", "fanout"}
              /\ history'.paid /\ call'[c].kind # "callback"
          BY <1>2, <1>4, <1>6, <3>2
        <4>2. Entries(call[c].todo)' = Components
          BY <1>5, <3>2, <4>1 DEF Entries
        <4>. QED  BY <1>5, <3>1, <3>2, <4>1, <4>2 DEF Follows, Following
      <3>3. CASE ~paid
        <4>1. /\ call'[c].todo = <<>> /\ call'[c].pc \in {"record", "done"}
              /\ call'[c].kind # "callback"
          BY <1>2, <1>5, <1>6, <3>3
        <4>. QED  BY <3>1, <4>1 DEF Follows, Following
      <3>. QED  BY <3>2, <3>3
    <2>2. order' = "PROCESSING" => history'.paid
      BY <1>1, <1>4 DEF Followed
    <2>3. paid => Following(c)'
      BY <1>5, <1>6 DEF Following
    <2>4. ran[c] # Components
      BY <1>2 DEF Components
    <2>. QED  BY <1>2, <1>4, <1>10, <2>1, <2>2, <2>3, <2>4, FollowedKept
  <1>15. Crossings'
    <2>1. ~Passed(c)'
      BY <1>2, <1>6 DEF Passed
    <2>2. c \notin history'.again
      BY <1>2, <1>4 DEF Crossings
    <2>. QED  BY <1>4, <1>10, <2>1, <2>2, CrossingsKept
  <1>16. /\ At(c) = 0 /\ call[c].amount \in Nat
         /\ At(c)' = IF kind = "manual" THEN call[c].amount ELSE 0
    <2>1. /\ At(c) = recorded[c] + (IF call[c].pc = "record" THEN call[c].amount ELSE 0)
          /\ At(c)' = recorded'[c] + (IF call'[c].pc = "record" THEN call'[c].amount ELSE 0)
          /\ call[c].amount \in Nat
      BY <1>9, AtIs
    <2>2. At(c) = 0
      BY <1>1, <1>2, <2>1
    <2>3. CASE kind = "manual"
      <3>1. call'[c].pc = "record" /\ recorded'[c] = 0 /\ call'[c].amount = call[c].amount
        BY <1>1, <1>2, <1>6, <2>3
      <3>. QED  BY <2>1, <2>2, <2>3, <3>1
    <2>4. CASE kind = "status"
      <3>1. call'[c].pc # "record" /\ recorded'[c] = 0
        BY <1>1, <1>2, <1>6, <2>4
      <3>2. kind # "manual"
        BY <2>4
      <3>. QED  BY <2>1, <2>2, <3>1, <3>2
    <2>. QED  BY <1>2, <2>3, <2>4
  <1>17. /\ history.lost \in Nat /\ invoice.credit \in Nat /\ invoice'.credit \in Nat
         /\ call[c].read.credit \in Nat /\ call[c].new.credit \in Nat
    BY <1>1, <1>3, <1>8 DEF Histories, Invoice, CallStates
  <1>18. Backed'
    <2>1. call'[c].read = call[c].read \/ call'[c].read = Fresh
      BY <1>6
    <2>2. At(c) + history.lost <= At(c)' + history'.lost
      BY <1>4, <1>16, <1>17
    <2>3. ASSUME "PAID" \notin history'.admin
          PROVE  \/ invoice'.credit <= invoice.credit
                 \/ invoice'.credit = call[c].read.credit
                       + ((At(c)' + history'.lost) - (At(c) + history.lost))
      <3>1. CASE kind = "manual"
        <4>1. call[c].new.credit = call[c].read.credit + call[c].amount /\ call[c].amount > 0
          BY <1>1, <1>7, <3>1 DEF ManualIs
        <4>2. invoice'.credit = call[c].read.credit + call[c].amount
          BY <1>1, <1>8, <1>16, <1>17, <4>1
        <4>3. At(c)' = call[c].amount
          BY <1>16, <3>1
        <4>. QED  BY <1>4, <1>16, <1>17, <4>2, <4>3
      <3>2. CASE kind = "status"
        <4>1. call[c].new.credit \in {0, call[c].read.credit}
          BY <1>4, <1>7, <2>3, <3>2 DEF StatusIs
        <4>2. invoice'.credit <= invoice.credit
          BY <1>1, <1>8, <1>17, <4>1
        <4>. QED  BY <4>2
      <3>. QED  BY <1>2, <3>1, <3>2
    <2>4. Unrecording(c)
      BY <1>1, <1>2, <1>6 DEF Unrecording
    <2>. QED  BY <1>1, <1>2, <1>4, <1>9, <1>10, <2>1, <2>2, <2>3, <2>4, BackedKept
  <1>19. Exact'
    <2>1. ASSUME ~history'.overlap, history'.admin = {}
          PROVE  /\ invoice'.credit = invoice.credit + (At(c)' - At(c))
                 /\ invoice'.status = "PAID" <=> invoice'.balanceDue = 0
      <3>1. kind = "manual"
        BY <1>2, <1>4, <1>7, <2>1 DEF StatusIs
      <3>2. /\ call[c].read = invoice
            /\ invoice'.status = call[c].new.status /\ invoice'.credit = call[c].new.credit
            /\ invoice'.balanceDue = Total - call[c].new.credit
        BY <1>1, <1>2, <1>4, <2>1, SavedAlone
      <3>3. /\ call[c].new.credit = call[c].read.credit + call[c].amount
            /\ call[c].new.status = "PAID" <=> call[c].new.balanceDue = 0
            /\ call[c].new.balanceDue = Total - call[c].new.credit
        BY <1>1, <1>7, <3>1 DEF ManualIs, Balanced, IsDoc
      <3>4. At(c)' = call[c].amount
        BY <1>16, <3>1
      <3>. QED  BY <1>16, <1>17, <3>2, <3>3, <3>4
    <2>2. history.lost <= history'.lost
      BY <1>4, <1>17
    <2>. QED  BY <1>4, <1>9, <1>10, <2>1, <2>2, ExactKept
  <1>20. Alone'
    <2>1. c \notin Changing'
      BY <1>6 DEF Changing
    <2>. QED  BY <1>2, <1>4, <1>6, <2>1, AloneKept
  <1>. QED  BY <1>9, <1>11, <1>12, <1>13, <1>14, <1>15, <1>18, <1>19, <1>20

LEMMA TransactionCommitStep ==
    ASSUME PayInv, NEW c \in Calls, TransactionCommit(c)
    PROVE  PayInv'
  <1>. USE DEF PayInv
  <1>. DEFINE todo == Called("callback")
  <1>1. /\ call[c].pc = "insert" /\ writer' = Nobody /\ UNCHANGED <<session, ran>>
        /\ \/ Return(c) /\ UNCHANGED <<invoice, order, recorded>> /\ Fault(history)
           \/ /\ Commit(c) /\ history' = Committed(c)
              /\ call' = [call EXCEPT ![c].pc = "fanout", ![c].todo = todo]
           \/ Commit(c) /\ Return(c) /\ Fault(Committed(c))
    BY DEF TransactionCommit
  <1>2. /\ call[c].kind = "callback" /\ recorded[c] = 0 /\ ran[c] = {} /\ ~Following(c)
        /\ c \in Changing
    BY <1>1, KindByPc DEF Changing
  <1>3. /\ history \in Histories /\ call[c] \in CallStates /\ invoice \in Invoice
        /\ call \in [Calls -> CallStates] /\ recorded \in [Calls -> 0..Total]
    BY RecordTypes
  <1>a. /\ call[c].amount \in 0..Total /\ call[c].read \in Invoice
        /\ history.lost \in Nat /\ history.faults \in Nat
    BY <1>3 DEF CallStates, Histories
  <1>4. CASE Return(c) /\ UNCHANGED <<invoice, order, recorded>> /\ Fault(history)
    <2>1. /\ history' \in Histories /\ history'.paid = history.paid
          /\ history'.overlap = history.overlap /\ history'.admin = history.admin
          /\ history'.lost = history.lost /\ history'.faults >= history.faults
          /\ history'.again = history.again /\ history'.crossed = history.crossed
      BY <1>3, <1>a, <1>4 DEF Fault, Histories
    <2>2. call' \in [Calls -> CallStates]
      BY <1>4, ReturnDoes
    <2>3. PaymentTypeOK'
      BY <1>1, <1>4, <2>1, <2>2, RecordTypes, TypesAfter
    <2>. QED  BY <1>1, <1>2, <1>4, <2>1, <2>3, QuietReturn
  <1>5. CASE /\ Commit(c)
             /\ \/ /\ call' = [call EXCEPT ![c].pc = "fanout", ![c].todo = todo]
                   /\ history' = Committed(c)
                \/ Return(c) /\ Fault(Committed(c))
    <2>. DEFINE again == IF Processed(c) THEN history.again \cup {c} ELSE history.again
    <2>1. /\ invoice' = Saved(c) /\ order' = "PROCESSING"
          /\ recorded' = [recorded EXCEPT ![c] = call[c].amount]
      BY <1>5 DEF Commit
    <2>2. todo \in Seq(Components) /\ todo # <<>> /\ Entries(todo) = Components
      BY CalledType DEF Kinds
    <2>. HIDE DEF todo
    <2>3. /\ call' \in [Calls -> CallStates]
          /\ \A d \in Calls : d # c => call'[d] = call[d]
          /\ \/ call'[c].pc = "done" /\ call'[c].todo = <<>>
             \/ call'[c].pc = "fanout" /\ call'[c].todo = todo
          /\ call'[c].kind = call[c].kind /\ call'[c].tran = call[c].tran
          /\ call'[c].amount = call[c].amount
          /\ \/ call'[c].read = call[c].read /\ call'[c].new = call[c].new
             \/ call'[c].read = Fresh /\ call'[c].new = Fresh
      <3>1. CASE Return(c)
        BY <3>1, ReturnDoes
      <3>2. CASE call' = [call EXCEPT ![c].pc = "fanout", ![c].todo = todo]
        <4>1. "fanout" \in Pcs
          BY DEF Pcs
        <4>2. /\ call' \in [Calls -> CallStates]
              /\ \A d \in Calls : d # c => call'[d] = call[d]
              /\ call'[c].pc = "fanout" /\ call'[c].todo = todo
              /\ call'[c].read = call[c].read /\ call'[c].new = call[c].new
              /\ call'[c].kind = call[c].kind /\ call'[c].tran = call[c].tran
              /\ call'[c].amount = call[c].amount
          BY <2>2, <3>2, <4>1, QueueDoes
        <4>. QED  BY <4>2
      <3>. QED  BY <1>5, <3>1, <3>2
    <2>4. /\ history' \in Histories /\ history'.paid = TRUE
          /\ history'.overlap = history.overlap /\ history'.admin = history.admin
          /\ history'.lost = history.lost
          /\ history'.again = again /\ history'.crossed = history.crossed
          /\ call'[c].pc = "done" => history'.faults # 0
      <3>. DEFINE h == Committed(c)
      <3>1. /\ h \in Histories /\ h.paid = TRUE
            /\ h.overlap = history.overlap /\ h.admin = history.admin
            /\ h.lost = history.lost /\ h.faults = history.faults
            /\ h.again = again /\ h.crossed = history.crossed
        <4>1. again \in SUBSET Calls
          BY <1>3 DEF Histories
        <4>2. h = [[history EXCEPT !.paid = TRUE] EXCEPT !.again = again]
          BY <1>3 DEF Committed, WasPaid, Histories
        <4>. HIDE DEF again, h
        <4>. QED  BY <1>3, <4>1, <4>2 DEF Histories
      <3>. HIDE DEF again, h
      <3>2. CASE Return(c) /\ Fault(Committed(c))
        <4>1. history' = [h EXCEPT !.faults = h.faults + 1]
          BY <3>2 DEF Fault, h
        <4>. QED  BY <1>a, <3>1, <4>1 DEF Histories
      <3>3. CASE /\ call' = [call EXCEPT ![c].pc = "fanout", ![c].todo = todo]
                 /\ history' = Committed(c)
        <4>1. call'[c].pc = "fanout"
          <5>1. "fanout" \in Pcs
            BY DEF Pcs
          <5>. QED  BY <2>2, <3>3, <5>1, QueueDoes
        <4>. QED  BY <3>1, <3>3, <4>1 DEF h
      <3>. QED  BY <1>5, <3>2, <3>3
    <2>5. /\ recorded' \in [Calls -> 0..Total] /\ recorded'[c] = call[c].amount
          /\ \A d \in Calls : d # c => recorded'[d] = recorded[d]
      BY <1>3, <1>a, <2>1
    <2>6. /\ Saved(c) \in Invoice /\ IsDoc(Saved(c))
          /\ Saved(c).status = IF call[c].new.status = call[c].read.status
                               THEN invoice.status ELSE call[c].new.status
          /\ Saved(c).credit = IF call[c].new.credit = call[c].read.credit
                               THEN invoice.credit ELSE call[c].new.credit
      BY SavedType
    <2>7. /\ call[c].amount > 0 /\ call[c].tran # {} /\ call[c].new = Doc("PAID", Total)
          /\ call[c].amount = call[c].read.balanceDue /\ call[c].read.status # "PAID"
      BY <1>1, <1>2 DEF Requests, CallbackIs, Matches
    <2>8. /\ call[c].new.status = "PAID" /\ call[c].new.credit = Total
          /\ call[c].read.credit = Total - call[c].amount
      <3>1. "PAID" \in Statuses /\ Total \in 0..Total
        BY DEF Statuses
      <3>2. Doc("PAID", Total).status = "PAID" /\ Doc("PAID", Total).credit = Total
        BY <3>1, DocType
      <3>3. call[c].read.balanceDue = Total - call[c].read.credit
        BY DEF Balanced, IsDoc
      <3>4. call[c].read.credit \in 0..Total
        BY <1>a DEF Invoice
      <3>. QED  BY <1>a, <2>7, <3>2, <3>3, <3>4
    <2>9. /\ invoice'.status = "PAID" /\ invoice'.credit = Total /\ invoice'.balanceDue = 0
          /\ Total = call[c].read.credit + call[c].amount
      <3>1. call[c].read.credit # Total
        BY <1>a, <2>7, <2>8
      <3>2. invoice'.status = "PAID" /\ invoice'.credit = Total
        BY <2>1, <2>6, <2>7, <2>8, <3>1
      <3>3. invoice'.balanceDue = 0
        BY <2>1, <2>6, <3>2 DEF IsDoc
      <3>. QED  BY <1>a, <2>8, <3>2, <3>3
    <2>10. PaymentTypeOK'
      <3>1. order' \in Orders
        BY <2>1 DEF Orders
      <3>. QED  BY <1>1, <2>1, <2>3, <2>4, <2>5, <2>6, <3>1, RecordTypes, TypesAfter
    <2>11. OthersKept(c)
      BY <1>1, <2>3, <2>5 DEF OthersKept
    <2>12. SessionsCharge'
      BY <1>1, <2>3, SessionsKept
    <2>13. Balanced'
      <3>1. IsDoc(invoice)' /\ IsDoc(call[c].read)' /\ IsDoc(call[c].new)'
        BY <2>1, <2>3, <2>6, DocType DEF IsDoc, Balanced
      <3>. QED  BY <2>3, <3>1, BalancedKept
    <2>14. Requests'
      <3>1. CallbackIs(c)' /\ ManualIs(c)' /\ StatusIs(c)' /\ IdleIs(c)'
        BY <1>2, <2>3, <2>7 DEF CallbackIs, ManualIs, StatusIs, IdleIs
      <3>. QED  BY <2>3, <2>4, <3>1, RequestsKept
    <2>15. Followed'
      <3>1. ran'[c] = {} /\ recorded'[c] > 0
        BY <1>1, <1>2, <2>5, <2>7
      <3>2. Follows(c)'
        <4>1. CASE call'[c].pc = "done" /\ call'[c].todo = <<>>
          BY <3>1, <4>1 DEF Follows, Following
        <4>2. CASE call'[c].pc = "fanout" /\ call'[c].todo = todo
          <5>1. Entries(call[c].todo)' = Components
            BY <2>2, <4>2 DEF Entries
          <5>. QED  BY <2>2, <2>4, <3>1, <4>2, <5>1 DEF Follows, Following
        <4>. QED  BY <2>3, <4>1, <4>2
      <3>3. history'.faults = 0 => Following(c)'
        BY <2>2, <2>3, <2>4 DEF Following
      <3>. QED  BY <2>4, <2>11, <3>2, <3>3, FollowedKept
    <2>16. Crossings'
      <3>1. Passed(c)
        BY <1>1, <1>2 DEF Passed
      <3>2. recorded'[c] > 0 /\ call'[c].kind = "callback"
        BY <1>2, <2>3, <2>5, <2>7
      <3>3. ~history.overlap => ~Processed(c)
        <4>. SUFFICES ASSUME ~history.overlap, Processed(c) PROVE FALSE
          OBVIOUS
        <4>1. PICK d \in Calls : recorded[d] > 0 /\ call[d].tran = call[c].tran
          BY DEF Processed
        <4>2. d # c
          BY <1>2, <4>1
        <4>3. call[d].kind = "callback"
          <5>1. call[d].kind \in Kinds
            BY RecordTypes DEF CallStates
          <5>2. call[d].kind = "none" => recorded[d] = 0
            BY KindByPc
          <5>3. call[d].kind \notin {"manual", "status"}
            BY <2>7, <4>1 DEF Requests, ManualIs, StatusIs
          <5>. QED  BY <4>1, <5>1, <5>2, <5>3 DEF Kinds
        <4>4. Passed(d)
          BY <4>1, <4>3 DEF Passed
        <4>5. {c, d} \in history.crossed
          BY <3>1, <4>1, <4>2, <4>4 DEF Crossings
        <4>. QED  BY <4>5 DEF Crossings
      <3>4. ~history'.overlap => history'.again = history.again
        BY <2>4, <3>3
      <3>. QED  BY <2>3, <2>4, <2>11, <3>1, <3>2, <3>4, CrossingsKept
    <2>17. At(c) = 0 /\ At(c)' = call[c].amount
      <3>1. /\ At(c) = recorded[c] + (IF call[c].pc = "record" THEN call[c].amount ELSE 0)
            /\ At(c)' = recorded'[c] + (IF call'[c].pc = "record" THEN call'[c].amount ELSE 0)
        BY <2>10, AtIs
      <3>2. At(c) = 0
        BY <1>1, <1>2, <3>1
      <3>3. call'[c].pc # "record"
        BY <2>3
      <3>4. At(c)' = call[c].amount
        BY <1>a, <2>5, <3>1, <3>3
      <3>. QED  BY <3>2, <3>4
    <2>18. Backed'
      <3>1. call'[c].read = call[c].read \/ call'[c].read = Fresh
        BY <2>3
      <3>2. Worth(c) = 0 /\ Worth(c)' = IF Processed(c) THEN 0 ELSE call[c].amount
        <4>1. /\ Worth(c) = (IF c \in history.again THEN 0 ELSE recorded[c])
                            + (IF call[c].pc = "record" THEN call[c].amount ELSE 0)
              /\ Worth(c)' = (IF c \in history'.again THEN 0 ELSE recorded'[c])
                             + (IF call'[c].pc = "record" THEN call'[c].amount ELSE 0)
          BY <2>10, WorthIs
        <4>2. c \notin history.again
          BY <1>2 DEF Crossings
        <4>3. call'[c].pc # "record" /\ (c \in history'.again <=> Processed(c))
          BY <2>3, <2>4, <4>2
        <4>4. Worth(c) = 0
          BY <1>1, <1>2, <4>1
        <4>5. Worth(c)' = IF Processed(c) THEN 0 ELSE call[c].amount
          BY <1>a, <2>5, <4>1, <4>3
        <4>. QED  BY <4>4, <4>5
      <3>3. Worth(c) + history.lost <= Worth(c)' + history'.lost
        BY <1>a, <2>4, <3>2
      <3>4. /\ history.again \subseteq history'.again
            /\ history'.again \subseteq history.again \cup {c}
        BY <2>4
      <3>5. /\ Backing \in Nat /\ Backing' \in Nat /\ Backing <= Backing'
            /\ Backing' = Backing + ((Worth(c)' + history'.lost) - (Worth(c) + history.lost))
        BY <2>10, <2>11, <3>3, <3>4, BackingMoves
      <3>6. ASSUME "PAID" \notin history'.admin
            PROVE  \/ invoice'.credit <= Backing
                   \/ invoice'.credit = call[c].read.credit
                         + ((Worth(c)' + history'.lost) - (Worth(c) + history.lost))
        <4>1. CASE Processed(c)
          <5>1. call[c].read.credit + call[c].amount <= Backing
            BY <1>1, <2>4, <3>6, <4>1 DEF Backed, Counted
          <5>. QED  BY <2>9, <5>1
        <4>2. CASE ~Processed(c)
          <5>1. Worth(c)' = call[c].amount
            BY <3>2, <4>2
          <5>. QED  BY <1>a, <2>4, <2>9, <3>2, <5>1
        <4>. QED  BY <4>1, <4>2
      <3>7. ASSUME "PAID" \notin history'.admin PROVE Counted'
        <4>. SUFFICES ASSUME NEW d \in Calls, call'[d].pc \in {"write", "insert"}, Processed(d)'
                      PROVE  call'[d].read.credit + call'[d].amount <= Backing'
          BY DEF Counted
        <4>1. d # c
          BY <2>3
        <4>2. call'[d] = call[d] /\ call[d].pc \in {"write", "insert"}
          BY <2>3, <4>1
        <4>3. call[d].read.credit \in Nat /\ call[d].amount \in Nat
          <5>1. call[d].read \in Invoice /\ call[d].amount \in Nat
            BY RecordTypes DEF CallStates
          <5>. QED  BY <5>1 DEF Invoice
        <4>4. CASE Processed(d)
          <5>1. call[d].read.credit + call[d].amount <= Backing
            BY <2>4, <3>7, <4>2, <4>4 DEF Backed, Counted
          <5>. QED  BY <3>5, <4>2, <4>3, <5>1
        <4>5. CASE ~Processed(d)
          <5>1. PICK e \in Calls : recorded'[e] > 0 /\ call'[e].tran = call'[d].tran
            BY DEF Processed
          <5>2. e = c
            BY <2>3, <2>5, <4>2, <4>5, <5>1 DEF Processed
          <5>3. call[c].tran = call[d].tran
            BY <2>3, <4>2, <5>1, <5>2
          <5>4. ~Processed(c)
            BY <4>5, <5>3 DEF Processed
          <5>5. call[d].kind = "callback"
            BY <4>2, KindByPc
          <5>6. call[d].amount = call[c].amount
            <6>1. PICK t \in Transactions : call[c].tran = {t} /\ call[c].amount = session[t].amount
              BY <1>2 DEF SessionsCharge
            <6>2. PICK u \in Transactions : call[d].tran = {u} /\ call[d].amount = session[u].amount
              BY <5>5 DEF SessionsCharge
            <6>. QED  BY <5>3, <6>1, <6>2
          <5>7. call[d].read.credit <= Backing
            BY <2>4, <3>7 DEF Backed
          <5>8. Backing' = Backing + call[c].amount
            BY <1>a, <2>4, <3>2, <3>5, <5>4
          <5>. QED  BY <3>5, <4>2, <4>3, <5>6, <5>7, <5>8
        <4>. QED  BY <4>4, <4>5
      <3>. QED  BY <1>2, <2>4, <2>10, <2>11, <3>1, <3>3, <3>4, <3>6, <3>7, BackedMoves
    <2>19. Exact'
      <3>1. ~history'.overlap => call[c].read = invoice
        BY <1>2, <2>4, SavedAlone
      <3>2. ~history'.overlap => invoice'.credit = invoice.credit + (At(c)' - At(c))
        BY <1>a, <2>9, <2>17, <3>1
      <3>3. history.lost <= history'.lost
        BY <1>a, <2>4
      <3>. QED  BY <2>4, <2>9, <2>10, <2>11, <3>2, <3>3, ExactKept
    <2>20. Alone'
      <3>1. c \notin Changing'
        BY <2>3 DEF Changing
      <3>. QED  BY <1>2, <2>3, <2>4, <3>1, AloneKept
    <2>. QED  BY <2>10, <2>12, <2>13, <2>14, <2>15, <2>16, <2>18, <2>19, <2>20
  <1>. QED  BY <1>1, <1>4, <1>5

-----------------------------------------------------------------------------
(* The theorems *)

LEMMA PayInvInit == Init => PayInv
  <1>. SUFFICES ASSUME Init PROVE PayInv
    OBVIOUS
  <1>1. /\ invoice = Fresh /\ order = "PENDING_PAYMENT" /\ writer = Nobody
        /\ session = [t \in Transactions |-> [state |-> "none", amount |-> 0]]
        /\ call = [c \in Calls |-> Idle] /\ recorded = [c \in Calls |-> 0]
        /\ ran = [c \in Calls |-> {}]
        /\ history = [paid |-> FALSE, overlap |-> FALSE, admin |-> {}, crossed |-> {},
                      again |-> {}, lost |-> 0, faults |-> 0]
    BY DEF Init
  <1>2. PaymentTypeOK
    <2>1. [state |-> "none", amount |-> 0] \in Sessions
      BY DEF Sessions
    <2>2. history \in Histories
      BY <1>1 DEF Histories
    <2>3. order \in Orders /\ invoice \in Invoice /\ writer \in Calls \cup {Nobody}
      BY <1>1, DocType DEF Orders
    <2>4. session \in [Transactions -> Sessions]
      BY <1>1, <2>1
    <2>5. call \in [Calls -> CallStates]
      BY <1>1, IdleType
    <2>6. recorded \in [Calls -> 0..Total] /\ ran \in [Calls -> SUBSET Components]
      BY <1>1
    <2>. QED  BY <2>2, <2>3, <2>4, <2>5, <2>6, RecordTypes
  <1>3. \A c \in Calls : call[c] = Idle /\ recorded[c] = 0 /\ ran[c] = {}
    BY <1>1
  <1>4. Idle.read = Fresh /\ Idle.new = Fresh /\ Idle.pc = "idle" /\ Idle.kind = "none"
        /\ Idle.todo = <<>>
    BY DEF Idle
  <1>5. Balanced
    BY <1>1, <1>3, <1>4, DocType DEF Balanced
  <1>6. SessionsCharge
    BY <1>1, <1>3, <1>4 DEF SessionsCharge
  <1>7. Requests
    BY <1>3, <1>4 DEF Requests, CallbackIs, ManualIs, StatusIs, IdleIs
  <1>8. Followed
    BY <1>1, <1>3, <1>4 DEF Followed, Follows, Following
  <1>9. Crossings
    BY <1>1, <1>3, <1>4 DEF Crossings, Passed
  <1>10. RecordedSum = 0 /\ InFlightSum = 0 /\ TakenSum = 0
    <2>1. recorded \in [Calls -> Nat] /\ \A c \in Calls : recorded[c] = 0
      BY <1>1
    <2>2. InFlight \in [Calls -> Nat] /\ \A c \in Calls : InFlight[c] = 0
      BY <1>3, <1>4 DEF InFlight
    <2>3. RecordedSum = 0
      BY <2>1, SumOfZeros DEF RecordedSum
    <2>4. InFlightSum = 0
      BY <2>2, SumOfZeros DEF InFlightSum
    <2>5. Taken \in [Calls -> Nat] /\ \A c \in Calls : Taken[c] = 0
      BY <1>3 DEF Taken
    <2>6. TakenSum = 0
      BY <2>5, SumOfZeros DEF TakenSum
    <2>. QED  BY <2>3, <2>4, <2>6
  <1>11. invoice.credit = 0 /\ invoice.status = "UNPAID" /\ invoice.balanceDue = Total
    BY <1>1 DEF Fresh
  <1>12. history.lost = 0 /\ Fresh.credit = 0
    BY <1>1 DEF Fresh
  <1>13. Backed
    BY <1>3, <1>4, <1>10, <1>11, <1>12 DEF Backed, Backing, Counted
  <1>14. Exact
    BY <1>10, <1>11 DEF Exact
  <1>15. Alone
    BY <1>3, <1>4 DEF Alone, Changing
  <1>. QED  BY <1>2, <1>5, <1>6, <1>7, <1>8, <1>9, <1>13, <1>14, <1>15 DEF PayInv

LEMMA PayInvNext == PayInv /\ [Next]_vars => PayInv'
  <1>. SUFFICES ASSUME PayInv, [Next]_vars PROVE PayInv'
    OBVIOUS
  <1>1. ASSUME NEW t \in Transactions, PayInvoice(t) \/ GatewayCharges(t) PROVE PayInv'
    BY <1>1, PayInvoiceStep
  <1>2. ASSUME NEW c \in Calls, NEW t \in Transactions, Callback(c, t) PROVE PayInv'
    BY <1>2, CallbackStep
  <1>3. ASSUME NEW c \in Calls, NEW amount \in 1..Total, AddPayment(c, amount) PROVE PayInv'
    BY <1>3, AddPaymentStep
  <1>4. ASSUME NEW c \in Calls, NEW status \in Statuses, UpdateInvoiceStatus(c, status)
        PROVE  PayInv'
    BY <1>4, UpdateInvoiceStatusStep
  <1>5. ASSUME NEW c \in Calls, Step(c) PROVE PayInv'
    <2>1. \/ ReadInvoice(c) \/ Check(c) \/ TransactionWrite(c) \/ TransactionCommit(c)
          \/ Save(c) \/ Record(c) \/ FanOut(c)
      BY <1>5 DEF Step
    <2>. QED  BY <2>1, ReadInvoiceStep, CheckStep, TransactionWriteStep,
                 TransactionCommitStep, SaveStep, RecordStep, FanOutStep
  <1>6. ASSUME NEW c \in Calls, Fails(c) PROVE PayInv'
    BY <1>6, FailsStep
  <1>7. CASE UNCHANGED vars
    <2>1. UNCHANGED <<invoice, order, session, call, writer, recorded, ran, history>>
      BY <1>7 DEF vars
    <2>2. RecordedSum' = RecordedSum /\ InFlightSum' = InFlightSum /\ TakenSum' = TakenSum
      BY <2>1 DEF RecordedSum, InFlightSum, InFlight, TakenSum, Taken
    <2>3. PaymentTypeOK'
      BY <2>1, RecordTypes, TypesAfter DEF PayInv
    <2>4. Balanced' /\ SessionsCharge' /\ Requests'
      BY <2>1 DEF PayInv, Balanced, SessionsCharge, IsDoc, Requests, CallbackIs, ManualIs,
                  StatusIs, IdleIs, Matches
    <2>5. Followed' /\ Crossings'
      <3>1. Followed'
        BY <2>1 DEF PayInv, Followed, Follows, Following, Entries
      <3>2. Crossings'
        BY <2>1 DEF PayInv, Crossings, Passed
      <3>. QED  BY <3>1, <3>2
    <2>6. Backed' /\ Exact' /\ Alone'
      BY <2>1, <2>2 DEF PayInv, Backed, Backing, Counted, Processed, Exact,
                       Alone, Changing
    <2>. QED  BY <2>3, <2>4, <2>5, <2>6 DEF PayInv
  <1>. QED  BY <1>1, <1>2, <1>3, <1>4, <1>5, <1>6, <1>7 DEF Next

LEMMA PayInvHolds == Spec => []PayInv
  <1>. QED  BY PayInvInit, PayInvNext, PTL DEF Spec

\* The types of Payment.tla hold in every reachable state: in particular no
\* amount, credit or balance leaves the range from 0 to the invoice's total
\* (addPayment of invoice.service.ts, handlePaymentSuccess of
\* payment.service.ts).
THEOREM PaymentTypeCorrect == Spec => []PaymentTypeOK
  <1>1. PayInv => PaymentTypeOK
    BY DEF PayInv
  <1>. QED  BY <1>1, PayInvHolds, PTL

\* The credit of an invoice never exceeds the money taken for it, each
\* transaction counted once; nothing is set going before the invoice was PAID;
\* two callbacks of one transaction both call the other components only if each
\* looked for its record before the other committed; and calls that do not
\* overlap leave invoice and PaymentTransactions in agreement: for any number of
\* calls and transactions, any total, failures at any place, and no unique index
\* on the transaction's number.
THEOREM MoneyIsAccounted == Spec => []MoneyAccounted
  <1>1. PayInv => MoneyAccounted
    <2>. SUFFICES ASSUME PayInv PROVE MoneyAccounted
      OBVIOUS
    <2>1. NoUnbackedCredit
      BY DEF PayInv, Balanced, IsDoc, Backed, Backing, NoUnbackedCredit
    <2>2. NothingBeforePayment
      BY DEF PayInv, Followed, Follows, NothingBeforePayment
    <2>3. FanOutTwiceOnlyCrossing
      <3>. SUFFICES ASSUME NEW c \in Calls, NEW d \in Calls, c # d,
                           call[c].kind = "callback", call[d].kind = "callback",
                           call[c].tran = call[d].tran,
                           ran[c] # {} \/ call[c].pc = "fanout",
                           ran[d] # {} \/ call[d].pc = "fanout"
                    PROVE  {c, d} \in history.crossed
        BY DEF FanOutTwiceOnlyCrossing
      <3>1. recorded[c] > 0 /\ recorded[d] > 0
        BY DEF PayInv, Followed, Follows
      <3>2. Passed(c) /\ Passed(d)
        BY <3>1 DEF Passed
      <3>. QED  BY <3>2 DEF PayInv, Crossings
    <2>4. BalanceMatchesRecords
      <3>1. RecordedSum \in Nat
        BY SumsAreNumbers DEF PayInv
      <3>. QED  BY <3>1 DEF PayInv, Exact, BalanceMatchesRecords
    <2>. QED  BY <2>1, <2>2, <2>3, <2>4 DEF MoneyAccounted
  <1>. QED  BY <1>1, PayInvHolds, PTL

\* Once an invoice was PAID, one of the calls that paid it goes on to every
\* component, unless a call failed, whatever the others do meanwhile
\* (payment.service.ts:350-390, invoice.service.ts:343).
THEOREM PaymentReaches == Spec => []PaymentReachesAll
  <1>1. PayInv => PaymentReachesAll
    <2>. SUFFICES ASSUME PayInv, history.paid, history.faults = 0,
                         \A c \in Calls : call[c].pc \notin {"record", "fanout"}
                  PROVE  \E c \in Calls : ran[c] = Components
      BY DEF PaymentReachesAll
    <2>1. PICK c \in Calls : Following(c) \/ ran[c] = Components
      BY DEF PayInv, Followed
    <2>2. ~Following(c)
      BY DEF PayInv, Followed, Follows
    <2>. QED  BY <2>1, <2>2
  <1>. QED  BY <1>1, PayInvHolds, PTL
=============================================================================

----------------------------- MODULE Affiliates -----------------------------
(***************************************************************************)
(* Commissions of one affiliate (affiliate/affiliate.service.ts): the       *)
(* referral of a buyer's first order, the commission of its paid invoice,   *)
(* its approval after a delay, its redemption as account credit or by a     *)
(* payout request, its reversal when the invoice is no longer paid.         *)
(*                                                                          *)
(* Nothing here is a transaction.  A call reads documents, awaits, and      *)
(* saves the fields it changed of each, whatever has become of it since.    *)
(* Whether the approval delay of a commission has passed may hold at any    *)
(* moment; the totals kept for display, codes and currencies are left out.  *)
(***************************************************************************)
EXTENDS Integers, FiniteSets, FiniteSetsExt, Functions

CONSTANTS
    Buyers,
    Orders,       \* each with its invoice
    NoOrder,
    Payouts,      \* payout requests that can be made
    NoPayout,
    Calls,        \* calls of the service under way at one time
    Earned,       \* commission of an order
    MaxDocs,      \* bound: commissions, with those split off
    MaxCalls      \* bound: calls begun

AffiliateNulls == NoOrder \notin Orders /\ NoPayout \notin Payouts
AffiliateBounds == {Earned, MaxDocs, MaxCalls} \subseteq Nat /\ IsFiniteSet(Calls)

VARIABLES
    buyer,       \* who placed each order
    referral,    \* firstOrderId of each buyer's referral, or NoOrder
    active,      \* the profile is ACTIVE, not PAUSED
    paid,        \* orders whose invoice is PAID
    commission,  \* AffiliateCommission documents
    credit,      \* accountCreditBalance of the affiliate
    payout,      \* AffiliatePayoutRequest documents
    call,        \* calls under way
    begun,       \* calls begun
    mark         \* what has gone past the service: see AffiliateTypeOK

affiliateVars == <<buyer, referral, active, paid, commission, credit, payout, call, begun, mark>>

Docs == 1 .. MaxDocs
Commission == [order : Orders \cup {NoOrder}, payout : Payouts \cup {NoPayout}, amount : Nat,
               status : {"none", "QUALIFIED", "APPROVED", "CREDITED", "PAYOUT_REQUESTED",
                         "PAID_OUT", "REVERSED"}]
NoCommission == [order |-> NoOrder, payout |-> NoPayout, amount |-> 0, status |-> "none"]
PayoutStates == {"none", "PENDING", "APPROVED", "REJECTED", "PAID"}
Ready == [op |-> "none", at |-> "idle", order |-> NoOrder, payout |-> NoPayout, left |-> 0,
          amount |-> 0, credit |-> 0, todo |-> {}, doc |-> [d \in Docs |-> NoCommission],
          status |-> "none", act |-> "none"]

AffiliateTypeOK ==
    /\ buyer \in [Orders -> Buyers]
    /\ referral \in [Buyers -> Orders \cup {NoOrder}]
    /\ active \in BOOLEAN /\ paid \in SUBSET Orders
    /\ commission \in [Docs -> Commission]
    /\ credit \in Nat
    /\ payout \in [Payouts -> [status : PayoutStates, amount : Nat]]
    /\ \A c \in Calls :
          /\ call[c].op \in {"none", "paid", "reverse", "redeem", "payout", "review", "view"}
          /\ call[c].doc \in [Docs -> Commission] /\ call[c].todo \in SUBSET Docs
          /\ {call[c].left, call[c].amount, call[c].credit} \subseteq Nat
          /\ call[c].status \in PayoutStates
    /\ begun \in 0 .. MaxCalls
    /\ mark \in [raced : SUBSET Buyers,   \* two calls looked for a commission before either made one
                 over : BOOLEAN,          \* a call saved over what another had saved
                 cut : BOOLEAN,           \* a call died or was refused half-way
                 crossed : BOOLEAN]       \* a reversal ran beside a call that pays or spends

AffiliateInit ==
    /\ buyer \in [Orders -> Buyers]
    /\ referral = [b \in Buyers |-> NoOrder]
    /\ active = TRUE /\ paid = {}
    /\ commission = [d \in Docs |-> NoCommission]
    /\ credit = 0
    /\ payout = [p \in Payouts |-> [status |-> "none", amount |-> 0]]
    /\ call = [c \in Calls |-> Ready]
    /\ begun = 0
    /\ mark = [raced |-> {}, over |-> FALSE, cut |-> FALSE, crossed |-> FALSE]

-----------------------------------------------------------------------------
Of(status) == {d \in Docs : commission[d].status = status}
Made == Docs \ Of("none")
Amounts(S) == SumFunction([d \in Docs |-> IF d \in S THEN commission[d].amount ELSE 0])
\* Documents come in the order of their creation.
NextDoc == IF Made = {} THEN 1 ELSE Max(Made) + 1

Set(c, r) == call' = [call EXCEPT ![c] = r]
Done(c) == Set(c, Ready)
Cut == mark' = [mark EXCEPT !.cut = TRUE]

\* Saving d with what the call has read of it.
SavedOver(c, d) == commission[d] # call[c].doc[d]

-----------------------------------------------------------------------------
(* Calls begin *)

Spends == {"paid", "redeem", "payout"}

Opens(c, r) ==
    LET others == {call[b].op : b \in Calls \ {c}}
    IN /\ call[c] = Ready /\ begun < MaxCalls
       /\ begun' = begun + 1
       /\ Set(c, r)
       /\ mark' = [mark EXCEPT !.crossed = \/ @
                                           \/ r.op = "reverse" /\ (others \cap Spends) # {}
                                           \/ r.op \in Spends /\ "reverse" \in others]

\* The invoice becomes PAID, or its payment is handled once more.
PaidInvoice(c, o) ==
    /\ Opens(c, [Ready EXCEPT !.op = "paid", !.at = "eligible", !.order = o])
    /\ paid' = paid \cup {o}
    /\ UNCHANGED <<buyer, referral, active, commission, credit, payout>>

\* An administrator gives the PAID invoice another status.
RevertInvoice(c, o) ==
    /\ o \in paid
    /\ Opens(c, [Ready EXCEPT !.op = "reverse", !.at = "find", !.order = o])
    /\ paid' = paid \ {o}
    /\ UNCHANGED <<buyer, referral, active, commission, credit, payout>>

Redeem(c, amount) ==
    /\ Opens(c, [Ready EXCEPT !.op = "redeem", !.at = "eligible", !.amount = amount, !.left = amount])
    /\ UNCHANGED <<buyer, referral, active, paid, commission, credit, payout>>

RequestPayout(c, amount) ==
    /\ Opens(c, [Ready EXCEPT !.op = "payout", !.at = "eligible", !.amount = amount, !.left = amount])
    /\ UNCHANGED <<buyer, referral, active, paid, commission, credit, payout>>

\* The dashboards approve what is eligible, and read.
Dashboard(c) ==
    /\ Opens(c, [Ready EXCEPT !.op = "view", !.at = "eligible"])
    /\ UNCHANGED <<buyer, referral, active, paid, commission, credit, payout>>

Review(c, p, act) ==
    /\ payout[p].status # "none"
    /\ Opens(c, [Ready EXCEPT !.op = "review", !.at = "save", !.payout = p, !.act = act,
                              !.status = payout[p].status])
    /\ UNCHANGED <<buyer, referral, active, paid, commission, credit, payout>>

\* trackReferralAttribution: the first order of a buyer, while the profile is active.
TrackReferral(o) ==
    /\ active /\ referral[buyer[o]] = NoOrder
    /\ referral' = [referral EXCEPT ![buyer[o]] = o]
    /\ UNCHANGED <<buyer, active, paid, commission, credit, payout, call, begun, mark>>

SetProfileStatus ==
    /\ begun < MaxCalls
    /\ active' = ~active
    /\ begun' = begun + 1
    /\ UNCHANGED <<buyer, referral, paid, commission, credit, payout, call, mark>>

-----------------------------------------------------------------------------
(* approveEligibleCommissions, with which most calls begin *)

FindEligible(c) ==
    /\ call[c].at = "eligible"
    /\ \E ripe \in SUBSET Of("QUALIFIED") :
          Set(c, [call[c] EXCEPT !.at = "approve", !.todo = ripe, !.doc = commission])
    /\ UNCHANGED <<buyer, referral, active, paid, commission, credit, payout, begun, mark>>

AfterApproval(op) ==
    CASE op = "paid" -> "look" [] op = "redeem" -> "client" [] op = "payout" -> "pending"
      [] OTHER -> "idle"

ApproveNext(c) ==
    /\ call[c].at = "approve"
    /\ IF call[c].todo = {}
       THEN /\ IF call[c].op = "view" THEN Done(c)
               ELSE Set(c, [call[c] EXCEPT !.at = AfterApproval(call[c].op), !.doc = Ready.doc])
            /\ UNCHANGED <<commission, mark>>
       ELSE LET d == Min(call[c].todo)
            IN /\ commission' = [commission EXCEPT ![d].status = "APPROVED"]
               /\ Set(c, [call[c] EXCEPT !.todo = @ \ {d}])
               /\ mark' = [mark EXCEPT !.over = @ \/ SavedOver(c, d)]
    /\ UNCHANGED <<buyer, referral, active, paid, credit, payout, begun>>

-----------------------------------------------------------------------------
(* processPaidInvoice *)

\* Mistake: a commission that was reversed does not count.
PriorLive(o) == {d \in Made \ Of("REVERSED") : buyer[commission[d].order] = buyer[o]}
\* Commissions of the invoice, or of the buyer.
Prior(o) == {d \in Made : buyer[commission[d].order] = buyer[o]}

Look(c) ==
    LET o == call[c].order
    IN /\ call[c].at = "look"
       /\ IF Prior(o) = {} /\ referral[buyer[o]] = o /\ active
          THEN /\ Set(c, [call[c] EXCEPT !.at = "create"])
               /\ mark' = IF \E b \in Calls \ {c} : call[b].at = "create"
                                                   /\ buyer[call[b].order] = buyer[o]
                          THEN [mark EXCEPT !.raced = @ \cup {buyer[o]}] ELSE mark
          ELSE Done(c) /\ UNCHANGED mark
       /\ UNCHANGED <<buyer, referral, active, paid, commission, credit, payout, begun>>

Create(c) ==
    /\ call[c].at = "create" /\ NextDoc \in Docs
    /\ commission' = [commission EXCEPT ![NextDoc] =
          [NoCommission EXCEPT !.order = call[c].order, !.amount = Earned, !.status = "QUALIFIED"]]
    /\ Done(c)
    /\ UNCHANGED <<buyer, referral, active, paid, credit, payout, begun, mark>>

-----------------------------------------------------------------------------
(* redeemToCreditForUser and createPayoutRequestForUser *)

ReadClient(c) ==
    /\ call[c].at = "client"
    /\ Set(c, [call[c] EXCEPT !.at = "collect", !.credit = credit])
    /\ UNCHANGED <<buyer, referral, active, paid, commission, credit, payout, begun, mark>>

\* One request at a time may be PENDING or APPROVED.
CheckPending(c) ==
    /\ call[c].at = "pending"
    /\ IF \E p \in Payouts : payout[p].status \in {"PENDING", "APPROVED"} THEN Done(c)
       ELSE Set(c, [call[c] EXCEPT !.at = "collect"])
    /\ UNCHANGED <<buyer, referral, active, paid, commission, credit, payout, begun, mark>>

Collect(c) ==
    /\ call[c].at = "collect"
    /\ IF Amounts(Of("APPROVED")) < call[c].amount THEN Done(c)
       ELSE Set(c, [call[c] EXCEPT !.at = IF call[c].op = "payout" THEN "request" ELSE "find"])
    /\ UNCHANGED <<buyer, referral, active, paid, commission, credit, payout, begun, mark>>

CreateRequest(c, p) ==
    /\ call[c].at = "request" /\ payout[p].status = "none"
    /\ payout' = [payout EXCEPT ![p] = [status |-> "PENDING", amount |-> call[c].amount]]
    /\ Set(c, [call[c] EXCEPT !.at = "find", !.payout = p])
    /\ UNCHANGED <<buyer, referral, active, paid, commission, credit, begun, mark>>

\* allocateApprovedAmount and reverseCommissionsForInvoice read what they change.
FindDocs(c) ==
    /\ call[c].at = "find"
    /\ Set(c, [call[c] EXCEPT !.at = "change", !.doc = commission,
                 !.todo = IF call[c].op = "reverse"
                          THEN {d \in Made \ Of("REVERSED") : commission[d].order = call[c].order}
                          ELSE Of("APPROVED")])
    /\ UNCHANGED <<buyer, referral, active, paid, commission, credit, payout, begun, mark>>

\* Mistake: what is redeemed counts as requested.
SpentRequested(op) == "PAYOUT_REQUESTED"
Spent(op) == IF op = "payout" THEN "PAYOUT_REQUESTED" ELSE "CREDITED"

\* A whole commission: its status and payout request are saved.
AllocateWhole(c) ==
    LET d == Min(call[c].todo)
        available == call[c].doc[d].amount
    IN /\ call[c].at = "change" /\ call[c].op \in {"redeem", "payout"}
       /\ call[c].left > 0 /\ call[c].todo # {}
       /\ call[c].left >= available
       /\ commission' = [commission EXCEPT ![d].status = Spent(call[c].op),
                           ![d].payout = IF call[c].op = "payout" THEN call[c].payout ELSE @]
       /\ Set(c, [call[c] EXCEPT !.todo = @ \ {d}, !.left = @ - available])
       /\ mark' = [mark EXCEPT !.over = @ \/ SavedOver(c, d)]
       /\ UNCHANGED <<buyer, referral, active, paid, credit, payout, begun>>

\* A part of one: what is left of it is saved, then the part becomes a document.
AllocateRest(c) ==
    LET d == Min(call[c].todo)
        available == call[c].doc[d].amount
    IN /\ call[c].at = "change" /\ call[c].op \in {"redeem", "payout"}
       /\ call[c].left > 0 /\ call[c].todo # {}
       /\ call[c].left < available
       /\ commission' = [commission EXCEPT ![d].amount = available - call[c].left]
       /\ Set(c, [call[c] EXCEPT !.at = "split", !.todo = {d}])
       /\ mark' = [mark EXCEPT !.over = @ \/ SavedOver(c, d)]
       /\ UNCHANGED <<buyer, referral, active, paid, credit, payout, begun>>

Part(c) == LET d == Min(call[c].todo)
           IN [call[c].doc[d] EXCEPT !.status = Spent(call[c].op), !.payout = call[c].payout,
                                     !.amount = call[c].left]

AllocatePart(c) ==
    /\ call[c].at = "split" /\ NextDoc \in Docs
    /\ commission' = [commission EXCEPT ![NextDoc] = Part(c)]
    /\ Set(c, [call[c] EXCEPT !.at = "change", !.todo = {}, !.left = 0])
    /\ UNCHANGED <<buyer, referral, active, paid, credit, payout, begun, mark>>

\* What is found has become too little: the call fails, what it has changed stays.
AllocateShort(c) ==
    /\ call[c].at = "change" /\ call[c].op \in {"redeem", "payout"}
    /\ call[c].left > 0 /\ call[c].todo = {}
    /\ Done(c) /\ Cut
    /\ UNCHANGED <<buyer, referral, active, paid, commission, credit, payout, begun>>

\* The credit of a redemption is that read at its start, and the amount.
Allocated(c) ==
    /\ call[c].at = "change" /\ call[c].op \in {"redeem", "payout"} /\ call[c].left = 0
    /\ IF call[c].op = "redeem"
       THEN /\ credit' = call[c].credit + call[c].amount
            /\ mark' = [mark EXCEPT !.over = @ \/ credit # call[c].credit]
       ELSE UNCHANGED <<credit, mark>>
    /\ Done(c)
    /\ UNCHANGED <<buyer, referral, active, paid, commission, payout, begun>>

-----------------------------------------------------------------------------
(* reverseCommissionsForInvoice *)

ReverseEnds(c) ==
    /\ call[c].at = "change" /\ call[c].op = "reverse" /\ call[c].todo = {}
    /\ Done(c)
    /\ UNCHANGED <<buyer, referral, active, paid, commission, credit, payout, begun, mark>>

\* The credit of a redeemed commission is taken back as far as it goes; the
\* client is read and saved for each.
ReverseReadClient(c) ==
    /\ call[c].at = "change" /\ call[c].op = "reverse" /\ call[c].todo # {}
    /\ call[c].doc[Min(call[c].todo)].status = "CREDITED"
    /\ Set(c, [call[c] EXCEPT !.at = "debit", !.credit = credit])
    /\ UNCHANGED <<buyer, referral, active, paid, commission, credit, payout, begun, mark>>

Debited(c) == LET rest == call[c].credit - call[c].doc[Min(call[c].todo)].amount
              IN IF rest > 0 THEN rest ELSE 0

ReverseDebit(c) ==
    /\ call[c].at = "debit"
    /\ credit' = Debited(c)
    /\ mark' = [mark EXCEPT !.over = @ \/ credit # call[c].credit]
    /\ Set(c, [call[c] EXCEPT !.at = "reversed"])
    /\ UNCHANGED <<buyer, referral, active, paid, commission, payout, begun>>

\* Every status but REVERSED is reversed, that of a request under way too.
ReverseDoc(c) ==
    LET d == Min(call[c].todo)
    IN /\ call[c].op = "reverse" /\ call[c].todo # {}
       /\ \/ call[c].at = "reversed"
          \/ call[c].at = "change" /\ call[c].doc[d].status # "CREDITED"
       /\ commission' = [commission EXCEPT ![d].status = "REVERSED"]
       /\ mark' = [mark EXCEPT !.over = @ \/ SavedOver(c, d)]
       /\ Set(c, [call[c] EXCEPT !.at = "change", !.todo = @ \ {d}])
       /\ UNCHANGED <<buyer, referral, active, paid, credit, payout, begun>>

-----------------------------------------------------------------------------
(* reviewPayoutRequest *)

Allowed(act, status) ==
    CASE act = "approve" -> status = "PENDING"
      [] act = "reject" -> status \in {"PENDING", "APPROVED"}
      [] OTHER -> status = "APPROVED"
Outcome(act) == CASE act = "approve" -> "APPROVED" [] act = "reject" -> "REJECTED" [] OTHER -> "PAID"

ReviewSave(c) ==
    LET p == call[c].payout
    IN /\ call[c].op = "review" /\ call[c].at = "save"
       /\ IF ~Allowed(call[c].act, call[c].status)
          THEN Done(c) /\ UNCHANGED <<payout, mark>>
          ELSE /\ payout' = [payout EXCEPT ![p].status = Outcome(call[c].act)]
               /\ mark' = [mark EXCEPT !.over = @ \/ payout[p].status # call[c].status]
               /\ IF call[c].act = "approve" THEN Done(c)
                  ELSE Set(c, [call[c] EXCEPT !.at = "settle"])
       /\ UNCHANGED <<buyer, referral, active, paid, commission, credit, begun>>

\* updateMany: what the request still reserves is released, or paid out.
Settle(c) ==
    LET p == call[c].payout
        reject == call[c].act = "reject"
    IN /\ call[c].op = "review" /\ call[c].at = "settle"
       /\ commission' = [d \in Docs |->
             IF commission[d].payout # p \/ commission[d].status # "PAYOUT_REQUESTED"
             THEN commission[d]
             ELSE [commission[d] EXCEPT !.status = IF reject THEN "APPROVED" ELSE "PAID_OUT",
                                        !.payout = IF reject THEN NoPayout ELSE p]]
       /\ Done(c)
       \* a review between a request's creation and its reservation passes it by
       /\ mark' = [mark EXCEPT !.over = @ \/ \E b \in Calls \ {c} : call[b].payout = p]
       /\ UNCHANGED <<buyer, referral, active, paid, credit, payout, begun>>

CallDies(c) ==
    /\ call[c] # Ready
    /\ Done(c) /\ Cut
    /\ UNCHANGED <<buyer, referral, active, paid, commission, credit, payout, begun>>

-----------------------------------------------------------------------------
Opening(c) ==
    \/ \E o \in Orders : PaidInvoice(c, o) \/ RevertInvoice(c, o)
    \/ \E amount \in 1 .. Earned : Redeem(c, amount) \/ RequestPayout(c, amount)
    \/ Dashboard(c)
    \/ \E p \in Payouts, act \in {"approve", "reject", "mark_paid"} : Review(c, p, act)

Proceeding(c) ==
    \/ FindEligible(c) \/ ApproveNext(c)
    \/ Look(c) \/ Create(c)
    \/ ReadClient(c) \/ CheckPending(c) \/ Collect(c) \/ FindDocs(c)
    \/ \E p \in Payouts : CreateRequest(c, p)
    \/ AllocateWhole(c) \/ AllocateRest(c) \/ AllocatePart(c) \/ AllocateShort(c) \/ Allocated(c)
    \/ ReverseEnds(c) \/ ReverseReadClient(c) \/ ReverseDebit(c) \/ ReverseDoc(c)
    \/ ReviewSave(c) \/ Settle(c)

AffiliateNext ==
    \/ \E o \in Orders : TrackReferral(o)
    \/ SetProfileStatus
    \/ \E c \in Calls : Opening(c) \/ Proceeding(c) \/ CallDies(c)

AffiliateSpec == AffiliateInit /\ [][AffiliateNext]_affiliateVars

-----------------------------------------------------------------------------
(* Properties *)

BroughtBy(b) == {d \in Made : buyer[commission[d].order] = b}
ReservedFor(p) == {d \in Made : commission[d].payout = p}

\* A buyer brings one commission and no more, however often invoices are paid,
\* reverted and paid again and the commission is split, unless two payments were
\* handled or two parts allocated at once (affiliate.service.ts:318, :553, :575).
CommissionOnce ==
    \A b \in Buyers : b \notin mark.raced /\ ~mark.over
        => Amounts(BroughtBy(b)) <= Earned

\* With no call under way, and none that died, failed half-way, saved over what
\* another had saved or ran beside a reversal: the credit is what was redeemed, a request amounts to
\* the commissions reserved for it (those reversed since included), and a
\* commission that counts is of a paid invoice (affiliate.service.ts:318, :664).
CreditBacked == credit = Amounts(Of("CREDITED"))
PayoutsBacked ==
    \A p \in Payouts : payout[p].status \in {"PENDING", "APPROVED", "PAID"}
        => payout[p].amount = Amounts(ReservedFor(p))
CommissionsOfPaid ==
    \A d \in Made \ Of("REVERSED") : commission[d].order \in paid
AccountsAgree ==
    (\A c \in Calls : call[c] = Ready) /\ ~mark.over /\ ~mark.cut /\ ~mark.crossed
        => CreditBacked /\ PayoutsBacked /\ CommissionsOfPaid

-----------------------------------------------------------------------------
(* Why the last of these: while a reversal is under way no call pays or      *)
(* spends, or the two have crossed; and what it has still to reverse is all  *)
(* that counts of invoices no longer paid.                                   *)

CallDoc == [op : {"none", "paid", "reverse", "redeem", "payout", "review", "view"},
            at : {"idle", "eligible", "approve", "look", "create", "client", "pending", "collect", "request", "find",
                  "change", "split", "debit", "reversed", "save", "settle"},
            order : Orders \cup {NoOrder}, payout : Payouts \cup {NoPayout}, left : Nat, amount : Nat, credit : Nat,
            todo : SUBSET Docs, doc : [Docs -> Commission], status : PayoutStates,
            act : {"none", "approve", "reject", "mark_paid"}]

Live == Made \ Of("REVERSED")
Straight == ~mark.over /\ ~mark.cut /\ ~mark.crossed

CallOK(c) ==
    /\ call[c].at \in {"look", "create"} => call[c].op = "paid"
    /\ call[c].op = "paid" => call[c].order \in Orders
    /\ call[c].at \in {"debit", "split"} => call[c].todo # {}
    /\ call[c].at \in {"debit", "reversed"} => call[c].op = "reverse"
    /\ call[c].at \in {"request", "split"} => call[c].op \in {"redeem", "payout"}

\* A commission of an invoice no longer paid is still to be found or reversed by a call.
Reversing(c, d) ==
    /\ call[c].op = "reverse"
    /\ \/ call[c].at = "find" /\ call[c].order = commission[d].order
       \/ call[c].at \in {"change", "debit", "reversed"} /\ d \in call[c].todo

SpendOK(c) ==
    /\ \A b \in Calls : ~(call[b].op = "reverse" /\ call[c].op \in Spends)
    /\ call[c].op = "paid" => call[c].order \in paid
    /\ \A d \in call[c].todo : call[c].op \in Spends /\ call[c].at \in {"change", "split"}
          => d \in Live /\ call[c].doc[d].order = commission[d].order
    /\ \A d \in call[c].todo : call[c].at = "approve"
          => call[c].doc[d].status = "QUALIFIED"

ReversalsOK ==
    Straight => /\ \A c \in Calls : SpendOK(c)
                /\ \A d \in Live : commission[d].order \in paid \/ \E c \in Calls : Reversing(c, d)

AffiliateInv == AffiliateTypeOK /\ call \in [Calls -> CallDoc] /\ (\A c \in Calls : CallOK(c)) /\ ReversalsOK

\* Without sums: the commissions that count are of paid invoices.
PaidAgree == (\A c \in Calls : call[c] = Ready) /\ Straight => CommissionsOfPaid

-----------------------------------------------------------------------------
(* Why the sums agree: what a call has read of a commission is of one there *)
(* is; what it has taken from one and not yet made another of, what it has  *)
(* allocated and not yet credited, and what it has still to reserve count   *)
(* with the documents.                                                      *)

Allocating == {"redeem", "payout"}

TieOK(c) ==
    LET m == call[c]
    IN /\ m.left <= m.amount
       /\ m.op \notin Allocating \/ m.at \notin {"change", "split"} => m.left = m.amount
       /\ \A d \in Docs : m.doc[d].status # "none" => d \in Made /\ commission[d].order = m.doc[d].order
       /\ m.at = "approve" => m.op # "reverse" /\ \A d \in m.todo : m.doc[d].status = "QUALIFIED"
       /\ m.at \in {"change", "split"} /\ m.op \in Allocating => \A d \in m.todo : m.doc[d].status = "APPROVED"
       /\ m.at = "split" => m.todo = {Min(m.todo)}
       /\ m.op = "reverse" =>
             /\ m.at \in {"find", "change", "debit", "reversed"}
             /\ \A d \in m.todo : m.doc[d].status \notin {"none", "REVERSED"} /\ m.doc[d].order = m.order
       /\ m.at \in {"debit", "reversed"} =>
             m.op = "reverse" /\ m.todo # {} /\ m.doc[Min(m.todo)].status = "CREDITED"
       /\ m.payout # NoPayout => payout[m.payout].status # "none"
       /\ m.at = "request" => m.op = "payout"
       /\ m.op = "redeem" => m.payout = NoPayout
       /\ m.op = "payout" => (m.payout # NoPayout <=> m.at \in {"find", "change", "split"})
       /\ m.op = "review" \/ m.at = "settle" => m.payout # NoPayout

\* A commission is made for a buyer who has none, by one call at a time.
CreateOK ==
    \A c \in Calls : call[c].at = "create" =>
        LET b == buyer[call[c].order]
        IN b \notin mark.raced =>
              /\ Prior(call[c].order) = {}
              /\ \A a \in Calls \ {c} : call[a].at = "create" => buyer[call[a].order] # b

Left(C) == SumFunction([c \in Calls |-> IF c \in C THEN call[c].left ELSE 0])
SplitOf(b) == {c \in Calls : call[c].at = "split" /\ buyer[call[c].doc[Min(call[c].todo)].order] = b}

OnceOK == \A b \in Buyers : b \notin mark.raced /\ ~mark.over => Amounts(BroughtBy(b)) + Left(SplitOf(b)) <= Earned

\* Credited and not yet taken back; allocated and not yet credited; requested and not yet reserved.
Debt == {d \in Of("CREDITED") : \A c \in Calls : call[c].at = "reversed" => d # Min(call[c].todo)}
Redeemed == SumFunction([c \in Calls |-> IF call[c].op = "redeem" THEN call[c].amount - call[c].left ELSE 0])
RequestOf(p) == {c \in Calls : call[c].op = "payout" /\ call[c].payout = p}

PayoutTies ==
    /\ \A d \in Docs : commission[d].payout # NoPayout => payout[commission[d].payout].status # "none"
    /\ Straight => /\ \A d \in Docs : commission[d].status \in {"none", "QUALIFIED", "APPROVED", "CREDITED"}
                         => commission[d].payout = NoPayout
                   /\ \A c \in Calls : call[c].at = "settle" /\ call[c].act = "reject"
                         => payout[call[c].payout].status = "REJECTED"

ReversalTies ==
    Straight => \A c \in Calls : call[c].op = "reverse" =>
        /\ call[c].order \notin paid
        /\ \A b \in Calls \ {c} : call[b].op = "reverse" => call[b].order # call[c].order
        /\ \A d \in call[c].todo : call[c].doc[d].status = "CREDITED" => commission[d] = call[c].doc[d]

CreditOK == Straight => Amounts(Debt) = credit + Redeemed
PayoutsOK ==
    Straight => \A p \in Payouts : payout[p].status \in {"PENDING", "APPROVED", "PAID"}
        => payout[p].amount = Amounts(ReservedFor(p)) + Left(RequestOf(p))

AgreeInv ==
    /\ \A c \in Calls : TieOK(c)
    /\ CreateOK /\ OnceOK /\ PayoutTies /\ ReversalTies /\ CreditOK /\ PayoutsOK
=============================================================================

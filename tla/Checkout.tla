------------------------------ MODULE Checkout ------------------------------
(***************************************************************************)
(* Orders placed at once with one coupon: createOrder of                    *)
(* order/order.service.ts and the coupon of promotion/promotion.service.ts. *)
(*                                                                          *)
(* createOrder is one MongoDB transaction.  What its session reads is the   *)
(* database as it was at the transaction's first read; a write of its       *)
(* session to a document that has changed since, or that another open       *)
(* transaction has written, is a conflict and aborts it.  But the coupon is *)
(* validated outside the session, and so are the services created: they are *)
(* seen at once and stay when the transaction aborts.                       *)
(* Prices, products, numbers, notifications and e-mails are left out.       *)
(***************************************************************************)
EXTENDS Integers, FiniteSets

CONSTANTS
    Shoppers,     \* clients
    Checkouts,    \* calls of createOrder, each for an order
    NoShopper,
    Items,        \* items of an order
    MaxEdits      \* bound: the administrator edits the promotion while it has changed less often

CheckoutNulls == NoShopper \notin Shoppers
CheckoutBounds == Items \in Nat \ {0} /\ MaxEdits \in Nat

VARIABLES
    promotion,   \* the Promotion document, its changes counted as its version
    usage,       \* PromotionUsage documents: the orders that used the coupon
    sale,        \* Order documents, none as long as not committed
    pending,     \* Service documents created for each order
    tracked,     \* orders whose referral was tracked
    checkout     \* calls under way

checkoutVars == <<promotion, usage, sale, pending, tracked, checkout>>

NoSale == [client |-> NoShopper, status |-> "none", invoice |-> FALSE, discount |-> FALSE]
SaleStates == {"none", "PENDING_PAYMENT", "ACTIVE", "CANCELLED"}
Fresh == [at |-> "idle", client |-> NoShopper, coupon |-> "none", invoice |-> FALSE,
          version |-> 0, earlier |-> FALSE, first |-> FALSE]

CheckoutTypeOK ==
    /\ promotion \in [active : BOOLEAN, usageLimit : Nat, usagePerClient : Nat, firstOrderOnly : BOOLEAN,
                      usageCount : Nat, version : Nat, writer : SUBSET Checkouts]
    /\ usage \in [Checkouts -> {"none", "used", "first"}]
    /\ sale \in [Checkouts -> [client : Shoppers \cup {NoShopper}, status : SaleStates,
                               invoice : BOOLEAN, discount : BOOLEAN]]
    /\ pending \in [Checkouts -> 0 .. Items] /\ tracked \in SUBSET Checkouts
    /\ \A o \in Checkouts : checkout[o].at \in {"idle", "price", "validate", "count", "create", "services", "invoice",
                                                "usage", "commit", "track", "ended"}
    \* what the transactions leave agrees
    /\ promotion.usageCount = Cardinality({o \in Checkouts : usage[o] # "none"})
    /\ Cardinality(promotion.writer) <= 1
    /\ \A o \in Checkouts : sale[o].status # "none" => pending[o] = Items
    /\ \A o \in Checkouts : usage[o] # "none" => sale[o].discount

CheckoutInit ==
    /\ promotion \in [active : {TRUE}, usageLimit : 0 .. 1, usagePerClient : 0 .. 1, firstOrderOnly : BOOLEAN,
                      usageCount : {0}, version : {0}, writer : {{}}]
    /\ usage = [o \in Checkouts |-> "none"]
    /\ sale = [o \in Checkouts |-> NoSale]
    /\ pending = [o \in Checkouts |-> 0]
    /\ tracked = {}
    /\ checkout = [o \in Checkouts |-> Fresh]

-----------------------------------------------------------------------------
Goes(o, step) == checkout' = [checkout EXCEPT ![o] = IF step = "ended" THEN [Fresh EXCEPT !.at = step]
                                                      ELSE [@ EXCEPT !.at = step]]
SalesOf(c) == {o \in Checkouts : sale[o].client = c}
UsagesOf(c) == {o \in SalesOf(c) : usage[o] # "none"}

FirstOrder(c) == SalesOf(c) = {}

\* The client is identified by the first read of the session.
Identify(o, c, coupon, invoice) ==
    /\ checkout[o].at = "idle"
    /\ checkout' = [checkout EXCEPT ![o] =
          [Fresh EXCEPT !.at = "price", !.client = c, !.coupon = coupon, !.invoice = invoice,
                        !.version = promotion.version, !.earlier = ~FirstOrder(c)]]
    /\ UNCHANGED <<promotion, usage, sale, pending, tracked>>

\* Every item has a price in the currency and cycle asked for.
Price(o) ==
    /\ checkout[o].at = "price"
    /\ Goes(o, IF checkout[o].coupon = "none" THEN "create" ELSE "validate")
    /\ UNCHANGED <<promotion, usage, sale, pending, tracked>>

\* validateCoupon reads the promotion; without an active one the code may be a referral code.
Accepts(o) ==
    /\ promotion.active
    /\ promotion.usageLimit > 0 => promotion.usageCount < promotion.usageLimit
    /\ promotion.firstOrderOnly => ~checkout[o].earlier

ValidateCoupon(o) ==
    /\ checkout[o].at = "validate" /\ checkout[o].coupon = "promotion" /\ Accepts(o)
    /\ checkout' = [checkout EXCEPT ![o].at = IF promotion.usagePerClient > 0 THEN "count" ELSE "create",
                                    ![o].first = promotion.firstOrderOnly]
    /\ UNCHANGED <<promotion, usage, sale, pending, tracked>>

ValidateReferral(o) ==
    /\ checkout[o].at = "validate" /\ checkout[o].coupon = "referral"
    /\ Goes(o, "create")
    /\ UNCHANGED <<promotion, usage, sale, pending, tracked>>

\* The limit compared was read with the promotion; that it may be any positive
\* one is covered by the limit 1 of the initial states.
CountUsages(o) ==
    /\ checkout[o].at = "count" /\ UsagesOf(checkout[o].client) = {}
    /\ Goes(o, "create")
    /\ UNCHANGED <<promotion, usage, sale, pending, tracked>>

\* The order and its items, in the session.
CreateOrder(o) ==
    /\ checkout[o].at = "create"
    /\ Goes(o, "services")
    /\ UNCHANGED <<promotion, usage, sale, pending, tracked>>

\* A service of each item, outside the session.
CreateService(o) ==
    /\ checkout[o].at = "services"
    /\ pending' = [pending EXCEPT ![o] = @ + 1]
    /\ IF pending'[o] = Items THEN Goes(o, "invoice") ELSE UNCHANGED checkout
    /\ UNCHANGED <<promotion, usage, sale, tracked>>

\* The invoice, in the session; the administrator may do without.
CreateInvoice(o) ==
    /\ checkout[o].at = "invoice"
    /\ Goes(o, IF checkout[o].coupon = "promotion" THEN "usage" ELSE "commit")
    /\ UNCHANGED <<promotion, usage, sale, pending, tracked>>

\* Mistake: the count is incremented outside the session.
ConflictNone(o) == FALSE
Conflict(o) == promotion.version # checkout[o].version \/ promotion.writer # {}

RecordUsage(o) ==
    /\ checkout[o].at = "usage" /\ ~Conflict(o)
    /\ promotion' = [promotion EXCEPT !.writer = @ \cup {o}]
    /\ Goes(o, "commit")
    /\ UNCHANGED <<usage, sale, pending, tracked>>

Counted(o) == IF o \in promotion.writer
              THEN [promotion EXCEPT !.usageCount = @ + 1, !.version = @ + 1, !.writer = @ \ {o}]
              ELSE promotion

\* The answer of a commit may be lost: the caller is told of a failure.
Commit(o) ==
    LET m == checkout[o]
    IN /\ m.at = "commit"
       \* the administrator may give another status
       /\ \E status \in {"PENDING_PAYMENT", "ACTIVE"} :
             sale' = [sale EXCEPT ![o] = [client |-> m.client, status |-> status,
                                          invoice |-> m.invoice, discount |-> m.coupon # "none"]]
       /\ usage' = IF m.coupon # "promotion" THEN usage
                   ELSE [usage EXCEPT ![o] = IF m.first THEN "first" ELSE "used"]
       /\ promotion' = Counted(o)
       /\ \E answered \in BOOLEAN :
             Goes(o, IF answered /\ m.invoice THEN "track" ELSE "ended")
       /\ UNCHANGED <<pending, tracked>>

\* Not awaited; there may be no code, and a failure is logged.
Track(o) ==
    /\ checkout[o].at = "track"
    /\ \E done \in BOOLEAN : tracked' = IF done THEN tracked \cup {o} ELSE tracked
    /\ Goes(o, "ended")
    /\ UNCHANGED <<promotion, usage, sale, pending>>

\* A price is missing, the coupon is refused, a write conflicts, the process
\* dies: the transaction aborts, the services made so far stay.
AbortTransaction(o) ==
    /\ checkout[o].at \notin {"idle", "track", "ended"}
    /\ promotion' = [promotion EXCEPT !.writer = @ \ {o}]
    /\ Goes(o, "ended")
    /\ UNCHANGED <<usage, sale, pending, tracked>>

-----------------------------------------------------------------------------
(* The administrator.  A write waits for the transaction that holds the document. *)

UpdatePromotion(field, value) ==
    /\ promotion.writer = {} /\ promotion.version < MaxEdits
    /\ promotion' = [promotion EXCEPT ![field] = value, !.version = @ + 1]
    /\ UNCHANGED <<usage, sale, pending, tracked, checkout>>

ToggleActive ==
    /\ promotion.writer = {} /\ promotion.version < MaxEdits
    /\ promotion' = [promotion EXCEPT !.active = ~@, !.version = @ + 1]
    /\ UNCHANGED <<usage, sale, pending, tracked, checkout>>

UpdateOrderStatus(o, status) ==
    /\ sale[o].status # "none"
    /\ sale' = [sale EXCEPT ![o].status = status]
    /\ UNCHANGED <<promotion, usage, pending, tracked, checkout>>

\* An order deleted in bulk is cancelled and hidden; it still is the client's.
BulkDelete(S) ==
    /\ \A o \in S : sale[o].status # "none"
    /\ sale' = [o \in Checkouts |-> IF o \in S THEN [sale[o] EXCEPT !.status = "CANCELLED"] ELSE sale[o]]
    /\ UNCHANGED <<promotion, usage, pending, tracked, checkout>>

Checking(o) ==
    \/ \E c \in Shoppers, coupon \in {"none", "promotion", "referral"}, invoice \in BOOLEAN :
          Identify(o, c, coupon, invoice)
    \/ Price(o) \/ ValidateCoupon(o) \/ ValidateReferral(o) \/ CountUsages(o)
    \/ CreateOrder(o) \/ CreateService(o) \/ CreateInvoice(o) \/ RecordUsage(o)
    \/ Commit(o) \/ Track(o) \/ AbortTransaction(o)

Administering ==
    \/ \E n \in 0 .. 1 : UpdatePromotion("usageLimit", n) \/ UpdatePromotion("usagePerClient", n)
    \/ \E b \in BOOLEAN : UpdatePromotion("firstOrderOnly", b)
    \/ ToggleActive
    \/ \E o \in Checkouts : UpdateOrderStatus(o, "ACTIVE")
    \/ \E S \in (SUBSET Checkouts) \ {{}} : BulkDelete(S)

CheckoutNext == (\E o \in Checkouts : Checking(o)) \/ Administering

CheckoutSpec == CheckoutInit /\ [][CheckoutNext]_checkoutVars

-----------------------------------------------------------------------------
(* Properties *)

\* A coupon is spent only within the limits it has at that moment, although
\* validateCoupon looks at them outside the transaction that spends it, and
\* orders are placed and the coupon edited in between: its total and per client,
\* and, for a first order, none of the client's earlier orders has used it
\* (promotion.service.ts:179, :304; order.service.ts:599).
WithinLimits(o, c) ==
    /\ promotion.active
    /\ promotion.usageLimit > 0 => promotion.usageCount < promotion.usageLimit
    /\ promotion.usagePerClient > 0 => UsagesOf(c) = {}
    /\ promotion.firstOrderOnly => UsagesOf(c) = {}
CouponStep == \A o \in Checkouts : usage[o] # usage'[o] => WithinLimits(o, sale'[o].client)
CouponWithinLimits == [][CouponStep]_checkoutVars

-----------------------------------------------------------------------------
(* Why: the coupon's document changes with every use and every edit, so a    *)
(* transaction that may write it looked at what it still says.                *)

CheckoutSteps == {"idle", "price", "validate", "count", "create", "services", "invoice", "usage", "commit", "track", "ended"}
PromotionDoc == [active : BOOLEAN, usageLimit : Nat, usagePerClient : Nat, firstOrderOnly : BOOLEAN,
                 usageCount : Nat, version : Nat, writer : SUBSET Checkouts]
Call == [at : CheckoutSteps, client : Shoppers \cup {NoShopper}, coupon : {"none", "promotion", "referral"},
         invoice : BOOLEAN, version : Nat, earlier : BOOLEAN, first : BOOLEAN]
Sale == [client : Shoppers \cup {NoShopper}, status : SaleStates, invoice : BOOLEAN, discount : BOOLEAN]

DocsOK ==
    /\ promotion \in PromotionDoc /\ usage \in [Checkouts -> {"none", "used", "first"}]
    /\ sale \in [Checkouts -> Sale] /\ pending \in [Checkouts -> 0 .. Items] /\ tracked \in SUBSET Checkouts
    /\ checkout \in [Checkouts -> Call]

\* What an order's transaction has left, and the services made outside it.
Used == {o \in Checkouts : usage[o] # "none"}
CommitOK ==
    /\ IsFiniteSet(Used) /\ promotion.usageCount = Cardinality(Used)
    /\ \A o \in Checkouts :
          /\ checkout[o].at \notin {"track", "ended"} => usage[o] = "none" /\ sale[o] = NoSale
          /\ usage[o] # "none" => sale[o].discount
          /\ sale[o].status # "none" => pending[o] = Items
          /\ checkout[o].at \in {"invoice", "usage", "commit"} => pending[o] = Items
          /\ checkout[o].at \in {"idle", "price", "validate", "count", "create", "services"} => pending[o] < Items

\* One transaction at a time has written the promotion; nobody has since it began.
WriterOK ==
    /\ \A o, p \in promotion.writer : o = p
    /\ \A o \in promotion.writer : checkout[o].at = "commit" /\ checkout[o].coupon = "promotion"
    /\ \A o \in Checkouts : checkout[o].at = "usage" => checkout[o].coupon = "promotion"
    /\ \A o \in Checkouts : checkout[o].at = "commit" /\ checkout[o].coupon = "promotion" =>
          o \in promotion.writer /\ checkout[o].version = promotion.version

UnderWay(o) == checkout[o].at \notin {"idle", "track", "ended"}

\* What a call has seen, as long as the promotion is the one it saw.
Same(o) == checkout[o].version = promotion.version
Validated(o) == checkout[o].coupon = "promotion" /\ checkout[o].at \notin {"price", "validate"}
PerClient(o) == promotion.usagePerClient > 0 /\ checkout[o].at # "count"

SeenOK ==
    \A o \in Checkouts : UnderWay(o) =>
        /\ checkout[o].client \in Shoppers /\ checkout[o].version <= promotion.version
        /\ Same(o) /\ ~checkout[o].earlier => UsagesOf(checkout[o].client) = {}
        /\ Same(o) /\ Validated(o) => Accepts(o) /\ (PerClient(o) => UsagesOf(checkout[o].client) = {})

CheckoutInv == DocsOK /\ CommitOK /\ WriterOK /\ SeenOK
=============================================================================

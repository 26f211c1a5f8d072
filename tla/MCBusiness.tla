----------------------------- MODULE MCBusiness -----------------------------
(***************************************************************************)
(* One run over the components whose documents do not meet: a behaviour is   *)
(* about one of them, its scenario. The components take turns at the same    *)
(* variables v1, v2, ..., which saves a run the others' idle state; INSTANCE *)
(* says which of a component's variables each of them stands for.            *)
(***************************************************************************)
EXTENDS Integers, FiniteSets, TLC

CONSTANTS Firsts, Seconds, Thirds, Fourths, Ones, Nobody

\* The bounds and amounts of the components; those of several have the same name in each.
CONSTANTS Earned, MaxDocs, MaxCalls,                                 \* Affiliates
          Items, MaxEdits,                                           \* Checkout
          Charge, MaxWrites,                                         \* InvoiceBook
          MaxCycle, MaxRuns, MaxChanges,                             \* BillableItems
          Capacity, MaxCreates,                                      \* HostingAccounts
          MaxAttempts, MaxVisits,                                    \* Accounts
          Chosen, MaxPosts,                                          \* Tickets
          ReminderDays, Threshold, Repeat, Term, LastDay, MaxFailures,   \* Notices
          TldValues, StaticRegistrar, Ttl, LastTick, MaxItems,       \* Registrars
          MaxAccounts,                                               \* Panels
          MaxRequests,                                               \* ServiceDesk
          Codes, DefaultCode, Pids, QuoteDay, Rates                  \* Catalogue; Codes of ServiceDesk too

VARIABLES scenario, v1, v2, v3, v4, v5, v6, v7, v8, v9, v10, v11, v12

Aff == INSTANCE Affiliates WITH
    Buyers <- Ones, Orders <- Seconds, NoOrder <- Nobody, Payouts <- Ones, NoPayout <- Nobody, Calls <- Firsts,
    buyer <- v1, referral <- v2, active <- v3, paid <- v4, commission <- v5, credit <- v6, payout <- v7,
    call <- v8, begun <- v9, mark <- v10
ASSUME AffiliateAssumption == Aff!AffiliateNulls /\ Aff!AffiliateBounds

Che == INSTANCE Checkout WITH
    Shoppers <- Firsts, NoShopper <- Nobody, Checkouts <- Seconds,
    promotion <- v1, usage <- v2, sale <- v3, pending <- v4, tracked <- v5, checkout <- v6
ASSUME CheckoutAssumption == Che!CheckoutNulls /\ Che!CheckoutBounds

Boo == INSTANCE InvoiceBook WITH
    Bills <- Ones, Clerks <- Firsts, NoBill <- Nobody,
    book <- v1, clerk <- v2, sweep <- v3, logs <- v4, mails <- v5, account <- v6
ASSUME BookAssumption == Boo!BookNull /\ Boo!BookBounds

Bil == INSTANCE BillableItems WITH
    Billables <- Ones, NoBillable <- Nobody,
    item <- v1, billed <- v2, runner <- v3, cycle <- v4, changes <- v5
ASSUME BillableAssumption == Bil!BillableNull /\ Bil!BillableBounds

Hos == INSTANCE HostingAccounts WITH
    Hostings <- Fourths, NoHosting <- Nobody, Servers <- Seconds, Users <- Thirds, Creators <- Firsts,
    accounts <- v1, itemMeta <- v2, hosting <- v3, settled <- v4, ended <- v5, creator <- v6, trials <- v7,
    converting <- v8, past <- v9
ASSUME HostingAssumption == Hos!HostingNulls /\ Hos!HostingBounds

Acc == INSTANCE Accounts WITH
    Members <- Firsts \cup Ones, NoMember <- Nobody, Mails <- Thirds, Visits <- Seconds,
    member <- v1, profile <- v2, role <- v3, visit <- v4, met <- v5
ASSUME AccountAssumption == Acc!AccountNulls /\ Acc!AccountBounds

Tic == INSTANCE Tickets WITH
    Tickets <- Firsts, NoTicket <- Nobody, Posts <- Seconds,
    ticket <- v1, lastMessage <- v2, notes <- v3, post <- v4, posted <- v5
ASSUME TicketAssumption == Tic!TicketNulls /\ Tic!TicketBounds

Not == INSTANCE Notices WITH
    Registered <- Ones,
    transport <- v1, mailLog <- v2, portal <- v3, today <- v4, expires <- v5, notified <- v6, alert <- v7,
    recipients <- v8, task <- v9, told <- v10
ASSUME NoticeAssumption == Not!NoticeDays /\ Not!NoticeCounts

Reg == INSTANCE Registrars WITH
    Processes <- Firsts, Asks <- Seconds, NoProcess <- Nobody, Savers <- Thirds, Names <- Thirds,
    tick <- v1, tldDoc <- v2, tldCache <- v3, standard <- v4, snapshot <- v5, ask <- v6, routing <- v7,
    heldAt <- v8, config <- v9, saver <- v10, bulk <- v11, registered <- v12
ASSUME RegistrarAssumption == Reg!RegistrarNulls /\ Reg!RegistrarBounds

Pan == INSTANCE Panels WITH
    Machines <- Firsts, NoMachine <- Nobody, Hosts <- Seconds, NoHost <- Nobody, Tokens <- Fourths,
    NoToken <- Nobody, Desks <- Thirds,
    machine <- v1, panel <- v2, desk <- v3, measure <- v4, mailbox <- v5
ASSUME PanelAssumption == Pan!PanelNulls /\ Pan!PanelBounds

Des == INSTANCE ServiceDesk WITH
    Staff <- Firsts, Passwords <- Fourths, NoPassword <- Nobody,
    service <- v1, meta <- v2, account <- v3, staff <- v4, log <- v5
ASSUME DeskAssumption == Des!DeskNulls /\ Des!DeskBounds

Cat == INSTANCE Catalogue WITH
    Products <- Firsts, Letters <- Seconds, NoLetters <- Nobody, Editors <- Thirds, Nodes <- Thirds,
    product <- v1, edit <- v2, currency <- v3, naming <- v4, rateOf <- v5, rate <- v6, quote <- v7
ASSUME CatalogueAssumption == Cat!CatalogueNulls /\ Cat!CatalogueBounds

-----------------------------------------------------------------------------
shared == <<v1, v2, v3, v4, v5, v6, v7, v8, v9, v10, v11, v12>>
businessVars == <<scenario, shared>>

after5 == <<v6, v7, v8, v9, v10, v11, v12>>
after6 == <<v7, v8, v9, v10, v11, v12>>
after7 == <<v8, v9, v10, v11, v12>>
after9 == <<v10, v11, v12>>
after10 == <<v11, v12>>

\* The variables the scenario has no use for.
bare5 == v6 = 0 /\ v7 = 0 /\ v8 = 0 /\ v9 = 0 /\ v10 = 0 /\ v11 = 0 /\ v12 = 0
bare6 == v7 = 0 /\ v8 = 0 /\ v9 = 0 /\ v10 = 0 /\ v11 = 0 /\ v12 = 0
bare7 == v8 = 0 /\ v9 = 0 /\ v10 = 0 /\ v11 = 0 /\ v12 = 0
bare9 == v10 = 0 /\ v11 = 0 /\ v12 = 0
bare10 == v11 = 0 /\ v12 = 0

Senders == {"mail", "reminders", "alerts", "digest"}            \* of Notices
Routers == {"lookups", "standard", "settings", "bulk"}          \* of Registrars
Machinery == {"servers", "calls"}
Shelves == {"products", "currencies", "rates"}                  \* of Catalogue

\* Names for the variables a scenario's beginning is narrowed by.
profile == v2
expires == v5
recipients == v8
tldDoc == v2
standard == v4
config == v9
service == v1

BusinessInit ==
    \/ scenario = "affiliates" /\ Aff!AffiliateInit /\ bare10
    \/ scenario = "checkout" /\ Che!CheckoutInit /\ bare6
    \/ scenario = "invoices" /\ Boo!BookInit /\ bare6
    \/ scenario = "billables" /\ Bil!BillableInit /\ bare5
    \/ scenario = "hosting" /\ Hos!HostingInit /\ bare9
    \/ scenario = "accounts" /\ Acc!AccountInit /\ (\A u \in Firsts : profile[u] = "none") /\ bare5
    \/ scenario = "tickets" /\ Tic!TicketInit /\ bare5
    \/ /\ scenario \in Senders /\ Not!NoticeInit /\ bare10
       /\ scenario # "digest" => recipients
       /\ scenario # "reminders" => \A d \in Ones : expires[d] = 1
    \/ /\ scenario \in Routers /\ Reg!RegistrarInit
       /\ scenario # "lookups" => tldDoc = "unset"
       /\ scenario # "standard" => standard = "dynadot"
       /\ scenario # "settings" => config.text = "unset" /\ config.enabled
       /\ scenario \in {"lookups", "standard"} => config.secret
    \/ scenario = "servers" /\ Pan!PanelInit /\ bare5
    \/ scenario = "calls" /\ Pan!PanelBegun /\ bare5
    \/ scenario = "services" /\ Des!DeskInit /\ bare5 /\ service.labelled = "BDT"
    \/ scenario \in Shelves /\ Cat!CatalogueInit /\ bare7

BusinessStep ==
    \/ scenario = "affiliates" /\ Aff!AffiliateNext /\ UNCHANGED after10
    \/ scenario = "checkout" /\ Che!CheckoutNext /\ UNCHANGED after6
    \/ scenario = "invoices" /\ Boo!BookNext /\ UNCHANGED after6
    \/ scenario = "billables" /\ Bil!BillableNext /\ UNCHANGED after5
    \/ scenario = "hosting" /\ Hos!HostingNext /\ UNCHANGED after9
    \/ scenario = "accounts" /\ Acc!AccountNext /\ UNCHANGED after5
    \/ scenario = "tickets" /\ Tic!TicketNext /\ UNCHANGED after5
    \/ scenario = "mail" /\ Not!MailNext /\ UNCHANGED after10
    \/ scenario = "reminders" /\ (Not!ReminderNext \/ Not!NextDay \/ \E d \in Ones : Not!DomainRenewed(d)) /\ UNCHANGED after10
    \/ scenario = "alerts" /\ (Not!AlertNext \/ Not!RecipientsChange) /\ UNCHANGED after10
    \/ scenario = "digest" /\ (Not!DigestNext \/ Not!NextDay) /\ UNCHANGED after10
    \/ scenario \in Senders /\ Not!TaskDies /\ UNCHANGED after10
    \/ scenario = "lookups" /\ (Reg!TldNext \/ Reg!RestartNext)
    \/ scenario = "standard" /\ (Reg!StandardNext \/ Reg!RestartNext)
    \/ scenario = "settings" /\ Reg!ConfigNext
    \/ scenario = "bulk" /\ Reg!BulkNext
    \/ scenario = "servers" /\ Pan!EditNext /\ UNCHANGED after5
    \/ scenario = "calls" /\ (Pan!CallNext \/ Pan!MeanwhileNext) /\ UNCHANGED after5
    \/ scenario = "services" /\ Des!DeskNext /\ UNCHANGED after5
    \/ scenario = "products" /\ Cat!ProductNext /\ UNCHANGED after7
    \/ scenario = "currencies" /\ Cat!CurrencyNext /\ UNCHANGED after7
    \/ scenario = "rates" /\ Cat!RateNext /\ UNCHANGED after7

BusinessNext == BusinessStep /\ UNCHANGED scenario

BusinessSpec == BusinessInit /\ [][BusinessNext]_businessVars

-----------------------------------------------------------------------------
\* The type invariants of the components: what their documents and requests may hold.
BusinessTypeOK ==
    /\ scenario = "affiliates" => Aff!AffiliateTypeOK
    /\ scenario = "checkout" => Che!CheckoutTypeOK
    /\ scenario = "invoices" => Boo!BookTypeOK
    /\ scenario = "billables" => Bil!BillableTypeOK
    /\ scenario = "hosting" => Hos!HostingTypeOK
    /\ scenario = "accounts" => Acc!AccountTypeOK
    /\ scenario = "tickets" => Tic!TicketTypeOK
    /\ scenario \in Senders => Not!NoticeTypeOK
    /\ scenario \in Routers => Reg!RegistrarTypeOK
    /\ scenario \in Machinery => Pan!PanelTypeOK
    /\ scenario = "services" => Des!DeskTypeOK
    /\ scenario \in Shelves => Cat!CatalogueTypeOK

\* A buyer brings one commission, and the affiliate's credit, commissions and payout requests agree,
\* however often invoices are paid and reverted, unless calls crossed or died (affiliate.service.ts:318).
AccountsAgree == scenario = "affiliates" => Aff!CommissionOnce /\ Aff!AccountsAgree

\* A cycle of a billable item is billed once and no more than its limit of them, although a run may die
\* between the invoice and the advance of the item (billable-item.service.ts:187).
BilledOnce == scenario = "billables" => Bil!BilledOnce

\* A user has a client profile whichever route made him, but for the one a deletion does not find, and
\* sign-ins that cross get around the lock no more often than they cross (user.model.ts:184).
AccountsKept == scenario = "accounts" => Acc!ProfileKept /\ Acc!LockTakes

\* A client's reply asks for an answer until the staff saves the ticket again, or he resolves it, but for
\* a save that crossed the reply (ticket.controller.ts:285).
ReplyAsksAnswer == scenario = "tickets" => Tic!ReplyAsksAnswer

\* A reminder, an expiry notice and a digest are sent once but for a crash before the record, and of a
\* task that keeps failing the administrators hear again and again (automation-alert.service.ts:41).
NoticesReach == scenario \in Senders => Not!NoticeOnce /\ Not!AdminsHear

\* A domain is routed by what its TLD document said less than a TTL ago, however lookups and changes of
\* several processes cross, and what a bulk registration reports as registered is (tld.service.ts:71,
\* domain-registrar.service.ts:137).
RegistrationsSound == scenario \in Routers => Reg!RoutedFresh /\ Reg!ReportedTrue

\* A coupon is spent only within the limits it has at that moment, though they are looked at outside the
\* transaction that spends it (promotion.service.ts:179, :304).
CouponWithinLimits == [][(scenario = "checkout") => Che!CouponStep]_businessVars

\* An invoice leaves PAID only by an administrator, never by a late fee, overdue mark, edit or partial
\* payment that read it before (invoice-reminder.scheduler.ts:93, :148; invoice.service.ts:237).
PaidKept == [][(scenario = "invoices") => Boo!PaidStep]_businessVars

\* A server has no more accounts than its capacity but for one of each creation that checked it between
\* the check and the creation of another (order.service.ts:1261); paid hosting is not left suspended by
\* the end of its trial unless the payment crossed it (trial-lifecycle.scheduler.ts:25); and the password
\* staff is shown opens the account unless a request failed half-way or crossed another, the price being
\* in the currency it is labelled with unless the product has none in it (service-admin.service.ts:208, :673).
HostingSound ==
    /\ scenario = "hosting" => Hos!WithinCapacity /\ Hos!PaidRuns
    /\ scenario = "services" => Des!RevealedOpens /\ Des!PriceLabelled

\* A server that can be called stays so: a form without a token keeps the stored one, unless it looked
\* before any was there (server.service.ts:124); and what one request noted on a service goes only with a
\* save that had read the service before (service-admin.service.ts:524).
EditsKept ==
    [][/\ scenario \in Machinery => Pan!TokenStep
       /\ scenario = "services" => Des!MarkStep]_businessVars

\* Nothing names one of these values: those of a set may be exchanged for each other.
Interchangeable == Permutations(Firsts) \cup Permutations(Seconds) \cup Permutations(Thirds) \cup Permutations(Fourths)
=============================================================================

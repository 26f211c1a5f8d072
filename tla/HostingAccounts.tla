-------------------------- MODULE HostingAccounts --------------------------
(***************************************************************************)
(* Accounts on the WHM servers: createHostingAccountForOrderItem of         *)
(* order/order.service.ts as the payment's trigger, the administrator's     *)
(* order page (runModuleCreate), his retry of a service and the             *)
(* provisioning worker call it; and trials, accounts made before payment,   *)
(* which services/jobs/trial-lifecycle.scheduler.ts suspends and            *)
(* convertTrialServicesForPaidInvoice converts.                             *)
(*                                                                          *)
(* A call picks the emptiest server, checks its capacity, creates the        *)
(* account, and then writes the order item and the service one after the     *)
(* other.  An answer that is lost, or says the account exists, is           *)
(* reconciled by listing the server.  Service.meta is a Mixed path: changed  *)
(* in place, as trials change it, it is not saved.                           *)
(* Packages, passwords, locations, groups and details are left out, and each *)
(* order has one hosting item.                                              *)
(***************************************************************************)
EXTENDS Integers, FiniteSets

CONSTANTS
    Hostings,     \* order items of type HOSTING, each with its domain and service
    NoHosting,
    Servers,
    Users,        \* cPanel user names
    Creators,     \* calls under way
    Capacity,     \* maxAccounts of a server
    MaxCreates    \* bound: calls made

HostingNulls == NoHosting \notin Hostings
HostingBounds == /\ Capacity \in Nat /\ MaxCreates \in Nat
                 /\ IsFiniteSet(Users) /\ IsFiniteSet(Creators) /\ Creators # {}

VARIABLES
    accounts,   \* what each server has: the domain of each user
    itemMeta,   \* OrderItem.meta: the account recorded, or none
    hosting,    \* Service documents: status, whether they have the invoice's id, meta, account
    settled,    \* items whose invoice is paid
    ended,      \* items whose trial days are over
    creator,    \* calls
    trials,     \* the run of the trial scheduler
    converting, \* a conversion after a payment
    past        \* creates: calls made; crowded: servers checked by a call while another was
                \* between its check and its creation; late: items whose payment crossed the
                \* trial run, whose conversion died, or whose service did not know its invoice

hostingVars == <<accounts, itemMeta, hosting, settled, ended, creator, trials, converting, past>>

NoAccount == [server |-> "none", user |-> "none"]
Account == [server : Servers \cup {"none"}, user : Users \cup {"none"}]
HostingStates == {"absent", "PENDING", "PROVISIONING", "ACTIVE", "SUSPENDED", "FAILED"}
Callers == {"trigger", "module", "retry", "worker"}
Free == [at |-> "idle", kind |-> "none", item |-> NoHosting, meta |-> NoAccount, force |-> FALSE,
         trial |-> FALSE, account |-> NoAccount]

HostingTypeOK ==
    /\ accounts \in [Servers -> [Users -> Hostings \cup {NoHosting}]]
    /\ itemMeta \in [Hostings -> Account]
    /\ hosting \in [Hostings -> [status : HostingStates, linked : BOOLEAN, trial : BOOLEAN, account : Account]]
    /\ settled \subseteq Hostings /\ ended \subseteq Hostings
    /\ \A c \in Creators : /\ creator[c].at \in {"idle", "pick", "check", "create", "reconcile", "item", "service", "fail"}
                           /\ creator[c].account \in Account
    /\ trials.at \in {"idle", "look", "save", "job"} /\ converting.at \in {"idle", "job", "save"}

\* The services of an order; one made with the order does not know its invoice,
\* and there may be none yet.
HostingInit ==
    /\ accounts = [s \in Servers |-> [u \in Users |-> NoHosting]]
    /\ itemMeta = [i \in Hostings |-> NoAccount]
    /\ hosting \in [Hostings -> [status : {"absent", "PENDING"}, linked : {FALSE}, trial : {FALSE},
                                 account : {NoAccount}]]
    /\ settled = {} /\ ended = {}
    /\ creator = [c \in Creators |-> Free]
    /\ trials = [at |-> "idle", item |-> NoHosting]
    /\ converting = [at |-> "idle", item |-> NoHosting, status |-> "absent"]
    /\ past = [creates |-> 0, crowded |-> {}, late |-> {}]

-----------------------------------------------------------------------------
(* The WHM servers *)

Count(s) == Cardinality({u \in Users : accounts[s][u] # NoHosting})
DomainOn(s, i) == {u \in Users : accounts[s][u] = i}

\* listaccts, compared by domain and then by user name.
Listed(s, i, u) == IF DomainOn(s, i) # {} THEN DomainOn(s, i)
                   ELSE IF accounts[s][u] # NoHosting THEN {u} ELSE {}

-----------------------------------------------------------------------------
(* A call *)

Step(c, at) == creator' = [creator EXCEPT ![c].at = at]

\* The trigger has marked the service, the order page has read the order's
\* invoice, and only it and the worker go by what the item already has.
Start(c, i, kind, trial) ==
    /\ creator[c].at = "idle" /\ past.creates < MaxCreates
    /\ kind \in {"trigger", "worker"} => i \in settled
    /\ kind = "module" => (trial <=> i \notin settled)
    /\ kind # "module" => ~trial
    /\ kind \in {"retry", "worker"} => hosting[i].status # "absent"
    /\ creator' = [creator EXCEPT ![c] =
          [Free EXCEPT !.at = "pick", !.kind = kind, !.item = i, !.meta = itemMeta[i], !.trial = trial,
                       !.force = kind \in {"trigger", "retry"} \/ (kind = "worker" /\ hosting[i].status = "PROVISIONING")]]
    /\ hosting' = IF kind = "trigger" /\ hosting[i].status \notin {"absent", "ACTIVE"}
                  THEN [hosting EXCEPT ![i].status = "PROVISIONING"] ELSE hosting
    /\ past' = [past EXCEPT !.creates = @ + 1]
    /\ UNCHANGED <<accounts, itemMeta, settled, ended, trials, converting>>

\* The account the item was read with, without asking the server.
Known(c) ==
    /\ creator[c].at = "pick" /\ ~creator[c].force /\ creator[c].meta # NoAccount
    /\ creator' = [creator EXCEPT ![c].at = "service", ![c].account = creator[c].meta]
    /\ UNCHANGED <<accounts, itemMeta, hosting, settled, ended, trials, converting, past>>

\* Of the servers whose count could be read, the emptiest with room; the
\* administrator may name a server.  Full or unreadable, the call fails.
Readable(s, S) == s \in S /\ Count(s) < Capacity
Pick(c) ==
    /\ creator[c].at = "pick" /\ (creator[c].force \/ creator[c].meta = NoAccount)
    /\ \/ \E S \in SUBSET Servers, s \in Servers :
             /\ Readable(s, S) /\ \A t \in S : Readable(t, S) => Count(s) <= Count(t)
             /\ creator' = [creator EXCEPT ![c].at = "check", ![c].account.server = s]
       \/ /\ creator[c].kind \in {"module", "retry"}
          /\ \E s \in Servers : creator' = [creator EXCEPT ![c].at = "check", ![c].account.server = s]
       \/ Step(c, "fail")
    /\ UNCHANGED <<accounts, itemMeta, hosting, settled, ended, trials, converting, past>>

\* Mistake: one more account fits.
HasRoomMore(s) == Count(s) <= Capacity
HasRoom(s) == Count(s) < Capacity

Check(c) ==
    LET s == creator[c].account.server
    IN /\ creator[c].at = "check" /\ HasRoom(s)
       /\ \E u \in Users : creator' = [creator EXCEPT ![c].at = "create", ![c].account.user = u]
       /\ past' = [past EXCEPT !.crowded =
             IF \E d \in Creators : creator[d].at = "create" /\ creator[d].account.server = s
             THEN @ \cup {s} ELSE @]
       /\ UNCHANGED <<accounts, itemMeta, hosting, settled, ended, trials, converting>>

Full(c) ==
    /\ creator[c].at = "check" /\ ~HasRoom(creator[c].account.server)
    /\ Step(c, "fail")
    /\ UNCHANGED <<accounts, itemMeta, hosting, settled, ended, trials, converting, past>>

\* The server refuses a user name or a domain it has; its answer may be lost.
CreateAccount(c) ==
    LET a == creator[c].account
        i == creator[c].item
        makes == accounts[a.server][a.user] = NoHosting /\ DomainOn(a.server, i) = {}
    IN /\ creator[c].at = "create"
       /\ \/ /\ makes
             /\ accounts' = [accounts EXCEPT ![a.server][a.user] = i]
             /\ Step(c, "item") \/ Step(c, "reconcile")
          \/ /\ ~makes
             /\ Step(c, "reconcile")
             /\ UNCHANGED accounts
          \/ /\ Step(c, "reconcile") \/ Step(c, "fail")
             /\ UNCHANGED accounts
       /\ UNCHANGED <<itemMeta, hosting, settled, ended, trials, converting, past>>

Reconcile(c) ==
    LET a == creator[c].account
        found == Listed(a.server, creator[c].item, a.user)
    IN /\ creator[c].at = "reconcile"
       /\ \/ \E u \in found : creator' = [creator EXCEPT ![c].at = "item", ![c].account.user = u]
          \/ Step(c, "fail")
       /\ UNCHANGED <<accounts, itemMeta, hosting, settled, ended, trials, converting, past>>

RecordItem(c) ==
    /\ creator[c].at = "item"
    /\ itemMeta' = [itemMeta EXCEPT ![creator[c].item] = creator[c].account]
    /\ Step(c, "service")
    /\ UNCHANGED <<accounts, hosting, settled, ended, trials, converting, past>>

\* The service, created by the order page where there is none, is ACTIVE
\* whatever it was; a trial's mark stays, and a paid creation does not remove it.
ActivateHosting(c) ==
    LET i == creator[c].item
        h == hosting[i]
    IN /\ creator[c].at = "service"
       /\ hosting' = IF h.status = "absent" /\ creator[c].kind # "module" THEN hosting
                     ELSE [hosting EXCEPT ![i] = [status |-> "ACTIVE", account |-> creator[c].account,
                                                  linked |-> h.linked \/ h.status = "absent",
                                                  trial |-> h.trial \/ creator[c].trial]]
       /\ creator' = [creator EXCEPT ![c] = Free]
       /\ UNCHANGED <<accounts, itemMeta, settled, ended, trials, converting, past>>

\* The administrator is told of the error, the others mark the service.
CreateFails(c) ==
    LET i == creator[c].item
    IN /\ creator[c].at = "fail"
       /\ hosting' = IF creator[c].kind \in {"module", "retry"} \/ hosting[i].status = "absent" THEN hosting
                     ELSE [hosting EXCEPT ![i].status = "FAILED"]
       /\ creator' = [creator EXCEPT ![c] = Free]
       /\ UNCHANGED <<accounts, itemMeta, settled, ended, trials, converting, past>>

CreatorDies(c) ==
    /\ creator[c].at # "idle"
    /\ creator' = [creator EXCEPT ![c] = Free]
    /\ UNCHANGED <<accounts, itemMeta, hosting, settled, ended, trials, converting, past>>

-----------------------------------------------------------------------------
(* Trials *)

TrialEnds(i) ==
    /\ hosting[i].trial /\ i \notin ended
    /\ ended' = ended \cup {i}
    /\ UNCHANGED <<accounts, itemMeta, hosting, settled, creator, trials, converting, past>>

FindExpired(i) ==
    /\ trials.at = "idle" /\ hosting[i].status = "ACTIVE" /\ hosting[i].trial /\ i \in ended
    /\ trials' = [at |-> "look", item |-> i]
    /\ UNCHANGED <<accounts, itemMeta, hosting, settled, ended, creator, converting, past>>

\* Mistake: the invoice is not looked at.
SeenPaidNever(i) == FALSE
SeenPaid(i) == hosting[i].linked /\ i \in settled

\* Without the invoice's id the service counts as unpaid.
LookAtInvoice ==
    /\ trials.at = "look"
    /\ trials' = [trials EXCEPT !.at = IF SeenPaid(trials.item) THEN "idle" ELSE "save"]
    /\ past' = [past EXCEPT !.late = @ \cup {i \in {trials.item} \cap settled : ~hosting[i].linked}]
    /\ UNCHANGED <<accounts, itemMeta, hosting, settled, ended, creator, converting>>

\* meta.trialSuspendedAt is set in place and not saved.
SuspendTrial ==
    /\ trials.at = "save"
    /\ hosting' = [hosting EXCEPT ![trials.item].status = "SUSPENDED"]
    /\ trials' = [trials EXCEPT !.at = "job"]
    /\ UNCHANGED <<accounts, itemMeta, settled, ended, creator, converting, past>>

\* The job, unless there is one; or the process dies. For the job see ServiceActionQueue.
QueueTrialJob ==
    /\ trials.at = "job"
    /\ trials' = [trials EXCEPT !.at = "idle"]
    /\ UNCHANGED <<accounts, itemMeta, hosting, settled, ended, creator, converting, past>>

TrialRunDies ==
    /\ trials.at # "idle"
    /\ trials' = [trials EXCEPT !.at = "idle"]
    /\ UNCHANGED <<accounts, itemMeta, hosting, settled, ended, creator, converting, past>>

\* A payment; the trials of the invoice or its order are read.
Convert(i) ==
    /\ i \notin settled /\ converting.at = "idle"
    /\ settled' = settled \cup {i}
    /\ converting' = IF hosting[i].trial
                     THEN [at |-> IF hosting[i].status = "SUSPENDED" THEN "job" ELSE "save",
                           item |-> i, status |-> hosting[i].status]
                     ELSE converting
    /\ past' = [past EXCEPT !.late = @ \cup {j \in {i} : trials.item = i /\ trials.at = "save"}]
    /\ UNCHANGED <<accounts, itemMeta, hosting, ended, creator, trials>>

\* The UNSUSPEND job comes before the service is saved.
ConvertJob ==
    /\ converting.at = "job"
    /\ converting' = [converting EXCEPT !.at = "save"]
    /\ UNCHANGED <<accounts, itemMeta, hosting, settled, ended, creator, trials, past>>

\* The marks in meta are taken off in place and not saved.
SaveConverted ==
    /\ converting.at = "save"
    /\ hosting' = IF converting.status = "SUSPENDED"
                  THEN [hosting EXCEPT ![converting.item].status = "ACTIVE"] ELSE hosting
    /\ converting' = [converting EXCEPT !.at = "idle"]
    /\ UNCHANGED <<accounts, itemMeta, settled, ended, creator, trials, past>>

ConversionDies ==
    /\ converting.at # "idle"
    /\ converting' = [converting EXCEPT !.at = "idle"]
    /\ past' = [past EXCEPT !.late = @ \cup {converting.item}]
    /\ UNCHANGED <<accounts, itemMeta, hosting, settled, ended, creator, trials>>

Creating(c) ==
    \/ \E i \in Hostings, kind \in Callers, trial \in BOOLEAN : Start(c, i, kind, trial)
    \/ Known(c) \/ Pick(c) \/ Check(c) \/ Full(c) \/ CreateAccount(c) \/ Reconcile(c)
    \/ RecordItem(c) \/ ActivateHosting(c) \/ CreateFails(c) \/ CreatorDies(c)

Trialling ==
    \/ \E i \in Hostings : TrialEnds(i) \/ FindExpired(i) \/ Convert(i)
    \/ LookAtInvoice \/ SuspendTrial \/ QueueTrialJob \/ TrialRunDies
    \/ ConvertJob \/ SaveConverted \/ ConversionDies

HostingNext == (\E c \in Creators : Creating(c)) \/ Trialling

HostingSpec == HostingInit /\ [][HostingNext]_hostingVars

-----------------------------------------------------------------------------
(* Properties *)

\* A server has no more accounts than its capacity, whatever calls fail, die or
\* lose their answer, unless a call checked it between another's check and
\* creation; and then no more than one for each such call (order.service.ts:1261).
WithinCapacity ==
    \A s \in Servers :
       /\ Count(s) > Capacity => s \in past.crowded
       /\ Count(s) <= Capacity + Cardinality(Creators) - 1

\* Paid hosting is not left suspended by the end of its trial: neither an expiry
\* noticed late nor one noticed again, the mark of the first not being saved;
\* unless the payment crossed the run, its conversion died, or the service does
\* not know its invoice (trial-lifecycle.scheduler.ts:25).
PaidRuns ==
    \A i \in settled : hosting[i].status = "SUSPENDED" =>
        i \in past.late \/ (converting.item = i /\ converting.at # "idle")

-----------------------------------------------------------------------------
(* Why: the accounts of a server and the calls about to create one on it     *)
(* share its room, and a trial is suspended only if its payment crossed the  *)
(* run that looked at the invoice.                                           *)

ServiceDoc == [status : HostingStates, linked : BOOLEAN, trial : BOOLEAN, account : Account]
CreatorDoc == [at : {"idle", "pick", "check", "create", "reconcile", "item", "service", "fail"},
               kind : Callers \cup {"none"}, item : Hostings \cup {NoHosting}, meta : Account, force : BOOLEAN,
               trial : BOOLEAN, account : Account]

DocsOK ==
    /\ accounts \in [Servers -> [Users -> Hostings \cup {NoHosting}]] /\ itemMeta \in [Hostings -> Account]
    /\ hosting \in [Hostings -> ServiceDoc] /\ settled \in SUBSET Hostings /\ ended \in SUBSET Hostings
    /\ creator \in [Creators -> CreatorDoc]
    /\ trials \in [at : {"idle", "look", "save", "job"}, item : Hostings \cup {NoHosting}]
    /\ converting \in [at : {"idle", "job", "save"}, item : Hostings \cup {NoHosting}, status : HostingStates]
    /\ past \in [creates : Nat, crowded : SUBSET Servers, late : SUBSET Hostings]

\* A call that has picked a server, and a user name, is about one.
CallOK(m) ==
    /\ m.at # "idle" => m.item \in Hostings
    /\ m.at \in {"check", "create", "reconcile", "item"} => m.account.server \in Servers
    /\ m.at \in {"create", "reconcile", "item"} => m.account.user \in Users

\* The calls between their check of a server and their creation on it.
Between(s) == {c \in Creators : creator[c].at = "create" /\ creator[c].account.server = s}

RoomShared ==
    \A s \in Servers :
       /\ Count(s) + Cardinality(Between(s)) <= Capacity + Cardinality(Creators) - 1
       /\ s \notin past.crowded => Count(s) + Cardinality(Between(s)) <= Capacity

Running(i) == trials.item = i /\ trials.at \in {"look", "save"}
Converting(i) == converting.item = i /\ converting.at # "idle"

TrialsOK ==
    /\ trials.at # "idle" => trials.item \in Hostings
    /\ converting.at # "idle" => converting.item \in settled
    /\ converting.at = "job" => converting.status = "SUSPENDED"
    /\ \A i \in Hostings :
          /\ Running(i) \/ hosting[i].status = "SUSPENDED" => hosting[i].trial
          /\ i \in settled /\ trials.item = i /\ trials.at = "save" => i \in past.late
          /\ Converting(i) /\ converting.status # "SUSPENDED" /\ hosting[i].status = "SUSPENDED" => i \in past.late
    /\ PaidRuns

HostingInv == DocsOK /\ (\A c \in Creators : CallOK(creator[c])) /\ RoomShared /\ TrialsOK
=============================================================================

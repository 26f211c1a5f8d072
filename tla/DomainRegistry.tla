--------------------------- MODULE DomainRegistry ---------------------------
(***************************************************************************)
(* Domain services, the record each keeps of its domain, and the registrar  *)
(* both speak of: registration by the provisioning worker, synchronisation  *)
(* on request and on schedule, the recovery and import of domains that the  *)
(* registrar holds without a record, the settings a client changes, and the *)
(* status an administrator sets (domain/domain.service.ts,                  *)
(* services/jobs/domain-sync.scheduler.ts,                                  *)
(* services/provisioning/providers/domain.provider.ts).                     *)
(*                                                                          *)
(* Every operation awaits the registrar or the database between its steps.  *)
(* A caller (a request, a cron run, a provisioning job) is at one place of   *)
(* one operation and remembers what it has read: the records move on.       *)
(*                                                                          *)
(* Nameservers, lock, contacts and DNS zone are handled alike and are one   *)
(* setting here.  Statuses of a lapsed domain (grace, redemption, expired)   *)
(* are one, and so are those of a lost one (away, cancelled, fraud): the    *)
(* code only asks whether a domain is active.  Time is counted in years,    *)
(* and a record is fresh (lastRegistrarSyncAt) until a day passes for it.   *)
(***************************************************************************)
EXTENDS Integers, FiniteSets

CONSTANTS
    Services,    \* domain services, existing ones and those imports create
    Ordered,     \* those that exist at first
    Names,       \* fully qualified domain names
    Requests,    \* requests and provisioning jobs under way at one time
    Cron,        \* the run of the domain synchronisation tasks
    Registrars,  \* among dynadot and namely
    NoService, NoName,
    Batch,       \* records one run of the expiry synchronisation takes: 20
    MaxTime,     \* bound: years
    MaxOps,      \* bound: requests and jobs begun
    MaxFaults    \* bound: answers lost, callers that die, names that leave

ASSUME OrderedAssumption == Ordered \subseteq Services
ASSUME NullsAssumption == NoService \notin Services /\ NoName \notin Names /\ Cron \notin Requests
ASSUME DomainBounds == {Batch, MaxTime, MaxOps, MaxFaults} \subseteq Nat

VARIABLES
    now,        \* years gone by
    registry,   \* what the registrar knows of each name
    provider,   \* the registrar of each name
    service,    \* [status, name ordered, kind of order, waits for confirmation]
    details,    \* DomainServiceDetails of each service, or NoDetails
    tracked,    \* names in the collection RegistrarDiscoveredDomain
    call,       \* where each caller is, and what it has read
    used,       \* used parts of the bounds
    history     \* [raced, left]: see DomainTypeOK

registryVars == <<now, registry, provider, service, details, tracked, call, used, history>>

Callers == Requests \cup {Cron}
Status == {"absent", "PENDING", "PROVISIONING", "ACTIVE", "FAILED",
           "SUSPENDED", "TERMINATED", "CANCELLED"}
Recoverable == {"PENDING", "PROVISIONING", "FAILED"}
Syncable == Recoverable \cup {"ACTIVE", "SUSPENDED"}
Phases == {"active", "lapsed", "lost"}
Transfers == {"none", "PENDING", "COMPLETED", "REJECTED"}
Settings == {"old", "new"}
Years == 0 .. MaxTime + 1
Unset == -1     \* no expiresAt yet

NoDetails == [name |-> NoName, exp |-> Unset, op |-> "REGISTER", transfer |-> "none",
              lifecycle |-> "pending", synced |-> FALSE, fresh |-> FALSE,
              imported |-> FALSE, manual |-> FALSE, setting |-> "old"]
NoLive == [exp |-> Unset, lifecycle |-> "pending", setting |-> "old"]
NothingSeen == [status |-> "absent", waits |-> FALSE, d |-> NoDetails]
Idle == [op |-> "none", at |-> "idle", s |-> NoService, n |-> NoName,
         seen |-> NothingSeen, live |-> NoLive]

Details == [name : Names \cup {NoName}, exp : Years \cup {Unset}, op : {"REGISTER", "TRANSFER"},
            transfer : Transfers, lifecycle : Phases \cup {"pending"}, synced : BOOLEAN,
            fresh : BOOLEAN, imported : BOOLEAN, manual : BOOLEAN, setting : Settings]
Ops == {"none", "sync", "cron", "transfer", "adopt", "import", "takeover", "confirm",
        "provision", "get", "save", "admin"}
Stages == {"idle", "parent", "live", "assert", "create", "upsert", "attach", "store",
           "service", "confirm", "register", "persist", "activate", "send", "poll", "details"}

DomainTypeOK ==
    /\ now \in 0 .. MaxTime
    /\ registry \in [Names -> [held : BOOLEAN, exp : Years, phase : Phases,
                               transfer : Transfers, setting : Settings]]
    /\ provider \in [Names -> Registrars]
    /\ service \in [Services -> [status : Status, name : Names \cup {NoName},
                                 kind : {"REGISTER", "TRANSFER"}, waits : BOOLEAN]]
    /\ details \in [Services -> Details]
    /\ tracked \in SUBSET Names
    /\ call \in [Callers ->
          [op : Ops, at : Stages, s : Services \cup {NoService}, n : Names \cup {NoName},
           seen : [status : Status, waits : BOOLEAN, d : Details],
           live : [exp : Years \cup {Unset}, lifecycle : Phases \cup {"pending"},
                   setting : Settings]]]
    /\ used \in [ops : 0 .. MaxOps, faults : 0 .. MaxFaults]
    /\ history \in [raced : SUBSET Names,  \* two callers were at once between the look for
                                           \* a link to the name and their own link to it
                    left : SUBSET Names]   \* names that left the account

RegistryInit ==
    /\ now = 0
    /\ provider \in [Names -> Registrars]
    /\ \E ready \in BOOLEAN, kind \in {"REGISTER", "TRANSFER"}, name \in [Ordered -> Names] :
          /\ ready => kind = "REGISTER" /\ \A s, t \in Ordered : name[s] = name[t] => s = t
          /\ service = [s \in Services |->
                [status |-> CASE s \notin Ordered -> "absent"
                              [] s \in Ordered /\ ready -> "ACTIVE"
                              [] OTHER -> "PENDING",
                 name |-> IF s \in Ordered THEN name[s] ELSE NoName,
                 kind |-> kind, waits |-> FALSE]]
          /\ details = [s \in Services |->
                IF s \in Ordered /\ ready
                THEN [NoDetails EXCEPT !.name = name[s], !.exp = 0, !.lifecycle = "active",
                                       !.synced = TRUE, !.fresh = TRUE]
                ELSE NoDetails]
          /\ registry = [n \in Names |->
                [held |-> ready /\ (\E s \in Ordered : name[s] = n), exp |-> 0, phase |-> "active",
                 transfer |-> "none", setting |-> "old"]]
    /\ tracked = {}
    /\ call = [c \in Callers |-> Idle]
    /\ used = [ops |-> 0, faults |-> 0]
    /\ history = [raced |-> {}, left |-> {}]

-----------------------------------------------------------------------------
(* What callers and registrars say *)

Exists(s) == service[s].status # "absent"
Recorded(s) == details[s].name # NoName
Linked(n) == {s \in Services : Recorded(s) /\ details[s].name = n}

\* The name of a service: that of its record, else that of its order item.
NameOf(s) == IF Recorded(s) THEN details[s].name ELSE service[s].name

\* Of a record it has read a caller uses neither expiry date, settings nor age.
Trimmed(d) == [d EXCEPT !.exp = Unset, !.setting = "old", !.fresh = FALSE]
Seen(s) == [status |-> service[s].status, waits |-> service[s].waits, d |-> Trimmed(details[s])]

InfoDynadot(n) == [exp |-> registry[n].exp, lifecycle |-> registry[n].phase,
                   setting |-> registry[n].setting]
\* Namely has no call for the status or the expiry of a domain: its provider
\* reports an active domain that expires a year from now.
InfoNamely(n) == [exp |-> now + 1, lifecycle |-> "active", setting |-> registry[n].setting]
Info(n) == IF provider[n] = "namely" THEN InfoNamely(n) ELSE InfoDynadot(n)

\* Nor has it one for the state of a transfer, which it reports as pending.
TransferState(n) == IF provider[n] = "namely" THEN "PENDING" ELSE registry[n].transfer

\* Mistake: the transfer's own status for that of the domain.
LifecycleRaw(op, transfer, live) == IF op = "TRANSFER" THEN transfer ELSE live.lifecycle
\* deriveLifecycleStatus(FromLiveInfo): an unfinished transfer hides what the
\* registrar says of the domain.
Lifecycle(op, transfer, live) ==
    CASE op = "TRANSFER" /\ transfer = "REJECTED" -> "lost"
      [] op = "TRANSFER" /\ transfer \notin {"REJECTED", "COMPLETED"} -> "pending"
      [] OTHER -> IF live.lifecycle = "active" /\ live.exp < now THEN "lapsed"
                  ELSE live.lifecycle

\* Of what they read, these use more than that it is there.
Readers == {"sync", "confirm", "provision"}

\* Requests differ only in what they do: a new one takes the first free slot.
Begin(c, op, s, n, at) ==
    /\ c \in Requests /\ call[c] = Idle
    /\ c = CHOOSE b \in Requests : call[b] = Idle
    /\ used.ops < MaxOps
    /\ used' = [used EXCEPT !.ops = @ + 1]
    /\ call' = [call EXCEPT ![c] =
          [op |-> op, at |-> at, s |-> s, n |-> n, live |-> NoLive,
           seen |-> IF op \in Readers THEN Seen(s) ELSE NothingSeen]]

At(c, ops, at) == call[c].op \in ops /\ call[c].at = at
Go(c, at) == call' = [call EXCEPT ![c].at = at]
End(c) == call' = [call EXCEPT ![c] = Idle]
Faulty == used.faults < MaxFaults /\ used' = [used EXCEPT !.faults = @ + 1]

SetStatus(s, status) == service' = [service EXCEPT ![s].status = status]

\* Between its look for a link and its own link a caller trusts what it saw; a
\* provisioning job links without a look, from the registrar's acceptance on.
Trusting(c, n) == call[c].n = n /\ call[c].at \in {"upsert", "persist"}
EnterTrust(c) ==
    LET n == call[c].n
    IN history' = IF \E b \in Callers \ {c} : Trusting(b, n)
                  THEN [history EXCEPT !.raced = @ \cup {n}] ELSE history

-----------------------------------------------------------------------------
(* Operations begin *)

\* An administrator's syncDomainByServiceId, bulkSyncDomains being several.
SyncStart(c, s) ==
    /\ Exists(s) /\ NameOf(s) # NoName
    /\ Begin(c, "sync", s, NameOf(s), "live")
    /\ UNCHANGED <<now, registry, provider, service, details, tracked, history>>

AdoptStart(c, s, n) ==
    /\ service[s].status \in Recoverable
    /\ Begin(c, "adopt", s, n, "live")
    /\ UNCHANGED <<now, registry, provider, service, details, tracked, history>>

ImportStart(c, op, n) ==
    /\ Begin(c, op, NoService, n, "live")
    /\ UNCHANGED <<now, registry, provider, service, details, tracked, history>>

ConfirmStart(c, s) ==
    /\ Exists(s) /\ Recorded(s)
    /\ Begin(c, "confirm", s, details[s].name, "confirm")
    /\ UNCHANGED <<now, registry, provider, service, details, tracked, history>>

\* The worker marks the service PROVISIONING and remembers its meta.
ProvisionStart(c, s) ==
    /\ service[s].status \in Recoverable /\ service[s].name # NoName
    /\ Begin(c, "provision", s, service[s].name, "register")
    /\ SetStatus(s, "PROVISIONING")
    /\ UNCHANGED <<now, registry, provider, details, tracked, history>>

\* Reading and saving the nameservers and the lock of a recorded domain.
SettingStart(c, op, s) ==
    /\ Recorded(s)
    /\ Begin(c, op, s, details[s].name, IF op = "get" THEN "live" ELSE "send")
    /\ UNCHANGED <<now, registry, provider, service, details, tracked, history>>

\* The expiry synchronisation takes records not synchronised for a day, whoever
\* did it; the transfer synchronisation those whose transfer is pending.
Due(s) == Recorded(s) /\ ~details[s].fresh
InTransfer(s) == Recorded(s) /\ details[s].op = "TRANSFER" /\ details[s].transfer = "PENDING"

CronStart(op, s) ==
    /\ call[Cron] = Idle
    /\ IF op = "transfer" THEN InTransfer(s) ELSE Due(s)
    /\ call' = [call EXCEPT ![Cron] =
          [Idle EXCEPT !.op = op, !.at = "parent", !.s = s, !.n = details[s].name,
                       !.seen.d = Trimmed(details[s])]]
    /\ UNCHANGED <<now, registry, provider, service, details, tracked, used, history>>

\* Mistake: only active services are synchronised.
ParentStatusesActive(op) == {"ACTIVE"}
ParentStatuses(op) == IF op = "cron" THEN Syncable ELSE {"ACTIVE"}

CronParent ==
    LET s == call[Cron].s
    IN /\ At(Cron, {"cron", "transfer"}, "parent")
       /\ IF service[s].status \in ParentStatuses(call[Cron].op)
          THEN call' = [call EXCEPT ![Cron].at = IF @ = "parent" /\ call[Cron].op = "cron"
                                                 THEN "live" ELSE "poll",
                                    ![Cron].seen.status = service[s].status,
                                    ![Cron].seen.waits = service[s].waits]
          ELSE End(Cron)
       /\ UNCHANGED <<now, registry, provider, service, details, tracked, used, history>>

-----------------------------------------------------------------------------
(* The registrar answers *)

AfterLive(c) ==
    CASE call[c].op \in {"adopt", "import", "takeover"} -> "assert"
      [] call[c].op = "sync" /\ call[c].seen.d = NoDetails -> "assert"
      [] OTHER -> "store"

LiveAnswer(c) ==
    /\ call[c].at = "live"
    /\ registry[call[c].n].held
    /\ call' = [call EXCEPT ![c].at = AfterLive(c), ![c].live = Info(call[c].n)]
    /\ UNCHANGED <<now, registry, provider, service, details, tracked, used, history>>

\* A sync notes the failure in the record, an adoption tracks the name.
LiveFails(c) ==
    LET s == call[c].s
        n == call[c].n
    IN /\ call[c].at = "live"
       /\ IF registry[n].held THEN Faulty ELSE UNCHANGED used
       /\ details' = IF call[c].op = "sync" /\ Recorded(s)
                     THEN [details EXCEPT ![s].synced = FALSE] ELSE details
       /\ tracked' = IF call[c].op \in {"adopt", "import", "takeover"}
                     THEN tracked \cup {n} ELSE tracked
       /\ End(c)
       /\ UNCHANGED <<now, registry, provider, service, history>>

-----------------------------------------------------------------------------
(* Linking a name to a service *)

\* Mistake: only the caller's own record is looked for.
NotLinkedSelf(n, s, found) ==
    IF s \in Linked(n) THEN found = s ELSE found = NoService
\* findOne returns one record of the name, whichever it meets first; the record
\* of the caller's own service is no obstacle.
NotLinked(n, s, found) == IF Linked(n) = {} THEN found = NoService
                          ELSE found \in Linked(n)

\* assertDomainNotLinkedToAnotherService; an import asks once before it creates
\* its service, and like the others once more before it links.
Assert(c) ==
    LET s == call[c].s
        import == call[c].op \in {"import", "takeover"} /\ s = NoService
    IN /\ call[c].at = "assert"
       /\ \E found \in Services \cup {NoService} :
             /\ NotLinked(call[c].n, s, found)
             /\ IF found = NoService \/ found = s
                THEN IF import THEN Go(c, "create") /\ UNCHANGED <<details, history>>
                               ELSE Go(c, "upsert") /\ EnterTrust(c) /\ UNCHANGED details
                ELSE /\ End(c)
                     /\ details' = IF call[c].op = "sync" /\ Recorded(s)
                                   THEN [details EXCEPT ![s].synced = FALSE] ELSE details
                     /\ UNCHANGED history
       /\ UNCHANGED <<now, registry, provider, service, tracked, used>>

\* Order, order item and service of an import; nothing undoes them.
ImportCreate(c, s) ==
    /\ At(c, {"import", "takeover"}, "create")
    /\ ~Exists(s)
    /\ service' = [service EXCEPT ![s] = [status |-> "PROVISIONING", name |-> call[c].n,
                                         kind |-> "REGISTER", waits |-> TRUE]]
    /\ call' = [call EXCEPT ![c].s = s, ![c].at = "assert"]
    /\ UNCHANGED <<now, registry, provider, details, tracked, used, history>>

\* upsertAdoptedDomainDetails: the fields it does not name are kept.
Upsert(c) ==
    LET s == call[c].s
        record == [details[s] EXCEPT !.name = call[c].n, !.exp = call[c].live.exp,
                      !.op = "REGISTER", !.synced = TRUE, !.imported = TRUE, !.fresh = TRUE,
                      !.setting = call[c].live.setting,
                      !.lifecycle = Lifecycle("REGISTER", "none", call[c].live)]
    IN /\ call[c].at = "upsert"
       /\ details' = [details EXCEPT ![s] = record]
       /\ tracked' = tracked \cup {call[c].n}
       /\ call' = CASE call[c].op = "adopt" -> [call EXCEPT ![c].at = "attach"]
                    [] call[c].op = "sync" ->
                         [call EXCEPT ![c].at = "store", ![c].seen.d = Trimmed(record)]
                    [] call[c].op = "takeover" ->
                         [call EXCEPT ![c].at = "confirm", ![c].seen = [@ EXCEPT !.d = Trimmed(record),
                                           !.status = service[s].status, !.waits = service[s].waits]]
                    [] OTHER -> [call EXCEPT ![c] = Idle]
       /\ UNCHANGED <<now, registry, provider, service, used, history>>

\* The status read at the start of the adoption is not looked at again.
Attach(c) ==
    /\ At(c, {"adopt"}, "attach")
    /\ service' = [service EXCEPT ![call[c].s].status = "PROVISIONING",
                                  ![call[c].s].waits = TRUE]
    /\ End(c)
    /\ UNCHANGED <<now, registry, provider, details, tracked, used, history>>

\* confirmRecoveredDomainService, with the service and record it has read.
MayConfirm(seen) == seen.d.synced /\ (seen.waits \/ seen.d.imported)

Confirm(c) ==
    LET s == call[c].s
    IN /\ At(c, {"confirm", "takeover"}, "confirm")
       /\ service' = IF MayConfirm(call[c].seen)
                     THEN [service EXCEPT ![s].status = "ACTIVE", ![s].waits = FALSE]
                     ELSE service
       /\ End(c)
       /\ UNCHANGED <<now, registry, provider, details, tracked, used, history>>

-----------------------------------------------------------------------------
(* Synchronisation *)

\* A sync asks for the state of a pending transfer, and keeps the old one when
\* that fails; it takes no notice of a manual status, the cron does.
NextTransfer(c) ==
    LET d == call[c].seen.d
    IN IF call[c].op = "sync" /\ d.op = "TRANSFER" /\ d.transfer = "PENDING"
       THEN {d.transfer, TransferState(call[c].n)} \ {"none"} ELSE {d.transfer}

Kept(c) == call[c].op = "cron" /\ call[c].seen.d.manual

Refreshed(c, s, transfer, lifecycle) ==
    [details[s] EXCEPT !.exp = call[c].live.exp, !.setting = call[c].live.setting,
                       !.lifecycle = lifecycle, !.synced = TRUE, !.fresh = TRUE,
                       !.transfer = IF call[c].op = "sync" THEN transfer ELSE @]

Store(c) ==
    LET s == call[c].s
        d == call[c].seen.d
    IN /\ At(c, {"sync", "cron"}, "store")
       /\ \E transfer \in NextTransfer(c) :
             LET lifecycle == IF Kept(c) THEN d.lifecycle
                              ELSE Lifecycle(d.op, transfer, call[c].live)
             IN /\ details' = [details EXCEPT ![s] = Refreshed(c, s, transfer, lifecycle)]
                /\ call' = [call EXCEPT ![c].at = "service", ![c].live.lifecycle = lifecycle]
       /\ UNCHANGED <<now, registry, provider, service, tracked, used, history>>

\* A manual sync activates whatever is not waiting; the cron only what it read
\* as pending, provisioning or failed.
Activates(c) ==
    /\ call[c].live.lifecycle = "active"
    /\ ~call[c].seen.waits
    /\ call[c].op = "cron" => call[c].seen.status \in Recoverable

SyncService(c) ==
    /\ At(c, {"sync", "cron"}, "service")
    /\ IF Activates(c) THEN SetStatus(call[c].s, "ACTIVE") ELSE UNCHANGED service
    /\ End(c)
    /\ UNCHANGED <<now, registry, provider, details, tracked, used, history>>

\* processDomainTransferSync: any answer makes the record fresh, that the
\* transfer is still pending too.
Poll ==
    LET s == call[Cron].s
        n == call[Cron].n
        answer == TransferState(n)
        closed == [details[s] EXCEPT !.transfer = answer, !.fresh = TRUE,
                     !.lifecycle = IF answer = "COMPLETED" THEN "active" ELSE "lost",
                     !.exp = IF answer = "COMPLETED" THEN registry[n].exp ELSE @]
    IN /\ At(Cron, {"transfer"}, "poll")
       /\ details' = IF answer \in {"COMPLETED", "REJECTED"}
                     THEN [details EXCEPT ![s] = closed]
                     ELSE [details EXCEPT ![s].fresh = TRUE]
       /\ End(Cron)
       /\ UNCHANGED <<now, registry, provider, service, tracked, used, history>>

\* The registrar may refuse to answer about a name that is not in the account.
PollFails ==
    /\ At(Cron, {"transfer"}, "poll")
    /\ ~registry[call[Cron].n].held
    /\ End(Cron)
    /\ UNCHANGED <<now, registry, provider, service, details, tracked, used, history>>

-----------------------------------------------------------------------------
(* Registration by the provisioning worker *)

\* The registrar refuses a name it already holds, by any of the messages that
\* make the failure recoverable; its acceptance may be lost on the way.
Register(c) ==
    LET n == call[c].n
        s == call[c].s
        accepted == [held |-> TRUE, exp |-> now + 1, phase |-> "active", setting |-> "old",
                     transfer |-> IF service[s].kind = "TRANSFER" THEN "PENDING" ELSE "none"]
    IN /\ At(c, {"provision"}, "register")
       /\ ~registry[n].held
       /\ registry' = [registry EXCEPT ![n] = accepted]
       /\ \/ Go(c, "persist") /\ EnterTrust(c) /\ UNCHANGED <<service, used>>
          \/ /\ Faulty
             /\ SetStatus(s, "FAILED") /\ End(c) /\ UNCHANGED history
       /\ UNCHANGED <<now, provider, details, tracked>>

\* failedUpdate.meta is the meta read at the start.
ProvisionFails(c) ==
    LET s == call[c].s
    IN /\ \/ /\ At(c, {"provision"}, "register")
             /\ registry[call[c].n].held
             /\ service' = [service EXCEPT ![s].status = "FAILED",
                                           ![s].waits = call[c].seen.waits]
          \/ /\ At(c, {"provision"}, "persist")
             /\ Recorded(s)     \* one record per service
             /\ SetStatus(s, "FAILED")
       /\ End(c)
       /\ UNCHANGED <<now, registry, provider, details, tracked, used, history>>

\* The record is created without an expiry date and without a look for others.
Persist(c) ==
    LET s == call[c].s
        transfer == service[s].kind = "TRANSFER"
    IN /\ At(c, {"provision"}, "persist")
       /\ ~Recorded(s)
       /\ details' = [details EXCEPT ![s] =
             [NoDetails EXCEPT !.name = call[c].n, !.op = service[s].kind,
                               !.transfer = IF transfer THEN "PENDING" ELSE "none"]]
       /\ Go(c, "activate")
       /\ UNCHANGED <<now, registry, provider, service, tracked, used, history>>

Activate(c) ==
    /\ At(c, {"provision"}, "activate")
    /\ SetStatus(call[c].s, "ACTIVE")
    /\ End(c)
    /\ UNCHANGED <<now, registry, provider, details, tracked, used, history>>

-----------------------------------------------------------------------------
(* Settings, administrators, staff *)

\* saveNameservers and saveRegistrarLock: the registrar first, then the record
\* findOne meets.
SendSetting(c) ==
    /\ At(c, {"save"}, "send")
    /\ registry[call[c].n].held
    /\ registry' = [registry EXCEPT ![call[c].n].setting = "new"]
    /\ call' = [call EXCEPT ![c].at = "store", ![c].live.setting = "new"]
    /\ UNCHANGED <<now, provider, service, details, tracked, used, history>>

SendFails(c) ==
    /\ At(c, {"save"}, "send")
    /\ IF registry[call[c].n].held THEN Faulty ELSE UNCHANGED used
    /\ End(c)
    /\ UNCHANGED <<now, registry, provider, service, details, tracked, history>>

\* syncStoredDomainDetails: by name, so any one of the records of that name.
StoreSetting(c) ==
    /\ At(c, {"get", "save"}, "store")
    /\ IF Linked(call[c].n) = {} THEN UNCHANGED details
       ELSE \E s \in Linked(call[c].n) :
              details' = [details EXCEPT ![s].setting = call[c].live.setting, ![s].fresh = TRUE,
                                         ![s].synced = @ \/ call[c].op = "get"]
    /\ End(c)
    /\ UNCHANGED <<now, registry, provider, service, tracked, used, history>>

\* updateDomainStatusAdmin writes the service first, whatever its status and
\* without its meta, and with it the wait for a confirmation; then the record.
\* Each part may be left alone ("absent").  The transfer status of a record that is
\* no transfer, which nothing reads, is left out.
AdminStatus(c, s, status) ==
    /\ Exists(s) /\ Recorded(s)
    /\ Begin(c, "admin", s, details[s].name, "details")
    /\ IF status = "absent" THEN UNCHANGED service ELSE SetStatus(s, status)
    /\ UNCHANGED <<now, registry, provider, details, tracked, history>>

AdminDetails(c, lifecycle, transfer, manual) ==
    LET s == call[c].s
        record == [details[s] EXCEPT !.lifecycle = lifecycle,
                                     !.transfer = IF transfer = "absent" \/ details[s].op = "REGISTER"
                                                  THEN @ ELSE transfer,
                                     !.manual = manual]
    IN /\ At(c, {"admin"}, "details")
       /\ details' = [details EXCEPT ![s] = record]
       /\ End(c)
       /\ UNCHANGED <<now, registry, provider, service, tracked, used, history>>

OverrideEnds(s) ==
    /\ details[s].manual
    /\ details' = [details EXCEPT ![s].manual = FALSE]
    /\ UNCHANGED <<now, registry, provider, service, tracked, call, used, history>>

\* registerDomain, registerDomainsBulk and transferDomain of the staff: the
\* registrar alone hears of them.
StaffRegister(n) ==
    /\ used.ops < MaxOps
    /\ ~registry[n].held
    /\ used' = [used EXCEPT !.ops = @ + 1]
    /\ registry' = [registry EXCEPT ![n] = [held |-> TRUE, exp |-> now + 1, phase |-> "active",
                                           transfer |-> "none", setting |-> "old"]]
    /\ UNCHANGED <<now, provider, service, details, tracked, call, history>>

\* importRegistrarDomains: tracked, whether the registrar answers or not.
TrackDomains(n) ==
    /\ used.ops < MaxOps
    /\ Linked(n) = {} /\ n \notin tracked
    /\ used' = [used EXCEPT !.ops = @ + 1]
    /\ tracked' = tracked \cup {n}
    /\ UNCHANGED <<now, registry, provider, service, details, call, history>>

-----------------------------------------------------------------------------
(* Registrars, time, deaths *)

TransferEnds(n) ==
    /\ registry[n].transfer = "PENDING"
    /\ \E answer \in {"COMPLETED", "REJECTED"} :
          registry' = [registry EXCEPT ![n].transfer = answer]
    /\ UNCHANGED <<now, provider, service, details, tracked, call, used, history>>

Lapse(n) ==
    /\ registry[n].held /\ registry[n].phase = "active" /\ registry[n].exp < now
    /\ registry' = [registry EXCEPT ![n].phase = "lapsed"]
    /\ UNCHANGED <<now, provider, service, details, tracked, call, used, history>>

LeaveAccount(n) ==
    /\ registry[n].held
    /\ Faulty
    /\ registry' = [registry EXCEPT ![n].held = FALSE]
    /\ history' = [history EXCEPT !.left = @ \cup {n}]
    /\ UNCHANGED <<now, provider, service, details, tracked, call>>

YearPasses ==
    /\ now < MaxTime
    /\ now' = now + 1
    /\ UNCHANGED <<registry, provider, service, details, tracked, call, used, history>>

\* A day has passed since the record was last synchronised.  A request takes less
\* than a day: what is due while it runs was so before it began.
DayPasses(s) ==
    /\ details[s].fresh
    /\ \A c \in Requests : call[c] = Idle
    /\ details' = [details EXCEPT ![s].fresh = FALSE]
    /\ UNCHANGED <<now, registry, provider, service, tracked, call, used, history>>

Dies(c) ==
    /\ call[c] # Idle
    /\ Faulty
    /\ End(c)
    /\ UNCHANGED <<now, registry, provider, service, details, tracked, history>>

-----------------------------------------------------------------------------
Starts(c) ==
    \/ \E s \in Services : SyncStart(c, s) \/ ConfirmStart(c, s) \/ ProvisionStart(c, s)
    \/ \E s \in Services, op \in {"get", "save"} : SettingStart(c, op, s)
    \/ \E s \in Services, n \in Names : AdoptStart(c, s, n)
    \/ \E n \in Names, op \in {"import", "takeover"} : ImportStart(c, op, n)
    \/ \E s \in Services, status \in {"absent", "ACTIVE", "SUSPENDED", "TERMINATED"} :
          AdminStatus(c, s, status)

Continues(c) ==
    \/ LiveAnswer(c) \/ LiveFails(c)
    \/ Assert(c) \/ (\E s \in Services : ImportCreate(c, s)) \/ Upsert(c) \/ Attach(c)
    \/ Confirm(c)
    \/ Store(c) \/ SyncService(c)
    \/ Register(c) \/ ProvisionFails(c) \/ Persist(c) \/ Activate(c)
    \/ SendSetting(c) \/ SendFails(c) \/ StoreSetting(c)
    \/ \E transfer \in {"absent", "PENDING", "COMPLETED", "REJECTED"}, manual \in BOOLEAN :
          AdminDetails(c, "lost", transfer, manual)

CronGoesOn == CronParent \/ Poll \/ PollFails

Scheduled == CronGoesOn \/ \E s \in Services, op \in {"cron", "transfer"} : CronStart(op, s)

Administered == \E n \in Names : StaffRegister(n) \/ TrackDomains(n)

World ==
    \/ \E s \in Services : OverrideEnds(s) \/ DayPasses(s)
    \/ \E n \in Names : TransferEnds(n) \/ Lapse(n) \/ LeaveAccount(n)
    \/ YearPasses
    \/ \E c \in Callers : Dies(c)

RegistryNext == Scheduled \/ Administered \/ World \/ \E c \in Callers : Starts(c) \/ Continues(c)

\* The expiry synchronisation meets these again in every run: the service has
\* ended or the registrar does not know the name, so nothing marks them.
Stuck == {s \in Services :
    Due(s) /\ (service[s].status \notin Syncable \/ ~registry[details[s].name].held)}
Room == Cardinality(Stuck) < Batch

\* Hourly polls keep the record of an unfinished transfer fresh, so that a day
\* never passes for it and the expiry synchronisation never comes to it.
Polled(s) == InTransfer(s) /\ service[s].status = "ACTIVE"

\* Requests, jobs and runs go on to their end and days pass.  The transfer
\* synchronisation takes every pending transfer; the expiry synchronisation comes
\* round to the records it does not find fresh, where its batch leaves it room.
RegistryFairness ==
    /\ WF_registryVars(\E c \in Requests : Continues(c))
    /\ WF_registryVars(CronGoesOn \/ Continues(Cron))
    /\ \A s \in Services :
          /\ WF_registryVars(DayPasses(s) /\ ~Polled(s))
          /\ SF_registryVars(CronStart("transfer", s))
          /\ SF_registryVars(CronStart("cron", s) /\ Room /\ ~Polled(s))

RegistrySpec == RegistryInit /\ [][RegistryNext]_registryVars /\ RegistryFairness

-----------------------------------------------------------------------------
(* Properties *)

\* Two services hold records of one name only where two callers were between
\* look and link at once, or the name had left the account in between: no index
\* keeps names apart (domain.service.ts:1935, domain-details.model.ts:195).
LinkedOnce ==
    \A n \in Names : Cardinality(Linked(n)) > 1 => n \in history.raced \cup history.left

\* Once nobody interferes any more, the record of a domain in service shows the
\* expiry date and the settings the registrar has, whatever older readings were
\* stored over newer ones (domain-sync.scheduler.ts:132), and no transfer is
\* taken for pending that has ended.  Not so where a whole batch cannot be
\* synchronised (:154), nor for a transfer that does not end: its polls keep the
\* expiry synchronisation away (:105, :144-152).
Agrees(s) ==
    LET n == details[s].name
    IN Recorded(s) /\ service[s].status \in Syncable /\ registry[n].held /\ provider[n] = "dynadot"
       => IF Polled(s) THEN registry[n].transfer \notin {"COMPLETED", "REJECTED"}
          ELSE details[s].exp = registry[n].exp /\ details[s].setting = registry[n].setting

RecordsConverge == <>[]Room => <>[](\A s \in Services : Agrees(s))
=============================================================================

----------------------------- MODULE Registrars -----------------------------
(***************************************************************************)
(* Which registrar a domain goes to, and how: the lookup of its TLD through *)
(* a cache of each process (tld.service.ts), the routing by that document   *)
(* (registrar-routing.service.ts), the default registrar every process      *)
(* remembers (domain-system-settings.service.ts), the settings by which a   *)
(* registrar is called (registrar-config.service.ts) and the registration   *)
(* of many domains by one request (domain-registrar.service.ts).            *)
(*                                                                          *)
(* One TLD and one registrar's settings stand for all: no two share a       *)
(* record. Left out: prices, contacts, what the calls carry.                *)
(***************************************************************************)
EXTENDS Integers, FiniteSets

CONSTANTS
    Processes,      \* processes of the server, each with memory of its own
    Asks,           \* requests under way about the TLD or the default
    NoProcess,
    StaticRegistrar,    \* what DOMAIN_CONFIG.tldRegistrarMap says of the TLD, or "unset"
    TldValues,      \* what autoRegistration.provider may say; "unset", or "absent" without a document
    Ttl,            \* TLD_EXTENSION_CACHE_TTL_MS
    LastTick,       \* bound: the clock
    Savers,         \* saves of a registrar's settings under way
    Names,          \* domains that are registered
    MaxItems        \* bound: domains of one request

RegistrarNulls == NoProcess \notin Processes /\ "absent" \in TldValues
RegistrarBounds == {Ttl, LastTick} \subseteq Nat /\ MaxItems \in Nat \ {0}

VARIABLES
    tick,
    tldDoc,         \* autoRegistration.provider of the TLD document
    tldCache,       \* tldByExtensionCache of each process
    standard,       \* DomainSystemSettings.defaultRegistrarKey
    snapshot,       \* memorySnapshot of each process
    ask,            \* the requests under way
    routing,        \* the last decision
    heldAt,         \* when the TLD document last said so, of each thing it may say
    config,         \* RegistrarConfig.settings and isActive
    saver,          \* what each save under way is going to write
    bulk,           \* the request that registers many
    registered      \* the registrar that holds each domain

registrarVars == <<tick, tldDoc, tldCache, standard, snapshot, ask, routing, heldAt, config, saver, bulk, registered>>
lookupVars == <<tick, tldDoc, tldCache, standard, snapshot, ask, routing, heldAt>>

\* registrarProviders; a TLD document may name others
Implemented == {"dynadot", "namely"}

NoEntry == [value |-> "absent", until |-> 0]
NoAsk == [at |-> "idle", on |-> NoProcess, began |-> 0, value |-> "absent"]
NoSave == [at |-> "idle", secret |-> FALSE, text |-> "unset", enabled |-> FALSE]
NoBulk == [at |-> "idle", items |-> <<>>, keys |-> [n \in Names |-> "dynadot"], todo |-> {}, key |-> "none", out |-> <<>>,
           found |-> [n \in Names |-> "unknown"]]
Settings == [secret : BOOLEAN, text : {"unset", "blank", "given"}, enabled : BOOLEAN]

RegistrarTypeOK ==
    /\ tick \in 0..LastTick /\ tldDoc \in TldValues /\ standard \in Implemented
    /\ tldCache \in [Processes -> [value : TldValues, until : 0..LastTick + Ttl]]
    /\ snapshot \in [Processes -> Implemented]
    /\ ask \in [Asks -> [at : {"idle", "find", "keep", "forget", "reread", "remember"}, on : Processes \cup {NoProcess},
                         began : 0..LastTick, value : TldValues \cup Implemented]]
    /\ routing \in [key : Implemented \cup {"refused", "none"}, by : TldValues, began : 0..LastTick]
    /\ heldAt \in [TldValues -> -1..LastTick]
    /\ config \in Settings
    /\ saver \in [Savers -> [at : {"idle", "write"}, secret : BOOLEAN, text : {"unset", "blank", "given"}, enabled : BOOLEAN]]
    /\ bulk.at \in {"idle", "group", "bulk", "single", "answered", "thrown"} /\ bulk.todo \subseteq 1..MaxItems
    /\ registered \in [Names -> Implemented \cup {"none"}]

RegistrarInit ==
    /\ tick = 0 /\ tldDoc \in TldValues /\ standard \in Implemented
    /\ tldCache = [p \in Processes |-> NoEntry] /\ snapshot = [p \in Processes |-> standard]
    /\ ask = [q \in Asks |-> NoAsk] /\ routing = [key |-> "none", by |-> "absent", began |-> 0]
    /\ heldAt = [v \in TldValues |-> IF v = tldDoc THEN 0 ELSE -1]
    /\ config \in Settings /\ saver = [s \in Savers |-> NoSave]
    /\ bulk = NoBulk /\ registered = [n \in Names |-> "none"]

-----------------------------------------------------------------------------
(* RegistrarRoutingService.resolveRegistrarFromTldRow: the document, else   *)
(* the static map, else the default as the process remembers it.            *)

RegistrarKey(value, default) ==
    IF value # "unset" THEN value ELSE IF StaticRegistrar # "unset" THEN StaticRegistrar ELSE default

Route(value, default) ==
    IF value = "absent" \/ RegistrarKey(value, default) \notin Implemented THEN "refused" ELSE RegistrarKey(value, default)

Routed(p, value, began) == routing' = [key |-> Route(value, snapshot[p]), by |-> value, began |-> began]

-----------------------------------------------------------------------------
(* TLDService.getTLDByExtensionOrNull, for a search, a registration or a    *)
(* transfer.                                                                *)

Cached(p) == tldCache[p].until > tick

LookUpCached(q, p) ==
    /\ ask[q] = NoAsk /\ Cached(p)
    /\ Routed(p, tldCache[p].value, tick)
    /\ UNCHANGED <<tick, tldDoc, tldCache, standard, snapshot, ask, heldAt>>

LookUp(q, p) ==
    /\ ask[q] = NoAsk /\ ~Cached(p)
    /\ ask' = [ask EXCEPT ![q] = [NoAsk EXCEPT !.at = "find", !.on = p, !.began = tick]]
    /\ UNCHANGED <<tick, tldDoc, tldCache, standard, snapshot, routing, heldAt>>

\* No document is not remembered.
FindTld(q) ==
    /\ ask[q].at = "find"
    /\ IF tldDoc = "absent"
       THEN ask' = [ask EXCEPT ![q] = NoAsk] /\ Routed(ask[q].on, "absent", ask[q].began)
       ELSE ask' = [ask EXCEPT ![q].at = "keep", ![q].value = tldDoc] /\ UNCHANGED routing
    /\ UNCHANGED <<tick, tldDoc, tldCache, standard, snapshot, heldAt>>

\* Mistake: the entry's time runs from when it is kept, not from when it was asked for.
UntilKept(q) == tick + Ttl

Until(q) == ask[q].began + Ttl

KeepTld(q) ==
    /\ ask[q].at = "keep"
    /\ tldCache' = [tldCache EXCEPT ![ask[q].on] = [value |-> ask[q].value, until |-> Until(q)]]
    /\ Routed(ask[q].on, ask[q].value, ask[q].began)
    /\ ask' = [ask EXCEPT ![q] = NoAsk]
    /\ UNCHANGED <<tick, tldDoc, standard, snapshot, heldAt>>

-----------------------------------------------------------------------------
(* TLDService.createTLD, updateTLD and deleteTLD                            *)

TldWritten(q, p, value) ==
    /\ ask[q] = NoAsk
    /\ tldDoc' = value /\ heldAt' = [heldAt EXCEPT ![value] = tick]
    /\ ask' = [ask EXCEPT ![q] = [NoAsk EXCEPT !.at = "forget", !.on = p]]
    /\ UNCHANGED <<tick, tldCache, standard, snapshot, routing>>

CreateTLD(q, p) == tldDoc = "absent" /\ \E v \in TldValues \ {"absent"} : TldWritten(q, p, v)
UpdateTLD(q, p) == tldDoc # "absent" /\ \E v \in TldValues \ {"absent"} : TldWritten(q, p, v)
DeleteTLD(q, p) == tldDoc # "absent" /\ TldWritten(q, p, "absent")

\* The cache of this process only.
ForgetTld(q) ==
    /\ ask[q].at = "forget"
    /\ tldCache' = [tldCache EXCEPT ![ask[q].on] = NoEntry]
    /\ ask' = [ask EXCEPT ![q] = NoAsk]
    /\ UNCHANGED <<tick, tldDoc, standard, snapshot, routing, heldAt>>

-----------------------------------------------------------------------------
(* updateDomainSystemSettings, getDomainSystemSettingsForAdmin and what a   *)
(* process reads when it starts                                             *)

SetStandard(q, p) ==
    /\ ask[q] = NoAsk
    /\ standard' \in Implemented
    /\ ask' = [ask EXCEPT ![q] = [NoAsk EXCEPT !.at = "reread", !.on = p]]
    /\ UNCHANGED <<tick, tldDoc, tldCache, snapshot, routing, heldAt>>

ShowStandard(q, p) ==
    /\ ask[q] = NoAsk
    /\ ask' = [ask EXCEPT ![q] = [NoAsk EXCEPT !.at = "reread", !.on = p]]
    /\ UNCHANGED <<tick, tldDoc, tldCache, standard, snapshot, routing, heldAt>>

ReadStandard(q) ==
    /\ ask[q].at = "reread"
    /\ ask' = [ask EXCEPT ![q].at = "remember", ![q].value = standard]
    /\ UNCHANGED <<tick, tldDoc, tldCache, standard, snapshot, routing, heldAt>>

RememberStandard(q) ==
    /\ ask[q].at = "remember"
    /\ snapshot' = [snapshot EXCEPT ![ask[q].on] = ask[q].value]
    /\ ask' = [ask EXCEPT ![q] = NoAsk]
    /\ UNCHANGED <<tick, tldDoc, tldCache, standard, routing, heldAt>>

\* What a process remembers, and the requests it answers, end with it.
RestartProcess(p) ==
    /\ tldCache' = [tldCache EXCEPT ![p] = NoEntry]
    /\ snapshot' = [snapshot EXCEPT ![p] = standard]
    /\ ask' = [q \in Asks |-> IF ask[q].on = p THEN NoAsk ELSE ask[q]]
    /\ UNCHANGED <<tick, tldDoc, standard, routing, heldAt>>

Tick ==
    /\ tick < LastTick
    /\ tick' = tick + 1 /\ heldAt' = [heldAt EXCEPT ![tldDoc] = tick + 1]
    /\ UNCHANGED <<tldDoc, tldCache, standard, snapshot, ask, routing>>

TldNext ==
    /\ \/ \E q \in Asks, p \in Processes :
             LookUpCached(q, p) \/ LookUp(q, p) \/ CreateTLD(q, p) \/ UpdateTLD(q, p) \/ DeleteTLD(q, p)
       \/ \E q \in Asks : FindTld(q) \/ KeepTld(q) \/ ForgetTld(q)
       \/ Tick
    /\ UNCHANGED <<config, saver, bulk, registered>>

StandardNext ==
    /\ \E q \in Asks : ReadStandard(q) \/ RememberStandard(q) \/ \E p \in Processes : SetStandard(q, p) \/ ShowStandard(q, p)
    /\ UNCHANGED <<config, saver, bulk, registered>>

RestartNext ==
    /\ \E p \in Processes : RestartProcess(p)
    /\ UNCHANGED <<config, saver, bulk, registered>>

-----------------------------------------------------------------------------
(* RegistrarConfigService.updateRegistrarConfig: the whole of the settings  *)
(* is written, made of those that were read.                                *)

\* A secret left blank stays as it is; null takes a field away.
SecretAfter(incoming) == IF incoming = "given" THEN TRUE ELSE IF incoming = "null" THEN FALSE ELSE config.secret

TextAfter(incoming) ==
    IF incoming = "none" THEN config.text ELSE IF incoming = "null" THEN "unset" ELSE incoming

MergeConfig(s) ==
    /\ saver[s] = NoSave
    /\ \E secret, text \in {"none", "blank", "null", "given"}, enabled \in {config.enabled, TRUE, FALSE} :
          saver' = [saver EXCEPT ![s] = [at |-> "write", secret |-> SecretAfter(secret), text |-> TextAfter(text),
                                         enabled |-> enabled]]
    /\ UNCHANGED <<lookupVars, config, bulk, registered>>

WriteConfig(s) ==
    /\ saver[s].at = "write"
    /\ config' = [secret |-> saver[s].secret, text |-> saver[s].text, enabled |-> saver[s].enabled]
    /\ saver' = [saver EXCEPT ![s] = NoSave]
    /\ UNCHANGED <<lookupVars, bulk, registered>>

\* By default there is no key; one that cannot be decrypted is none either.
HasKey == config.secret

\* callDynadot and callNamely: without a key nothing is sent; an answer that
\* does not come in time, or cannot be read, may be of a call that was done.
DynadotAnswers == IF HasKey THEN {"done", "failed", "lost"} ELSE {"failed"}
NamelyAnswers == IF HasKey THEN {"done", "failed", "lost"} ELSE {"failed"}

-----------------------------------------------------------------------------
(* DomainService.searchDomains: each domain is asked for at its registrar.  *)

Told(n) == {"no"} \cup (IF registered[n] = "none" THEN {"yes"} ELSE {})

\* A call to Dynadot that fails fails the search; one to Namely says no.
DynadotFree(n) == IF HasKey THEN Told(n) ELSE {}
NamelyFree(n) == IF HasKey THEN Told(n) ELSE {"no"}

IsFree(n, key) == IF key = "dynadot" THEN DynadotFree(n) ELSE NamelyFree(n)

SearchDomains ==
    /\ bulk.at \in {"idle", "answered", "thrown"}
    /\ \E S \in SUBSET Names \ {{}}, keys \in [Names -> Implemented], says \in [Names -> {"yes", "no", "unknown"}] :
          /\ \A n \in Names : says[n] \in IF n \in S THEN IsFree(n, keys[n]) ELSE {"unknown"}
          /\ bulk' = [NoBulk EXCEPT !.found = says]
    /\ UNCHANGED <<lookupVars, config, saver, registered>>

-----------------------------------------------------------------------------
(* DomainRegistrarService.registerDomainsBulk                               *)

Started(at, n) ==
    /\ bulk.at \in {"idle", "answered", "thrown"}
    /\ \E items \in [1..n -> Names \X {1, 2}], keys \in [Names -> Implemented] :
          bulk' = [NoBulk EXCEPT !.at = at, !.items = items, !.keys = keys, !.todo = 1..n,
                                 !.key = keys[items[1][1]], !.out = [i \in 1..n |-> "none"]]
    /\ UNCHANGED <<lookupVars, config, saver, registered>>

\* Every domain is routed before the first is registered.
StartBulk == \E n \in 1..MaxItems : Started("group", n)

\* DomainService.registerDomain
RegisterDomain == Started("single", 1)

NameOf(i) == bulk.items[i][1]
KeyOf(i) == bulk.keys[NameOf(i)]
Group(key) == {i \in bulk.todo : KeyOf(i) = key}
First(S) == {i \in S : \A j \in S : i <= j}

\* bulk_register takes many of Dynadot's, for as many years each.
CanBulk(key) ==
    /\ key = "dynadot" /\ Cardinality(Group(key)) > 1
    /\ \A i, j \in Group(key) : bulk.items[i][2] = bulk.items[j][2]

TakeGroup ==
    /\ bulk.at = "group"
    /\ \E i \in First(bulk.todo) :
          bulk' = [bulk EXCEPT !.key = KeyOf(i), !.at = IF CanBulk(KeyOf(i)) THEN "bulk" ELSE "single"]
    /\ UNCHANGED <<lookupVars, config, saver, registered>>

\* Mistake: a row stands at its place in its group, not at its place in the request.
PlaceInGroup(i, G) == Cardinality({j \in G : j <= i})

Place(i, G) == i

Reported(G, rows) ==
    [i \in DOMAIN bulk.out |-> IF \E j \in G : Place(j, G) = i THEN rows[CHOOSE j \in G : Place(j, G) = i] ELSE bulk.out[i]]

Obtained(S, key) == registered' = [n \in Names |-> IF n \in S THEN key ELSE registered[n]]

Thrown == bulk' = [bulk EXCEPT !.at = "thrown"]

\* DynadotRegistrarProvider.bulkRegisterDomains. Of what was registered the answer
\* may have no row: that counts as a failure.
BulkCall ==
    /\ bulk.at = "bulk"
    /\ LET G == Group(bulk.key)
           free == {n \in {NameOf(i) : i \in G} : registered[n] = "none"}
       IN \E answer \in DynadotAnswers, S \in SUBSET free :
             /\ answer = "failed" => S = {}
             /\ Obtained(S, bulk.key)
             /\ IF answer # "done" THEN Thrown
                ELSE \E shown \in SUBSET S :
                        bulk' = [bulk EXCEPT !.at = "group", !.todo = @ \ G,
                                     !.out = Reported(G, [i \in G |-> IF NameOf(i) \in shown THEN "ok" ELSE "failed"])]
    /\ UNCHANGED <<lookupVars, config, saver>>

\* registerDomain of one provider: its answer, and whether the domain was registered
OneResults(n, key) ==
    {r \in (IF key = "dynadot" THEN DynadotAnswers ELSE NamelyAnswers) \X BOOLEAN :
        /\ r[2] => registered[n] = "none" /\ r[1] # "failed"
        /\ r[1] = "done" => r[2]}

\* What was registered before is forgotten when one throws.
SingleCall ==
    /\ bulk.at = "single"
    /\ \E i \in First(Group(bulk.key)) : \E r \in OneResults(NameOf(i), bulk.key) :
          /\ Obtained(IF r[2] THEN {NameOf(i)} ELSE {}, bulk.key)
          /\ IF r[1] # "done" THEN Thrown
             ELSE bulk' = [bulk EXCEPT !.at = IF Group(bulk.key) = {i} THEN "group" ELSE "single", !.todo = @ \ {i},
                               !.out = Reported({i}, [j \in {i} |-> "ok"])]
    /\ UNCHANGED <<lookupVars, config, saver>>

EndBulk ==
    /\ bulk.at = "group" /\ bulk.todo = {}
    /\ bulk' = [bulk EXCEPT !.at = "answered"]
    /\ UNCHANGED <<lookupVars, config, saver, registered>>

BulkNext == SearchDomains \/ StartBulk \/ RegisterDomain \/ TakeGroup \/ BulkCall \/ SingleCall \/ EndBulk

ConfigNext == \E s \in Savers : MergeConfig(s) \/ WriteConfig(s)

RegistrarNext == TldNext \/ StandardNext \/ RestartNext \/ ConfigNext \/ BulkNext

RegistrarSpec == RegistrarInit /\ [][RegistrarNext]_registrarVars

-----------------------------------------------------------------------------

\* A domain is routed by what the TLD document said less than a TTL before it was
\* asked for, or since: however lookups, changes and other processes cross; a TTL
\* of 0 switches the cache off (TLDService.getTLDByExtensionOrNull).
RoutedFresh ==
    routing.key # "none" => heldAt[routing.by] > routing.began - Ttl \/ heldAt[routing.by] >= routing.began

\* What the answer to a bulk registration calls registered is held by the registrar
\* it was routed to, and every domain has an answer (registerDomainsBulk).
ReportedTrue ==
    bulk.at = "answered" =>
        \A i \in DOMAIN bulk.out :
            bulk.out[i] # "none" /\ (bulk.out[i] = "ok" => registered[NameOf(i)] = KeyOf(i))

-----------------------------------------------------------------------------
(* Why: an entry of a cache expires a TTL after its document was asked for,  *)
(* and a domain once registered stays where it is.                           *)

EntryDoc == [value : TldValues, until : 0..LastTick + Ttl]
RequestDoc == [at : {"idle", "find", "keep", "forget", "reread", "remember"}, on : Processes \cup {NoProcess},
               began : 0..LastTick, value : TldValues \cup Implemented]
RouteDoc == [key : Implemented \cup {"refused", "none"}, by : TldValues, began : 0..LastTick]
BulkDoc == [at : {"idle", "group", "bulk", "single", "answered", "thrown"},
            items : UNION {[1..n -> Names \X {1, 2}] : n \in 0..MaxItems}, keys : [Names -> Implemented],
            todo : SUBSET (1..MaxItems), key : Implemented \cup {"none"},
            out : UNION {[1..n -> {"none", "ok", "failed"}] : n \in 0..MaxItems},
            found : [Names -> {"yes", "no", "unknown"}]]

HeldSince(v, t) == v \in TldValues /\ heldAt[v] >= t

EntryOK(e) == e.until > 0 => HeldSince(e.value, e.until - Ttl)

RequestOK(r) ==
    /\ r.at # "idle" => r.on \in Processes
    /\ r.began <= tick
    /\ r.at = "keep" => HeldSince(r.value, r.began)
    /\ r.at = "remember" => r.value \in Implemented

LookupsOK ==
    /\ tick \in 0..LastTick /\ tldDoc \in TldValues /\ standard \in Implemented
    /\ tldCache \in [Processes -> EntryDoc] /\ snapshot \in [Processes -> Implemented]
    /\ ask \in [Asks -> RequestDoc] /\ routing \in RouteDoc /\ heldAt \in [TldValues -> -1..LastTick]
    /\ heldAt[tldDoc] = tick /\ \A v \in TldValues : heldAt[v] <= tick
    /\ \A p \in Processes : EntryOK(tldCache[p])
    /\ \A q \in Asks : RequestOK(ask[q])
    /\ RoutedFresh

ConfigOK ==
    /\ config \in Settings
    /\ saver \in [Savers -> [at : {"idle", "write"}, secret : BOOLEAN, text : {"unset", "blank", "given"}, enabled : BOOLEAN]]

BulkOK ==
    /\ bulk \in BulkDoc /\ registered \in [Names -> Implemented \cup {"none"}]
    /\ DOMAIN bulk.items = DOMAIN bulk.out /\ bulk.todo \subseteq DOMAIN bulk.out
    /\ bulk.at \in {"bulk", "single"} => bulk.key \in Implemented
    /\ bulk.at = "single" => Group(bulk.key) # {}
    /\ bulk.at = "answered" => bulk.todo = {}
    /\ \A i \in DOMAIN bulk.out :
          /\ i \notin bulk.todo => bulk.out[i] # "none"
          /\ bulk.out[i] = "ok" => registered[NameOf(i)] = KeyOf(i)

RegistrarInv == LookupsOK /\ ConfigOK /\ BulkOK
=============================================================================

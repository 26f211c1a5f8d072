--------------------------- MODULE Domains_proofs ---------------------------
(***************************************************************************)
(* Proofs about DomainRegistry, for every number of services, names and      *)
(* requests and every value of the bounds: the types, and that two services  *)
(* come to hold records of one name only where two callers were between      *)
(* look and link at once, or the name had left the account.                  *)
(*                                                                           *)
(* Then about DomainRenewals, for every number of invoices, cycles, clients, *)
(* payment handlers and workers and every value of the bounds: the types,    *)
(* that the registrar charges a cycle once, and that a paid cycle is renewed *)
(* or left for an administrator to see. The two share no variable.           *)
(***************************************************************************)
EXTENDS DomainRegistry, DomainRenewals, FiniteSetTheorems, TLAPS

USE OrderedAssumption, NullsAssumption, DomainBounds

-----------------------------------------------------------------------------
(* What a caller is about *)

SeenRec == [status : Status, waits : BOOLEAN, d : Details]
LiveRec == [exp : Years \cup {Unset}, lifecycle : Phases \cup {"pending"}, setting : Settings]
CallRec == [op : Ops, at : Stages, s : Services \cup {NoService}, n : Names \cup {NoName},
            seen : SeenRec, live : LiveRec]
ServiceRec == [status : Status, name : Names \cup {NoName}, kind : {"REGISTER", "TRANSFER"},
               waits : BOOLEAN]
NameRec == [held : BOOLEAN, exp : Years, phase : Phases, transfer : Transfers, setting : Settings]
UsedRec == [ops : 0 .. MaxOps, faults : 0 .. MaxFaults]
HistoryRec == [raced : SUBSET Names, left : SUBSET Names]

\* The stages at which a caller needs the service it is about.
ServiceStages == {"parent", "poll", "upsert", "attach", "service", "confirm", "register",
                  "persist", "activate", "details"}

\* A caller under way knows its name and, but for an import that has yet to
\* create it, its service.
Placed(r) ==
    /\ r.at # "idle" => r.n \in Names
    /\ r.at \in ServiceStages => r.s \in Services
    /\ r.at = "live" /\ r.op \in {"sync", "cron", "adopt"} => r.s \in Services
    /\ r.at = "store" /\ r.op \in {"sync", "cron"} => r.s \in Services
    /\ r.at = "assert" /\ r.s \notin Services => r.op \in {"import", "takeover"}

CallsPlaced == \A c \in Callers : Placed(call[c])

-----------------------------------------------------------------------------
(* One link a name *)

\* A name a service has a record of, or a caller is about to link, is held.
HeldStages == {"assert", "create", "upsert", "persist"}
HeldWhileLinked ==
    \A n \in Names \ history.left :
        /\ Linked(n) # {} => registry[n].held
        /\ \A c \in Callers : call[c].n = n /\ call[c].at \in HeldStages => registry[n].held

OneTrusts ==
    \A n \in Names \ history.raced :
        \A b, c \in Callers : Trusting(b, n) /\ Trusting(c, n) => b = c

\* Nobody but the service of the caller that trusts what it saw has the name.
TrustHolds ==
    \A n \in Names \ (history.raced \cup history.left) :
        \A c \in Callers : Trusting(c, n) => Linked(n) \subseteq {call[c].s}

OneHolds ==
    \A n \in Names \ (history.raced \cup history.left) :
        \A s, t \in Linked(n) : s = t

LinkInv == HeldWhileLinked /\ OneTrusts /\ TrustHolds /\ OneHolds

RegistryInv == DomainTypeOK /\ CallsPlaced /\ LinkInv

-----------------------------------------------------------------------------
(* Types: lemmas *)

\* The type invariant with names for its parts.
LEMMA TypeParts ==
    DomainTypeOK <=>
        /\ now \in 0 .. MaxTime
        /\ registry \in [Names -> NameRec]
        /\ provider \in [Names -> Registrars]
        /\ service \in [Services -> ServiceRec]
        /\ details \in [Services -> Details]
        /\ tracked \in SUBSET Names
        /\ call \in [Callers -> CallRec]
        /\ used \in UsedRec
        /\ history \in HistoryRec
  BY DEF DomainTypeOK, NameRec, ServiceRec, CallRec, SeenRec, LiveRec, UsedRec, HistoryRec

\* The same of the state a step leads to.
LEMMA TypePartsAfter ==
    DomainTypeOK' <=>
        /\ now' \in 0 .. MaxTime
        /\ registry' \in [Names -> NameRec]
        /\ provider' \in [Names -> Registrars]
        /\ service' \in [Services -> ServiceRec]
        /\ details' \in [Services -> Details]
        /\ tracked' \in SUBSET Names
        /\ call' \in [Callers -> CallRec]
        /\ used' \in UsedRec
        /\ history' \in HistoryRec
  BY DEF DomainTypeOK, NameRec, ServiceRec, CallRec, SeenRec, LiveRec, UsedRec, HistoryRec

LEMMA Constants ==
    /\ NoDetails \in Details
    /\ NoLive \in LiveRec
    /\ NothingSeen \in SeenRec
    /\ Idle \in CallRec /\ Placed(Idle)
    /\ Recoverable \subseteq Status
  <1>1. NoDetails \in Details
    BY DEF NoDetails, Details, Transfers, Settings
  <1>2. NoLive \in LiveRec
    BY DEF NoLive, LiveRec, Settings
  <1>3. NothingSeen \in SeenRec
    BY <1>1 DEF NothingSeen, SeenRec, Status
  <1>4. Idle \in CallRec
    BY <1>2, <1>3 DEF Idle, CallRec, Ops, Stages
  <1>5. Placed(Idle)
    BY DEF Placed, Idle, ServiceStages
  <1> QED
    BY <1>1, <1>2, <1>3, <1>4, <1>5 DEF Recoverable, Status

\* What a caller remembers of a record, and what it sees of a service.
LEMMA SeenTyped ==
    /\ \A d \in Details : Trimmed(d) \in Details
    /\ DomainTypeOK => \A s \in Services : Seen(s) \in SeenRec
  <1>1. \A d \in Details : Trimmed(d) \in Details
    BY DEF Trimmed, Details, Settings
  <1>2. ASSUME DomainTypeOK, NEW s \in Services PROVE Seen(s) \in SeenRec
    <2>1. details[s] \in Details /\ service[s].status \in Status /\ service[s].waits \in BOOLEAN
      BY <1>2, TypeParts DEF ServiceRec
    <2> QED
      BY <1>1, <2>1 DEF Seen, SeenRec
  <1> QED
    BY <1>1, <1>2

\* What the registrar answers.
LEMMA InfoTyped ==
    ASSUME DomainTypeOK, NEW n \in Names PROVE Info(n) \in LiveRec
  <1>1. registry[n] \in NameRec /\ now \in 0 .. MaxTime
    BY TypeParts
  <1>2. InfoDynadot(n) \in LiveRec
    BY <1>1 DEF InfoDynadot, NameRec, LiveRec
  <1>3. InfoNamely(n) \in LiveRec
    BY <1>1 DEF InfoNamely, NameRec, LiveRec, Years, Phases
  <1> QED
    BY <1>2, <1>3 DEF Info

LEMMA LifecycleTyped ==
    ASSUME NEW op, NEW transfer, NEW live \in LiveRec
    PROVE  Lifecycle(op, transfer, live) \in Phases \cup {"pending"}
  BY DEF Lifecycle, LiveRec, Phases

-----------------------------------------------------------------------------
(* How a step moves one caller *)

LEMMA Going ==
    ASSUME DomainTypeOK, NEW c \in Callers, NEW at \in Stages, Go(c, at)
    PROVE  /\ call' \in [Callers -> CallRec]
           /\ \A b \in Callers \ {c} : call'[b] = call[b]
           /\ call'[c] = [call[c] EXCEPT !.at = at]
           /\ call'[c].at = at /\ call'[c].n = call[c].n /\ call'[c].s = call[c].s
           /\ call'[c].op = call[c].op
  <1>1. call \in [Callers -> CallRec] /\ call[c] \in CallRec
    BY TypeParts
  <1>2. [call[c] EXCEPT !.at = at] \in CallRec
    BY <1>1 DEF CallRec
  <1>3. call' = [call EXCEPT ![c] = [call[c] EXCEPT !.at = at]]
    BY <1>1 DEF Go
  <1> QED
    BY <1>1, <1>2, <1>3 DEF CallRec

LEMMA Ending ==
    ASSUME DomainTypeOK, NEW c \in Callers, End(c)
    PROVE  /\ call' \in [Callers -> CallRec]
           /\ \A b \in Callers \ {c} : call'[b] = call[b]
           /\ call'[c] = Idle
  BY TypeParts, Constants DEF End

LEMMA Spending ==
    ASSUME DomainTypeOK, Faulty PROVE used' \in UsedRec
  BY TypeParts DEF Faulty, UsedRec

LEMMA StatusTyped ==
    ASSUME DomainTypeOK, NEW s \in Services, NEW status \in Status, SetStatus(s, status)
    PROVE  service' \in [Services -> ServiceRec]
  BY TypeParts DEF SetStatus, ServiceRec

-----------------------------------------------------------------------------
(* Steps that link nothing *)

Trust == {"upsert", "persist"}

\* Only caller c moves, and begins to trust nothing it saw; where it holds to a
\* name, the registrar does.
Moves(c) ==
    /\ call' \in [Callers -> CallRec]
    /\ \A b \in Callers \ {c} : call'[b] = call[b]
    /\ Placed(call'[c])
    /\ call'[c].at \notin Trust
    /\ call'[c].at \in HeldStages =>
          \/ registry[call'[c].n].held
          \/ call[c].at \in HeldStages /\ call[c].n = call'[c].n

\* No record changes its name, no name leaves the account, and of the callers
\* one at most moves.
NamesStay ==
    /\ \A s \in Services : details'[s].name = details[s].name
    /\ \A n \in Names : registry[n].held => registry'[n].held
    /\ history' = history
    /\ call' = call \/ \E c \in Callers : Moves(c)

Sound == DomainTypeOK /\ CallsPlaced

LEMMA MovesPlaced ==
    ASSUME CallsPlaced, call' = call \/ \E c \in Callers : Moves(c)
    PROVE  CallsPlaced'
  BY DEF CallsPlaced, Moves

\* A caller that goes on to a stage it is placed for, or ends, only moves.
LEMMA GoMoves ==
    ASSUME DomainTypeOK, NEW c \in Callers, NEW at \in Stages \ HeldStages, Go(c, at),
           Placed([call[c] EXCEPT !.at = at])
    PROVE  Moves(c)
  BY Going DEF Moves, Trust, HeldStages

LEMMA EndMoves ==
    ASSUME DomainTypeOK, NEW c \in Callers, End(c)
    PROVE  Moves(c)
  BY Ending, Constants DEF Moves, Trust, HeldStages, Idle

LEMMA BeginMoves ==
    ASSUME DomainTypeOK, NEW c, NEW op \in Ops, NEW s \in Services \cup {NoService},
           NEW n \in Names, NEW at \in {"live", "confirm", "register", "send", "details"},
           Begin(c, op, s, n, at),
           (s \in Services) \/ (op \in {"import", "takeover"} /\ at = "live")
    PROVE  c \in Callers /\ Moves(c) /\ used' \in UsedRec
  <1> DEFINE seen == IF op \in Readers THEN Seen(s) ELSE NothingSeen
             r == [op |-> op, at |-> at, s |-> s, n |-> n, live |-> NoLive, seen |-> seen]
  <1>1. seen \in SeenRec
    BY SeenTyped, Constants DEF Readers
  <1>2. call' = [call EXCEPT ![c] = r] /\ c \in Callers
    BY DEF Begin, Callers
  <1> HIDE DEF seen
  <1>3. r \in CallRec
    BY <1>1, Constants DEF CallRec, Stages
  <1>4. used' \in UsedRec
    BY TypeParts DEF Begin, UsedRec
  <1>5. call'[c] = r /\ call' \in [Callers -> CallRec] /\ \A b \in Callers \ {c} : call'[b] = call[b]
    BY <1>2, <1>3, TypeParts
  <1>6. Placed(r) /\ r.at \notin HeldStages
    BY DEF Placed, ServiceStages, HeldStages
  <1> QED
    BY <1>2, <1>4, <1>5, <1>6 DEF Moves, Trust, HeldStages

\* A recorded name, and the name of a service, are names.
LEMMA NamesKnown ==
    ASSUME DomainTypeOK, NEW s \in Services
    PROVE  /\ Recorded(s) => details[s].name \in Names
           /\ NameOf(s) # NoName => NameOf(s) \in Names
           /\ service[s].name # NoName => service[s].name \in Names
  BY TypeParts DEF Recorded, NameOf, Details, ServiceRec

LEMMA StartSteps ==
    ASSUME Sound, NEW c, Starts(c)
    PROVE  DomainTypeOK' /\ NamesStay
  <1> USE DEF Sound
  <1>1. ASSUME NEW s \in Services, SyncStart(c, s) PROVE DomainTypeOK' /\ NamesStay
    <2>1. NameOf(s) \in Names
      BY <1>1, NamesKnown DEF SyncStart
    <2>2. c \in Callers /\ Moves(c) /\ used' \in UsedRec
      BY <1>1, <2>1, BeginMoves DEF SyncStart, Ops
    <2> QED
      BY <1>1, <2>2, TypeParts, TypePartsAfter DEF SyncStart, NamesStay, Moves
  <1>2. ASSUME NEW s \in Services, ConfirmStart(c, s) PROVE DomainTypeOK' /\ NamesStay
    <2>1. details[s].name \in Names
      BY <1>2, NamesKnown DEF ConfirmStart
    <2>2. c \in Callers /\ Moves(c) /\ used' \in UsedRec
      BY <1>2, <2>1, BeginMoves DEF ConfirmStart, Ops
    <2> QED
      BY <1>2, <2>2, TypeParts, TypePartsAfter DEF ConfirmStart, NamesStay, Moves
  <1>3. ASSUME NEW s \in Services, ProvisionStart(c, s) PROVE DomainTypeOK' /\ NamesStay
    <2>1. service[s].name \in Names
      BY <1>3, NamesKnown DEF ProvisionStart
    <2>2. c \in Callers /\ Moves(c) /\ used' \in UsedRec
      BY <1>3, <2>1, BeginMoves DEF ProvisionStart, Ops
    <2>3. service' \in [Services -> ServiceRec]
      BY <1>3, StatusTyped DEF ProvisionStart, Status
    <2> QED
      BY <1>3, <2>2, <2>3, TypeParts, TypePartsAfter DEF ProvisionStart, NamesStay, Moves
  <1>4. ASSUME NEW s \in Services, NEW op \in {"get", "save"}, SettingStart(c, op, s)
        PROVE DomainTypeOK' /\ NamesStay
    <2>1. details[s].name \in Names
      BY <1>4, NamesKnown DEF SettingStart
    <2>2. c \in Callers /\ Moves(c) /\ used' \in UsedRec
      BY <1>4, <2>1, BeginMoves DEF SettingStart, Ops
    <2> QED
      BY <1>4, <2>2, TypeParts, TypePartsAfter DEF SettingStart, NamesStay, Moves
  <1>5. ASSUME NEW s \in Services, NEW n \in Names, AdoptStart(c, s, n)
        PROVE DomainTypeOK' /\ NamesStay
    <2>1. c \in Callers /\ Moves(c) /\ used' \in UsedRec
      BY <1>5, BeginMoves DEF AdoptStart, Ops
    <2> QED
      BY <1>5, <2>1, TypeParts, TypePartsAfter DEF AdoptStart, NamesStay, Moves
  <1>6. ASSUME NEW n \in Names, NEW op \in {"import", "takeover"}, ImportStart(c, op, n)
        PROVE DomainTypeOK' /\ NamesStay
    <2>1. c \in Callers /\ Moves(c) /\ used' \in UsedRec
      BY <1>6, BeginMoves DEF ImportStart, Ops
    <2> QED
      BY <1>6, <2>1, TypeParts, TypePartsAfter DEF ImportStart, NamesStay, Moves
  <1>7. ASSUME NEW s \in Services, NEW status \in {"absent", "ACTIVE", "SUSPENDED", "TERMINATED"},
               AdminStatus(c, s, status)
        PROVE DomainTypeOK' /\ NamesStay
    <2>1. details[s].name \in Names
      BY <1>7, NamesKnown DEF AdminStatus
    <2>2. c \in Callers /\ Moves(c) /\ used' \in UsedRec
      BY <1>7, <2>1, BeginMoves DEF AdminStatus, Ops
    <2>3. service' \in [Services -> ServiceRec]
      BY <1>7, StatusTyped, TypeParts DEF AdminStatus, Status
    <2> QED
      BY <1>7, <2>2, <2>3, TypeParts, TypePartsAfter DEF AdminStatus, NamesStay, Moves
  <1> QED
    BY <1>1, <1>2, <1>3, <1>4, <1>5, <1>6, <1>7 DEF Starts

\* One record changes, but for its name.
LEMMA Rewritten ==
    ASSUME DomainTypeOK, NEW s, NEW r \in Details,
           s \in Services => r.name = details[s].name,
           details' = [details EXCEPT ![s] = r]
    PROVE  /\ details' \in [Services -> Details]
           /\ \A t \in Services : details'[t].name = details[t].name
  BY TypeParts

\* A failure is noted in the record of a service, if it has one.
LEMMA Unsynced ==
    ASSUME DomainTypeOK, NEW s, details' = [details EXCEPT ![s].synced = FALSE]
    PROVE  /\ details' \in [Services -> Details]
           /\ \A t \in Services : details'[t].name = details[t].name
  <1>1. details \in [Services -> Details]
    BY TypeParts
  <1>2. s \notin Services => details' = details
    BY <1>1
  <1>3. CASE s \in Services
    <2>1. details[s] \in Details
      BY <1>1, <1>3
    <2>2. [details[s] EXCEPT !.synced = FALSE] \in Details
      BY <2>1 DEF Details
    <2>3. [details[s] EXCEPT !.synced = FALSE].name = details[s].name
      BY <2>1 DEF Details
    <2> QED
      BY <1>1, <1>3, <2>2, <2>3
  <1> QED
    BY <1>1, <1>2, <1>3

LEMMA LiveSteps ==
    ASSUME Sound, NEW c \in Callers, LiveAnswer(c) \/ LiveFails(c)
    PROVE  DomainTypeOK' /\ NamesStay
  <1> USE DEF Sound
  <1> DEFINE n == call[c].n
  <1>0. call \in [Callers -> CallRec] /\ call[c] \in CallRec /\ call[c].at = "live" /\ Placed(call[c])
    BY TypeParts DEF LiveAnswer, LiveFails, CallsPlaced
  <1>1. CASE LiveAnswer(c)
    <2> DEFINE r == [call[c] EXCEPT !.at = AfterLive(c), !.live = Info(n)]
    <2>1. n \in Names /\ registry[n].held
      BY <1>0, <1>1 DEF LiveAnswer, Placed
    <2>2. AfterLive(c) \in {"assert", "store"}
      BY DEF AfterLive
    <2>3. r \in CallRec
      BY <1>0, <2>1, <2>2, InfoTyped DEF CallRec, Stages
    <2>4. call' = [call EXCEPT ![c] = r]
      BY <1>0, <1>1 DEF LiveAnswer
    <2>5. Placed(r)
      BY <1>0, <2>2 DEF Placed, CallRec, AfterLive, ServiceStages
    <2>6. r.n = n /\ r.at \notin Trust
      BY <1>0, <2>2 DEF CallRec, Trust
    <2>7. Moves(c)
      <3> HIDE DEF r
      <3> QED  BY <1>0, <2>1, <2>3, <2>4, <2>5, <2>6 DEF Moves
    <2> QED
      BY <1>1, <2>7, TypeParts, TypePartsAfter DEF LiveAnswer, NamesStay, Moves
  <1>2. CASE LiveFails(c)
    <2>1. used' \in UsedRec
      BY <1>2, Spending, TypeParts DEF LiveFails
    <2>2. details' \in [Services -> Details] /\ \A t \in Services : details'[t].name = details[t].name
      BY <1>2, Unsynced, TypeParts DEF LiveFails
    <2>3. tracked' \in SUBSET Names
      BY <1>0, <1>2, TypeParts DEF LiveFails, Placed
    <2>4. Moves(c)
      BY <1>2, EndMoves DEF LiveFails
    <2> QED
      BY <1>2, <2>1, <2>2, <2>3, <2>4, TypeParts, TypePartsAfter DEF LiveFails, NamesStay, Moves
  <1> QED
    BY <1>1, <1>2

\* Order, order item and service of an import.
LEMMA CreateStep ==
    ASSUME Sound, NEW c \in Callers, NEW s \in Services, ImportCreate(c, s)
    PROVE  DomainTypeOK' /\ NamesStay
  <1> USE DEF Sound
  <1> DEFINE r == [call[c] EXCEPT !.s = s, !.at = "assert"]
             new == [status |-> "PROVISIONING", name |-> call[c].n, kind |-> "REGISTER", waits |-> TRUE]
  <1>0. call \in [Callers -> CallRec] /\ call[c] \in CallRec /\ call[c].at = "create" /\ Placed(call[c])
    BY TypeParts DEF ImportCreate, At, CallsPlaced
  <1>1. r \in CallRec /\ Placed(r) /\ r.n = call[c].n /\ r.at = "assert"
    BY <1>0 DEF CallRec, Stages, Placed, ServiceStages
  <1>2. call' = [call EXCEPT ![c] = r]
    BY <1>0 DEF ImportCreate
  <1>3. Moves(c)
    <2> HIDE DEF r
    <2> QED  BY <1>0, <1>1, <1>2 DEF Moves, Trust, HeldStages
  <1>4. new \in ServiceRec
    BY <1>0 DEF ServiceRec, Status, Placed
  <1>5. service' \in [Services -> ServiceRec]
    <2> HIDE DEF new
    <2>1. service' = [service EXCEPT ![s] = new]
      BY DEF ImportCreate, new
    <2> QED  BY <1>4, <2>1, TypeParts
  <1> QED
    BY <1>3, <1>5, TypeParts, TypePartsAfter DEF ImportCreate, NamesStay, Moves

LEMMA ConfirmSteps ==
    ASSUME Sound, NEW c \in Callers, Attach(c) \/ Confirm(c) \/ Activate(c) \/ SyncService(c)
    PROVE  DomainTypeOK' /\ NamesStay
  <1> USE DEF Sound
  <1>0. call[c].s \in Services
    BY DEF CallsPlaced, Placed, Attach, Confirm, Activate, SyncService, At, ServiceStages
  <1>1. Moves(c)
    BY EndMoves DEF Attach, Confirm, Activate, SyncService
  <1>2. service' \in [Services -> ServiceRec]
    <2>1. service \in [Services -> ServiceRec] /\ service[call[c].s] \in ServiceRec
      BY <1>0, TypeParts
    <2>2. CASE Attach(c)
      <3>1. service' = [service EXCEPT ![call[c].s] = [@ EXCEPT !.status = "PROVISIONING", !.waits = TRUE]]
        BY <1>0, <2>1, <2>2 DEF Attach
      <3>2. [service[call[c].s] EXCEPT !.status = "PROVISIONING", !.waits = TRUE] \in ServiceRec
        BY <2>1 DEF ServiceRec, Status
      <3> QED  BY <1>0, <2>1, <3>1, <3>2
    <2>3. CASE Confirm(c)
      <3>1. \/ service' = service
            \/ service' = [service EXCEPT ![call[c].s] = [@ EXCEPT !.status = "ACTIVE", !.waits = FALSE]]
        BY <1>0, <2>1, <2>3 DEF Confirm
      <3>2. [service[call[c].s] EXCEPT !.status = "ACTIVE", !.waits = FALSE] \in ServiceRec
        BY <2>1 DEF ServiceRec, Status
      <3> QED  BY <1>0, <2>1, <3>1, <3>2
    <2>4. CASE Activate(c) \/ SyncService(c)
      BY <1>0, <2>1, <2>4, StatusTyped DEF Activate, SyncService, Status
    <2> QED
      BY <2>2, <2>3, <2>4
  <1>3. UNCHANGED <<now, registry, provider, details, tracked, used, history>>
    BY DEF Attach, Confirm, Activate, SyncService
  <1> QED
    BY <1>1, <1>2, <1>3, TypeParts, TypePartsAfter DEF NamesStay, Moves

LEMMA StoreStep ==
    ASSUME Sound, NEW c \in Callers, Store(c)
    PROVE  DomainTypeOK' /\ NamesStay
  <1> USE DEF Sound
  <1> DEFINE s == call[c].s
             d == call[c].seen.d
  <1>0. /\ call \in [Callers -> CallRec] /\ call[c] \in CallRec /\ s \in Services
        /\ details[s] \in Details /\ d \in Details /\ call[c].live \in LiveRec
        /\ call[c].n \in Names /\ registry[call[c].n] \in NameRec
    BY TypeParts DEF CallsPlaced, Placed, Store, At, CallRec, SeenRec
  <1>1. PICK transfer \in NextTransfer(c) :
           LET lifecycle == IF Kept(c) THEN d.lifecycle ELSE Lifecycle(d.op, transfer, call[c].live)
           IN  /\ details' = [details EXCEPT ![s] = Refreshed(c, s, transfer, lifecycle)]
               /\ call' = [call EXCEPT ![c].at = "service", ![c].live.lifecycle = lifecycle]
    BY DEF Store
  <1> DEFINE lifecycle == IF Kept(c) THEN d.lifecycle ELSE Lifecycle(d.op, transfer, call[c].live)
             live == [call[c].live EXCEPT !.lifecycle = lifecycle]
             r == [call[c] EXCEPT !.at = "service", !.live = live]
  <1>2. transfer \in Transfers
    BY <1>0, <1>1 DEF NextTransfer, TransferState, Details, NameRec, Transfers
  <1>3. lifecycle \in Phases \cup {"pending"}
    BY <1>0, LifecycleTyped DEF Details
  <1>4. /\ details' = [details EXCEPT ![s] = Refreshed(c, s, transfer, lifecycle)]
        /\ call' = [call EXCEPT ![c] = r]
    BY <1>0, <1>1 DEF CallRec, LiveRec
  <1> HIDE DEF lifecycle
  <1>l. call[c].live.exp \in Years \cup {Unset} /\ call[c].live.setting \in Settings
    BY <1>0 DEF LiveRec
  <1>5. Refreshed(c, s, transfer, lifecycle) \in Details
    <2>1. ASSUME NEW d0 \in Details, NEW e \in Years \cup {Unset}, NEW g \in Settings,
                 NEW l \in Phases \cup {"pending"}, NEW x \in Transfers
          PROVE  [d0 EXCEPT !.exp = e, !.setting = g, !.lifecycle = l, !.synced = TRUE,
                            !.fresh = TRUE, !.transfer = x] \in Details
      BY DEF Details
    <2>2. (IF call[c].op = "sync" THEN transfer ELSE details[s].transfer) \in Transfers
      BY <1>0, <1>2 DEF Details
    <2> QED
      BY <1>0, <1>3, <1>l, <2>1, <2>2 DEF Refreshed
  <1>6. Refreshed(c, s, transfer, lifecycle).name = details[s].name
    BY <1>0 DEF Refreshed, Details
  <1>7. live \in LiveRec
    BY <1>0, <1>3 DEF LiveRec
  <1>8. r \in CallRec /\ Placed(r) /\ r.at = "service"
    <2> HIDE DEF live
    <2> QED  BY <1>0, <1>7 DEF CallRec, Stages, Placed, ServiceStages
  <1>9. Moves(c)
    <2> HIDE DEF r
    <2> QED  BY <1>0, <1>4, <1>8 DEF Moves, Trust, HeldStages
  <1>10. details' \in [Services -> Details] /\ \A t \in Services : details'[t].name = details[t].name
    BY <1>4, <1>5, <1>6, Rewritten
  <1> QED
    BY <1>9, <1>10, TypeParts, TypePartsAfter DEF Store, NamesStay, Moves

LEMMA ScheduledSteps ==
    ASSUME Sound, Scheduled
    PROVE  DomainTypeOK' /\ NamesStay
  <1> USE DEF Sound
  <1>c. Cron \in Callers /\ call \in [Callers -> CallRec] /\ call[Cron] \in CallRec /\ Placed(call[Cron])
    BY TypeParts DEF CallsPlaced, Callers
  <1>1. ASSUME NEW s \in Services, NEW op \in {"cron", "transfer"}, CronStart(op, s)
        PROVE DomainTypeOK' /\ NamesStay
    <2> DEFINE seen == [NothingSeen EXCEPT !.d = Trimmed(details[s])]
               r == [Idle EXCEPT !.op = op, !.at = "parent", !.s = s, !.n = details[s].name, !.seen = seen]
    <2>1. details[s].name \in Names /\ Trimmed(details[s]) \in Details
      BY <1>1, NamesKnown, SeenTyped, TypeParts DEF CronStart, InTransfer, Due
    <2>2. seen \in SeenRec
      BY <2>1, Constants DEF SeenRec
    <2>3. call' = [call EXCEPT ![Cron] = r]
      BY <1>c, <1>1 DEF CronStart, Idle
    <2> HIDE DEF seen
    <2>4. r \in CallRec /\ Placed(r) /\ r.at = "parent"
      BY <2>1, <2>2, Constants DEF CallRec, Ops, Stages, Placed, ServiceStages
    <2>5. Moves(Cron)
      <3> HIDE DEF r
      <3> QED  BY <1>c, <2>3, <2>4 DEF Moves, Trust, HeldStages
    <2> QED
      BY <1>c, <1>1, <2>5, TypeParts, TypePartsAfter DEF CronStart, NamesStay, Moves
  <1>2. CASE CronParent
    <2> DEFINE s == call[Cron].s
               next == IF call[Cron].op = "cron" THEN "live" ELSE "poll"
               seen == [call[Cron].seen EXCEPT !.status = service[s].status, !.waits = service[s].waits]
               r == [call[Cron] EXCEPT !.at = next, !.seen = seen]
    <2>1. call[Cron].at = "parent" /\ s \in Services /\ call[Cron].n \in Names /\ service[s] \in ServiceRec
      BY <1>c, <1>2, TypeParts DEF CronParent, At, Placed, ServiceStages
    <2>2. seen \in SeenRec
      BY <1>c, <2>1 DEF SeenRec, CallRec, ServiceRec
    <2>3. End(Cron) \/ call' = [call EXCEPT ![Cron] = r]
      <3>1. CASE ~End(Cron)
        <4>1. call' = [call EXCEPT ![Cron].at = next, ![Cron].seen.status = service[s].status,
                                   ![Cron].seen.waits = service[s].waits]
          BY <1>c, <1>2, <2>1, <3>1 DEF CronParent
        <4>2. call' = [call EXCEPT ![Cron] = [call[Cron] EXCEPT !.at = next,
                          !.seen.status = service[s].status, !.seen.waits = service[s].waits]]
          BY <1>c, <4>1
        <4>3. r = [call[Cron] EXCEPT !.at = next, !.seen.status = service[s].status,
                                     !.seen.waits = service[s].waits]
          BY <1>c DEF CallRec, SeenRec
        <4> QED  BY <4>2, <4>3
      <3> QED
        BY <3>1
    <2> HIDE DEF seen
    <2>4. r \in CallRec /\ Placed(r) /\ r.at \in {"live", "poll"}
      BY <1>c, <2>1, <2>2 DEF CallRec, Stages, Placed, ServiceStages
    <2>5. Moves(Cron)
      <3> HIDE DEF r
      <3> QED  BY <1>c, <2>3, <2>4, EndMoves DEF Moves, Trust, HeldStages
    <2> QED
      BY <1>c, <1>2, <2>5, TypeParts, TypePartsAfter DEF CronParent, NamesStay, Moves
  <1>3. CASE Poll
    <2> DEFINE s == call[Cron].s
               n == call[Cron].n
               answer == TransferState(n)
               closed == [details[s] EXCEPT !.transfer = answer, !.fresh = TRUE,
                            !.lifecycle = IF answer = "COMPLETED" THEN "active" ELSE "lost",
                            !.exp = IF answer = "COMPLETED" THEN registry[n].exp ELSE @]
    <2>1. s \in Services /\ n \in Names /\ details[s] \in Details /\ registry[n] \in NameRec
      BY <1>c, <1>3, TypeParts DEF Poll, At, Placed, ServiceStages
    <2>a. answer \in Transfers
      BY <2>1 DEF TransferState, NameRec, Transfers
    <2> DEFINE marked == [details[s] EXCEPT !.fresh = TRUE]
    <2>2. /\ closed \in Details /\ closed.name = details[s].name
          /\ marked \in Details /\ marked.name = details[s].name
      <3> HIDE DEF answer
      <3> QED  BY <2>1, <2>a DEF Details, NameRec, Phases
    <2>3. details' = [details EXCEPT ![s] = marked] \/ details' = [details EXCEPT ![s] = closed]
      BY <1>3 DEF Poll
    <2>4. details' \in [Services -> Details] /\ \A t \in Services : details'[t].name = details[t].name
      <3> HIDE DEF closed, marked
      <3> QED  BY <2>2, <2>3, Rewritten
    <2>5. Moves(Cron)
      BY <1>c, <1>3, EndMoves DEF Poll
    <2> QED
      BY <1>c, <1>3, <2>4, <2>5, TypeParts, TypePartsAfter DEF Poll, NamesStay, Moves
  <1>4. CASE PollFails
    BY <1>c, <1>4, EndMoves, TypeParts, TypePartsAfter DEF PollFails, NamesStay, Moves
  <1> QED
    BY <1>1, <1>2, <1>3, <1>4 DEF Scheduled, CronGoesOn

LEMMA SettingSteps ==
    ASSUME Sound, NEW c \in Callers, SendSetting(c) \/ SendFails(c) \/ StoreSetting(c)
    PROVE  DomainTypeOK' /\ NamesStay
  <1> USE DEF Sound
  <1>0. call \in [Callers -> CallRec] /\ call[c] \in CallRec /\ Placed(call[c]) /\ call[c].live \in LiveRec
    BY TypeParts DEF CallsPlaced, CallRec
  <1>1. CASE SendSetting(c)
    <2> DEFINE n == call[c].n
               live == [call[c].live EXCEPT !.setting = "new"]
               r == [call[c] EXCEPT !.at = "store", !.live = live]
    <2>1. n \in Names /\ registry[n] \in NameRec /\ call[c].op = "save"
      BY <1>0, <1>1, TypeParts DEF SendSetting, At, Placed
    <2>2. live \in LiveRec
      BY <1>0 DEF LiveRec, Settings
    <2>3. call' = [call EXCEPT ![c] = r]
      BY <1>0, <1>1 DEF SendSetting, CallRec, LiveRec
    <2> HIDE DEF live
    <2>4. r \in CallRec /\ Placed(r) /\ r.at = "store"
      BY <1>0, <2>1, <2>2 DEF CallRec, Stages, Placed, ServiceStages
    <2>5. Moves(c)
      <3> HIDE DEF r
      <3> QED  BY <1>0, <2>3, <2>4 DEF Moves, Trust, HeldStages
    <2>6. [registry[n] EXCEPT !.setting = "new"] \in NameRec
      BY <2>1 DEF NameRec, Settings
    <2>7. registry' \in [Names -> NameRec] /\ \A m \in Names : registry'[m].held = registry[m].held
      BY <1>1, <2>1, <2>6, TypeParts DEF SendSetting, NameRec
    <2> QED
      BY <1>1, <2>5, <2>7, TypeParts, TypePartsAfter DEF SendSetting, NamesStay, Moves
  <1>2. CASE SendFails(c)
    <2>1. used' \in UsedRec /\ Moves(c)
      BY <1>2, Spending, TypeParts, EndMoves DEF SendFails
    <2> QED
      BY <1>2, <2>1, TypeParts, TypePartsAfter DEF SendFails, NamesStay, Moves
  <1>3. CASE StoreSetting(c)
    <2>1. details' \in [Services -> Details] /\ \A t \in Services : details'[t].name = details[t].name
      <3>1. CASE Linked(call[c].n) = {}
        BY <1>3, <3>1, TypeParts DEF StoreSetting
      <3>2. CASE Linked(call[c].n) # {}
        <4>1. PICK s \in Services :
                 details' = [details EXCEPT ![s].setting = call[c].live.setting, ![s].fresh = TRUE,
                                            ![s].synced = @ \/ call[c].op = "get"]
          BY <1>3, <3>2 DEF StoreSetting, Linked
        <4> DEFINE r == [details[s] EXCEPT !.setting = call[c].live.setting, !.fresh = TRUE,
                                           !.synced = @ \/ call[c].op = "get"]
        <4>2. details[s] \in Details /\ details' = [details EXCEPT ![s] = r]
          BY <4>1, TypeParts DEF Details
        <4>3. r \in Details /\ r.name = details[s].name
          BY <1>0, <4>2 DEF Details, LiveRec
        <4> HIDE DEF r
        <4> QED  BY <4>2, <4>3, Rewritten
      <3> QED
        BY <3>1, <3>2
    <2>2. Moves(c)
      BY <1>3, EndMoves DEF StoreSetting
    <2> QED
      BY <1>3, <2>1, <2>2, TypeParts, TypePartsAfter DEF StoreSetting, NamesStay, Moves
  <1> QED
    BY <1>1, <1>2, <1>3

\* The second write of an administrator's change of status.
LEMMA AdminStep ==
    ASSUME Sound, NEW c \in Callers, NEW transfer \in {"absent", "PENDING", "COMPLETED", "REJECTED"},
           NEW byHand \in BOOLEAN, AdminDetails(c, "lost", transfer, byHand)
    PROVE  DomainTypeOK' /\ NamesStay
  <1> USE DEF Sound
  <1> DEFINE s == call[c].s
             r == [details[s] EXCEPT !.lifecycle = "lost",
                                     !.transfer = IF transfer = "absent" \/ details[s].op = "REGISTER"
                                                  THEN @ ELSE transfer,
                                     !.manual = byHand]
  <1>1. s \in Services /\ details[s] \in Details
    BY TypeParts DEF CallsPlaced, Placed, AdminDetails, At, ServiceStages
  <1>2. r \in Details /\ r.name = details[s].name
    BY <1>1 DEF Details, Phases, Transfers
  <1>3. details' = [details EXCEPT ![s] = r] /\ Moves(c)
    BY EndMoves DEF AdminDetails
  <1>4. details' \in [Services -> Details] /\ \A t \in Services : details'[t].name = details[t].name
    <2> HIDE DEF r
    <2> QED  BY <1>2, <1>3, Rewritten
  <1> QED
    BY <1>3, <1>4, TypeParts, TypePartsAfter DEF AdminDetails, NamesStay, Moves

LEMMA AdministeredSteps ==
    ASSUME Sound, Administered
    PROVE  DomainTypeOK' /\ NamesStay
  <1> USE DEF Sound
  <1>u. used.ops < MaxOps => [used EXCEPT !.ops = @ + 1] \in UsedRec
    BY TypeParts DEF UsedRec
  <1>1. ASSUME NEW n \in Names, StaffRegister(n)
        PROVE  DomainTypeOK' /\ NamesStay
    <2> DEFINE r == [held |-> TRUE, exp |-> now + 1, phase |-> "active", transfer |-> "none",
                     setting |-> "old"]
    <2>1. r \in NameRec
      BY TypeParts DEF NameRec, Years, Phases, Transfers, Settings
    <2>2. registry' = [registry EXCEPT ![n] = r] /\ r.held
      BY <1>1 DEF StaffRegister
    <2>3. registry' \in [Names -> NameRec] /\ \A m \in Names : registry[m].held => registry'[m].held
      <3> HIDE DEF r
      <3> QED  BY <2>1, <2>2, TypeParts
    <2> QED
      BY <1>u, <1>1, <2>3, TypeParts, TypePartsAfter DEF StaffRegister, NamesStay
  <1>2. ASSUME NEW n \in Names, TrackDomains(n)
        PROVE  DomainTypeOK' /\ NamesStay
    BY <1>u, <1>2, TypeParts, TypePartsAfter DEF TrackDomains, NamesStay
  <1> QED
    BY <1>1, <1>2 DEF Administered

\* A name leaves the account.
Leaves(n) ==
    /\ details' = details /\ call' = call
    /\ \A m \in Names \ {n} : registry'[m] = registry[m]
    /\ history' = [history EXCEPT !.left = @ \cup {n}]

LEMMA WorldSteps ==
    ASSUME Sound, World
    PROVE  DomainTypeOK' /\ (NamesStay \/ \E n \in Names : Leaves(n))
  <1> USE DEF Sound
  <1>1. ASSUME NEW s \in Services, OverrideEnds(s) PROVE DomainTypeOK' /\ NamesStay
    <2> DEFINE r == [details[s] EXCEPT !.manual = FALSE]
    <2>1. details[s] \in Details /\ details' = [details EXCEPT ![s] = r]
      BY <1>1, TypeParts DEF OverrideEnds
    <2>2. r \in Details /\ r.name = details[s].name
      BY <2>1 DEF Details
    <2>3. details' \in [Services -> Details] /\ \A t \in Services : details'[t].name = details[t].name
      <3> HIDE DEF r
      <3> QED  BY <2>1, <2>2, Rewritten
    <2> QED
      BY <1>1, <2>3, TypeParts, TypePartsAfter DEF OverrideEnds, NamesStay
  <1>2. ASSUME NEW n \in Names, TransferEnds(n) \/ Lapse(n) PROVE DomainTypeOK' /\ NamesStay
    <2>1. registry \in [Names -> NameRec] /\ registry[n] \in NameRec
      BY TypeParts
    <2>2. PICK r \in NameRec : registry' = [registry EXCEPT ![n] = r] /\ r.held = registry[n].held
      <3>1. CASE Lapse(n)
        <4>1. [registry[n] EXCEPT !.phase = "lapsed"] \in NameRec
          BY <2>1 DEF NameRec, Phases
        <4> QED  BY <2>1, <3>1, <4>1 DEF Lapse, NameRec
      <3>2. CASE TransferEnds(n)
        <4>1. PICK answer \in {"COMPLETED", "REJECTED"} : registry' = [registry EXCEPT ![n].transfer = answer]
          BY <3>2 DEF TransferEnds
        <4>2. [registry[n] EXCEPT !.transfer = answer] \in NameRec
          BY <2>1 DEF NameRec, Transfers
        <4> QED  BY <2>1, <4>1, <4>2 DEF NameRec
      <3> QED
        BY <1>2, <3>1, <3>2
    <2>3. registry' \in [Names -> NameRec] /\ \A m \in Names : registry[m].held => registry'[m].held
      BY <2>1, <2>2
    <2> QED
      BY <1>2, <2>3, TypeParts, TypePartsAfter DEF TransferEnds, Lapse, NamesStay
  <1>3. ASSUME NEW n \in Names, LeaveAccount(n) PROVE DomainTypeOK' /\ Leaves(n)
    <2>r. registry[n] \in NameRec
      BY TypeParts
    <2>1. [registry[n] EXCEPT !.held = FALSE] \in NameRec
      BY <2>r DEF NameRec
    <2>2. registry' \in [Names -> NameRec] /\ \A m \in Names \ {n} : registry'[m] = registry[m]
      BY <1>3, <2>1, TypeParts DEF LeaveAccount
    <2>3. used' \in UsedRec /\ history' \in HistoryRec
      BY <1>3, Spending, TypeParts DEF LeaveAccount, HistoryRec
    <2> QED
      BY <1>3, <2>2, <2>3, TypeParts, TypePartsAfter DEF LeaveAccount, Leaves
  <1>4. ASSUME YearPasses PROVE DomainTypeOK' /\ NamesStay
    BY <1>4, TypeParts, TypePartsAfter DEF YearPasses, NamesStay
  <1>5. ASSUME NEW c \in Callers, Dies(c) PROVE DomainTypeOK' /\ NamesStay
    <2>1. used' \in UsedRec /\ Moves(c)
      BY <1>5, Spending, EndMoves DEF Dies
    <2> QED
      BY <1>5, <2>1, TypeParts, TypePartsAfter DEF Dies, NamesStay, Moves
  <1>6. ASSUME NEW s \in Services, DayPasses(s) PROVE DomainTypeOK' /\ NamesStay
    <2> DEFINE r == [details[s] EXCEPT !.fresh = FALSE]
    <2>1. details[s] \in Details /\ details' = [details EXCEPT ![s] = r]
      BY <1>6, TypeParts DEF DayPasses
    <2>2. r \in Details /\ r.name = details[s].name
      BY <2>1 DEF Details
    <2>3. details' \in [Services -> Details] /\ \A t \in Services : details'[t].name = details[t].name
      <3> HIDE DEF r
      <3> QED  BY <2>1, <2>2, Rewritten
    <2> QED
      BY <1>6, <2>3, TypeParts, TypePartsAfter DEF DayPasses, NamesStay
  <1> QED
    BY <1>1, <1>2, <1>3, <1>4, <1>5, <1>6 DEF World

-----------------------------------------------------------------------------
(* Steps towards a link *)

\* Caller c begins to trust that no other service has its name: it found none,
\* or the registrar has accepted a name it did not hold.
Enters(c) ==
    LET n == call[c].n
    IN /\ call' \in [Callers -> CallRec]
       /\ \A b \in Callers \ {c} : call'[b] = call[b]
       /\ call'[c].at \in Trust /\ call'[c].n = n /\ call'[c].s = call[c].s
       /\ Placed(call'[c]) /\ n \in Names
       /\ \A s \in Services : details'[s].name = details[s].name
       /\ \A m \in Names : registry[m].held => registry'[m].held
       /\ EnterTrust(c)
       /\ \/ /\ call[c].at \in HeldStages
             /\ Linked(n) = {} \/ call[c].s \in Linked(n)
          \/ ~registry[n].held /\ registry'[n].held

\* Caller c links its name to its service.
Links(c) ==
    /\ call[c].at \in Trust /\ call[c].n \in Names /\ call[c].s \in Services
    /\ call' \in [Callers -> CallRec]
    /\ \A b \in Callers \ {c} : call'[b] = call[b]
    /\ call'[c].at \notin HeldStages /\ Placed(call'[c])
    /\ details'[call[c].s].name = call[c].n
    /\ \A s \in Services \ {call[c].s} : details'[s].name = details[s].name
    /\ registry' = registry /\ history' = history

LEMMA Entering ==
    ASSUME DomainTypeOK, NEW c \in Callers, call[c].n \in Names, EnterTrust(c)
    PROVE  /\ history' \in HistoryRec
           /\ history'.left = history.left /\ history.raced \subseteq history'.raced
           /\ \A b \in Callers \ {c} : Trusting(b, call[c].n) => call[c].n \in history'.raced
  BY TypeParts DEF EnterTrust, HistoryRec

LEMMA AssertStep ==
    ASSUME Sound, NEW c \in Callers, Assert(c)
    PROVE  DomainTypeOK' /\ (NamesStay \/ Enters(c))
  <1> USE DEF Sound
  <1> DEFINE n == call[c].n
             s == call[c].s
             import == call[c].op \in {"import", "takeover"} /\ s = NoService
  <1>0. call \in [Callers -> CallRec] /\ call[c] \in CallRec /\ Placed(call[c]) /\ call[c].at = "assert"
    BY TypeParts DEF CallsPlaced, Assert
  <1>1. PICK found \in Services \cup {NoService} :
           /\ NotLinked(n, s, found)
           /\ IF found = NoService \/ found = s
              THEN IF import THEN Go(c, "create") /\ UNCHANGED <<details, history>>
                             ELSE Go(c, "upsert") /\ EnterTrust(c) /\ UNCHANGED details
              ELSE /\ End(c)
                   /\ details' = IF call[c].op = "sync" /\ Recorded(s)
                                 THEN [details EXCEPT ![s].synced = FALSE] ELSE details
                   /\ UNCHANGED history
    BY DEF Assert
  <1>2. UNCHANGED <<now, registry, provider, service, tracked, used>>
    BY DEF Assert
  <1>3. n \in Names
    BY <1>0 DEF Placed
  <1>4. CASE (found = NoService \/ found = s) /\ import
    <2>1. Go(c, "create") /\ UNCHANGED <<details, history>>
      BY <1>1, <1>4
    <2>2. Moves(c)
      <3>1. /\ call' \in [Callers -> CallRec] /\ \A b \in Callers \ {c} : call'[b] = call[b]
            /\ call'[c] = [call[c] EXCEPT !.at = "create"] /\ call'[c].at = "create" /\ call'[c].n = n
        BY <2>1, Going DEF Stages
      <3> QED
        BY <1>0, <1>3, <3>1 DEF Moves, Placed, Trust, HeldStages, ServiceStages
    <2> QED
      BY <1>2, <2>1, <2>2, TypeParts, TypePartsAfter DEF NamesStay, Moves
  <1>5. CASE (found = NoService \/ found = s) /\ ~import
    <2>1. Go(c, "upsert") /\ EnterTrust(c) /\ UNCHANGED details
      BY <1>1, <1>5
    <2>2. /\ call' \in [Callers -> CallRec] /\ \A b \in Callers \ {c} : call'[b] = call[b]
          /\ call'[c].at = "upsert" /\ call'[c].n = n /\ call'[c].s = s
      BY <2>1, Going DEF Stages
    <2>3. s \in Services
      BY <1>0, <1>5 DEF Placed, CallRec
    <2>4. Placed(call'[c])
      BY <1>3, <2>2, <2>3 DEF Placed
    <2>5. Linked(n) = {} \/ s \in Linked(n)
      BY <1>1, <1>5 DEF NotLinked, Linked
    <2>6. Enters(c)
      BY <1>0, <1>2, <1>3, <2>1, <2>2, <2>4, <2>5 DEF Enters, Trust, HeldStages
    <2> QED
      BY <1>2, <1>3, <2>1, <2>2, <2>6, Entering, TypeParts, TypePartsAfter
  <1>6. CASE ~(found = NoService \/ found = s)
    <2>1. Moves(c) /\ history' = history
      BY <1>1, <1>6, EndMoves
    <2>2. details' \in [Services -> Details] /\ \A t \in Services : details'[t].name = details[t].name
      BY <1>1, <1>6, Unsynced, TypeParts
    <2> QED
      BY <1>2, <2>1, <2>2, TypeParts, TypePartsAfter DEF NamesStay, Moves
  <1> QED
    BY <1>4, <1>5, <1>6

LEMMA RegisterStep ==
    ASSUME Sound, NEW c \in Callers, Register(c)
    PROVE  DomainTypeOK' /\ (NamesStay \/ Enters(c))
  <1> USE DEF Sound
  <1> DEFINE n == call[c].n
             s == call[c].s
             accepted == [held |-> TRUE, exp |-> now + 1, phase |-> "active", setting |-> "old",
                          transfer |-> IF service[s].kind = "TRANSFER" THEN "PENDING" ELSE "none"]
  <1>0. /\ call \in [Callers -> CallRec] /\ Placed(call[c]) /\ call[c].at = "register"
        /\ n \in Names /\ s \in Services
    BY TypeParts DEF CallsPlaced, Register, At, Placed, ServiceStages
  <1>1. accepted \in NameRec /\ accepted.held
    BY TypeParts DEF NameRec, Years, Phases, Transfers, Settings
  <1>2. registry' = [registry EXCEPT ![n] = accepted] /\ ~registry[n].held
    BY DEF Register
  <1>3. /\ registry' \in [Names -> NameRec] /\ registry'[n].held
        /\ \A m \in Names : registry[m].held => registry'[m].held
    <2> HIDE DEF accepted
    <2> QED  BY <1>0, <1>1, <1>2, TypeParts
  <1>4. UNCHANGED <<now, provider, details, tracked>>
    BY DEF Register
  <1>5. CASE Go(c, "persist") /\ EnterTrust(c) /\ UNCHANGED <<service, used>>
    <2>1. /\ call' \in [Callers -> CallRec] /\ \A b \in Callers \ {c} : call'[b] = call[b]
          /\ call'[c].at = "persist" /\ call'[c].n = n /\ call'[c].s = s
      BY <1>5, Going DEF Stages
    <2>2. Placed(call'[c])
      BY <1>0, <2>1 DEF Placed
    <2>3. Enters(c)
      BY <1>0, <1>2, <1>3, <1>4, <1>5, <2>1, <2>2 DEF Enters, Trust
    <2> QED
      BY <1>0, <1>3, <1>4, <1>5, <2>1, <2>3, Entering, TypeParts, TypePartsAfter
  <1>6. CASE Faulty /\ SetStatus(s, "FAILED") /\ End(c) /\ UNCHANGED history
    <2>1. used' \in UsedRec /\ service' \in [Services -> ServiceRec] /\ Moves(c)
      BY <1>0, <1>6, Spending, StatusTyped, EndMoves DEF Status
    <2> QED
      BY <1>3, <1>4, <1>6, <2>1, TypeParts, TypePartsAfter DEF NamesStay, Moves
  <1> QED
    BY <1>5, <1>6 DEF Register

LEMMA FailStep ==
    ASSUME Sound, NEW c \in Callers, ProvisionFails(c)
    PROVE  DomainTypeOK' /\ NamesStay
  <1> USE DEF Sound
  <1> DEFINE s == call[c].s
  <1>0. s \in Services /\ service[s] \in ServiceRec /\ call[c].seen.waits \in BOOLEAN
    BY TypeParts DEF CallsPlaced, Placed, ProvisionFails, At, ServiceStages, CallRec, SeenRec
  <1>1. Moves(c)
    BY EndMoves DEF ProvisionFails
  <1>2. service' \in [Services -> ServiceRec]
    <2>1. CASE SetStatus(s, "FAILED")
      BY <1>0, <2>1, StatusTyped DEF Status
    <2>2. CASE service' = [service EXCEPT ![s].status = "FAILED", ![s].waits = call[c].seen.waits]
      <3>1. [service[s] EXCEPT !.status = "FAILED", !.waits = call[c].seen.waits] \in ServiceRec
        BY <1>0 DEF ServiceRec, Status
      <3>2. service' = [service EXCEPT ![s] = [service[s] EXCEPT !.status = "FAILED",
                                                                !.waits = call[c].seen.waits]]
        BY <1>0, <2>2, TypeParts
      <3> QED
        BY <1>0, <3>1, <3>2, TypeParts
    <2> QED
      BY <2>1, <2>2 DEF ProvisionFails
  <1> QED
    BY <1>1, <1>2, TypeParts, TypePartsAfter DEF ProvisionFails, NamesStay, Moves

LEMMA PersistStep ==
    ASSUME Sound, NEW c \in Callers, Persist(c)
    PROVE  DomainTypeOK' /\ Links(c)
  <1> USE DEF Sound
  <1> DEFINE s == call[c].s
             r == [NoDetails EXCEPT !.name = call[c].n, !.op = service[s].kind,
                      !.transfer = IF service[s].kind = "TRANSFER" THEN "PENDING" ELSE "none"]
  <1>0. /\ call[c] \in CallRec /\ Placed(call[c]) /\ call[c].at = "persist"
        /\ call[c].n \in Names /\ s \in Services /\ service[s] \in ServiceRec
    BY TypeParts DEF CallsPlaced, Placed, Persist, At, ServiceStages
  <1>1. r \in Details /\ r.name = call[c].n
    BY <1>0 DEF NoDetails, Details, ServiceRec, Transfers, Settings
  <1>2. details' = [details EXCEPT ![s] = r]
    BY DEF Persist
  <1>3. /\ details' \in [Services -> Details] /\ details'[s].name = call[c].n
        /\ \A t \in Services \ {s} : details'[t].name = details[t].name
    <2> HIDE DEF r
    <2> QED  BY <1>0, <1>1, <1>2, TypeParts
  <1>4. /\ call' \in [Callers -> CallRec] /\ \A b \in Callers \ {c} : call'[b] = call[b]
        /\ call'[c].at = "activate" /\ call'[c].n = call[c].n /\ call'[c].s = s
    BY Going DEF Persist, Stages
  <1>5. Placed(call'[c]) /\ call'[c].at \notin HeldStages
    BY <1>0, <1>4 DEF Placed, HeldStages
  <1> QED
    BY <1>0, <1>3, <1>4, <1>5, TypeParts, TypePartsAfter DEF Persist, Links, Trust

LEMMA UpsertStep ==
    ASSUME Sound, NEW c \in Callers, Upsert(c)
    PROVE  DomainTypeOK' /\ Links(c)
  <1> USE DEF Sound
  <1> DEFINE s == call[c].s
             record == [details[s] EXCEPT !.name = call[c].n, !.exp = call[c].live.exp,
                           !.op = "REGISTER", !.synced = TRUE, !.imported = TRUE, !.fresh = TRUE,
                           !.setting = call[c].live.setting,
                           !.lifecycle = Lifecycle("REGISTER", "none", call[c].live)]
             seen == [call[c].seen EXCEPT !.d = Trimmed(record)]
             told == [call[c].seen EXCEPT !.d = Trimmed(record),
                         !.status = service[s].status, !.waits = service[s].waits]
  <1>0. /\ call \in [Callers -> CallRec] /\ call[c] \in CallRec /\ Placed(call[c])
        /\ call[c].at = "upsert" /\ call[c].n \in Names /\ s \in Services
        /\ service[s] \in ServiceRec /\ details[s] \in Details /\ call[c].live \in LiveRec
        /\ call[c].seen \in SeenRec
    BY TypeParts DEF CallsPlaced, Placed, Upsert, ServiceStages, CallRec
  <1>1. Lifecycle("REGISTER", "none", call[c].live) \in Phases \cup {"pending"}
    BY <1>0, LifecycleTyped
  <1>2. record \in Details /\ record.name = call[c].n
    BY <1>0, <1>1 DEF Details, LiveRec
  <1>3. details' = [details EXCEPT ![s] = record]
    BY DEF Upsert
  <1>4. PICK r \in CallRec : /\ call' = [call EXCEPT ![c] = r] /\ Placed(r)
                             /\ r.at \notin HeldStages
    <2> HIDE DEF record
    <2>1. seen \in SeenRec /\ told \in SeenRec
      <3>1. Trimmed(record) \in Details
        BY <1>2, SeenTyped
      <3> QED
        BY <1>0, <3>1 DEF SeenRec, ServiceRec
    <2>2. call' = CASE call[c].op = "adopt" -> [call EXCEPT ![c].at = "attach"]
                    [] call[c].op = "sync" ->
                         [call EXCEPT ![c].at = "store", ![c].seen.d = Trimmed(record)]
                    [] call[c].op = "takeover" ->
                         [call EXCEPT ![c].at = "confirm", ![c].seen = told]
                    [] OTHER -> [call EXCEPT ![c] = Idle]
      BY <1>0 DEF Upsert, record
    <2>3. CASE call[c].op = "adopt"
      <3>1. call' = [call EXCEPT ![c] = [call[c] EXCEPT !.at = "attach"]]
        BY <1>0, <2>2, <2>3
      <3>2. [call[c] EXCEPT !.at = "attach"] \in CallRec /\ Placed([call[c] EXCEPT !.at = "attach"])
        BY <1>0 DEF CallRec, Stages, Placed
      <3> QED
        BY <1>0, <3>1, <3>2 DEF HeldStages, CallRec
    <2>4. CASE call[c].op = "sync"
      <3> DEFINE r == [call[c] EXCEPT !.at = "store", !.seen = seen]
      <3>1. call' = [call EXCEPT ![c] = r]
        BY <1>0, <2>2, <2>4 DEF CallRec, SeenRec
      <3> HIDE DEF seen
      <3>2. r \in CallRec /\ Placed(r) /\ r.at = "store"
        BY <1>0, <2>1 DEF CallRec, Stages, Placed, ServiceStages
      <3> HIDE DEF r
      <3> QED
        BY <3>1, <3>2 DEF HeldStages
    <2>5. CASE call[c].op = "takeover"
      <3> DEFINE r == [call[c] EXCEPT !.at = "confirm", !.seen = told]
      <3>1. call' = [call EXCEPT ![c] = r]
        BY <1>0, <2>2, <2>5
      <3> HIDE DEF told
      <3>2. r \in CallRec /\ Placed(r) /\ r.at = "confirm"
        BY <1>0, <2>1 DEF CallRec, Stages, Placed, ServiceStages
      <3> HIDE DEF r
      <3> QED
        BY <3>1, <3>2 DEF HeldStages
    <2>6. CASE call[c].op \notin {"adopt", "sync", "takeover"}
      <3>1. call' = [call EXCEPT ![c] = Idle]
        BY <2>2, <2>6
      <3> QED
        BY <3>1, Constants DEF HeldStages, Idle
    <2> QED
      BY <2>3, <2>4, <2>5, <2>6
  <1> HIDE DEF record
  <1>5. /\ details' \in [Services -> Details] /\ details'[s].name = call[c].n
        /\ \A t \in Services \ {s} : details'[t].name = details[t].name
    BY <1>0, <1>2, <1>3, TypeParts
  <1>6. /\ call' \in [Callers -> CallRec] /\ \A b \in Callers \ {c} : call'[b] = call[b]
        /\ Placed(call'[c]) /\ call'[c].at \notin HeldStages
    BY <1>0, <1>4
  <1>7. /\ UNCHANGED <<now, registry, provider, service, used, history>>
        /\ tracked' \in SUBSET Names
    BY <1>0, TypeParts DEF Upsert
  <1> QED
    BY <1>0, <1>5, <1>6, <1>7, TypeParts, TypePartsAfter DEF Links, Trust

-----------------------------------------------------------------------------
(* What every step is *)

LEMMA Steps ==
    ASSUME Sound, RegistryNext
    PROVE  /\ DomainTypeOK'
           /\ \/ NamesStay
              \/ \E n \in Names : Leaves(n)
              \/ \E c \in Callers : Enters(c) \/ Links(c)
  <1>1. ASSUME NEW c \in Callers, Continues(c)
        PROVE  DomainTypeOK' /\ (NamesStay \/ Enters(c) \/ Links(c))
    <2>1. CASE LiveAnswer(c) \/ LiveFails(c)
      BY <2>1, LiveSteps
    <2>2. CASE Assert(c)
      BY <2>2, AssertStep
    <2>3. CASE \E s \in Services : ImportCreate(c, s)
      BY <2>3, CreateStep
    <2>4. CASE Upsert(c)
      BY <2>4, UpsertStep
    <2>5. CASE Attach(c) \/ Confirm(c) \/ Activate(c) \/ SyncService(c)
      BY <2>5, ConfirmSteps
    <2>6. CASE Store(c)
      BY <2>6, StoreStep
    <2>7. CASE Register(c)
      BY <2>7, RegisterStep
    <2>8. CASE ProvisionFails(c)
      BY <2>8, FailStep
    <2>9. CASE Persist(c)
      BY <2>9, PersistStep
    <2>10. CASE SendSetting(c) \/ SendFails(c) \/ StoreSetting(c)
      BY <2>10, SettingSteps
    <2>11. CASE \E transfer \in {"absent", "PENDING", "COMPLETED", "REJECTED"}, byHand \in BOOLEAN :
                  AdminDetails(c, "lost", transfer, byHand)
      BY <2>11, AdminStep
    <2> QED
      BY <1>1, <2>1, <2>2, <2>3, <2>4, <2>5, <2>6, <2>7, <2>8, <2>9, <2>10, <2>11 DEF Continues
  <1> QED
    BY <1>1, StartSteps, ScheduledSteps, AdministeredSteps, WorldSteps DEF RegistryNext

\* After each of the steps callers are where their calls may be.
LEMMA PlacesKept ==
    ASSUME Sound, RegistryNext
    PROVE  CallsPlaced'
  <1>1. \/ NamesStay
        \/ \E n \in Names : Leaves(n)
        \/ \E c \in Callers : Enters(c) \/ Links(c)
    BY Steps
  <1>2. CASE NamesStay
    BY <1>2, MovesPlaced DEF NamesStay, Sound
  <1>3. CASE \E n \in Names : Leaves(n)
    BY <1>3 DEF Leaves, CallsPlaced, Sound
  <1>4. ASSUME NEW c \in Callers, Enters(c) PROVE CallsPlaced'
    BY <1>4 DEF Enters, CallsPlaced, Sound
  <1>5. ASSUME NEW c \in Callers, Links(c) PROVE CallsPlaced'
    BY <1>5 DEF Links, CallsPlaced, Sound
  <1> QED
    BY <1>1, <1>2, <1>3, <1>4, <1>5

-----------------------------------------------------------------------------
(* Links *)

LEMMA SameNames ==
    ASSUME \A s \in Services : details'[s].name = details[s].name
    PROVE  \A n \in Names : Linked(n)' = Linked(n)
  BY DEF Linked, Recorded

LEMMA QuietLinks ==
    ASSUME Sound, LinkInv, NamesStay
    PROVE  LinkInv'
  <1>1. \A n \in Names : Linked(n)' = Linked(n)
    BY SameNames DEF NamesStay
  <1>2. history' = history /\ \A n \in Names : registry[n].held => registry'[n].held
    BY DEF NamesStay
  <1>3. \A b \in Callers, n \in Names :
           /\ Trusting(b, n)' => Trusting(b, n) /\ call'[b].s = call[b].s
           /\ call'[b].n = n /\ call'[b].at \in HeldStages =>
                 registry[n].held \/ (call[b].n = n /\ call[b].at \in HeldStages)
    BY DEF NamesStay, Moves, Trusting, Trust
  <1>4. HeldWhileLinked'
    BY <1>1, <1>2, <1>3 DEF LinkInv, HeldWhileLinked
  <1>5. OneTrusts'
    BY <1>2, <1>3 DEF LinkInv, OneTrusts
  <1>6. TrustHolds'
    BY <1>1, <1>2, <1>3 DEF LinkInv, TrustHolds
  <1>7. OneHolds'
    BY <1>1, <1>2 DEF LinkInv, OneHolds
  <1> QED
    BY <1>4, <1>5, <1>6, <1>7 DEF LinkInv

LEMMA LeavingLinks ==
    ASSUME Sound, LinkInv, NEW n \in Names, Leaves(n)
    PROVE  LinkInv'
  <1>1. \A m \in Names : Linked(m)' = Linked(m)
    BY SameNames DEF Leaves
  <1>2. /\ history'.left = history.left \cup {n} /\ history'.raced = history.raced
        /\ \A m \in Names \ {n} : registry'[m] = registry[m]
        /\ call' = call
    BY TypeParts DEF Leaves, Sound, HistoryRec
  <1>3. \A b \in Callers, m \in Names : Trusting(b, m)' <=> Trusting(b, m)
    BY <1>2 DEF Trusting
  <1>4. HeldWhileLinked'
    BY <1>1, <1>2 DEF LinkInv, HeldWhileLinked
  <1>5. OneTrusts'
    BY <1>2, <1>3 DEF LinkInv, OneTrusts
  <1>6. TrustHolds'
    BY <1>1, <1>2, <1>3 DEF LinkInv, TrustHolds
  <1>7. OneHolds'
    BY <1>1, <1>2 DEF LinkInv, OneHolds
  <1> QED
    BY <1>4, <1>5, <1>6, <1>7 DEF LinkInv

\* Who begins to trust has found the name free or his own, or the registrar
\* held it for nobody; and if another trusts already, the two race.
LEMMA EnteringLinks ==
    ASSUME Sound, LinkInv, NEW c \in Callers, Enters(c)
    PROVE  LinkInv'
  <1> DEFINE n == call[c].n
  <1>1. \A m \in Names : Linked(m)' = Linked(m)
    BY SameNames DEF Enters
  <1>2. /\ n \in Names /\ history'.left = history.left /\ history.raced \subseteq history'.raced
        /\ \A b \in Callers \ {c} : Trusting(b, n) => n \in history'.raced
    BY Entering DEF Enters, Sound
  <1>3. /\ \A m \in Names : registry[m].held => registry'[m].held
        /\ \A b \in Callers \ {c} : call'[b] = call[b]
        /\ call'[c].n = n /\ call'[c].s = call[c].s /\ call'[c].at \in Trust
        /\ \/ call[c].at \in HeldStages /\ (Linked(n) = {} \/ call[c].s \in Linked(n))
           \/ ~registry[n].held /\ registry'[n].held
    BY DEF Enters
  <1>4. /\ \A b \in Callers \ {c}, m \in Names : Trusting(b, m)' <=> Trusting(b, m)
        /\ \A m \in Names : Trusting(c, m)' => m = n
    BY <1>3 DEF Trusting
  <1>5. HeldWhileLinked'
    BY <1>1, <1>2, <1>3 DEF LinkInv, HeldWhileLinked
  <1>6. OneTrusts'
    BY <1>2, <1>4 DEF LinkInv, OneTrusts
  <1>7. n \notin history.raced \cup history.left => Linked(n) \subseteq {call[c].s}
    BY <1>2, <1>3 DEF LinkInv, HeldWhileLinked, OneHolds
  <1>8. TrustHolds'
    BY <1>1, <1>2, <1>3, <1>4, <1>7 DEF LinkInv, TrustHolds
  <1>9. OneHolds'
    BY <1>1, <1>2 DEF LinkInv, OneHolds
  <1> QED
    BY <1>5, <1>6, <1>8, <1>9 DEF LinkInv

\* Who links was the only one to trust, and its service the only one to have
\* the name; of another name the service loses, it takes nothing from the others.
LEMMA LinkingLinks ==
    ASSUME Sound, LinkInv, NEW c \in Callers, Links(c)
    PROVE  LinkInv'
  <1> SUFFICES ASSUME NEW n \in Names, NEW s \in Services, call[c].n = n, call[c].s = s
               PROVE  LinkInv'
    BY DEF Links
  <1>1. /\ call[c].at \in Trust /\ call'[c].at \notin HeldStages
        /\ \A b \in Callers \ {c} : call'[b] = call[b]
        /\ registry' = registry /\ history' = history
    BY DEF Links
  <1>2. /\ \A m \in Names \ {n} : Linked(m)' \subseteq Linked(m)
        /\ Linked(n)' \subseteq Linked(n) \cup {s}
    <2>1. details'[s].name = n /\ \A t \in Services \ {s} : details'[t].name = details[t].name
      BY DEF Links
    <2>2. ASSUME NEW m \in Names, NEW t \in Services, t \in Linked(m)', t \notin Linked(m)
          PROVE  m = n /\ t = s
      BY <2>1, <2>2 DEF Linked, Recorded
    <2>3. \A m \in Names : Linked(m)' \subseteq Services
      BY DEF Linked
    <2>4. \A m \in Names, t \in Services : t \in Linked(m)' /\ t \notin Linked(m) => m = n /\ t = s
      BY <2>2
    <2>5. ASSUME NEW m \in Names \ {n} PROVE Linked(m)' \subseteq Linked(m)
      BY <2>3, <2>4
    <2>6. Linked(n)' \subseteq Linked(n) \cup {s}
      BY <1>1, <2>3, <2>4
    <2> QED
      BY <2>5, <2>6
  <1>3. Trusting(c, n)
    BY <1>1 DEF Trusting, Trust
  <1>4. \A b \in Callers, m \in Names :
           Trusting(b, m)' => b # c /\ Trusting(b, m) /\ call'[b] = call[b]
    BY <1>1 DEF Trusting, HeldStages
  <1>5. HeldWhileLinked'
    <2>1. \A m \in Names \ history.left : Linked(m)' # {} => registry[m].held
      BY <1>1, <1>2 DEF LinkInv, HeldWhileLinked, Trust, HeldStages
    <2>2. \A b \in Callers : call'[b].at \in HeldStages => call'[b] = call[b]
      BY <1>1
    <2> QED
      BY <1>1, <2>1, <2>2 DEF LinkInv, HeldWhileLinked
  <1>6. OneTrusts'
    BY <1>1, <1>4 DEF LinkInv, OneTrusts
  <1>7. \A m \in Names \ (history.raced \cup history.left), b \in Callers :
           Trusting(b, m)' => m # n
    BY <1>1, <1>3, <1>4 DEF LinkInv, OneTrusts
  <1>8. TrustHolds'
    BY <1>1, <1>2, <1>4, <1>7 DEF LinkInv, TrustHolds
  <1>9. OneHolds'
    <2>1. n \notin history.raced \cup history.left => Linked(n)' \subseteq {s}
      BY <1>1, <1>2, <1>3 DEF LinkInv, TrustHolds
    <2>2. ASSUME NEW m \in Names \ (history.raced \cup history.left), NEW x \in Linked(m)',
                 NEW y \in Linked(m)'
          PROVE  x = y
      <3>1. CASE m = n
        BY <2>1, <3>1
      <3>2. CASE m # n
        <4>1. x \in Linked(m) /\ y \in Linked(m)
          BY <1>2, <3>2
        <4> QED  BY <4>1 DEF LinkInv, OneHolds
      <3> QED
        BY <3>1, <3>2
    <2> QED
      BY <1>1, <2>2 DEF OneHolds
  <1> QED
    BY <1>5, <1>6, <1>8, <1>9 DEF LinkInv

-----------------------------------------------------------------------------
(* Theorems *)

LEMMA InitInv == RegistryInit => RegistryInv
  <1> SUFFICES ASSUME RegistryInit PROVE RegistryInv
    OBVIOUS
  <1>1. PICK ready \in BOOLEAN, kind \in {"REGISTER", "TRANSFER"}, name \in [Ordered -> Names] :
          /\ ready => kind = "REGISTER" /\ \A s, t \in Ordered : name[s] = name[t] => s = t
          /\ service = [s \in Services |->
                [status |-> CASE s \notin Ordered -> "absent"
                              [] s \in Ordered /\ ready -> "ACTIVE"
                              [] OTHER -> "PENDING",
                 name |-> IF s \in Ordered THEN name[s] ELSE NoName,
                 kind |-> kind, waits |-> FALSE]]
          /\ details = [s \in Services |->
                IF s \in Ordered /\ ready
                THEN [NoDetails EXCEPT !.name = name[s], !.exp = 0, !.lifecycle = "active",
                                       !.synced = TRUE, !.fresh = TRUE]
                ELSE NoDetails]
          /\ registry = [n \in Names |->
                [held |-> ready /\ (\E s \in Ordered : name[s] = n), exp |-> 0, phase |-> "active",
                 transfer |-> "none", setting |-> "old"]]
    BY DEF RegistryInit
  <1>2. /\ now = 0 /\ provider \in [Names -> Registrars] /\ tracked = {}
        /\ call = [c \in Callers |-> Idle]
        /\ used = [ops |-> 0, faults |-> 0] /\ history = [raced |-> {}, left |-> {}]
    BY DEF RegistryInit
  <1>3. DomainTypeOK
    <2>0. 0 \in Years
      BY DEF Years
    <2>1. registry \in [Names -> NameRec]
      BY <1>1, <2>0 DEF NameRec, Phases, Transfers, Settings
    <2>2. service \in [Services -> ServiceRec]
      BY <1>1 DEF ServiceRec, Status
    <2>3. details \in [Services -> Details]
      <3>1. \A n \in Names : [NoDetails EXCEPT !.name = n, !.exp = 0, !.lifecycle = "active",
                                               !.synced = TRUE, !.fresh = TRUE] \in Details
        BY <2>0 DEF NoDetails, Details, Phases, Transfers, Settings
      <3> QED
        BY <1>1, <3>1, Constants
    <2>4. call \in [Callers -> CallRec] /\ used \in UsedRec /\ history \in HistoryRec
      BY <1>2, Constants DEF UsedRec, HistoryRec
    <2> QED
      BY <1>2, <2>1, <2>2, <2>3, <2>4, TypeParts
  <1>4. CallsPlaced
    BY <1>2, Constants DEF CallsPlaced
  <1>5. \A s \in Services : details[s].name =
            IF s \in Ordered /\ ready THEN name[s] ELSE NoName
    BY <1>1 DEF NoDetails
  <1>6. \A n \in Names : Linked(n) = {s \in Services : s \in Ordered /\ ready /\ name[s] = n}
    BY <1>5 DEF Linked, Recorded
  <1>7. \A c \in Callers, n \in Names : ~Trusting(c, n) /\ call[c].at \notin HeldStages
    BY <1>2 DEF Trusting, Idle, HeldStages
  <1>8. HeldWhileLinked /\ OneTrusts /\ TrustHolds
    BY <1>1, <1>6, <1>7 DEF HeldWhileLinked, OneTrusts, TrustHolds
  <1>9. OneHolds
    BY <1>1, <1>6 DEF OneHolds
  <1> QED
    BY <1>3, <1>4, <1>8, <1>9 DEF RegistryInv, LinkInv

LEMMA StepInv == RegistryInv /\ [RegistryNext]_registryVars => RegistryInv'
  <1>1. ASSUME RegistryInv, RegistryNext PROVE RegistryInv'
    <2>1. Sound /\ LinkInv
      BY <1>1 DEF RegistryInv, Sound
    <2>2. DomainTypeOK' /\ CallsPlaced'
      BY <1>1, <2>1, Steps, PlacesKept
    <2>3. LinkInv'
      BY <1>1, <2>1, Steps, QuietLinks, LeavingLinks, EnteringLinks, LinkingLinks
    <2> QED
      BY <2>2, <2>3 DEF RegistryInv
  <1>2. ASSUME RegistryInv, UNCHANGED registryVars PROVE RegistryInv'
    BY <1>2 DEF RegistryInv, registryVars, DomainTypeOK, CallsPlaced, LinkInv, HeldWhileLinked,
                OneTrusts, TrustHolds, OneHolds, Linked, Recorded, Trusting
  <1> QED
    BY <1>1, <1>2

THEOREM Invariance == RegistrySpec => []RegistryInv
  BY InitInv, StepInv, PTL DEF RegistrySpec

\* The registry, the services with their records, and the callers with what
\* they have read are always of their types (domain-details.model.ts,
\* domain.service.ts).
THEOREM DomainTypesHold == RegistrySpec => []DomainTypeOK
  <1>1. RegistryInv => DomainTypeOK
    BY DEF RegistryInv
  <1> QED
    BY <1>1, Invariance, PTL

\* Of any number of requests, jobs and scheduled runs, two services have records
\* of one name only where two callers were between look and link at once, or the
\* name had left the account (domain.service.ts:1935).
THEOREM NamesLinkedOnce == RegistrySpec => []LinkedOnce
  <1>1. RegistryInv => LinkedOnce
    <2> SUFFICES ASSUME RegistryInv, NEW n \in Names \ (history.raced \cup history.left)
                 PROVE  ~(Cardinality(Linked(n)) > 1)
      BY DEF LinkedOnce
    <2>1. \A s, t \in Linked(n) : s = t
      BY DEF RegistryInv, LinkInv, OneHolds
    <2>2. CASE Linked(n) = {}
      BY <2>2, FS_EmptySet
    <2>3. CASE Linked(n) # {}
      <3>1. PICK s : Linked(n) = {s}
        BY <2>1, <2>3
      <3>2. Cardinality({s}) = 1
        BY FS_Singleton
      <3> QED
        BY <3>1, <3>2
    <2> QED
      BY <2>2, <2>3
  <1> QED
    BY <1>1, Invariance, PTL

-----------------------------------------------------------------------------
(* DomainRenewals *)

USE NumbersAssumption, RenewalNulls, RenewalBounds

-----------------------------------------------------------------------------
(* Who is at what *)

\* A cycle under way has its invoice, and whoever works on it was paid for it.
RequestsKnown ==
    \A c \in Clients :
        /\ request[c].at # "idle" \/ request[c].had => request[c].cycle \in Cycles
        /\ request[c].at = "ledger" =>
              /\ request[c].inv \in Invoices
              /\ invoice[request[c].inv].status # "none"
              /\ Cycle(request[c].inv) = request[c].cycle

InvoicesKnown == \A i \in Invoices : invoice[i].status # "none" => Cycle(i) \in Cycles

IsPaid(i) == i \in Invoices /\ invoice[i].status = "paid"

AppliersPaid ==
    /\ \A i \in toApply : IsPaid(i)
    /\ \A h \in Payments : applier[h].at # "idle" => IsPaid(applier[h].inv)

JobsPaid ==
    /\ \A i \in Invoices :
          /\ job[i].status # "none" => IsPaid(i)
          /\ job[i].owner # NoWorker => job[i].status = "RUNNING"
    /\ reading.inv # NoInvoice => IsPaid(reading.inv)

AtJob == {"renew", "record", "done", "failed"}

WorkersPaid ==
    \A w \in Workers :
        /\ worker[w].at = "idle" => worker[w] = NoWork
        /\ \A f \in worker[w].batch : IsPaid(f[1])
        /\ worker[w].at \in AtJob => IsPaid(worker[w].inv)

Known == RequestsKnown /\ InvoicesKnown /\ AppliersPaid /\ JobsPaid /\ WorkersPaid

-----------------------------------------------------------------------------
(* A cycle is charged once *)

\* A cycle the record is not wrong about: one worker at most is at it, none
\* after it was renewed, and then the record shows it or is about to.
ShownOrRecorded(k) ==
    /\ charged[k] <= 1
    /\ \A v, w \in Workers : Renewing(v, k) /\ Renewing(w, k) => v = w
    /\ \A w \in Workers : worker[w].at = "renew" /\ Cycle(worker[w].inv) = k => charged[k] = 0
    /\ charged[k] > 0 =>
          \/ stored >= Until(k)
          \/ \E w \in Workers : worker[w].at = "record" /\ Cycle(worker[w].inv) = k

OnceInv == \A k \in Cycles \ hidden : ShownOrRecorded(k)

-----------------------------------------------------------------------------
(* A paid cycle is renewed *)

\* Nothing but the registrar and the worker's guesses set the record.
Undisturbed == registrar = "dynadot" /\ manual = {}

Told(e) == e <= remote \/ \E k \in spent.guessed : e = Until(k)

RecordTold ==
    /\ \A k \in spent.guessed : charged[k] > 0
    /\ \A w \in Workers :
          /\ worker[w].at = "record" => charged[Cycle(worker[w].inv)] > 0
          /\ worker[w].at = "record" => Told(worker[w].exp)
    /\ Undisturbed => Told(stored) /\ (reading.at = "store" => reading.exp <= remote)

Quiet == Undisturbed /\ spent.mishaps = 0 /\ ~ended

\* No request is lost: an invoice has its ledger entry, or is about to.
LedgerKept ==
    spent.mishaps = 0 =>
        /\ \A c \in Clients : request[c].had => ledger[request[c].cycle] # NoEntry
        /\ \A i \in Invoices : invoice[i].status # "none" =>
              \/ ledger[Cycle(i)] # NoEntry
              \/ \E c \in Clients : request[c].at = "ledger" /\ request[c].inv = i
        /\ \A i \in Invoices : invoice[i].status = "paid" => ledger[Cycle(i)] # NoEntry
        /\ \A h \in Payments : applier[h].at # "idle" => applier[h].had

\* One worker at a time, which holds all that is RUNNING; it has loaded the
\* jobs as they are.
Alone == \A v, w \in Workers : worker[v] # NoWork /\ worker[w] # NoWork => v = w

AsLoaded(i, n) == job[i].status \in {"RUNNING", "SUCCESS"} /\ job[i].attempts = n

WorkAsLoaded(w) ==
    worker[w].at \notin {"idle", "lock", "load"} =>
        /\ \A f \in worker[w].batch : AsLoaded(f[1], f[2])
        /\ worker[w].at \in AtJob =>
              /\ AsLoaded(worker[w].inv, worker[w].n)
              /\ \A f \in worker[w].batch : f[1] # worker[w].inv

Holding(w, i) ==
    \/ worker[w].at = "load"
    \/ worker[w].at # "lock" /\ \E f \in worker[w].batch : f[1] = i
    \/ worker[w].at \in AtJob /\ worker[w].inv = i

InHand(i) ==
    /\ job[i].status = "QUEUED" => job[i].attempts < MaxAttempts
    /\ job[i].status = "RUNNING" =>
          ~job[i].stale /\ \E w \in Workers : job[i].owner = w /\ Holding(w, i)

OneWorker ==
    Quiet => /\ Alone
             /\ \A w \in Workers : WorkAsLoaded(w)
             /\ \A i \in Invoices : InHand(i)

Done(k) == Renewed(k) \/ \E g \in spent.guessed : g > k

\* The payment of a cycle has come to a job, or will, or to its renewal.
Covered(k) ==
    \/ Done(k)
    \/ \E j \in Invoices : Cycle(j) = k /\ job[j].status \in {"QUEUED", "RUNNING", "FAILED"}
    \/ \E h \in Payments : applier[h].at = "queue" /\ Cycle(applier[h].inv) = k

PaymentKept ==
    Quiet =>
        /\ \A k \in Cycles : ledger[k].paid # NoInvoice => Covered(k)
        /\ \A i \in Invoices : invoice[i].status = "paid" =>
              \/ i \in toApply
              \/ \E h \in Payments : applier[h].at = "advance" /\ applier[h].inv = i
              \/ Covered(Cycle(i))
        /\ \A i \in Invoices : job[i].status = "SUCCESS" => Done(Cycle(i))
        /\ \A w \in Workers : worker[w].at = "done" => Done(Cycle(worker[w].inv))

RenewalInv ==
    /\ RenewalJobsTypeOK
    /\ Known
    /\ OnceInv
    /\ RecordTold
    /\ LedgerKept
    /\ OneWorker
    /\ PaymentKept

-----------------------------------------------------------------------------
(* Types *)

Ids == Invoices \cup {NoInvoice}
Entries == [inv : Ids, paid : Ids]
InvoiceDocs == [cycle : Cycles \cup {0}, status : {"none", "unpaid", "paid", "cancelled"}]
RequestStates ==
    [at : {"idle", "create", "ledger"}, cycle : Cycles \cup {0}, inv : Ids, had : BOOLEAN]
ApplierStates == [at : {"idle", "advance", "queue"}, inv : Ids, had : BOOLEAN]
JobDocs ==
    [status : JobStates, attempts : Nat, owner : Workers \cup {NoWorker}, stale : BOOLEAN]
Places == {"idle", "lock", "load", "next", "renew", "record", "done", "failed"}
WorkerStates ==
    [at : Places, batch : SUBSET (Invoices \X Nat), inv : Ids, n : Nat, exp : Nat]
Readings == [at : {"idle", "store"}, exp : Nat, inv : Ids]
Spendings ==
    [repairs : 0 .. MaxTrouble, mishaps : 0 .. MaxTrouble, guessed : SUBSET Cycles]

LEMMA RecordTypes ==
    ASSUME RenewalJobsTypeOK
    PROVE  /\ registrar \in Registries /\ ended \in BOOLEAN
           /\ due \in 1 .. Last + 1
           /\ ledger \in [Cycles -> Entries]
           /\ invoice \in [Invoices -> InvoiceDocs]
           /\ request \in [Clients -> RequestStates]
           /\ toApply \subseteq Invoices
           /\ applier \in [Payments -> ApplierStates]
           /\ job \in [Invoices -> JobDocs]
           /\ worker \in [Workers -> WorkerStates]
           /\ stored \in Nat /\ remote \in Nat
           /\ charged \in [Cycles -> Nat]
           /\ reading \in Readings
           /\ hidden \subseteq Cycles /\ manual \subseteq Invoices
           /\ spent \in Spendings
  BY DEF RenewalJobsTypeOK, Ids, Entries, InvoiceDocs, RequestStates, ApplierStates, JobDocs,
     Places, WorkerStates, Readings, Spendings

\* Enough for the types after a step: what it changes
LEMMA TypesMeet ==
    ASSUME RenewalJobsTypeOK,
           registrar' = registrar,
           ended' = ended \/ ended' \in BOOLEAN,
           due' = due \/ due' \in 1 .. Last + 1,
           ledger' = ledger \/ ledger' \in [Cycles -> Entries],
           invoice' = invoice \/ invoice' \in [Invoices -> InvoiceDocs],
           request' = request \/ request' \in [Clients -> RequestStates],
           toApply' = toApply \/ toApply' \subseteq Invoices,
           applier' = applier \/ applier' \in [Payments -> ApplierStates],
           job' = job \/ job' \in [Invoices -> JobDocs],
           worker' = worker \/ worker' \in [Workers -> WorkerStates],
           stored' = stored \/ stored' \in Nat,
           remote' = remote \/ remote' \in Nat,
           charged' = charged \/ charged' \in [Cycles -> Nat],
           reading' = reading \/ reading' \in Readings,
           hidden' = hidden \/ hidden' \subseteq Cycles,
           manual' = manual \/ manual' \subseteq Invoices,
           spent' = spent \/ spent' \in Spendings
    PROVE  RenewalJobsTypeOK'
  <1>1. /\ ended' \in BOOLEAN /\ due' \in 1 .. Last + 1
        /\ ledger' \in [Cycles -> Entries] /\ invoice' \in [Invoices -> InvoiceDocs]
        /\ request' \in [Clients -> RequestStates]
        /\ toApply' \subseteq Invoices
        /\ applier' \in [Payments -> ApplierStates]
        /\ job' \in [Invoices -> JobDocs]
    BY RecordTypes
  <1>2. /\ worker' \in [Workers -> WorkerStates]
        /\ stored' \in Nat /\ remote' \in Nat
        /\ charged' \in [Cycles -> Nat]
        /\ reading' \in Readings
        /\ hidden' \subseteq Cycles /\ manual' \subseteq Invoices
        /\ spent' \in Spendings
    BY RecordTypes
  <1>3. registrar' \in Registries
    BY RecordTypes
  <1>. QED
    BY <1>1, <1>2, <1>3
    DEF RenewalJobsTypeOK, Ids, Entries, InvoiceDocs, RequestStates, ApplierStates, JobDocs,
        Places, WorkerStates, Readings, Spendings

LEMMA NullTypes ==
    /\ NoEntry \in Entries /\ NoEntry.inv = NoInvoice /\ NoEntry.paid = NoInvoice
    /\ NoRequest \in RequestStates /\ NoRequest.at = "idle" /\ NoRequest.had = FALSE
    /\ NoRequest.cycle = 0 /\ NoRequest.inv = NoInvoice
    /\ NoApplier \in ApplierStates /\ NoApplier.at = "idle"
    /\ NoReading \in Readings /\ NoReading.at = "idle" /\ NoReading.inv = NoInvoice
  BY DEF NoEntry, Entries, Ids, NoRequest, RequestStates, NoApplier, ApplierStates,
     NoReading, Readings

LEMMA NoWorkType ==
    NoWork \in WorkerStates /\ NoWork.at = "idle" /\ NoWork.batch = {} /\ NoWork.inv = NoInvoice
  BY DEF NoWork, WorkerStates, Places, Ids

\* The document of a job that is put back
LEMMA NewJobType ==
    /\ NoJob \in JobDocs /\ NoJob.status = "none" /\ NoJob.owner = NoWorker
    /\ NoJob.stale = FALSE /\ NoJob.attempts = 0
    /\ [NoJob EXCEPT !.status = "QUEUED"] \in JobDocs
    /\ [NoJob EXCEPT !.status = "QUEUED"].status = "QUEUED"
    /\ [NoJob EXCEPT !.status = "QUEUED"].owner = NoWorker
    /\ [NoJob EXCEPT !.status = "QUEUED"].stale = FALSE
    /\ [NoJob EXCEPT !.status = "QUEUED"].attempts = 0
  <1>1. /\ NoJob \in JobDocs /\ NoJob.status = "none" /\ NoJob.owner = NoWorker
        /\ NoJob.stale = FALSE /\ NoJob.attempts = 0
    BY DEF NoJob, JobDocs, JobStates
  <1>2. \A r \in JobDocs :
           /\ [r EXCEPT !.status = "QUEUED"] \in JobDocs
           /\ [r EXCEPT !.status = "QUEUED"].status = "QUEUED"
           /\ [r EXCEPT !.status = "QUEUED"].owner = r.owner
           /\ [r EXCEPT !.status = "QUEUED"].stale = r.stale
           /\ [r EXCEPT !.status = "QUEUED"].attempts = r.attempts
    BY DEF JobDocs, JobStates
  <1>. QED  BY <1>1, <1>2

\* A job that has its verdict
LEMMA VerdictType ==
    ASSUME NEW r \in JobDocs, NEW st \in JobStates
    PROVE  LET next == [r EXCEPT !.status = st, !.owner = NoWorker, !.stale = FALSE]
           IN /\ next \in JobDocs /\ next.status = st /\ next.owner = NoWorker
              /\ next.stale = FALSE /\ next.attempts = r.attempts
  BY DEF JobDocs

LEMMA SpentTypes ==
    ASSUME RenewalJobsTypeOK
    PROVE  /\ Mishap => /\ spent' \in Spendings
                        /\ spent'.mishaps = spent.mishaps + 1
                        /\ spent'.guessed = spent.guessed
           /\ Repair => /\ spent' \in Spendings
                        /\ spent'.mishaps = spent.mishaps
                        /\ spent'.guessed = spent.guessed
           /\ spent.mishaps \in Nat /\ spent.guessed \subseteq Cycles
  <1>1. spent \in Spendings
    BY RecordTypes
  <1>2. Mishap => /\ spent' \in Spendings
                  /\ spent'.mishaps = spent.mishaps + 1
                  /\ spent'.guessed = spent.guessed
    BY <1>1 DEF Mishap, Trouble, Spendings
  <1>3. Repair => /\ spent' \in Spendings
                  /\ spent'.mishaps = spent.mishaps
                  /\ spent'.guessed = spent.guessed
    BY <1>1 DEF Repair, Trouble, Spendings
  <1>. QED  BY <1>1, <1>2, <1>3 DEF Spendings

LEMMA CycleTypes ==
    /\ Last \in Nat /\ Cycles = 1 .. Last
    /\ \A k \in Cycles \cup {0} : k \in Nat /\ Until(k) = k + 1 /\ Until(k) \in 1 .. Last + 1
  <1>1. Last \in Nat
    BY FS_CardinalityType DEF Last
  <1>. QED  BY <1>1 DEF Last, Until

LEMMA HidesType ==
    ASSUME RenewalJobsTypeOK, NEW e \in Nat, Record(e)
    PROVE  /\ stored' = e
           /\ hidden' \subseteq Cycles /\ hidden \subseteq hidden'
           /\ \A k \in Cycles \ hidden' : charged[k] > 0 => e >= Until(k)
  <1>1. hidden' = hidden \cup {k \in Cycles : charged[k] > 0 /\ e < Until(k)}
    BY DEF Record, Hides
  <1>2. \A k \in Cycles : Until(k) \in Nat
    BY CycleTypes
  <1>. QED  BY <1>1, <1>2, RecordTypes DEF Record

-----------------------------------------------------------------------------
(* What the steps of requests and handlers do *)

LEMMA RequestReadDoes ==
    ASSUME RenewalJobsTypeOK, NEW c \in Clients, RequestRead(c)
    PROVE  /\ request' \in [Clients -> RequestStates]
           /\ \A d \in Clients : d # c => request'[d] = request[d]
           /\ request'[c].at = "create" /\ request'[c].cycle = due /\ due \in Cycles
           /\ request'[c].had = (ledger[due] # NoEntry)
           /\ request[c].at = "idle"
  <1>. DEFINE new == [at |-> "create", cycle |-> due, inv |-> NoInvoice,
                      had |-> ledger[due] # NoEntry]
  <1>1. /\ request' = [request EXCEPT ![c] = new] /\ due \in Cycles
        /\ request[c].at = "idle"
    BY DEF RequestRead
  <1>2. new \in RequestStates
    BY <1>1 DEF RequestStates, Ids
  <1>3. new.at = "create" /\ new.cycle = due /\ new.had = (ledger[due] # NoEntry)
    OBVIOUS
  <1>. HIDE DEF new
  <1>. QED  BY <1>1, <1>2, <1>3, RecordTypes

LEMMA RequestInvoiceDoes ==
    ASSUME RenewalJobsTypeOK, NEW c \in Clients, NEW i \in Invoices, RequestInvoice(c, i)
    PROVE  /\ request' \in [Clients -> RequestStates]
           /\ \A d \in Clients : d # c => request'[d] = request[d]
           /\ request'[c].at = "ledger" /\ request'[c].inv = i
           /\ request'[c].cycle = request[c].cycle /\ request'[c].had = request[c].had
           /\ invoice' \in [Invoices -> InvoiceDocs]
           /\ \A j \in Invoices : j # i => invoice'[j] = invoice[j]
           /\ invoice'[i].status = "unpaid" /\ invoice'[i].cycle = request[c].cycle
           /\ invoice[i].status = "none" /\ request[c].at = "create"
  <1>1. request \in [Clients -> RequestStates] /\ request[c] \in RequestStates
        /\ invoice \in [Invoices -> InvoiceDocs]
    BY RecordTypes
  <1>. DEFINE next == [request[c] EXCEPT !.at = "ledger", !.inv = i]
              new == [cycle |-> request[c].cycle, status |-> "unpaid"]
  <1>2. /\ request' = [request EXCEPT ![c] = next]
        /\ invoice' = [invoice EXCEPT ![i] = new]
        /\ invoice[i].status = "none" /\ request[c].at = "create"
    BY <1>1 DEF RequestInvoice
  <1>3. /\ next \in RequestStates /\ next.at = "ledger" /\ next.inv = i
        /\ next.cycle = request[c].cycle /\ next.had = request[c].had
    BY <1>1 DEF RequestStates, Ids
  <1>4. new \in InvoiceDocs /\ new.status = "unpaid" /\ new.cycle = request[c].cycle
    BY <1>1 DEF InvoiceDocs, RequestStates
  <1>. HIDE DEF next, new
  <1>. QED  BY <1>1, <1>2, <1>3, <1>4

LEMMA RequestLedgerDoes ==
    ASSUME RenewalJobsTypeOK, NEW c \in Clients, RequestLedger(c)
    PROVE  /\ request' = [request EXCEPT ![c] = NoRequest]
           /\ request' \in [Clients -> RequestStates]
           /\ ledger' \in [Cycles -> Entries]
           /\ \A k \in Cycles : k # request[c].cycle => ledger'[k] = ledger[k]
           /\ \A k \in Cycles : k = request[c].cycle =>
                 \/ /\ ~request[c].had /\ ledger[k] # NoEntry
                    /\ ledger'[k] = ledger[k]
                 \/ ledger'[k].inv = request[c].inv /\ ledger'[k].paid = NoInvoice
           /\ request[c].at = "ledger"
  <1>1. /\ request' = [request EXCEPT ![c] = NoRequest] /\ ledger' = LedgerEntry(c)
        /\ request[c].at = "ledger"
    BY DEF RequestLedger
  <1>2. request' \in [Clients -> RequestStates]
    BY <1>1, NullTypes, RecordTypes
  <1>. DEFINE new == [inv |-> request[c].inv, paid |-> NoInvoice]
  <1>3. new \in Entries /\ new.inv = request[c].inv /\ new.paid = NoInvoice
    BY RecordTypes DEF Entries, RequestStates, Ids
  <1>4. CASE request[c].had \/ ledger[request[c].cycle] = NoEntry
    <2>1. ledger' = [ledger EXCEPT ![request[c].cycle] = new]
      BY <1>1, <1>4 DEF LedgerEntry
    <2>2. \A k \in Cycles : ledger'[k] = IF k = request[c].cycle THEN new ELSE ledger[k]
      BY <2>1, RecordTypes
    <2>3. ledger' \in [Cycles -> Entries]
      BY <1>3, <2>1, RecordTypes
    <2>. HIDE DEF new
    <2>. QED  BY <1>1, <1>2, <1>3, <2>2, <2>3
  <1>5. CASE ~(request[c].had \/ ledger[request[c].cycle] = NoEntry)
    <2>1. ledger' = ledger
      BY <1>1, <1>5 DEF LedgerEntry
    <2>. QED  BY <1>1, <1>2, <1>5, <2>1, RecordTypes
  <1>. QED  BY <1>4, <1>5

LEMMA ApplyReadDoes ==
    ASSUME RenewalJobsTypeOK, NEW h \in Payments, NEW i \in Invoices, ApplyRead(h, i)
    PROVE  /\ applier' \in [Payments -> ApplierStates]
           /\ \A g \in Payments : g # h => applier'[g] = applier[g]
           /\ \/ applier' = applier /\ (ended \/ ledger[Cycle(i)].paid # NoInvoice)
              \/ /\ applier'[h].at = "advance" /\ applier'[h].inv = i
                 /\ ledger[Cycle(i)] # NoEntry => applier'[h].had
           /\ i \in toApply /\ toApply' = toApply \ {i}
           /\ applier[h].at = "idle"
  <1>. DEFINE new == [at |-> "advance", inv |-> i, had |-> ledger[Cycle(i)] # NoEntry]
  <1>1. /\ applier' = IF ended \/ ledger[Cycle(i)].paid # NoInvoice THEN applier
                      ELSE [applier EXCEPT ![h] = new]
        /\ i \in toApply /\ toApply' = toApply \ {i} /\ applier[h].at = "idle"
    BY DEF ApplyRead
  <1>2. new \in ApplierStates
    BY DEF ApplierStates, Ids
  <1>3. new.at = "advance" /\ new.inv = i /\ (ledger[Cycle(i)] # NoEntry => new.had)
    OBVIOUS
  <1>. HIDE DEF new
  <1>. QED  BY <1>1, <1>2, <1>3, RecordTypes

\* The two ways of a handler whose service is still alive
LEMMA ApplyAdvanceDoes ==
    ASSUME RenewalJobsTypeOK, NEW h \in Payments, ApplyAdvance(h), applier[h].inv \in Invoices
    PROVE  /\ applier' \in [Payments -> ApplierStates]
           /\ \A g \in Payments : g # h => applier'[g] = applier[g]
           /\ due' \in 1 .. Last + 1
           /\ ledger' \in [Cycles -> Entries]
           /\ applier[h].at = "advance"
           /\ \A k \in Cycles : k # Cycle(applier[h].inv) => ledger'[k] = ledger[k]
           /\ \/ /\ ~applier[h].had /\ applier'[h] = NoApplier /\ ledger' = ledger
              \/ /\ applier'[h].at = "queue" /\ applier'[h].inv = applier[h].inv
                 /\ applier'[h].had = applier[h].had
                 /\ \A k \in Cycles : k = Cycle(applier[h].inv) =>
                       ledger'[k].paid = applier[h].inv
  <1>. DEFINE i == applier[h].inv
              k == Cycle(i)
              refused == ~applier[h].had /\ ledger[k] # NoEntry
  <1>1. applier[h] \in ApplierStates /\ ledger \in [Cycles -> Entries]
        /\ applier \in [Payments -> ApplierStates]
    BY RecordTypes
  <1>2. k \in Cycles \cup {0}
    BY RecordTypes DEF Cycle, InvoiceDocs
  <1>3. due' \in 1 .. Last + 1
    BY <1>2, CycleTypes DEF ApplyAdvance
  <1>4. CASE refused
    BY <1>1, <1>3, <1>4, NullTypes DEF ApplyAdvance
  <1>5. CASE ~refused
    <2>. DEFINE next == [applier[h] EXCEPT !.at = "queue"]
    <2>1. /\ applier' = [applier EXCEPT ![h] = next] /\ applier[h].at = "advance"
      BY <1>1, <1>5 DEF ApplyAdvance
    <2>2. /\ next \in ApplierStates /\ next.at = "queue" /\ next.inv = i
          /\ next.had = applier[h].had
      BY <1>1 DEF ApplierStates
    <2>3. PICK new \in Entries : ledger' = [ledger EXCEPT ![k] = new] /\ (k \in Cycles => new.paid = i)
      <3>1. [inv |-> i, paid |-> i] \in Entries
        BY DEF Entries, Ids
      <3>2. CASE applier[h].had
        <4>1. ledger' = [ledger EXCEPT ![k].paid = i]
          BY <1>5, <3>2 DEF ApplyAdvance
        <4>2. CASE k \in Cycles
          <5>. DEFINE e == [ledger[k] EXCEPT !.paid = i]
          <5>1. ledger' = [ledger EXCEPT ![k] = e]
            BY <1>1, <4>1, <4>2
          <5>2. e \in Entries /\ e.paid = i
            BY <1>1, <4>2 DEF Entries, Ids
          <5>. HIDE DEF e
          <5>. QED  BY <5>1, <5>2
        <4>3. CASE k \notin Cycles
          BY <1>1, <3>1, <4>1, <4>3
        <4>. QED  BY <4>2, <4>3
      <3>3. CASE ~applier[h].had
        <4>1. ledger' = [ledger EXCEPT ![k] = [inv |-> i, paid |-> i]]
          BY <1>5, <3>3 DEF ApplyAdvance
        <4>. QED  BY <3>1, <4>1
      <3>. QED  BY <3>2, <3>3
    <2>. HIDE DEF next, k, i
    <2>. QED  BY <1>1, <1>3, <2>1, <2>2, <2>3 DEF k, i
  <1>. QED  BY <1>4, <1>5

LEMMA QueuedDoes ==
    ASSUME RenewalJobsTypeOK, NEW i \in Invoices, job' = Queued(i)
    PROVE  /\ job' \in [Invoices -> JobDocs]
           /\ \A j \in Invoices : j # i => job'[j] = job[j]
           /\ \/ job' = job /\ job[i].status \in {"QUEUED", "RUNNING", "SUCCESS"}
              \/ /\ job[i].status \in {"none", "FAILED"}
                 /\ job'[i].status = "QUEUED" /\ job'[i].attempts = 0
                 /\ job'[i].owner = NoWorker
  <1>. DEFINE new == [NoJob EXCEPT !.status = "QUEUED"]
  <1>2. new \in JobDocs /\ new.status = "QUEUED" /\ new.attempts = 0 /\ new.owner = NoWorker
    BY NewJobType
  <1>3. job \in [Invoices -> JobDocs] /\ job[i].status \in JobStates
    BY RecordTypes DEF JobDocs
  <1>4. \/ job[i].status \in {"none", "FAILED"} /\ job' = [job EXCEPT ![i] = new]
        \/ job[i].status \notin {"none", "FAILED"} /\ job' = job
    BY DEF Queued
  <1>. HIDE DEF new
  <1>. QED  BY <1>2, <1>3, <1>4 DEF JobStates

LEMMA ApplyQueueDoes ==
    ASSUME RenewalJobsTypeOK, NEW h \in Payments, ApplyQueue(h), applier[h].inv \in Invoices
    PROVE  /\ applier' = [applier EXCEPT ![h] = NoApplier]
           /\ applier' \in [Payments -> ApplierStates]
           /\ applier[h].at = "queue"
           /\ job' \in [Invoices -> JobDocs]
           /\ \A j \in Invoices : j # applier[h].inv => job'[j] = job[j]
           /\ \/ job' = job /\ Current(Cycle(applier[h].inv))
              \/ job' = job /\ job[applier[h].inv].status \in {"QUEUED", "RUNNING", "SUCCESS"}
              \/ /\ job[applier[h].inv].status \in {"none", "FAILED"}
                 /\ job'[applier[h].inv].status = "QUEUED"
                 /\ job'[applier[h].inv].attempts = 0
                 /\ job'[applier[h].inv].owner = NoWorker
  <1>1. /\ applier' = [applier EXCEPT ![h] = NoApplier] /\ applier[h].at = "queue"
        /\ job' = IF Current(Cycle(applier[h].inv)) THEN job ELSE Queued(applier[h].inv)
    BY DEF ApplyQueue
  <1>2. applier' \in [Payments -> ApplierStates]
    BY <1>1, NullTypes, RecordTypes
  <1>3. CASE Current(Cycle(applier[h].inv))
    BY <1>1, <1>2, <1>3, RecordTypes
  <1>4. CASE ~Current(Cycle(applier[h].inv))
    <2>1. job' = Queued(applier[h].inv)
      BY <1>1, <1>4
    <2>. QED  BY <1>1, <1>2, <2>1, QueuedDoes
  <1>. QED  BY <1>3, <1>4

LEMMA InvoiceStepsDo ==
    ASSUME RenewalJobsTypeOK, NEW i \in Invoices
    PROVE  /\ Pay(i) => /\ invoice' \in [Invoices -> InvoiceDocs]
                        /\ \A j \in Invoices : j # i => invoice'[j] = invoice[j]
                        /\ invoice'[i].status = "paid" /\ invoice'[i].cycle = invoice[i].cycle
                        /\ invoice[i].status = "unpaid"
                        /\ toApply' = toApply \cup {i}
           /\ CancelInvoice(i) =>
                 /\ invoice' \in [Invoices -> InvoiceDocs]
                 /\ \A j \in Invoices : j # i => invoice'[j] = invoice[j]
                 /\ invoice'[i].status = "cancelled" /\ invoice'[i].cycle = invoice[i].cycle
                 /\ invoice[i].status = "unpaid"
  <1>1. invoice \in [Invoices -> InvoiceDocs] /\ invoice[i] \in InvoiceDocs
    BY RecordTypes
  <1>2. \A st \in {"paid", "cancelled"} :
           /\ [invoice[i] EXCEPT !.status = st] \in InvoiceDocs
           /\ [invoice[i] EXCEPT !.status = st].status = st
           /\ [invoice[i] EXCEPT !.status = st].cycle = invoice[i].cycle
    BY <1>1 DEF InvoiceDocs
  <1>3. ASSUME Pay(i)
        PROVE  /\ invoice' = [invoice EXCEPT ![i] = [invoice[i] EXCEPT !.status = "paid"]]
               /\ invoice[i].status = "unpaid" /\ toApply' = toApply \cup {i}
    BY <1>1, <1>3 DEF Pay
  <1>4. ASSUME CancelInvoice(i)
        PROVE  /\ invoice' = [invoice EXCEPT ![i] = [invoice[i] EXCEPT !.status = "cancelled"]]
               /\ invoice[i].status = "unpaid"
    BY <1>1, <1>4 DEF CancelInvoice
  <1>. QED  BY <1>1, <1>2, <1>3, <1>4

-----------------------------------------------------------------------------
(* What the steps of workers do *)

LEMMA JobFindDoes ==
    ASSUME RenewalJobsTypeOK, NEW w \in Workers, JobFind(w)
    PROVE  /\ worker' \in [Workers -> WorkerStates]
           /\ \A v \in Workers : v # w => worker'[v] = worker[v]
           /\ worker[w].at = "idle" /\ worker'[w].at = "lock"
           /\ worker'[w].batch = {i \in Invoices : Taken(i)} \X {0}
           /\ \/ /\ spent' = spent
                 /\ (\A v \in Workers : worker[v] = NoWork) \/ manual # {}
              \/ Mishap
  <1>1. worker \in [Workers -> WorkerStates] /\ worker[w] \in WorkerStates
    BY RecordTypes
  <1>. DEFINE found == {i \in Invoices : Taken(i)} \X {0}
              next == [worker[w] EXCEPT !.at = "lock", !.batch = found]
  <1>2. found \in SUBSET (Invoices \X Nat)
    OBVIOUS
  <1>3. worker' = [worker EXCEPT ![w] = next] /\ worker[w].at = "idle" /\ Overlap
    BY <1>1 DEF JobFind
  <1>. HIDE DEF found
  <1>4. next \in WorkerStates /\ next.at = "lock" /\ next.batch = found
    BY <1>1, <1>2 DEF WorkerStates, Places
  <1>5. \/ /\ spent' = spent
           /\ (\A v \in Workers : worker[v] = NoWork) \/ manual # {}
        \/ Mishap
    BY <1>3 DEF Overlap
  <1>. HIDE DEF next
  <1>6. /\ worker' \in [Workers -> WorkerStates]
        /\ \A v \in Workers : v # w => worker'[v] = worker[v]
        /\ worker'[w] = next
    BY <1>1, <1>3, <1>4
  <1>. QED  BY <1>3, <1>4, <1>5, <1>6 DEF found

LEMMA JobLockDoes ==
    ASSUME RenewalJobsTypeOK, NEW w \in Workers, JobLock(w)
    PROVE  /\ worker' \in [Workers -> WorkerStates]
           /\ \A v \in Workers : v # w => worker'[v] = worker[v]
           /\ worker[w].at = "lock" /\ worker'[w].at = "load"
           /\ worker'[w].batch = worker[w].batch
           /\ job' \in [Invoices -> JobDocs]
           /\ \A i \in Invoices :
                 \/ /\ ~ \E f \in worker[w].batch : f[1] = i
                    /\ job'[i] = job[i]
                 \/ /\ \E f \in worker[w].batch : f[1] = i
                    /\ job'[i].status = "RUNNING" /\ job'[i].attempts = job[i].attempts + 1
                    /\ job'[i].owner = w /\ job'[i].stale = FALSE
  <1>1. worker \in [Workers -> WorkerStates] /\ worker[w] \in WorkerStates
        /\ job \in [Invoices -> JobDocs]
    BY RecordTypes
  <1>. DEFINE next == [worker[w] EXCEPT !.at = "load"]
              held(i) == \E f \in worker[w].batch : f[1] = i
              locked(i) == [status |-> "RUNNING", attempts |-> job[i].attempts + 1,
                            owner |-> w, stale |-> FALSE]
  <1>2. worker' = [worker EXCEPT ![w] = next] /\ worker[w].at = "lock"
    BY <1>1 DEF JobLock
  <1>3. next \in WorkerStates /\ next.at = "load" /\ next.batch = worker[w].batch
    BY <1>1 DEF WorkerStates, Places
  <1>4. job' = [i \in Invoices |-> IF held(i) THEN locked(i) ELSE job[i]]
    BY DEF JobLock
  <1>5. \A i \in Invoices :
           /\ locked(i) \in JobDocs
           /\ locked(i).status = "RUNNING" /\ locked(i).attempts = job[i].attempts + 1
           /\ locked(i).owner = w /\ locked(i).stale = FALSE
    BY <1>1 DEF JobDocs, JobStates
  <1>. HIDE DEF next, locked
  <1>6. /\ worker' \in [Workers -> WorkerStates]
        /\ \A v \in Workers : v # w => worker'[v] = worker[v]
        /\ worker'[w] = next
    BY <1>1, <1>2, <1>3
  <1>. HIDE DEF held
  <1>7. \A i \in Invoices : job'[i] = IF held(i) THEN locked(i) ELSE job[i]
    BY <1>4
  <1>8. job' \in [Invoices -> JobDocs]
    BY <1>1, <1>4, <1>5
  <1>9. \A i \in Invoices :
           \/ ~held(i) /\ job'[i] = job[i]
           \/ /\ held(i)
              /\ job'[i].status = "RUNNING" /\ job'[i].attempts = job[i].attempts + 1
              /\ job'[i].owner = w /\ job'[i].stale = FALSE
    BY <1>5, <1>7
  <1>. QED  BY <1>2, <1>3, <1>6, <1>8, <1>9 DEF held

\* In short
LEMMA JobLockLocks ==
    ASSUME RenewalJobsTypeOK, NEW w \in Workers, JobLock(w)
    PROVE  \A j \in Invoices :
              \/ job'[j] = job[j]
              \/ /\ \E f \in worker[w].batch : f[1] = j
                 /\ job'[j].status = "RUNNING" /\ job'[j].owner = w /\ job'[j].stale = FALSE
  <1>. DEFINE held(j) == \E f \in worker[w].batch : f[1] = j
  <1>1. \A j \in Invoices :
           \/ ~held(j) /\ job'[j] = job[j]
           \/ /\ held(j)
              /\ job'[j].status = "RUNNING" /\ job'[j].attempts = job[j].attempts + 1
              /\ job'[j].owner = w /\ job'[j].stale = FALSE
    BY JobLockDoes, Zenon
  <1>. HIDE DEF held
  <1>2. \A j \in Invoices :
           \/ job'[j] = job[j]
           \/ held(j) /\ job'[j].status = "RUNNING" /\ job'[j].owner = w /\ job'[j].stale = FALSE
    BY <1>1, Zenon
  <1>. QED  BY <1>2, Zenon DEF held

LEMMA GoOnDoes ==
    ASSUME RenewalJobsTypeOK, NEW w \in Workers, NEW batch \in SUBSET (Invoices \X Nat),
           GoOn(w, batch)
    PROVE  /\ worker' \in [Workers -> WorkerStates]
           /\ \A v \in Workers : v # w => worker'[v] = worker[v]
           /\ \/ batch = {} /\ worker'[w] = NoWork
              \/ worker'[w].at = "next" /\ worker'[w].batch = batch
  <1>1. worker \in [Workers -> WorkerStates]
    BY RecordTypes
  <1>. DEFINE next == [NoWork EXCEPT !.at = "next", !.batch = batch]
  <1>2. \A r \in WorkerStates :
           /\ [r EXCEPT !.at = "next", !.batch = batch] \in WorkerStates
           /\ [r EXCEPT !.at = "next", !.batch = batch].at = "next"
           /\ [r EXCEPT !.at = "next", !.batch = batch].batch = batch
    BY DEF WorkerStates, Places
  <1>3. next \in WorkerStates /\ next.at = "next" /\ next.batch = batch
    BY <1>2, NoWorkType
  <1>4. worker' = [worker EXCEPT ![w] = IF batch = {} THEN NoWork ELSE next]
    BY DEF GoOn
  <1>. HIDE DEF next
  <1>. QED  BY <1>1, <1>3, <1>4, NoWorkType

LEMMA JobLoadDoes ==
    ASSUME RenewalJobsTypeOK, NEW w \in Workers, JobLoad(w)
    PROVE  /\ worker' \in [Workers -> WorkerStates]
           /\ \A v \in Workers : v # w => worker'[v] = worker[v]
           /\ worker[w].at = "load"
           /\ \/ worker'[w] = NoWork /\ \A i \in Invoices : job[i].owner # w
              \/ /\ worker'[w].at = "next"
                 /\ \A f \in worker'[w].batch :
                       f[1] \in Invoices /\ job[f[1]].owner = w /\ f[2] = job[f[1]].attempts
                 /\ \A i \in Invoices :
                       job[i].owner = w => \E f \in worker'[w].batch : f[1] = i
  <1>. DEFINE batch == {<<i, job[i].attempts>> : i \in {j \in Invoices : job[j].owner = w}}
  <1>1. worker[w].at = "load" /\ GoOn(w, batch)
    BY DEF JobLoad
  <1>2. job \in [Invoices -> JobDocs]
    BY RecordTypes
  <1>3. batch \in SUBSET (Invoices \X Nat)
    BY <1>2 DEF JobDocs
  <1>4. \A f \in batch :
           f[1] \in Invoices /\ job[f[1]].owner = w /\ f[2] = job[f[1]].attempts
    OBVIOUS
  <1>5. \A i \in Invoices : job[i].owner = w => \E f \in batch : f[1] = i
    <2>1. SUFFICES ASSUME NEW i \in Invoices, job[i].owner = w
                   PROVE  \E f \in batch : f[1] = i
      OBVIOUS
    <2>2. <<i, job[i].attempts>> \in batch /\ <<i, job[i].attempts>>[1] = i
      BY <2>1
    <2>. QED  BY <2>2
  <1>. HIDE DEF batch
  <1>6. /\ worker' \in [Workers -> WorkerStates]
        /\ \A v \in Workers : v # w => worker'[v] = worker[v]
        /\ \/ batch = {} /\ worker'[w] = NoWork
           \/ worker'[w].at = "next" /\ worker'[w].batch = batch
    BY <1>1, <1>3, GoOnDoes
  <1>. QED  BY <1>1, <1>4, <1>5, <1>6

LEMMA JobCheckDoes ==
    ASSUME RenewalJobsTypeOK, NEW w \in Workers, NEW f \in worker[w].batch, JobCheck(w, f)
    PROVE  /\ worker' \in [Workers -> WorkerStates]
           /\ \A v \in Workers : v # w => worker'[v] = worker[v]
           /\ worker[w].at = "next"
           /\ \/ worker'[w].at = "done" /\ Current(Cycle(f[1]))
              \/ worker'[w].at = "renew" /\ ~Current(Cycle(f[1]))
           /\ worker'[w].batch = worker[w].batch \ {f}
           /\ f[1] \in Invoices /\ worker'[w].inv = f[1] /\ worker'[w].n = f[2]
           /\ \/ /\ hidden' = hidden
                 /\ \/ Current(Cycle(f[1]))
                    \/ \A v \in Workers \ {w} : ~Renewing(v, Cycle(f[1]))
              \/ hidden' = hidden \cup {Cycle(f[1])}
  <1>1. worker \in [Workers -> WorkerStates] /\ worker[w] \in WorkerStates
    BY RecordTypes
  <1>2. f \in Invoices \X Nat /\ worker[w].batch \subseteq Invoices \X Nat
    BY <1>1 DEF WorkerStates
  <1>3. PICK place \in {"done", "renew"} :
           /\ place = IF Current(Cycle(f[1])) THEN "done" ELSE "renew"
    BY Zenon
  <1>. DEFINE next == [worker[w] EXCEPT !.at = place, !.batch = worker[w].batch \ {f},
                                        !.inv = f[1], !.n = f[2]]
  <1>4. worker' = [worker EXCEPT ![w] = next] /\ worker[w].at = "next"
    BY <1>1, <1>3 DEF JobCheck
  <1>5. f[1] \in Invoices /\ f[2] \in Nat
    BY <1>2
  <1>6. /\ next \in WorkerStates /\ next.at = place
        /\ next.batch = worker[w].batch \ {f} /\ next.inv = f[1] /\ next.n = f[2]
    BY <1>1, <1>2, <1>5 DEF WorkerStates, Places, Ids
  <1>7. \/ /\ hidden' = hidden
           /\ \/ Current(Cycle(f[1]))
              \/ \A v \in Workers \ {w} : ~Renewing(v, Cycle(f[1]))
        \/ hidden' = hidden \cup {Cycle(f[1])}
    BY DEF JobCheck
  <1>. HIDE DEF next
  <1>8. /\ worker' \in [Workers -> WorkerStates]
        /\ \A v \in Workers : v # w => worker'[v] = worker[v]
        /\ worker'[w] = next
    BY <1>1, <1>4, <1>6
  <1>. QED  BY <1>3, <1>4, <1>5, <1>6, <1>7, <1>8

\* The registrar renewed (its date told, or not), refused, or its answer was lost.
LEMMA JobRenewDoes ==
    ASSUME RenewalJobsTypeOK, NEW w \in Workers, JobRenew(w),
           Cycle(worker[w].inv) \in Cycles
    PROVE  LET k == Cycle(worker[w].inv) IN
           /\ worker' \in [Workers -> WorkerStates]
           /\ \A v \in Workers : v # w => worker'[v] = worker[v]
           /\ worker[w].at = "renew" /\ worker'[w].inv = worker[w].inv
           /\ worker'[w].batch = worker[w].batch /\ worker'[w].n = worker[w].n
           /\ remote' \in Nat /\ remote' >= remote
           /\ charged' \in [Cycles -> Nat]
           /\ \A l \in Cycles : l # k => charged'[l] = charged[l]
           /\ hidden' \subseteq Cycles /\ spent' \in Spendings
           /\ \/ /\ worker'[w].at = "record" /\ hidden' = hidden
                 /\ remote' = remote + 1 /\ charged'[k] = charged[k] + 1
                 /\ spent'.mishaps = spent.mishaps
                 /\ \/ worker'[w].exp = remote' /\ spent' = spent
                    \/ /\ worker'[w].exp = Until(k)
                       /\ \/ k <= remote /\ spent' = spent
                          \/ k > remote /\ spent'.guessed = spent.guessed \cup {k}
              \/ /\ worker'[w].at = "failed" /\ hidden' = hidden /\ spent' = spent
                 /\ remote' = remote /\ charged' = charged
              \/ /\ worker'[w].at = "failed" /\ hidden' = hidden \cup {k} /\ Mishap
                 /\ charged'[k] = charged[k] + 1
  <1>. DEFINE k == Cycle(worker[w].inv)
              told == [worker[w] EXCEPT !.at = "record", !.exp = remote + 1]
              guess == [worker[w] EXCEPT !.at = "record", !.exp = Until(k)]
              fail == [worker[w] EXCEPT !.at = "failed"]
              more == [charged EXCEPT ![k] = charged[k] + 1]
  <1>1. /\ worker \in [Workers -> WorkerStates] /\ worker[w] \in WorkerStates
        /\ remote \in Nat /\ charged \in [Cycles -> Nat] /\ hidden \subseteq Cycles
        /\ spent \in Spendings /\ remote + 1 \in Nat
    BY RecordTypes
  <1>2. k \in Cycles /\ Until(k) \in Nat /\ k \in Nat
    BY CycleTypes
  <1>3. /\ told \in WorkerStates /\ told.at = "record" /\ told.exp = remote + 1
        /\ told.inv = worker[w].inv /\ told.batch = worker[w].batch /\ told.n = worker[w].n
    BY <1>1 DEF WorkerStates, Places
  <1>4. /\ guess \in WorkerStates /\ guess.at = "record" /\ guess.exp = Until(k)
        /\ guess.inv = worker[w].inv /\ guess.batch = worker[w].batch
        /\ guess.n = worker[w].n
    BY <1>1, <1>2 DEF WorkerStates, Places
  <1>5. /\ fail \in WorkerStates /\ fail.at = "failed"
        /\ fail.inv = worker[w].inv /\ fail.batch = worker[w].batch /\ fail.n = worker[w].n
    BY <1>1 DEF WorkerStates, Places
  <1>6. /\ more \in [Cycles -> Nat] /\ more[k] = charged[k] + 1
        /\ \A l \in Cycles : l # k => more[l] = charged[l]
    BY <1>1, <1>2
  <1>7. PICK marked \in SUBSET Cycles :
           marked = IF k > remote THEN spent.guessed \cup {k} ELSE spent.guessed
    BY <1>1, <1>2 DEF Spendings
  <1>. DEFINE paid == [spent EXCEPT !.guessed = marked]
  <1>8. /\ paid \in Spendings /\ paid.mishaps = spent.mishaps /\ paid.guessed = marked
        /\ marked = spent.guessed => paid = spent
    BY <1>1 DEF Spendings
  <1>9. /\ worker[w].at = "renew"
        /\ \/ /\ remote' = remote + 1 /\ charged' = more
              /\ worker' = [worker EXCEPT ![w] = told]
              /\ hidden' = hidden /\ spent' = spent
           \/ /\ remote' = remote + 1 /\ charged' = more
              /\ worker' = [worker EXCEPT ![w] = guess]
              /\ hidden' = hidden /\ spent' = paid
           \/ /\ remote' = remote /\ charged' = charged
              /\ worker' = [worker EXCEPT ![w] = fail]
              /\ hidden' = hidden /\ spent' = spent
           \/ /\ remote' = remote + 1 /\ charged' = more
              /\ worker' = [worker EXCEPT ![w] = fail]
              /\ hidden' = hidden \cup {k} /\ Mishap
    BY <1>1, <1>7 DEF JobRenew
  <1>10. Mishap => spent' \in Spendings
    BY SpentTypes
  <1>. HIDE DEF told, guess, fail, more, paid
  <1>11. CASE /\ remote' = remote + 1 /\ charged' = more
              /\ worker' = [worker EXCEPT ![w] = told]
              /\ hidden' = hidden /\ spent' = spent
    BY <1>1, <1>2, <1>3, <1>6, <1>9, <1>11
  <1>12. CASE /\ remote' = remote + 1 /\ charged' = more
              /\ worker' = [worker EXCEPT ![w] = guess]
              /\ hidden' = hidden /\ spent' = paid
    BY <1>1, <1>2, <1>4, <1>6, <1>7, <1>8, <1>9, <1>12
  <1>13. CASE /\ remote' = remote /\ charged' = charged
              /\ worker' = [worker EXCEPT ![w] = fail]
              /\ hidden' = hidden /\ spent' = spent
    BY <1>1, <1>2, <1>5, <1>9, <1>13
  <1>14. CASE /\ remote' = remote + 1 /\ charged' = more
              /\ worker' = [worker EXCEPT ![w] = fail]
              /\ hidden' = hidden \cup {k} /\ Mishap
    BY <1>1, <1>2, <1>5, <1>6, <1>9, <1>10, <1>14
  <1>. QED  BY <1>9, <1>11, <1>12, <1>13, <1>14

LEMMA JobRecordDoes ==
    ASSUME RenewalJobsTypeOK, NEW w \in Workers, JobRecord(w)
    PROVE  /\ worker' \in [Workers -> WorkerStates]
           /\ \A v \in Workers : v # w => worker'[v] = worker[v]
           /\ worker[w].at = "record" /\ worker'[w].at = "done"
           /\ worker'[w].inv = worker[w].inv /\ worker'[w].batch = worker[w].batch
           /\ worker'[w].n = worker[w].n
           /\ worker[w].exp \in Nat /\ Record(worker[w].exp)
  <1>1. worker \in [Workers -> WorkerStates] /\ worker[w] \in WorkerStates
    BY RecordTypes
  <1>. DEFINE next == [worker[w] EXCEPT !.at = "done"]
  <1>2. worker' = [worker EXCEPT ![w] = next] /\ worker[w].at = "record"
        /\ Record(worker[w].exp)
    BY <1>1 DEF JobRecord
  <1>3. /\ next \in WorkerStates /\ next.at = "done" /\ next.inv = worker[w].inv
        /\ next.batch = worker[w].batch /\ next.n = worker[w].n /\ worker[w].exp \in Nat
    BY <1>1 DEF WorkerStates, Places
  <1>. HIDE DEF next
  <1>. QED  BY <1>1, <1>2, <1>3

LEMMA JobSaveDoes ==
    ASSUME RenewalJobsTypeOK, NEW w \in Workers, JobSave(w), worker[w].inv \in Invoices
    PROVE  /\ worker' \in [Workers -> WorkerStates]
           /\ \A v \in Workers : v # w => worker'[v] = worker[v]
           /\ worker[w].at \in {"done", "failed"}
           /\ \/ worker[w].batch = {} /\ worker'[w] = NoWork
              \/ worker'[w].at = "next" /\ worker'[w].batch = worker[w].batch
           /\ job' \in [Invoices -> JobDocs]
           /\ \A j \in Invoices : j # worker[w].inv => job'[j] = job[j]
           /\ job'[worker[w].inv].owner = NoWorker /\ job'[worker[w].inv].stale = FALSE
           /\ job'[worker[w].inv].attempts = job[worker[w].inv].attempts
           /\ \/ worker[w].at = "done" /\ job'[worker[w].inv].status = "SUCCESS"
              \/ worker[w].n >= MaxAttempts /\ job'[worker[w].inv].status = "FAILED"
              \/ worker[w].n < MaxAttempts /\ job'[worker[w].inv].status = "QUEUED"
  <1>. DEFINE i == worker[w].inv
  <1>1. /\ worker[w] \in WorkerStates
        /\ job \in [Invoices -> JobDocs] /\ job[i] \in JobDocs
    BY RecordTypes
  <1>2. PICK v \in {"SUCCESS", "FAILED", "QUEUED"} :
           /\ v = Verdict(w)
           /\ \/ worker[w].at = "done" /\ v = "SUCCESS"
              \/ worker[w].n >= MaxAttempts /\ v = "FAILED"
              \/ worker[w].n < MaxAttempts /\ v = "QUEUED"
    BY <1>1 DEF Verdict, WorkerStates
  <1>. DEFINE next == [job[i] EXCEPT !.status = v, !.owner = NoWorker, !.stale = FALSE]
  <1>3. /\ job' = [job EXCEPT ![i] = next]
        /\ worker[w].at \in {"done", "failed"} /\ GoOn(w, worker[w].batch)
    BY <1>1, <1>2 DEF JobSave
  <1>5. v \in JobStates
    BY DEF JobStates
  <1>6. /\ next \in JobDocs /\ next.status = v /\ next.owner = NoWorker
        /\ next.stale = FALSE /\ next.attempts = job[i].attempts
    BY <1>1, <1>5, VerdictType
  <1>7. worker[w].batch \in SUBSET (Invoices \X Nat)
    BY <1>1 DEF WorkerStates
  <1>8. /\ worker' \in [Workers -> WorkerStates]
        /\ \A u \in Workers : u # w => worker'[u] = worker[u]
        /\ \/ worker[w].batch = {} /\ worker'[w] = NoWork
           \/ worker'[w].at = "next" /\ worker'[w].batch = worker[w].batch
    BY <1>3, <1>7, GoOnDoes
  <1>. HIDE DEF next
  <1>9. /\ job' \in [Invoices -> JobDocs] /\ job'[i] = next
        /\ \A j \in Invoices : j # i => job'[j] = job[j]
    BY <1>1, <1>3, <1>6
  <1>. QED  BY <1>2, <1>3, <1>6, <1>8, <1>9

LEMMA WorkerDiesDoes ==
    ASSUME RenewalJobsTypeOK, NEW w \in Workers, WorkerDies(w)
    PROVE  /\ worker' \in [Workers -> WorkerStates]
           /\ \A v \in Workers : v # w => worker'[v] = worker[v]
           /\ worker'[w] = NoWork
           /\ hidden \subseteq hidden'
           /\ hidden' \subseteq hidden \cup {Cycle(worker[w].inv)}
           /\ worker[w].at = "record" => Cycle(worker[w].inv) \in hidden'
           /\ worker[w].at # "record" => hidden' = hidden
           /\ Mishap
  BY RecordTypes, NoWorkType DEF WorkerDies

-----------------------------------------------------------------------------
(* What repairs and the synchronisation do *)

LEMMA StaleDoes ==
    ASSUME RenewalJobsTypeOK, NEW i \in Invoices, LockGoesStale(i)
    PROVE  /\ job' \in [Invoices -> JobDocs]
           /\ \A j \in Invoices : j # i => job'[j] = job[j]
           /\ job[i].status = "RUNNING" /\ job'[i].status = job[i].status
           /\ job'[i].attempts = job[i].attempts /\ job'[i].owner = job[i].owner
           /\ \/ Mishap
              \/ ~Holds(i) /\ spent' = spent
  <1>1. job \in [Invoices -> JobDocs] /\ job[i] \in JobDocs
    BY RecordTypes
  <1>. DEFINE next == [job[i] EXCEPT !.stale = TRUE]
  <1>2. job' = [job EXCEPT ![i] = next] /\ job[i].status = "RUNNING"
    BY <1>1 DEF LockGoesStale
  <1>3. /\ next \in JobDocs /\ next.status = job[i].status
        /\ next.attempts = job[i].attempts /\ next.owner = job[i].owner
    BY <1>1 DEF JobDocs
  <1>4. Mishap \/ (~Holds(i) /\ spent' = spent)
    BY DEF LockGoesStale
  <1>. HIDE DEF next
  <1>. QED  BY <1>1, <1>2, <1>3, <1>4

LEMMA RetryDoes ==
    ASSUME RenewalJobsTypeOK, NEW i \in Invoices, RetryJob(i)
    PROVE  /\ job' \in [Invoices -> JobDocs]
           /\ \A j \in Invoices : j # i => job'[j] = job[j]
           /\ job[i].status # "none" /\ job'[i].status = "QUEUED" /\ job'[i].owner = NoWorker
           /\ manual' = manual \cup {i} /\ Repair
  <1>. DEFINE next == [NoJob EXCEPT !.status = "QUEUED"]
  <1>2. next \in JobDocs /\ next.status = "QUEUED" /\ next.owner = NoWorker
    BY NewJobType
  <1>3. /\ job' = [job EXCEPT ![i] = next] /\ job[i].status # "none"
        /\ manual' = manual \cup {i} /\ Repair
    BY DEF RetryJob
  <1>. HIDE DEF next
  <1>. QED  BY <1>2, <1>3, RecordTypes

LEMMA MarkDoes ==
    ASSUME RenewalJobsTypeOK, NEW i \in Invoices, NEW e, MarkRenewed(i, e)
    PROVE  /\ job' \in [Invoices -> JobDocs]
           /\ \A j \in Invoices : j # i => job'[j] = job[j]
           /\ job[i].status # "none" /\ job'[i].status = "SUCCESS" /\ job'[i].owner = NoWorker
           /\ manual' = manual \cup {i} /\ Repair /\ Record(e)
  <1>. DEFINE next == [job[i] EXCEPT !.status = "SUCCESS", !.owner = NoWorker, !.stale = FALSE]
  <1>1. "SUCCESS" \in JobStates /\ job[i] \in JobDocs /\ job \in [Invoices -> JobDocs]
    BY RecordTypes DEF JobStates
  <1>2. next \in JobDocs /\ next.status = "SUCCESS" /\ next.owner = NoWorker
    BY <1>1, VerdictType, ZenonT(60)
  <1>3. /\ job' = [job EXCEPT ![i] = next]
        /\ job[i].status # "none"
        /\ manual' = manual \cup {i} /\ Repair /\ Record(e)
    BY <1>1 DEF MarkRenewed
  <1>. HIDE DEF next
  <1>. QED  BY <1>1, <1>2, <1>3

LEMMA AskDoes ==
    ASSUME RenewalJobsTypeOK, NEW i \in Invoices \cup {NoInvoice}, NEW e \in Reported, Ask(i, e)
    PROVE  /\ reading' \in Readings
           /\ reading'.at = "store" /\ reading'.exp = e /\ reading'.inv = i /\ e \in Nat
           /\ i # NoInvoice => job[i].status # "none"
           /\ registrar = "dynadot" => e = remote
           /\ spent' = spent \/ Repair
  <1>1. Last \in Nat /\ remote \in Nat
    BY CycleTypes, RecordTypes
  <1>2. e \in Nat /\ (registrar = "dynadot" => e = remote)
    BY <1>1 DEF Reported
  <1>3. reading' = [at |-> "store", exp |-> e, inv |-> i]
    BY DEF Ask
  <1>4. i # NoInvoice => job[i].status # "none"
    BY DEF Ask
  <1>5. spent' = spent \/ Repair
    BY DEF Ask
  <1>. QED  BY <1>2, <1>3, <1>4, <1>5 DEF Readings, Ids

LEMMA StoreDoes ==
    ASSUME RenewalJobsTypeOK, StoreReading
    PROVE  /\ job' \in [Invoices -> JobDocs]
           /\ \A j \in Invoices : j # reading.inv => job'[j] = job[j]
           /\ \/ job' = job
              \/ /\ reading.inv \in Invoices
                 /\ reading.exp >= Until(Cycle(reading.inv))
                 /\ job'[reading.inv].status = "SUCCESS" /\ job'[reading.inv].owner = NoWorker
                 /\ job'[reading.inv].attempts = job[reading.inv].attempts
           /\ reading.at = "store" /\ reading' = NoReading
           /\ reading.exp \in Nat /\ Record(reading.exp)
  <1>. DEFINE i == reading.inv
  <1>1. job \in [Invoices -> JobDocs] /\ reading \in Readings
    BY RecordTypes
  <1>2. i \in Invoices \cup {NoInvoice} /\ reading.exp \in Nat
    BY <1>1 DEF Readings, Ids
  <1>3. /\ reading.at = "store" /\ reading' = NoReading /\ Record(reading.exp)
        /\ job' = IF i # NoInvoice /\ reading.exp >= Until(Cycle(i))
                  THEN [job EXCEPT ![i].status = "SUCCESS", ![i].owner = NoWorker,
                                   ![i].stale = FALSE]
                  ELSE job
    BY DEF StoreReading
  <1>4. CASE i # NoInvoice /\ reading.exp >= Until(Cycle(i))
    <2>. DEFINE next == [job[i] EXCEPT !.status = "SUCCESS", !.owner = NoWorker, !.stale = FALSE]
    <2>1. i \in Invoices /\ job[i] \in JobDocs
      BY <1>1, <1>2, <1>4
    <2>2. job' = [job EXCEPT ![i] = next]
      BY <1>1, <1>3, <1>4, <2>1
    <2>3. "SUCCESS" \in JobStates
      BY DEF JobStates
    <2>5. /\ next \in JobDocs /\ next.status = "SUCCESS" /\ next.owner = NoWorker
          /\ next.attempts = job[i].attempts
      BY <2>1, <2>3, VerdictType
    <2>. HIDE DEF next
    <2>6. /\ job' \in [Invoices -> JobDocs] /\ job'[i] = next
          /\ \A j \in Invoices : j # i => job'[j] = job[j]
      BY <1>1, <2>1, <2>2, <2>5
    <2>. QED  BY <1>2, <1>3, <1>4, <2>1, <2>5, <2>6
  <1>5. CASE ~(i # NoInvoice /\ reading.exp >= Until(Cycle(i)))
    BY <1>1, <1>2, <1>3, <1>5
  <1>. QED  BY <1>4, <1>5

-----------------------------------------------------------------------------
(* The steps, by what they leave alone *)

RequestSteps(c) ==
    \/ RequestRead(c) \/ (\E i \in Invoices : RequestInvoice(c, i))
    \/ RequestLedger(c) \/ RequesterDies(c)
InvoiceSteps(i) == Pay(i) \/ CancelInvoice(i) \/ AppliedAgain(i)
ApplierSteps(h) ==
    \/ \E i \in Invoices : ApplyRead(h, i)
    \/ ApplyAdvance(h) \/ ApplyQueue(h) \/ ApplierDies(h)
WorkerSteps(w) == Working(w) \/ WorkerDies(w)
JobSteps(i) == LockGoesStale(i) \/ RetryJob(i) \/ MarkRenewed(i, Until(Cycle(i)))
OtherSteps ==
    \/ \E i \in Invoices \cup {NoInvoice}, e \in Reported : Ask(i, e)
    \/ StoreReading \/ StaffRenew \/ ServiceEnds

LEMMA StepKinds ==
    ASSUME RenewalNext
    PROVE  \/ \E c \in Clients : RequestSteps(c)
           \/ \E i \in Invoices : InvoiceSteps(i)
           \/ \E h \in Payments : ApplierSteps(h)
           \/ \E w \in Workers : WorkerSteps(w)
           \/ \E i \in Invoices : JobSteps(i)
           \/ OtherSteps
  <1>1. CASE Repairs
    BY <1>1 DEF Repairs, InvoiceSteps, JobSteps, OtherSteps
  <1>2. CASE Mishaps
    BY <1>2 DEF Mishaps, RequestSteps, ApplierSteps, WorkerSteps, InvoiceSteps, JobSteps
  <1>3. CASE \/ \E c \in Clients : Requesting(c)
             \/ \E i \in Invoices : Pay(i)
             \/ \E h \in Payments : Applying(h)
             \/ \E w \in Workers : Working(w)
    BY <1>3 DEF Requesting, Applying, RequestSteps, InvoiceSteps, ApplierSteps, WorkerSteps
  <1>. QED  BY <1>1, <1>2, <1>3 DEF RenewalNext

LEMMA RequestFrame ==
    ASSUME NEW c \in Clients, RequestSteps(c)
    PROVE  UNCHANGED <<registrar, ended, due, toApply, applier, job, worker, stored, remote,
                       charged, reading, hidden, manual>>
  BY DEF RequestSteps, RequestRead, RequestInvoice, RequestLedger, RequesterDies

LEMMA InvoiceFrame ==
    ASSUME NEW i \in Invoices, InvoiceSteps(i)
    PROVE  UNCHANGED <<registrar, ended, due, ledger, request, applier, job, worker,
                       stored, remote, charged, reading, hidden, manual>>
  BY DEF InvoiceSteps, Pay, CancelInvoice, AppliedAgain

LEMMA ApplierFrame ==
    ASSUME NEW h \in Payments, ApplierSteps(h)
    PROVE  UNCHANGED <<registrar, ended, invoice, request, worker, stored, remote, charged,
                       reading, hidden, manual>>
  BY DEF ApplierSteps, ApplyRead, ApplyAdvance, ApplyQueue, ApplierDies

LEMMA WorkerFrame ==
    ASSUME NEW w \in Workers, WorkerSteps(w)
    PROVE  UNCHANGED <<registrar, ended, due, ledger, invoice, request, toApply, applier,
                       reading, manual>>
  BY DEF WorkerSteps, Working, JobFind, JobLock, JobLoad, JobCheck, JobRenew, JobRecord,
     JobSave, WorkerDies

LEMMA JobFrame ==
    ASSUME NEW i \in Invoices, JobSteps(i)
    PROVE  UNCHANGED <<registrar, ended, due, ledger, invoice, request, toApply, applier,
                       worker, remote, charged, reading>>
  BY DEF JobSteps, LockGoesStale, RetryJob, MarkRenewed

LEMMA OtherFrame ==
    ASSUME OtherSteps
    PROVE  UNCHANGED <<registrar, due, ledger, invoice, request, toApply, applier, worker,
                       charged, manual>>
  BY DEF OtherSteps, Ask, StoreReading, StaffRenew, ServiceEnds

-----------------------------------------------------------------------------
(* Types *)

LEMMA CyclesKnown ==
    ASSUME Known
    PROVE  /\ \A i : IsPaid(i) => i \in Invoices /\ Cycle(i) \in Cycles
           /\ \A h \in Payments : applier[h].at # "idle" =>
                 applier[h].inv \in Invoices /\ Cycle(applier[h].inv) \in Cycles
           /\ \A w \in Workers : worker[w].at \in AtJob =>
                 worker[w].inv \in Invoices /\ Cycle(worker[w].inv) \in Cycles
           /\ \A i \in Invoices : job[i].status # "none" => Cycle(i) \in Cycles
  BY DEF Known, InvoicesKnown, IsPaid, AppliersPaid, WorkersPaid, JobsPaid

LEMMA TypesStep ==
    ASSUME RenewalJobsTypeOK, Known, RenewalNext
    PROVE  RenewalJobsTypeOK'
  <1>1. ASSUME NEW c \in Clients, RequestSteps(c)
        PROVE  RenewalJobsTypeOK'
    <2>1. CASE RequestRead(c)
      BY <1>1, <2>1, RequestFrame, RequestReadDoes, TypesMeet DEF RequestRead
    <2>2. ASSUME NEW i \in Invoices, RequestInvoice(c, i)
          PROVE  RenewalJobsTypeOK'
      BY <1>1, <2>2, RequestFrame, RequestInvoiceDoes, TypesMeet DEF RequestInvoice
    <2>3. CASE RequestLedger(c)
      BY <1>1, <2>3, RequestFrame, RequestLedgerDoes, TypesMeet DEF RequestLedger
    <2>4. CASE RequesterDies(c)
      BY <1>1, <2>4, RequestFrame, RecordTypes, NullTypes, SpentTypes, TypesMeet
      DEF RequesterDies
    <2>. QED  BY <1>1, <2>1, <2>2, <2>3, <2>4 DEF RequestSteps
  <1>2. ASSUME NEW i \in Invoices, InvoiceSteps(i)
        PROVE  RenewalJobsTypeOK'
    <2>1. CASE Pay(i)
      BY <1>2, <2>1, InvoiceFrame, InvoiceStepsDo, RecordTypes, TypesMeet DEF Pay
    <2>2. CASE CancelInvoice(i)
      BY <1>2, <2>2, InvoiceFrame, InvoiceStepsDo, SpentTypes, TypesMeet DEF CancelInvoice
    <2>3. CASE AppliedAgain(i)
      BY <1>2, <2>3, InvoiceFrame, RecordTypes, SpentTypes, TypesMeet DEF AppliedAgain
    <2>. QED  BY <1>2, <2>1, <2>2, <2>3 DEF InvoiceSteps
  <1>3. ASSUME NEW h \in Payments, ApplierSteps(h)
        PROVE  RenewalJobsTypeOK'
    <2>1. ASSUME NEW i \in Invoices, ApplyRead(h, i)
          PROVE  RenewalJobsTypeOK'
      BY <1>3, <2>1, ApplierFrame, ApplyReadDoes, RecordTypes, TypesMeet DEF ApplyRead
    <2>2. CASE ApplyAdvance(h)
      <3>1. applier[h].inv \in Invoices
        BY <2>2, CyclesKnown DEF ApplyAdvance
      <3>. QED  BY <1>3, <2>2, <3>1, ApplierFrame, ApplyAdvanceDoes, TypesMeet DEF ApplyAdvance
    <2>3. CASE ApplyQueue(h)
      <3>1. applier[h].inv \in Invoices
        BY <2>3, CyclesKnown DEF ApplyQueue
      <3>. QED  BY <1>3, <2>3, <3>1, ApplierFrame, ApplyQueueDoes, TypesMeet DEF ApplyQueue
    <2>4. CASE ApplierDies(h)
      BY <1>3, <2>4, ApplierFrame, RecordTypes, NullTypes, SpentTypes, TypesMeet
      DEF ApplierDies
    <2>. QED  BY <1>3, <2>1, <2>2, <2>3, <2>4 DEF ApplierSteps
  <1>4. ASSUME NEW w \in Workers, WorkerSteps(w)
        PROVE  RenewalJobsTypeOK'
    <2>1. CASE JobFind(w)
      BY <1>4, <2>1, WorkerFrame, JobFindDoes, SpentTypes, TypesMeet DEF JobFind
    <2>2. CASE JobLock(w)
      BY <1>4, <2>2, WorkerFrame, JobLockDoes, TypesMeet DEF JobLock
    <2>3. CASE JobLoad(w)
      BY <1>4, <2>3, WorkerFrame, JobLoadDoes, TypesMeet DEF JobLoad
    <2>4. ASSUME NEW f \in worker[w].batch, JobCheck(w, f)
          PROVE  RenewalJobsTypeOK'
      <3>1. IsPaid(f[1])
        BY DEF Known, WorkersPaid
      <3>2. Cycle(f[1]) \in Cycles
        BY <3>1, CyclesKnown
      <3>3. hidden' \subseteq Cycles
        BY <2>4, <3>2, JobCheckDoes, RecordTypes
      <3>. QED  BY <1>4, <2>4, <3>3, WorkerFrame, JobCheckDoes, TypesMeet DEF JobCheck
    <2>5. CASE JobRenew(w)
      <3>1. Cycle(worker[w].inv) \in Cycles
        BY <2>5, CyclesKnown DEF JobRenew, AtJob
      <3>2. /\ worker' \in [Workers -> WorkerStates] /\ remote' \in Nat
            /\ charged' \in [Cycles -> Nat] /\ hidden' \subseteq Cycles /\ spent' \in Spendings
        BY <2>5, <3>1, JobRenewDoes
      <3>3. UNCHANGED <<stored, job>>
        BY <2>5 DEF JobRenew
      <3>. QED  BY <1>4, <3>2, <3>3, WorkerFrame, TypesMeet
    <2>6. CASE JobRecord(w)
      BY <1>4, <2>6, WorkerFrame, JobRecordDoes, HidesType, TypesMeet DEF JobRecord
    <2>7. CASE JobSave(w)
      <3>1. worker[w].inv \in Invoices
        BY <2>7, CyclesKnown DEF JobSave, AtJob
      <3>. QED  BY <1>4, <2>7, <3>1, WorkerFrame, JobSaveDoes, TypesMeet DEF JobSave
    <2>8. CASE WorkerDies(w)
      <3>1. worker[w].at = "record" => Cycle(worker[w].inv) \in Cycles
        BY CyclesKnown DEF AtJob
      <3>2. hidden' \subseteq Cycles
        BY <2>8, <3>1, WorkerDiesDoes, RecordTypes
      <3>. QED  BY <1>4, <2>8, <3>2, WorkerFrame, WorkerDiesDoes, SpentTypes, TypesMeet
                DEF WorkerDies
    <2>. QED  BY <1>4, <2>1, <2>2, <2>3, <2>4, <2>5, <2>6, <2>7, <2>8 DEF WorkerSteps, Working
  <1>5. ASSUME NEW i \in Invoices, JobSteps(i)
        PROVE  RenewalJobsTypeOK'
    <2>1. CASE LockGoesStale(i)
      BY <1>5, <2>1, JobFrame, StaleDoes, SpentTypes, TypesMeet DEF LockGoesStale
    <2>2. CASE RetryJob(i)
      BY <1>5, <2>2, JobFrame, RetryDoes, RecordTypes, SpentTypes, TypesMeet DEF RetryJob
    <2>3. CASE MarkRenewed(i, Until(Cycle(i)))
      <3>1. Cycle(i) \in Cycles
        BY <2>3, CyclesKnown DEF MarkRenewed
      <3>2. Until(Cycle(i)) \in Nat
        BY <3>1, CycleTypes
      <3>3. stored' \in Nat /\ hidden' \subseteq Cycles
        BY <2>3, <3>2, HidesType, MarkDoes
      <3>. QED  BY <1>5, <2>3, <3>3, JobFrame, MarkDoes, RecordTypes, SpentTypes, TypesMeet
    <2>. QED  BY <1>5, <2>1, <2>2, <2>3 DEF JobSteps
  <1>6. CASE OtherSteps
    <2>1. ASSUME NEW i \in Invoices \cup {NoInvoice}, NEW e \in Reported, Ask(i, e)
          PROVE  RenewalJobsTypeOK'
      BY <1>6, <2>1, OtherFrame, AskDoes, SpentTypes, TypesMeet DEF Ask
    <2>2. CASE StoreReading
      <3>1. stored' \in Nat /\ hidden' \subseteq Cycles
        BY <2>2, HidesType, StoreDoes
      <3>. QED  BY <1>6, <2>2, <3>1, OtherFrame, StoreDoes, NullTypes, TypesMeet
                DEF StoreReading
    <2>3. CASE StaffRenew
      <3>1. remote + 1 \in Nat
        BY RecordTypes
      <3>2. stored' \in Nat /\ hidden' \subseteq Cycles /\ remote' \in Nat
        BY <2>3, <3>1, HidesType DEF StaffRenew
      <3>. QED  BY <1>6, <2>3, <3>2, OtherFrame, SpentTypes, TypesMeet DEF StaffRenew
    <2>4. CASE ServiceEnds
      BY <1>6, <2>4, OtherFrame, SpentTypes, TypesMeet DEF ServiceEnds
    <2>. QED  BY <1>6, <2>1, <2>2, <2>3, <2>4 DEF OtherSteps
  <1>. QED  BY <1>1, <1>2, <1>3, <1>4, <1>5, <1>6, StepKinds

-----------------------------------------------------------------------------
(* What only grows *)

Grows ==
    /\ registrar' = registrar /\ (ended => ended')
    /\ manual \subseteq manual' /\ hidden \subseteq hidden'
    /\ remote <= remote' /\ \A k \in Cycles : charged[k] <= charged'[k]
    /\ spent.mishaps <= spent'.mishaps /\ spent.guessed \subseteq spent'.guessed
    /\ \A i \in Invoices :
          /\ invoice[i].status # "none" =>
                invoice'[i].status # "none" /\ invoice'[i].cycle = invoice[i].cycle
          /\ invoice[i].status = "paid" => invoice'[i].status = "paid"

LEMMA StepGrows ==
    ASSUME RenewalJobsTypeOK, Known, RenewalNext
    PROVE  Grows
  <1>0. /\ remote \in Nat /\ charged \in [Cycles -> Nat]
        /\ spent.mishaps \in Nat /\ spent.guessed \subseteq Cycles
    BY RecordTypes, SpentTypes
  <1>. DEFINE SpentGrows ==
                spent.mishaps <= spent'.mishaps /\ spent.guessed \subseteq spent'.guessed
              InvoicesGrow == \A i \in Invoices :
                 /\ invoice[i].status # "none" =>
                       invoice'[i].status # "none" /\ invoice'[i].cycle = invoice[i].cycle
                 /\ invoice[i].status = "paid" => invoice'[i].status = "paid"
  <1>m. (Mishap \/ Repair \/ spent' = spent) => SpentGrows
    BY <1>0, SpentTypes
  <1>i. invoice' = invoice => InvoicesGrow
    OBVIOUS
  <1>r. remote' = remote => remote <= remote'
    BY <1>0
  <1>c. charged' = charged => \A k \in Cycles : charged[k] <= charged'[k]
    BY <1>0
  <1>h. \A e : Record(e) => hidden \subseteq hidden'
    BY DEF Record
  <1>1. ASSUME NEW c \in Clients, RequestSteps(c)
        PROVE  Grows
    <2>1. InvoicesGrow
      <3>1. ASSUME NEW i \in Invoices, RequestInvoice(c, i)
            PROVE  InvoicesGrow
        BY <3>1, RequestInvoiceDoes
      <3>2. \/ invoice' = invoice
            \/ \E i \in Invoices : RequestInvoice(c, i)
        BY <1>1 DEF RequestSteps, RequestRead, RequestLedger, RequesterDies
      <3>. QED  BY <1>i, <3>1, <3>2
    <2>2. Mishap \/ Repair \/ spent' = spent
      BY <1>1 DEF RequestSteps, RequestRead, RequestInvoice, RequestLedger, RequesterDies
    <2>. HIDE DEF SpentGrows, InvoicesGrow
    <2>. QED  BY <1>1, <1>m, <1>r, <1>c, <2>1, <2>2, RequestFrame
              DEF Grows, SpentGrows, InvoicesGrow
  <1>2. ASSUME NEW i \in Invoices, InvoiceSteps(i)
        PROVE  Grows
    <2>1. InvoicesGrow
      <3>1. CASE Pay(i)
        BY <3>1, InvoiceStepsDo
      <3>2. CASE CancelInvoice(i)
        BY <3>2, InvoiceStepsDo
      <3>3. CASE AppliedAgain(i)
        BY <1>i, <3>3 DEF AppliedAgain
      <3>. QED  BY <1>2, <3>1, <3>2, <3>3 DEF InvoiceSteps
    <2>2. Mishap \/ Repair \/ spent' = spent
      BY <1>2 DEF InvoiceSteps, Pay, CancelInvoice, AppliedAgain
    <2>. HIDE DEF SpentGrows, InvoicesGrow
    <2>. QED  BY <1>2, <1>m, <1>r, <1>c, <2>1, <2>2, InvoiceFrame
              DEF Grows, SpentGrows, InvoicesGrow
  <1>3. ASSUME NEW h \in Payments, ApplierSteps(h)
        PROVE  Grows
    <2>1. Mishap \/ Repair \/ spent' = spent
      BY <1>3 DEF ApplierSteps, ApplyRead, ApplyAdvance, ApplyQueue, ApplierDies
    <2>. HIDE DEF SpentGrows, InvoicesGrow
    <2>. QED  BY <1>3, <1>m, <1>i, <1>r, <1>c, <2>1, ApplierFrame
              DEF Grows, SpentGrows, InvoicesGrow
  <1>4. ASSUME NEW w \in Workers, WorkerSteps(w)
        PROVE  Grows
    <2>1. ASSUME NEW f \in worker[w].batch, JobCheck(w, f)
          PROVE  UNCHANGED <<remote, charged, spent>> /\ hidden \subseteq hidden'
      BY <2>1, JobCheckDoes DEF JobCheck
    <2>2. CASE JobRenew(w)
      <3>1. Cycle(worker[w].inv) \in Cycles
        BY <2>2, CyclesKnown DEF JobRenew, AtJob
      <3>2. /\ remote <= remote' /\ (\A k \in Cycles : charged[k] <= charged'[k])
            /\ hidden \subseteq hidden'
        BY <1>0, <2>2, <3>1, JobRenewDoes
      <3>3. SpentGrows
        BY <1>0, <1>m, <2>2, <3>1, JobRenewDoes
      <3>. HIDE DEF SpentGrows, InvoicesGrow
      <3>. QED  BY <1>4, <1>i, <3>2, <3>3, WorkerFrame DEF Grows, SpentGrows, InvoicesGrow
    <2>3. ASSUME ~JobRenew(w)
          PROVE  /\ UNCHANGED <<remote, charged>> /\ hidden \subseteq hidden'
                 /\ Mishap \/ Repair \/ spent' = spent
      <3>1. CASE JobFind(w) \/ JobLock(w) \/ JobLoad(w) \/ JobSave(w)
        BY <3>1 DEF JobFind, Overlap, JobLock, JobLoad, JobSave
      <3>2. CASE JobRecord(w)
        BY <1>h, <3>2 DEF JobRecord
      <3>3. CASE WorkerDies(w)
        BY <3>3, WorkerDiesDoes DEF WorkerDies
      <3>. QED  BY <1>4, <2>1, <2>3, <3>1, <3>2, <3>3 DEF WorkerSteps, Working
    <2>. HIDE DEF SpentGrows, InvoicesGrow
    <2>4. CASE ~JobRenew(w)
      BY <1>4, <1>m, <1>i, <1>r, <1>c, <2>3, <2>4, WorkerFrame
      DEF Grows, SpentGrows, InvoicesGrow
    <2>. QED  BY <2>2, <2>4
  <1>5. ASSUME NEW i \in Invoices, JobSteps(i)
        PROVE  Grows
    <2>1. /\ Mishap \/ Repair \/ spent' = spent
          /\ hidden \subseteq hidden' /\ manual \subseteq manual'
      BY <1>5, <1>h DEF JobSteps, LockGoesStale, RetryJob, MarkRenewed
    <2>. HIDE DEF SpentGrows, InvoicesGrow
    <2>. QED  BY <1>5, <1>m, <1>i, <1>r, <1>c, <2>1, JobFrame
              DEF Grows, SpentGrows, InvoicesGrow
  <1>6. CASE OtherSteps
    <2>1. /\ Mishap \/ Repair \/ spent' = spent
          /\ hidden \subseteq hidden' /\ (ended => ended')
          /\ remote' = remote \/ remote' = remote + 1
      BY <1>6, <1>h DEF OtherSteps, Ask, StoreReading, StaffRenew, ServiceEnds
    <2>2. remote <= remote'
      BY <1>0, <2>1
    <2>. HIDE DEF SpentGrows, InvoicesGrow
    <2>. QED  BY <1>6, <1>m, <1>i, <1>c, <2>1, <2>2, OtherFrame
              DEF Grows, SpentGrows, InvoicesGrow
  <1>. QED  BY <1>1, <1>2, <1>3, <1>4, <1>5, <1>6, StepKinds

\* The cycle of an invoice once made, and its payment, stay.
LEMMA CyclesStay ==
    ASSUME Grows
    PROVE  \A i : IsPaid(i) => IsPaid(i)' /\ invoice'[i].cycle = invoice[i].cycle
  BY DEF Grows, IsPaid

-----------------------------------------------------------------------------
(* Who is at what stays known *)

LEMMA RequestsKnownStep ==
    ASSUME RenewalJobsTypeOK, Known, RenewalNext
    PROVE  RequestsKnown' /\ InvoicesKnown'
  <1>0. /\ RequestsKnown /\ InvoicesKnown
    BY DEF Known
  <1>g. Grows
    BY StepGrows
  <1>1. ASSUME NEW c \in Clients, RequestSteps(c)
        PROVE  RequestsKnown' /\ InvoicesKnown'
    <2>1. CASE RequestRead(c)
      <3>1. invoice' = invoice
        BY <2>1 DEF RequestRead
      <3>. QED  BY <1>0, <2>1, <3>1, RequestReadDoes DEF RequestsKnown, InvoicesKnown, Cycle
    <2>2. ASSUME NEW i \in Invoices, RequestInvoice(c, i)
          PROVE  RequestsKnown' /\ InvoicesKnown'
      <3>1. request[c].cycle \in Cycles
        BY <1>0, <2>2, RequestInvoiceDoes DEF RequestsKnown
      <3>2. InvoicesKnown'
        BY <1>0, <2>2, <3>1, RequestInvoiceDoes DEF InvoicesKnown, Cycle
      <3>3. RequestsKnown'
        BY <1>0, <2>2, <3>1, RequestInvoiceDoes DEF RequestsKnown, Cycle
      <3>. QED  BY <3>2, <3>3
    <2>3. CASE RequestLedger(c) \/ RequesterDies(c)
      <3>1. request' = [request EXCEPT ![c] = NoRequest] /\ invoice' = invoice
        BY <2>3 DEF RequestLedger, RequesterDies
      <3>. QED  BY <1>0, <3>1, NullTypes, RecordTypes DEF RequestsKnown, InvoicesKnown, Cycle
    <2>. QED  BY <1>1, <2>1, <2>2, <2>3 DEF RequestSteps
  <1>2. ASSUME NEW i \in Invoices, InvoiceSteps(i)
        PROVE  RequestsKnown' /\ InvoicesKnown'
    <2>1. request' = request
      BY <1>2, InvoiceFrame
    <2>2. RequestsKnown'
      BY <1>0, <1>g, <2>1 DEF RequestsKnown, Cycle, Grows
    <2>3. \A j \in Invoices : invoice'[j].status # "none" => invoice[j].status # "none"
      BY <1>2, InvoiceStepsDo DEF InvoiceSteps, AppliedAgain
    <2>4. InvoicesKnown'
      BY <1>0, <1>g, <2>3 DEF InvoicesKnown, Cycle, Grows
    <2>. QED  BY <2>2, <2>4
  <1>3. CASE UNCHANGED <<request, invoice>>
    BY <1>0, <1>3 DEF RequestsKnown, InvoicesKnown, Cycle
  <1>. QED  BY <1>1, <1>2, <1>3, StepKinds, ApplierFrame, WorkerFrame, JobFrame, OtherFrame

LEMMA AppliersPaidStep ==
    ASSUME RenewalJobsTypeOK, Known, RenewalNext
    PROVE  AppliersPaid'
  <1>0. AppliersPaid
    BY DEF Known
  <1>g. \A i : IsPaid(i) => IsPaid(i)'
    BY StepGrows, CyclesStay
  <1>1. ASSUME NEW i \in Invoices, InvoiceSteps(i)
        PROVE  AppliersPaid'
    <2>1. applier' = applier
      BY <1>1, InvoiceFrame
    <2>2. \A j \in toApply' : j \in toApply \/ IsPaid(j)'
      <3>1. CASE Pay(i)
        BY <3>1, InvoiceStepsDo DEF IsPaid
      <3>2. CASE CancelInvoice(i)
        BY <3>2 DEF CancelInvoice
      <3>3. CASE AppliedAgain(i)
        BY <3>3 DEF AppliedAgain, IsPaid
      <3>. QED  BY <1>1, <3>1, <3>2, <3>3 DEF InvoiceSteps
    <2>. QED  BY <1>0, <1>g, <2>1, <2>2 DEF AppliersPaid
  <1>2. ASSUME NEW h \in Payments, ApplierSteps(h)
        PROVE  AppliersPaid'
    <2>1. toApply' \subseteq toApply
      BY <1>2 DEF ApplierSteps, ApplyRead, ApplyAdvance, ApplyQueue, ApplierDies
    <2>2. \A g \in Payments : applier'[g].at # "idle" => IsPaid(applier'[g].inv)
      <3>1. ASSUME NEW i \in Invoices, ApplyRead(h, i)
            PROVE  \A g \in Payments : applier'[g].at # "idle" => IsPaid(applier'[g].inv)
        BY <1>0, <3>1, ApplyReadDoes DEF AppliersPaid
      <3>2. CASE ApplyAdvance(h)
        <4>1. applier[h].inv \in Invoices
          BY <1>0, <3>2 DEF ApplyAdvance, AppliersPaid, IsPaid
        <4>. QED  BY <1>0, <3>2, <4>1, ApplyAdvanceDoes, NullTypes DEF AppliersPaid
      <3>3. CASE ApplyQueue(h) \/ ApplierDies(h)
        <4>1. applier' = [applier EXCEPT ![h] = NoApplier]
          BY <3>3 DEF ApplyQueue, ApplierDies
        <4>. QED  BY <1>0, <4>1, NullTypes, RecordTypes DEF AppliersPaid
      <3>. QED  BY <1>2, <3>1, <3>2, <3>3 DEF ApplierSteps
    <2>. QED  BY <1>0, <1>g, <2>1, <2>2 DEF AppliersPaid
  <1>3. CASE UNCHANGED <<toApply, applier>>
    BY <1>0, <1>g, <1>3 DEF AppliersPaid
  <1>. QED  BY <1>1, <1>2, <1>3, StepKinds, RequestFrame, WorkerFrame, JobFrame, OtherFrame

LEMMA JobsPaidStep ==
    ASSUME RenewalJobsTypeOK, Known, RenewalNext
    PROVE  JobsPaid'
  <1>0. /\ JobsPaid /\ AppliersPaid /\ WorkersPaid
    BY DEF Known
  <1>g. \A i : IsPaid(i) => IsPaid(i)'
    BY StepGrows, CyclesStay
  <1>t. "RUNNING" # "none" /\ NoWorker \notin Workers
    OBVIOUS
  <1>1. ASSUME NEW h \in Payments, ApplierSteps(h)
        PROVE  JobsPaid'
    <2>1. reading' = reading
      BY <1>1, ApplierFrame
    <2>2. CASE ApplyQueue(h)
      <3>1. IsPaid(applier[h].inv) /\ applier[h].inv \in Invoices
        BY <1>0, <2>2 DEF ApplyQueue, AppliersPaid, IsPaid
      <3>2. \A j \in Invoices :
               \/ job'[j] = job[j]
               \/ IsPaid(j) /\ job'[j].owner = NoWorker
        BY <2>2, <3>1, ApplyQueueDoes
      <3>. QED  BY <1>0, <1>g, <2>1, <3>2 DEF JobsPaid
    <2>3. CASE ~ApplyQueue(h)
      <3>1. job' = job
        BY <1>1, <2>3 DEF ApplierSteps, ApplyRead, ApplyAdvance, ApplierDies
      <3>. QED  BY <1>0, <1>g, <2>1, <3>1 DEF JobsPaid
    <2>. QED  BY <2>2, <2>3
  <1>2. ASSUME NEW w \in Workers, WorkerSteps(w)
        PROVE  JobsPaid'
    <2>1. reading' = reading
      BY <1>2, WorkerFrame
    <2>2. CASE JobLock(w)
      <3>1. \A j \in Invoices :
               \/ job'[j] = job[j]
               \/ IsPaid(j) /\ job'[j].status = "RUNNING"
        <4>1. \A f \in worker[w].batch : IsPaid(f[1])
          BY <1>0 DEF WorkersPaid
        <4>2. \A j \in Invoices :
                 \/ job'[j] = job[j]
                 \/ /\ \E f \in worker[w].batch : f[1] = j
                    /\ job'[j].status = "RUNNING"
          BY <1>0, <2>2, JobLockLocks, ZenonT(60)
        <4>. QED  BY <4>1, <4>2
      <3>. QED  BY <1>0, <1>g, <2>1, <3>1 DEF JobsPaid
    <2>3. CASE JobSave(w)
      <3>1. IsPaid(worker[w].inv) /\ worker[w].inv \in Invoices
        BY <1>0, <2>3 DEF JobSave, WorkersPaid, AtJob, IsPaid
      <3>2. \A j \in Invoices :
               \/ job'[j] = job[j]
               \/ IsPaid(j) /\ job'[j].owner = NoWorker
        BY <2>3, <3>1, JobSaveDoes
      <3>. QED  BY <1>0, <1>g, <2>1, <3>2 DEF JobsPaid
    <2>4. CASE ~JobLock(w) /\ ~JobSave(w)
      <3>1. job' = job
        BY <1>2, <2>4 DEF WorkerSteps, Working, JobFind, JobLoad, JobCheck, JobRenew,
           JobRecord, WorkerDies
      <3>. QED  BY <1>0, <1>g, <2>1, <3>1 DEF JobsPaid
    <2>. QED  BY <2>2, <2>3, <2>4
  <1>3. ASSUME NEW i \in Invoices, JobSteps(i)
        PROVE  JobsPaid'
    <2>1. reading' = reading
      BY <1>3, JobFrame
    <2>2. \A j \in Invoices : j # i => job'[j] = job[j]
      BY <1>3, StaleDoes, RetryDoes, MarkDoes DEF JobSteps
    <2>3. IsPaid(i) /\ (job'[i].owner # NoWorker => job'[i].status = "RUNNING")
      BY <1>0, <1>3, StaleDoes, RetryDoes, MarkDoes DEF JobSteps, JobsPaid
    <2>. QED  BY <1>0, <1>g, <2>1, <2>2, <2>3 DEF JobsPaid
  <1>4. CASE OtherSteps
    <2>1. ASSUME NEW i \in Invoices \cup {NoInvoice}, NEW e \in Reported, Ask(i, e)
          PROVE  JobsPaid'
      <3>1. job' = job
        BY <2>1 DEF Ask
      <3>. QED  BY <1>0, <1>g, <2>1, <3>1, AskDoes DEF JobsPaid
    <2>2. CASE StoreReading
      <3>1. reading.inv \in Invoices => IsPaid(reading.inv)
        BY <1>0 DEF JobsPaid
      <3>2. \A j \in Invoices :
               \/ job'[j] = job[j]
               \/ IsPaid(j) /\ job'[j].owner = NoWorker
        BY <2>2, <3>1, StoreDoes
      <3>. QED  BY <1>0, <1>g, <2>2, <3>2, StoreDoes, NullTypes DEF JobsPaid
    <2>3. CASE StaffRenew \/ ServiceEnds
      <3>1. UNCHANGED <<job, reading>>
        BY <2>3 DEF StaffRenew, ServiceEnds
      <3>. QED  BY <1>0, <1>g, <3>1 DEF JobsPaid
    <2>. QED  BY <1>4, <2>1, <2>2, <2>3 DEF OtherSteps
  <1>5. CASE UNCHANGED <<job, reading>>
    BY <1>0, <1>g, <1>5 DEF JobsPaid
  <1>6. \A c \in Clients : RequestSteps(c) => UNCHANGED <<job, reading>>
    BY RequestFrame
  <1>7. \A i \in Invoices : InvoiceSteps(i) => UNCHANGED <<job, reading>>
    BY InvoiceFrame
  <1>. QED  BY <1>1, <1>2, <1>3, <1>4, <1>5, <1>6, <1>7, StepKinds

\* A worker leaves the work of others alone.
LEMMA OthersKept ==
    ASSUME RenewalJobsTypeOK, NEW w \in Workers, WorkerSteps(w)
    PROVE  \A v \in Workers : v # w => worker'[v] = worker[v]
  <1>1. ASSUME NEW f \in worker[w].batch, JobCheck(w, f)
        PROVE  \A v \in Workers : v # w => worker'[v] = worker[v]
    BY <1>1, JobCheckDoes
  <1>2. CASE JobRenew(w)
    BY <1>2, RecordTypes DEF JobRenew
  <1>3. CASE JobSave(w)
    BY <1>3, RecordTypes DEF JobSave, GoOn
  <1>. QED  BY <1>1, <1>2, <1>3, JobFindDoes, JobLockDoes, JobLoadDoes, JobRecordDoes,
               WorkerDiesDoes, ZenonT(60) DEF WorkerSteps, Working

LEMMA WorkersPaidStep ==
    ASSUME RenewalJobsTypeOK, Known, RenewalNext
    PROVE  WorkersPaid'
  <1>0. /\ WorkersPaid /\ JobsPaid
    BY DEF Known
  <1>g. \A i : IsPaid(i) => IsPaid(i)'
    BY StepGrows, CyclesStay
  <1>1. ASSUME NEW w \in Workers, WorkerSteps(w)
        PROVE  WorkersPaid'
    <2>. DEFINE Fine == /\ worker'[w].at = "idle" => worker'[w] = NoWork
                        /\ \A f \in worker'[w].batch : IsPaid(f[1])
                        /\ worker'[w].at \in AtJob => IsPaid(worker'[w].inv)
    <2>0. /\ worker[w].at = "idle" => worker[w] = NoWork
          /\ \A f \in worker[w].batch : IsPaid(f[1])
          /\ worker[w].at \in AtJob => IsPaid(worker[w].inv)
      BY <1>0 DEF WorkersPaid
    <2>n. worker'[w] = NoWork => Fine
      BY NoWorkType DEF AtJob
    <2>9. Fine
      <3>1. CASE JobFind(w)
        <4>1. \A i \in Invoices : Taken(i) => IsPaid(i)
          BY <1>0 DEF JobsPaid, Taken
        <4>2. \A f \in worker'[w].batch : IsPaid(f[1])
          BY <3>1, <4>1, JobFindDoes
        <4>. QED  BY <3>1, <4>2, JobFindDoes DEF AtJob
      <3>2. CASE JobLock(w)
        BY <2>0, <3>2, JobLockDoes DEF AtJob
      <3>3. CASE JobLoad(w)
        <4>1. \A i \in Invoices : job[i].owner = w => IsPaid(i)
          BY <1>0 DEF JobsPaid
        <4>. QED  BY <3>3, <2>n, <4>1, JobLoadDoes DEF AtJob
      <3>4. ASSUME NEW f \in worker[w].batch, JobCheck(w, f)
            PROVE  Fine
        BY <2>0, <3>4, JobCheckDoes DEF AtJob
      <3>5. CASE JobRenew(w)
        <4>1. Cycle(worker[w].inv) \in Cycles
          BY <3>5, CyclesKnown DEF JobRenew, AtJob
        <4>2. /\ worker'[w].inv = worker[w].inv /\ worker'[w].batch = worker[w].batch
              /\ worker'[w].at \in {"record", "failed"} /\ worker[w].at = "renew"
          BY <3>5, <4>1, JobRenewDoes
        <4>. QED  BY <2>0, <4>2 DEF AtJob
      <3>6. CASE JobRecord(w)
        BY <2>0, <3>6, JobRecordDoes DEF AtJob
      <3>7. CASE JobSave(w)
        <4>1. worker[w].inv \in Invoices
          BY <3>7, CyclesKnown DEF JobSave, AtJob
        <4>2. \/ worker'[w] = NoWork
              \/ worker'[w].at = "next" /\ worker'[w].batch = worker[w].batch
          BY <3>7, <4>1, JobSaveDoes
        <4>. QED  BY <2>0, <2>n, <4>2 DEF AtJob
      <3>8. CASE WorkerDies(w)
        BY <2>n, <3>8, WorkerDiesDoes
      <3>. QED
        BY <1>1, <3>1, <3>2, <3>3, <3>4, <3>5, <3>6, <3>7, <3>8 DEF WorkerSteps, Working
    <2>10. \A v \in Workers : v # w => worker'[v] = worker[v]
      BY <1>1, OthersKept
    <2>11. ASSUME NEW v \in Workers
           PROVE  /\ worker'[v].at = "idle" => worker'[v] = NoWork
                  /\ \A f \in worker'[v].batch : IsPaid(f[1])
                  /\ worker'[v].at \in AtJob => IsPaid(worker'[v].inv)
      <3>1. CASE v = w
        BY <2>9, <3>1
      <3>2. CASE v # w
        BY <1>0, <2>10, <3>2 DEF WorkersPaid
      <3>. QED  BY <3>1, <3>2
    <2>. HIDE DEF Fine
    <2>. QED  BY <1>g, <2>11 DEF WorkersPaid
  <1>2. CASE worker' = worker
    BY <1>0, <1>g, <1>2 DEF WorkersPaid
  <1>. QED  BY <1>1, <1>2, StepKinds, RequestFrame, InvoiceFrame, ApplierFrame, JobFrame,
               OtherFrame

LEMMA KnownStep ==
    ASSUME RenewalJobsTypeOK, Known, RenewalNext
    PROVE  Known'
  BY RequestsKnownStep, AppliersPaidStep, JobsPaidStep, WorkersPaidStep DEF Known

-----------------------------------------------------------------------------
(* A cycle is charged once *)

\* What a step of worker w has to do about cycle k
StaysOnce(w, k) ==
    /\ \A v \in Workers : v # w => worker'[v] = worker[v]
    /\ Renewing(w, k)' => \A v \in Workers \ {w} : ~Renewing(v, k)
    /\ worker'[w].at = "renew" /\ invoice'[worker'[w].inv].cycle = k => charged'[k] = 0
    /\ \/ charged'[k] = charged[k]
       \/ charged'[k] = 1 /\ \A v \in Workers \ {w} : ~Renewing(v, k)
    /\ charged'[k] > 0 =>
          \/ stored' >= Until(k)
          \/ \E v \in Workers : worker'[v].at = "record" /\ invoice'[worker'[v].inv].cycle = k

\* Then the cycle, unless the record is wrong about it, stays charged once.
LEMMA OnceMeets ==
    ASSUME RenewalJobsTypeOK, Known, OnceInv, RenewalNext,
           NEW k \in Cycles, k \notin hidden', NEW w \in Workers, StaysOnce(w, k)
    PROVE  ShownOrRecorded(k)'
  <1>0. /\ \A v \in Workers : v # w => worker'[v] = worker[v]
        /\ Renewing(w, k)' => \A v \in Workers \ {w} : ~Renewing(v, k)
        /\ worker'[w].at = "renew" /\ invoice'[worker'[w].inv].cycle = k => charged'[k] = 0
        /\ \/ charged'[k] = charged[k]
           \/ charged'[k] = 1 /\ \A v \in Workers \ {w} : ~Renewing(v, k)
        /\ charged'[k] > 0 =>
              \/ stored' >= Until(k)
              \/ \E v \in Workers : worker'[v].at = "record" /\ invoice'[worker'[v].inv].cycle = k
    BY DEF StaysOnce
  <1>1. k \notin hidden /\ ShownOrRecorded(k)
    BY StepGrows DEF Grows, OnceInv
  <1>2. \A v \in Workers : v # w => (Renewing(v, k)' <=> Renewing(v, k))
    <2>1. \A v \in Workers : worker[v].at \in AtJob =>
             IsPaid(worker[v].inv) /\ invoice'[worker[v].inv].cycle = Cycle(worker[v].inv)
      BY StepGrows, CyclesStay DEF Known, WorkersPaid, Cycle
    <2>. QED  BY <1>0, <2>1 DEF Renewing, AtJob, Cycle
  <1>3. \A v \in Workers : v # w /\ worker'[v].at = "renew" /\ invoice'[worker'[v].inv].cycle = k
           => Renewing(v, k) /\ worker[v].at = "renew" /\ Cycle(worker[v].inv) = k
    BY <1>0, <1>2 DEF Renewing, Cycle
  <1>4. charged'[k] <= 1
    BY <1>0, <1>1, RecordTypes DEF ShownOrRecorded, Cycle
  <1>5. \A v, u \in Workers : Renewing(v, k)' /\ Renewing(u, k)' => v = u
    BY <1>0, <1>1, <1>2 DEF ShownOrRecorded, Cycle
  <1>6. \A v \in Workers : worker'[v].at = "renew" /\ invoice'[worker'[v].inv].cycle = k
           => charged'[k] = 0
    BY <1>0, <1>1, <1>3 DEF ShownOrRecorded, Cycle
  <1>. QED  BY <1>0, <1>4, <1>5, <1>6 DEF ShownOrRecorded, Cycle

\* Steps that set the record
LEMMA OnceRecorded ==
    ASSUME RenewalJobsTypeOK, Known, OnceInv, RenewalNext, NEW e \in Nat, Record(e),
           UNCHANGED <<worker, charged>>
    PROVE  OnceInv'
  <1>1. SUFFICES ASSUME NEW k \in Cycles, k \notin hidden'
                 PROVE  ShownOrRecorded(k)'
    BY DEF OnceInv
  <1>2. k \notin hidden /\ ShownOrRecorded(k)
    BY <1>1, HidesType DEF OnceInv
  <1>3. charged[k] > 0 => stored' >= Until(k)
    BY <1>1, HidesType
  <1>4. \A v \in Workers : worker[v].at \in AtJob =>
           invoice'[worker[v].inv].cycle = Cycle(worker[v].inv)
    BY StepGrows, CyclesStay DEF Known, WorkersPaid, Cycle
  <1>5. \A v \in Workers : Renewing(v, k)' <=> Renewing(v, k)
    BY <1>4 DEF Renewing, AtJob, Cycle
  <1>6. \A v \in Workers : worker'[v].at = "renew" /\ invoice'[worker'[v].inv].cycle = k
           => worker[v].at = "renew" /\ Cycle(worker[v].inv) = k
    BY <1>4 DEF AtJob, Cycle
  <1>. QED  BY <1>2, <1>3, <1>5, <1>6 DEF ShownOrRecorded, Cycle

\* Steps that leave workers and record alone
LEMMA OnceKept ==
    ASSUME RenewalJobsTypeOK, Known, OnceInv, RenewalNext,
           UNCHANGED <<worker, charged, stored, hidden>>
    PROVE  OnceInv'
  <1>1. SUFFICES ASSUME NEW k \in Cycles, k \notin hidden
                 PROVE  ShownOrRecorded(k)'
    BY DEF OnceInv
  <1>2. ShownOrRecorded(k)
    BY <1>1 DEF OnceInv
  <1>4. \A v \in Workers : worker[v].at \in AtJob =>
           invoice'[worker[v].inv].cycle = Cycle(worker[v].inv)
    BY StepGrows, CyclesStay DEF Known, WorkersPaid, Cycle
  <1>5. \A v \in Workers : Renewing(v, k)' <=> Renewing(v, k)
    BY <1>4 DEF Renewing, AtJob, Cycle
  <1>6. \A v \in Workers : \A st \in AtJob :
           worker'[v].at = st /\ invoice'[worker'[v].inv].cycle = k
           <=> worker[v].at = st /\ Cycle(worker[v].inv) = k
    BY <1>4
  <1>7. "renew" \in AtJob /\ "record" \in AtJob
    BY DEF AtJob
  <1>. QED  BY <1>2, <1>5, <1>6, <1>7 DEF ShownOrRecorded, Cycle

\* Steps of a worker away from the registrar
LEMMA OnceAway ==
    ASSUME RenewalJobsTypeOK, Known, OnceInv, RenewalNext, NEW w \in Workers,
           \A v \in Workers : v # w => worker'[v] = worker[v],
           UNCHANGED <<invoice, charged, stored>>,
           worker'[w].at \notin {"renew", "record"},
           worker[w].at = "record" => Cycle(worker[w].inv) \in hidden'
    PROVE  OnceInv'
  <1>1. SUFFICES ASSUME NEW k \in Cycles, k \notin hidden'
                 PROVE  ShownOrRecorded(k)'
    BY DEF OnceInv
  <1>2. k \notin hidden /\ ShownOrRecorded(k)
    BY <1>1, StepGrows DEF Grows, OnceInv
  <1>3. charged[k] > 0 =>
           \/ stored >= Until(k)
           \/ \E v \in Workers : worker'[v].at = "record" /\ invoice'[worker'[v].inv].cycle = k
    BY <1>1, <1>2 DEF ShownOrRecorded, Cycle
  <1>4. ~Renewing(w, k)'
    BY DEF Renewing
  <1>5. worker'[w].at # "renew"
    OBVIOUS
  <1>6. StaysOnce(w, k)
    BY <1>3, <1>4, <1>5 DEF StaysOnce
  <1>. QED  BY <1>1, <1>6, OnceMeets

LEMMA OnceChecked ==
    ASSUME RenewalJobsTypeOK, Known, OnceInv, RenewalNext, NEW w \in Workers,
           NEW f \in worker[w].batch, JobCheck(w, f)
    PROVE  OnceInv'
  <1>1. SUFFICES ASSUME NEW k \in Cycles, k \notin hidden'
                 PROVE  ShownOrRecorded(k)'
    BY DEF OnceInv
  <1>2. k \notin hidden /\ ShownOrRecorded(k)
    BY <1>1, StepGrows DEF Grows, OnceInv
  <1>3. /\ \A v \in Workers : v # w => worker'[v] = worker[v]
        /\ worker[w].at = "next" /\ worker'[w].inv = f[1]
        /\ \/ worker'[w].at = "done"
           \/ worker'[w].at = "renew" /\ ~Current(Cycle(f[1]))
        /\ UNCHANGED <<invoice, charged, stored>>
    BY JobCheckDoes DEF JobCheck
  <1>4. worker'[w].at = "renew" /\ Cycle(f[1]) = k =>
           \A v \in Workers \ {w} : ~Renewing(v, k)
    BY <1>1, <1>3, JobCheckDoes
  <1>5. charged[k] > 0 =>
           \/ stored >= Until(k)
           \/ \E v \in Workers \ {w} : worker[v].at = "record" /\ Cycle(worker[v].inv) = k
    BY <1>2, <1>3 DEF ShownOrRecorded
  <1>6. worker'[w].at = "renew" /\ Cycle(f[1]) = k => ~(charged[k] > 0)
    BY <1>3, <1>4, <1>5 DEF Renewing, Current
  <1>7. worker'[w].at = "renew" /\ Cycle(f[1]) = k => charged'[k] = 0
    BY <1>3, <1>6, RecordTypes
  <1>8. Renewing(w, k)' => \A v \in Workers \ {w} : ~Renewing(v, k)
    BY <1>3, <1>4 DEF Renewing, Cycle
  <1>9. worker'[w].at = "renew" /\ invoice'[worker'[w].inv].cycle = k => charged'[k] = 0
    BY <1>3, <1>7 DEF Cycle
  <1>10. charged'[k] > 0 =>
           \/ stored' >= Until(k)
           \/ \E v \in Workers : worker'[v].at = "record" /\ invoice'[worker'[v].inv].cycle = k
    BY <1>3, <1>5 DEF Cycle
  <1>11. charged'[k] = charged[k]
    BY <1>3
  <1>12. StaysOnce(w, k)
    BY <1>3, <1>8, <1>9, <1>10, <1>11 DEF StaysOnce
  <1>. QED  BY <1>1, <1>12, OnceMeets

LEMMA OnceRenewed ==
    ASSUME RenewalJobsTypeOK, Known, OnceInv, RenewalNext, NEW w \in Workers, JobRenew(w)
    PROVE  OnceInv'
  <1>1. SUFFICES ASSUME NEW k \in Cycles, k \notin hidden'
                 PROVE  ShownOrRecorded(k)'
    BY DEF OnceInv
  <1>2. k \notin hidden /\ ShownOrRecorded(k)
    BY <1>1, StepGrows DEF Grows, OnceInv
  <1>. DEFINE kk == Cycle(worker[w].inv)
  <1>3. kk \in Cycles
    BY CyclesKnown DEF JobRenew, AtJob
  <1>4. /\ \A v \in Workers : v # w => worker'[v] = worker[v]
        /\ worker[w].at = "renew" /\ worker'[w].inv = worker[w].inv
        /\ \A l \in Cycles : l # kk => charged'[l] = charged[l]
        /\ \/ worker'[w].at = "record" /\ charged'[kk] = charged[kk] + 1
           \/ worker'[w].at = "failed" /\ charged' = charged
           \/ worker'[w].at = "failed" /\ kk \in hidden'
    BY <1>3, JobRenewDoes
  <1>5. UNCHANGED <<invoice, stored>>
    BY DEF JobRenew
  <1>6. Cycle(worker[w].inv) = invoice'[worker'[w].inv].cycle
    BY <1>4, <1>5 DEF Cycle
  <1>. HIDE DEF kk
  <1>7. CASE k = kk
    <2>1. charged[k] = 0
      BY <1>2, <1>4, <1>7 DEF ShownOrRecorded, kk
    <2>2. Renewing(w, k)
      BY <1>4, <1>7 DEF Renewing, kk
    <2>3. \A v \in Workers \ {w} : ~Renewing(v, k)
      BY <1>2, <2>2 DEF ShownOrRecorded
    <2>4. charged'[k] = charged[k] \/ charged'[k] = 1
      BY <1>1, <1>4, <1>7, <2>1
    <2>5. charged'[k] > 0 =>
             \E v \in Workers : worker'[v].at = "record" /\ invoice'[worker'[v].inv].cycle = k
      BY <1>1, <1>4, <1>6, <1>7, <2>1 DEF kk
    <2>6. worker'[w].at # "renew"
      BY <1>4
    <2>7. StaysOnce(w, k)
      BY <1>4, <2>3, <2>4, <2>5, <2>6 DEF StaysOnce
    <2>. QED  BY <1>1, <2>7, OnceMeets
  <1>8. CASE k # kk
    <2>1. charged'[k] = charged[k]
      BY <1>4, <1>8
    <2>2. ~Renewing(w, k)'
      BY <1>6, <1>8 DEF Renewing, Cycle, kk
    <2>3. charged[k] > 0 =>
             \/ stored >= Until(k)
             \/ \E v \in Workers \ {w} : worker[v].at = "record" /\ Cycle(worker[v].inv) = k
      BY <1>2, <1>4 DEF ShownOrRecorded
    <2>4. charged'[k] > 0 =>
             \/ stored' >= Until(k)
             \/ \E v \in Workers : worker'[v].at = "record" /\ invoice'[worker'[v].inv].cycle = k
      BY <1>4, <1>5, <2>1, <2>3 DEF Cycle
    <2>5. worker'[w].at # "renew"
      BY <1>4
    <2>6. StaysOnce(w, k)
      BY <1>4, <2>1, <2>2, <2>4, <2>5 DEF StaysOnce
    <2>. QED  BY <1>1, <2>6, OnceMeets
  <1>. QED  BY <1>7, <1>8

LEMMA OnceStored ==
    ASSUME RenewalJobsTypeOK, Known, OnceInv, RenewalNext, NEW w \in Workers, JobRecord(w)
    PROVE  OnceInv'
  <1>1. SUFFICES ASSUME NEW k \in Cycles, k \notin hidden'
                 PROVE  ShownOrRecorded(k)'
    BY DEF OnceInv
  <1>2. /\ \A v \in Workers : v # w => worker'[v] = worker[v]
        /\ worker'[w].at = "done" /\ worker[w].exp \in Nat /\ Record(worker[w].exp)
    BY JobRecordDoes
  <1>3. charged[k] > 0 => stored' >= Until(k)
    BY <1>1, <1>2, HidesType
  <1>4. charged' = charged
    BY DEF JobRecord
  <1>5. charged'[k] = charged[k] /\ (charged'[k] > 0 => stored' >= Until(k))
    BY <1>3, <1>4
  <1>6. ~Renewing(w, k)' /\ worker'[w].at # "renew"
    BY <1>2 DEF Renewing
  <1>7. StaysOnce(w, k)
    BY <1>2, <1>5, <1>6 DEF StaysOnce
  <1>. QED  BY <1>1, <1>7, OnceMeets

LEMMA OnceStep ==
    ASSUME RenewalJobsTypeOK, Known, OnceInv, RenewalNext
    PROVE  OnceInv'
  <1>1. ASSUME NEW w \in Workers, WorkerSteps(w)
        PROVE  OnceInv'
    <2>1. CASE JobFind(w)
      BY <2>1, JobFindDoes, OnceAway DEF JobFind
    <2>2. CASE JobLock(w)
      BY <2>2, JobLockDoes, OnceAway DEF JobLock
    <2>3. CASE JobLoad(w)
      <3>1. worker'[w].at \in {"idle", "next"}
        BY <2>3, JobLoadDoes, NoWorkType
      <3>. QED  BY <2>3, <3>1, JobLoadDoes, OnceAway DEF JobLoad
    <2>4. CASE JobSave(w)
      <3>1. worker[w].inv \in Invoices
        BY <2>4, CyclesKnown DEF JobSave, AtJob
      <3>2. /\ worker'[w].at \in {"idle", "next"} /\ worker[w].at # "record"
            /\ \A v \in Workers : v # w => worker'[v] = worker[v]
        BY <2>4, <3>1, JobSaveDoes, NoWorkType
      <3>3. UNCHANGED <<invoice, charged, stored>>
        BY <2>4 DEF JobSave
      <3>. QED  BY <3>2, <3>3, OnceAway
    <2>5. CASE WorkerDies(w)
      <3>1. /\ worker'[w].at = "idle"
            /\ worker[w].at = "record" => Cycle(worker[w].inv) \in hidden'
            /\ \A v \in Workers : v # w => worker'[v] = worker[v]
        BY <2>5, WorkerDiesDoes, NoWorkType
      <3>2. UNCHANGED <<invoice, charged, stored>>
        BY <2>5 DEF WorkerDies
      <3>. QED  BY <3>1, <3>2, OnceAway
    <2>. QED  BY <1>1, <2>1, <2>2, <2>3, <2>4, <2>5, OnceChecked, OnceRenewed, OnceStored
              DEF WorkerSteps, Working
  <1>2. ASSUME NEW i \in Invoices, JobSteps(i)
        PROVE  OnceInv'
    <2>1. CASE LockGoesStale(i) \/ RetryJob(i)
      BY <2>1, OnceKept DEF LockGoesStale, RetryJob
    <2>2. CASE MarkRenewed(i, Until(Cycle(i)))
      <3>1. Cycle(i) \in Cycles
        BY <2>2, CyclesKnown DEF MarkRenewed
      <3>2. Until(Cycle(i)) \in Nat
        BY <3>1, CycleTypes
      <3>3. Record(Until(Cycle(i))) /\ UNCHANGED <<worker, charged>>
        BY <2>2 DEF MarkRenewed
      <3>. QED  BY <3>2, <3>3, OnceRecorded
    <2>. QED  BY <1>2, <2>1, <2>2 DEF JobSteps
  <1>3. CASE OtherSteps
    <2>1. CASE StoreReading
      <3>1. reading.exp \in Nat /\ Record(reading.exp) /\ UNCHANGED <<worker, charged>>
        BY <2>1, StoreDoes DEF StoreReading
      <3>. QED  BY <3>1, OnceRecorded
    <2>2. CASE StaffRenew
      <3>1. remote + 1 \in Nat /\ Record(remote + 1) /\ UNCHANGED <<worker, charged>>
        BY <2>2, RecordTypes DEF StaffRenew
      <3>. QED  BY <3>1, OnceRecorded
    <2>3. ASSUME NEW i \in Invoices \cup {NoInvoice}, NEW e \in Reported, Ask(i, e)
          PROVE  OnceInv'
      BY <2>3, OnceKept DEF Ask
    <2>4. CASE ServiceEnds
      BY <2>4, OnceKept DEF ServiceEnds
    <2>. QED  BY <1>3, <2>1, <2>2, <2>3, <2>4 DEF OtherSteps
  <1>4. CASE UNCHANGED <<worker, charged, stored, hidden>>
    BY <1>4, OnceKept
  <1>. QED  BY <1>1, <1>2, <1>3, <1>4, StepKinds, RequestFrame, InvoiceFrame, ApplierFrame

-----------------------------------------------------------------------------
(* What the record says was told *)

\* A worker comes to record a date only from the registrar.
LEMMA RecordersRenewed ==
    ASSUME RenewalJobsTypeOK, Known, NEW w \in Workers, WorkerSteps(w),
           worker'[w].at = "record"
    PROVE  JobRenew(w)
  <1>1. ~JobFind(w) /\ ~JobLock(w) /\ ~JobRecord(w)
    BY JobFindDoes, JobLockDoes, JobRecordDoes
  <1>2. ~JobLoad(w)
    BY JobLoadDoes, NoWorkType
  <1>3. \A f \in worker[w].batch : ~JobCheck(w, f)
    BY JobCheckDoes
  <1>4. ~JobSave(w)
    <2>1. SUFFICES ASSUME JobSave(w) PROVE FALSE
      OBVIOUS
    <2>2. worker[w].inv \in Invoices
      BY <2>1, CyclesKnown DEF JobSave, AtJob
    <2>. QED  BY <2>1, <2>2, JobSaveDoes, NoWorkType
  <1>5. ~WorkerDies(w)
    BY WorkerDiesDoes, NoWorkType
  <1>. QED  BY <1>1, <1>2, <1>3, <1>4, <1>5 DEF WorkerSteps, Working

\* What was told stays told.
LEMMA ToldStays ==
    ASSUME RenewalJobsTypeOK, Grows, remote' \in Nat, NEW e \in Nat, Told(e)
    PROVE  e <= remote' \/ \E k \in spent'.guessed : e = Until(k)
  BY RecordTypes DEF Told, Grows

LEMMA RecordersTold ==
    ASSUME RenewalJobsTypeOK, Known, RecordTold, RenewalNext, NEW w \in Workers
    PROVE  worker'[w].at = "record" =>
              /\ charged'[invoice'[worker'[w].inv].cycle] > 0
              /\ worker'[w].exp <= remote' \/ \E k \in spent'.guessed : worker'[w].exp = Until(k)
  <1>0. Grows /\ remote \in Nat /\ remote' \in Nat /\ charged \in [Cycles -> Nat]
        /\ charged' \in [Cycles -> Nat] /\ spent.guessed \subseteq Cycles
    BY StepGrows, TypesStep, RecordTypes, SpentTypes DEF RenewalJobsTypeOK
  <1>1. ASSUME worker'[w] = worker[w], worker[w].at = "record"
        PROVE  /\ charged'[invoice'[worker'[w].inv].cycle] > 0
               /\ worker'[w].exp <= remote'
                     \/ \E k \in spent'.guessed : worker'[w].exp = Until(k)
    <2>1. charged[Cycle(worker[w].inv)] > 0 /\ Told(worker[w].exp)
      BY <1>1 DEF RecordTold
    <2>2. IsPaid(worker[w].inv) /\ Cycle(worker[w].inv) \in Cycles
      BY <1>1, CyclesKnown DEF Known, WorkersPaid, AtJob
    <2>3. invoice'[worker[w].inv].cycle = Cycle(worker[w].inv)
      BY <1>0, <2>2, CyclesStay DEF Cycle
    <2>4. charged'[Cycle(worker[w].inv)] > 0
      BY <1>0, <2>1, <2>2 DEF Grows
    <2>5. worker[w].exp \in Nat
      BY RecordTypes DEF WorkerStates
    <2>6. worker[w].exp <= remote' \/ \E k \in spent'.guessed : worker[w].exp = Until(k)
      BY <1>0, <2>1, <2>5, ToldStays
    <2>. QED  BY <1>1, <2>3, <2>4, <2>6
  <1>2. ASSUME JobRenew(w), worker'[w].at = "record"
        PROVE  /\ charged'[invoice'[worker'[w].inv].cycle] > 0
               /\ worker'[w].exp <= remote'
                     \/ \E k \in spent'.guessed : worker'[w].exp = Until(k)
    <2>. DEFINE kk == Cycle(worker[w].inv)
    <2>1. kk \in Cycles
      BY <1>2, CyclesKnown DEF JobRenew, AtJob
    <2>2. /\ worker'[w].inv = worker[w].inv
          /\ remote' = remote + 1 /\ charged'[kk] = charged[kk] + 1
          /\ \/ worker'[w].exp = remote'
             \/ worker'[w].exp = Until(kk) /\ kk <= remote
             \/ worker'[w].exp = Until(kk) /\ spent'.guessed = spent.guessed \cup {kk}
      BY <1>2, <2>1, JobRenewDoes
    <2>3. invoice' = invoice
      BY <1>2 DEF JobRenew
    <2>4. Until(kk) = kk + 1 /\ kk \in Nat
      BY <2>1, CycleTypes
    <2>5. charged'[kk] > 0
      BY <1>0, <2>1, <2>2
    <2>6. invoice'[worker'[w].inv].cycle = kk
      BY <2>2, <2>3 DEF Cycle
    <2>. HIDE DEF kk
    <2>7. worker'[w].exp <= remote' \/ \E k \in spent'.guessed : worker'[w].exp = Until(k)
      <3>1. CASE worker'[w].exp = remote'
        BY <1>0, <3>1
      <3>2. CASE worker'[w].exp = Until(kk) /\ kk <= remote
        BY <1>0, <2>2, <2>4, <3>2
      <3>3. CASE worker'[w].exp = Until(kk) /\ spent'.guessed = spent.guessed \cup {kk}
        BY <3>3
      <3>. QED  BY <2>2, <3>1, <3>2, <3>3
    <2>. QED  BY <2>5, <2>6, <2>7
  <1>3. worker'[w].at = "record" => worker'[w] = worker[w] \/ JobRenew(w)
    <2>1. ASSUME NEW v \in Workers, WorkerSteps(v)
          PROVE  worker'[w].at = "record" => worker'[w] = worker[w] \/ JobRenew(w)
      BY <2>1, OthersKept, RecordersRenewed
    <2>. QED  BY <2>1, StepKinds, RequestFrame, InvoiceFrame, ApplierFrame, JobFrame, OtherFrame
  <1>. QED  BY <1>1, <1>2, <1>3

LEMMA StoredTold ==
    ASSUME RenewalJobsTypeOK, Known, RecordTold, RenewalNext, Undisturbed'
    PROVE  /\ stored' <= remote' \/ \E k \in spent'.guessed : stored' = Until(k)
           /\ reading'.at = "store" => reading'.exp <= remote'
  <1>0. /\ Grows /\ remote \in Nat /\ remote' \in Nat /\ stored \in Nat
        /\ reading \in Readings
    BY StepGrows, TypesStep, RecordTypes DEF RenewalJobsTypeOK
  <1>1. Undisturbed
    BY <1>0 DEF Undisturbed, Grows
  <1>2. /\ Told(stored) /\ (reading.at = "store" => reading.exp <= remote)
        /\ reading.exp \in Nat /\ remote <= remote'
    BY <1>0, <1>1 DEF RecordTold, Readings, Grows
  <1>s. stored' = stored => stored' <= remote' \/ \E k \in spent'.guessed : stored' = Until(k)
    BY <1>0, <1>2, ToldStays
  <1>r. reading' = reading => (reading'.at = "store" => reading'.exp <= remote')
    BY <1>0, <1>2
  <1>3. ASSUME NEW w \in Workers, WorkerSteps(w)
        PROVE  /\ stored' <= remote' \/ \E k \in spent'.guessed : stored' = Until(k)
               /\ reading'.at = "store" => reading'.exp <= remote'
    <2>1. CASE JobRecord(w)
      <3>1. /\ worker[w].at = "record" /\ worker[w].exp \in Nat /\ stored' = worker[w].exp
            /\ reading' = reading
        BY <2>1, JobRecordDoes DEF JobRecord, Record
      <3>2. Told(worker[w].exp)
        BY <3>1 DEF RecordTold
      <3>. QED  BY <1>0, <1>r, <3>1, <3>2, ToldStays
    <2>2. CASE ~JobRecord(w)
      <3>1. stored' = stored /\ reading' = reading
        BY <1>3, <2>2 DEF WorkerSteps, Working, JobFind, JobLock, JobLoad, JobCheck, JobRenew,
           JobSave, WorkerDies
      <3>. QED  BY <1>s, <1>r, <3>1
    <2>. QED  BY <2>1, <2>2
  <1>4. ASSUME NEW i \in Invoices, JobSteps(i)
        PROVE  /\ stored' <= remote' \/ \E k \in spent'.guessed : stored' = Until(k)
               /\ reading'.at = "store" => reading'.exp <= remote'
    <2>1. ~MarkRenewed(i, Until(Cycle(i)))
      BY MarkDoes DEF Undisturbed
    <2>2. stored' = stored /\ reading' = reading
      BY <1>4, <2>1 DEF JobSteps, LockGoesStale, RetryJob
    <2>. QED  BY <1>s, <1>r, <2>2
  <1>5. CASE OtherSteps
    <2>1. ASSUME NEW i \in Invoices \cup {NoInvoice}, NEW e \in Reported, Ask(i, e)
          PROVE  /\ stored' = stored
                 /\ reading'.at = "store" => reading'.exp <= remote'
      <3>1. e = remote /\ reading'.exp = e
        BY <1>1, <2>1, AskDoes DEF Undisturbed
      <3>2. stored' = stored /\ remote' = remote
        BY <2>1 DEF Ask
      <3>. QED  BY <1>0, <3>1, <3>2
    <2>2. CASE StoreReading
      BY <1>0, <1>2, <2>2, StoreDoes, NullTypes DEF Record
    <2>3. CASE StaffRenew
      BY <1>0, <1>r, <2>3 DEF StaffRenew, Record
    <2>4. CASE ServiceEnds
      BY <1>s, <1>r, <2>4 DEF ServiceEnds
    <2>. QED  BY <1>s, <1>5, <2>1, <2>2, <2>3, <2>4 DEF OtherSteps
  <1>6. CASE UNCHANGED <<stored, reading>>
    BY <1>s, <1>r, <1>6
  <1>. QED  BY <1>3, <1>4, <1>5, <1>6, StepKinds, RequestFrame, InvoiceFrame, ApplierFrame

LEMMA GuessedCharged ==
    ASSUME RenewalJobsTypeOK, Known, RecordTold, RenewalNext
    PROVE  \A k \in spent'.guessed : charged'[k] > 0
  <1>0. Grows /\ charged \in [Cycles -> Nat] /\ charged' \in [Cycles -> Nat]
        /\ spent.guessed \subseteq Cycles
    BY StepGrows, TypesStep, RecordTypes, SpentTypes DEF RenewalJobsTypeOK
  <1>1. \A k \in spent.guessed : charged'[k] > 0
    BY <1>0 DEF RecordTold, Grows
  <1>2. ASSUME NEW w \in Workers, JobRenew(w)
        PROVE  \A k \in spent'.guessed : k \in spent.guessed \/ charged'[k] > 0
    <2>1. Cycle(worker[w].inv) \in Cycles
      BY <1>2, CyclesKnown DEF JobRenew, AtJob
    <2>. DEFINE kk == Cycle(worker[w].inv)
    <2>2. \/ spent'.guessed = spent.guessed
          \/ spent'.guessed = spent.guessed \cup {kk} /\ charged'[kk] = charged[kk] + 1
      BY <1>2, <2>1, JobRenewDoes, SpentTypes
    <2>. HIDE DEF kk
    <2>3. kk \in Cycles
      BY <2>1 DEF kk
    <2>. QED  BY <1>0, <2>2, <2>3
  <1>3. ASSUME NEW w \in Workers, WorkerSteps(w), ~JobRenew(w)
        PROVE  Mishap \/ Repair \/ spent' = spent
    BY <1>3 DEF WorkerSteps, Working, JobFind, Overlap, JobLock, JobLoad, JobCheck, JobRecord,
       JobSave, WorkerDies
  <1>4. ASSUME NEW c \in Clients, RequestSteps(c)
        PROVE  Mishap \/ Repair \/ spent' = spent
    BY <1>4 DEF RequestSteps, RequestRead, RequestInvoice, RequestLedger, RequesterDies
  <1>5. ASSUME NEW i \in Invoices, InvoiceSteps(i)
        PROVE  Mishap \/ Repair \/ spent' = spent
    BY <1>5 DEF InvoiceSteps, Pay, CancelInvoice, AppliedAgain
  <1>6. ASSUME NEW h \in Payments, ApplierSteps(h)
        PROVE  Mishap \/ Repair \/ spent' = spent
    BY <1>6 DEF ApplierSteps, ApplyRead, ApplyAdvance, ApplyQueue, ApplierDies
  <1>7. ASSUME NEW i \in Invoices, JobSteps(i)
        PROVE  Mishap \/ Repair \/ spent' = spent
    BY <1>7 DEF JobSteps, LockGoesStale, RetryJob, MarkRenewed
  <1>8. CASE OtherSteps
    <2>1. Mishap \/ Repair \/ spent' = spent
      BY <1>8 DEF OtherSteps, Ask, StoreReading, StaffRenew, ServiceEnds
    <2>. QED  BY <1>1, <2>1, SpentTypes
  <1>9. (Mishap \/ Repair \/ spent' = spent) => spent'.guessed = spent.guessed
    BY SpentTypes
  <1>. QED  BY <1>1, <1>2, <1>3, <1>4, <1>5, <1>6, <1>7, <1>8, <1>9, StepKinds

LEMMA RecordToldStep ==
    ASSUME RenewalJobsTypeOK, Known, RecordTold, RenewalNext
    PROVE  RecordTold'
  BY GuessedCharged, RecordersTold, StoredTold DEF RecordTold, Told, Cycle

-----------------------------------------------------------------------------
(* No request is lost *)

LEMMA EntryIsNew ==
    ASSUME NEW e \in Entries, e.inv \in Invoices \/ e.paid \in Invoices
    PROVE  e # NoEntry
  BY NullTypes

\* An entry of the ledger stays one.
LEMMA LedgerStays ==
    ASSUME RenewalJobsTypeOK, Known, RenewalNext, NEW k \in Cycles, ledger[k] # NoEntry
    PROVE  ledger'[k] # NoEntry
  <1>0. ledger' \in [Cycles -> Entries]
    BY TypesStep, RecordTypes DEF RenewalJobsTypeOK, Entries, Ids
  <1>1. ASSUME NEW c \in Clients, RequestSteps(c)
        PROVE  ledger'[k] # NoEntry
    <2>1. CASE RequestLedger(c)
      <3>1. request[c].inv \in Invoices
        BY <2>1 DEF RequestLedger, Known, RequestsKnown
      <3>2. ledger'[k] = ledger[k] \/ ledger'[k].inv = request[c].inv
        BY <2>1, RequestLedgerDoes
      <3>3. ledger'[k] \in Entries
        BY <1>0
      <3>. QED  BY <3>1, <3>2, <3>3, EntryIsNew
    <2>2. CASE ~RequestLedger(c)
      BY <1>1, <2>2 DEF RequestSteps, RequestRead, RequestInvoice, RequesterDies
    <2>. QED  BY <2>1, <2>2
  <1>2. ASSUME NEW h \in Payments, ApplierSteps(h)
        PROVE  ledger'[k] # NoEntry
    <2>1. CASE ApplyAdvance(h)
      <3>1. applier[h].inv \in Invoices
        BY <2>1, CyclesKnown DEF ApplyAdvance
      <3>2. ledger'[k] = ledger[k] \/ ledger'[k].paid = applier[h].inv
        BY <2>1, <3>1, ApplyAdvanceDoes
      <3>3. ledger'[k] \in Entries
        BY <1>0
      <3>. QED  BY <3>1, <3>2, <3>3, EntryIsNew
    <2>2. CASE ~ApplyAdvance(h)
      BY <1>2, <2>2 DEF ApplierSteps, ApplyRead, ApplyQueue, ApplierDies
    <2>. QED  BY <2>1, <2>2
  <1>3. CASE ledger' = ledger
    BY <1>3
  <1>. QED  BY <1>1, <1>2, <1>3, StepKinds, InvoiceFrame, WorkerFrame, JobFrame, OtherFrame

\* A request that ends has entered its invoice.
LEMMA RequestEntered ==
    ASSUME RenewalJobsTypeOK, Known, NEW c \in Clients, RequestLedger(c)
    PROVE  /\ request[c].inv \in Invoices /\ Cycle(request[c].inv) = request[c].cycle
           /\ request[c].cycle \in Cycles
           /\ ledger'[request[c].cycle] # NoEntry
  <1>1. /\ request[c].inv \in Invoices /\ Cycle(request[c].inv) = request[c].cycle
        /\ request[c].cycle \in Cycles
    BY DEF RequestLedger, Known, RequestsKnown
  <1>2. /\ ledger' \in [Cycles -> Entries]
        /\ \/ ledger'[request[c].cycle] = ledger[request[c].cycle]
              /\ ledger[request[c].cycle] # NoEntry
           \/ ledger'[request[c].cycle].inv = request[c].inv
    BY <1>1, RequestLedgerDoes
  <1>3. ledger'[request[c].cycle] \in Entries
    BY <1>1, <1>2
  <1>. QED  BY <1>1, <1>2, <1>3, EntryIsNew

LedgerParts ==
    /\ \A c \in Clients : request[c].had => ledger[request[c].cycle] # NoEntry
    /\ \A i \in Invoices : invoice[i].status # "none" =>
          \/ ledger[Cycle(i)] # NoEntry
          \/ \E c \in Clients : request[c].at = "ledger" /\ request[c].inv = i
    /\ \A i \in Invoices : invoice[i].status = "paid" => ledger[Cycle(i)] # NoEntry
    /\ \A h \in Payments : applier[h].at # "idle" => applier[h].had

LEMMA LedgerPartsStep ==
    ASSUME RenewalJobsTypeOK, Known, LedgerParts, RenewalNext, spent'.mishaps = 0
    PROVE  LedgerParts'
  <1>0. /\ Grows /\ spent.mishaps \in Nat /\ RequestsKnown /\ InvoicesKnown /\ AppliersPaid
    BY StepGrows, SpentTypes DEF Known
  <1>m. ~Mishap
    BY <1>0, SpentTypes
  <1>l. \A k \in Cycles : ledger[k] # NoEntry => ledger'[k] # NoEntry
    BY LedgerStays
  <1>i. \A i \in Invoices : invoice[i].status # "none" =>
           Cycle(i) \in Cycles /\ invoice'[i].cycle = Cycle(i)
    BY <1>0 DEF InvoicesKnown, Grows, Cycle
  <1>1. ASSUME NEW c \in Clients, RequestSteps(c)
        PROVE  LedgerParts'
    <2>0. applier' = applier
      BY <1>1, RequestFrame
    <2>1. CASE RequestRead(c)
      <3>1. invoice' = invoice /\ ledger' = ledger
        BY <2>1 DEF RequestRead
      <3>2. /\ \A d \in Clients : d # c => request'[d] = request[d]
            /\ request'[c].cycle = due /\ request'[c].had = (ledger[due] # NoEntry)
            /\ request[c].at = "idle"
        BY <2>1, RequestReadDoes
      <3>3. \A d \in Clients : request'[d].had => ledger'[request'[d].cycle] # NoEntry
        BY <3>1, <3>2 DEF LedgerParts
      <3>4. \A i \in Invoices : \A d \in Clients :
               request[d].at = "ledger" /\ request[d].inv = i =>
               request'[d].at = "ledger" /\ request'[d].inv = i
        BY <3>2
      <3>. QED  BY <2>0, <3>1, <3>3, <3>4 DEF LedgerParts, Cycle
    <2>2. ASSUME NEW j \in Invoices, RequestInvoice(c, j)
          PROVE  LedgerParts'
      <3>1. ledger' = ledger
        BY <2>2 DEF RequestInvoice
      <3>2. /\ \A d \in Clients : d # c => request'[d] = request[d]
            /\ request'[c].at = "ledger" /\ request'[c].inv = j
            /\ request'[c].cycle = request[c].cycle /\ request'[c].had = request[c].had
            /\ \A i \in Invoices : i # j => invoice'[i] = invoice[i]
            /\ invoice'[j].status = "unpaid" /\ request[c].at = "create"
        BY <2>2, RequestInvoiceDoes
      <3>3. \A d \in Clients : request'[d].had => ledger'[request'[d].cycle] # NoEntry
        BY <3>1, <3>2 DEF LedgerParts
      <3>4. \A i \in Invoices : invoice'[i].status # "none" =>
               \/ ledger'[invoice'[i].cycle] # NoEntry
               \/ \E d \in Clients : request'[d].at = "ledger" /\ request'[d].inv = i
        BY <3>1, <3>2 DEF LedgerParts, Cycle
      <3>5. \A i \in Invoices : invoice'[i].status = "paid" => ledger'[invoice'[i].cycle] # NoEntry
        BY <3>1, <3>2 DEF LedgerParts, Cycle
      <3>. QED  BY <2>0, <3>3, <3>4, <3>5 DEF LedgerParts, Cycle
    <2>3. CASE RequestLedger(c)
      <3>1. invoice' = invoice
        BY <2>3 DEF RequestLedger
      <3>2. /\ request' = [request EXCEPT ![c] = NoRequest]
            /\ request \in [Clients -> RequestStates]
        BY <2>3, RequestLedgerDoes, RecordTypes
      <3>3. /\ \A d \in Clients : d # c => request'[d] = request[d]
            /\ ~request'[c].had
        BY <3>2, NullTypes
      <3>4. /\ Cycle(request[c].inv) \in Cycles
            /\ ledger'[Cycle(request[c].inv)] # NoEntry
        BY <2>3, RequestEntered
      <3>5. \A d \in Clients : request'[d].had => ledger'[request'[d].cycle] # NoEntry
        <4>1. ASSUME NEW d \in Clients, request'[d].had
              PROVE  ledger'[request'[d].cycle] # NoEntry
          <5>1. request'[d] = request[d]
            BY <3>3, <4>1
          <5>2. ledger[request[d].cycle] # NoEntry
            BY <4>1, <5>1 DEF LedgerParts
          <5>3. request[d].cycle \in Cycles
            BY <1>0, <4>1, <5>1 DEF RequestsKnown
          <5>. QED  BY <1>l, <5>1, <5>2, <5>3
        <4>. QED  BY <4>1
      <3>6. \A i \in Invoices : invoice[i].status # "none" =>
               \/ ledger'[Cycle(i)] # NoEntry
               \/ \E d \in Clients : request'[d].at = "ledger" /\ request'[d].inv = i
        BY <1>i, <1>l, <3>3, <3>4 DEF LedgerParts
      <3>7. \A i \in Invoices : invoice[i].status = "paid" => ledger'[Cycle(i)] # NoEntry
        BY <1>i, <1>l DEF LedgerParts
      <3>. QED  BY <2>0, <3>1, <3>5, <3>6, <3>7 DEF LedgerParts, Cycle
    <2>4. ~RequesterDies(c)
      BY <1>m DEF RequesterDies
    <2>. QED  BY <1>1, <2>1, <2>2, <2>3, <2>4 DEF RequestSteps
  <1>2. ASSUME NEW i \in Invoices, InvoiceSteps(i)
        PROVE  LedgerParts'
    <2>1. UNCHANGED <<ledger, request, applier>>
      BY <1>2, InvoiceFrame
    <2>2. \A j \in Invoices : /\ invoice'[j].cycle = invoice[j].cycle
                              /\ invoice'[j].status # "none" => invoice[j].status # "none"
      BY <1>2, InvoiceStepsDo DEF InvoiceSteps, AppliedAgain
    <2>3. \A j \in Invoices : invoice'[j].status = "paid" =>
             \/ invoice[j].status = "paid"
             \/ /\ invoice[j].status # "none"
                /\ \A c \in Clients : request[c].inv # j
      BY <1>2, InvoiceStepsDo DEF InvoiceSteps, Pay, AppliedAgain
    <2>. QED  BY <2>1, <2>2, <2>3 DEF LedgerParts, Cycle
  <1>3. ASSUME NEW h \in Payments, ApplierSteps(h)
        PROVE  LedgerParts'
    <2>1. UNCHANGED <<invoice, request>>
      BY <1>3, ApplierFrame
    <2>2. \A g \in Payments : applier'[g].at # "idle" => applier'[g].had
      <3>1. ASSUME NEW i \in Invoices, ApplyRead(h, i)
            PROVE  \A g \in Payments : applier'[g].at # "idle" => applier'[g].had
        <4>1. ledger[Cycle(i)] # NoEntry
          BY <1>0, <3>1 DEF ApplyRead, AppliersPaid, IsPaid, LedgerParts
        <4>. QED  BY <3>1, <4>1, ApplyReadDoes DEF LedgerParts
      <3>2. CASE ApplyAdvance(h)
        <4>1. applier[h].inv \in Invoices
          BY <3>2, CyclesKnown DEF ApplyAdvance
        <4>. QED  BY <3>2, <4>1, ApplyAdvanceDoes, NullTypes DEF LedgerParts
      <3>3. CASE ApplyQueue(h)
        <4>1. applier' = [applier EXCEPT ![h] = NoApplier]
          BY <3>3 DEF ApplyQueue
        <4>. QED  BY <4>1, NullTypes, RecordTypes DEF LedgerParts
      <3>4. ~ApplierDies(h)
        BY <1>m DEF ApplierDies
      <3>. QED  BY <1>3, <3>1, <3>2, <3>3, <3>4 DEF ApplierSteps
    <2>3. \A i \in Invoices : invoice[i].status # "none" /\ ledger[Cycle(i)] # NoEntry =>
             ledger'[Cycle(i)] # NoEntry
      BY <1>i, <1>l
    <2>4. \A c \in Clients : request[c].had => request[c].cycle \in Cycles
      BY <1>0 DEF RequestsKnown
    <2>. QED  BY <1>l, <2>1, <2>2, <2>3, <2>4 DEF LedgerParts, Cycle
  <1>4. CASE UNCHANGED <<ledger, invoice, request, applier>>
    BY <1>4 DEF LedgerParts, Cycle
  <1>. QED  BY <1>1, <1>2, <1>3, <1>4, StepKinds, WorkerFrame, JobFrame, OtherFrame

LEMMA LedgerKeptStep ==
    ASSUME RenewalJobsTypeOK, Known, LedgerKept, RenewalNext
    PROVE  LedgerKept'
  <1>1. spent'.mishaps = 0 => spent.mishaps = 0
    BY StepGrows, SpentTypes DEF Grows
  <1>. QED  BY <1>1, LedgerPartsStep DEF LedgerKept, LedgerParts

-----------------------------------------------------------------------------
(* One worker at a time *)

LEMMA QuietBefore ==
    ASSUME RenewalJobsTypeOK, Known, RenewalNext, Quiet'
    PROVE  /\ Quiet /\ ~Mishap /\ manual = {} /\ manual' = {}
           /\ \A i \in Invoices : ~RetryJob(i) /\ \A e : ~MarkRenewed(i, e)
           /\ \A h \in Payments : ~ApplierDies(h)
           /\ \A w \in Workers : ~WorkerDies(w)
  <1>1. Grows /\ spent.mishaps \in Nat
    BY StepGrows, SpentTypes
  <1>2. registrar' = "dynadot" /\ manual' = {} /\ spent'.mishaps = 0 /\ ~ended'
    BY DEF Quiet, Undisturbed
  <1>3. Quiet /\ manual = {}
    BY <1>1, <1>2 DEF Grows, Quiet, Undisturbed
  <1>4. ~Mishap
    BY <1>1, <1>2, SpentTypes
  <1>5. \A i \in Invoices : ~RetryJob(i) /\ \A e : ~MarkRenewed(i, e)
    BY <1>2 DEF RetryJob, MarkRenewed
  <1>6. \A h \in Payments : ~ApplierDies(h)
    BY <1>4 DEF ApplierDies
  <1>7. \A w \in Workers : ~WorkerDies(w)
    BY <1>4 DEF WorkerDies
  <1>. QED  BY <1>2, <1>3, <1>4, <1>5, <1>6, <1>7

HandsOK ==
    /\ Alone
    /\ \A w \in Workers : WorkAsLoaded(w)
    /\ \A i \in Invoices : InHand(i)

\* What the one worker leaves: the others stay idle.
LEMMA HandsMeet ==
    ASSUME NEW w \in Workers,
           \A v \in Workers : v # w => worker'[v] = NoWork,
           WorkAsLoaded(w)', \A i \in Invoices : InHand(i)'
    PROVE  HandsOK'
  <1>1. Alone'
    BY DEF Alone
  <1>2. \A v \in Workers : v # w => worker'[v].at = "idle"
    BY NoWorkType
  <1>3. ASSUME NEW v \in Workers
        PROVE  WorkAsLoaded(v)'
    BY <1>2 DEF WorkAsLoaded
  <1>. QED  BY <1>1, <1>3 DEF HandsOK

LEMMA HoldersWork ==
    ASSUME NEW w, NEW i, Holding(w, i)
    PROVE  worker[w] # NoWork
  BY NoWorkType DEF Holding, AtJob

\* With one at work, the others are idle and whatever is RUNNING is its own.
LEMMA OneAtWork ==
    ASSUME HandsOK, NEW w \in Workers, worker[w].at # "idle"
    PROVE  /\ \A v \in Workers : v # w => worker[v] = NoWork
           /\ \A i \in Invoices : job[i].status = "RUNNING" =>
                 ~job[i].stale /\ job[i].owner = w /\ Holding(w, i)
  <1>1. worker[w] # NoWork
    BY NoWorkType
  <1>2. \A v \in Workers : v # w => worker[v] = NoWork
    BY <1>1 DEF HandsOK, Alone
  <1>3. ASSUME NEW i \in Invoices, job[i].status = "RUNNING"
        PROVE  ~job[i].stale /\ job[i].owner = w /\ Holding(w, i)
    <2>1. PICK v \in Workers : job[i].owner = v /\ Holding(v, i)
      BY <1>3 DEF HandsOK, InHand
    <2>2. v = w
      BY <1>2, <2>1, HoldersWork
    <2>. QED  BY <1>3, <2>1, <2>2 DEF HandsOK, InHand
  <1>. QED  BY <1>2, <1>3

LEMMA HandsFind ==
    ASSUME RenewalJobsTypeOK, Known, HandsOK, NEW w \in Workers, JobFind(w),
           ~Mishap, manual = {}
    PROVE  HandsOK'
  <1>1. \A v \in Workers : worker[v] = NoWork
    BY JobFindDoes
  <1>2. /\ \A v \in Workers : v # w => worker'[v] = NoWork
        /\ worker'[w].at = "lock"
    BY <1>1, JobFindDoes
  <1>3. \A i \in Invoices : job[i].status # "RUNNING"
    BY <1>1, HoldersWork DEF HandsOK, InHand
  <1>4. job' = job
    BY DEF JobFind
  <1>5. \A i \in Invoices : InHand(i)'
    BY <1>3, <1>4 DEF HandsOK, InHand
  <1>6. WorkAsLoaded(w)'
    BY <1>2 DEF WorkAsLoaded
  <1>. QED  BY <1>2, <1>5, <1>6, HandsMeet

LEMMA HandsLock ==
    ASSUME RenewalJobsTypeOK, Known, HandsOK, NEW w \in Workers, JobLock(w)
    PROVE  HandsOK'
  <1>1. /\ worker[w].at = "lock" /\ worker'[w].at = "load"
        /\ \A v \in Workers : v # w => worker'[v] = worker[v]
    BY JobLockDoes, ZenonT(60)
  <1>2. /\ \A v \in Workers : v # w => worker[v] = NoWork
        /\ \A i \in Invoices : job[i].status = "RUNNING" => Holding(w, i)
    BY <1>1, OneAtWork
  <1>3. \A i \in Invoices : job[i].status # "RUNNING"
    BY <1>1, <1>2 DEF Holding, AtJob
  <1>4. \A i \in Invoices :
           \/ job'[i] = job[i]
           \/ job'[i].status = "RUNNING" /\ job'[i].owner = w /\ job'[i].stale = FALSE
    BY JobLockLocks
  <1>5. \A i \in Invoices : Holding(w, i)'
    BY <1>1 DEF Holding
  <1>6. ASSUME NEW i \in Invoices
        PROVE  InHand(i)'
    <2>1. CASE job'[i] = job[i]
      BY <1>3, <2>1 DEF HandsOK, InHand
    <2>2. CASE job'[i].status = "RUNNING" /\ job'[i].owner = w /\ job'[i].stale = FALSE
      BY <1>5, <2>2 DEF InHand
    <2>. QED  BY <1>4, <2>1, <2>2
  <1>7. WorkAsLoaded(w)'
    BY <1>1 DEF WorkAsLoaded
  <1>8. \A v \in Workers : v # w => worker'[v] = NoWork
    BY <1>1, <1>2
  <1>. QED  BY <1>6, <1>7, <1>8, HandsMeet

LEMMA HandsLoad ==
    ASSUME RenewalJobsTypeOK, Known, HandsOK, NEW w \in Workers, JobLoad(w)
    PROVE  HandsOK'
  <1>1. /\ worker[w].at = "load"
        /\ \A v \in Workers : v # w => worker'[v] = worker[v]
    BY JobLoadDoes
  <1>2. /\ \A v \in Workers : v # w => worker[v] = NoWork
        /\ \A i \in Invoices : job[i].status = "RUNNING" =>
              ~job[i].stale /\ job[i].owner = w
    BY <1>1, OneAtWork
  <1>3. job' = job
    BY DEF JobLoad
  <1>4. \A v \in Workers : v # w => worker'[v] = NoWork
    BY <1>1, <1>2
  <1>5. \A i \in Invoices : job[i].owner = w => job[i].status = "RUNNING"
    BY DEF Known, JobsPaid
  <1>6. CASE worker'[w] = NoWork /\ \A i \in Invoices : job[i].owner # w
    <2>1. WorkAsLoaded(w)'
      BY <1>6, NoWorkType DEF WorkAsLoaded
    <2>2. \A i \in Invoices : InHand(i)'
      BY <1>2, <1>3, <1>6 DEF HandsOK, InHand
    <2>. QED  BY <1>4, <2>1, <2>2, HandsMeet
  <1>7. CASE /\ worker'[w].at = "next"
             /\ \A f \in worker'[w].batch :
                   f[1] \in Invoices /\ job[f[1]].owner = w /\ f[2] = job[f[1]].attempts
             /\ \A i \in Invoices : job[i].owner = w => \E f \in worker'[w].batch : f[1] = i
    <2>1. \A f \in worker'[w].batch : job[f[1]].status = "RUNNING" /\ job[f[1]].attempts = f[2]
      BY <1>5, <1>7
    <2>2. WorkAsLoaded(w)'
      BY <1>3, <1>7, <2>1 DEF WorkAsLoaded, AsLoaded, AtJob
    <2>3. ASSUME NEW i \in Invoices
          PROVE  InHand(i)'
      <3>1. job[i].status = "RUNNING" => Holding(w, i)'
        BY <1>2, <1>7 DEF Holding
      <3>. QED  BY <1>2, <1>3, <3>1 DEF HandsOK, InHand
    <2>. QED  BY <1>4, <2>2, <2>3, HandsMeet
  <1>. QED  BY <1>6, <1>7, JobLoadDoes

LEMMA HandsCheck ==
    ASSUME RenewalJobsTypeOK, Known, HandsOK, NEW w \in Workers,
           NEW f \in worker[w].batch, JobCheck(w, f)
    PROVE  HandsOK'
  <1>1. /\ worker[w].at = "next" /\ worker'[w].at \in {"done", "renew"}
        /\ \A v \in Workers : v # w => worker'[v] = worker[v]
        /\ worker'[w].batch = worker[w].batch \ {f}
        /\ f[1] \in Invoices /\ worker'[w].inv = f[1] /\ worker'[w].n = f[2]
    BY JobCheckDoes
  <1>2. /\ \A v \in Workers : v # w => worker[v] = NoWork
        /\ \A i \in Invoices : job[i].status = "RUNNING" =>
              ~job[i].stale /\ job[i].owner = w /\ Holding(w, i)
    BY <1>1, OneAtWork
  <1>3. job' = job
    BY DEF JobCheck
  <1>4. \A g \in worker[w].batch : AsLoaded(g[1], g[2])
    BY <1>1 DEF HandsOK, WorkAsLoaded
  <1>5. \A g \in worker[w].batch : g \in Invoices \X Nat
    BY RecordTypes DEF WorkerStates
  <1>6. ASSUME NEW g \in worker[w].batch, g[1] = f[1]
        PROVE  g = f
    <2>1. g[2] = job[g[1]].attempts /\ f[2] = job[f[1]].attempts
      BY <1>4 DEF AsLoaded
    <2>2. g = <<g[1], g[2]>> /\ f = <<f[1], f[2]>>
      BY <1>5
    <2>. QED  BY <1>6, <2>1, <2>2
  <1>7. WorkAsLoaded(w)'
    <2>1. \A g \in worker'[w].batch : AsLoaded(g[1], g[2]) /\ g[1] # f[1]
      BY <1>1, <1>4, <1>6
    <2>2. AsLoaded(worker'[w].inv, worker'[w].n)
      BY <1>1, <1>4
    <2>. QED  BY <1>1, <1>3, <2>1, <2>2 DEF WorkAsLoaded, AsLoaded
  <1>8. ASSUME NEW i \in Invoices
        PROVE  InHand(i)'
    <2>1. ASSUME job[i].status = "RUNNING"
          PROVE  Holding(w, i)'
      <3>1. PICK g \in worker[w].batch : g[1] = i
        BY <1>1, <1>2, <2>1 DEF Holding, AtJob
      <3>2. CASE g = f
        BY <1>1, <3>1, <3>2 DEF Holding, AtJob
      <3>3. CASE g # f
        BY <1>1, <3>1, <3>3 DEF Holding
      <3>. QED  BY <3>2, <3>3
    <2>. QED  BY <1>2, <1>3, <2>1 DEF HandsOK, InHand
  <1>9. \A v \in Workers : v # w => worker'[v] = NoWork
    BY <1>1, <1>2
  <1>. QED  BY <1>7, <1>8, <1>9, HandsMeet

\* At the registrar and at the record, a worker keeps its job.
LEMMA HandsAtJob ==
    ASSUME RenewalJobsTypeOK, Known, HandsOK, NEW w \in Workers, JobRenew(w) \/ JobRecord(w)
    PROVE  HandsOK'
  <1>1. /\ worker[w].at \in AtJob /\ worker'[w].at \in AtJob
        /\ \A v \in Workers : v # w => worker'[v] = worker[v]
        /\ worker'[w].batch = worker[w].batch
        /\ worker'[w].inv = worker[w].inv /\ worker'[w].n = worker[w].n
    <2>1. CASE JobRenew(w)
      <3>1. Cycle(worker[w].inv) \in Cycles
        BY <2>1, CyclesKnown DEF JobRenew, AtJob
      <3>2. /\ worker[w].at = "renew" /\ worker'[w].at \in {"record", "failed"}
            /\ \A v \in Workers : v # w => worker'[v] = worker[v]
            /\ worker'[w].batch = worker[w].batch
            /\ worker'[w].inv = worker[w].inv /\ worker'[w].n = worker[w].n
        BY <2>1, <3>1, JobRenewDoes
      <3>. QED  BY <3>2 DEF AtJob
    <2>2. CASE JobRecord(w)
      BY <2>2, JobRecordDoes DEF AtJob
    <2>. QED  BY <2>1, <2>2
  <1>2. worker[w].at # "idle"
    BY <1>1 DEF AtJob
  <1>3. /\ \A v \in Workers : v # w => worker[v] = NoWork
        /\ \A i \in Invoices : job[i].status = "RUNNING" =>
              ~job[i].stale /\ job[i].owner = w /\ Holding(w, i)
    BY <1>2, OneAtWork
  <1>4. job' = job
    BY DEF JobRenew, JobRecord
  <1>5. WorkAsLoaded(w)'
    <2>1. /\ \A g \in worker[w].batch : AsLoaded(g[1], g[2]) /\ g[1] # worker[w].inv
          /\ AsLoaded(worker[w].inv, worker[w].n)
      BY <1>1 DEF HandsOK, WorkAsLoaded, AtJob
    <2>. QED  BY <1>1, <1>4, <2>1 DEF WorkAsLoaded, AsLoaded
  <1>6. ASSUME NEW i \in Invoices
        PROVE  InHand(i)'
    <2>1. job[i].status = "RUNNING" => Holding(w, i)'
      BY <1>1, <1>3 DEF Holding, AtJob
    <2>. QED  BY <1>3, <1>4, <2>1 DEF HandsOK, InHand
  <1>7. \A v \in Workers : v # w => worker'[v] = NoWork
    BY <1>1, <1>3
  <1>. QED  BY <1>5, <1>6, <1>7, HandsMeet

LEMMA HandsSave ==
    ASSUME RenewalJobsTypeOK, Known, HandsOK, NEW w \in Workers, JobSave(w)
    PROVE  HandsOK'
  <1>. DEFINE i == worker[w].inv
  <1>1. i \in Invoices
    BY CyclesKnown DEF JobSave, AtJob
  <1>2. /\ worker[w].at \in {"done", "failed"}
        /\ \A v \in Workers : v # w => worker'[v] = worker[v]
        /\ \/ worker[w].batch = {} /\ worker'[w] = NoWork
           \/ worker'[w].at = "next" /\ worker'[w].batch = worker[w].batch
        /\ \A j \in Invoices : j # i => job'[j] = job[j]
        /\ job'[i].attempts = job[i].attempts
        /\ \/ job'[i].status \in {"SUCCESS", "FAILED"}
           \/ worker[w].n < MaxAttempts /\ job'[i].status = "QUEUED"
    BY <1>1, JobSaveDoes
  <1>3. /\ \A v \in Workers : v # w => worker[v] = NoWork
        /\ \A j \in Invoices : job[j].status = "RUNNING" =>
              ~job[j].stale /\ job[j].owner = w /\ Holding(w, j)
    BY <1>2, OneAtWork
  <1>4. /\ \A g \in worker[w].batch : AsLoaded(g[1], g[2]) /\ g[1] # i
        /\ AsLoaded(i, worker[w].n)
    BY <1>2 DEF HandsOK, WorkAsLoaded, AtJob
  <1>5. \A g \in worker[w].batch : g[1] \in Invoices
    BY RecordTypes DEF WorkerStates
  <1>. HIDE DEF i
  <1>6. WorkAsLoaded(w)'
    <2>1. CASE worker'[w] = NoWork
      BY <2>1, NoWorkType DEF WorkAsLoaded
    <2>2. CASE worker'[w].at = "next" /\ worker'[w].batch = worker[w].batch
      <3>1. \A g \in worker'[w].batch :
               job'[g[1]].status \in {"RUNNING", "SUCCESS"} /\ job'[g[1]].attempts = g[2]
        BY <1>2, <1>4, <1>5, <2>2 DEF AsLoaded
      <3>. QED  BY <2>2, <3>1 DEF WorkAsLoaded, AsLoaded, AtJob
    <2>. QED  BY <1>2, <2>1, <2>2
  <1>7. ASSUME NEW j \in Invoices
        PROVE  InHand(j)'
    <2>1. CASE j = i
      BY <1>2, <1>4, <2>1 DEF InHand, AsLoaded
    <2>2. CASE j # i
      <3>1. job'[j] = job[j]
        BY <1>2, <2>2
      <3>2. ASSUME job[j].status = "RUNNING"
            PROVE  Holding(w, j)'
        <4>1. \E g \in worker[w].batch : g[1] = j
          BY <1>2, <1>3, <2>2, <3>2 DEF Holding, AtJob, i
        <4>2. worker'[w].at = "next" /\ worker'[w].batch = worker[w].batch
          BY <1>2, <4>1
        <4>. QED  BY <4>1, <4>2 DEF Holding
      <3>. QED  BY <1>3, <3>1, <3>2 DEF HandsOK, InHand
    <2>. QED  BY <2>1, <2>2
  <1>8. \A v \in Workers : v # w => worker'[v] = NoWork
    BY <1>2, <1>3
  <1>. QED  BY <1>6, <1>7, <1>8, HandsMeet

\* Steps of others leave the jobs in hand as they are, or end them.
LEMMA HandsKept ==
    ASSUME RenewalJobsTypeOK, Known, HandsOK, worker' = worker,
           \A j \in Invoices :
              \/ job'[j] = job[j]
              \/ job'[j].status = "SUCCESS" /\ job'[j].attempts = job[j].attempts
              \/ /\ job[j].status \in {"none", "FAILED"}
                 /\ job'[j].status = "QUEUED" /\ job'[j].attempts < MaxAttempts
    PROVE  HandsOK'
  <1>1. Alone'
    BY DEF HandsOK, Alone
  <1>2. \A j \in Invoices, n \in Nat : AsLoaded(j, n) => AsLoaded(j, n)'
    BY DEF AsLoaded
  <1>3. ASSUME NEW w \in Workers
        PROVE  WorkAsLoaded(w)'
    <2>1. /\ \A f \in worker[w].batch : f[1] \in Invoices /\ f[2] \in Nat
          /\ worker[w].at \in AtJob => worker[w].inv \in Invoices
          /\ worker[w].n \in Nat
      BY CyclesKnown, RecordTypes DEF WorkerStates
    <2>2. WorkAsLoaded(w)
      BY DEF HandsOK
    <2>. QED  BY <1>2, <2>1, <2>2 DEF WorkAsLoaded, AsLoaded
  <1>4. ASSUME NEW i \in Invoices
        PROVE  InHand(i)'
    BY DEF HandsOK, InHand, Holding
  <1>. QED  BY <1>1, <1>3, <1>4 DEF HandsOK

LEMMA HandsStep ==
    ASSUME RenewalJobsTypeOK, Known, HandsOK, RenewalNext, Quiet'
    PROVE  HandsOK'
  <1>0. /\ ~Mishap /\ manual = {}
        /\ \A i \in Invoices : ~RetryJob(i) /\ ~MarkRenewed(i, Until(Cycle(i)))
        /\ \A w \in Workers : ~WorkerDies(w)
    BY QuietBefore
  <1>1. ASSUME NEW w \in Workers, WorkerSteps(w)
        PROVE  HandsOK'
    BY <1>0, <1>1, HandsFind, HandsLock, HandsLoad, HandsCheck, HandsAtJob, HandsSave
    DEF WorkerSteps, Working
  <1>2. ASSUME NEW h \in Payments, ApplierSteps(h)
        PROVE  HandsOK'
    <2>1. worker' = worker
      BY <1>2, ApplierFrame
    <2>2. CASE ApplyQueue(h)
      <3>1. applier[h].inv \in Invoices
        BY <2>2, CyclesKnown DEF ApplyQueue
      <3>2. 0 < MaxAttempts
        OBVIOUS
      <3>. QED  BY <2>1, <2>2, <3>1, <3>2, ApplyQueueDoes, HandsKept
    <2>3. CASE ~ApplyQueue(h)
      <3>1. job' = job
        BY <1>2, <2>3 DEF ApplierSteps, ApplyRead, ApplyAdvance, ApplierDies
      <3>. QED  BY <2>1, <3>1, HandsKept
    <2>. QED  BY <2>2, <2>3
  <1>3. ASSUME NEW i \in Invoices, JobSteps(i)
        PROVE  HandsOK'
    <2>1. LockGoesStale(i)
      BY <1>0, <1>3 DEF JobSteps
    <2>2. job[i].status = "RUNNING" /\ ~Holds(i)
      BY <1>0, <2>1, StaleDoes
    <2>3. PICK w \in Workers : job[i].owner = w /\ Holding(w, i)
      BY <2>2 DEF HandsOK, InHand
    <2>4. worker[w].at # "idle"
      BY <2>3, HoldersWork DEF Known, WorkersPaid
    <2>. QED  BY <2>2, <2>3, <2>4 DEF Holds
  <1>4. CASE OtherSteps
    <2>1. worker' = worker
      BY <1>4, OtherFrame
    <2>2. CASE StoreReading
      BY <2>1, <2>2, StoreDoes, HandsKept
    <2>3. CASE ~StoreReading
      <3>1. job' = job
        BY <1>4, <2>3 DEF OtherSteps, Ask, StaffRenew, ServiceEnds
      <3>. QED  BY <2>1, <3>1, HandsKept
    <2>. QED  BY <2>2, <2>3
  <1>5. CASE UNCHANGED <<worker, job>>
    BY <1>5, HandsKept
  <1>. QED  BY <1>1, <1>2, <1>3, <1>4, <1>5, StepKinds, RequestFrame, InvoiceFrame

LEMMA OneWorkerStep ==
    ASSUME RenewalJobsTypeOK, Known, OneWorker, RenewalNext
    PROVE  OneWorker'
  BY QuietBefore, HandsStep DEF OneWorker, HandsOK

-----------------------------------------------------------------------------
(* A paid cycle is renewed *)

PaymentParts ==
    /\ \A k \in Cycles : ledger[k].paid # NoInvoice => Covered(k)
    /\ \A i \in Invoices : invoice[i].status = "paid" =>
          \/ i \in toApply
          \/ \E h \in Payments : applier[h].at = "advance" /\ applier[h].inv = i
          \/ Covered(Cycle(i))
    /\ \A i \in Invoices : job[i].status = "SUCCESS" => Done(Cycle(i))
    /\ \A w \in Workers : worker[w].at = "done" => Done(Cycle(worker[w].inv))

LEMMA DoneStays ==
    ASSUME RenewalJobsTypeOK, Known, RenewalNext, NEW k \in Cycles, Done(k)
    PROVE  Done(k)'
  <1>0. remote \in Nat /\ charged \in [Cycles -> Nat] /\ Until(k) \in Nat /\ Grows
    BY StepGrows, RecordTypes, CycleTypes
  <1>t. remote' \in Nat /\ charged' \in [Cycles -> Nat]
    BY TypesStep DEF RenewalJobsTypeOK
  <1>1. /\ remote \in Nat /\ remote' \in Nat /\ Until(k) \in Nat
        /\ charged[k] \in Nat /\ charged'[k] \in Nat /\ Grows
    BY <1>0, <1>t
  <1>2. remote <= remote' /\ charged[k] <= charged'[k] /\ spent.guessed \subseteq spent'.guessed
    BY <1>1 DEF Grows
  <1>3. CASE charged[k] > 0
    <2>1. charged'[k] > 0
      BY <1>1, <1>2, <1>3
    <2>. QED  BY <2>1 DEF Done, Renewed
  <1>4. CASE remote >= Until(k)
    <2>1. remote' >= Until(k)
      BY <1>1, <1>2, <1>4
    <2>. QED  BY <2>1 DEF Done, Renewed
  <1>5. CASE \E g \in spent.guessed : g > k
    BY <1>2, <1>5 DEF Done
  <1>. QED  BY <1>3, <1>4, <1>5 DEF Done, Renewed

\* A record that is not the work of hands shows renewals only that were made.
LEMMA CurrentDone ==
    ASSUME RenewalJobsTypeOK, RecordTold, Undisturbed, NEW k \in Cycles, Current(k)
    PROVE  Done(k)
  <1>1. /\ stored >= Until(k) /\ Told(stored) /\ stored \in Nat /\ remote \in Nat
        /\ Until(k) = k + 1 /\ k \in Nat
    BY RecordTypes, CycleTypes DEF Current, RecordTold
  <1>2. CASE stored <= remote
    BY <1>1, <1>2 DEF Done, Renewed
  <1>3. CASE \E g \in spent.guessed : stored = Until(g)
    <2>1. PICK g \in spent.guessed : stored = Until(g)
      BY <1>3
    <2>2. g \in Cycles /\ Until(g) = g + 1 /\ g \in Nat
      BY SpentTypes, CycleTypes
    <2>3. CASE g = k
      BY <2>1, <2>3 DEF Done, Renewed, RecordTold
    <2>4. CASE g > k
      BY <2>1, <2>4 DEF Done
    <2>. QED  BY <1>1, <2>1, <2>2, <2>3, <2>4
  <1>. QED  BY <1>1, <1>2, <1>3 DEF Told

Pending == {"QUEUED", "RUNNING", "FAILED"}

\* What becomes of a job in a step of nobody's hands
LEMMA JobFate ==
    ASSUME RenewalJobsTypeOK, Known, RecordTold, PaymentParts, RenewalNext, Quiet',
           NEW j \in Invoices
    PROVE  \/ job'[j].status = job[j].status
           \/ job'[j].status \in Pending
           \/ IsPaid(j) /\ job'[j].status = "SUCCESS" /\ Done(Cycle(j))
  <1>0. /\ Quiet /\ Undisturbed
        /\ ~RetryJob(j) /\ ~MarkRenewed(j, Until(Cycle(j)))
        /\ \A i \in Invoices : ~RetryJob(i) /\ ~MarkRenewed(i, Until(Cycle(i)))
    BY QuietBefore DEF Quiet
  <1>1. ASSUME NEW w \in Workers, WorkerSteps(w)
        PROVE  \/ job'[j].status = job[j].status
               \/ job'[j].status \in Pending
               \/ IsPaid(j) /\ job'[j].status = "SUCCESS" /\ Done(Cycle(j))
    <2>1. CASE JobLock(w)
      BY <2>1, JobLockLocks DEF Pending
    <2>2. CASE JobSave(w)
      <3>1. worker[w].inv \in Invoices /\ IsPaid(worker[w].inv)
        BY <2>2, CyclesKnown DEF JobSave, AtJob, Known, WorkersPaid
      <3>2. \/ job'[j] = job[j]
            \/ j = worker[w].inv /\ worker[w].at = "done" /\ job'[j].status = "SUCCESS"
            \/ job'[j].status \in {"FAILED", "QUEUED"}
        BY <2>2, <3>1, JobSaveDoes
      <3>3. worker[w].at = "done" => Done(Cycle(worker[w].inv))
        BY DEF PaymentParts
      <3>. QED  BY <3>1, <3>2, <3>3 DEF Pending
    <2>3. CASE ~JobLock(w) /\ ~JobSave(w)
      BY <1>1, <2>3 DEF WorkerSteps, Working, JobFind, JobLoad, JobCheck, JobRenew,
         JobRecord, WorkerDies
    <2>. QED  BY <2>1, <2>2, <2>3
  <1>2. ASSUME NEW h \in Payments, ApplierSteps(h)
        PROVE  \/ job'[j].status = job[j].status
               \/ job'[j].status \in Pending
    <2>1. CASE ApplyQueue(h)
      <3>1. applier[h].inv \in Invoices
        BY <2>1, CyclesKnown DEF ApplyQueue
      <3>. QED  BY <2>1, <3>1, ApplyQueueDoes DEF Pending
    <2>2. CASE ~ApplyQueue(h)
      BY <1>2, <2>2 DEF ApplierSteps, ApplyRead, ApplyAdvance, ApplierDies
    <2>. QED  BY <2>1, <2>2
  <1>3. ASSUME NEW i \in Invoices, JobSteps(i)
        PROVE  job'[j].status = job[j].status
    <2>1. LockGoesStale(i)
      BY <1>0, <1>3 DEF JobSteps
    <2>. QED  BY <2>1, StaleDoes
  <1>4. CASE OtherSteps
    <2>1. CASE StoreReading
      <3>1. \/ job'[j] = job[j]
            \/ /\ j = reading.inv /\ reading.exp >= Until(Cycle(j))
               /\ job'[j].status = "SUCCESS"
        BY <2>1, StoreDoes
      <3>2. reading.at = "store" /\ reading.exp \in Nat /\ reading.exp <= remote
        BY <1>0, <2>1, StoreDoes DEF RecordTold
      <3>3. ASSUME j = reading.inv, reading.exp >= Until(Cycle(j))
            PROVE  IsPaid(j) /\ Done(Cycle(j))
        <4>1. IsPaid(j)
          BY <3>3 DEF Known, JobsPaid
        <4>2. Until(Cycle(j)) \in Nat
          BY <4>1, CyclesKnown, CycleTypes
        <4>3. remote >= Until(Cycle(j))
          BY <3>2, <3>3, <4>2, RecordTypes
        <4>. QED  BY <4>1, <4>3 DEF Done, Renewed
      <3>. QED  BY <3>1, <3>3
    <2>2. CASE ~StoreReading
      BY <1>4, <2>2 DEF OtherSteps, Ask, StaffRenew, ServiceEnds
    <2>. QED  BY <2>1, <2>2
  <1>5. CASE job' = job
    BY <1>5
  <1>. QED  BY <1>1, <1>2, <1>3, <1>4, <1>5, StepKinds, RequestFrame, InvoiceFrame

\* A handler that has moved the due date stays there until its job is queued.
LEMMA AppliersStay ==
    ASSUME RenewalJobsTypeOK, Known, RenewalNext, NEW h \in Payments,
           applier[h].at # "idle", ~ApplyAdvance(h), ~ApplyQueue(h), ~ApplierDies(h)
    PROVE  applier'[h] = applier[h]
  <1>1. ASSUME NEW g \in Payments, ApplierSteps(g)
        PROVE  applier'[h] = applier[h]
    <2>1. ASSUME NEW i \in Invoices, ApplyRead(g, i)
          PROVE  applier'[h] = applier[h]
      BY <2>1, ApplyReadDoes
    <2>2. CASE ApplyAdvance(g)
      <3>1. applier[g].inv \in Invoices
        BY <2>2, CyclesKnown DEF ApplyAdvance
      <3>. QED  BY <2>2, <3>1, ApplyAdvanceDoes
    <2>3. CASE ApplyQueue(g) \/ ApplierDies(g)
      <3>1. applier' = [applier EXCEPT ![g] = NoApplier]
        BY <2>3 DEF ApplyQueue, ApplierDies
      <3>. QED  BY <2>3, <3>1, RecordTypes
    <2>. QED  BY <1>1, <2>1, <2>2, <2>3 DEF ApplierSteps
  <1>2. CASE applier' = applier
    BY <1>2
  <1>. QED  BY <1>1, <1>2, StepKinds, RequestFrame, InvoiceFrame, WorkerFrame, JobFrame,
               OtherFrame

LEMMA CoveredStays ==
    ASSUME RenewalJobsTypeOK, Known, RecordTold, PaymentParts, RenewalNext, Quiet',
           NEW k \in Cycles, Covered(k)
    PROVE  Covered(k)'
  <1>0. Undisturbed /\ \A h \in Payments : ~ApplierDies(h)
    BY QuietBefore DEF Quiet
  <1>c. \A i \in Invoices : IsPaid(i) => invoice'[i].cycle = Cycle(i)
    BY StepGrows, CyclesStay DEF Cycle
  <1>d. Done(k) => Covered(k)'
    BY DoneStays DEF Covered
  <1>1. ASSUME NEW j \in Invoices, Cycle(j) = k, job[j].status \in Pending
        PROVE  Covered(k)'
    <2>1. IsPaid(j)
      BY <1>1 DEF Pending, Known, JobsPaid
    <2>2. job'[j].status \in Pending \/ Done(k)
      BY <1>1, JobFate
    <2>3. job'[j].status \in Pending => Covered(k)'
      BY <1>1, <1>c, <2>1 DEF Covered, Pending, Cycle
    <2>. QED  BY <1>d, <2>2, <2>3
  <1>2. ASSUME NEW h \in Payments, applier[h].at = "queue", Cycle(applier[h].inv) = k
        PROVE  Covered(k)'
    <2>. DEFINE i == applier[h].inv
    <2>1. IsPaid(i) /\ i \in Invoices /\ Cycle(i) = k
      BY <1>2 DEF Known, AppliersPaid, IsPaid
    <2>2. invoice'[i].cycle = k
      BY <1>c, <2>1
    <2>3. CASE ApplyQueue(h)
      <3>1. \/ Current(k)
            \/ job[i].status \in {"QUEUED", "RUNNING", "SUCCESS"}
            \/ job'[i].status = "QUEUED"
        BY <2>1, <2>3, ApplyQueueDoes
      <3>2. Current(k) => Done(k)
        BY <1>0, CurrentDone
      <3>3. job[i].status = "SUCCESS" => Done(k)
        BY <2>1 DEF PaymentParts
      <3>4. job[i].status \in {"QUEUED", "RUNNING"} => Covered(k)'
        BY <1>1, <2>1 DEF Pending
      <3>5. job'[i].status = "QUEUED" => Covered(k)'
        BY <2>1, <2>2 DEF Covered, Cycle
      <3>. QED  BY <1>d, <3>1, <3>2, <3>3, <3>4, <3>5
    <2>4. CASE ~ApplyQueue(h)
      <3>1. ~ApplyAdvance(h)
        BY <1>2 DEF ApplyAdvance
      <3>2. applier'[h] = applier[h]
        BY <1>0, <1>2, <2>4, <3>1, AppliersStay
      <3>. QED  BY <1>2, <2>2, <3>2 DEF Covered, Cycle
    <2>. QED  BY <2>3, <2>4
  <1>. QED  BY <1>d, <1>1, <1>2 DEF Covered, Pending

\* A handler that moves the due date comes to queue its job.
LEMMA AdvanceCovers ==
    ASSUME RenewalJobsTypeOK, Known, LedgerParts, NEW h \in Payments, ApplyAdvance(h)
    PROVE  /\ applier[h].inv \in Invoices /\ Cycle(applier[h].inv) \in Cycles
           /\ \A k : k = Cycle(applier[h].inv) => Covered(k)'
           /\ \A k \in Cycles : k # Cycle(applier[h].inv) => ledger'[k] = ledger[k]
  <1>1. applier[h].inv \in Invoices /\ Cycle(applier[h].inv) \in Cycles
    BY CyclesKnown DEF ApplyAdvance
  <1>2. applier[h].had
    BY DEF LedgerParts, ApplyAdvance
  <1>3. /\ applier'[h].at = "queue" /\ applier'[h].inv = applier[h].inv
        /\ \A k \in Cycles : k # Cycle(applier[h].inv) => ledger'[k] = ledger[k]
    BY <1>1, <1>2, ApplyAdvanceDoes
  <1>4. invoice' = invoice
    BY DEF ApplyAdvance
  <1>5. ASSUME NEW k, k = Cycle(applier[h].inv)
        PROVE  Covered(k)'
    <2>1. invoice'[applier'[h].inv].cycle = k
      BY <1>3, <1>4, <1>5 DEF Cycle
    <2>. QED  BY <1>3, <2>1 DEF Covered, Cycle
  <1>. QED  BY <1>1, <1>3, <1>5

LEMMA PaidIsCovered ==
    ASSUME RenewalJobsTypeOK, Known, RecordTold, LedgerParts, PaymentParts, RenewalNext, Quiet',
           NEW k \in Cycles, ledger'[k].paid # NoInvoice
    PROVE  Covered(k)'
  <1>1. CASE ledger[k].paid # NoInvoice
    BY <1>1, CoveredStays DEF PaymentParts
  <1>2. CASE \E h \in Payments : ApplyAdvance(h)
    <2>1. PICK h \in Payments : ApplyAdvance(h)
      BY <1>2
    <2>2. CASE k = Cycle(applier[h].inv)
      BY <2>1, <2>2, AdvanceCovers
    <2>3. CASE k # Cycle(applier[h].inv)
      BY <1>1, <2>1, <2>3, AdvanceCovers
    <2>. QED  BY <2>2, <2>3
  <1>3. CASE \A h \in Payments : ~ApplyAdvance(h)
    <2>1. ASSUME NEW c \in Clients, RequestSteps(c)
          PROVE  ledger'[k].paid = ledger[k].paid \/ ledger'[k].paid = NoInvoice
      <3>1. CASE RequestLedger(c)
        BY <3>1, RequestLedgerDoes
      <3>2. CASE ~RequestLedger(c)
        BY <2>1, <3>2 DEF RequestSteps, RequestRead, RequestInvoice, RequesterDies
      <3>. QED  BY <3>1, <3>2
    <2>2. ASSUME NEW h \in Payments, ApplierSteps(h)
          PROVE  ledger' = ledger
      BY <1>3, <2>2 DEF ApplierSteps, ApplyRead, ApplyQueue, ApplierDies
    <2>3. ledger'[k].paid = ledger[k].paid
      BY <2>1, <2>2, StepKinds, InvoiceFrame, WorkerFrame, JobFrame, OtherFrame
    <2>. QED  BY <1>1, <2>3
  <1>. QED  BY <1>2, <1>3

LEMMA PaymentGoesOn ==
    ASSUME RenewalJobsTypeOK, Known, RecordTold, LedgerParts, PaymentParts, RenewalNext, Quiet',
           NEW i \in Invoices, invoice'[i].status = "paid"
    PROVE  \/ i \in toApply'
           \/ \E h \in Payments : applier'[h].at = "advance" /\ applier'[h].inv = i
           \/ \E k \in Cycles : k = invoice'[i].cycle /\ Covered(k)'
  <1>0. /\ Quiet /\ ~ended /\ \A h \in Payments : ~ApplierDies(h)
    BY QuietBefore DEF Quiet
  <1>1. CASE invoice[i].status # "paid"
    <2>1. ASSUME NEW c \in Clients, RequestSteps(c)
          PROVE  FALSE
      <3>1. ASSUME NEW j \in Invoices, RequestInvoice(c, j)
            PROVE  FALSE
        BY <1>1, <3>1, RequestInvoiceDoes
      <3>2. CASE \A j \in Invoices : ~RequestInvoice(c, j)
        BY <1>1, <2>1, <3>2 DEF RequestSteps, RequestRead, RequestLedger, RequesterDies
      <3>. QED  BY <3>1, <3>2
    <2>2. ASSUME NEW j \in Invoices, InvoiceSteps(j)
          PROVE  i \in toApply'
      BY <1>1, <2>2, InvoiceStepsDo DEF InvoiceSteps, AppliedAgain
    <2>. QED  BY <1>1, <2>1, <2>2, StepKinds, ApplierFrame, WorkerFrame, JobFrame, OtherFrame
  <1>2. CASE invoice[i].status = "paid"
    <2>0. IsPaid(i) /\ Cycle(i) \in Cycles
      BY <1>2, CyclesKnown DEF IsPaid
    <2>1. invoice'[i].cycle = Cycle(i)
      BY <2>0, StepGrows, CyclesStay DEF Cycle
    <2>2. CASE Covered(Cycle(i))
      <3>. DEFINE k == Cycle(i)
      <3>1. ASSUME NEW l \in Cycles, l = k
            PROVE  Covered(l)'
        BY <2>2, <3>1, CoveredStays
      <3>. QED  BY <2>0, <2>1, <3>1
    <2>3. CASE \E h \in Payments : applier[h].at = "advance" /\ applier[h].inv = i
      <3>1. PICK h \in Payments : applier[h].at = "advance" /\ applier[h].inv = i
        BY <2>3
      <3>2. CASE ApplyAdvance(h)
        <4>1. ASSUME NEW l \in Cycles, l = Cycle(i)
              PROVE  Covered(l)'
          BY <3>1, <3>2, <4>1, AdvanceCovers
        <4>. QED  BY <2>0, <2>1, <4>1
      <3>3. CASE ~ApplyAdvance(h)
        <4>1. ~ApplyQueue(h)
          BY <3>1 DEF ApplyQueue
        <4>2. applier'[h] = applier[h]
          BY <1>0, <3>1, <3>3, <4>1, AppliersStay
        <4>. QED  BY <3>1, <4>2
      <3>. QED  BY <3>2, <3>3
    <2>4. CASE i \in toApply
      <3>1. CASE \E h \in Payments : ApplyRead(h, i)
        <4>1. PICK h \in Payments : ApplyRead(h, i)
          BY <3>1
        <4>2. CASE applier'[h].at = "advance" /\ applier'[h].inv = i
          BY <4>2
        <4>3. CASE ledger[Cycle(i)].paid # NoInvoice
          BY <2>0, <2>2, <4>3 DEF PaymentParts
        <4>. QED  BY <1>0, <4>1, <4>2, <4>3, ApplyReadDoes
      <3>2. CASE \A h \in Payments : ~ApplyRead(h, i)
        <4>1. ASSUME NEW h \in Payments, ApplierSteps(h)
              PROVE  i \in toApply'
          BY <2>4, <3>2, <4>1 DEF ApplierSteps, ApplyRead, ApplyAdvance, ApplyQueue, ApplierDies
        <4>2. ASSUME NEW j \in Invoices, InvoiceSteps(j)
              PROVE  i \in toApply'
          BY <2>4, <4>2 DEF InvoiceSteps, Pay, CancelInvoice, AppliedAgain
        <4>. QED  BY <2>4, <4>1, <4>2, StepKinds, RequestFrame, WorkerFrame, JobFrame, OtherFrame
      <3>. QED  BY <3>1, <3>2
    <2>. QED  BY <1>2, <2>2, <2>3, <2>4 DEF PaymentParts
  <1>. QED  BY <1>1, <1>2

\* A job is done with when the record shows its renewal, or has just recorded it.
LEMMA WorkersDone ==
    ASSUME RenewalJobsTypeOK, Known, RecordTold, PaymentParts, RenewalNext, Quiet',
           NEW w \in Workers, worker'[w].at = "done"
    PROVE  \E k \in Cycles : k = invoice'[worker'[w].inv].cycle /\ Done(k)'
  <1>0. Undisturbed
    BY QuietBefore DEF Quiet
  <1>1. CASE worker'[w] = worker[w]
    <2>1. /\ worker[w].inv \in Invoices /\ IsPaid(worker[w].inv)
          /\ Cycle(worker[w].inv) \in Cycles /\ Done(Cycle(worker[w].inv))
      BY <1>1, CyclesKnown DEF PaymentParts, AtJob, Known, WorkersPaid
    <2>2. invoice'[worker[w].inv].cycle = Cycle(worker[w].inv)
      BY <2>1, StepGrows, CyclesStay DEF Cycle
    <2>3. ASSUME NEW k \in Cycles, k = Cycle(worker[w].inv)
          PROVE  Done(k)'
      BY <2>1, <2>3, DoneStays
    <2>. QED  BY <1>1, <2>1, <2>2, <2>3
  <1>2. ASSUME NEW f \in worker[w].batch, JobCheck(w, f)
        PROVE  \E k \in Cycles : k = invoice'[worker'[w].inv].cycle /\ Done(k)'
    <2>1. IsPaid(f[1]) /\ Cycle(f[1]) \in Cycles
      BY CyclesKnown DEF Known, WorkersPaid
    <2>2. Current(Cycle(f[1])) /\ worker'[w].inv = f[1]
      BY <1>2, JobCheckDoes
    <2>3. invoice' = invoice
      BY <1>2 DEF JobCheck
    <2>4. ASSUME NEW k \in Cycles, k = Cycle(f[1])
          PROVE  Done(k)'
      BY <1>0, <2>2, <2>4, CurrentDone, DoneStays
    <2>. QED  BY <2>1, <2>2, <2>3, <2>4 DEF Cycle
  <1>3. ASSUME JobRecord(w)
        PROVE  \E k \in Cycles : k = invoice'[worker'[w].inv].cycle /\ Done(k)'
    <2>1. worker[w].at = "record" /\ worker'[w].inv = worker[w].inv /\ invoice' = invoice
      BY <1>3, JobRecordDoes DEF JobRecord
    <2>2. Cycle(worker[w].inv) \in Cycles
      BY <2>1, CyclesKnown DEF AtJob
    <2>3. charged[Cycle(worker[w].inv)] > 0
      BY <2>1 DEF RecordTold
    <2>4. ASSUME NEW k \in Cycles, k = Cycle(worker[w].inv)
          PROVE  Done(k)'
      <3>1. Done(k)
        BY <2>3, <2>4 DEF Done, Renewed
      <3>. QED  BY <3>1, DoneStays
    <2>. QED  BY <2>1, <2>2, <2>4 DEF Cycle
  <1>4. ASSUME NEW v \in Workers, WorkerSteps(v)
        PROVE  \/ worker'[w] = worker[w] \/ JobRecord(w)
               \/ \E f \in worker[w].batch : JobCheck(w, f)
    <2>1. CASE v # w
      BY <1>4, <2>1, OthersKept
    <2>2. CASE v = w
      <3>1. ~JobFind(w) /\ ~JobLock(w)
        BY JobFindDoes, JobLockDoes
      <3>2. ~JobLoad(w)
        BY JobLoadDoes, NoWorkType
      <3>3. ~JobRenew(w)
        <4>1. SUFFICES ASSUME JobRenew(w) PROVE FALSE
          OBVIOUS
        <4>2. Cycle(worker[w].inv) \in Cycles
          BY <4>1, CyclesKnown DEF JobRenew, AtJob
        <4>3. worker'[w].at \in {"record", "failed"}
          BY <4>1, <4>2, JobRenewDoes
        <4>. QED  BY <4>3
      <3>4. ~JobSave(w)
        <4>1. SUFFICES ASSUME JobSave(w) PROVE FALSE
          OBVIOUS
        <4>2. worker[w].inv \in Invoices
          BY <4>1, CyclesKnown DEF JobSave, AtJob
        <4>. QED  BY <4>1, <4>2, JobSaveDoes, NoWorkType
      <3>5. ~WorkerDies(w)
        BY WorkerDiesDoes, NoWorkType
      <3>. QED  BY <1>4, <2>2, <3>1, <3>2, <3>3, <3>4, <3>5 DEF WorkerSteps, Working
    <2>. QED  BY <2>1, <2>2
  <1>5. \/ worker'[w] = worker[w] \/ JobRecord(w)
        \/ \E f \in worker[w].batch : JobCheck(w, f)
    BY <1>4, StepKinds, RequestFrame, InvoiceFrame, ApplierFrame, JobFrame, OtherFrame
  <1>. QED  BY <1>1, <1>2, <1>3, <1>5

LEMMA PaymentPartsStep ==
    ASSUME RenewalJobsTypeOK, Known, RecordTold, LedgerParts, PaymentParts, RenewalNext, Quiet'
    PROVE  PaymentParts'
  <1>1. \A k \in Cycles : ledger'[k].paid # NoInvoice => Covered(k)'
    BY PaidIsCovered
  <1>2. ASSUME NEW i \in Invoices, invoice'[i].status = "paid"
        PROVE  \/ i \in toApply'
               \/ \E h \in Payments : applier'[h].at = "advance" /\ applier'[h].inv = i
               \/ Covered(Cycle(i))'
    BY <1>2, PaymentGoesOn DEF Covered, Cycle
  <1>3. ASSUME NEW i \in Invoices, job'[i].status = "SUCCESS"
        PROVE  Done(Cycle(i))'
    <2>1. /\ IsPaid(i) /\ Done(Cycle(i)) /\ Cycle(i) \in Cycles
      BY <1>3, JobFate, CyclesKnown DEF Pending, PaymentParts, Known, JobsPaid
    <2>2. invoice'[i].cycle = Cycle(i)
      BY <2>1, StepGrows, CyclesStay DEF Cycle
    <2>3. ASSUME NEW k \in Cycles, k = Cycle(i)
          PROVE  Done(k)'
      BY <2>1, <2>3, DoneStays
    <2>. QED  BY <2>1, <2>2, <2>3 DEF Done, Renewed, Cycle
  <1>4. ASSUME NEW w \in Workers, worker'[w].at = "done"
        PROVE  Done(Cycle(worker[w].inv))'
    BY <1>4, WorkersDone DEF Done, Renewed, Cycle
  <1>. QED  BY <1>1, <1>2, <1>3, <1>4 DEF PaymentParts

LEMMA PaymentKeptStep ==
    ASSUME RenewalJobsTypeOK, Known, RecordTold, LedgerKept, PaymentKept, RenewalNext
    PROVE  PaymentKept'
  <1>1. SUFFICES ASSUME Quiet' PROVE PaymentParts'
    BY DEF PaymentKept, PaymentParts
  <1>2. Quiet /\ PaymentParts
    BY <1>1, QuietBefore DEF PaymentKept, PaymentParts
  <1>3. LedgerParts
    BY <1>2 DEF Quiet, LedgerKept, LedgerParts
  <1>. QED  BY <1>1, <1>2, <1>3, PaymentPartsStep

-----------------------------------------------------------------------------
(* The invariant, and what it gives *)

LEMMA RenewalInitially ==
    ASSUME RenewalInit
    PROVE  RenewalInv
  <1>0. /\ registrar \in Registries /\ ended = FALSE /\ due = 1 /\ stored = 1 /\ remote = 1
        /\ ledger = [k \in Cycles |-> NoEntry]
        /\ invoice = [i \in Invoices |-> [cycle |-> 0, status |-> "none"]]
        /\ request = [c \in Clients |-> NoRequest]
        /\ toApply = {} /\ applier = [h \in Payments |-> NoApplier]
        /\ job = [i \in Invoices |-> NoJob] /\ worker = [w \in Workers |-> NoWork]
        /\ charged = [k \in Cycles |-> 0]
        /\ reading = NoReading /\ hidden = {} /\ manual = {}
        /\ spent = [repairs |-> 0, mishaps |-> 0, guessed |-> {}]
    BY DEF RenewalInit
  <1>n. /\ NoWork.at = "idle" /\ NoWork.batch = {}
        /\ NoJob.status = "none" /\ NoJob.owner = NoWorker
        /\ NoApplier.at = "idle" /\ NoReading.inv = NoInvoice /\ NoReading.at = "idle"
        /\ NoRequest.at = "idle" /\ NoRequest.had = FALSE
        /\ NoEntry.paid = NoInvoice
    BY NoWorkType, NewJobType, NullTypes
  <1>i. \A i \in Invoices : invoice[i].status = "none"
    BY <1>0
  <1>1. RenewalJobsTypeOK
    <2>1. /\ due \in 1 .. Last + 1 /\ stored \in Nat /\ remote \in Nat
      BY <1>0, CycleTypes
    <2>2. /\ ledger \in [Cycles -> Entries] /\ request \in [Clients -> RequestStates]
          /\ applier \in [Payments -> ApplierStates] /\ job \in [Invoices -> JobDocs]
          /\ worker \in [Workers -> WorkerStates] /\ charged \in [Cycles -> Nat]
          /\ reading \in Readings
      BY <1>0, NullTypes, NoWorkType, NewJobType
    <2>3. invoice \in [Invoices -> InvoiceDocs]
      BY <1>0 DEF InvoiceDocs
    <2>4. spent \in Spendings
      BY <1>0 DEF Spendings
    <2>5. registrar \in Registries /\ ended \in BOOLEAN
      BY <1>0
    <2>. QED  BY <1>0, <2>1, <2>2, <2>3, <2>4, <2>5
              DEF RenewalJobsTypeOK, Ids, Entries, InvoiceDocs, RequestStates, ApplierStates,
                  JobDocs, Places, WorkerStates, Readings, Spendings
  <1>2. Known
    <2>1. RequestsKnown /\ InvoicesKnown
      BY <1>0, <1>n, <1>i DEF RequestsKnown, InvoicesKnown
    <2>2. AppliersPaid /\ JobsPaid /\ WorkersPaid
      BY <1>0, <1>n DEF AppliersPaid, JobsPaid, WorkersPaid, AtJob
    <2>. QED  BY <2>1, <2>2 DEF Known
  <1>3. OnceInv
    BY <1>0, <1>n DEF OnceInv, ShownOrRecorded, Renewing
  <1>4. RecordTold
    BY <1>0, <1>n DEF RecordTold, Told
  <1>5. LedgerKept
    BY <1>0, <1>n, <1>i DEF LedgerKept
  <1>6. OneWorker
    BY <1>0, <1>n DEF OneWorker, Alone, WorkAsLoaded, InHand
  <1>7. PaymentKept
    BY <1>0, <1>n, <1>i DEF PaymentKept
  <1>. QED  BY <1>1, <1>2, <1>3, <1>4, <1>5, <1>6, <1>7 DEF RenewalInv

LEMMA RenewalInductive ==
    ASSUME RenewalInv, [RenewalNext]_renewalVars
    PROVE  RenewalInv'
  <1>1. CASE RenewalNext
    BY <1>1, TypesStep, KnownStep, OnceStep, RecordToldStep, LedgerKeptStep, OneWorkerStep,
       PaymentKeptStep DEF RenewalInv
  <1>2. CASE UNCHANGED renewalVars
    <2>0. /\ registrar' = registrar /\ ended' = ended /\ due' = due /\ ledger' = ledger
          /\ invoice' = invoice /\ request' = request /\ toApply' = toApply
          /\ applier' = applier /\ job' = job /\ worker' = worker /\ stored' = stored
          /\ remote' = remote /\ charged' = charged /\ reading' = reading
          /\ hidden' = hidden /\ manual' = manual /\ spent' = spent
      BY <1>2 DEF renewalVars
    <2>1. RenewalJobsTypeOK'
      BY <2>0, TypesMeet DEF RenewalInv
    <2>2. Known'
      BY <2>0 DEF RenewalInv, Known, RequestsKnown, InvoicesKnown, AppliersPaid, JobsPaid,
         WorkersPaid, IsPaid, Cycle
    <2>3. OnceInv'
      BY <2>0 DEF RenewalInv, OnceInv, ShownOrRecorded, Renewing, Cycle
    <2>4. RecordTold'
      BY <2>0 DEF RenewalInv, RecordTold, Told, Undisturbed, Cycle
    <2>5. LedgerKept'
      BY <2>0 DEF RenewalInv, LedgerKept, Cycle
    <2>6. OneWorker'
      BY <2>0 DEF RenewalInv, OneWorker, Quiet, Undisturbed, Alone, WorkAsLoaded, AsLoaded,
         InHand, Holding
    <2>7. PaymentKept'
      BY <2>0 DEF RenewalInv, PaymentKept, Quiet, Undisturbed, Covered, Done, Renewed, Cycle
    <2>. QED  BY <2>1, <2>2, <2>3, <2>4, <2>5, <2>6, <2>7 DEF RenewalInv
  <1>. QED  BY <1>1, <1>2

LEMMA RenewalInvariant == RenewalSpec => []RenewalInv
  BY RenewalInitially, RenewalInductive, PTL DEF RenewalSpec

\* Every document and every handler of a renewal is always in a state its code
\* knows.
THEOREM RenewalTypeCorrect == RenewalSpec => []RenewalJobsTypeOK
  <1>1. RenewalInv => RenewalJobsTypeOK
    BY DEF RenewalInv
  <1>. QED  BY <1>1, RenewalInvariant, PTL

\* The registrar charges a cycle twice only where the record could not show the
\* first renewal: the worker looks at the record before it calls the registrar
\* (domain-renewal.worker.ts:97) and writes the new date into it (:116).
THEOREM ChargedOnce == RenewalSpec => []RenewedOnce
  <1>1. RenewalInv => RenewedOnce
    BY RecordTypes DEF RenewalInv, OnceInv, ShownOrRecorded, RenewedOnce
  <1>. QED  BY <1>1, RenewalInvariant, PTL

\* Where nothing died or outlived its lock and nobody meddled, a paid cycle is
\* renewed, or has a FAILED job, or the worker made up the date of a later one,
\* as soon as everything under way has ended.
THEOREM PaidCyclesRenewed == RenewalSpec => []PaidIsRenewed
  <1>1. ASSUME RenewalInv PROVE PaidIsRenewed
    <2>1. SUFFICES ASSUME Settled, Quiet, NEW i \in Invoices, invoice[i].status = "paid"
                   PROVE  \/ Renewed(Cycle(i))
                          \/ \E j \in Invoices : Cycle(j) = Cycle(i) /\ job[j].status = "FAILED"
                          \/ \E k \in spent.guessed : k > Cycle(i)
      BY DEF PaidIsRenewed, Quiet, Undisturbed
    <2>2. /\ toApply = {} /\ \A h \in Payments : applier[h].at = "idle"
          /\ \A w \in Workers : worker[w] = NoWork
          /\ \A j \in Invoices : ~Taken(j)
      BY <2>1, NullTypes DEF Settled
    <2>3. Covered(Cycle(i))
      BY <1>1, <2>1, <2>2 DEF RenewalInv, PaymentKept
    <2>4. ASSUME NEW j \in Invoices
          PROVE  job[j].status # "QUEUED" /\ job[j].status # "RUNNING"
      <3>1. InHand(j)
        BY <1>1, <2>1 DEF RenewalInv, OneWorker
      <3>2. job[j].status # "QUEUED"
        BY <2>2, <3>1 DEF InHand, Taken
      <3>3. job[j].status # "RUNNING"
        BY <2>2, <3>1, HoldersWork DEF InHand
      <3>. QED  BY <3>2, <3>3
    <2>. QED  BY <2>2, <2>3, <2>4 DEF Covered, Done
  <1>. QED  BY <1>1, RenewalInvariant, PTL
=============================================================================

---------------------------- MODULE ServiceDesk ----------------------------
(***************************************************************************)
(* A hosting service as several administrators, and the payment's trigger,   *)
(* keep it (service-admin.service.ts, provisioning-trigger.service.ts):      *)
(* notes, dates, profile, price, package and password. Each request reads    *)
(* the service, perhaps calls the panel, and writes the whole of its meta    *)
(* back from what it read.                                                   *)
(*                                                                          *)
(* One service, one account at one panel. Left out: what the fields say, the *)
(* audit log and messages, and passwords changed at the panel itself.        *)
(***************************************************************************)
EXTENDS Integers, FiniteSets

CONSTANTS
    Staff,          \* requests under way at a time
    Passwords, NoPassword,
    Codes,          \* currencies
    MaxRequests     \* bound: requests in all

DeskNulls == NoPassword \notin Passwords
DeskBounds == MaxRequests \in Nat

VARIABLES
    service,        \* the service: its status, whether its details name the account, the currency
                    \* its price is in and the one it is labelled with
    meta,           \* its meta: which fields were given, and the password that is revealed
    account,        \* the password of its account at the panel; none without an account
    staff,          \* each request: its step, what it read, the password of its form
    log             \* requests so far; whether meta and account were parted by one that failed
                    \* or crossed another; whether a price was asked for in a currency without one

deskVars == <<service, meta, account, staff, log>>

Marks == {"notes", "dates", "profile", "module", "cancelled"}
Keys == Passwords \cup {NoPassword}
Meta == [marks : SUBSET Marks, password : Keys]
Edits == {"notes", "dates", "profile"}
Kinds == Edits \cup {"package", "password", "cancel", "provision", "trigger"}
Away == [at |-> "idle", kind |-> "notes", copy |-> [marks |-> {}, password |-> NoPassword], password |-> NoPassword]

DeskTypeOK ==
    /\ service \in [status : {"open", "ACTIVE", "CANCELLED", "gone"}, linked : BOOLEAN, priced : Codes, labelled : Codes]
    /\ meta \in Meta /\ account \in Keys
    /\ staff \in [Staff -> [at : {"idle", "call", "create", "load", "save", "activate"}, kind : Kinds,
                            copy : Meta, password : Keys]]
    /\ log \in [requests : 0..MaxRequests, parted : BOOLEAN, unpriced : BOOLEAN]

\* "open" is PENDING, PROVISIONING or FAILED.
DeskInit ==
    /\ \E c \in Codes : service \in [status : {"open", "ACTIVE"}, linked : BOOLEAN, priced : {c}, labelled : {c}]
    /\ service.linked <=> service.status = "ACTIVE"
    /\ account \in IF service.status = "open" THEN {NoPassword} ELSE Passwords
    /\ meta = [marks |-> {}, password |-> account]
    /\ staff = [d \in Staff |-> Away]
    /\ log = [requests |-> 0, parted |-> FALSE, unpriced |-> FALSE]

-----------------------------------------------------------------------------
Exists == service.status # "gone"

Goto(d, at) == staff' = [staff EXCEPT ![d].at = at]
Ends(d) == staff' = [staff EXCEPT ![d] = Away]

\* The field of meta a request is about.
MarkOf(kind) == CASE kind \in Edits -> kind [] kind = "cancel" -> "cancelled" [] OTHER -> "module"

FirstStep(kind) == CASE kind \in {"package", "password"} -> "call"
                     [] kind = "trigger" -> "create"
                     [] OTHER -> "save"

\* A request that may have changed one of the two passwords and not yet the other.
Midway(d) == staff[d].kind \in {"password", "provision", "trigger"} /\ staff[d].at \notin {"idle", "call"}

Contested(d) == \E e \in Staff \ {d} : Midway(e)

\* A request reads the service; the panel is called only if the details name the
\* account, and a new password must be given.
Begin(d, kind, password) ==
    /\ staff[d].at = "idle" /\ Exists /\ log.requests < MaxRequests
    /\ kind \in {"package", "password"} => service.linked
    /\ kind = "cancel" => service.status = "open"
    /\ kind = "password" => password # NoPassword
    /\ kind \notin {"password", "provision"} => password = NoPassword
    /\ staff' = [staff EXCEPT ![d] = [at |-> FirstStep(kind), kind |-> kind, copy |-> meta, password |-> password]]
    /\ log' = [log EXCEPT !.requests = @ + 1]
    /\ UNCHANGED <<service, meta, account>>

\* callWhmForHosting: done, refused, or done and the answer lost; without an
\* answer nothing is saved.
CallPanel(d) ==
    /\ staff[d].at = "call"
    /\ \/ /\ account # NoPassword
          /\ account' = IF staff[d].kind = "password" THEN staff[d].password ELSE account
          /\ \/ Goto(d, "save") /\ log' = [log EXCEPT !.parted = @ \/ (staff[d].kind = "password" /\ Contested(d))]
             \/ Ends(d) /\ log' = [log EXCEPT !.parted = @ \/ staff[d].kind = "password"]
       \/ Ends(d) /\ UNCHANGED <<account, log>>
    /\ UNCHANGED <<service, meta>>

\* A creation that fails: the trigger marks the service FAILED, whatever it was.
NotMade(d) ==
    service' = IF staff[d].kind = "trigger" /\ Exists THEN [service EXCEPT !.status = "open"] ELSE service

\* createHostingAccountForOrderItem, with the form's password or one made up for
\* it. An account that is there already is taken for the one asked for, and keeps
\* its own password; of one made for a form without one the password is not kept.
CreateAccount(d) ==
    /\ staff[d].at = "create"
    /\ \E p \in IF staff[d].password = NoPassword THEN Passwords ELSE {staff[d].password} :
       /\ account' = IF account = NoPassword THEN p ELSE account
       /\ \/ /\ staff' = [staff EXCEPT ![d].at = IF staff[d].kind = "trigger" THEN "load" ELSE "activate",
                                       ![d].password = p]
             /\ log' = [log EXCEPT !.parted = @ \/ account # NoPassword \/ Contested(d)
                                                \/ (staff[d].kind = "provision" /\ staff[d].password = NoPassword)]
             /\ UNCHANGED service
          \/ Ends(d) /\ NotMade(d) /\ log' = [log EXCEPT !.parted = TRUE]
    /\ UNCHANGED meta

\* ... or it fails before: the server is full, not reached, or refuses.
CreateFails(d) ==
    /\ staff[d].at = "create" /\ Ends(d)
    /\ log' = [log EXCEPT !.parted = @ \/ staff[d].kind = "provision"]
    /\ NotMade(d) /\ UNCHANGED <<meta, account>>

\* The trigger reads the service it will write only now, and saves its details.
Load(d) ==
    /\ staff[d].at = "load"
    /\ IF Exists THEN /\ staff' = [staff EXCEPT ![d].at = "save", ![d].copy = meta]
                      /\ service' = [service EXCEPT !.linked = TRUE]
       ELSE Ends(d) /\ UNCHANGED service
    /\ UNCHANGED <<meta, account, log>>

-----------------------------------------------------------------------------
(* Writing.                                                                 *)

\* Mistake: the meta of the request only.
MergedAlone(d, password) == [marks |-> {MarkOf(staff[d].kind)}, password |-> password]

\* Mistake: a password already saved is kept.
MergedKeeping(d, password) ==
    [marks |-> staff[d].copy.marks \cup {MarkOf(staff[d].kind)},
     password |-> IF staff[d].copy.password = NoPassword THEN password ELSE staff[d].copy.password]

\* What was read, with the request's own fields; a password is among them if the form has one.
Merged(d, password) ==
    [marks |-> staff[d].copy.marks \cup {MarkOf(staff[d].kind)},
     password |-> IF password = NoPassword THEN staff[d].copy.password ELSE password]

\* updateById: a service deleted since is not written. A save crosses another if
\* meta is no longer what it read.
Write(d, unpriced) ==
    /\ meta' = IF Exists THEN Merged(d, staff[d].password) ELSE meta
    /\ log' = [log EXCEPT !.parted = @ \/ (meta # staff[d].copy /\ meta'.password # meta.password),
                          !.unpriced = @ \/ unpriced]

\* Notes, dates, package, password; the cancellation of what is not active yet;
\* the trigger, which makes it ACTIVE whatever it was; and the form of a creation,
\* which may name the account beforehand.
Save(d) ==
    /\ staff[d].at = "save" /\ staff[d].kind # "profile" /\ Write(d, FALSE)
    /\ IF staff[d].kind = "provision" THEN Goto(d, "create") ELSE Ends(d)
    /\ service' \in IF ~Exists THEN {service}
                    ELSE CASE staff[d].kind = "cancel" -> {[service EXCEPT !.status = "CANCELLED"]}
                           [] staff[d].kind = "trigger" -> {[service EXCEPT !.status = "ACTIVE"]}
                           [] staff[d].kind = "provision" -> {service, [service EXCEPT !.linked = TRUE]}
                           [] OTHER -> {service}
    /\ UNCHANGED account

\* Mistake: the first row, whatever was asked for.
RowsAny(priced, asked) == priced

\* The row of a product's prices in the currency asked for, or any if there is none.
Rows(priced, asked) == IF asked \in priced THEN {asked} ELSE priced

\* updateServiceProfile, which may set the price: to an amount of the form or the
\* product's, in its currency; or to the product's under the currency the form names.
SaveProfile(d) ==
    /\ staff[d].at = "save" /\ staff[d].kind = "profile" /\ Ends(d)
    /\ \/ UNCHANGED service /\ Write(d, FALSE)
       \/ /\ Exists /\ Write(d, FALSE)
          /\ \E code \in Codes : service' = [service EXCEPT !.priced = code, !.labelled = code]
       \/ /\ Exists
          /\ \E priced \in (SUBSET Codes) \ {{}}, asked \in Codes : \E code \in Rows(priced, asked) :
                 Write(d, asked \notin priced) /\ service' = [service EXCEPT !.priced = code, !.labelled = asked]
    /\ UNCHANGED account

\* The created account's service is ACTIVE, whatever it was.
Activate(d) ==
    /\ staff[d].at = "activate" /\ Ends(d)
    /\ service' = IF Exists THEN [service EXCEPT !.status = "ACTIVE", !.linked = TRUE] ELSE service
    /\ UNCHANGED <<meta, account, log>>

\* updateStatus sets any status; a deletion leaves the account at the panel.
SetStatus(status) ==
    /\ Exists /\ status # service.status /\ service' = [service EXCEPT !.status = status]
    /\ UNCHANGED <<meta, account, staff, log>>

\* The process dies.
Dies(d) ==
    /\ staff[d].at # "idle" /\ Ends(d)
    /\ log' = [log EXCEPT !.parted = @ \/ Midway(d)]
    /\ UNCHANGED <<service, meta, account>>

DeskNext ==
    \/ \E d \in Staff : \/ \E kind \in Kinds, password \in Keys : Begin(d, kind, password)
                        \/ CallPanel(d) \/ CreateAccount(d) \/ CreateFails(d) \/ Load(d)
                        \/ Save(d) \/ SaveProfile(d) \/ Activate(d) \/ Dies(d)
    \/ \E status \in {"open", "ACTIVE", "CANCELLED", "gone"} : SetStatus(status)

DeskSpec == DeskInit /\ [][DeskNext]_deskVars

-----------------------------------------------------------------------------
(* Properties *)

\* What revealLastModulePassword shows.
Revealed == meta.password

\* The password revealed to the staff opens the account, unless a request died,
\* failed or lost its answer between panel and meta, two that change it crossed, a
\* creation met an account that was there or made up a password, or saves of meta crossed
\* (service-admin.service.ts:208, :548).
RevealedOpens ==
    Exists /\ account # NoPassword /\ ~log.parted /\ (\A d \in Staff : ~Midway(d)) => Revealed = account

\* A price is in the currency it is labelled with, unless the form named one the
\* product has no price in (service-admin.service.ts:673).
PriceLabelled == log.unpriced \/ service.priced = service.labelled

\* A mark of another request goes only with a save that read meta before it was
\* there (service-admin.service.ts:524).
MarkStep ==
    \A mark \in meta.marks \ meta'.marks :
        \E d \in Staff : staff[d].at = "save" /\ mark \notin staff[d].copy.marks /\ staff'[d].at # "save"
MarksKept == [][MarkStep]_deskVars

(* The invariant the properties follow from *)

Request == [at : {"idle", "call", "create", "load", "save", "activate"}, kind : Kinds, copy : Meta, password : Keys]
DeskDocsOK ==
    /\ service \in [status : {"open", "ACTIVE", "CANCELLED", "gone"}, linked : BOOLEAN, priced : Codes, labelled : Codes]
    /\ meta \in Meta /\ account \in Keys /\ staff \in [Staff -> Request]
    /\ log \in [requests : Nat, parted : BOOLEAN, unpriced : BOOLEAN]

RequestsOK == \A d \in Staff :
    /\ staff[d].at = "load" => staff[d].kind = "trigger"
    /\ staff[d].at = "create" => staff[d].kind \in {"trigger", "provision"}
    /\ staff[d].at = "call" => staff[d].kind \in {"package", "password"}
    /\ staff[d].kind = "password" => staff[d].password # NoPassword
    /\ staff[d].kind \notin {"password", "provision", "trigger"} => staff[d].password = NoPassword

\* A request that has given the account its password, and not yet meta.
Delivering(d) == \/ staff[d].kind = "password" /\ staff[d].at = "save"
                 \/ staff[d].kind = "trigger" /\ staff[d].at \in {"load", "save"}
\* A form that has given meta its password, and asks for the account.
Asking(d) == staff[d].kind = "provision" /\ staff[d].at = "create"

Delivered == ~log.parted => \A d \in Staff : Delivering(d) => account = staff[d].password /\ account # NoPassword
FormKept == Exists /\ ~log.parted /\ account = NoPassword =>
    \A d \in Staff : Asking(d) /\ staff[d].password # NoPassword /\ (\A e \in Staff \ {d} : ~Asking(e)) =>
                         meta.password = staff[d].password
WillAgree == Exists /\ ~log.parted /\ account # NoPassword =>
    meta.password = account \/ \E d \in Staff : Delivering(d) \/ Asking(d)

DeskInv == DeskDocsOK /\ RequestsOK /\ Delivered /\ FormKept /\ WillAgree /\ PriceLabelled
=============================================================================

------------------------------ MODULE Accounts ------------------------------
(***************************************************************************)
(* Users and their client profiles: registration by its three routes        *)
(* (user.service.ts register and findOrCreateFromOAuth, client.service.ts   *)
(* registerClient), sign-in with its lock, refresh tokens, passwords,       *)
(* profile completion, and what administrators do: edits, roles, removal.   *)
(*                                                                          *)
(* Handlers run concurrently, each between two calls of the database.       *)
(* Three of them are transactions of snapshot isolation: a document written *)
(* by another since the snapshot, or a unique index, aborts them whole.     *)
(* Every find of a User leaves out the inactive ones (user.model.ts,        *)
(* pre /^find/) unless it says otherwise; counts and updates of a document  *)
(* already read do not.                                                     *)
(* Left out: e-mails, cookies, support PINs, the contents of profiles and   *)
(* permissions, and token lifetimes; a user signs in in one place.          *)
(***************************************************************************)
EXTENDS Integers, FiniteSets

CONSTANTS
    Members,      \* ids of User documents, never used twice
    NoMember,
    Mails,        \* e-mail addresses
    Visits,       \* requests under way
    MaxAttempts,  \* MAX_LOGIN_ATTEMPTS
    MaxVisits     \* bound: requests begun

AccountNulls == NoMember \notin Members
AccountBounds == MaxAttempts \in Nat \ {0, 1} /\ MaxVisits \in Nat /\ IsFiniteSet(Visits)

VARIABLES
    member,    \* User documents
    profile,   \* Client documents, by user
    role,      \* a Role that is not a system role
    visit,     \* requests
    met        \* begun: requests; used: ids given out; kept: users whose client was deleted while
               \* they were inactive

accountVars == <<member, profile, role, visit, met>>

NoUser == [mail |-> "none"]
User == [mail : Mails, keyed : BOOLEAN, secret : BOOLEAN, chief : BOOLEAN, active : BOOLEAN,
         verified : BOOLEAN, assigned : BOOLEAN, reset : BOOLEAN, session : BOOLEAN,
         tries : 0..MaxVisits, lock : {"none", "held", "expired"}]
Idle == [at |-> "idle", who |-> NoMember, mail |-> "none", seen |-> NoUser]

AccountTypeOK ==
    /\ member \in [Members -> User \cup {NoUser}]
    /\ profile \in [Members -> {"none", "open", "complete"}]
    /\ role \in {"live", "archived", "gone"}
    /\ \A v \in Visits : /\ visit[v].who \in Members \cup {NoMember} /\ visit[v].mail \in Mails \cup {"none"}
                         /\ visit[v].seen \in User \cup {NoUser}
    /\ met.begun \in 0..MaxVisits /\ met.used \subseteq Members /\ met.kept \subseteq Members

Exists(u) == member[u] # NoUser
Found(u) == Exists(u) /\ member[u].active
Holder(m) == {u \in Members : Found(u) /\ member[u].mail = m}

\* The unique indexes: one user of an address, and one of a provider and its
\* id. The second is sparse but of two fields, so that a user registered with
\* a password, whose provider is "local" and who has no id, has its place too.
Admitted(m, keyed) == \A u \in Members : Exists(u) => /\ member[u].mail # m
                                                      /\ keyed \/ member[u].keyed

\* A user of the seeder has the provider id it is given.
Seeded(m) == [mail |-> m, keyed |-> TRUE, secret |-> TRUE, chief |-> TRUE, active |-> TRUE,
              verified |-> TRUE, assigned |-> FALSE, reset |-> FALSE, session |-> FALSE,
              tries |-> 0, lock |-> "none"]

AccountInit ==
    \E u \in Members, m \in Mails :
        /\ member = [x \in Members |-> IF x = u THEN Seeded(m) ELSE NoUser]
        /\ profile = [x \in Members |-> IF x = u THEN "open" ELSE "none"]
        /\ role = "live"
        /\ visit = [v \in Visits |-> Idle]
        /\ met = [begun |-> 0, used |-> {u}, kept |-> {}]

-----------------------------------------------------------------------------
(* Requests *)

Begin(v, at, u, m) ==
    /\ visit[v] = Idle /\ met.begun < MaxVisits
    /\ visit' = [visit EXCEPT ![v] = [at |-> at, who |-> u, mail |-> m,
                                      seen |-> IF u = NoMember THEN NoUser ELSE member[u]]]
    /\ met' = [met EXCEPT !.begun = @ + 1]

Finish(v) == visit' = [visit EXCEPT ![v] = Idle]
Goto(v, at) == visit' = [visit EXCEPT ![v].at = at]

\* A request of one write: begun and ended in it.
Once == /\ met.begun < MaxVisits
        /\ met' = [met EXCEPT !.begun = @ + 1]

\* document.save() of a document that is gone fails; nothing makes it again.
Put(u, rec) == member' = IF Exists(u) THEN [member EXCEPT ![u] = rec] ELSE member

-----------------------------------------------------------------------------
(* Registration: three transactions *)

AskRegister(v, m) ==
    /\ Holder(m) = {} /\ Begin(v, "register", NoMember, m)
    /\ UNCHANGED <<member, profile, role>>

\* The address may be that of a user who has no profile.
AskSignUp(v, m) ==
    /\ \/ Holder(m) = {} /\ Begin(v, "signup", NoMember, m)
       \/ \E u \in Holder(m) : profile[u] = "none" /\ Begin(v, "adopt", u, m)
    /\ UNCHANGED <<member, profile, role>>

\* Found by the provider's id or by the address: an address is linked to the
\* provider at its first use.
AskOAuth(v, m) ==
    /\ \/ Holder(m) = {} /\ Begin(v, "oauth", NoMember, m)
       \/ \E u \in Holder(m) : Begin(v, "link", u, m)
    /\ UNCHANGED <<member, profile, role>>

\* Mistake: a user is made without a profile.
EnrolUserOnly(u, rec) == member' = [member EXCEPT ![u] = rec] /\ UNCHANGED profile

\* The user and its profile are made together.
Enrol(u, rec) ==
    /\ member' = [member EXCEPT ![u] = rec]
    /\ profile' = [profile EXCEPT ![u] = "open"]

\* registerClient saves the token after its commit; register and OAuth with it.
CommitNew(v) ==
    /\ visit[v].at \in {"register", "signup", "oauth"}
    /\ LET m == visit[v].mail  social == visit[v].at = "oauth" IN
       IF Admitted(m, social)
       THEN \E u \in Members \ met.used :
              /\ Enrol(u, [Seeded(m) EXCEPT !.keyed = social, !.secret = ~social, !.chief = FALSE,
                                            !.verified = social, !.session = visit[v].at # "signup"])
              /\ met' = [met EXCEPT !.used = @ \cup {u}]
              /\ visit' = [visit EXCEPT ![v] = IF @.at = "signup" THEN [@ EXCEPT !.at = "token", !.who = u] ELSE Idle]
       ELSE Finish(v) /\ UNCHANGED <<member, profile, met>>
    /\ UNCHANGED role

\* The profile of a user found without one: the index on the user refuses a
\* second. The user is not written and may have gone.
CommitAdopted(v) ==
    /\ visit[v].at = "adopt"
    /\ IF profile[visit[v].who] = "none"
       THEN profile' = [profile EXCEPT ![visit[v].who] = "open"] /\ Goto(v, "token")
       ELSE Finish(v) /\ UNCHANGED profile
    /\ UNCHANGED <<member, role, met>>

CommitLinked(v) ==
    /\ visit[v].at = "link"
    /\ LET u == visit[v].who IN
       IF member[u] = visit[v].seen
       THEN Put(u, [member[u] EXCEPT !.keyed = TRUE, !.session = TRUE])
       ELSE UNCHANGED member
    /\ Finish(v)
    /\ UNCHANGED <<profile, role, met>>

-----------------------------------------------------------------------------
(* Sign-in *)

\* The password is compared with what was read; a user of a provider has none.
Login(v, u) ==
    /\ Found(u) /\ member[u].lock # "held"
    /\ \/ Begin(v, "failed", u, "none")
       \/ member[u].secret /\ Begin(v, IF member[u].tries > 0 THEN "passed" ELSE "token", u, "none")
    /\ UNCHANGED <<member, profile, role>>

\* Mistake: the lock comes one failure late.
LocksLate(seen) == seen.tries + 1 > MaxAttempts /\ seen.lock = "none"

\* incrementLoginAttempts: the count is increased where it is, the lock is
\* decided by the count that was read.
Locks(seen) == seen.tries + 1 >= MaxAttempts /\ seen.lock = "none"
FailureCounted(u, seen) ==
    IF seen.lock = "expired" THEN [member[u] EXCEPT !.tries = 1, !.lock = "none"]
    ELSE [member[u] EXCEPT !.tries = @ + 1, !.lock = IF Locks(seen) THEN "held" ELSE @]
LoginFailed(v) ==
    /\ visit[v].at = "failed"
    /\ IF Exists(visit[v].who) THEN Put(visit[v].who, FailureCounted(visit[v].who, visit[v].seen)) ELSE UNCHANGED member
    /\ Finish(v)
    /\ UNCHANGED <<profile, role, met>>

LoginPassed(v) ==
    /\ visit[v].at = "passed"
    /\ IF Exists(visit[v].who) THEN Put(visit[v].who, [member[visit[v].who] EXCEPT !.tries = 0, !.lock = "none"])
       ELSE UNCHANGED member
    /\ Goto(v, "token")
    /\ UNCHANGED <<profile, role, met>>

\* The refresh token of the new pair is saved, after a sign-in or a refresh.
SaveToken(v) ==
    /\ visit[v].at = "token"
    /\ IF Exists(visit[v].who) THEN Put(visit[v].who, [member[visit[v].who] EXCEPT !.session = TRUE])
       ELSE UNCHANGED member
    /\ Finish(v)
    /\ UNCHANGED <<profile, role, met>>

Refresh(v, u) ==
    /\ Found(u) /\ member[u].session /\ Begin(v, "token", u, "none")
    /\ UNCHANGED <<member, profile, role>>

\* Two hours, and ten minutes, pass.
LockExpires(u) ==
    /\ Exists(u) /\ member[u].lock = "held" /\ Put(u, [member[u] EXCEPT !.lock = "expired"])
    /\ UNCHANGED <<profile, role, visit, met>>
ResetExpires(u) ==
    /\ Exists(u) /\ member[u].reset /\ Put(u, [member[u] EXCEPT !.reset = FALSE])
    /\ UNCHANGED <<profile, role, visit, met>>

-----------------------------------------------------------------------------
(* What a user does to his own account, in one write each *)

Logout(u) == Found(u) /\ Put(u, [member[u] EXCEPT !.session = FALSE])
ForgotPassword(u) == Found(u) /\ Put(u, [member[u] EXCEPT !.reset = TRUE])
ResetPassword(u) == Found(u) /\ member[u].reset /\ Put(u, [member[u] EXCEPT !.reset = FALSE, !.secret = TRUE])
VerifyEmail(u) == Found(u) /\ ~member[u].verified /\ Put(u, [member[u] EXCEPT !.verified = TRUE])
Taken(m, u) == \E x \in Members \ {u} : Exists(x) /\ member[x].mail = m
UpdateMe(u, m) == Found(u) /\ ~Taken(m, u) /\ Put(u, [member[u] EXCEPT !.mail = m])

OwnWrite ==
    /\ \E u \in Members : \/ Logout(u) \/ ForgotPassword(u) \/ ResetPassword(u) \/ VerifyEmail(u)
                          \/ \E m \in Mails : UpdateMe(u, m)
    /\ Once
    /\ UNCHANGED <<profile, role, visit>>

\* The profile is looked up and updated; the user may be deleted between.
CompleteProfile(u) ==
    /\ profile[u] # "none" /\ profile' = [profile EXCEPT ![u] = "complete"] /\ Once
    /\ UNCHANGED <<member, role, visit>>

-----------------------------------------------------------------------------
(* Administration *)

\* updateUserByAdmin, but for the role: any address not taken, and the others.
UpdateUser(u) ==
    /\ Exists(u)
    /\ \E m \in Mails, f \in [{"chief", "active"} -> BOOLEAN] :
          /\ ~Taken(m, u)
          /\ Put(u, [member[u] EXCEPT !.mail = m, !.chief = f["chief"], !.active = f["active"]])
    /\ Once
    /\ UNCHANGED <<profile, role, visit>>

\* The role is read before it is assigned, to one or to many, and the users of
\* a role are counted before it is deleted.
AskAssign(v, u) ==
    /\ Exists(u) /\ role = "live" /\ Begin(v, "assign", u, "none")
    /\ UNCHANGED <<member, profile, role>>
Assign(v) ==
    /\ visit[v].at = "assign"
    /\ IF Exists(visit[v].who) THEN Put(visit[v].who, [member[visit[v].who] EXCEPT !.assigned = TRUE])
       ELSE UNCHANGED member
    /\ Finish(v)
    /\ UNCHANGED <<profile, role, met>>
AskDeleteRole(v) ==
    /\ role = "live" /\ \A u \in Members : Exists(u) => ~member[u].assigned
    /\ Begin(v, "unrole", NoMember, "none")
    /\ UNCHANGED <<member, profile, role>>
DeleteRole(v) ==
    /\ visit[v].at = "unrole" /\ role' = "gone" /\ Finish(v)
    /\ UNCHANGED <<member, profile, met>>
ArchiveRole ==
    /\ \/ role = "live" /\ role' = "archived"
       \/ role = "archived" /\ role' = "live"
    /\ Once
    /\ UNCHANGED <<member, profile, visit>>

\* A superadmin is removed only by another, who is active for deleteUser and
\* only exists for permanentlyDeleteUser.
Others(u) == {x \in Members \ {u} : Exists(x) /\ member[x].chief}
AskDeleteUser(v, u) ==
    /\ Exists(u)
    /\ \/ (member[u].chief => \E x \in Others(u) : member[x].active) /\ Begin(v, "delete", u, "none")
       \/ (member[u].chief => Others(u) # {}) /\ Begin(v, "destroy", u, "none")
    /\ UNCHANGED <<member, profile, role>>

\* findByIdAndUpdate finds active users; deleteClient deactivates with it too.
DeleteUser(v) ==
    /\ visit[v].at = "delete"
    /\ IF Found(visit[v].who) THEN Put(visit[v].who, [member[visit[v].who] EXCEPT !.active = FALSE])
       ELSE UNCHANGED member
    /\ Finish(v)
    /\ UNCHANGED <<profile, role, met>>
DestroyUser(v) ==
    /\ visit[v].at = "destroy" /\ member' = [member EXCEPT ![visit[v].who] = NoUser] /\ Finish(v)
    /\ UNCHANGED <<profile, role, met>>
AskDeleteClient(v, u) ==
    /\ profile[u] # "none" /\ Begin(v, "delete", u, "none")
    /\ UNCHANGED <<member, profile, role>>

AskRemoveClient(v, u) ==
    /\ profile[u] # "none" /\ Begin(v, "remove", u, "none")
    /\ UNCHANGED <<member, profile, role>>

\* permanentlyDeleteClient: the snapshot is the client's reading, and in it an
\* inactive user is not found, so that only the profile is deleted. A write of
\* either document since then aborts it.
RemoveClient(v) ==
    /\ visit[v].at = "remove"
    /\ LET u == visit[v].who  seen == visit[v].seen  both == seen # NoUser /\ seen.active IN
       \/ /\ profile[u] # "none" /\ (both => member[u] = seen)
          /\ profile' = [profile EXCEPT ![u] = "none"]
          /\ member' = IF both THEN [member EXCEPT ![u] = NoUser] ELSE member
          /\ met' = IF seen # NoUser /\ ~both THEN [met EXCEPT !.kept = @ \cup {u}] ELSE met
       \/ UNCHANGED <<member, profile, met>>
    /\ Finish(v)
    /\ UNCHANGED role

-----------------------------------------------------------------------------
AccountNext ==
    \/ \E v \in Visits :
          \/ \E m \in Mails : AskRegister(v, m) \/ AskSignUp(v, m) \/ AskOAuth(v, m)
          \/ CommitNew(v) \/ CommitAdopted(v) \/ CommitLinked(v)
          \/ LoginFailed(v) \/ LoginPassed(v) \/ SaveToken(v)
          \/ Assign(v) \/ AskDeleteRole(v) \/ DeleteRole(v)
          \/ DeleteUser(v) \/ DestroyUser(v) \/ RemoveClient(v)
          \/ \E u \in Members : \/ Login(v, u) \/ Refresh(v, u) \/ AskAssign(v, u)
                                \/ AskDeleteUser(v, u) \/ AskDeleteClient(v, u) \/ AskRemoveClient(v, u)
    \/ \E u \in Members : LockExpires(u) \/ ResetExpires(u) \/ CompleteProfile(u) \/ UpdateUser(u)
    \/ OwnWrite \/ ArchiveRole

AccountSpec == AccountInit /\ [][AccountNext]_accountVars

-----------------------------------------------------------------------------
(* Properties *)

\* A user has a client profile, whichever route made him and whatever crossed
\* it, but for one whose client was deleted for good while he was inactive:
\* the deletion does not find him (client.service.ts, permanentlyDeleteClient).
ProfileKept == \A u \in Members : Exists(u) => profile[u] # "none" \/ u \in met.kept

\* The lock of too many failed sign-ins is decided by a count read before the
\* password was compared, so sign-ins that cross go uncounted by each other:
\* without a lock there are never more failures than the limit allows and the
\* requests under way (user.model.ts, incrementLoginAttempts).
LockTakes == \A u \in Members :
    Exists(u) /\ member[u].lock = "none" => member[u].tries <= MaxAttempts - 2 + Cardinality(Visits)

(* The invariant the properties follow from *)

UserDoc == [mail : Mails, keyed : BOOLEAN, secret : BOOLEAN, chief : BOOLEAN, active : BOOLEAN,
            verified : BOOLEAN, assigned : BOOLEAN, reset : BOOLEAN, session : BOOLEAN,
            tries : Nat, lock : {"none", "held", "expired"}]
Visit == [at : {"idle", "register", "signup", "adopt", "oauth", "link", "token", "failed", "passed", "assign",
                "unrole", "delete", "destroy", "remove"},
          who : Members \cup {NoMember}, mail : Mails \cup {"none"}, seen : UserDoc \cup {NoUser}]
DocsOK ==
    /\ member \in [Members -> UserDoc \cup {NoUser}] /\ profile \in [Members -> {"none", "open", "complete"}]
    /\ visit \in [Visits -> Visit] /\ met \in [begun : Nat, used : SUBSET Members, kept : SUBSET Members]

\* An id once used is never given out again, so who was gone when a removal looked
\* is still gone.
IdsOnce ==
    /\ \A u \in Members : Exists(u) \/ profile[u] # "none" => u \in met.used
    /\ \A v \in Visits : visit[v].who # NoMember => visit[v].who \in met.used
    /\ \A v \in Visits : visit[v].who = NoMember => visit[v].at \in {"idle", "register", "signup", "oauth", "unrole"}
    /\ \A v \in Visits : visit[v].at = "remove" /\ visit[v].seen = NoUser => ~Exists(visit[v].who)

\* Failed sign-ins on their way that will count one more without locking.
Unlocking(u) ==
    {v \in Visits : /\ visit[v].at = "failed" /\ visit[v].who = u
                    /\ visit[v].seen.lock = "none" /\ visit[v].seen.tries <= MaxAttempts - 2}
RequestsOK == \A v \in Visits :
    /\ visit[v].at = "failed" => visit[v].seen # NoUser /\ visit[v].seen.lock # "held"
    /\ visit[v].at \in {"register", "signup", "oauth"} => visit[v].mail \in Mails
TriesLeft == \A u \in Members :
    Exists(u) /\ member[u].lock = "none" =>
        member[u].tries + Cardinality(Unlocking(u)) <= MaxAttempts - 2 + Cardinality(Visits)

\* A failure counted, or still to be, is of a request of its own.
Failing(u) == {v \in Visits : visit[v].at = "failed" /\ visit[v].who = u}
FailuresBegun ==
    /\ met.begun <= MaxVisits /\ role \in {"live", "archived", "gone"}
    /\ \A u \in Members : Exists(u) => member[u].tries + Cardinality(Failing(u)) <= met.begun
    /\ \A v \in Visits : visit[v].seen # NoUser => visit[v].seen.tries <= MaxVisits

AccountInv == DocsOK /\ IdsOnce /\ ProfileKept /\ RequestsOK /\ TriesLeft
=============================================================================

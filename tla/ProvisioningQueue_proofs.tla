---------------------- MODULE ProvisioningQueue_proofs ----------------------
(***************************************************************************)
(* Proofs about ProvisioningQueue, for every set of items, workers and       *)
(* triggers and every value of the bounds: the types, and that no job is     *)
(* worked on twice at once, for an unpaid invoice, or for nothing.           *)
(***************************************************************************)
EXTENDS ProvisioningQueue, TLAPS

USE HostingAssumption, BoundsAssumption

-----------------------------------------------------------------------------
(* The inductive invariant *)

\* The jobs a worker has loaded and not dealt with yet
Hand(w) == worker[w].todo \cup worker[w].cur

\* A worker is at one job at a time, and has loaded each job once.
OneAtATime ==
    \A w \in Workers :
        /\ \A c, d \in worker[w].cur : c = d
        /\ worker[w].todo \cap worker[w].cur = {}
        /\ \A c, d \in Hand(w) : c[1] = d[1] => c = d

\* A worker has a job in hand, or is about to load it by its lock.
Holds(w, k) ==
    \/ \E c \in Hand(w) : c[1] = k
    \/ worker[w].pc = "locked" /\ job[k].owner = w /\ job[k].status # "absent"

\* What is held is not up for locking: its lock is the holder's and fresh, or
\* it has ended meanwhile, for the worker itself or by a cancellation.
HeldIsLocked ==
    \A w \in Workers : \A k \in Items \ history.reopened :
        Holds(w, k) =>
            /\ job[k].status \in {"RUNNING", "SUCCESS", "FAILED"}
            /\ job[k].owner \in {w, Nobody}
            /\ job[k].status = "RUNNING" => job[k].owner = w /\ ~job[k].stale

Hands == OneAtATime /\ HeldIsLocked /\ AtomicBatch

\* Before a payment no trigger has started, and no worker has got past the
\* look at the invoice, unless a write failed.
UnpaidAtRest ==
    ~history.paid =>
        /\ invoice # "PAID"
        /\ \A t \in Triggers : trigger[t].pc = "idle"
        /\ \A w \in Workers :
              /\ worker[w].pc \in {"idle", "found", "locked", "run", "defer", "requeue"}
              /\ worker[w].pc = "requeue" => used.faults > 0

\* What workers, triggers and administrators are about to write is explained.
WorkersExplained ==
    \A w \in Workers : \A c \in worker[w].cur :
        /\ worker[w].pc \in {"activate", "succeed"} => c[1] \in history.accepted
        /\ worker[w].pc = "skip" => c[1] \in Resolved

TriggersExplained ==
    \A t \in Triggers :
        /\ \A k, l \in trigger[t].cur : k = l
        /\ trigger[t].pc = "activate" => trigger[t].cur \subseteq history.accepted

AdminExplained ==
    \A op \in admin :
        /\ op[2] \in {"ACTIVE", "SUSPENDED"} => op[1] \in Provisioned
        /\ op[2] \in {"TERMINATED", "CANCELLED"} => op[1] \in Resolved
        /\ op[2] = "cancel" => op[1] \in history.cancelled

EndedExplained ==
    \A k \in Items : service[k] \in {"TERMINATED", "CANCELLED"} => k \in Resolved

Explained ==
    /\ WorkersExplained
    /\ TriggersExplained
    /\ AdminExplained
    /\ EndedExplained
    /\ SuccessExplained

WorkInv ==
    /\ ProvTypeOK
    /\ Hands
    /\ UnpaidAtRest
    /\ UnpaidUntouched
    /\ Explained

-----------------------------------------------------------------------------
(* Types of the helpers *)

WorkerPcs ==
    {"idle", "found", "locked", "run", "defer", "read", "skip", "make", "mark", "call",
     "activate", "succeed", "finalize", "fail", "requeue"}
WorkerStates ==
    [pc : WorkerPcs, found : SUBSET (Items \X {"QUEUED", "RUNNING"}),
     todo : SUBSET (Items \X Int), cur : SUBSET (Items \X Int)]
TriggerPcs ==
    {"idle", "items", "mark", "call", "activate", "fail", "requeue", "create",
     "finalize", "done"}
TriggerStates ==
    [pc : TriggerPcs, todo : SUBSET Items, cur : SUBSET Items, order : OrderStatus]

Uses == [crashes : Nat, slow : Nat, faults : Nat, admin : Nat]
Histories ==
    [paid : BOOLEAN, called : SUBSET Items, accepted : SUBSET Items,
     cancelled : SUBSET Items, set : SUBSET (Items \X ServiceStatus), reopened : SUBSET Items]
AdminOps == Items \X ({"cancel", "delete", "retry"} \cup ServiceStatus) \X Jobs

LEMMA RecordTypes ==
    ASSUME ProvTypeOK
    PROVE  /\ worker \in [Workers -> WorkerStates]
           /\ trigger \in [Triggers -> TriggerStates]
           /\ job \in [Items -> Jobs]
           /\ service \in [Items -> ServiceStatus]
           /\ admin \subseteq AdminOps
           /\ used \in Uses
           /\ history \in Histories
  BY DEF ProvTypeOK, WorkerStates, WorkerPcs, TriggerStates, TriggerPcs, AdminOps, Uses,
     Histories

\* What a worker has loaded: an item and the attempts of its job when loaded
LEMMA EntryType ==
    ASSUME ProvTypeOK, NEW w \in Workers, NEW c \in Hand(w)
    PROVE  c = <<c[1], c[2]>> /\ c[1] \in Items /\ c[2] \in Int
  <1>1. worker[w].todo \subseteq Items \X Int /\ worker[w].cur \subseteq Items \X Int
    BY RecordTypes DEF WorkerStates
  <1>. QED  BY <1>1 DEF Hand

LEMMA NoJobType == NoJob \in Jobs
  BY DEF NoJob, Jobs, JobStatus

\* The documents of a job that is made, by a trigger or by an administrator
LEMMA NewJobType ==
    /\ [NoJob EXCEPT !.status = "QUEUED"] \in Jobs
    /\ [NoJob EXCEPT !.status = "QUEUED"].status = "QUEUED"
    /\ [NoJob EXCEPT !.status = "QUEUED"].owner = Nobody
    /\ [NoJob EXCEPT !.status = "QUEUED", !.max = 3] \in Jobs
    /\ [NoJob EXCEPT !.status = "QUEUED", !.max = 3].status = "QUEUED"
  <1>1. \A r \in Jobs, st \in JobStatus, m \in {1, 3} :
           /\ [r EXCEPT !.status = st, !.max = m] \in Jobs
           /\ [r EXCEPT !.status = st, !.max = m].status = st
    BY DEF Jobs
  <1>2. \A r \in Jobs, st \in JobStatus :
           /\ [r EXCEPT !.status = st] \in Jobs
           /\ [r EXCEPT !.status = st].status = st
           /\ [r EXCEPT !.status = st].owner = r.owner
    BY DEF Jobs
  <1>3. "QUEUED" \in JobStatus /\ 3 \in {1, 3}
    BY DEF JobStatus
  <1>4. NoJob.owner = Nobody
    BY DEF NoJob
  <1>. QED  BY <1>1, <1>2, <1>3, <1>4, NoJobType, Zenon

LEMMA DocTypes ==
    ASSUME ProvTypeOK, NEW k \in Items, NEW st \in JobStatus
    PROVE  /\ Finished(k, st) \in Jobs
           /\ Settled(k, st) \in Jobs
           /\ Forced(k) \in Jobs
  <1>1. job[k] \in Jobs
    BY RecordTypes
  <1>2. Finished(k, st) \in Jobs
    BY <1>1 DEF Finished, Jobs
  <1>3. [job[k] EXCEPT !.status = "QUEUED", !.stale = FALSE] \in Jobs
    BY <1>1 DEF Jobs, JobStatus
  <1>4. Forced(k) \in Jobs
    <2>1. \A st1 \in JobStatus, a1 \in Int, o1 \in Workers \cup {Nobody}, b1 \in BOOLEAN :
             [job[k] EXCEPT !.status = st1, !.attempts = a1, !.owner = o1, !.stale = b1] \in Jobs
      BY <1>1 DEF Jobs
    <2>2. "QUEUED" \in JobStatus /\ 0 \in Int /\ Nobody \in Workers \cup {Nobody}
      BY DEF JobStatus
    <2>3. FALSE \in BOOLEAN
      OBVIOUS
    <2>. QED  BY <2>1, <2>2, <2>3, Zenon DEF Forced
  <1>. QED  BY <1>2, <1>3, <1>4 DEF Settled

LEMMA SetJobType ==
    ASSUME ProvTypeOK, NEW k \in Items, NEW doc \in Jobs, SetJob(k, doc)
    PROVE  /\ job' \in [Items -> Jobs]
           /\ \A j \in Items : j # k => job'[j] = job[j]
           /\ job'[k] = IF job[k].status = "absent" THEN job[k] ELSE doc
  BY RecordTypes DEF SetJob

LEMMA SetServiceType ==
    ASSUME ProvTypeOK, NEW k \in Items, NEW st \in ServiceStatus, SetService(k, st)
    PROVE  /\ service' \in [Items -> ServiceStatus]
           /\ \A j \in Items : j # k => service'[j] = service[j]
           /\ service'[k] \in {service[k], st}
  BY RecordTypes DEF SetService

LEMMA GotoType ==
    ASSUME ProvTypeOK, NEW w \in Workers, NEW p \in WorkerPcs, Goto(w, p)
    PROVE  /\ worker' \in [Workers -> WorkerStates]
           /\ \A v \in Workers : v # w => worker'[v] = worker[v]
           /\ worker'[w].pc = p
           /\ worker'[w].todo = worker[w].todo /\ worker'[w].cur = worker[w].cur
  <1>1. worker[w] \in WorkerStates /\ worker \in [Workers -> WorkerStates]
    BY RecordTypes
  <1>2. worker' = [worker EXCEPT ![w] = [worker[w] EXCEPT !.pc = p]]
    BY <1>1 DEF Goto
  <1>3. [worker[w] EXCEPT !.pc = p] \in WorkerStates
    BY <1>1 DEF WorkerStates
  <1>4. worker'[w] = [worker[w] EXCEPT !.pc = p]
    BY <1>1, <1>2
  <1>. QED  BY <1>1, <1>2, <1>3, <1>4 DEF WorkerStates

LEMMA IdleType == Idle \in WorkerStates
  BY DEF Idle, WorkerStates, WorkerPcs

LEMMA ContinueType ==
    ASSUME ProvTypeOK, NEW w \in Workers, Continue(w)
    PROVE  /\ worker' \in [Workers -> WorkerStates]
           /\ \A v \in Workers : v # w => worker'[v] = worker[v]
           /\ worker'[w].pc \in {"idle", "run"}
           /\ worker'[w].todo = worker[w].todo /\ worker'[w].cur = {}
  <1>. DEFINE next == IF worker[w].todo = {} THEN Idle
                      ELSE [worker[w] EXCEPT !.pc = "run", !.cur = {}]
  <1>1. worker[w] \in WorkerStates /\ worker \in [Workers -> WorkerStates]
    BY RecordTypes
  <1>2. worker' = [worker EXCEPT ![w] = next]
    BY <1>1 DEF Continue
  <1>3. /\ next \in WorkerStates
        /\ next.pc \in {"idle", "run"}
        /\ next.todo = worker[w].todo /\ next.cur = {}
    <2>1. CASE worker[w].todo = {}
      BY <2>1, IdleType DEF Idle
    <2>2. CASE worker[w].todo # {}
      BY <1>1, <2>2 DEF WorkerStates, WorkerPcs
    <2>. QED  BY <2>1, <2>2
  <1>4. worker'[w] = next
    BY <1>1, <1>2
  <1>. QED  BY <1>1, <1>2, <1>3, <1>4

LEMMA TriggerGotoType ==
    ASSUME ProvTypeOK, NEW t \in Triggers, NEW p \in TriggerPcs, TriggerGoto(t, p)
    PROVE  /\ trigger' \in [Triggers -> TriggerStates]
           /\ \A u \in Triggers : u # t => trigger'[u] = trigger[u]
           /\ trigger'[t].pc = p /\ trigger'[t].cur = trigger[t].cur
  <1>1. trigger[t] \in TriggerStates /\ trigger \in [Triggers -> TriggerStates]
    BY RecordTypes
  <1>2. trigger' = [trigger EXCEPT ![t] = [trigger[t] EXCEPT !.pc = p]]
    BY <1>1 DEF TriggerGoto
  <1>3. [trigger[t] EXCEPT !.pc = p] \in TriggerStates
    BY <1>1 DEF TriggerStates
  <1>4. trigger'[t] = [trigger[t] EXCEPT !.pc = p]
    BY <1>1, <1>2
  <1>. QED  BY <1>1, <1>2, <1>3, <1>4 DEF TriggerStates

LEMMA TriggerTakeType ==
    ASSUME ProvTypeOK, NEW t \in Triggers, NEW k \in Items, NEW p \in TriggerPcs,
           TriggerTake(t, k, p)
    PROVE  /\ trigger' \in [Triggers -> TriggerStates]
           /\ \A u \in Triggers : u # t => trigger'[u] = trigger[u]
           /\ trigger'[t].pc = p /\ trigger'[t].cur = {k}
  <1>. DEFINE next == [trigger[t] EXCEPT !.pc = p, !.todo = @ \ {k}, !.cur = {k}]
  <1>1. trigger[t] \in TriggerStates /\ trigger \in [Triggers -> TriggerStates]
    BY RecordTypes
  <1>2. trigger' = [trigger EXCEPT ![t] = next]
    BY <1>1 DEF TriggerTake
  <1>3. next \in TriggerStates /\ next.pc = p /\ next.cur = {k}
    BY <1>1 DEF TriggerStates
  <1>. QED  BY <1>1, <1>2, <1>3

-----------------------------------------------------------------------------
(* Type correctness *)

LEMMA TypeInit == Init => ProvTypeOK
  <1>. SUFFICES ASSUME Init
                PROVE  ProvTypeOK
    OBVIOUS
  <1>1. worker \in [Workers -> WorkerStates]
    BY IdleType DEF Init
  <1>2. job \in [Items -> Jobs]
    BY NoJobType DEF Init
  <1>3. trigger \in [Triggers -> TriggerStates]
    BY DEF Init, TriggerStates, TriggerPcs, OrderStatus
  <1>. QED
    BY <1>1, <1>2, <1>3
    DEF Init, ProvTypeOK, WorkerStates, WorkerPcs, TriggerStates, TriggerPcs,
        OrderStatus, ServiceStatus

\* Enough for the types after a step: what it changes
LEMMA TypesMeet ==
    ASSUME ProvTypeOK,
           invoice' = invoice \/ invoice' \in {"UNPAID", "PAID", "CANCELLED"},
           order' = order \/ order' \in OrderStatus,
           service' = service \/ service' \in [Items -> ServiceStatus],
           job' = job \/ job' \in [Items -> Jobs],
           worker' = worker \/ worker' \in [Workers -> WorkerStates],
           trigger' = trigger \/ trigger' \in [Triggers -> TriggerStates],
           admin' = admin \/ admin' \subseteq AdminOps,
           used' = used \/ used' \in Uses,
           history' = history \/ history' \in Histories
    PROVE  ProvTypeOK'
  <1>1. /\ service' \in [Items -> ServiceStatus] /\ job' \in [Items -> Jobs]
        /\ worker' \in [Workers -> WorkerStates] /\ trigger' \in [Triggers -> TriggerStates]
        /\ admin' \subseteq AdminOps /\ used' \in Uses /\ history' \in Histories
    BY RecordTypes
  <1>2. invoice' \in {"UNPAID", "PAID", "CANCELLED"} /\ order' \in OrderStatus
    BY DEF ProvTypeOK
  <1>. QED
    BY <1>1, <1>2
    DEF ProvTypeOK, WorkerStates, WorkerPcs, TriggerStates, TriggerPcs, AdminOps, Uses,
        Histories

\* One more of what a bound counts
LEMMA UsedType ==
    ASSUME ProvTypeOK
    PROVE  /\ [used EXCEPT !.crashes = @ + 1] \in Uses
           /\ [used EXCEPT !.slow = @ + 1] \in Uses
           /\ [used EXCEPT !.faults = @ + 1] \in Uses
           /\ [used EXCEPT !.admin = @ + 1] \in Uses
           /\ [used EXCEPT !.crashes = @ + 1].faults = used.faults
           /\ [used EXCEPT !.slow = @ + 1].faults = used.faults
           /\ [used EXCEPT !.faults = @ + 1].faults = used.faults + 1
           /\ [used EXCEPT !.admin = @ + 1].faults = used.faults
           /\ used.faults \in Nat
  BY RecordTypes DEF Uses

LEMMA FaultCounts ==
    ASSUME ProvTypeOK, used' = [used EXCEPT !.faults = @ + 1]
    PROVE  used' \in Uses /\ used'.faults > 0
  <1>1. used' \in Uses /\ used'.faults = used.faults + 1 /\ used.faults \in Nat
    BY UsedType
  <1>. QED  BY <1>1

LEMMA ReopenType ==
    ASSUME ProvTypeOK, NEW k \in Items, Reopen(k)
    PROVE  /\ history' \in Histories
           /\ history'.paid = history.paid /\ history'.called = history.called
           /\ history'.accepted = history.accepted
           /\ history'.cancelled = history.cancelled
           /\ history'.set = history.set
           /\ history'.reopened = history.reopened \cup {k}
  BY RecordTypes DEF Reopen, Histories

\* A call of the provider for k, and its answer
LEMMA CalledType ==
    ASSUME ProvTypeOK, NEW k \in Items, NEW ok \in BOOLEAN,
           history' = [history EXCEPT !.called = @ \cup {k},
                                      !.accepted = IF ok THEN @ \cup {k} ELSE @]
    PROVE  /\ history' \in Histories
           /\ history'.paid = history.paid /\ history'.called = history.called \cup {k}
           /\ history'.accepted = IF ok THEN history.accepted \cup {k} ELSE history.accepted
           /\ history'.cancelled = history.cancelled
           /\ history'.set = history.set
           /\ history'.reopened = history.reopened
  BY RecordTypes DEF Histories

\* What the update of a lock does, and what it leaves alone
LEMMA LockTypes ==
    ASSUME ProvTypeOK, NEW w \in Workers, Lock(w)
    PROVE  /\ job' \in [Items -> Jobs]
           /\ worker' \in [Workers -> WorkerStates]
           /\ \A v \in Workers : v # w => /\ worker'[v].pc = worker[v].pc
                                          /\ worker'[v].todo = worker[v].todo
                                          /\ worker'[v].cur = worker[v].cur
           /\ worker'[w].pc \in {"idle", "locked"}
           /\ worker'[w].todo = {} /\ worker'[w].cur = {}
           /\ \A k \in Hit(w) : /\ job'[k].status = "RUNNING" /\ job'[k].owner = w
                                /\ ~job'[k].stale
           /\ \A k \in Items \ Hit(w) :
                 /\ job'[k].status = job[k].status /\ job'[k].stale = job[k].stale
                 /\ job'[k].owner = IF job[k].owner = w THEN Nobody ELSE job[k].owner
  <1>1. \A k \in Items : job[k] \in Jobs
    BY RecordTypes
  <1>2. job' = [k \in Items |->
                  IF k \in Hit(w)
                  THEN [job[k] EXCEPT !.status = "RUNNING", !.attempts = job[k].attempts + 1,
                                      !.owner = w, !.stale = FALSE]
                  ELSE [job[k] EXCEPT !.owner = IF job[k].owner = w THEN Nobody ELSE job[k].owner]]
    BY DEF Lock
  <1>3. ASSUME NEW k \in Items
        PROVE  /\ [job[k] EXCEPT !.status = "RUNNING", !.attempts = job[k].attempts + 1,
                                 !.owner = w, !.stale = FALSE] \in Jobs
               /\ [job[k] EXCEPT !.owner = IF job[k].owner = w THEN Nobody ELSE job[k].owner] \in Jobs
    <2>1. \A st \in JobStatus, a \in Int, o \in Workers \cup {Nobody}, b \in BOOLEAN :
             [job[k] EXCEPT !.status = st, !.attempts = a, !.owner = o, !.stale = b] \in Jobs
      BY <1>1 DEF Jobs
    <2>2. /\ "RUNNING" \in JobStatus /\ w \in Workers \cup {Nobody}
          /\ job[k].attempts + 1 \in Int
      BY <1>1 DEF Jobs, JobStatus
    <2>3. FALSE \in BOOLEAN
      OBVIOUS
    <2>4. [job[k] EXCEPT !.status = "RUNNING", !.attempts = job[k].attempts + 1,
                         !.owner = w, !.stale = FALSE] \in Jobs
      BY <2>1, <2>2, <2>3, Zenon
    <2>5. [job[k] EXCEPT !.owner = IF job[k].owner = w THEN Nobody ELSE job[k].owner] \in Jobs
      BY <1>1 DEF Jobs
    <2>. QED  BY <2>4, <2>5
  <1>4. job' \in [Items -> Jobs]
    BY <1>2, <1>3, Zenon
  <1>5. \A k \in Hit(w) : /\ job'[k].status = "RUNNING" /\ job'[k].owner = w
                          /\ ~job'[k].stale
    BY <1>1, <1>2 DEF Jobs, Hit
  <1>6. \A k \in Items \ Hit(w) :
                 /\ job'[k].status = job[k].status /\ job'[k].stale = job[k].stale
                 /\ job'[k].owner = IF job[k].owner = w THEN Nobody ELSE job[k].owner
    BY <1>1, <1>2 DEF Jobs
  <1>. DEFINE After(v) == {IF e[1] \in Hit(w) THEN <<e[1], "QUEUED">> ELSE e : e \in worker[v].found}
              Next1 == IF Hit(w) = {} THEN Idle ELSE [Idle EXCEPT !.pc = "locked"]
  <1>7. worker' = [v \in Workers |->
                     IF v = w THEN Next1 ELSE [worker[v] EXCEPT !.found = After(v)]]
    BY DEF Lock
  <1>8. Next1 \in WorkerStates /\ Next1.pc \in {"idle", "locked"} /\ Next1.todo = {} /\ Next1.cur = {}
    BY DEF Idle, WorkerStates, WorkerPcs
  <1>9. ASSUME NEW v \in Workers
        PROVE  /\ [worker[v] EXCEPT !.found = After(v)] \in WorkerStates
               /\ [worker[v] EXCEPT !.found = After(v)].pc = worker[v].pc
               /\ [worker[v] EXCEPT !.found = After(v)].todo = worker[v].todo
               /\ [worker[v] EXCEPT !.found = After(v)].cur = worker[v].cur
    <2>1. worker[v] \in WorkerStates
      BY RecordTypes
    <2>2. \A e \in worker[v].found : e \in Items \X {"QUEUED", "RUNNING"}
      BY <2>1 DEF WorkerStates
    <2>3. After(v) \subseteq Items \X {"QUEUED", "RUNNING"}
      BY <2>2
    <2>. QED  BY <2>1, <2>3 DEF WorkerStates
  <1>10. \A v \in Workers : worker'[v] \in WorkerStates
    BY <1>7, <1>8, <1>9
  <1>11. worker' \in [Workers -> WorkerStates]
    BY <1>7, <1>10
  <1>. QED  BY <1>4, <1>5, <1>6, <1>7, <1>8, <1>9, <1>11

-----------------------------------------------------------------------------
(* What keeps each part of the invariant *)

\* Nobody takes up a job, and what happens to a held job is that it ends.
LEMMA HandsKept ==
    ASSUME Hands, OneAtATime',
           history.reopened \subseteq history'.reopened,
           \A v \in Workers :
              /\ worker'[v].todo \cup worker'[v].cur \subseteq worker[v].todo \cup worker[v].cur
              /\ worker'[v].pc = "locked" => worker[v].pc = "locked",
           \A k \in Items \ history'.reopened :
              \/ /\ job'[k].status = job[k].status /\ job'[k].owner = job[k].owner
                 /\ job'[k].stale = job[k].stale
              \/ /\ job'[k].status \in {"SUCCESS", "FAILED"}
                 /\ job'[k].owner \in {job[k].owner, Nobody}
              \/ \A v \in Workers :
                    /\ \A c \in worker'[v].todo \cup worker'[v].cur : c[1] # k
                    /\ worker'[v].pc = "locked" => job'[k].owner # v
    PROVE  Hands'
  <1>1. AtomicBatch'
    <2>. SUFFICES ASSUME NEW v \in Workers, NEW w \in Workers, v # w,
                         NEW c \in worker'[v].todo \cup worker'[v].cur,
                         NEW d \in worker'[w].todo \cup worker'[w].cur,
                         c[1] = d[1]
                  PROVE  c[1] \in history'.reopened
      BY DEF AtomicBatch
    <2>1. /\ c \in worker[v].todo \cup worker[v].cur
          /\ d \in worker[w].todo \cup worker[w].cur
      OBVIOUS
    <2>. QED  BY <2>1 DEF Hands, AtomicBatch
  <1>2. HeldIsLocked'
    <2>. SUFFICES ASSUME NEW w \in Workers, NEW k \in Items \ history'.reopened, Holds(w, k)'
                  PROVE  /\ job'[k].status \in {"RUNNING", "SUCCESS", "FAILED"}
                         /\ job'[k].owner \in {w, Nobody}
                         /\ job'[k].status = "RUNNING" => job'[k].owner = w /\ ~job'[k].stale
      BY DEF HeldIsLocked
    <2>1. k \in Items \ history.reopened
      OBVIOUS
    <2>2. CASE /\ job'[k].status = job[k].status /\ job'[k].owner = job[k].owner
               /\ job'[k].stale = job[k].stale
      <3>1. Holds(w, k)
        BY <2>2 DEF Holds, Hand
      <3>. QED  BY <2>1, <2>2, <3>1 DEF Hands, HeldIsLocked
    <2>3. CASE /\ job'[k].status \in {"SUCCESS", "FAILED"}
               /\ job'[k].owner \in {job[k].owner, Nobody}
      <3>1. job'[k].owner = w \/ \E c \in Hand(w) : c[1] = k
        BY DEF Holds, Hand
      <3>2. CASE job'[k].owner = w
        BY <2>3, <3>2
      <3>3. CASE \E c \in Hand(w) : c[1] = k
        <4>1. job[k].owner \in {w, Nobody}
          BY <2>1, <3>3 DEF Hands, HeldIsLocked, Holds
        <4>. QED  BY <2>3, <4>1
      <3>. QED  BY <3>1, <3>2, <3>3
    <2>4. CASE \A v \in Workers :
                    /\ \A c \in worker'[v].todo \cup worker'[v].cur : c[1] # k
                    /\ worker'[v].pc = "locked" => job'[k].owner # v
      BY <2>4 DEF Holds, Hand
    <2>. QED  BY <2>2, <2>3, <2>4
  <1>. QED  BY <1>1, <1>2 DEF Hands

LEMMA OneKept ==
    ASSUME Hands,
           \A v \in Workers : /\ worker'[v].todo \subseteq worker[v].todo
                              /\ worker'[v].cur \subseteq worker[v].cur
    PROVE  /\ OneAtATime'
           /\ \A v \in Workers : worker'[v].todo \cup worker'[v].cur
                                    \subseteq worker[v].todo \cup worker[v].cur
  BY DEF Hands, OneAtATime, Hand

\* A job in hand whose lock was not broken is in no other hand.
LEMMA OnlyHand ==
    ASSUME Hands, NEW w \in Workers, NEW c \in worker[w].cur, c[1] \in Items,
           c[1] \notin history.reopened
    PROVE  /\ \A d \in worker[w].todo : d[1] # c[1]
           /\ \A v \in Workers \ {w} : \A d \in worker[v].todo \cup worker[v].cur : d[1] # c[1]
           /\ job[c[1]].owner \in {w, Nobody}
  <1>1. c \in worker[w].todo \cup worker[w].cur /\ c \in Hand(w)
    BY DEF Hand
  <1>2. \A d \in worker[w].todo : d[1] # c[1]
    BY DEF Hands, OneAtATime, Hand
  <1>3. \A v \in Workers \ {w} : \A d \in worker[v].todo \cup worker[v].cur : d[1] # c[1]
    BY <1>1 DEF Hands, AtomicBatch
  <1>4. job[c[1]].owner \in {w, Nobody}
    BY <1>1 DEF Hands, HeldIsLocked, Holds
  <1>. QED  BY <1>2, <1>3, <1>4

LEMMA UnpaidKept ==
    ASSUME UnpaidAtRest, UnpaidUntouched,
           history'.paid = history.paid,
           invoice' = invoice \/ invoice' # "PAID",
           used.faults > 0 => used'.faults > 0,
           history.cancelled \subseteq history'.cancelled,
           ~history.paid => /\ history'.called = history.called
                            /\ \A t \in Triggers : trigger'[t].pc = "idle",
           ~history.paid => \A v \in Workers :
              \/ worker'[v].pc = worker[v].pc
              \/ worker'[v].pc \in {"idle", "found", "locked", "run", "defer"}
              \/ worker'[v].pc = "requeue" /\ used'.faults > 0,
           ~history.paid => \A k \in Items :
              \/ job'[k].status = job[k].status
              \/ job'[k].status \notin {"SUCCESS", "FAILED"}
              \/ k \in history'.cancelled \/ used'.faults > 0
    PROVE  UnpaidAtRest' /\ UnpaidUntouched'
  <1>1. UnpaidAtRest'
    BY DEF UnpaidAtRest
  <1>2. UnpaidUntouched'
    BY DEF UnpaidUntouched
  <1>. QED  BY <1>1, <1>2

\* The reasons for what workers and administrators write do not go away.
LEMMA ReasonsGrow ==
    ASSUME history.accepted \subseteq history'.accepted,
           history.cancelled \subseteq history'.cancelled,
           history.set \subseteq history'.set
    PROVE  /\ Provisioned \subseteq Provisioned' /\ Resolved \subseteq Resolved'
           /\ history'.accepted \subseteq Provisioned' /\ Provisioned' \subseteq Resolved'
  <1>1. Provisioned \subseteq Provisioned'
    BY DEF Provisioned, SetTo
  <1>2. Resolved \subseteq Resolved'
    BY <1>1 DEF Resolved, SetTo
  <1>3. history'.accepted \subseteq Provisioned' /\ Provisioned' \subseteq Resolved'
    BY DEF Provisioned, Resolved
  <1>. QED  BY <1>1, <1>2, <1>3

LEMMA Reasons ==
    /\ history.accepted \subseteq Resolved /\ history.cancelled \subseteq Resolved
    /\ Provisioned \subseteq Resolved
  BY DEF Provisioned, Resolved

LEMMA ExplainedKept ==
    ASSUME Explained,
           history.accepted \subseteq history'.accepted,
           history.cancelled \subseteq history'.cancelled,
           history.set \subseteq history'.set,
           \A v \in Workers :
              \/ worker'[v].pc = worker[v].pc /\ worker'[v].cur \subseteq worker[v].cur
              \/ worker'[v].pc \notin {"activate", "succeed", "skip"}
              \/ \A c \in worker'[v].cur :
                    \/ c[1] \in history'.accepted
                    \/ worker'[v].pc = "skip" /\ c[1] \in Resolved,
           \A t \in Triggers :
              \/ trigger'[t].pc = trigger[t].pc /\ trigger'[t].cur = trigger[t].cur
              \/ /\ trigger'[t].cur = trigger[t].cur \/ \E k \in Items : trigger'[t].cur \subseteq {k}
                 /\ trigger'[t].pc = "activate" => trigger'[t].cur \subseteq history'.accepted,
           admin' \subseteq admin,
           \A k \in Items :
              \/ service'[k] = service[k]
              \/ service'[k] \notin {"ACTIVE", "SUSPENDED", "TERMINATED", "CANCELLED"}
              \/ service'[k] = "ACTIVE" /\ k \in history'.accepted,
           \A k \in Items :
              \/ job'[k].status = job[k].status
              \/ job'[k].status # "SUCCESS"
              \/ k \in Resolved
    PROVE  Explained'
  <1>0. /\ Provisioned \subseteq Provisioned' /\ Resolved \subseteq Resolved'
        /\ history'.accepted \subseteq Provisioned' /\ history'.accepted \subseteq Resolved'
    BY ReasonsGrow
  <1>1. WorkersExplained'
    <2>. SUFFICES ASSUME NEW v \in Workers, NEW c \in worker'[v].cur
                  PROVE  /\ worker'[v].pc \in {"activate", "succeed"} => c[1] \in history'.accepted
                         /\ worker'[v].pc = "skip" => c[1] \in Resolved'
      BY DEF WorkersExplained
    <2>1. CASE worker'[v].pc = worker[v].pc /\ worker'[v].cur \subseteq worker[v].cur
      BY <1>0, <2>1 DEF Explained, WorkersExplained
    <2>. QED  BY <1>0, <2>1
  <1>2. TriggersExplained'
    <2>. SUFFICES ASSUME NEW t \in Triggers
                  PROVE  /\ \A k, l \in trigger'[t].cur : k = l
                         /\ trigger'[t].pc = "activate" => trigger'[t].cur \subseteq history'.accepted
      BY DEF TriggersExplained
    <2>. QED  BY DEF Explained, TriggersExplained
  <1>3. AdminExplained'
    BY <1>0 DEF Explained, AdminExplained
  <1>4. EndedExplained'
    BY <1>0 DEF Explained, EndedExplained
  <1>5. SuccessExplained'
    BY <1>0 DEF Explained, SuccessExplained
  <1>. QED  BY <1>1, <1>2, <1>3, <1>4, <1>5 DEF Explained

-----------------------------------------------------------------------------
(* Workers *)

\* A step of a worker that touches neither jobs nor its hand: it goes on to p.
LEMMA GotoStep ==
    ASSUME WorkInv, NEW w \in Workers, NEW p \in WorkerPcs \ {"locked"}, Goto(w, p),
           UNCHANGED <<invoice, order, job, trigger, admin>>,
           service' = service \/ service' \in [Items -> ServiceStatus],
           used' = used \/ used' = [used EXCEPT !.faults = @ + 1],
           \/ history' = history
           \/ \E k \in Items, ok \in BOOLEAN :
                 history' = [history EXCEPT !.called = @ \cup {k},
                                            !.accepted = IF ok THEN @ \cup {k} ELSE @],
           history.paid \/ history' = history,
           \/ history.paid
           \/ worker[w].pc = "defer" /\ p = "requeue" /\ used' # used
           \/ worker[w].pc \notin {"defer", "idle", "found", "locked", "run", "requeue"},
           \A c \in worker[w].cur :
              /\ p \in {"activate", "succeed"} => c[1] \in history'.accepted
              /\ p = "skip" => c[1] \in Resolved,
           \A k \in Items :
              \/ service'[k] = service[k]
              \/ service'[k] \notin {"ACTIVE", "SUSPENDED", "TERMINATED", "CANCELLED"}
              \/ service'[k] = "ACTIVE" /\ k \in history'.accepted
    PROVE  WorkInv'
  <1>0. ProvTypeOK /\ Hands /\ UnpaidAtRest /\ UnpaidUntouched /\ Explained
    BY DEF WorkInv
  <1>1. /\ worker' \in [Workers -> WorkerStates]
        /\ \A v \in Workers : v # w => worker'[v] = worker[v]
        /\ worker'[w].pc = p
        /\ worker'[w].todo = worker[w].todo /\ worker'[w].cur = worker[w].cur
    BY <1>0, GotoType
  <1>2. /\ used' \in Uses
        /\ used.faults > 0 => used'.faults > 0
        /\ used' # used => used'.faults > 0
    <2>1. CASE used' = used
      BY <1>0, <2>1, RecordTypes
    <2>2. CASE used' = [used EXCEPT !.faults = @ + 1]
      BY <1>0, <2>2, FaultCounts
    <2>. QED  BY <2>1, <2>2
  <1>3. /\ history' \in Histories
        /\ history'.paid = history.paid
        /\ history.accepted \subseteq history'.accepted
        /\ history'.cancelled = history.cancelled
        /\ history'.set = history.set
        /\ history'.reopened = history.reopened
    BY <1>0, CalledType, RecordTypes
  <1>4. ProvTypeOK'
    BY <1>0, <1>1, <1>2, <1>3, TypesMeet
  <1>5. Hands'
    <2>1. \A v \in Workers : /\ worker'[v].todo \subseteq worker[v].todo
                             /\ worker'[v].cur \subseteq worker[v].cur
                             /\ worker'[v].pc = "locked" => worker[v].pc = "locked"
      BY <1>1
    <2>. QED  BY <1>0, <1>3, <2>1, OneKept, HandsKept
  <1>6. UnpaidAtRest' /\ UnpaidUntouched'
    <2>1. CASE history.paid
      BY <1>3, <2>1 DEF UnpaidAtRest, UnpaidUntouched
    <2>2. CASE ~history.paid
      <3>1. worker[w].pc \in {"idle", "found", "locked", "run", "defer", "requeue"}
        BY <1>0, <2>2 DEF UnpaidAtRest
      <3>2. p = "requeue" /\ used' # used
        BY <2>2, <3>1
      <3>3. \A v \in Workers :
              \/ worker'[v].pc = worker[v].pc
              \/ worker'[v].pc = "requeue" /\ used'.faults > 0
        BY <1>1, <1>2, <3>2
      <3>4. \A t \in Triggers : trigger'[t].pc = "idle"
        BY <1>0, <2>2 DEF UnpaidAtRest
      <3>. QED  BY <1>0, <1>2, <1>3, <2>2, <3>3, <3>4, UnpaidKept
    <2>. QED  BY <2>1, <2>2
  <1>7. Explained'
    BY <1>0, <1>1, <1>3, ExplainedKept
  <1>. QED  BY <1>4, <1>5, <1>6, <1>7 DEF WorkInv

\* A worker settles the job it is at, and goes on to the next of its batch.
LEMMA PutDownStep ==
    ASSUME WorkInv, NEW w \in Workers, NEW c \in worker[w].cur, NEW doc \in Jobs,
           SetJob(c[1], doc), Continue(w),
           UNCHANGED <<invoice, order, service, trigger, admin, used, history>>,
           doc.owner \in {job[c[1]].owner, Nobody},
           doc.status = "SUCCESS" => c[1] \in Resolved,
           \/ history.paid
           \/ used.faults > 0
           \/ doc.status \notin {"SUCCESS", "FAILED"}
    PROVE  WorkInv'
  <1>0. ProvTypeOK /\ Hands /\ UnpaidAtRest /\ UnpaidUntouched /\ Explained
    BY DEF WorkInv
  <1>1. c[1] \in Items
    BY <1>0, EntryType DEF Hand
  <1>2. /\ job' \in [Items -> Jobs]
        /\ \A j \in Items : j # c[1] => job'[j] = job[j]
        /\ job'[c[1]] = IF job[c[1]].status = "absent" THEN job[c[1]] ELSE doc
    BY <1>0, <1>1, SetJobType
  <1>3. /\ worker' \in [Workers -> WorkerStates]
        /\ \A v \in Workers : v # w => worker'[v] = worker[v]
        /\ worker'[w].pc \in {"idle", "run"}
        /\ worker'[w].todo = worker[w].todo /\ worker'[w].cur = {}
    BY <1>0, ContinueType
  <1>4. ProvTypeOK'
    BY <1>0, <1>2, <1>3, TypesMeet
  <1>5. Hands'
    <2>1. \A v \in Workers : /\ worker'[v].todo \subseteq worker[v].todo
                             /\ worker'[v].cur \subseteq worker[v].cur
                             /\ worker'[v].pc = "locked" => worker[v].pc = "locked" /\ v # w
      BY <1>3
    <2>2. ASSUME c[1] \notin history.reopened
          PROVE  \A v \in Workers :
                    /\ \A d \in worker'[v].todo \cup worker'[v].cur : d[1] # c[1]
                    /\ worker'[v].pc = "locked" => job'[c[1]].owner # v
      <3>1. /\ \A d \in worker[w].todo : d[1] # c[1]
            /\ \A v \in Workers \ {w} : \A d \in worker[v].todo \cup worker[v].cur : d[1] # c[1]
            /\ job[c[1]].owner \in {w, Nobody}
        BY <1>0, <1>1, <2>2, OnlyHand
      <3>2. job'[c[1]].owner \in {w, Nobody}
        BY <1>2, <3>1
      <3>. QED  BY <1>3, <2>1, <3>1, <3>2, NobodyAssumption
    <2>3. \A k \in Items \ history'.reopened :
             \/ /\ job'[k].status = job[k].status /\ job'[k].owner = job[k].owner
                /\ job'[k].stale = job[k].stale
             \/ \A v \in Workers :
                   /\ \A d \in worker'[v].todo \cup worker'[v].cur : d[1] # k
                   /\ worker'[v].pc = "locked" => job'[k].owner # v
      BY <1>2, <2>2
    <2>. QED  BY <1>0, <2>1, <2>3, OneKept, HandsKept
  <1>6. UnpaidAtRest' /\ UnpaidUntouched'
    <2>1. CASE history.paid
      BY <2>1 DEF UnpaidAtRest, UnpaidUntouched
    <2>2. CASE ~history.paid
      <3>1. \A v \in Workers : worker'[v].pc = worker[v].pc \/ worker'[v].pc \in {"idle", "run"}
        BY <1>3
      <3>2. \A t \in Triggers : trigger'[t].pc = "idle"
        BY <1>0, <2>2 DEF UnpaidAtRest
      <3>3. \A k \in Items : \/ job'[k].status = job[k].status
                             \/ job'[k].status \notin {"SUCCESS", "FAILED"}
                             \/ used'.faults > 0
        BY <1>2, <2>2
      <3>. QED  BY <1>0, <2>2, <3>1, <3>2, <3>3, UnpaidKept
    <2>. QED  BY <2>1, <2>2
  <1>7. Explained'
    <2>1. \A v \in Workers :
             \/ worker'[v].pc = worker[v].pc /\ worker'[v].cur \subseteq worker[v].cur
             \/ worker'[v].pc \notin {"activate", "succeed", "skip"}
      BY <1>3
    <2>2. \A k \in Items : \/ job'[k].status = job[k].status
                           \/ job'[k].status # "SUCCESS"
                           \/ k \in Resolved
      BY <1>2
    <2>. QED  BY <1>0, <2>1, <2>2, ExplainedKept
  <1>. QED  BY <1>4, <1>5, <1>6, <1>7 DEF WorkInv

\* The documents that a worker leaves behind
LEMMA LeftDocs ==
    ASSUME ProvTypeOK, NEW k \in Items, NEW st \in JobStatus
    PROVE  /\ Finished(k, st).status = st /\ Finished(k, st).owner = Nobody
           /\ Finished(k, st).stale = FALSE
           /\ Settled(k, st).status = st
           /\ Settled(k, st).owner \in {job[k].owner, Nobody}
  <1>1. job[k] \in Jobs
    BY RecordTypes
  <1>. QED  BY <1>1 DEF Finished, Settled, Jobs

LEMMA DeferStep ==
    ASSUME WorkInv, NEW w \in Workers, Defer(w)
    PROVE  WorkInv'
  <1>0. ProvTypeOK
    BY DEF WorkInv
  <1>1. PICK c \in worker[w].cur :
           SetJob(c[1], [Finished(c[1], "QUEUED") EXCEPT
                           !.attempts = IF c[2] > 0 THEN Finished(c[1], "QUEUED").attempts - 1
                                        ELSE Finished(c[1], "QUEUED").attempts])
    BY DEF Defer, SetJob
  <1>. DEFINE left == IF c[2] > 0 THEN Finished(c[1], "QUEUED").attempts - 1
                      ELSE Finished(c[1], "QUEUED").attempts
              doc == [Finished(c[1], "QUEUED") EXCEPT !.attempts = left]
  <1>2. c[1] \in Items /\ "QUEUED" \in JobStatus
    BY <1>0, EntryType DEF Hand, JobStatus
  <1>3. /\ Finished(c[1], "QUEUED") \in Jobs
        /\ Finished(c[1], "QUEUED").status = "QUEUED" /\ Finished(c[1], "QUEUED").owner = Nobody
    BY <1>0, <1>2, DocTypes, LeftDocs
  <1>4. doc \in Jobs /\ doc.status = "QUEUED" /\ doc.owner = Nobody
    <2>1. left \in Int
      BY <1>3 DEF Jobs
    <2>2. \A r \in Jobs, a \in Int :
             /\ [r EXCEPT !.attempts = a] \in Jobs
             /\ [r EXCEPT !.attempts = a].status = r.status
             /\ [r EXCEPT !.attempts = a].owner = r.owner
      BY DEF Jobs
    <2>. HIDE DEF left
    <2>. QED  BY <1>3, <2>1, <2>2
  <1>5. SetJob(c[1], doc)
    BY <1>1
  <1>. HIDE DEF doc
  <1>. QED  BY <1>4, <1>5, PutDownStep DEF Defer

LEMMA SkipStep ==
    ASSUME WorkInv, NEW w \in Workers, Skip(w)
    PROVE  WorkInv'
  <1>0. ProvTypeOK /\ UnpaidAtRest /\ Explained
    BY DEF WorkInv
  <1>1. PICK c \in worker[w].cur : SetJob(c[1], Finished(c[1], "SUCCESS"))
    BY DEF Skip
  <1>2. c[1] \in Items /\ "SUCCESS" \in JobStatus
    BY <1>0, EntryType DEF Hand, JobStatus
  <1>3. /\ Finished(c[1], "SUCCESS") \in Jobs
        /\ Finished(c[1], "SUCCESS").owner = Nobody
    BY <1>0, <1>2, DocTypes, LeftDocs
  <1>4. history.paid /\ c[1] \in Resolved
    BY <1>0 DEF Skip, UnpaidAtRest, Explained, WorkersExplained
  <1>. QED  BY <1>1, <1>3, <1>4, PutDownStep DEF Skip

LEMMA RequeueStep ==
    ASSUME WorkInv, NEW w \in Workers, Requeue(w)
    PROVE  WorkInv'
  <1>0. ProvTypeOK /\ UnpaidAtRest
    BY DEF WorkInv
  <1>1. PICK c \in worker[w].cur : SetJob(c[1], Settled(c[1], Verdict(c[1], c[2])))
    BY DEF Requeue
  <1>2. /\ c[1] \in Items
        /\ Verdict(c[1], c[2]) \in JobStatus /\ Verdict(c[1], c[2]) # "SUCCESS"
    BY <1>0, EntryType DEF Hand, JobStatus, Verdict
  <1>3. \A st \in JobStatus \ {"SUCCESS"} :
           /\ Settled(c[1], st) \in Jobs
           /\ Settled(c[1], st).status # "SUCCESS"
           /\ Settled(c[1], st).owner \in {job[c[1]].owner, Nobody}
    BY <1>0, <1>2, DocTypes, LeftDocs
  <1>4. history.paid \/ used.faults > 0
    BY <1>0 DEF Requeue, UnpaidAtRest
  <1>5. PICK st \in JobStatus \ {"SUCCESS"} : st = Verdict(c[1], c[2])
    BY <1>2
  <1>. QED  BY <1>1, <1>3, <1>4, <1>5, PutDownStep DEF Requeue

\* A worker that looks for jobs takes none in hand yet.
LEMMA FindStep ==
    ASSUME WorkInv, NEW w \in Workers, Find(w)
    PROVE  WorkInv'
  <1>0. ProvTypeOK /\ Hands /\ UnpaidAtRest /\ UnpaidUntouched /\ Explained
    BY DEF WorkInv
  <1>1. PICK B \in SUBSET {k \in Items : Queued(k) \/ Stale(k)} :
           worker' = [worker EXCEPT ![w] =
                        [Idle EXCEPT !.pc = "found", !.found = {<<k, job[k].status>> : k \in B}]]
    BY DEF Find
  <1>2. {<<k, job[k].status>> : k \in B} \subseteq Items \X {"QUEUED", "RUNNING"}
    BY DEF Queued, Stale
  <1>. DEFINE next == [Idle EXCEPT !.pc = "found", !.found = {<<k, job[k].status>> : k \in B}]
  <1>3. next \in WorkerStates /\ next.pc = "found" /\ next.todo = {} /\ next.cur = {}
    BY <1>2 DEF Idle, WorkerStates, WorkerPcs
  <1>4. /\ worker' \in [Workers -> WorkerStates]
        /\ \A v \in Workers : worker'[v] = IF v = w THEN next ELSE worker[v]
    BY <1>0, <1>1, <1>3, RecordTypes
  <1>5. UNCHANGED <<invoice, order, service, job, trigger, admin, used, history>>
    BY DEF Find
  <1>6. ProvTypeOK'
    BY <1>0, <1>4, <1>5, TypesMeet
  <1>. HIDE DEF next
  <1>7. \A v \in Workers : /\ worker'[v].todo \subseteq worker[v].todo
                           /\ worker'[v].cur \subseteq worker[v].cur
                           /\ worker'[v].pc = worker[v].pc \/ worker'[v].pc = "found"
    BY <1>3, <1>4
  <1>8. Hands'
    BY <1>0, <1>5, <1>7, OneKept, HandsKept
  <1>9. UnpaidAtRest' /\ UnpaidUntouched'
    BY <1>0, <1>5, <1>7, UnpaidKept DEF UnpaidAtRest
  <1>10. Explained'
    BY <1>0, <1>5, <1>7, ExplainedKept
  <1>. QED  BY <1>6, <1>8, <1>9, <1>10 DEF WorkInv

\* The lock is taken only of jobs nobody holds: whoever held one of them had
\* its lock go stale, or somebody queued it again.
LEMMA LockStep ==
    ASSUME WorkInv, NEW w \in Workers, Lock(w)
    PROVE  WorkInv'
  <1>0. ProvTypeOK /\ Hands /\ UnpaidAtRest /\ UnpaidUntouched /\ Explained
    BY DEF WorkInv
  <1>1. /\ job' \in [Items -> Jobs]
        /\ worker' \in [Workers -> WorkerStates]
        /\ \A v \in Workers : v # w => /\ worker'[v].pc = worker[v].pc
                                       /\ worker'[v].todo = worker[v].todo
                                       /\ worker'[v].cur = worker[v].cur
        /\ worker'[w].pc \in {"idle", "locked"}
        /\ worker'[w].todo = {} /\ worker'[w].cur = {}
        /\ \A k \in Hit(w) : /\ job'[k].status = "RUNNING" /\ job'[k].owner = w
                             /\ ~job'[k].stale
        /\ \A k \in Items \ Hit(w) :
              /\ job'[k].status = job[k].status /\ job'[k].stale = job[k].stale
              /\ job'[k].owner = IF job[k].owner = w THEN Nobody ELSE job[k].owner
    BY <1>0, LockTypes
  <1>2. UNCHANGED <<invoice, order, service, trigger, admin, used, history>>
    BY DEF Lock
  <1>3. ProvTypeOK'
    BY <1>0, <1>1, <1>2, TypesMeet
  <1>4. Hands'
    <2>1. OneAtATime' /\ AtomicBatch'
      <3>1. \A v \in Workers : /\ worker'[v].todo \subseteq worker[v].todo
                               /\ worker'[v].cur \subseteq worker[v].cur
        BY <1>1
      <3>2. OneAtATime'
        BY <1>0, <3>1, OneKept
      <3>3. AtomicBatch'
        BY <1>0, <1>2, <3>1 DEF Hands, AtomicBatch
      <3>. QED  BY <3>2, <3>3
    <2>2. ASSUME NEW v \in Workers, NEW k \in Items \ history'.reopened, Holds(v, k)'
          PROVE  /\ job'[k].status \in {"RUNNING", "SUCCESS", "FAILED"}
                 /\ job'[k].owner \in {v, Nobody}
                 /\ job'[k].status = "RUNNING" => job'[k].owner = v /\ ~job'[k].stale
      <3>1. CASE v = w
        <4>1. job'[k].owner = w
          BY <1>1, <2>2, <3>1 DEF Holds, Hand
        <4>2. k \in Hit(w)
          BY <1>1, <4>1, NobodyAssumption
        <4>. QED  BY <1>1, <3>1, <4>2
      <3>2. CASE v # w
        <4>1. Holds(v, k) \/ k \in Hit(w)
          BY <1>1, <2>2, <3>2, NobodyAssumption DEF Holds, Hand
        <4>2. k \in Hit(w) => ~Holds(v, k)
          BY <1>0, <1>2 DEF Hit, Queued, Stale, Hands, HeldIsLocked
        <4>3. k \in Hit(w) => job'[k].owner = w /\ w # v
          BY <1>1, <3>2
        <4>4. k \notin Hit(w)
          BY <1>1, <2>2, <3>2, <4>2, <4>3 DEF Holds, Hand
        <4>5. Holds(v, k)
          BY <4>1, <4>4
        <4>6. /\ job[k].status \in {"RUNNING", "SUCCESS", "FAILED"}
              /\ job[k].owner \in {v, Nobody}
              /\ job[k].status = "RUNNING" => job[k].owner = v /\ ~job[k].stale
          BY <1>0, <1>2, <4>5 DEF Hands, HeldIsLocked
        <4>. QED  BY <1>1, <3>2, <4>4, <4>6
      <3>. QED  BY <3>1, <3>2
    <2>3. HeldIsLocked'
      BY <2>2 DEF HeldIsLocked
    <2>. QED  BY <2>1, <2>3 DEF Hands
  <1>5. UnpaidAtRest' /\ UnpaidUntouched'
    <2>1. \A v \in Workers : worker'[v].pc = worker[v].pc \/ worker'[v].pc \in {"idle", "locked"}
      BY <1>1
    <2>2. \A k \in Items : \/ job'[k].status = job[k].status
                           \/ job'[k].status \notin {"SUCCESS", "FAILED"}
      BY <1>1
    <2>. QED  BY <1>0, <1>2, <2>1, <2>2, UnpaidKept DEF UnpaidAtRest
  <1>6. Explained'
    <2>1. \A v \in Workers :
             \/ worker'[v].pc = worker[v].pc /\ worker'[v].cur \subseteq worker[v].cur
             \/ worker'[v].pc \notin {"activate", "succeed", "skip"}
      BY <1>1
    <2>2. \A k \in Items : job'[k].status = job[k].status \/ job'[k].status # "SUCCESS"
      BY <1>1
    <2>. QED  BY <1>0, <1>2, <2>1, <2>2, ExplainedKept
  <1>. QED  BY <1>3, <1>4, <1>5, <1>6 DEF WorkInv

\* What is loaded is what bears the worker's lock, so it is in no other hand.
LEMMA LoadStep ==
    ASSUME WorkInv, NEW w \in Workers, Load(w)
    PROVE  WorkInv'
  <1>. DEFINE mine == {k \in Items : job[k].owner = w /\ job[k].status # "absent"}
              batch == {<<k, job[k].attempts>> : k \in mine}
              next == IF mine = {} THEN Idle ELSE [Idle EXCEPT !.pc = "run", !.todo = batch]
  <1>0. ProvTypeOK /\ Hands /\ UnpaidAtRest /\ UnpaidUntouched /\ Explained
    BY DEF WorkInv
  <1>1. worker' = [worker EXCEPT ![w] = next]
    BY DEF Load
  <1>2. /\ worker[w].pc = "locked"
        /\ UNCHANGED <<invoice, order, service, job, trigger, admin, used, history>>
    BY DEF Load
  <1>3. batch \subseteq Items \X Int /\ \A c, d \in batch : c[1] = d[1] => c = d
    BY <1>0, RecordTypes DEF Jobs
  <1>4. \A c \in batch : /\ c[1] \in Items
                         /\ job[c[1]].owner = w /\ job[c[1]].status # "absent"
    OBVIOUS
  <1>. HIDE DEF batch
  <1>5. /\ next \in WorkerStates /\ next.pc \in {"idle", "run"}
        /\ next.todo \subseteq batch /\ next.cur = {}
    BY <1>3 DEF Idle, WorkerStates, WorkerPcs
  <1>. HIDE DEF next
  <1>6. /\ worker' \in [Workers -> WorkerStates]
        /\ \A v \in Workers : worker'[v] = IF v = w THEN next ELSE worker[v]
    BY <1>0, <1>1, <1>5, RecordTypes
  <1>7. ProvTypeOK'
    BY <1>0, <1>2, <1>6, TypesMeet
  <1>8. Hands'
    <2>1. OneAtATime'
      <3>1. \A v \in Workers : v # w => Hand(v)' = Hand(v) /\ worker'[v] = worker[v]
        BY <1>6 DEF Hand
      <3>2. /\ worker'[w].cur = {} /\ worker'[w].todo \subseteq batch /\ Hand(w)' \subseteq batch
        BY <1>5, <1>6 DEF Hand
      <3>. QED  BY <1>0, <1>3, <3>1, <3>2 DEF Hands, OneAtATime
    <2>2. \A c \in batch : Holds(w, c[1])
      BY <1>2, <1>4 DEF Holds
    <2>3. \A c \in batch : c[1] \notin history.reopened =>
             \A v \in Workers \ {w} : \A d \in Hand(v) : d[1] # c[1]
      BY <1>0, <1>4, NobodyAssumption DEF Hands, HeldIsLocked, Holds
    <2>4. AtomicBatch'
      <3>. SUFFICES ASSUME NEW u \in Workers, NEW v \in Workers, u # v,
                           NEW c \in worker'[u].todo \cup worker'[u].cur,
                           NEW d \in worker'[v].todo \cup worker'[v].cur,
                           c[1] = d[1]
                    PROVE  c[1] \in history.reopened
        BY <1>2 DEF AtomicBatch
      <3>1. CASE u = w
        <4>1. c \in batch /\ d \in Hand(v)
          BY <1>5, <1>6, <3>1 DEF Hand
        <4>. QED  BY <2>3, <3>1, <4>1
      <3>2. CASE v = w
        <4>1. d \in batch /\ c \in Hand(u)
          BY <1>5, <1>6, <3>2 DEF Hand
        <4>. QED  BY <2>3, <3>2, <4>1
      <3>3. CASE u # w /\ v # w
        BY <1>0, <1>6, <3>3 DEF Hands, AtomicBatch
      <3>. QED  BY <3>1, <3>2, <3>3
    <2>5. HeldIsLocked'
      <3>1. ASSUME NEW v \in Workers, NEW k \in Items, Holds(v, k)'
            PROVE  Holds(v, k)
        <4>1. CASE v = w
          <5>1. PICK c \in worker'[w].todo \cup worker'[w].cur : c[1] = k
            BY <1>5, <1>6, <3>1, <4>1 DEF Holds, Hand
          <5>2. c \in batch
            BY <1>5, <1>6, <5>1
          <5>. QED  BY <2>2, <4>1, <5>1, <5>2
        <4>2. CASE v # w
          BY <1>2, <1>6, <3>1, <4>2 DEF Holds, Hand
        <4>. QED  BY <4>1, <4>2
      <3>. QED  BY <1>0, <1>2, <3>1 DEF Hands, HeldIsLocked
    <2>. QED  BY <2>1, <2>4, <2>5 DEF Hands
  <1>9. UnpaidAtRest' /\ UnpaidUntouched'
    <2>1. \A v \in Workers : worker'[v].pc = worker[v].pc \/ worker'[v].pc \in {"idle", "run"}
      BY <1>5, <1>6
    <2>. QED  BY <1>0, <1>2, <2>1, UnpaidKept DEF UnpaidAtRest
  <1>10. Explained'
    <2>1. \A v \in Workers :
             \/ worker'[v].pc = worker[v].pc /\ worker'[v].cur \subseteq worker[v].cur
             \/ worker'[v].pc \notin {"activate", "succeed", "skip"}
      BY <1>5, <1>6
    <2>. QED  BY <1>0, <1>2, <2>1, ExplainedKept
  <1>. QED  BY <1>7, <1>8, <1>9, <1>10 DEF WorkInv

\* The look at the invoice comes before anything is done for a job.
LEMMA CheckInvoiceStep ==
    ASSUME WorkInv, NEW w \in Workers, CheckInvoice(w)
    PROVE  WorkInv'
  <1>0. ProvTypeOK /\ Hands /\ UnpaidAtRest /\ UnpaidUntouched /\ Explained
    BY DEF WorkInv
  <1>1. PICK c \in worker[w].todo, p \in {"defer", "read"} :
           /\ worker' = [worker EXCEPT ![w].todo = @ \ {c}, ![w].cur = {c}, ![w].pc = p]
           /\ p = "read" => invoice = "PAID"
    BY DEF CheckInvoice, NotFullyPaid
  <1>2. UNCHANGED <<invoice, order, service, job, trigger, admin, used, history>>
    BY DEF CheckInvoice
  <1>. DEFINE next == [worker[w] EXCEPT !.todo = @ \ {c}, !.cur = {c}, !.pc = p]
  <1>3. worker' = [worker EXCEPT ![w] = next]
    BY <1>0, <1>1, RecordTypes
  <1>4. /\ next \in WorkerStates /\ next.pc = p
        /\ next.todo = worker[w].todo \ {c} /\ next.cur = {c}
    <2>1. worker[w] \in WorkerStates
      BY <1>0, RecordTypes
    <2>2. c \in Items \X Int
      BY <2>1 DEF WorkerStates
    <2>. QED  BY <2>1, <2>2 DEF WorkerStates, WorkerPcs
  <1>. HIDE DEF next
  <1>5. /\ worker' \in [Workers -> WorkerStates]
        /\ \A v \in Workers : worker'[v] = IF v = w THEN next ELSE worker[v]
    BY <1>0, <1>3, <1>4, RecordTypes
  <1>6. ProvTypeOK'
    BY <1>0, <1>2, <1>5, TypesMeet
  <1>7. Hands'
    <2>1. \A v \in Workers :
             /\ worker'[v].todo \cup worker'[v].cur \subseteq worker[v].todo \cup worker[v].cur
             /\ worker'[v].pc = "locked" => worker[v].pc = "locked"
      BY <1>4, <1>5
    <2>2. OneAtATime'
      <3>1. \A v \in Workers : v # w => worker'[v] = worker[v]
        BY <1>5
      <3>2. /\ worker'[w].todo = worker[w].todo \ {c} /\ worker'[w].cur = {c}
        BY <1>4, <1>5
      <3>. QED  BY <1>0, <2>1, <3>1, <3>2 DEF Hands, OneAtATime, Hand
    <2>. QED  BY <1>0, <1>2, <2>1, <2>2, HandsKept
  <1>8. UnpaidAtRest' /\ UnpaidUntouched'
    <2>1. ~history.paid => p = "defer"
      BY <1>0, <1>1 DEF UnpaidAtRest
    <2>2. ~history.paid =>
             \A v \in Workers : worker'[v].pc = worker[v].pc \/ worker'[v].pc = "defer"
      BY <1>4, <1>5, <2>1
    <2>. QED  BY <1>0, <1>2, <2>2, UnpaidKept DEF UnpaidAtRest
  <1>9. Explained'
    <2>1. \A v \in Workers :
             \/ worker'[v].pc = worker[v].pc /\ worker'[v].cur \subseteq worker[v].cur
             \/ worker'[v].pc \notin {"activate", "succeed", "skip"}
      BY <1>4, <1>5
    <2>. QED  BY <1>0, <1>2, <2>1, ExplainedKept
  <1>. QED  BY <1>6, <1>7, <1>8, <1>9 DEF WorkInv

\* A service found past provisioning was accepted, cancelled or set so before.
LEMMA ReadServiceStep ==
    ASSUME WorkInv, NEW w \in Workers, ReadService(w)
    PROVE  WorkInv'
  <1>0. ProvTypeOK /\ Hands /\ UnpaidAtRest /\ Explained
    BY DEF WorkInv
  <1>1. PICK c \in worker[w].cur :
           Goto(w, CASE service[c[1]] \in {"ACTIVE", "SUSPENDED", "TERMINATED", "CANCELLED"} -> "skip"
                     [] service[c[1]] = "PROVISIONING" -> "call"
                     [] service[c[1]] = "none" -> "make"
                     [] service[c[1]] \in {"PENDING", "FAILED"} -> "mark")
    BY DEF ReadService
  <1>2. c[1] \in Items
    BY <1>0, EntryType DEF Hand
  <1>3. service[c[1]] \in ServiceStatus
    BY <1>0, <1>2, RecordTypes
  <1>4. PICK p \in {"skip", "call", "make", "mark"} :
           /\ Goto(w, p)
           /\ p = "skip" => service[c[1]] \in {"ACTIVE", "SUSPENDED", "TERMINATED", "CANCELLED"}
    BY <1>1, <1>3 DEF ServiceStatus
  <1>5. p \in WorkerPcs \ {"locked"}
    BY DEF WorkerPcs
  <1>6. \A d \in worker[w].cur : d = c
    BY <1>0 DEF Hands, OneAtATime
  <1>7. p = "skip" => c[1] \in Resolved
    BY <1>0, <1>2, <1>4, Reasons DEF Explained, EndedExplained, SuccessExplained
  <1>8. worker[w].pc = "read"
        /\ UNCHANGED <<invoice, order, service, job, trigger, admin, used, history>>
    BY DEF ReadService
  <1>. QED  BY <1>4, <1>5, <1>6, <1>7, <1>8, GotoStep

LEMMA MakeStep ==
    ASSUME WorkInv, NEW w \in Workers, Make(w)
    PROVE  WorkInv'
  <1>0. ProvTypeOK
    BY DEF WorkInv
  <1>1. PICK c \in worker[w].cur : service' = [service EXCEPT ![c[1]] = "PROVISIONING"]
    BY DEF Make
  <1>2. c[1] \in Items
    BY <1>0, EntryType DEF Hand
  <1>3. /\ service' \in [Items -> ServiceStatus]
        /\ \A k \in Items : service'[k] = service[k] \/ service'[k] = "PROVISIONING"
    BY <1>0, <1>1, <1>2, RecordTypes DEF ServiceStatus
  <1>4. "call" \in WorkerPcs \ {"locked"}
    BY DEF WorkerPcs
  <1>5. /\ worker[w].pc = "make" /\ Goto(w, "call")
        /\ UNCHANGED <<invoice, order, job, trigger, admin, used, history>>
    BY DEF Make
  <1>. QED  BY <1>3, <1>4, <1>5, GotoStep

LEMMA MarkStep ==
    ASSUME WorkInv, NEW w \in Workers, Mark(w)
    PROVE  WorkInv'
  <1>0. ProvTypeOK
    BY DEF WorkInv
  <1>1. PICK c \in worker[w].cur, p \in {"requeue", "call"} :
           SetService(c[1], "PROVISIONING") /\ Goto(w, p)
    BY DEF Mark
  <1>2. c[1] \in Items /\ "PROVISIONING" \in ServiceStatus
    BY <1>0, EntryType DEF Hand, ServiceStatus
  <1>3. /\ service' \in [Items -> ServiceStatus]
        /\ \A k \in Items : service'[k] = service[k] \/ service'[k] = "PROVISIONING"
    BY <1>0, <1>1, <1>2, SetServiceType
  <1>4. p \in WorkerPcs \ {"locked"}
    BY DEF WorkerPcs
  <1>5. /\ worker[w].pc = "mark"
        /\ UNCHANGED <<invoice, order, job, trigger, admin, used, history>>
    BY DEF Mark
  <1>. QED  BY <1>1, <1>3, <1>4, <1>5, GotoStep

LEMMA CallStep ==
    ASSUME WorkInv, NEW w \in Workers, Call(w)
    PROVE  WorkInv'
  <1>0. ProvTypeOK /\ Hands /\ UnpaidAtRest
    BY DEF WorkInv
  <1>1. PICK c \in worker[w].cur, ok \in BOOLEAN :
           /\ history' = [history EXCEPT !.called = @ \cup {c[1]},
                                         !.accepted = IF ok THEN @ \cup {c[1]} ELSE @]
           /\ Goto(w, IF ok THEN "activate" ELSE "fail")
    BY DEF Call
  <1>2. c[1] \in Items
    BY <1>0, EntryType DEF Hand
  <1>3. ok => c[1] \in history'.accepted
    <2>1. history'.accepted = IF ok THEN history.accepted \cup {c[1]} ELSE history.accepted
      BY <1>0, <1>1, <1>2, CalledType
    <2>. QED  BY <2>1
  <1>4. PICK p \in {"activate", "fail"} : Goto(w, p) /\ (p = "activate" => ok)
    BY <1>1
  <1>5. p \in WorkerPcs \ {"locked"}
    BY DEF WorkerPcs
  <1>6. \A d \in worker[w].cur : d = c
    BY <1>0 DEF Hands, OneAtATime
  <1>7. /\ worker[w].pc = "call"
        /\ UNCHANGED <<invoice, order, service, job, trigger, admin, used>>
    BY DEF Call
  <1>8. history.paid
    BY <1>0, <1>7 DEF UnpaidAtRest
  <1>. QED  BY <1>1, <1>2, <1>3, <1>4, <1>5, <1>6, <1>7, <1>8, GotoStep

LEMMA ActivateStep ==
    ASSUME WorkInv, NEW w \in Workers, Activate(w)
    PROVE  WorkInv'
  <1>0. ProvTypeOK /\ Explained
    BY DEF WorkInv
  <1>1. PICK c \in worker[w].cur : SetService(c[1], "ACTIVE")
    BY DEF Activate
  <1>2. c[1] \in Items /\ "ACTIVE" \in ServiceStatus
    BY <1>0, EntryType DEF Hand, ServiceStatus
  <1>3. /\ worker[w].pc = "activate" /\ Goto(w, "succeed")
        /\ UNCHANGED <<invoice, order, job, trigger, admin, used, history>>
    BY DEF Activate
  <1>4. \A d \in worker[w].cur : d[1] \in history.accepted
    BY <1>0, <1>3 DEF Explained, WorkersExplained
  <1>5. /\ service' \in [Items -> ServiceStatus]
        /\ \A k \in Items : \/ service'[k] = service[k]
                            \/ service'[k] = "ACTIVE" /\ k \in history.accepted
    BY <1>0, <1>1, <1>2, <1>4, SetServiceType
  <1>6. "succeed" \in WorkerPcs \ {"locked"}
    BY DEF WorkerPcs
  <1>. QED  BY <1>3, <1>4, <1>5, <1>6, GotoStep

LEMMA FailStep ==
    ASSUME WorkInv, NEW w \in Workers, Fail(w)
    PROVE  WorkInv'
  <1>0. ProvTypeOK
    BY DEF WorkInv
  <1>1. PICK c \in worker[w].cur : SetService(c[1], "FAILED")
    BY DEF Fail
  <1>2. c[1] \in Items /\ "FAILED" \in ServiceStatus
    BY <1>0, EntryType DEF Hand, ServiceStatus
  <1>3. /\ service' \in [Items -> ServiceStatus]
        /\ \A k \in Items : service'[k] = service[k] \/ service'[k] = "FAILED"
    BY <1>0, <1>1, <1>2, SetServiceType
  <1>4. "requeue" \in WorkerPcs \ {"locked"}
    BY DEF WorkerPcs
  <1>5. /\ worker[w].pc = "fail" /\ Goto(w, "requeue")
        /\ UNCHANGED <<invoice, order, job, trigger, admin, used, history>>
    BY DEF Fail
  <1>. QED  BY <1>3, <1>4, <1>5, GotoStep

LEMMA StepFailsStep ==
    ASSUME WorkInv, NEW w \in Workers, StepFails(w)
    PROVE  WorkInv'
  <1>0. ProvTypeOK /\ UnpaidAtRest
    BY DEF WorkInv
  <1>1. /\ used' = [used EXCEPT !.faults = @ + 1]
        /\ UNCHANGED <<invoice, order, service, job, trigger, admin, history>>
    BY DEF StepFails
  <1>2. used' # used
    <2>1. used'.faults = used.faults + 1 /\ used.faults \in Nat
      BY <1>0, <1>1, UsedType
    <2>. QED  BY <2>1
  <1>3. PICK p \in {"requeue", "fail"} :
           /\ Goto(w, p)
           /\ \/ worker[w].pc \in {"defer", "read", "skip", "make", "mark"} /\ p = "requeue"
              \/ worker[w].pc \in {"activate", "succeed", "finalize"} /\ p = "fail"
    BY DEF StepFails
  <1>4. p \in WorkerPcs \ {"locked"}
    BY DEF WorkerPcs
  <1>. QED  BY <1>1, <1>2, <1>3, <1>4, GotoStep

\* The job has ended, but its worker has it in hand until the order is settled.
LEMMA SucceedStep ==
    ASSUME WorkInv, NEW w \in Workers, Succeed(w)
    PROVE  WorkInv'
  <1>0. ProvTypeOK /\ Hands /\ UnpaidAtRest /\ UnpaidUntouched /\ Explained
    BY DEF WorkInv
  <1>1. PICK c \in worker[w].cur : SetJob(c[1], Finished(c[1], "SUCCESS"))
    BY DEF Succeed
  <1>2. c[1] \in Items /\ "SUCCESS" \in JobStatus
    BY <1>0, EntryType DEF Hand, JobStatus
  <1>3. /\ worker[w].pc = "succeed" /\ Goto(w, "finalize")
        /\ UNCHANGED <<invoice, order, service, trigger, admin, used, history>>
    BY DEF Succeed
  <1>4. history.paid /\ c[1] \in history.accepted
    BY <1>0, <1>3 DEF UnpaidAtRest, Explained, WorkersExplained
  <1>5. /\ job' \in [Items -> Jobs]
        /\ \A k \in Items :
              \/ job'[k] = job[k]
              \/ k = c[1] /\ job'[k].status = "SUCCESS" /\ job'[k].owner = Nobody
    <2>1. Finished(c[1], "SUCCESS") \in Jobs
      BY <1>0, <1>2, DocTypes
    <2>2. Finished(c[1], "SUCCESS").status = "SUCCESS" /\ Finished(c[1], "SUCCESS").owner = Nobody
      BY <1>0, <1>2, LeftDocs
    <2>3. /\ job' \in [Items -> Jobs]
          /\ \A j \in Items : j # c[1] => job'[j] = job[j]
          /\ job'[c[1]] = IF job[c[1]].status = "absent" THEN job[c[1]] ELSE Finished(c[1], "SUCCESS")
      BY <1>0, <1>1, <1>2, <2>1, SetJobType
    <2>. QED  BY <2>2, <2>3
  <1>6. /\ worker' \in [Workers -> WorkerStates]
        /\ \A v \in Workers :
              /\ worker'[v].todo = worker[v].todo /\ worker'[v].cur = worker[v].cur
              /\ worker'[v].pc = worker[v].pc \/ worker'[v].pc = "finalize"
    <2>1. "finalize" \in WorkerPcs
      BY DEF WorkerPcs
    <2>. QED  BY <1>0, <1>3, <2>1, GotoType
  <1>7. ProvTypeOK'
    BY <1>0, <1>3, <1>5, <1>6, TypesMeet
  <1>8. Hands'
    BY <1>0, <1>3, <1>5, <1>6, OneKept, HandsKept
  <1>9. UnpaidAtRest' /\ UnpaidUntouched'
    BY <1>3, <1>4 DEF UnpaidAtRest, UnpaidUntouched
  <1>10. Explained'
    <2>1. \A k \in Items : job'[k].status = job[k].status \/ k \in Resolved
      BY <1>4, <1>5, Reasons
    <2>. QED  BY <1>0, <1>3, <1>6, <2>1, ExplainedKept
  <1>. QED  BY <1>7, <1>8, <1>9, <1>10 DEF WorkInv

LEMMA FinalizeStep ==
    ASSUME WorkInv, NEW w \in Workers, Finalize(w)
    PROVE  WorkInv'
  <1>0. ProvTypeOK /\ Hands /\ UnpaidAtRest /\ UnpaidUntouched /\ Explained
    BY DEF WorkInv
  <1>1. /\ worker[w].pc = "finalize" /\ Continue(w)
        /\ order' \in OrderStatus
        /\ UNCHANGED <<invoice, service, job, trigger, admin, used, history>>
    BY DEF Finalize, OrderStatus
  <1>2. /\ worker' \in [Workers -> WorkerStates]
        /\ \A v \in Workers :
              /\ worker'[v].todo \subseteq worker[v].todo
              /\ worker'[v].cur \subseteq worker[v].cur
              /\ worker'[v].pc = worker[v].pc \/ worker'[v].pc \in {"idle", "run"}
    BY <1>0, <1>1, ContinueType
  <1>3. ProvTypeOK'
    BY <1>0, <1>1, <1>2, TypesMeet
  <1>4. Hands'
    BY <1>0, <1>1, <1>2, OneKept, HandsKept
  <1>5. UnpaidAtRest' /\ UnpaidUntouched'
    BY <1>0, <1>1, <1>2, UnpaidKept DEF UnpaidAtRest
  <1>6. Explained'
    BY <1>0, <1>1, <1>2, ExplainedKept
  <1>. QED  BY <1>3, <1>4, <1>5, <1>6 DEF WorkInv

\* The locks of a dead worker stay, without anybody who will look for them.
LEMMA CrashStep ==
    ASSUME WorkInv, NEW w \in Workers, Crash(w)
    PROVE  WorkInv'
  <1>0. ProvTypeOK /\ Hands /\ UnpaidAtRest /\ UnpaidUntouched /\ Explained
    BY DEF WorkInv
  <1>1. /\ used' = [used EXCEPT !.crashes = @ + 1]
        /\ UNCHANGED <<invoice, order, service, trigger, admin, history>>
    BY DEF Crash
  <1>2. used' \in Uses /\ used'.faults = used.faults
    BY <1>0, <1>1, UsedType
  <1>3. /\ worker' \in [Workers -> WorkerStates]
        /\ \A v \in Workers : worker'[v] = IF v = w THEN Idle ELSE worker[v]
    BY <1>0, IdleType, RecordTypes DEF Crash
  <1>4. /\ job' \in [Items -> Jobs]
        /\ \A k \in Items :
              /\ job'[k].status = job[k].status /\ job'[k].stale = job[k].stale
              /\ job'[k].owner = IF job[k].owner = w THEN Nobody ELSE job[k].owner
    <2>1. \A k \in Items : job[k] \in Jobs
      BY <1>0, RecordTypes
    <2>. QED  BY <2>1 DEF Crash, Jobs
  <1>5. /\ Idle.pc = "idle" /\ Idle.todo = {} /\ Idle.cur = {}
    BY DEF Idle
  <1>6. \A v \in Workers : /\ worker'[v].todo \subseteq worker[v].todo
                           /\ worker'[v].cur \subseteq worker[v].cur
                           /\ \/ worker'[v].pc = worker[v].pc /\ v # w
                              \/ worker'[v].pc = "idle"
    BY <1>3, <1>5
  <1>7. ProvTypeOK'
    BY <1>0, <1>1, <1>2, <1>3, <1>4, TypesMeet
  <1>8. Hands'
    <2>1. ASSUME NEW k \in Items \ history'.reopened, job[k].owner = w
          PROVE  \/ /\ job'[k].status \in {"SUCCESS", "FAILED"}
                    /\ job'[k].owner = Nobody
                 \/ \A v \in Workers :
                       /\ \A c \in worker'[v].todo \cup worker'[v].cur : c[1] # k
                       /\ worker'[v].pc = "locked" => job'[k].owner # v
      <3>1. ASSUME NEW v \in Workers, NEW c \in worker'[v].todo \cup worker'[v].cur, c[1] = k
            PROVE  job'[k].status \in {"SUCCESS", "FAILED"}
        <4>1. v # w /\ c \in Hand(v)
          BY <1>3, <1>5, <3>1 DEF Hand
        <4>2. Holds(v, k)
          BY <3>1, <4>1 DEF Holds
        <4>. QED  BY <1>0, <1>1, <1>4, <2>1, <4>1, <4>2 DEF Hands, HeldIsLocked
      <3>. QED  BY <1>4, <2>1, <3>1, NobodyAssumption
    <2>. QED  BY <1>0, <1>1, <1>4, <1>6, <2>1, OneKept, HandsKept
  <1>9. UnpaidAtRest' /\ UnpaidUntouched'
    BY <1>0, <1>1, <1>2, <1>4, <1>6, UnpaidKept DEF UnpaidAtRest
  <1>10. Explained'
    BY <1>0, <1>1, <1>4, <1>6, ExplainedKept
  <1>. QED  BY <1>7, <1>8, <1>9, <1>10 DEF WorkInv

\* A lock is lost only after its call died; then the job is in no hand.
LEMMA LostLockStep ==
    ASSUME WorkInv, NEW l \in Items, LostLockGoesStale(l)
    PROVE  WorkInv'
  <1>0. ProvTypeOK /\ Hands /\ UnpaidAtRest /\ UnpaidUntouched /\ Explained
    BY DEF WorkInv
  <1>1. /\ job[l].status = "RUNNING" /\ job[l].owner = Nobody
        /\ job' = [job EXCEPT ![l].stale = TRUE]
        /\ UNCHANGED <<invoice, order, service, worker, trigger, admin, used, history>>
    BY DEF LostLockGoesStale
  <1>2. job[l] \in Jobs
    BY <1>0, RecordTypes
  <1>3. /\ job' \in [Items -> Jobs]
        /\ \A k \in Items : /\ k # l => job'[k] = job[k]
                            /\ job'[k].status = job[k].status
                            /\ job'[k].owner = job[k].owner
    BY <1>0, <1>1, <1>2, RecordTypes DEF Jobs
  <1>4. ProvTypeOK'
    BY <1>0, <1>1, <1>3, TypesMeet
  <1>5. Hands'
    <2>1. l \notin history.reopened => \A v \in Workers : ~Holds(v, l)
      BY <1>0, <1>1, NobodyAssumption DEF Hands, HeldIsLocked
    <2>2. l \notin history.reopened => \A v \in Workers :
             /\ \A c \in worker'[v].todo \cup worker'[v].cur : c[1] # l
             /\ worker'[v].pc = "locked" => job'[l].owner # v
      BY <1>1, <1>3, <2>1, NobodyAssumption DEF Holds, Hand
    <2>3. \A k \in Items \ history'.reopened :
             \/ /\ job'[k].status = job[k].status /\ job'[k].owner = job[k].owner
                /\ job'[k].stale = job[k].stale
             \/ \A v \in Workers :
                   /\ \A c \in worker'[v].todo \cup worker'[v].cur : c[1] # k
                   /\ worker'[v].pc = "locked" => job'[k].owner # v
      <3>1. \A k \in Items : k # l => /\ job'[k].status = job[k].status
                                      /\ job'[k].owner = job[k].owner
                                      /\ job'[k].stale = job[k].stale
        BY <1>3
      <3>2. history' = history
        BY <1>1
      <3>. QED  BY <2>2, <3>1, <3>2
    <2>4. worker' = worker /\ history' = history
      BY <1>1
    <2>5. OneAtATime'
      BY <1>0, <2>4 DEF Hands, OneAtATime, Hand
    <2>. QED  BY <1>0, <2>3, <2>4, <2>5, HandsKept
  <1>6. UnpaidAtRest' /\ UnpaidUntouched'
    BY <1>0, <1>1, <1>3, UnpaidKept DEF UnpaidAtRest
  <1>7. Explained'
    BY <1>0, <1>1, <1>3, ExplainedKept
  <1>. QED  BY <1>4, <1>5, <1>6, <1>7 DEF WorkInv

\* A job that is opened again under its worker: by its age or by somebody who
\* queues it again or deletes it.  No service changes.
LEMMA ReopenStep ==
    ASSUME WorkInv, NEW l \in Items, Reopen(l),
           UNCHANGED <<invoice, order, service, worker>>,
           used' \in Uses, used'.faults = used.faults,
           job' \in [Items -> Jobs],
           \A k \in Items : k # l => job'[k] = job[k],
           job'[l].status = job[l].status \/ job'[l].status \notin {"SUCCESS", "FAILED"},
           trigger' \in [Triggers -> TriggerStates],
           \A t \in Triggers : \/ trigger'[t] = trigger[t]
                               \/ /\ trigger[t].pc # "idle" /\ trigger'[t].pc # "activate"
                                  /\ trigger'[t].cur = trigger[t].cur,
           admin' = admin
             \/ (admin' \subseteq AdminOps /\ \A op \in admin' : op[2] \in {"delete"})
    PROVE  WorkInv'
  <1>0. ProvTypeOK /\ Hands /\ UnpaidAtRest /\ UnpaidUntouched /\ Explained
    BY DEF WorkInv
  <1>1. /\ history' \in Histories
        /\ history'.paid = history.paid /\ history'.called = history.called
        /\ history'.accepted = history.accepted
        /\ history'.cancelled = history.cancelled
        /\ history'.set = history.set
        /\ history'.reopened = history.reopened \cup {l}
    BY <1>0, ReopenType
  <1>2. ProvTypeOK'
    BY <1>0, <1>1, TypesMeet
  <1>3. Hands'
    BY <1>0, <1>1, OneKept, HandsKept
  <1>4. UnpaidAtRest' /\ UnpaidUntouched'
    <2>1. ~history.paid => \A t \in Triggers : trigger'[t].pc = "idle"
      BY <1>0 DEF UnpaidAtRest
    <2>2. \A k \in Items : \/ job'[k].status = job[k].status
                           \/ job'[k].status \notin {"SUCCESS", "FAILED"}
      OBVIOUS
    <2>. QED  BY <1>0, <1>1, <2>1, <2>2, UnpaidKept
  <1>9. Provisioned \subseteq Provisioned' /\ Resolved \subseteq Resolved'
    BY <1>1, ReasonsGrow
  <1>5. WorkersExplained'
    BY <1>0, <1>1, <1>9 DEF Explained, WorkersExplained
  <1>6. TriggersExplained'
    BY <1>0, <1>1 DEF Explained, TriggersExplained
  <1>7. AdminExplained'
    BY <1>0, <1>1, <1>9 DEF Explained, AdminExplained
  <1>8. EndedExplained' /\ SuccessExplained'
    BY <1>0, <1>1, <1>9 DEF Explained, EndedExplained, SuccessExplained
  <1>. QED  BY <1>2, <1>3, <1>4, <1>5, <1>6, <1>7, <1>8 DEF WorkInv, Explained

LEMMA LiveLockStep ==
    ASSUME WorkInv, NEW l \in Items, LiveLockGoesStale(l)
    PROVE  WorkInv'
  <1>0. ProvTypeOK
    BY DEF WorkInv
  <1>1. /\ Reopen(l)
        /\ job' = [job EXCEPT ![l].stale = TRUE]
        /\ UNCHANGED <<invoice, order, service, worker, trigger, admin>>
    BY DEF LiveLockGoesStale
  <1>2. used' \in Uses /\ used'.faults = used.faults
    BY <1>0, UsedType DEF LiveLockGoesStale
  <1>3. job[l] \in Jobs
    BY <1>0, RecordTypes
  <1>4. /\ job' \in [Items -> Jobs]
        /\ \A k \in Items : k # l => job'[k] = job[k]
        /\ job'[l].status = job[l].status
    BY <1>0, <1>1, <1>3, RecordTypes DEF Jobs
  <1>5. trigger' \in [Triggers -> TriggerStates]
    BY <1>0, <1>1, RecordTypes
  <1>. QED  BY <1>1, <1>2, <1>4, <1>5, ReopenStep

-----------------------------------------------------------------------------
(* The invoice and the triggers *)

LEMMA HandsUntouched ==
    ASSUME Hands, UNCHANGED <<job, worker>>, history'.reopened = history.reopened
    PROVE  Hands'
  <1>1. OneAtATime'
    BY DEF Hands, OneAtATime, Hand
  <1>2. HeldIsLocked'
    BY DEF Hands, HeldIsLocked, Holds, Hand
  <1>3. AtomicBatch'
    BY DEF Hands, AtomicBatch
  <1>. QED  BY <1>1, <1>2, <1>3 DEF Hands

LEMMA InvoicePaidStep ==
    ASSUME WorkInv, InvoicePaid
    PROVE  WorkInv'
  <1>0. ProvTypeOK /\ Hands /\ Explained
    BY DEF WorkInv
  <1>1. /\ invoice' = "PAID" /\ order' \in {order, "PROCESSING"}
        /\ UNCHANGED <<service, job, worker, trigger, admin, used>>
    BY DEF InvoicePaid
  <1>2. /\ history' \in Histories
        /\ history'.paid
        /\ history'.accepted = history.accepted /\ history'.cancelled = history.cancelled
        /\ history'.set = history.set
        /\ history'.reopened = history.reopened
    BY <1>0, RecordTypes DEF InvoicePaid, Histories
  <1>3. ProvTypeOK'
    BY <1>0, <1>1, <1>2, TypesMeet DEF OrderStatus
  <1>4. Hands'
    BY <1>0, <1>1, <1>2, HandsUntouched
  <1>5. UnpaidAtRest' /\ UnpaidUntouched'
    BY <1>2 DEF UnpaidAtRest, UnpaidUntouched
  <1>6. Explained'
    BY <1>0, <1>1, <1>2, ExplainedKept
  <1>. QED  BY <1>3, <1>4, <1>5, <1>6 DEF WorkInv

\* A step of a trigger that leaves the jobs alone; the invoice has been paid.
LEMMA TriggerMoves ==
    ASSUME WorkInv, NEW t \in Triggers, history.paid,
           UNCHANGED <<invoice, job, worker, admin>>,
           order' \in OrderStatus,
           service' \in [Items -> ServiceStatus],
           trigger' \in [Triggers -> TriggerStates],
           used' \in Uses, history' \in Histories,
           history'.paid, history'.reopened = history.reopened,
           history.accepted \subseteq history'.accepted,
           history.cancelled \subseteq history'.cancelled,
           history.set \subseteq history'.set,
           \A u \in Triggers : u # t => trigger'[u] = trigger[u],
           \/ trigger'[t].cur = trigger[t].cur
           \/ \E k \in Items : trigger'[t].cur \subseteq {k},
           trigger'[t].pc = "activate" => trigger'[t].cur \subseteq history'.accepted,
           \A k \in Items :
              \/ service'[k] = service[k]
              \/ service'[k] \notin {"ACTIVE", "SUSPENDED", "TERMINATED", "CANCELLED"}
              \/ service'[k] = "ACTIVE" /\ k \in history'.accepted
    PROVE  WorkInv'
  <1>0. ProvTypeOK /\ Hands /\ Explained
    BY DEF WorkInv
  <1>1. ProvTypeOK'
    BY <1>0, TypesMeet
  <1>2. Hands'
    BY <1>0, HandsUntouched
  <1>3. UnpaidAtRest' /\ UnpaidUntouched'
    BY DEF UnpaidAtRest, UnpaidUntouched
  <1>4. Explained'
    <2>1. \A u \in Triggers :
              \/ trigger'[u].pc = trigger[u].pc /\ trigger'[u].cur = trigger[u].cur
              \/ /\ trigger'[u].cur = trigger[u].cur \/ \E k \in Items : trigger'[u].cur \subseteq {k}
                 /\ trigger'[u].pc = "activate" => trigger'[u].cur \subseteq history'.accepted
      OBVIOUS
    <2>. QED  BY <1>0, <2>1, ExplainedKept
  <1>. QED  BY <1>1, <1>2, <1>3, <1>4 DEF WorkInv

\* A trigger that has started knows of a payment, and is at an item of the order.
LEMMA TriggerFacts ==
    ASSUME WorkInv, NEW t \in Triggers
    PROVE  /\ trigger[t].pc # "idle" => history.paid
           /\ trigger[t].cur \subseteq Items
           /\ trigger[t].todo \subseteq Items
           /\ \A k, l \in trigger[t].cur : k = l
           /\ trigger[t].pc = "activate" => trigger[t].cur \subseteq history.accepted
           /\ order \in OrderStatus
           /\ service \in [Items -> ServiceStatus]
           /\ used \in Uses /\ history \in Histories
  <1>0. ProvTypeOK /\ UnpaidAtRest /\ Explained
    BY DEF WorkInv
  <1>1. trigger[t] \in TriggerStates
    BY <1>0, RecordTypes
  <1>2. trigger[t].pc # "idle" => history.paid
    BY <1>0 DEF UnpaidAtRest
  <1>3. trigger[t].cur \subseteq Items /\ trigger[t].todo \subseteq Items
    BY <1>1 DEF TriggerStates
  <1>4. /\ \A k, l \in trigger[t].cur : k = l
        /\ trigger[t].pc = "activate" => trigger[t].cur \subseteq history.accepted
    BY <1>0 DEF Explained, TriggersExplained
  <1>5. order \in OrderStatus
    BY <1>0 DEF ProvTypeOK
  <1>6. service \in [Items -> ServiceStatus] /\ used \in Uses /\ history \in Histories
    BY <1>0, RecordTypes
  <1>. QED  BY <1>2, <1>3, <1>4, <1>5, <1>6

LEMMA TriggerStartStep ==
    ASSUME WorkInv, NEW t \in Triggers, TriggerStart(t)
    PROVE  WorkInv'
  <1>0. ProvTypeOK /\ UnpaidAtRest
    BY DEF WorkInv
  <1>. DEFINE first == [pc |-> "items", todo |-> Items, cur |-> {}, order |-> order]
  <1>1. /\ invoice = "PAID" /\ trigger' = [trigger EXCEPT ![t] = first]
        /\ UNCHANGED <<invoice, order, service, job, worker, admin, used, history>>
    BY DEF TriggerStart
  <1>2. history.paid
    BY <1>0, <1>1 DEF UnpaidAtRest
  <1>3. first \in TriggerStates /\ first.pc = "items" /\ first.cur = {}
    BY TriggerFacts DEF TriggerStates, TriggerPcs
  <1>. HIDE DEF first
  <1>4. /\ trigger' \in [Triggers -> TriggerStates]
        /\ \A u \in Triggers : u # t => trigger'[u] = trigger[u]
        /\ trigger'[t].pc = "items" /\ trigger'[t].cur = {}
    BY <1>0, <1>1, <1>3, RecordTypes
  <1>5. trigger'[t].pc = "activate" => trigger'[t].cur \subseteq history'.accepted
    BY <1>4
  <1>6. trigger'[t].cur = trigger[t].cur \/ \E k \in Items : trigger'[t].cur \subseteq {k}
    <2>1. CASE Items = {}
      BY <1>4, <2>1, TriggerFacts
    <2>2. CASE Items # {}
      BY <1>4, <2>2
    <2>. QED  BY <2>1, <2>2
  <1>. QED  BY <1>1, <1>2, <1>4, <1>5, <1>6, TriggerFacts, TriggerMoves

LEMMA TriggerHostingStep ==
    ASSUME WorkInv, NEW t \in Triggers, TriggerHosting(t)
    PROVE  WorkInv'
  <1>0. ProvTypeOK
    BY DEF WorkInv
  <1>1. PICK k \in trigger[t].todo, p \in {"call", "mark"} : TriggerTake(t, k, p)
    BY DEF TriggerHosting
  <1>2. /\ trigger[t].pc = "items"
        /\ UNCHANGED <<invoice, order, service, job, worker, admin, used, history>>
    BY DEF TriggerHosting
  <1>3. k \in Items /\ p \in TriggerPcs
    BY TriggerFacts DEF TriggerPcs
  <1>4. /\ trigger' \in [Triggers -> TriggerStates]
        /\ \A u \in Triggers : u # t => trigger'[u] = trigger[u]
        /\ trigger'[t].pc = p /\ trigger'[t].cur = {k}
    BY <1>0, <1>1, <1>3, TriggerTakeType
  <1>5. trigger'[t].pc # "activate"
    BY <1>4
  <1>. QED  BY <1>2, <1>3, <1>4, <1>5, TriggerFacts, TriggerMoves

LEMMA TriggerJobStep ==
    ASSUME WorkInv, NEW t \in Triggers, TriggerJob(t)
    PROVE  WorkInv'
  <1>0. ProvTypeOK
    BY DEF WorkInv
  <1>1. PICK k \in trigger[t].todo :
           TriggerTake(t, k, CASE job[k].status = "absent" -> "create"
                               [] job[k].status = "SUCCESS" -> "items"
                               [] OTHER -> "requeue")
    BY DEF TriggerJob
  <1>2. PICK p \in {"create", "items", "requeue"} : TriggerTake(t, k, p)
    BY <1>1
  <1>3. /\ trigger[t].pc = "items"
        /\ UNCHANGED <<invoice, order, service, job, worker, admin, used, history>>
    BY DEF TriggerJob
  <1>4. k \in Items /\ p \in TriggerPcs
    BY TriggerFacts DEF TriggerPcs
  <1>5. /\ trigger' \in [Triggers -> TriggerStates]
        /\ \A u \in Triggers : u # t => trigger'[u] = trigger[u]
        /\ trigger'[t].pc = p /\ trigger'[t].cur = {k}
    BY <1>0, <1>2, <1>4, TriggerTakeType
  <1>6. trigger'[t].pc # "activate"
    BY <1>5
  <1>. QED  BY <1>3, <1>4, <1>5, <1>6, TriggerFacts, TriggerMoves

LEMMA TriggerMarkStep ==
    ASSUME WorkInv, NEW t \in Triggers, TriggerMark(t)
    PROVE  WorkInv'
  <1>0. ProvTypeOK
    BY DEF WorkInv
  <1>1. PICK k \in trigger[t].cur : SetService(k, "PROVISIONING")
    BY DEF TriggerMark
  <1>2. /\ trigger[t].pc = "mark" /\ TriggerGoto(t, "call")
        /\ UNCHANGED <<invoice, order, job, worker, admin, used, history>>
    BY DEF TriggerMark
  <1>3. k \in Items /\ "PROVISIONING" \in ServiceStatus /\ "call" \in TriggerPcs
    BY TriggerFacts DEF ServiceStatus, TriggerPcs
  <1>4. /\ service' \in [Items -> ServiceStatus]
        /\ \A j \in Items : service'[j] = service[j] \/ service'[j] = "PROVISIONING"
    BY <1>0, <1>1, <1>3, SetServiceType
  <1>5. /\ trigger' \in [Triggers -> TriggerStates]
        /\ \A u \in Triggers : u # t => trigger'[u] = trigger[u]
        /\ trigger'[t].pc = "call" /\ trigger'[t].cur = trigger[t].cur
    BY <1>0, <1>2, <1>3, TriggerGotoType
  <1>. QED  BY <1>2, <1>4, <1>5, TriggerFacts, TriggerMoves

LEMMA TriggerCallStep ==
    ASSUME WorkInv, NEW t \in Triggers, TriggerCall(t)
    PROVE  WorkInv'
  <1>0. ProvTypeOK
    BY DEF WorkInv
  <1>1. PICK k \in trigger[t].cur, ok \in BOOLEAN :
           /\ history' = [history EXCEPT !.called = @ \cup {k},
                                         !.accepted = IF ok THEN @ \cup {k} ELSE @]
           /\ TriggerGoto(t, IF ok THEN "activate" ELSE "fail")
    BY DEF TriggerCall
  <1>2. /\ trigger[t].pc = "call"
        /\ UNCHANGED <<invoice, order, service, job, worker, admin, used>>
    BY DEF TriggerCall
  <1>3. PICK p \in {"activate", "fail"} : TriggerGoto(t, p) /\ (p = "activate" => ok)
    BY <1>1
  <1>4. k \in Items /\ p \in TriggerPcs
    BY TriggerFacts DEF TriggerPcs
  <1>5. /\ trigger' \in [Triggers -> TriggerStates]
        /\ \A u \in Triggers : u # t => trigger'[u] = trigger[u]
        /\ trigger'[t].pc = p /\ trigger'[t].cur = trigger[t].cur
    BY <1>0, <1>3, <1>4, TriggerGotoType
  <1>6. /\ history' \in Histories
        /\ history'.paid = history.paid
        /\ history.accepted \subseteq history'.accepted
        /\ ok => k \in history'.accepted
        /\ history'.cancelled = history.cancelled
        /\ history'.set = history.set
        /\ history'.reopened = history.reopened
    <2>1. /\ history' \in Histories
          /\ history'.paid = history.paid
          /\ history'.accepted = IF ok THEN history.accepted \cup {k} ELSE history.accepted
          /\ history'.cancelled = history.cancelled
          /\ history'.set = history.set
          /\ history'.reopened = history.reopened
      BY <1>0, <1>1, <1>4, CalledType
    <2>. QED  BY <2>1
  <1>7. trigger'[t].pc = "activate" => trigger'[t].cur \subseteq history'.accepted
    <2>1. \A j \in trigger[t].cur : j = k
      BY TriggerFacts
    <2>. QED  BY <1>3, <1>5, <1>6, <2>1
  <1>. QED  BY <1>2, <1>5, <1>6, <1>7, TriggerFacts, TriggerMoves

LEMMA TriggerSettleStep ==
    ASSUME WorkInv, NEW t \in Triggers, TriggerSettle(t)
    PROVE  WorkInv'
  <1>0. ProvTypeOK
    BY DEF WorkInv
  <1>1. PICK k \in trigger[t].cur, st \in {"ACTIVE", "FAILED"} :
           SetService(k, st) /\ (st = "ACTIVE" => trigger[t].pc = "activate")
    BY DEF TriggerSettle
  <1>2. /\ trigger[t].pc \in {"activate", "fail"} /\ TriggerGoto(t, "items")
        /\ UNCHANGED <<invoice, order, job, worker, admin, used, history>>
    BY DEF TriggerSettle
  <1>3. k \in Items /\ st \in ServiceStatus /\ "items" \in TriggerPcs
    BY TriggerFacts DEF ServiceStatus, TriggerPcs
  <1>4. st = "ACTIVE" => k \in history.accepted
    BY <1>1, TriggerFacts
  <1>5. /\ service' \in [Items -> ServiceStatus]
        /\ \A j \in Items : \/ service'[j] = service[j]
                            \/ service'[j] = "FAILED"
                            \/ service'[j] = "ACTIVE" /\ j \in history.accepted
    <2>1. /\ service' \in [Items -> ServiceStatus]
          /\ \A j \in Items : j # k => service'[j] = service[j]
          /\ service'[k] \in {service[k], st}
      BY <1>0, <1>1, <1>3, SetServiceType
    <2>. QED  BY <1>1, <1>4, <2>1
  <1>6. /\ trigger' \in [Triggers -> TriggerStates]
        /\ \A u \in Triggers : u # t => trigger'[u] = trigger[u]
        /\ trigger'[t].pc = "items" /\ trigger'[t].cur = trigger[t].cur
    BY <1>0, <1>2, <1>3, TriggerGotoType
  <1>. QED  BY <1>2, <1>5, <1>6, TriggerFacts, TriggerMoves

\* A trigger that goes on without touching a service or a job
LEMMA TriggerGoesOn ==
    ASSUME WorkInv, NEW t \in Triggers, NEW p \in {"fail", "finalize", "done"},
           trigger[t].pc # "idle", TriggerGoto(t, p),
           UNCHANGED <<invoice, service, job, worker, admin, history>>,
           order' \in OrderStatus, used' \in Uses
    PROVE  WorkInv'
  <1>0. ProvTypeOK
    BY DEF WorkInv
  <1>1. p \in TriggerPcs
    BY DEF TriggerPcs
  <1>2. /\ trigger' \in [Triggers -> TriggerStates]
        /\ \A u \in Triggers : u # t => trigger'[u] = trigger[u]
        /\ trigger'[t].pc = p /\ trigger'[t].cur = trigger[t].cur
    BY <1>0, <1>1, TriggerGotoType
  <1>3. trigger'[t].pc # "activate"
    BY <1>2
  <1>. QED  BY <1>2, <1>3, TriggerFacts, TriggerMoves

LEMMA TriggerProceeds ==
    ASSUME WorkInv, NEW t \in Triggers,
           TriggerStepFails(t) \/ TriggerProcessing(t) \/ TriggerFinalize(t) \/ TriggerCrash(t)
    PROVE  WorkInv'
  <1>0. ProvTypeOK
    BY DEF WorkInv
  <1>1. order \in OrderStatus /\ used \in Uses
    BY TriggerFacts
  <1>2. CASE TriggerStepFails(t)
    <2>1. used' \in Uses
      BY <1>0, <1>2, UsedType DEF TriggerStepFails
    <2>. QED  BY <1>1, <1>2, <2>1, TriggerGoesOn DEF TriggerStepFails
  <1>3. CASE TriggerProcessing(t)
    <2>1. order' \in OrderStatus
      BY <1>1, <1>3 DEF TriggerProcessing, OrderStatus
    <2>. QED  BY <1>1, <1>3, <2>1, TriggerGoesOn DEF TriggerProcessing
  <1>4. CASE TriggerFinalize(t)
    <2>1. order' \in OrderStatus
      BY <1>4 DEF TriggerFinalize, OrderStatus
    <2>. QED  BY <1>1, <1>4, <2>1, TriggerGoesOn DEF TriggerFinalize
  <1>5. CASE TriggerCrash(t)
    <2>1. used' \in Uses
      BY <1>0, <1>5, UsedType DEF TriggerCrash
    <2>. QED  BY <1>1, <1>5, <2>1, TriggerGoesOn DEF TriggerCrash
  <1>. QED  BY <1>2, <1>3, <1>4, <1>5

LEMMA TriggerRequeueStep ==
    ASSUME WorkInv, NEW t \in Triggers, TriggerRequeue(t)
    PROVE  WorkInv'
  <1>0. ProvTypeOK
    BY DEF WorkInv
  <1>1. PICK k \in trigger[t].cur : SetJob(k, Forced(k)) /\ Reopen(k)
    BY DEF TriggerRequeue
  <1>2. /\ trigger[t].pc = "requeue" /\ TriggerGoto(t, "items")
        /\ UNCHANGED <<invoice, order, service, worker, admin, used>>
    BY DEF TriggerRequeue
  <1>3. k \in Items /\ "items" \in TriggerPcs /\ used \in Uses
    BY TriggerFacts DEF TriggerPcs
  <1>4. Forced(k) \in Jobs /\ Forced(k).status = "QUEUED"
    <2>1. "QUEUED" \in JobStatus /\ job[k] \in Jobs
      BY <1>0, <1>3, RecordTypes DEF JobStatus
    <2>2. Forced(k) \in Jobs
      BY <1>0, <1>3, <2>1, DocTypes
    <2>. QED  BY <2>1, <2>2 DEF Forced, Jobs
  <1>5. /\ job' \in [Items -> Jobs]
        /\ \A j \in Items : j # k => job'[j] = job[j]
        /\ job'[k].status = job[k].status \/ job'[k].status = "QUEUED"
    <2>1. /\ job' \in [Items -> Jobs]
          /\ \A j \in Items : j # k => job'[j] = job[j]
          /\ job'[k] = IF job[k].status = "absent" THEN job[k] ELSE Forced(k)
      BY <1>0, <1>1, <1>3, <1>4, SetJobType
    <2>. QED  BY <1>4, <2>1
  <1>6. /\ trigger' \in [Triggers -> TriggerStates]
        /\ \A u \in Triggers :
              \/ trigger'[u] = trigger[u]
              \/ /\ trigger[u].pc # "idle" /\ trigger'[u].pc # "activate"
                 /\ trigger'[u].cur = trigger[u].cur
    <2>1. /\ trigger' \in [Triggers -> TriggerStates]
          /\ \A u \in Triggers : u # t => trigger'[u] = trigger[u]
          /\ trigger'[t].pc = "items" /\ trigger'[t].cur = trigger[t].cur
      BY <1>0, <1>2, <1>3, TriggerGotoType
    <2>. QED  BY <1>2, <2>1
  <1>. QED  BY <1>1, <1>2, <1>3, <1>5, <1>6, ReopenStep

\* A new job is in nobody's hand: what is held has a document.
LEMMA TriggerCreateStep ==
    ASSUME WorkInv, NEW t \in Triggers, TriggerCreate(t)
    PROVE  WorkInv'
  <1>0. ProvTypeOK /\ Hands /\ UnpaidAtRest /\ UnpaidUntouched /\ Explained
    BY DEF WorkInv
  <1>1. /\ trigger[t].pc = "create"
        /\ UNCHANGED <<invoice, order, service, worker, admin, used, history>>
    BY DEF TriggerCreate
  <1>2. history.paid /\ trigger[t].cur \subseteq Items
    BY <1>1, TriggerFacts
  <1>. DEFINE new == [NoJob EXCEPT !.status = "QUEUED"]
  <1>3. PICK k \in trigger[t].cur :
           \/ /\ job[k].status = "absent"
              /\ job' = [job EXCEPT ![k] = new] /\ TriggerGoto(t, "items")
           \/ UNCHANGED job /\ TriggerGoto(t, "done")
    BY DEF TriggerCreate
  <1>4. CASE UNCHANGED job /\ TriggerGoto(t, "done")
    BY <1>1, <1>4, TriggerFacts, TriggerGoesOn
  <1>5. CASE /\ job[k].status = "absent"
             /\ job' = [job EXCEPT ![k] = new] /\ TriggerGoto(t, "items")
    <2>1. new \in Jobs /\ new.status = "QUEUED" /\ new.owner = Nobody
      BY NewJobType
    <2>. HIDE DEF new
    <2>2. /\ job' \in [Items -> Jobs]
          /\ \A j \in Items : j # k => job'[j] = job[j]
          /\ job'[k].status = "QUEUED" /\ job'[k].owner = Nobody
      BY <1>0, <1>2, <1>5, <2>1, RecordTypes
    <2>3. "items" \in TriggerPcs
      BY DEF TriggerPcs
    <2>4. /\ trigger' \in [Triggers -> TriggerStates]
          /\ \A u \in Triggers : u # t => trigger'[u] = trigger[u]
          /\ trigger'[t].pc = "items" /\ trigger'[t].cur = trigger[t].cur
      BY <1>0, <1>5, <2>3, TriggerGotoType
    <2>5. ProvTypeOK'
      BY <1>0, <1>1, <2>2, <2>4, TypesMeet
    <2>6. Hands'
      <3>1. k \notin history.reopened => \A v \in Workers : ~Holds(v, k)
        BY <1>0, <1>2, <1>5 DEF Hands, HeldIsLocked
      <3>2. k \notin history.reopened => \A v \in Workers :
               /\ \A c \in worker'[v].todo \cup worker'[v].cur : c[1] # k
               /\ job'[k].owner # v
        BY <1>1, <2>2, <3>1, NobodyAssumption DEF Holds, Hand
      <3>3. \A j \in Items \ history'.reopened :
               \/ /\ job'[j].status = job[j].status /\ job'[j].owner = job[j].owner
                  /\ job'[j].stale = job[j].stale
               \/ \A v \in Workers :
                     /\ \A c \in worker'[v].todo \cup worker'[v].cur : c[1] # j
                     /\ worker'[v].pc = "locked" => job'[j].owner # v
        <4>1. \A j \in Items : j # k => /\ job'[j].status = job[j].status
                                        /\ job'[j].owner = job[j].owner
                                        /\ job'[j].stale = job[j].stale
          BY <2>2
        <4>2. history' = history
          BY <1>1
        <4>. QED  BY <3>2, <4>1, <4>2
      <3>4. OneAtATime'
        BY <1>0, <1>1 DEF Hands, OneAtATime, Hand
      <3>. QED  BY <1>0, <1>1, <3>3, <3>4, HandsKept
    <2>7. UnpaidAtRest' /\ UnpaidUntouched'
      BY <1>1, <1>2 DEF UnpaidAtRest, UnpaidUntouched
    <2>8. Explained'
      <3>1. \A u \in Triggers :
               \/ trigger'[u].pc = trigger[u].pc /\ trigger'[u].cur = trigger[u].cur
               \/ trigger'[u].cur = trigger[u].cur /\ trigger'[u].pc # "activate"
        BY <2>4
      <3>2. \A j \in Items : job'[j].status = job[j].status \/ job'[j].status # "SUCCESS"
        BY <2>2
      <3>. QED  BY <1>0, <1>1, <3>1, <3>2, ExplainedKept
    <2>. QED  BY <2>5, <2>6, <2>7, <2>8 DEF WorkInv
  <1>. QED  BY <1>3, <1>4, <1>5

LEMMA TriggerStepStep ==
    ASSUME WorkInv, NEW t \in Triggers, TriggerStep(t)
    PROVE  WorkInv'
  BY TriggerHostingStep, TriggerMarkStep, TriggerCallStep, TriggerSettleStep,
     TriggerJobStep, TriggerRequeueStep, TriggerCreateStep, TriggerProceeds DEF TriggerStep

-----------------------------------------------------------------------------
(* Administrators *)

\* A step of an administrator that leaves the jobs alone
LEMMA AdminMoves ==
    ASSUME WorkInv,
           UNCHANGED <<order, job, worker, trigger>>,
           invoice' = invoice \/ invoice' \in {"UNPAID", "CANCELLED"},
           service' \in [Items -> ServiceStatus],
           used' \in Uses, used'.faults = used.faults,
           history' \in Histories,
           history'.paid = history.paid, history'.called = history.called,
           history'.reopened = history.reopened,
           history.accepted \subseteq history'.accepted,
           history.cancelled \subseteq history'.cancelled,
           history.set \subseteq history'.set,
           admin' \subseteq AdminOps,
           \A op \in admin' :
              /\ op[2] \in {"ACTIVE", "SUSPENDED"} => op[1] \in Provisioned'
              /\ op[2] \in {"TERMINATED", "CANCELLED"} => op[1] \in Resolved'
              /\ op[2] = "cancel" => op[1] \in history'.cancelled,
           \A k \in Items :
              \/ service'[k] = service[k]
              \/ service'[k] \notin {"ACTIVE", "SUSPENDED", "TERMINATED", "CANCELLED"}
              \/ service'[k] \in {"ACTIVE", "SUSPENDED"} /\ k \in Provisioned'
              \/ service'[k] \in {"TERMINATED", "CANCELLED"} /\ k \in Resolved'
    PROVE  WorkInv'
  <1>0. ProvTypeOK /\ Hands /\ UnpaidAtRest /\ UnpaidUntouched /\ Explained
    BY DEF WorkInv
  <1>1. ProvTypeOK'
    BY <1>0, TypesMeet
  <1>2. Hands'
    BY <1>0, HandsUntouched
  <1>3. UnpaidAtRest'
    BY <1>0 DEF UnpaidAtRest
  <1>4. UnpaidUntouched'
    BY <1>0 DEF UnpaidUntouched
  <1>8. Provisioned \subseteq Provisioned' /\ Resolved \subseteq Resolved'
    BY ReasonsGrow
  <1>5. WorkersExplained' /\ TriggersExplained'
    BY <1>0, <1>8 DEF Explained, WorkersExplained, TriggersExplained
  <1>6. AdminExplained'
    BY DEF AdminExplained
  <1>7. EndedExplained' /\ SuccessExplained'
    BY <1>0, <1>8 DEF Explained, EndedExplained, SuccessExplained
  <1>. QED  BY <1>1, <1>2, <1>3, <1>4, <1>5, <1>6, <1>7 DEF WorkInv, Explained

\* What an administrator's operation finds
LEMMA AdminFacts ==
    ASSUME WorkInv
    PROVE  /\ service \in [Items -> ServiceStatus] /\ job \in [Items -> Jobs]
           /\ used \in Uses /\ history \in Histories
           /\ trigger \in [Triggers -> TriggerStates]
           /\ admin \subseteq AdminOps
           /\ \A op \in admin : /\ op[1] \in Items /\ op[3] \in Jobs
                                /\ op[2] \in {"ACTIVE", "SUSPENDED"} => op[1] \in Provisioned
                                /\ op[2] \in {"TERMINATED", "CANCELLED"} => op[1] \in Resolved
                                /\ op[2] = "cancel" => op[1] \in history.cancelled
           /\ {} \subseteq AdminOps
           /\ AdminStarts => used' \in Uses /\ used'.faults = used.faults
  <1>0. ProvTypeOK /\ Explained
    BY DEF WorkInv
  <1>1. \A op \in admin :
           /\ op[2] \in {"ACTIVE", "SUSPENDED"} => op[1] \in Provisioned
           /\ op[2] \in {"TERMINATED", "CANCELLED"} => op[1] \in Resolved
           /\ op[2] = "cancel" => op[1] \in history.cancelled
    BY <1>0 DEF Explained, AdminExplained
  <1>2. \A op \in AdminOps : op[1] \in Items /\ op[3] \in Jobs
    BY DEF AdminOps
  <1>3. AdminStarts => used' \in Uses /\ used'.faults = used.faults
    BY <1>0, UsedType DEF AdminStarts
  <1>4. admin \subseteq AdminOps
    BY <1>0, RecordTypes
  <1>. QED  BY <1>0, <1>1, <1>2, <1>3, <1>4, RecordTypes

LEMMA OpType ==
    ASSUME NEW k \in Items, NEW op \in {"cancel", "delete", "retry"} \cup ServiceStatus,
           NEW doc \in Jobs
    PROVE  {<<k, op, doc>>} \subseteq AdminOps
  BY DEF AdminOps

LEMMA AdminUnpayStep ==
    ASSUME WorkInv, AdminUnpay
    PROVE  WorkInv'
  <1>1. /\ AdminStarts /\ invoice' = "UNPAID"
        /\ UNCHANGED <<order, service, job, worker, trigger, admin, history>>
    BY DEF AdminUnpay
  <1>2. Provisioned' = Provisioned /\ Resolved' = Resolved
    BY <1>1 DEF Provisioned, Resolved, SetTo
  <1>. QED  BY <1>1, <1>2, AdminFacts, AdminMoves

LEMMA AdminCancelStep ==
    ASSUME WorkInv, NEW k \in Items, AdminCancel(k)
    PROVE  WorkInv'
  <1>1. /\ AdminStarts
        /\ service' = [service EXCEPT ![k] = "CANCELLED"]
        /\ invoice' \in {invoice, "CANCELLED"}
        /\ history' = [history EXCEPT !.cancelled = @ \cup {k}]
        /\ admin' = {<<k, "cancel", NoJob>>}
        /\ UNCHANGED <<order, job, worker, trigger>>
    BY DEF AdminCancel
  <1>2. /\ service' \in [Items -> ServiceStatus]
        /\ \A j \in Items : service'[j] = service[j] \/ (service'[j] = "CANCELLED" /\ j = k)
    BY <1>1, AdminFacts DEF ServiceStatus
  <1>3. /\ history' \in Histories
        /\ history'.paid = history.paid /\ history'.called = history.called
        /\ history'.accepted = history.accepted
        /\ history'.cancelled = history.cancelled \cup {k}
        /\ history'.set = history.set
        /\ history'.reopened = history.reopened
    BY <1>1, AdminFacts DEF Histories
  <1>4. admin' \subseteq AdminOps
    BY <1>1, OpType, NoJobType
  <1>5. \A op \in admin' : op[1] = k /\ op[2] = "cancel"
    BY <1>1
  <1>6. k \in Resolved'
    BY <1>3 DEF Resolved
  <1>. QED  BY <1>1, <1>2, <1>3, <1>4, <1>5, <1>6, AdminFacts, AdminMoves

LEMMA AdminProvisionStep ==
    ASSUME WorkInv, NEW k \in Items, AdminProvision(k)
    PROVE  WorkInv'
  <1>1. PICK ok \in BOOLEAN :
           /\ history' = [history EXCEPT !.accepted = IF ok THEN @ \cup {k} ELSE @]
           /\ admin' = IF ok THEN {<<k, "ACTIVE", NoJob>>} ELSE {}
    BY DEF AdminProvision
  <1>2. AdminStarts /\ UNCHANGED <<invoice, order, service, job, worker, trigger>>
    BY DEF AdminProvision
  <1>3. /\ history' \in Histories
        /\ history'.paid = history.paid /\ history'.called = history.called
        /\ history'.accepted = IF ok THEN history.accepted \cup {k} ELSE history.accepted
        /\ history'.cancelled = history.cancelled
        /\ history'.set = history.set
        /\ history'.reopened = history.reopened
    BY <1>1, AdminFacts DEF Histories
  <1>4. /\ admin' \subseteq AdminOps
        /\ \A op \in admin' : op[1] = k /\ op[2] = "ACTIVE" /\ ok
    BY <1>1, OpType, NoJobType DEF ServiceStatus
  <1>5. history.accepted \subseteq history'.accepted /\ (ok => k \in Provisioned')
    BY <1>3 DEF Provisioned
  <1>. QED  BY <1>2, <1>3, <1>4, <1>5, AdminFacts, AdminMoves

\* A status set by hand is its own reason.
LEMMA AdminSetStep ==
    ASSUME WorkInv, NEW k \in Items, AdminSet(k)
    PROVE  WorkInv'
  <1>1. PICK s \in ServiceStatus :
           /\ admin' = {<<k, s, NoJob>>}
           /\ history' = [history EXCEPT !.set = @ \cup {<<k, s>>}]
    BY DEF AdminSet
  <1>2. AdminStarts /\ UNCHANGED <<invoice, order, service, job, worker, trigger>>
    BY DEF AdminSet
  <1>3. /\ history' \in Histories
        /\ history'.paid = history.paid /\ history'.called = history.called
        /\ history'.accepted = history.accepted
        /\ history'.cancelled = history.cancelled
        /\ history'.set = history.set \cup {<<k, s>>}
        /\ history'.reopened = history.reopened
    BY <1>1, AdminFacts DEF Histories
  <1>4. /\ admin' \subseteq AdminOps
        /\ \A op \in admin' : op[1] = k /\ op[2] = s
    BY <1>1, OpType, NoJobType
  <1>5. /\ s \in {"ACTIVE", "SUSPENDED"} => k \in Provisioned'
        /\ s \in {"TERMINATED", "CANCELLED"} => k \in Resolved'
    BY <1>3 DEF Provisioned, Resolved, SetTo
  <1>6. s # "cancel"
    BY DEF ServiceStatus
  <1>. QED  BY <1>2, <1>3, <1>4, <1>5, <1>6, AdminFacts, AdminMoves

\* A sweep changes what was in use.
LEMMA SweepStep ==
    ASSUME WorkInv, NEW k \in Items, Sweep(k)
    PROVE  WorkInv'
  <1>1. PICK s \in {"ACTIVE", "SUSPENDED", "TERMINATED"} :
           /\ service[k] \in {"ACTIVE", "SUSPENDED"}
           /\ admin' = {<<k, s, NoJob>>}
    BY DEF Sweep
  <1>2. AdminStarts /\ UNCHANGED <<invoice, order, service, job, worker, trigger, history>>
    BY DEF Sweep
  <1>3. k \in Provisioned /\ k \in Resolved
    BY <1>1, Reasons DEF WorkInv, Explained, SuccessExplained
  <1>4. k \in Provisioned' /\ k \in Resolved'
    BY <1>2, <1>3 DEF Provisioned, Resolved, SetTo
  <1>5. /\ admin' \subseteq AdminOps
        /\ \A op \in admin' : op[1] = k /\ op[2] = s
    BY <1>1, OpType, NoJobType DEF ServiceStatus
  <1>. QED  BY <1>2, <1>4, <1>5, AdminFacts, AdminMoves

LEMMA AdminWriteStep ==
    ASSUME WorkInv, AdminWrite
    PROVE  WorkInv'
  <1>0. ProvTypeOK
    BY DEF WorkInv
  <1>1. PICK op \in admin : op[2] \in ServiceStatus /\ SetService(op[1], op[2])
    BY DEF AdminWrite
  <1>2. /\ admin' = {}
        /\ UNCHANGED <<invoice, order, job, worker, trigger, used, history>>
    BY DEF AdminWrite
  <1>3. /\ op[1] \in Items
        /\ op[2] \in {"ACTIVE", "SUSPENDED"} => op[1] \in Provisioned
        /\ op[2] \in {"TERMINATED", "CANCELLED"} => op[1] \in Resolved
    BY <1>1, AdminFacts
  <1>4. Provisioned \subseteq Provisioned' /\ Resolved \subseteq Resolved'
    BY <1>2, ReasonsGrow
  <1>5. /\ service' \in [Items -> ServiceStatus]
        /\ \A j \in Items : service'[j] = service[j] \/ (service'[j] = op[2] /\ j = op[1])
    BY <1>0, <1>1, <1>3, SetServiceType
  <1>. QED  BY <1>2, <1>3, <1>4, <1>5, AdminFacts, AdminMoves

LEMMA AdminDeleteServiceStep ==
    ASSUME WorkInv, AdminDeleteService
    PROVE  WorkInv'
  <1>1. PICK op \in admin : service' = [service EXCEPT ![op[1]] = "none"]
    BY DEF AdminDeleteService
  <1>2. /\ admin' = {}
        /\ UNCHANGED <<invoice, order, job, worker, trigger, used, history>>
    BY DEF AdminDeleteService
  <1>3. /\ service' \in [Items -> ServiceStatus]
        /\ \A j \in Items : service'[j] = service[j] \/ service'[j] = "none"
    BY <1>1, AdminFacts DEF ServiceStatus
  <1>. QED  BY <1>2, <1>3, AdminFacts, AdminMoves

LEMMA AdminReadJobStep ==
    ASSUME WorkInv, NEW k \in Items, AdminReadJob(k)
    PROVE  WorkInv'
  <1>1. /\ AdminStarts /\ admin' = {<<k, "retry", job[k]>>}
        /\ UNCHANGED <<invoice, order, service, job, worker, trigger, history>>
    BY DEF AdminReadJob
  <1>2. job[k] \in Jobs
    BY AdminFacts
  <1>3. admin' \subseteq AdminOps /\ \A op \in admin' : op[2] = "retry"
    BY <1>1, <1>2, OpType
  <1>. QED  BY <1>1, <1>3, AdminFacts, AdminMoves

\* The cancellation ends a job, also one that a worker has in hand.
LEMMA AdminCancelJobStep ==
    ASSUME WorkInv, AdminCancelJob
    PROVE  WorkInv'
  <1>0. ProvTypeOK /\ Hands /\ UnpaidAtRest /\ UnpaidUntouched /\ Explained
    BY DEF WorkInv
  <1>1. PICK op \in admin :
           /\ op[2] = "cancel"
           /\ job' = [job EXCEPT ![op[1]].status =
                        IF @ \in {"QUEUED", "RUNNING"} THEN "FAILED" ELSE @]
    BY DEF AdminCancelJob
  <1>2. /\ admin' = {}
        /\ UNCHANGED <<invoice, order, service, worker, trigger, used, history>>
    BY DEF AdminCancelJob
  <1>3. op[1] \in Items /\ op[1] \in history.cancelled /\ job[op[1]] \in Jobs
        /\ job \in [Items -> Jobs]
    BY <1>1, AdminFacts
  <1>4. /\ job' \in [Items -> Jobs]
        /\ \A k \in Items :
              /\ job'[k].owner = job[k].owner /\ job'[k].stale = job[k].stale
              /\ \/ job'[k].status = job[k].status
                 \/ job'[k].status = "FAILED" /\ k \in history.cancelled
    <2>. DEFINE st == IF job[op[1]].status \in {"QUEUED", "RUNNING"} THEN "FAILED"
                      ELSE job[op[1]].status
                next == [job[op[1]] EXCEPT !.status = st]
    <2>1. st \in JobStatus /\ st \in {job[op[1]].status, "FAILED"}
      BY <1>3 DEF Jobs, JobStatus
    <2>2. job' = [job EXCEPT ![op[1]] = next]
      BY <1>1, <1>3
    <2>. HIDE DEF st
    <2>3. /\ next \in Jobs /\ next.status = st
          /\ next.owner = job[op[1]].owner /\ next.stale = job[op[1]].stale
      BY <1>3, <2>1 DEF Jobs
    <2>. HIDE DEF next
    <2>. QED  BY <1>3, <2>1, <2>2, <2>3
  <1>5. ProvTypeOK'
    BY <1>0, <1>2, <1>4, TypesMeet
  <1>6. Hands'
    <2>1. OneAtATime'
      BY <1>0, <1>2 DEF Hands, OneAtATime, Hand
    <2>. QED  BY <1>0, <1>2, <1>4, <2>1, HandsKept
  <1>7. UnpaidAtRest' /\ UnpaidUntouched'
    BY <1>0, <1>2, <1>4, UnpaidKept DEF UnpaidAtRest
  <1>8. Explained'
    BY <1>0, <1>2, <1>4, ExplainedKept
  <1>. QED  BY <1>5, <1>6, <1>7, <1>8 DEF WorkInv

LEMMA AdminRetryStep ==
    ASSUME WorkInv, NEW k \in Items, AdminRetry(k)
    PROVE  WorkInv'
  <1>. DEFINE new == [NoJob EXCEPT !.status = "QUEUED", !.max = 3]
              again == [job[k] EXCEPT !.status = "QUEUED", !.attempts = 0, !.stale = FALSE]
  <1>1. /\ AdminStarts /\ Reopen(k)
        /\ job' = [job EXCEPT ![k] = IF job[k].status = "absent" THEN new ELSE again]
        /\ UNCHANGED <<invoice, order, service, worker, trigger, admin>>
    BY AdminFacts DEF AdminRetry
  <1>2. new \in Jobs /\ new.status = "QUEUED"
    BY NewJobType
  <1>3. again \in Jobs /\ again.status = "QUEUED"
    <2>1. job[k] \in Jobs
      BY AdminFacts
    <2>2. \A st \in JobStatus, a \in Int, b \in BOOLEAN :
             [job[k] EXCEPT !.status = st, !.attempts = a, !.stale = b] \in Jobs
      BY <2>1 DEF Jobs
    <2>3. "QUEUED" \in JobStatus /\ 0 \in Int
      BY DEF JobStatus
    <2>4. FALSE \in BOOLEAN
      OBVIOUS
    <2>5. again \in Jobs
      BY <2>2, <2>3, <2>4, Zenon
    <2>6. again.status = "QUEUED"
      BY <2>1 DEF Jobs
    <2>. QED  BY <2>5, <2>6
  <1>. HIDE DEF new, again
  <1>4. /\ job' \in [Items -> Jobs]
        /\ \A j \in Items : j # k => job'[j] = job[j]
        /\ job'[k].status = "QUEUED"
    BY <1>1, <1>2, <1>3, AdminFacts
  <1>. QED  BY <1>1, <1>4, AdminFacts, ReopenStep

LEMMA AdminRetryJobStep ==
    ASSUME WorkInv, AdminRetryJob
    PROVE  WorkInv'
  <1>0. ProvTypeOK
    BY DEF WorkInv
  <1>1. PICK op \in admin :
           /\ SetJob(op[1],
                [job[op[1]] EXCEPT
                   !.status = IF op[3].status = "QUEUED" THEN @ ELSE "QUEUED",
                   !.attempts = IF op[3].attempts = 0 THEN @ ELSE 0,
                   !.owner = IF op[3].status = "RUNNING" THEN Nobody ELSE @,
                   !.stale = op[3].status # "RUNNING" /\ @])
           /\ Reopen(op[1])
    BY DEF AdminRetryJob
  <1>2. /\ admin' = {}
        /\ UNCHANGED <<invoice, order, service, worker, trigger, used>>
    BY DEF AdminRetryJob
  <1>. DEFINE k == op[1]
              put(st, a, o, b) ==
                 [job[k] EXCEPT !.status = st, !.attempts = a, !.owner = o, !.stale = b]
  <1>3. k \in Items /\ job[k] \in Jobs
    BY AdminFacts
  <1>4. PICK st \in {job[k].status, "QUEUED"}, a \in {job[k].attempts, 0},
             o \in {job[k].owner, Nobody}, b \in {job[k].stale, FALSE} :
           SetJob(k, put(st, a, o, b))
    <2>1. (op[3].status # "RUNNING" /\ job[k].stale) \in {job[k].stale, FALSE}
      BY <1>3 DEF Jobs
    <2>. QED  BY <1>1, <2>1
  <1>5. /\ st \in JobStatus /\ a \in Int
        /\ o \in Workers \cup {Nobody}
        /\ b \in BOOLEAN
    <2>1. /\ job[k].status \in JobStatus /\ job[k].attempts \in Int
          /\ job[k].owner \in Workers \cup {Nobody} /\ job[k].stale \in BOOLEAN
      BY <1>3 DEF Jobs
    <2>2. "QUEUED" \in JobStatus
      BY DEF JobStatus
    <2>3. st \in JobStatus /\ a \in Int
      BY <2>1, <2>2
    <2>4. o \in Workers \cup {Nobody}
      BY <2>1
    <2>5. b \in BOOLEAN
      BY <2>1
    <2>. QED  BY <2>3, <2>4, <2>5
  <1>6. put(st, a, o, b) \in Jobs /\ put(st, a, o, b).status = st
    <2>1. \A st1 \in JobStatus, a1 \in Int, o1 \in Workers \cup {Nobody}, b1 \in BOOLEAN :
             put(st1, a1, o1, b1) \in Jobs /\ put(st1, a1, o1, b1).status = st1
      BY <1>3 DEF Jobs
    <2>. HIDE DEF put
    <2>. QED  BY <1>5, <2>1
  <1>. HIDE DEF put
  <1>8. /\ job' \in [Items -> Jobs]
        /\ \A j \in Items : j # k => job'[j] = job[j]
        /\ job'[k].status = job[k].status \/ job'[k].status = "QUEUED"
    <2>1. /\ job' \in [Items -> Jobs]
          /\ \A j \in Items : j # k => job'[j] = job[j]
          /\ job'[k] = IF job[k].status = "absent" THEN job[k] ELSE put(st, a, o, b)
      BY <1>0, <1>3, <1>4, <1>6, SetJobType
    <2>. QED  BY <1>4, <1>6, <2>1
  <1>9. admin' \subseteq AdminOps /\ \A op1 \in admin' : op1[2] \in {"delete"}
    BY <1>2
  <1>. QED  BY <1>1, <1>2, <1>3, <1>8, <1>9, AdminFacts, ReopenStep

LEMMA AdminDeleteStep ==
    ASSUME WorkInv, NEW k \in Items, AdminDelete(k)
    PROVE  WorkInv'
  <1>1. /\ AdminStarts /\ Reopen(k)
        /\ job' = [job EXCEPT ![k] = NoJob]
        /\ admin' = {<<k, "delete", NoJob>>}
        /\ UNCHANGED <<invoice, order, service, worker, trigger>>
    BY DEF AdminDelete
  <1>2. /\ job' \in [Items -> Jobs]
        /\ \A j \in Items : j # k => job'[j] = job[j]
        /\ job'[k].status = "absent"
    BY <1>1, AdminFacts, NoJobType DEF NoJob
  <1>3. admin' \subseteq AdminOps /\ \A op \in admin' : op[2] \in {"delete"}
    BY <1>1, OpType, NoJobType
  <1>. QED  BY <1>1, <1>2, <1>3, AdminFacts, ReopenStep

LEMMA AdminStep ==
    ASSUME WorkInv, Admin
    PROVE  WorkInv'
  BY AdminUnpayStep, AdminCancelJobStep, AdminWriteStep, AdminDeleteServiceStep,
     AdminRetryJobStep, AdminCancelStep, AdminProvisionStep, AdminRetryStep,
     AdminReadJobStep, AdminDeleteStep, AdminSetStep, SweepStep DEF Admin

-----------------------------------------------------------------------------
(* The theorems *)

LEMMA WorkInit == Init => WorkInv
  <1>. SUFFICES ASSUME Init
                PROVE  WorkInv
    OBVIOUS
  <1>1. ProvTypeOK
    BY TypeInit
  <1>2. \A w \in Workers :
           worker[w].pc = "idle" /\ worker[w].todo = {} /\ worker[w].cur = {}
    BY DEF Init, Idle
  <1>3. \A t \in Triggers : trigger[t].pc = "idle" /\ trigger[t].cur = {}
    BY DEF Init
  <1>4. Hands
    BY <1>2 DEF Hands, OneAtATime, HeldIsLocked, Holds, Hand, AtomicBatch
  <1>5. UnpaidAtRest
    BY <1>2, <1>3 DEF Init, UnpaidAtRest
  <1>6. \A k \in Items : job[k].status = "absent" /\ service[k] = "PENDING"
    BY DEF Init, NoJob
  <1>7. UnpaidUntouched
    BY <1>6 DEF Init, UnpaidUntouched
  <1>8. Explained
    BY <1>2, <1>3, <1>6 DEF Init, Explained, WorkersExplained, TriggersExplained,
       AdminExplained, EndedExplained, SuccessExplained
  <1>. QED  BY <1>1, <1>4, <1>5, <1>7, <1>8 DEF WorkInv

LEMMA WorkerStepStep ==
    ASSUME WorkInv, NEW w \in Workers, WorkerStep(w)
    PROVE  WorkInv'
  BY FindStep, LockStep, LoadStep, CheckInvoiceStep, DeferStep, ReadServiceStep, SkipStep,
     MakeStep, MarkStep, CallStep, ActivateStep, SucceedStep, FinalizeStep, FailStep,
     RequeueStep DEF WorkerStep

LEMMA WorkStutters ==
    ASSUME WorkInv, UNCHANGED vars
    PROVE  WorkInv'
  <1>0. ProvTypeOK /\ Hands /\ UnpaidAtRest /\ UnpaidUntouched /\ Explained
    BY DEF WorkInv
  <1>1. UNCHANGED <<invoice, order, service, job, worker, trigger, admin, used, history>>
    BY DEF vars
  <1>2. ProvTypeOK'
    BY <1>0, <1>1, TypesMeet
  <1>3. Hands'
    BY <1>0, <1>1, HandsUntouched
  <1>4. UnpaidAtRest' /\ UnpaidUntouched'
    BY <1>0, <1>1 DEF UnpaidAtRest, UnpaidUntouched
  <1>5. Explained'
    BY <1>0, <1>1, ExplainedKept
  <1>. QED  BY <1>2, <1>3, <1>4, <1>5 DEF WorkInv

LEMMA WorkStep == WorkInv /\ [Next]_vars => WorkInv'
  <1>. SUFFICES ASSUME WorkInv, [Next]_vars
                PROVE  WorkInv'
    OBVIOUS
  <1>1. ASSUME NEW w \in Workers, WorkerStep(w) \/ StepFails(w) \/ Crash(w)
        PROVE  WorkInv'
    BY <1>1, WorkerStepStep, StepFailsStep, CrashStep
  <1>2. ASSUME NEW t \in Triggers,
               \/ TriggerStart(t) \/ TriggerStep(t) \/ TriggerStepFails(t)
               \/ TriggerCrash(t)
        PROVE  WorkInv'
    BY <1>2, TriggerStartStep, TriggerStepStep, TriggerProceeds
  <1>3. ASSUME NEW k \in Items, LostLockGoesStale(k) \/ LiveLockGoesStale(k)
        PROVE  WorkInv'
    BY <1>3, LostLockStep, LiveLockStep
  <1>4. CASE InvoicePaid
    BY <1>4, InvoicePaidStep
  <1>5. CASE Admin
    BY <1>5, AdminStep
  <1>6. CASE UNCHANGED vars
    BY <1>6, WorkStutters
  <1>. QED  BY <1>1, <1>2, <1>3, <1>4, <1>5, <1>6 DEF Next

\* Every document, lock, batch and operation under way has the shape the code
\* gives it (models/provisioning-job.model.ts), however the calls interleave.
THEOREM ProvTypeCorrect == Spec => []ProvTypeOK
  <1>1. WorkInv => ProvTypeOK
    BY DEF WorkInv
  <1>. QED  BY <1>1, WorkInit, WorkStep, PTL DEF Spec

\* No job is in two workers' hands unless its lock went stale under a live call
\* or somebody queued it again; nothing happens at a provider before a payment;
\* no service is ACTIVE or SUSPENDED and no job SUCCESS unless a provider accepted
\* the item or an administrator decided so (lockBatchForProcessing,
\* processSingleJob and performAction), for any number of items, workers,
\* triggers, administrators and sweeps, any size of batch and any failures.
THEOREM WorkIsJustified == Spec => []WorkJustified
  <1>1. WorkInv => WorkJustified
    BY DEF WorkInv, Hands, Explained, WorkJustified
  <1>. QED  BY <1>1, WorkInit, WorkStep, PTL DEF Spec

=============================================================================

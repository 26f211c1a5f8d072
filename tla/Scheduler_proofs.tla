-------------------------- MODULE Scheduler_proofs --------------------------
(***************************************************************************)
(* Proofs about the scheduler and the renewals it runs.  First the lock of a *)
(* task, for every set of processes, tasks and runs and every lease; then,   *)
(* for any services, calls, cycles and bounds, what the renewals keep: the   *)
(* types, that a cycle is invoiced once unless disturbed, and that due dates *)
(* tell what was paid.                                                       *)
(***************************************************************************)
EXTENDS AutomationTaskLock, Renewals, FiniteSetTheorems, TLAPS

USE NoOwnerAssumption, LeaseAssumption, MaxTimeAssumption

-----------------------------------------------------------------------------
(* Type correctness of the lock *)

LEMMA LeaveType ==
    ASSUME TypeOK, NEW r \in Runs, Leave(r)
    PROVE  runningTasks' \in [Processes -> SUBSET Tasks]
  BY DEF Leave, TypeOK

LEMMA TakeLockType ==
    ASSUME TypeOK, NEW r \in Runs, TakeLock(r)
    PROVE  lock' \in [Tasks -> [ownerId : Runs \cup {NoOwner}, lockedUntil : Nat]]
  <1>1. LeaseEnd(r) \in Nat
    BY DEF LeaseEnd, TypeOK
  <1>. QED  BY <1>1 DEF TakeLock, TypeOK

LEMMA TypeInit == LockInit => TypeOK
  BY DEF LockInit, TypeOK, Locations, Sources, Records

LEMMA TypeStep == TypeOK /\ [LockNext]_lockVars => TypeOK'
  <1>. SUFFICES ASSUME TypeOK, [LockNext]_lockVars PROVE TypeOK'
    OBVIOUS
  <1>. USE DEF Locations, Records
  <1>1. ASSUME NEW r \in Runs, InvokeCron(r) \/ InvokeManual(r) PROVE TypeOK'
    <2>1. CASE InvokeCron(r)
      <3>1. runningTasks' \in [Processes -> SUBSET Tasks]
        BY <2>1 DEF InvokeCron, TypeOK
      <3>. QED  BY <2>1, <3>1 DEF InvokeCron, TypeOK
    <2>2. CASE InvokeManual(r)
      BY <2>2 DEF InvokeManual, TypeOK
    <2>. QED  BY <1>1, <2>1, <2>2
  <1>2. ASSUME NEW r \in Runs, Acquire(r) \/ SkipLocked(r) \/ AcquireFails(r) PROVE TypeOK'
    <2>1. CASE Acquire(r)
      BY <2>1, TakeLockType DEF Acquire, TypeOK
    <2>2. CASE SkipLocked(r)
      BY <2>2, LeaveType DEF SkipLocked, TypeOK
    <2>3. CASE AcquireFails(r)
      BY <2>3, LeaveType, TakeLockType DEF AcquireFails, TypeOK
    <2>. QED  BY <1>2, <2>1, <2>2, <2>3
  <1>3. ASSUME NEW r \in Runs, StartRun(r) \/ StartRunFails(r) PROVE TypeOK'
    BY <1>3, LeaveType DEF StartRun, StartRunFails, TypeOK
  <1>4. ASSUME NEW r \in Runs, EndBody(r) PROVE TypeOK'
    BY <1>4 DEF EndBody, TypeOK
  <1>5. ASSUME NEW r \in Runs, CompleteSuccess(r) \/ CompleteSuccessFails(r) \/ CompleteFailure(r)
        PROVE  TypeOK'
    <2>1. CASE CompleteSuccess(r)
      BY <2>1, LeaveType DEF CompleteSuccess, TypeOK
    <2>2. CASE CompleteSuccessFails(r)
      BY <2>2 DEF CompleteSuccessFails, TypeOK
    <2>3. CASE CompleteFailure(r)
      BY <2>3, LeaveType DEF CompleteFailure, TypeOK
    <2>. QED  BY <1>5, <2>1, <2>2, <2>3
  <1>6. ASSUME NEW r \in Runs, Release(r) \/ ReleaseFails(r) PROVE TypeOK'
    <2>1. CASE Release(r)
      <3>1. [lock EXCEPT ![key[r]].lockedUntil = 0]
               \in [Tasks -> [ownerId : Runs \cup {NoOwner}, lockedUntil : Nat]]
        BY DEF TypeOK
      <3>. QED  BY <2>1, <3>1 DEF Release, TypeOK
    <2>2. CASE ReleaseFails(r)
      BY <2>2 DEF ReleaseFails, TypeOK
    <2>. QED  BY <1>6, <2>1, <2>2
  <1>7. ASSUME NEW p \in Processes, Crash(p) PROVE TypeOK'
    BY <1>7 DEF Crash, TypeOK
  <1>8. CASE Tick
    BY <1>8 DEF Tick, TypeOK
  <1>9. CASE UNCHANGED lockVars
    BY <1>9 DEF lockVars, TypeOK
  <1>. QED
    BY <1>1, <1>2, <1>3, <1>4, <1>5, <1>6, <1>7, <1>8, <1>9 DEF LockNext, Proceed

\* Every variable keeps its type.
THEOREM TypeCorrect == LockSpec => []TypeOK
  <1>. QED  BY TypeInit, TypeStep, PTL DEF LockSpec

-----------------------------------------------------------------------------
(* The lease *)

\* No run asks for the lock with a `now` that is still to come.
StampPast == \A r \in Runs : pc[r] # "idle" => stamp[r] <= now

\* Until its lease has run out, the lock document of a run's task is the one
\* that run wrote.
LeaseHeld ==
    \A r \in Runs :
        pc[r] \in Holding /\ now < LeaseEnd(r) =>
            lock[key[r]] = [ownerId |-> r, lockedUntil |-> LeaseEnd(r)]

\* The inductive invariant.  LeaseExclusion speaks of two runs, and follows
\* because both would have written the one document.
LeaseInv == TypeOK /\ StampPast /\ LeaseHeld

LEMMA LeaseInit == LockInit => LeaseInv
  BY TypeInit DEF LockInit, LeaseInv, StampPast, LeaseHeld, Holding

\* Whoever is granted the lock finds no lease of its task that has not run out.
LEMMA GrantedMeansFree ==
    ASSUME LeaseInv, NEW r \in Runs, pc[r] # "idle", Granted(r)
    PROVE  /\ lock[key[r]].lockedUntil <= now
           /\ \A s \in Runs : pc[s] \in Holding /\ key[s] = key[r] => ~(now < LeaseEnd(s))
  <1>1. lock[key[r]].lockedUntil \in Nat /\ stamp[r] \in Nat /\ now \in Nat
    BY DEF LeaseInv, TypeOK
  <1>2. lock[key[r]].lockedUntil <= now
    BY <1>1 DEF Granted, LeaseInv, StampPast
  <1>3. ASSUME NEW s \in Runs, pc[s] \in Holding, key[s] = key[r], now < LeaseEnd(s)
        PROVE  FALSE
    <2>1. lock[key[s]] = [ownerId |-> s, lockedUntil |-> LeaseEnd(s)]
      BY <1>3 DEF LeaseInv, LeaseHeld
    <2>2. lock[key[s]].lockedUntil = LeaseEnd(s)
      BY <2>1
    <2>3. LeaseEnd(s) \in Nat
      BY DEF LeaseEnd, LeaseInv, TypeOK
    <2>. QED  BY <1>1, <1>2, <1>3, <2>2, <2>3
  <1>. QED  BY <1>2, <1>3

\* Steps that leave clock and lock alone and make no run a holder.
LEMMA LeaseKept ==
    ASSUME LeaseInv, TypeOK', UNCHANGED <<now, lock, key>>,
           \A r \in Runs : /\ pc'[r] \in Holding => pc[r] \in Holding
                           /\ pc'[r] # "idle" => stamp'[r] <= now
                           /\ pc[r] # "idle" => stamp'[r] = stamp[r]
    PROVE  LeaseInv'
  <1>1. \A r \in Runs : pc'[r] \in Holding => stamp'[r] = stamp[r]
    BY DEF Holding
  <1>. QED  BY <1>1 DEF LeaseInv, StampPast, LeaseHeld, LeaseEnd

LEMMA LeaseStep == LeaseInv /\ [LockNext]_lockVars => LeaseInv'
  <1>. SUFFICES ASSUME LeaseInv, [LockNext]_lockVars PROVE LeaseInv'
    OBVIOUS
  <1>0. TypeOK /\ TypeOK'
    BY TypeStep DEF LeaseInv
  <1>. USE DEF Holding
  <1>1. ASSUME NEW r \in Runs, InvokeCron(r) \/ InvokeManual(r) PROVE LeaseInv'
    <2>1. /\ UNCHANGED <<now, lock, key>> /\ now \in Nat
          /\ pc[r] = "idle"
          /\ pc' = [pc EXCEPT ![r] = "acquire"]
          /\ stamp' = [stamp EXCEPT ![r] = now]
      BY <1>0, <1>1 DEF InvokeCron, InvokeManual, TypeOK
    <2>2. \A s \in Runs : /\ pc'[s] \in Holding => pc[s] \in Holding
                          /\ pc'[s] # "idle" => stamp'[s] <= now
                          /\ pc[s] # "idle" => stamp'[s] = stamp[s]
      BY <1>0, <2>1 DEF TypeOK, LeaseInv, StampPast
    <2>. QED  BY <1>0, <2>1, <2>2, LeaseKept
  <1>2. ASSUME NEW r \in Runs, pc[r] = "acquire", Granted(r), TakeLock(r),
               pc' = [pc EXCEPT ![r] = "acquired"] \/ pc' = [pc EXCEPT ![r] = "done"],
               UNCHANGED <<now, key, stamp>>
        PROVE  LeaseInv'
    <2>1. StampPast'
      BY <1>0, <1>2 DEF LeaseInv, StampPast, TypeOK
    <2>2. ASSUME NEW s \in Runs, pc'[s] \in Holding, now' < LeaseEnd(s)'
          PROVE  lock'[key'[s]] = [ownerId |-> s, lockedUntil |-> LeaseEnd(s)']
      <3>0. LeaseEnd(s)' = LeaseEnd(s) /\ key'[s] = key[s]
        BY <1>2 DEF LeaseEnd
      <3>1. CASE s = r
        BY <1>0, <1>2, <3>0, <3>1 DEF TakeLock, TypeOK
      <3>2. CASE s # r
        <4>1. pc[s] \in Holding
          BY <1>0, <1>2, <2>2, <3>2 DEF TypeOK
        <4>2. key[s] # key[r]
          BY <1>2, <2>2, <3>0, <4>1, GrantedMeansFree
        <4>. QED  BY <1>0, <1>2, <2>2, <3>0, <4>1, <4>2 DEF TakeLock, TypeOK, LeaseInv, LeaseHeld
      <3>. QED  BY <3>1, <3>2
    <2>. QED  BY <1>0, <2>1, <2>2 DEF LeaseInv, LeaseHeld
  <1>3. ASSUME NEW r \in Runs, Acquire(r) \/ SkipLocked(r) \/ AcquireFails(r) PROVE LeaseInv'
    <2>1. CASE Granted(r) /\ TakeLock(r)
      BY <1>2, <1>3, <2>1 DEF Acquire, SkipLocked, AcquireFails
    <2>2. CASE ~(Granted(r) /\ TakeLock(r))
      <3>1. /\ UNCHANGED <<now, lock, key, stamp>>
            /\ pc' = [pc EXCEPT ![r] = "done"] /\ pc[r] = "acquire"
        BY <1>3, <2>2 DEF Acquire, SkipLocked, AcquireFails
      <3>2. \A s \in Runs : /\ pc'[s] \in Holding => pc[s] \in Holding
                            /\ pc'[s] # "idle" => stamp'[s] <= now
        BY <1>0, <3>1 DEF TypeOK, LeaseInv, StampPast
      <3>. QED  BY <1>0, <3>1, <3>2, LeaseKept
    <2>. QED  BY <2>1, <2>2
  <1>4. ASSUME NEW r \in Runs,
               \/ StartRun(r) \/ StartRunFails(r) \/ EndBody(r) \/ CompleteSuccess(r)
               \/ CompleteSuccessFails(r) \/ CompleteFailure(r) \/ ReleaseFails(r)
        PROVE  LeaseInv'
    <2>1. /\ UNCHANGED <<now, lock, key, stamp>> /\ pc[r] \in Holding
          /\ \E l \in Locations \ {"idle"} : pc' = [pc EXCEPT ![r] = l]
      BY <1>4 DEF StartRun, StartRunFails, EndBody, CompleteSuccess, CompleteSuccessFails,
         CompleteFailure, ReleaseFails, Locations
    <2>2. \A s \in Runs : /\ pc'[s] \in Holding => pc[s] \in Holding
                          /\ pc'[s] # "idle" => stamp'[s] <= now
      BY <1>0, <2>1 DEF TypeOK, LeaseInv, StampPast
    <2>. QED  BY <1>0, <2>1, <2>2, LeaseKept
  <1>5. ASSUME NEW r \in Runs, Release(r) PROVE LeaseInv'
    <2>1. /\ UNCHANGED <<now, key, stamp>>
          /\ pc[r] = "release" /\ pc' = [pc EXCEPT ![r] = "done"]
          /\ \A k \in Tasks : lock[k].ownerId # r => lock'[k] = lock[k]
      BY <1>0, <1>5 DEF Release, Owned, TypeOK
    <2>2. StampPast'
      BY <1>0, <2>1 DEF LeaseInv, StampPast, TypeOK
    <2>3. ASSUME NEW s \in Runs, pc'[s] \in Holding, now' < LeaseEnd(s)'
          PROVE  lock'[key'[s]] = [ownerId |-> s, lockedUntil |-> LeaseEnd(s)']
      <3>1. s # r /\ pc[s] \in Holding
        BY <1>0, <2>1, <2>3 DEF TypeOK
      <3>2. LeaseEnd(s)' = LeaseEnd(s) /\ key[s] \in Tasks
        BY <1>0, <2>1 DEF LeaseEnd, TypeOK
      <3>3. lock[key[s]] = [ownerId |-> s, lockedUntil |-> LeaseEnd(s)]
        BY <2>1, <2>3, <3>1, <3>2 DEF LeaseInv, LeaseHeld
      <3>. QED  BY <2>1, <3>1, <3>2, <3>3
    <2>. QED  BY <1>0, <2>2, <2>3 DEF LeaseInv, LeaseHeld
  <1>6. ASSUME NEW p \in Processes, Crash(p) PROVE LeaseInv'
    <2>1. /\ UNCHANGED <<now, lock, key, stamp>>
          /\ \A r \in Runs : /\ pc'[r] \in Holding => pc[r] \in Holding
                             /\ pc'[r] # "idle" => pc[r] # "idle"
      BY <1>6 DEF Crash
    <2>. QED  BY <1>0, <2>1, LeaseKept DEF LeaseInv, StampPast
  <1>7. CASE Tick
    <2>1. now' = now + 1 /\ UNCHANGED <<lock, pc, key, stamp>>
      BY <1>7 DEF Tick
    <2>2. \A r \in Runs : LeaseEnd(r) \in Nat /\ LeaseEnd(r)' = LeaseEnd(r)
      BY <1>0, <2>1 DEF LeaseEnd, TypeOK
    <2>3. StampPast'
      BY <1>0, <2>1 DEF LeaseInv, StampPast, TypeOK
    <2>4. LeaseHeld'
      BY <1>0, <2>1, <2>2 DEF LeaseInv, LeaseHeld, TypeOK
    <2>. QED  BY <1>0, <2>3, <2>4 DEF LeaseInv
  <1>8. CASE UNCHANGED lockVars
    BY <1>8, <1>0 DEF lockVars, LeaseInv, StampPast, LeaseHeld, LeaseEnd
  <1>. QED
    BY <1>1, <1>3, <1>4, <1>5, <1>6, <1>7, <1>8 DEF LockNext, Proceed

LEMMA LeaseInvariant == LockSpec => []LeaseInv
  <1>. QED  BY LeaseInit, LeaseStep, PTL DEF LockSpec

\* Two runs of one task never both hold a lease that has not run out, in any
\* number of processes and however late their requests and releases arrive.
THEOREM LeaseIsExclusive == LockSpec => []LeaseExclusion
  <1>1. LeaseInv => LeaseExclusion
    <2>. SUFFICES ASSUME LeaseInv, NEW r \in Runs, NEW s \in Runs,
                         pc[r] \in Holding, pc[s] \in Holding, key[r] = key[s],
                         now < LeaseEnd(r), now < LeaseEnd(s)
                  PROVE  r = s
      BY DEF LeaseExclusion
    <2>1. /\ lock[key[r]] = [ownerId |-> r, lockedUntil |-> LeaseEnd(r)]
          /\ lock[key[s]] = [ownerId |-> s, lockedUntil |-> LeaseEnd(s)]
      BY DEF LeaseInv, LeaseHeld
    <2>2. lock[key[r]].ownerId = r /\ lock[key[s]].ownerId = s
      BY <2>1
    <2>. QED  BY <2>2
  <1>. QED  BY LeaseInvariant, <1>1, PTL

\* A lease that has not run out changes hands or ends only by the release of
\* the run that owns it.
THEOREM ReleaseIsFenced == LockSpec => ReleaseFenced
  <1>1. ASSUME LeaseInv, [LockNext]_lockVars, NEW k \in Tasks,
               lock[k].lockedUntil > now, lock'[k] # lock[k]
        PROVE  \E r \in Runs : lock[k].ownerId = r /\ pc[r] = "release" /\ pc'[r] = "done"
    <2>0. TypeOK
      BY <1>1 DEF LeaseInv
    <2>1. ASSUME NEW r \in Runs, pc[r] = "acquire", Granted(r), TakeLock(r)
          PROVE  FALSE
      <3>1. lock[key[r]].lockedUntil <= now /\ lock[key[r]].lockedUntil \in Nat /\ now \in Nat
        BY <1>1, <2>0, <2>1, GrantedMeansFree DEF TypeOK
      <3>2. k # key[r]
        BY <1>1, <3>1
      <3>. QED  BY <1>1, <2>0, <2>1, <3>2 DEF TakeLock, TypeOK
    <2>2. PICK r \in Runs : Acquire(r) \/ AcquireFails(r) \/ Release(r)
      BY <1>1 DEF LockNext, Proceed, lockVars, InvokeCron, InvokeManual, SkipLocked, StartRun,
         StartRunFails, EndBody, CompleteSuccess, CompleteSuccessFails, CompleteFailure,
         ReleaseFails, Crash, Tick
    <2>3. CASE Acquire(r) \/ AcquireFails(r)
      BY <1>1, <2>1, <2>3 DEF Acquire, AcquireFails
    <2>4. CASE Release(r)
      BY <1>1, <2>0, <2>4 DEF Release, Owned, TypeOK
    <2>. QED  BY <2>2, <2>3, <2>4
  <1>2. LeaseInv /\ [LockNext]_lockVars =>
          [\A k \in Tasks :
             lock[k].lockedUntil > now /\ lock'[k] # lock[k] =>
                 \E r \in Runs : /\ lock[k].ownerId = r
                                 /\ pc[r] = "release" /\ pc'[r] = "done"]_lockVars
    BY <1>1
  <1>. QED  BY <1>2, LeaseInvariant, PTL DEF LockSpec, ReleaseFenced

-----------------------------------------------------------------------------
(* The lock implements the abstract lease *)

\* Only the run that holds the abstract lease is inside it.
InsideHolder == \A k \in Tasks : insideBar[k] \subseteq Runs \cap {holderBar[k]}

LEMMA InsideIsHolder == LeaseInv => InsideHolder
  <1>. SUFFICES ASSUME LeaseInv, NEW k \in Tasks
                PROVE  insideBar[k] \subseteq Runs \cap {holderBar[k]}
    BY DEF InsideHolder
  <1>1. ASSUME NEW r \in insideBar[k] PROVE r \in Runs /\ holderBar[k] = r
    <2>1. r \in Runs /\ pc[r] \in Holding /\ key[r] = k /\ now < LeaseEnd(r)
      BY <1>1 DEF insideBar
    <2>2. lock[k] = [ownerId |-> r, lockedUntil |-> LeaseEnd(r)]
      BY <2>1 DEF LeaseInv, LeaseHeld
    <2>3. lock[k].ownerId = r /\ lock[k].lockedUntil = LeaseEnd(r)
      BY <2>2
    <2>. QED  BY <2>1, <2>3 DEF holderBar
  <1>. QED  BY <1>1

\* A step after which no one new is inside and the lease is where it was or
\* nowhere is a step of the abstract lease.
LEMMA ShrinkingIsAbstract ==
    ASSUME LeaseInv, LeaseInv', NEW k \in Tasks,
           holderBar'[k] \in {holderBar[k], NoOwner},
           insideBar'[k] \subseteq insideBar[k]
    PROVE  Abstract!Leave(k) \/ Abstract!Stay(k)
  <1>1. insideBar[k] \subseteq Runs \cap {holderBar[k]}
    BY InsideIsHolder DEF InsideHolder
  <1>0. LeaseInv' => InsideHolder'
    BY InsideIsHolder, PTL
  <1>2. insideBar'[k] \subseteq Runs \cap {holderBar'[k]}
    BY <1>0 DEF InsideHolder
  <1>3. insideBar'[k] = insideBar[k] \/ insideBar'[k] = {}
    BY <1>1
  <1>4. CASE holderBar'[k] = NoOwner
    <2>1. insideBar'[k] = {}
      BY <1>2, <1>4
    <2>. QED  BY <1>4, <2>1 DEF Abstract!Leave
  <1>5. CASE holderBar'[k] = holderBar[k]
    BY <1>3, <1>5 DEF Abstract!Leave, Abstract!Stay
  <1>. QED  BY <1>4, <1>5

\* Who is inside after a step that makes no run of the task a holder.
LEMMA NobodyEnters ==
    ASSUME TypeOK, TypeOK', NEW k \in Tasks, key' = key, now' >= now,
           \A r \in Runs : key[r] = k /\ pc'[r] \in Holding =>
               pc[r] \in Holding /\ stamp'[r] = stamp[r]
    PROVE  insideBar'[k] \subseteq insideBar[k]
  <1>1. ASSUME NEW r \in Runs, pc'[r] \in Holding, key[r] = k, now' < LeaseEnd(r)'
        PROVE  pc[r] \in Holding /\ now < LeaseEnd(r)
    BY <1>1 DEF LeaseEnd, TypeOK
  <1>. QED  BY <1>1 DEF insideBar

LEMMA TakingIsAbstract ==
    ASSUME LeaseInv, LeaseInv', NEW r \in Runs, pc[r] = "acquire", Granted(r), TakeLock(r),
           pc' = [pc EXCEPT ![r] = "acquired"] \/ pc' = [pc EXCEPT ![r] = "done"],
           UNCHANGED <<now, key, stamp>>, NEW k \in Tasks
    PROVE  Abstract!Grant(k) \/ Abstract!Leave(k) \/ Abstract!Stay(k)
  <1>0. TypeOK /\ TypeOK'
    BY DEF LeaseInv
  <1>1. CASE k # key[r]
    <2>1. lock'[k] = lock[k]
      BY <1>0, <1>1 DEF TakeLock, TypeOK
    <2>2. holderBar'[k] = holderBar[k]
      BY <2>1 DEF holderBar
    <2>3. insideBar'[k] \subseteq insideBar[k]
      <3>1. \A s \in Runs : key[s] = k /\ pc'[s] \in Holding => pc[s] \in Holding /\ stamp'[s] = stamp[s]
        BY <1>0, <1>1 DEF TypeOK, Holding
      <3>. QED  BY <1>0, <3>1, NobodyEnters DEF TypeOK
    <2>. QED  BY <2>2, <2>3, ShrinkingIsAbstract
  <1>2. CASE k = key[r]
    <2>1. lock[k].lockedUntil <= now /\ lock[k].lockedUntil \in Nat /\ now \in Nat
      BY <1>0, <1>2, GrantedMeansFree DEF TypeOK
    <2>2. holderBar[k] = NoOwner
      BY <2>1 DEF holderBar
    <2>3. insideBar[k] = {}
      BY <2>2, InsideIsHolder DEF InsideHolder
    <2>4. insideBar'[k] \subseteq {r}
      <3>1. ASSUME NEW s \in insideBar'[k], s # r PROVE FALSE
        <4>1. s \in Runs /\ pc'[s] \in Holding /\ key[s] = k /\ now < LeaseEnd(s)
          BY <3>1 DEF insideBar, LeaseEnd
        <4>2. pc[s] \in Holding
          BY <1>0, <3>1, <4>1 DEF TypeOK
        <4>. QED  BY <2>3, <4>1, <4>2 DEF insideBar
      <3>. QED  BY <3>1
    <2>5. lock'[k] = [ownerId |-> r, lockedUntil |-> LeaseEnd(r)]
      BY <1>0, <1>2 DEF TakeLock, TypeOK
    <2>6. holderBar'[k] \in {r, NoOwner}
      BY <2>5 DEF holderBar
    <2>7. insideBar'[k] \subseteq {holderBar'[k]} \cap Runs
      <3>1. LeaseInv' => InsideHolder'
        BY InsideIsHolder, PTL
      <3>. QED  BY <3>1 DEF InsideHolder
    <2>8. CASE holderBar'[k] = NoOwner
      <3>1. insideBar'[k] = {}
        BY <2>7, <2>8
      <3>. QED  BY <2>8, <3>1 DEF Abstract!Leave
    <2>9. CASE holderBar'[k] = r
      <3>1. insideBar'[k] \in {insideBar[k], insideBar[k] \cup {r}}
        BY <2>3, <2>4
      <3>. QED  BY <2>2, <2>9, <3>1 DEF Abstract!Grant
    <2>. QED  BY <2>6, <2>8, <2>9
  <1>. QED  BY <1>1, <1>2

LEMMA AbstractInit == LeaseInv /\ LockInit => Abstract!Init
  <1>. SUFFICES ASSUME LeaseInv, LockInit PROVE Abstract!Init
    OBVIOUS
  <1>1. holderBar = [k \in Tasks |-> NoOwner]
    BY DEF LockInit, holderBar
  <1>2. insideBar = [k \in Tasks |-> {}]
    <2>1. \A k \in Tasks : insideBar[k] = {}
      BY DEF LockInit, insideBar, Holding
    <2>. QED  BY <2>1 DEF insideBar
  <1>. QED  BY <1>1, <1>2 DEF Abstract!Init

\* Every step is, for each task, a grant, a leaving or nothing.
LEMMA StepOfTask ==
    ASSUME LeaseInv, LeaseInv', LockNext, NEW k \in Tasks
    PROVE  Abstract!Grant(k) \/ Abstract!Leave(k) \/ Abstract!Stay(k)
  <1>0. TypeOK /\ TypeOK'
    BY DEF LeaseInv
  <1>1. ASSUME NEW r \in Runs, Acquire(r) \/ AcquireFails(r), Granted(r), TakeLock(r)
        PROVE  Abstract!Grant(k) \/ Abstract!Leave(k) \/ Abstract!Stay(k)
    <2>1. /\ pc[r] = "acquire" /\ UNCHANGED <<now, key, stamp>>
          /\ pc' = [pc EXCEPT ![r] = "acquired"] \/ pc' = [pc EXCEPT ![r] = "done"]
      BY <1>1 DEF Acquire, AcquireFails
    <2>. QED  BY <1>1, <2>1, TakingIsAbstract
  <1>2. CASE /\ key' = key /\ now' >= now
             /\ \/ lock'[k] = lock[k]
                \/ now' = now /\ lock'[k].lockedUntil = 0
             /\ \A r \in Runs : pc'[r] \in Holding => pc[r] \in Holding /\ stamp'[r] = stamp[r]
    <2>1. insideBar'[k] \subseteq insideBar[k]
      BY <1>0, <1>2, NobodyEnters
    <2>2. holderBar'[k] \in {holderBar[k], NoOwner}
      <3>1. now \in Nat /\ now' \in Nat /\ lock[k].lockedUntil \in Nat
        BY <1>0 DEF TypeOK
      <3>2. CASE lock'[k] = lock[k]
        BY <1>2, <3>1, <3>2 DEF holderBar
      <3>3. CASE lock'[k].lockedUntil = 0
        BY <3>1, <3>3 DEF holderBar
      <3>. QED  BY <1>2, <3>2, <3>3
    <2>. QED  BY <2>1, <2>2, ShrinkingIsAbstract
  <1>. USE DEF Holding
  <1>3. ASSUME NEW r \in Runs,
               \/ InvokeCron(r) \/ InvokeManual(r) \/ SkipLocked(r)
               \/ AcquireFails(r) /\ UNCHANGED lock
               \/ StartRun(r) \/ StartRunFails(r) \/ EndBody(r) \/ CompleteSuccess(r)
               \/ CompleteSuccessFails(r) \/ CompleteFailure(r) \/ ReleaseFails(r)
        PROVE  Abstract!Grant(k) \/ Abstract!Leave(k) \/ Abstract!Stay(k)
    <2>1. /\ UNCHANGED <<now, lock, key>>
          /\ \A s \in Runs : s # r => stamp'[s] = stamp[s]
          /\ \E l \in Locations : /\ pc' = [pc EXCEPT ![r] = l]
                                  /\ l \in Holding => pc[r] \in Holding /\ stamp' = stamp
      BY <1>0, <1>3 DEF InvokeCron, InvokeManual, SkipLocked, AcquireFails, StartRun,
         StartRunFails, EndBody, CompleteSuccess, CompleteSuccessFails, CompleteFailure,
         ReleaseFails, Locations, TypeOK
    <2>2. \A s \in Runs : pc'[s] \in Holding => pc[s] \in Holding /\ stamp'[s] = stamp[s]
      BY <1>0, <2>1 DEF TypeOK
    <2>. QED  BY <1>0, <1>2, <2>1, <2>2 DEF TypeOK
  <1>4. ASSUME NEW r \in Runs, Release(r)
        PROVE  Abstract!Grant(k) \/ Abstract!Leave(k) \/ Abstract!Stay(k)
    <2>1. /\ UNCHANGED <<now, key, stamp>> /\ pc' = [pc EXCEPT ![r] = "done"]
          /\ lock'[k] = lock[k] \/ lock'[k].lockedUntil = 0
      BY <1>0, <1>4 DEF Release, TypeOK
    <2>2. \A s \in Runs : pc'[s] \in Holding => pc[s] \in Holding /\ stamp'[s] = stamp[s]
      BY <1>0, <2>1 DEF TypeOK
    <2>. QED  BY <1>0, <1>2, <2>1, <2>2 DEF TypeOK
  <1>5. ASSUME NEW p \in Processes, Crash(p)
        PROVE  Abstract!Grant(k) \/ Abstract!Leave(k) \/ Abstract!Stay(k)
    <2>1. /\ UNCHANGED <<now, lock, key, stamp>>
          /\ \A s \in Runs : pc'[s] \in Holding => pc[s] \in Holding
      BY <1>5 DEF Crash
    <2>. QED  BY <1>0, <1>2, <2>1 DEF TypeOK
  <1>6. CASE Tick
    <2>1. now' = now + 1 /\ UNCHANGED <<lock, key, stamp, pc>>
      BY <1>6 DEF Tick
    <2>. QED  BY <1>0, <1>2, <2>1 DEF TypeOK
  <1>. QED
    BY <1>1, <1>3, <1>4, <1>5, <1>6 DEF LockNext, Proceed, Acquire, AcquireFails

\* The lock document, with late requests, lost answers and crashes, implements
\* the lease that at most one run of a task is inside of.
THEOREM LockImplementsLease == LockSpec => AbstractLease
  <1>1. LeaseInv /\ LeaseInv' /\ [LockNext]_lockVars => [Abstract!Next]_(Abstract!vars)
    <2>. SUFFICES ASSUME LeaseInv, LeaseInv', [LockNext]_lockVars
                  PROVE  [Abstract!Next]_(Abstract!vars)
      OBVIOUS
    <2>1. CASE LockNext
      <3>1. \A k \in Tasks : Abstract!Grant(k) \/ Abstract!Leave(k) \/ Abstract!Stay(k)
        BY <2>1, StepOfTask
      <3>2. holderBar' \in [Tasks -> Runs \cup {NoOwner}]
        BY DEF holderBar, LeaseInv, TypeOK
      <3>3. insideBar' \in [Tasks -> SUBSET Runs]
        BY DEF insideBar
      <3>. QED  BY <3>1, <3>2, <3>3 DEF Abstract!Next
    <2>2. CASE UNCHANGED lockVars
      <3>1. holderBar' = holderBar
        BY <2>2 DEF lockVars, holderBar
      <3>2. insideBar' = insideBar
        BY <2>2 DEF lockVars, insideBar, LeaseEnd
      <3>. QED  BY <3>1, <3>2 DEF Abstract!vars
    <2>. QED  BY <2>1, <2>2
  <1>2. LockSpec => Abstract!Init
    BY LeaseInit, AbstractInit DEF LockSpec
  <1>. QED  BY <1>1, <1>2, LeaseInvariant, PTL DEF LockSpec, AbstractLease, Abstract!Spec

-----------------------------------------------------------------------------
(* The set of running tasks of a process *)

\* A run that is in progress as the cron run of a task in a process.
Occupies(r, p, k) ==
    host[r] = p /\ key[r] = k /\ source[r] = "cron" /\ pc[r] \in Active

\* RunningTasksExact without its set of runs.
SlotExact(p, k) ==
    /\ (k \in runningTasks[p]) <=> (\E r \in Runs : Occupies(r, p, k))
    /\ \A r, s \in Runs : Occupies(r, p, k) /\ Occupies(s, p, k) => r = s

SlotInv == TypeOK /\ \A p \in Processes, k \in Tasks : SlotExact(p, k)

LEMMA SlotInit == LockInit => SlotInv
  BY TypeInit DEF LockInit, SlotInv, SlotExact, Occupies, Active

\* A run goes to a place where it is in progress exactly if it was.
LEMMA SlotKept ==
    ASSUME SlotInv, TypeOK', NEW p \in Processes, NEW k \in Tasks,
           runningTasks'[p] = runningTasks[p],
           \A r \in Runs : Occupies(r, p, k)' <=> Occupies(r, p, k)
    PROVE  SlotExact(p, k)'
  <1>1. SlotExact(p, k)
    BY DEF SlotInv
  <1>2. (k \in runningTasks'[p]) <=> (\E r \in Runs : Occupies(r, p, k)')
    BY <1>1 DEF SlotExact
  <1>3. \A r, s \in Runs : Occupies(r, p, k)' /\ Occupies(s, p, k)' => r = s
    BY <1>1 DEF SlotExact
  <1>. QED  BY <1>2, <1>3 DEF SlotExact

\* A run that was in progress ends, and frees what it occupied.
LEMMA SlotFreed ==
    ASSUME SlotInv, TypeOK', NEW r \in Runs, pc[r] \in Active, Leave(r),
           UNCHANGED <<host, key, source>>,
           \E l \in Locations \ Active : pc' = [pc EXCEPT ![r] = l],
           NEW p \in Processes, NEW k \in Tasks
    PROVE  SlotExact(p, k)'
  <1>0. TypeOK /\ SlotExact(p, k)
    BY DEF SlotInv
  <1>1. \A s \in Runs : Occupies(s, p, k)' <=> Occupies(s, p, k) /\ s # r
    BY <1>0 DEF Occupies, TypeOK
  <1>2. CASE Occupies(r, p, k)
    <2>1. k \notin runningTasks'[p]
      BY <1>0, <1>2 DEF Leave, Occupies, TypeOK
    <2>2. \A s \in Runs : ~Occupies(s, p, k)'
      BY <1>0, <1>1, <1>2 DEF SlotExact
    <2>. QED  BY <2>1, <2>2 DEF SlotExact
  <1>3. CASE ~Occupies(r, p, k)
    <2>1. (k \in runningTasks'[p]) <=> (k \in runningTasks[p])
      BY <1>0, <1>3 DEF Leave, Occupies, TypeOK
    <2>2. \A s \in Runs : Occupies(s, p, k)' <=> Occupies(s, p, k)
      BY <1>1, <1>3
    <2>3. (k \in runningTasks'[p]) <=> (\E s \in Runs : Occupies(s, p, k)')
      BY <1>0, <2>1, <2>2 DEF SlotExact
    <2>4. \A s, t \in Runs : Occupies(s, p, k)' /\ Occupies(t, p, k)' => s = t
      BY <1>0, <2>2 DEF SlotExact
    <2>. QED  BY <2>3, <2>4 DEF SlotExact
  <1>. QED  BY <1>2, <1>3

LEMMA SlotStep == SlotInv /\ [LockNext]_lockVars => SlotInv'
  <1>. SUFFICES ASSUME SlotInv, [LockNext]_lockVars, NEW p \in Processes, NEW k \in Tasks
                PROVE  SlotExact(p, k)'
    BY TypeStep DEF SlotInv
  <1>0. TypeOK /\ TypeOK' /\ SlotExact(p, k)
    BY TypeStep DEF SlotInv
  <1>1. ASSUME NEW r \in Runs, InvokeCron(r) PROVE SlotExact(p, k)'
    <2>1. /\ UNCHANGED <<host, key, source>> /\ pc' = [pc EXCEPT ![r] = "acquire"]
          /\ pc[r] = "idle" /\ source[r] = "cron" /\ key[r] \notin runningTasks[host[r]]
          /\ runningTasks' = [runningTasks EXCEPT ![host[r]] = @ \cup {key[r]}]
      BY <1>1 DEF InvokeCron
    <2>2. \A s \in Runs : s # r => (Occupies(s, p, k)' <=> Occupies(s, p, k))
      BY <1>0, <2>1 DEF Occupies, TypeOK
    <2>3. CASE host[r] = p /\ key[r] = k
      <3>1. Occupies(r, p, k)' /\ k \in runningTasks'[p]
        BY <1>0, <2>1, <2>3 DEF Occupies, Active, TypeOK
      <3>2. \A s \in Runs : ~Occupies(s, p, k)
        BY <1>0, <2>1, <2>3 DEF SlotExact
      <3>. QED  BY <2>2, <3>1, <3>2 DEF SlotExact
    <2>4. CASE ~(host[r] = p /\ key[r] = k)
      <3>1. ~Occupies(r, p, k) /\ ~Occupies(r, p, k)'
        BY <2>1, <2>4 DEF Occupies
      <3>2. \A s \in Runs : Occupies(s, p, k)' <=> Occupies(s, p, k)
        BY <2>2, <3>1
      <3>3. (k \in runningTasks'[p]) <=> (k \in runningTasks[p])
        BY <1>0, <2>1, <2>4 DEF TypeOK
      <3>4. (k \in runningTasks'[p]) <=> (\E s \in Runs : Occupies(s, p, k)')
        BY <1>0, <3>2, <3>3 DEF SlotExact
      <3>5. \A s, t \in Runs : Occupies(s, p, k)' /\ Occupies(t, p, k)' => s = t
        BY <1>0, <3>2 DEF SlotExact
      <3>. QED  BY <3>4, <3>5 DEF SlotExact
    <2>. QED  BY <2>3, <2>4
  <1>2. ASSUME NEW r \in Runs, InvokeManual(r) PROVE SlotExact(p, k)'
    <2>1. \A s \in Runs : Occupies(s, p, k)' <=> Occupies(s, p, k)
      BY <1>0, <1>2 DEF InvokeManual, Occupies, TypeOK
    <2>. QED  BY <1>0, <1>2, <2>1, SlotKept DEF InvokeManual
  <1>3. ASSUME NEW r \in Runs,
               \/ SkipLocked(r) \/ AcquireFails(r) \/ StartRunFails(r)
               \/ CompleteSuccess(r) \/ CompleteFailure(r)
        PROVE  SlotExact(p, k)'
    <2>1. /\ pc[r] \in Active /\ Leave(r) /\ UNCHANGED <<host, key, source>>
          /\ \E l \in Locations \ Active : pc' = [pc EXCEPT ![r] = l]
      BY <1>3 DEF SkipLocked, AcquireFails, StartRunFails, CompleteSuccess, CompleteFailure,
         Active, Locations
    <2>. QED  BY <1>0, <2>1, SlotFreed
  <1>4. ASSUME NEW r \in Runs,
               \/ Acquire(r) \/ StartRun(r) \/ EndBody(r) \/ CompleteSuccessFails(r)
               \/ Release(r) \/ ReleaseFails(r)
        PROVE  SlotExact(p, k)'
    <2>1. /\ UNCHANGED <<runningTasks, host, key, source>>
          /\ \E l \in Locations : /\ pc' = [pc EXCEPT ![r] = l]
                                  /\ l \in Active <=> pc[r] \in Active
      BY <1>4 DEF Acquire, StartRun, EndBody, CompleteSuccessFails, Release, ReleaseFails,
         Active, Locations
    <2>2. \A s \in Runs : Occupies(s, p, k)' <=> Occupies(s, p, k)
      BY <1>0, <2>1 DEF Occupies, TypeOK
    <2>. QED  BY <1>0, <2>1, <2>2, SlotKept
  <1>5. ASSUME NEW q \in Processes, Crash(q) PROVE SlotExact(p, k)'
    <2>1. CASE p = q
      <3>1. k \notin runningTasks'[p]
        BY <1>0, <1>5, <2>1 DEF Crash, TypeOK
      <3>2. \A s \in Runs : ~Occupies(s, p, k)'
        BY <1>0, <1>5, <2>1 DEF Crash, Occupies, Active
      <3>. QED  BY <3>1, <3>2 DEF SlotExact
    <2>2. CASE p # q
      <3>1. runningTasks'[p] = runningTasks[p]
        BY <1>0, <1>5, <2>2 DEF Crash, TypeOK
      <3>2. \A s \in Runs : Occupies(s, p, k)' <=> Occupies(s, p, k)
        BY <1>5, <2>2 DEF Crash, Occupies
      <3>. QED  BY <1>0, <3>1, <3>2, SlotKept
    <2>. QED  BY <2>1, <2>2
  <1>6. CASE Tick \/ UNCHANGED lockVars
    <2>1. UNCHANGED <<runningTasks, host, key, source, pc>>
      BY <1>6 DEF Tick, lockVars
    <2>2. \A s \in Runs : Occupies(s, p, k)' <=> Occupies(s, p, k)
      BY <2>1 DEF Occupies
    <2>. QED  BY <1>0, <2>1, <2>2, SlotKept
  <1>. QED
    BY <1>1, <1>2, <1>3, <1>4, <1>5, <1>6 DEF LockNext, Proceed

\* runningTasks holds a key exactly while one cron run of it is in progress in
\* that process: no path of runWithAudit leaks a key or frees it early.
THEOREM RunningTasksAreExact == LockSpec => []RunningTasksExact
  <1>1. SlotInv => RunningTasksExact
    <2>. SUFFICES ASSUME SlotInv, NEW p \in Processes, NEW k \in Tasks
                  PROVE  LET runs == {r \in Runs : /\ host[r] = p /\ key[r] = k
                                                   /\ source[r] = "cron" /\ pc[r] \in Active}
                         IN /\ (k \in runningTasks[p]) <=> (runs # {})
                            /\ \A r, s \in runs : r = s
      BY DEF RunningTasksExact
    <2>1. SlotExact(p, k)
      BY DEF SlotInv
    <2>. QED  BY <2>1 DEF SlotExact, Occupies
  <1>. QED  BY SlotInit, SlotStep, <1>1, PTL DEF LockSpec

-----------------------------------------------------------------------------
USE MaxCycleAssumption, BoundsAssumption

-----------------------------------------------------------------------------
(* The inductive invariant of renewals *)

One(S) == \A x, y \in S : x = y

\* Invoices are numbered without gaps.
Numbered ==
    \A j, k \in Invoices : bill[j].status # "none" /\ k <= j => bill[k].status # "none"

\* What was paid, and is still to be applied, is an invoice that was made.
PaymentsKnown ==
    /\ \A i \in history.paid : bill[i].status # "none"
    /\ owed \subseteq history.paid
    /\ \A i \in Invoices : /\ bill[i].status = "PAID" => i \in history.paid
                           /\ bill[i].status = "none" => bill[i].services = {}

\* A handler works on one paid invoice, on one of its services at a time, and
\* an entry it found is there still.
Handling(a) ==
    /\ One(applier[a].at) /\ One(applier[a].cur)
    /\ applier[a].at \subseteq history.paid
    /\ \A i \in applier[a].at :
          /\ \A e \in applier[a].todo : e[1] \in bill[i].services
          /\ \A x \in applier[a].cur :
                /\ x[1][1] \in bill[i].services
                /\ x[2] => ledger[<<x[1][1], bill[i].cycle>>].invoice # NoInvoice
Handled == \A a \in Appliers : Handling(a)

EntriesHaveInvoices == \A e \in DOMAIN ledger : ledger[e].paid => ledger[e].invoice # NoInvoice

\* The cycles of s before k were paid: true of every due date, whether it is in
\* a service, in an invoice, or in what a cron call has read.
PaidFor(s, d) == \E i \in history.paid : Covers(i, s, d)
PaidBefore(s, k) == \A d \in 0..(k - 1) : PaidFor(s, d)
NothingFree ==
    /\ \A s \in Services : PaidBefore(s, nextDue[s])
    /\ \A i \in Invoices : \A s \in bill[i].services : PaidBefore(s, bill[i].cycle)
    /\ \A c \in Crons : \A e \in cron[c].todo \cup cron[c].fresh : PaidBefore(e[1], e[2])

\* A handler has saved the date and is to mark the entry of the cycle.
Pending(s, d) ==
    \E a \in Appliers :
        /\ applier[a].pc = "ledger"
        /\ \E x \in applier[a].cur, i \in applier[a].at : x[1][1] = s /\ bill[i].cycle = d

\* As long as handlers do not overlap, die or get refused, the entries marked as
\* paid are exactly those of the cycles a service has passed, and a due date
\* somebody has read is not beyond that of the service.
Clean == used.faults = 0 /\ ~history.stale /\ ~history.refused
OneHandler ==
    \A a, b \in Appliers : applier[a].pc # "idle" /\ applier[b].pc # "idle" => a = b
PassedIsPaid ==
    \A s \in Services, d \in Cycles :
        ledger[<<s, d>>].paid \/ Pending(s, d) <=> d < nextDue[s]
DatesBehind ==
    /\ \A i \in Invoices : \A s \in bill[i].services : bill[i].cycle <= nextDue[s]
    /\ \A c \in Crons : \A e \in cron[c].todo \cup cron[c].fresh : e[2] <= nextDue[e[1]]
    /\ \A a \in Appliers :
          /\ \A e \in applier[a].todo : e[2] <= nextDue[e[1]]
          /\ applier[a].pc = "save" =>
                \A x \in applier[a].cur, i \in applier[a].at :
                    /\ x[1][2] <= nextDue[x[1][1]]
                    /\ ~ledger[<<x[1][1], bill[i].cycle>>].paid
Passing == Clean => OneHandler /\ PassedIsPaid /\ DatesBehind

\* As long as cron calls do not overlap or die, what was invoiced is in the
\* ledger or about to be, and what is about to be invoiced was not.
OneCron == \A c, d \in Crons : cron[c].pc # "idle" /\ cron[d].pc # "idle" => c = d
EnteredInLedger ==
    \A i \in Invoices, s \in Services, d \in Cycles :
        Covers(i, s, d) =>
            \/ ledger[<<s, d>>].invoice # NoInvoice
            \/ \E c \in Crons : cron[c].pc = "ledger" /\ i \in cron[c].at
FreshIsFree ==
    \A c \in Crons : \A e \in cron[c].fresh : \A i \in Invoices : ~Covers(i, e[1], e[2])
CronsSound ==
    \A c \in Crons : One(cron[c].at) /\ (cron[c].pc = "idle" => cron[c].fresh = {})
Invoicing ==
    used.faults = 0 /\ ~history.overlap =>
        OneCron /\ InvoicedOnce /\ EnteredInLedger /\ FreshIsFree

\* The inductive invariant
RenInv ==
    /\ RenewalTypeOK /\ Numbered /\ PaymentsKnown /\ Handled /\ EntriesHaveInvoices
    /\ NothingFree /\ Passing /\ CronsSound /\ Invoicing

-----------------------------------------------------------------------------
(* Types *)

Statuses == {"ACTIVE", "SUSPENDED", "TERMINATED"}
EntryDocs == [invoice : Invoices \cup {NoInvoice}, paid : BOOLEAN]
InvoiceDocs ==
    [status : {"none", "UNPAID", "PAID"}, cycle : Cycles, services : SUBSET Services]
CronStates ==
    [pc : {"idle", "check", "invoice", "ledger"}, todo : SUBSET (Services \X Cycles),
     fresh : SUBSET (Services \X Cycles), at : SUBSET Invoices]
HandlerStates ==
    [pc : {"idle", "next", "save", "ledger"}, at : SUBSET Invoices, todo : SUBSET Loaded,
     cur : SUBSET (Loaded \X BOOLEAN)]
Uses == [faults : Nat, admin : Nat, repeats : Nat, changes : Nat]
Histories == [paid : SUBSET Invoices, overlap : BOOLEAN, stale : BOOLEAN, refused : BOOLEAN]

LEMMA RenewalTypes ==
    ASSUME RenewalTypeOK
    PROVE  /\ horizon \in Cycles
           /\ status \in [Services -> Statuses]
           /\ nextDue \in [Services -> DueDates]
           /\ ledger \in [Services \X Cycles -> EntryDocs]
           /\ bill \in [Invoices -> InvoiceDocs]
           /\ owed \subseteq Invoices
           /\ cron \in [Crons -> CronStates]
           /\ applier \in [Appliers -> HandlerStates]
           /\ used \in Uses /\ history \in Histories
  BY DEF RenewalTypeOK, Statuses, EntryDocs, InvoiceDocs, CronStates, HandlerStates, Uses,
     Histories

\* Enough for the types after a step: what it changes
LEMMA TypesMeet ==
    ASSUME RenewalTypeOK,
           horizon' = horizon \/ horizon' \in Cycles,
           status' = status \/ status' \in [Services -> Statuses],
           nextDue' = nextDue \/ nextDue' \in [Services -> DueDates],
           ledger' = ledger \/ ledger' \in [Services \X Cycles -> EntryDocs],
           bill' = bill \/ bill' \in [Invoices -> InvoiceDocs],
           owed' = owed \/ owed' \subseteq Invoices,
           cron' = cron \/ cron' \in [Crons -> CronStates],
           applier' = applier \/ applier' \in [Appliers -> HandlerStates],
           used' = used \/ used' \in Uses,
           history' = history \/ history' \in Histories
    PROVE  RenewalTypeOK'
<1>1. /\ horizon' \in Cycles /\ status' \in [Services -> Statuses]
      /\ nextDue' \in [Services -> DueDates]
  BY RenewalTypes
<1>2. /\ ledger' \in [Services \X Cycles -> EntryDocs] /\ bill' \in [Invoices -> InvoiceDocs]
      /\ owed' \subseteq Invoices
  BY RenewalTypes
<1>3. /\ cron' \in [Crons -> CronStates] /\ applier' \in [Appliers -> HandlerStates]
      /\ used' \in Uses /\ history' \in Histories
  BY RenewalTypes
<1> QED
  BY <1>1, <1>2, <1>3
  DEF RenewalTypeOK, Statuses, EntryDocs, InvoiceDocs, CronStates, HandlerStates, Uses, Histories

LEMMA TypesAfter ==
    ASSUME RenewalTypeOK'
    PROVE  /\ nextDue' \in [Services -> DueDates]
           /\ ledger' \in [Services \X Cycles -> EntryDocs]
           /\ bill' \in [Invoices -> InvoiceDocs]
           /\ cron' \in [Crons -> CronStates]
           /\ applier' \in [Appliers -> HandlerStates]
           /\ used' \in Uses /\ history' \in Histories
  BY DEF RenewalTypeOK, Statuses, EntryDocs, InvoiceDocs, CronStates, HandlerStates, Uses,
     Histories

LEMMA IdleStates == CronIdle \in CronStates /\ ApplierIdle \in HandlerStates
  BY DEF CronIdle, ApplierIdle, CronStates, HandlerStates

LEMMA InitTypes == ASSUME Init PROVE RenewalTypeOK
<1>1. /\ horizon \in Cycles /\ status \in [Services -> Statuses]
      /\ nextDue \in [Services -> DueDates]
  BY DEF Init, Cycles, Statuses, DueDates
<1>2. ledger \in [Services \X Cycles -> EntryDocs]
  BY DEF Init, EntryDocs
<1>3. /\ bill \in [Invoices -> InvoiceDocs] /\ owed \subseteq Invoices
  BY DEF Init, InvoiceDocs, Cycles
<1>4. /\ cron \in [Crons -> CronStates] /\ applier \in [Appliers -> HandlerStates]
  BY IdleStates DEF Init
<1>5. used \in Uses /\ history \in Histories
  BY DEF Init, Uses, Histories
<1> QED
  BY <1>1, <1>2, <1>3, <1>4, <1>5
  DEF RenewalTypeOK, Statuses, EntryDocs, InvoiceDocs, CronStates, HandlerStates, Uses, Histories

LEMMA FaultUses == ASSUME RenewalTypeOK, Fault PROVE used' \in Uses /\ used'.faults > 0
<1>1. used \in Uses
  BY RenewalTypes
<1> QED
  BY <1>1 DEF Fault, Uses

-----------------------------------------------------------------------------
(* What the steps of processRenewals do *)

LEMMA ReadStep ==
    ASSUME RenewalTypeOK, NEW c \in Crons, CronRead(c)
    PROVE  /\ cron' \in [Crons -> CronStates] /\ history' \in Histories
           /\ \A d \in Crons : d # c => cron'[d] = cron[d]
           /\ cron'[c].pc = "check" /\ cron'[c].fresh = {} /\ cron'[c].at = {}
           /\ \A e \in cron'[c].todo : e \in Services \X Cycles /\ e[2] = nextDue[e[1]]
           /\ history'.overlap \/ \A d \in Crons : cron[d].pc = "idle"
           /\ history.overlap => history'.overlap
           /\ history'.paid = history.paid /\ history'.stale = history.stale
           /\ history'.refused = history.refused
           /\ UNCHANGED <<horizon, status, nextDue, ledger, bill, owed, applier, used>>
<1> DEFINE due == {s \in Services : Due(s)}
           dates == {<<s, nextDue[s]>> : s \in due}
           next == [CronIdle EXCEPT !.pc = "check", !.todo = dates]
           lap == \E d \in Crons : cron[d].pc # "idle"
<1>1. /\ cron' = [cron EXCEPT ![c] = next]
      /\ history' = [history EXCEPT !.overlap = @ \/ lap]
      /\ UNCHANGED <<horizon, status, nextDue, ledger, bill, owed, applier, used>>
  BY DEF CronRead
<1>2. /\ nextDue \in [Services -> DueDates] /\ horizon \in Cycles
      /\ cron \in [Crons -> CronStates] /\ history \in Histories
  BY RenewalTypes
<1>3. \A s \in due : nextDue[s] \in Cycles
  BY <1>2 DEF Due, DueDates, Cycles
<1>4. dates \subseteq Services \X Cycles
  BY <1>3
<1>5. next \in CronStates /\ next.pc = "check" /\ next.fresh = {} /\ next.at = {}
      /\ next.todo = dates
  <2> HIDE DEF dates
  <2> QED
    BY <1>4 DEF CronIdle, CronStates
<1>6. \A e \in dates : e \in Services \X Cycles /\ e[2] = nextDue[e[1]]
  BY <1>3
<1> HIDE DEF next, dates, due
<1>7. /\ cron' \in [Crons -> CronStates] /\ cron'[c] = next
      /\ \A d \in Crons : d # c => cron'[d] = cron[d]
  BY <1>1, <1>2, <1>5
<1>8. /\ history' \in Histories
      /\ history'.overlap = (history.overlap \/ lap)
      /\ history'.paid = history.paid /\ history'.stale = history.stale
      /\ history'.refused = history.refused
  <2>1. lap \in BOOLEAN
    OBVIOUS
  <2> HIDE DEF lap
  <2>2. history.overlap \in BOOLEAN
    BY <1>2 DEF Histories
  <2>3. (history.overlap \/ lap) \in BOOLEAN
    BY <2>1, <2>2
  <2> QED
    BY <1>1, <1>2, <2>3 DEF Histories
<1> QED
  BY <1>1, <1>5, <1>6, <1>7, <1>8

LEMMA CheckStep ==
    ASSUME RenewalTypeOK, NEW c \in Crons, CronCheck(c)
    PROVE  /\ cron' \in [Crons -> CronStates]
           /\ \A d \in Crons : d # c => cron'[d] = cron[d]
           /\ cron[c].pc = "check" /\ cron'[c].pc \in {"idle", "check", "invoice"}
           /\ cron'[c].at \subseteq cron[c].at
           /\ cron'[c].todo \subseteq cron[c].todo
           /\ \A e \in cron'[c].fresh :
                 e \in cron[c].fresh \/ (e \in cron[c].todo /\ ledger[e].invoice = NoInvoice)
           /\ cron'[c].pc = "idle" => cron'[c].fresh = {}
           /\ UNCHANGED <<horizon, status, nextDue, ledger, bill, owed, applier, used, history>>
<1>1. cron \in [Crons -> CronStates]
  BY RenewalTypes
<1> DEFINE left(e) == cron[c].todo \ {e}
           got(e) == IF Invoiced(e) THEN cron[c].fresh ELSE cron[c].fresh \cup {e}
           next(e) == IF left(e) # {} THEN [cron[c] EXCEPT !.todo = left(e), !.fresh = got(e)]
                      ELSE IF got(e) = {} THEN CronIdle
                      ELSE [cron[c] EXCEPT !.pc = "invoice", !.todo = {}, !.fresh = got(e)]
<1>2. PICK e \in cron[c].todo : cron' = [cron EXCEPT ![c] = next(e)]
  BY <1>1 DEF CronCheck
<1>3. /\ cron[c].pc = "check"
      /\ UNCHANGED <<horizon, status, nextDue, ledger, bill, owed, applier, used, history>>
  BY DEF CronCheck
<1>4. cron[c] \in CronStates
  BY <1>1
<1>5. /\ left(e) \subseteq cron[c].todo /\ left(e) \subseteq Services \X Cycles
      /\ got(e) \subseteq Services \X Cycles
      /\ \A x \in got(e) : x \in cron[c].fresh \/ (x = e /\ ledger[e].invoice = NoInvoice)
  BY <1>4 DEF CronStates, Invoiced
<1> HIDE DEF left, got
<1>6. /\ next(e) \in CronStates
      /\ next(e).pc \in {"idle", "check", "invoice"} /\ next(e).at \subseteq cron[c].at
      /\ next(e).todo \subseteq cron[c].todo /\ next(e).fresh \subseteq got(e)
      /\ next(e).pc = "idle" => next(e).fresh = {}
  <2>1. CASE left(e) # {}
    BY <2>1, <1>3, <1>4, <1>5 DEF CronStates
  <2>2. CASE left(e) = {} /\ got(e) = {}
    BY <2>2, IdleStates DEF CronIdle
  <2>3. CASE left(e) = {} /\ got(e) # {}
    BY <2>3, <1>3, <1>4, <1>5 DEF CronStates
  <2> QED
    BY <2>1, <2>2, <2>3
<1> HIDE DEF next
<1>7. /\ cron' \in [Crons -> CronStates] /\ cron'[c] = next(e)
      /\ \A d \in Crons : d # c => cron'[d] = cron[d]
  BY <1>1, <1>2, <1>6
<1> QED
  BY <1>2, <1>3, <1>5, <1>6, <1>7

\* A number that nobody has: the numbers below it are taken.
LEMMA NextNumber ==
    ASSUME RenewalTypeOK, Numbered, NEW i \in Invoices,
           i = 1 + Cardinality({j \in Invoices : bill[j].status # "none"})
    PROVE  /\ bill[i].status = "none"
           /\ \A k \in Invoices : k < i => bill[k].status # "none"
<1> DEFINE made == {j \in Invoices : bill[j].status # "none"}
<1>1. MaxInvoices \in Nat
  OBVIOUS
<1>2. \A k \in Nat : IsFiniteSet(1..k) /\ Cardinality(1..k) = k
  <2> SUFFICES ASSUME NEW k \in Nat PROVE IsFiniteSet(1..k) /\ Cardinality(1..k) = k
    OBVIOUS
  <2>1. 1 \in Int /\ k \in Int
    OBVIOUS
  <2>2. IsFiniteSet(1..k) /\ Cardinality(1..k) = (IF 1 > k THEN 0 ELSE k - 1 + 1)
    BY <2>1, FS_Interval, Zenon
  <2> QED
    BY <2>2
<1>3. IsFiniteSet(made) /\ Cardinality(made) \in Nat
  <2>1. IsFiniteSet(Invoices) /\ made \subseteq Invoices
    BY <1>1, <1>2 DEF Invoices
  <2> QED
    BY <2>1, FS_Subset, FS_CardinalityType
<1>4. i \in 1..MaxInvoices /\ i = 1 + Cardinality(made)
  BY DEF Invoices
<1>5. bill[i].status = "none"
  <2> SUFFICES ASSUME bill[i].status # "none" PROVE FALSE
    OBVIOUS
  <2>1. 1..i \subseteq made
    <3> SUFFICES ASSUME NEW k \in 1..i PROVE k \in made
      OBVIOUS
    <3>1. k \in Invoices /\ k <= i
      BY <1>4 DEF Invoices
    <3> QED
      BY <3>1 DEF Numbered
  <2>2. Cardinality(1..i) <= Cardinality(made)
    BY <2>1, <1>3, FS_Subset
  <2> QED
    BY <2>2, <1>2, <1>3, <1>4
<1>6. ASSUME NEW k \in Invoices, k < i, bill[k].status = "none" PROVE FALSE
  <2>1. k \in 1..MaxInvoices
    BY DEF Invoices
  <2>2. made \subseteq 1..(k - 1)
    BY <1>6, <2>1 DEF Numbered, Invoices
  <2>3. k - 1 \in Nat
    BY <2>1
  <2>4. Cardinality(made) <= k - 1
    BY <2>2, <2>3, <1>2, FS_Subset
  <2> QED
    BY <2>4, <2>1, <1>3, <1>4, <1>6
<1> QED
  BY <1>5, <1>6

\* A call made an invoice of the services it has for one date.
NewInvoice(c, d, i) ==
    /\ i = 1 + Cardinality({j \in Invoices : bill[j].status # "none"})
    /\ bill'[i].status = "UNPAID" /\ bill'[i].cycle = d
    /\ bill'[i].services = {s \in Services : <<s, d>> \in cron[c].fresh}
    /\ \A j \in Invoices : j # i => bill'[j] = bill[j]
    /\ cron'[c].at = {i}
    /\ \A e \in cron'[c].fresh : e \in cron[c].fresh /\ e[2] # d

LEMMA InvoiceStep ==
    ASSUME RenewalTypeOK, NEW c \in Crons, CronInvoice(c)
    PROVE  /\ bill' \in [Invoices -> InvoiceDocs] /\ cron' \in [Crons -> CronStates]
           /\ \A b \in Crons : b # c => cron'[b] = cron[b]
           /\ cron[c].pc = "invoice" /\ cron'[c].pc = "ledger" /\ cron'[c].todo = cron[c].todo
           /\ \E d \in Cycles, i \in Invoices : NewInvoice(c, d, i)
           /\ UNCHANGED <<horizon, status, nextDue, ledger, owed, applier, used, history>>
<1>1. bill \in [Invoices -> InvoiceDocs] /\ cron \in [Crons -> CronStates]
  BY RenewalTypes
<1> DEFINE group(d) == {s \in Services : <<s, d>> \in cron[c].fresh}
           made == {j \in Invoices : bill[j].status # "none"}
           doc(d) == [status |-> "UNPAID", cycle |-> d, services |-> group(d)]
           rest(d) == cron[c].fresh \ (group(d) \X {d})
           next(d, i) == [cron[c] EXCEPT !.pc = "ledger", !.at = {i}, !.fresh = rest(d)]
<1>2. PICK d \in Cycles, i \in Invoices :
          /\ i = 1 + Cardinality(made)
          /\ bill' = [bill EXCEPT ![i] = doc(d)]
          /\ cron' = [cron EXCEPT ![c].pc = "ledger", ![c].at = {i}, ![c].fresh = rest(d)]
  BY DEF CronInvoice
<1>3. /\ cron[c].pc = "invoice"
      /\ UNCHANGED <<horizon, status, nextDue, ledger, owed, applier, used, history>>
  BY DEF CronInvoice
<1>4. cron' = [cron EXCEPT ![c] = next(d, i)]
  <2> HIDE DEF rest
  <2> QED
    BY <1>1, <1>2
<1>5. cron[c] \in CronStates
  BY <1>1
<1>6. \A e \in rest(d) : e \in cron[c].fresh /\ e[2] # d
  BY <1>5 DEF CronStates
<1>7. doc(d) \in InvoiceDocs /\ doc(d).status = "UNPAID" /\ doc(d).cycle = d
      /\ doc(d).services = group(d)
  BY DEF InvoiceDocs
<1> HIDE DEF rest, doc
<1>8. /\ next(d, i) \in CronStates /\ next(d, i).pc = "ledger" /\ next(d, i).at = {i}
      /\ next(d, i).fresh = rest(d) /\ next(d, i).todo = cron[c].todo
  BY <1>5, <1>6 DEF CronStates
<1> HIDE DEF next
<1>9. /\ cron' \in [Crons -> CronStates] /\ cron'[c] = next(d, i)
      /\ \A b \in Crons : b # c => cron'[b] = cron[b]
  BY <1>1, <1>4, <1>8
<1>10. /\ bill' \in [Invoices -> InvoiceDocs] /\ bill'[i] = doc(d)
       /\ \A j \in Invoices : j # i => bill'[j] = bill[j]
  BY <1>1, <1>2, <1>7
<1>11. /\ i = 1 + Cardinality(made)
       /\ bill'[i].status = "UNPAID" /\ bill'[i].cycle = d
       /\ bill'[i].services = group(d)
       /\ \A j \in Invoices : j # i => bill'[j] = bill[j]
       /\ cron'[c].at = {i}
       /\ \A e \in cron'[c].fresh : e \in cron[c].fresh /\ e[2] # d
  <2> HIDE DEF group, made
  <2>1. i = 1 + Cardinality(made)
    BY <1>2
  <2>2. bill'[i].status = "UNPAID" /\ bill'[i].cycle = d /\ bill'[i].services = group(d)
    BY <1>7, <1>10
  <2>3. cron'[c].at = {i} /\ cron'[c].fresh = rest(d)
    BY <1>8, <1>9
  <2> QED
    BY <2>1, <2>2, <2>3, <1>6, <1>10
<1>12. NewInvoice(c, d, i)
  BY <1>11 DEF NewInvoice
<1> QED
  BY <1>3, <1>8, <1>9, <1>10, <1>12

\* An insert leaves what is there alone.
LEMMA InsertStep ==
    ASSUME RenewalTypeOK, NEW i \in Invoices, NEW es, InsertEntries(es, i)
    PROVE  /\ ledger' \in [Services \X Cycles -> EntryDocs]
           /\ \A e \in Services \X Cycles :
                 \/ ledger'[e] = ledger[e]
                 \/ /\ ledger[e].invoice = NoInvoice /\ ~ledger'[e].paid
                    /\ ledger'[e].invoice # NoInvoice
           /\ \A e \in es : e \in Services \X Cycles => ledger'[e].invoice # NoInvoice
<1>1. ledger \in [Services \X Cycles -> EntryDocs] /\ i # NoInvoice
  BY RenewalTypes DEF Invoices, NoInvoice
<1> DEFINE new == [invoice |-> i, paid |-> FALSE]
           put(e) == e \in es /\ ledger[e].invoice = NoInvoice
<1>2. ledger' = [e \in Services \X Cycles |-> IF put(e) THEN new ELSE ledger[e]]
  BY <1>1 DEF InsertEntries
<1>3. new \in EntryDocs /\ new.invoice = i /\ new.paid = FALSE
  BY DEF EntryDocs
<1>4. \A e \in Services \X Cycles : put(e) \in BOOLEAN
  OBVIOUS
<1>5. \A e \in Services \X Cycles : ledger[e] \in EntryDocs
  BY <1>1
<1> HIDE DEF new
<1>6. \A e \in Services \X Cycles : ledger'[e] = IF put(e) THEN new ELSE ledger[e]
  BY <1>2
<1>7. ledger' \in [Services \X Cycles -> EntryDocs]
  BY <1>2, <1>3, <1>5
<1> QED
  BY <1>1, <1>3, <1>6, <1>7

LEMMA LedgerStep ==
    ASSUME RenewalTypeOK, NEW c \in Crons, CronLedger(c)
    PROVE  /\ ledger' \in [Services \X Cycles -> EntryDocs]
           /\ cron' \in [Crons -> CronStates] /\ used' \in Uses
           /\ \A e \in Services \X Cycles :
                 \/ ledger'[e] = ledger[e]
                 \/ /\ ledger[e].invoice = NoInvoice /\ ~ledger'[e].paid
                    /\ ledger'[e].invoice # NoInvoice
           /\ \/ used'.faults > 0
              \/ /\ used' = used
                 /\ \E i \in cron[c].at : \A s \in bill[i].services :
                       ledger'[<<s, bill[i].cycle>>].invoice # NoInvoice
           /\ \A d \in Crons : d # c => cron'[d] = cron[d]
           /\ cron[c].pc = "ledger" /\ cron'[c].pc \in {"idle", "invoice"}
           /\ cron'[c].at = {} /\ cron'[c].todo \subseteq cron[c].todo
           /\ cron'[c].fresh \subseteq cron[c].fresh
           /\ cron'[c].pc = "idle" => cron'[c].fresh = {}
           /\ UNCHANGED <<horizon, status, nextDue, bill, owed, applier, history>>
<1>1. /\ cron \in [Crons -> CronStates] /\ used \in Uses
      /\ bill \in [Invoices -> InvoiceDocs]
  BY RenewalTypes
<1>2. cron[c] \in CronStates
  BY <1>1
<1> DEFINE all(i) == bill[i].services \X {bill[i].cycle}
           next == IF cron[c].fresh = {} THEN CronIdle
                   ELSE [cron[c] EXCEPT !.pc = "invoice", !.at = {}]
<1>3. /\ cron[c].pc = "ledger"
      /\ cron' = [cron EXCEPT ![c] = next]
      /\ UNCHANGED <<horizon, status, nextDue, bill, owed, applier, history>>
  BY <1>1 DEF CronLedger
<1>4. /\ next \in CronStates /\ next.pc \in {"idle", "invoice"} /\ next.at = {}
      /\ next.todo \subseteq cron[c].todo /\ next.fresh \subseteq cron[c].fresh
      /\ next.pc = "idle" => next.fresh = {}
  <2>1. CASE cron[c].fresh = {}
    BY <2>1, IdleStates DEF CronIdle
  <2>2. CASE cron[c].fresh # {}
    BY <2>2, <1>2 DEF CronStates
  <2> QED
    BY <2>1, <2>2
<1> HIDE DEF next
<1>5. /\ cron' \in [Crons -> CronStates] /\ cron'[c] = next
      /\ \A d \in Crons : d # c => cron'[d] = cron[d]
  BY <1>1, <1>3, <1>4
<1>6. PICK i \in cron[c].at :
          \/ InsertEntries(all(i), i) /\ UNCHANGED used
          \/ Fault /\ \E some \in SUBSET all(i) : some # all(i) /\ InsertEntries(some, i)
  BY DEF CronLedger
<1>7. i \in Invoices
  BY <1>2, <1>6 DEF CronStates
<1>8. bill[i].services \subseteq Services /\ bill[i].cycle \in Cycles
  BY <1>1, <1>7 DEF InvoiceDocs
<1>9. CASE InsertEntries(all(i), i) /\ used' = used
  <2>1. \A s \in bill[i].services : /\ <<s, bill[i].cycle>> \in all(i)
                                    /\ <<s, bill[i].cycle>> \in Services \X Cycles
    BY <1>8
  <2> HIDE DEF all
  <2>2. \A s \in bill[i].services : ledger'[<<s, bill[i].cycle>>].invoice # NoInvoice
    BY <2>1, <1>7, <1>9, InsertStep
  <2> QED
    BY <2>2, <1>1, <1>3, <1>4, <1>5, <1>6, <1>7, <1>9, InsertStep
<1>10. CASE Fault /\ \E some \in SUBSET all(i) : some # all(i) /\ InsertEntries(some, i)
  <2>1. PICK some : InsertEntries(some, i)
    BY <1>10
  <2> QED
    BY <2>1, <1>3, <1>4, <1>5, <1>7, <1>10, InsertStep, FaultUses
<1> QED
  BY <1>6, <1>9, <1>10

-----------------------------------------------------------------------------
(* What the steps of applyRenewalPayment do *)

LEMMA ApplyReadStep ==
    ASSUME RenewalTypeOK, NEW a \in Appliers, NEW i \in Invoices, ApplyRead(a, i)
    PROVE  /\ applier' \in [Appliers -> HandlerStates] /\ history' \in Histories
           /\ owed' = owed \ {i} /\ i \in owed
           /\ \A b \in Appliers : b # a => applier'[b] = applier[b]
           /\ applier[a].pc = "idle" /\ applier'[a].pc \in {"idle", "next"}
           /\ applier'[a].cur = {} /\ applier'[a].at \subseteq {i}
           /\ \A e \in applier'[a].todo : /\ e \in Loaded /\ e[1] \in bill[i].services
                                          /\ e[2] = nextDue[e[1]]
           /\ history'.stale \/ \A b \in Appliers : applier[b].pc = "idle"
           /\ history.stale => history'.stale
           /\ history'.paid = history.paid /\ history'.overlap = history.overlap
           /\ history'.refused = history.refused
           /\ UNCHANGED <<horizon, status, nextDue, ledger, bill, cron, used>>
<1> DEFINE kept == {t \in bill[i].services : Renewable(t)}
           dates == {<<s, nextDue[s]>> : s \in kept}
           next == IF bill[i].status # "PAID" THEN ApplierIdle
                   ELSE [ApplierIdle EXCEPT !.pc = "next", !.at = {i}, !.todo = dates]
           lap == \E b \in Appliers : applier[b].pc # "idle"
<1>1. /\ applier[a].pc = "idle" /\ i \in owed /\ owed' = owed \ {i}
      /\ applier' = [applier EXCEPT ![a] = next]
      /\ history' = [history EXCEPT !.stale = @ \/ lap]
      /\ UNCHANGED <<horizon, status, nextDue, ledger, bill, cron, used>>
  BY DEF ApplyRead
<1>2. /\ nextDue \in [Services -> DueDates] /\ bill \in [Invoices -> InvoiceDocs]
      /\ applier \in [Appliers -> HandlerStates] /\ history \in Histories
  BY RenewalTypes
<1>3. bill[i] \in InvoiceDocs
  BY <1>2
<1>4. kept \subseteq Services /\ kept \subseteq bill[i].services
  BY <1>3 DEF InvoiceDocs
<1>5. \A e \in dates : e \in Loaded /\ e[1] \in bill[i].services /\ e[2] = nextDue[e[1]]
  <2> HIDE DEF kept
  <2> QED
    BY <1>2, <1>4 DEF Loaded
<1> HIDE DEF dates
<1>6. /\ next \in HandlerStates /\ next.pc \in {"idle", "next"} /\ next.cur = {}
      /\ next.at \subseteq {i} /\ next.todo \subseteq dates
  <2>1. CASE bill[i].status # "PAID"
    BY <2>1, IdleStates DEF ApplierIdle
  <2>2. CASE bill[i].status = "PAID"
    <3>1. dates \in SUBSET Loaded
      BY <1>5
    <3> QED
      BY <2>2, <3>1 DEF ApplierIdle, HandlerStates
  <2> QED
    BY <2>1, <2>2
<1> HIDE DEF next
<1>7. /\ applier' \in [Appliers -> HandlerStates] /\ applier'[a] = next
      /\ \A b \in Appliers : b # a => applier'[b] = applier[b]
  BY <1>1, <1>2, <1>6
<1>8. /\ history' \in Histories
      /\ history'.stale = (history.stale \/ lap)
      /\ history'.paid = history.paid /\ history'.overlap = history.overlap
      /\ history'.refused = history.refused
  <2>1. lap \in BOOLEAN
    OBVIOUS
  <2> HIDE DEF lap
  <2>2. history.stale \in BOOLEAN
    BY <1>2 DEF Histories
  <2>3. (history.stale \/ lap) \in BOOLEAN
    BY <2>1, <2>2
  <2> QED
    BY <1>1, <1>2, <2>3 DEF Histories
<1> QED
  BY <1>1, <1>5, <1>6, <1>7, <1>8

LEMMA ApplyNextStep ==
    ASSUME RenewalTypeOK, NEW a \in Appliers, One(applier[a].at), One(applier[a].cur),
           ApplyNext(a)
    PROVE  /\ applier' \in [Appliers -> HandlerStates]
           /\ \A b \in Appliers : b # a => applier'[b] = applier[b]
           /\ applier[a].pc = "next" /\ applier'[a].pc \in {"idle", "next", "save"}
           /\ applier'[a].at \subseteq applier[a].at
           /\ applier'[a].todo \subseteq applier[a].todo
           /\ One(applier'[a].cur)
           /\ \/ applier'[a].pc # "save" /\ applier'[a].cur \subseteq applier[a].cur
              \/ \A x \in applier'[a].cur, i \in applier[a].at :
                    /\ x[1] \in applier[a].todo
                    /\ ~ledger[<<x[1][1], bill[i].cycle>>].paid
                    /\ x[2] => ledger[<<x[1][1], bill[i].cycle>>].invoice # NoInvoice
           /\ UNCHANGED <<horizon, status, nextDue, ledger, bill, owed, cron, used, history>>
<1>1. applier \in [Appliers -> HandlerStates]
  BY RenewalTypes
<1>2. applier[a] \in HandlerStates
  BY <1>1
<1>3. /\ applier[a].pc = "next"
      /\ UNCHANGED <<horizon, status, nextDue, ledger, bill, owed, cron, used, history>>
  BY DEF ApplyNext
<1>4. CASE applier[a].todo = {}
  <2>1. applier' = [applier EXCEPT ![a] = ApplierIdle]
    BY <1>4 DEF ApplyNext
  <2>2. /\ applier' \in [Appliers -> HandlerStates] /\ applier'[a] = ApplierIdle
        /\ \A b \in Appliers : b # a => applier'[b] = applier[b]
    BY <2>1, <1>1, IdleStates
  <2> QED
    BY <2>2, <1>3 DEF ApplierIdle, One
<1>5. CASE applier[a].todo # {}
  <2> DEFINE entry(e, i) == ledger[<<e[1], bill[i].cycle>>]
             known(e, i) == entry(e, i).invoice # NoInvoice
             left(e) == applier[a].todo \ {e}
             skip(e) == [applier[a] EXCEPT !.todo = left(e)]
             take(e, i) == [applier[a] EXCEPT !.pc = "save", !.todo = left(e),
                                              !.cur = {<<e, known(e, i)>>}]
  <2>1. PICK e \in applier[a].todo, i \in applier[a].at :
            applier' = [applier EXCEPT ![a] = IF Applied(entry(e, i)) THEN skip(e) ELSE take(e, i)]
    BY <1>1, <1>5 DEF ApplyNext
  <2>2. e \in Loaded /\ left(e) \subseteq applier[a].todo
    BY <1>2 DEF HandlerStates
  <2>3. CASE Applied(entry(e, i))
    <3>1. /\ skip(e) \in HandlerStates /\ skip(e).pc = "next"
          /\ skip(e).at = applier[a].at /\ skip(e).cur = applier[a].cur
          /\ skip(e).todo \subseteq applier[a].todo
      BY <1>2, <1>3 DEF HandlerStates
    <3>2. applier' = [applier EXCEPT ![a] = skip(e)]
      <4> HIDE DEF skip, take, entry
      <4> QED
        BY <2>1, <2>3
    <3> HIDE DEF skip
    <3>3. /\ applier' \in [Appliers -> HandlerStates] /\ applier'[a] = skip(e)
          /\ \A b \in Appliers : b # a => applier'[b] = applier[b]
      BY <1>1, <3>1, <3>2
    <3> QED
      BY <1>3, <3>1, <3>3
  <2>4. CASE ~Applied(entry(e, i))
    <3>1. known(e, i) \in BOOLEAN /\ ~entry(e, i).paid
      BY <2>4 DEF Applied
    <3>2. applier' = [applier EXCEPT ![a] = take(e, i)]
      <4> HIDE DEF skip, take, entry
      <4> QED
        BY <2>1, <2>4
    <3> HIDE DEF entry, known, left, skip
    <3>3. <<e, known(e, i)>> \in Loaded \X BOOLEAN
      BY <2>2, <3>1
    <3>4. /\ take(e, i) \in HandlerStates /\ take(e, i).pc = "save"
          /\ take(e, i).at = applier[a].at /\ take(e, i).cur = {<<e, known(e, i)>>}
          /\ take(e, i).todo \subseteq applier[a].todo
      BY <1>2, <2>2, <3>3 DEF HandlerStates
    <3> HIDE DEF take
    <3>5. /\ applier' \in [Appliers -> HandlerStates] /\ applier'[a] = take(e, i)
          /\ \A b \in Appliers : b # a => applier'[b] = applier[b]
      BY <1>1, <3>2, <3>4
    <3>6. One(applier'[a].cur)
      BY <3>4, <3>5 DEF One
    <3>7. \A x \in applier'[a].cur, j \in applier[a].at :
             /\ x[1] \in applier[a].todo
             /\ ~ledger[<<x[1][1], bill[j].cycle>>].paid
             /\ x[2] => ledger[<<x[1][1], bill[j].cycle>>].invoice # NoInvoice
      <4> SUFFICES ASSUME NEW x \in applier'[a].cur, NEW j \in applier[a].at
                   PROVE  /\ x[1] \in applier[a].todo
                          /\ ~ledger[<<x[1][1], bill[j].cycle>>].paid
                          /\ x[2] => ledger[<<x[1][1], bill[j].cycle>>].invoice # NoInvoice
        OBVIOUS
      <4>1. x = <<e, known(e, i)>> /\ j = i
        BY <3>4, <3>5 DEF One
      <4>2. x[1] = e /\ x[2] = known(e, i)
        BY <4>1
      <4> QED
        BY <4>1, <4>2, <3>1 DEF entry, known
    <3> QED
      BY <1>3, <3>4, <3>5, <3>6, <3>7
  <2> QED
    BY <2>3, <2>4
<1> QED
  BY <1>4, <1>5

LEMMA SaveStep ==
    ASSUME RenewalTypeOK, NEW a \in Appliers, ApplySave(a)
    PROVE  /\ applier' \in [Appliers -> HandlerStates]
           /\ nextDue' \in [Services -> DueDates]
           /\ \A b \in Appliers : b # a => applier'[b] = applier[b]
           /\ applier[a].pc = "save" /\ applier'[a].pc = "ledger"
           /\ applier'[a].at = applier[a].at /\ applier'[a].cur = applier[a].cur
           /\ applier'[a].todo = applier[a].todo
           /\ \E x \in applier[a].cur, i \in applier[a].at :
                 \/ bill[i].cycle + 1 = x[1][2] /\ nextDue' = nextDue
                 \/ /\ bill[i].cycle + 1 # x[1][2]
                    /\ nextDue'[x[1][1]] = bill[i].cycle + 1
                    /\ \A s \in Services : s # x[1][1] => nextDue'[s] = nextDue[s]
           /\ UNCHANGED <<horizon, status, ledger, bill, owed, cron, used, history>>
<1>1. /\ applier \in [Appliers -> HandlerStates] /\ bill \in [Invoices -> InvoiceDocs]
      /\ nextDue \in [Services -> DueDates]
  BY RenewalTypes
<1>2. applier[a] \in HandlerStates
  BY <1>1
<1> DEFINE next == [applier[a] EXCEPT !.pc = "ledger"]
<1>3. /\ applier[a].pc = "save" /\ applier' = [applier EXCEPT ![a] = next]
      /\ UNCHANGED <<horizon, status, ledger, bill, owed, cron, used, history>>
  BY <1>1 DEF ApplySave
<1>4. /\ next \in HandlerStates /\ next.pc = "ledger" /\ next.at = applier[a].at
      /\ next.cur = applier[a].cur /\ next.todo = applier[a].todo
  BY <1>2 DEF HandlerStates
<1> HIDE DEF next
<1>5. /\ applier' \in [Appliers -> HandlerStates] /\ applier'[a] = next
      /\ \A b \in Appliers : b # a => applier'[b] = applier[b]
  BY <1>1, <1>3, <1>4
<1>6. PICK x \in applier[a].cur, i \in applier[a].at :
          nextDue' = IF bill[i].cycle + 1 = x[1][2] THEN nextDue
                     ELSE [nextDue EXCEPT ![x[1][1]] = bill[i].cycle + 1]
  BY DEF ApplySave, Advanced
<1>7. x[1][1] \in Services /\ bill[i].cycle \in Cycles
  BY <1>1, <1>2, <1>6 DEF HandlerStates, Loaded, InvoiceDocs
<1>8. bill[i].cycle + 1 \in DueDates
  BY <1>7 DEF Cycles, DueDates
<1>9. /\ nextDue' \in [Services -> DueDates]
      /\ \/ bill[i].cycle + 1 = x[1][2] /\ nextDue' = nextDue
         \/ /\ bill[i].cycle + 1 # x[1][2]
            /\ nextDue'[x[1][1]] = bill[i].cycle + 1
            /\ \A s \in Services : s # x[1][1] => nextDue'[s] = nextDue[s]
  BY <1>1, <1>6, <1>7, <1>8
<1> QED
  BY <1>3, <1>4, <1>5, <1>9

LEMMA MarkStep ==
    ASSUME RenewalTypeOK, NEW a \in Appliers, ApplyLedger(a)
    PROVE  /\ ledger' \in [Services \X Cycles -> EntryDocs] /\ history' \in Histories
           /\ applier' \in [Appliers -> HandlerStates]
           /\ \A b \in Appliers : b # a => applier'[b] = applier[b]
           /\ applier[a].pc = "ledger" /\ applier'[a].pc \in {"idle", "next"}
           /\ applier'[a].at \subseteq applier[a].at /\ applier'[a].cur = {}
           /\ applier'[a].todo \subseteq applier[a].todo
           /\ history'.paid = history.paid /\ history'.overlap = history.overlap
           /\ history'.stale = history.stale /\ (history.refused => history'.refused)
           /\ \E x \in applier[a].cur, i \in applier[a].at :
                 /\ <<x[1][1], bill[i].cycle>> \in Services \X Cycles
                 /\ \A e \in Services \X Cycles :
                       e # <<x[1][1], bill[i].cycle>> => ledger'[e] = ledger[e]
                 /\ \/ history'.refused /\ ledger' = ledger
                    \/ /\ ledger'[<<x[1][1], bill[i].cycle>>].paid
                       /\ \/ ledger'[<<x[1][1], bill[i].cycle>>].invoice # NoInvoice
                          \/ x[2] /\ ledger'[<<x[1][1], bill[i].cycle>>].invoice
                                         = ledger[<<x[1][1], bill[i].cycle>>].invoice
           /\ UNCHANGED <<horizon, status, nextDue, bill, owed, cron, used>>
<1>1. /\ applier \in [Appliers -> HandlerStates] /\ bill \in [Invoices -> InvoiceDocs]
      /\ ledger \in [Services \X Cycles -> EntryDocs] /\ history \in Histories
  BY RenewalTypes
<1>2. applier[a] \in HandlerStates
  BY <1>1
<1> DEFINE e(x, i) == <<x[1][1], bill[i].cycle>>
           refused(x, i) == ~x[2] /\ ledger[e(x, i)].invoice # NoInvoice
           mark(x, i) == [invoice |-> IF x[2] THEN ledger[e(x, i)].invoice ELSE i, paid |-> TRUE]
           next == [applier[a] EXCEPT !.pc = "next", !.cur = {}]
<1>3. /\ applier[a].pc = "ledger"
      /\ UNCHANGED <<horizon, status, nextDue, bill, owed, cron, used>>
  BY DEF ApplyLedger
<1>4. PICK x \in applier[a].cur, i \in applier[a].at :
          /\ ledger' = IF refused(x, i) THEN ledger ELSE [ledger EXCEPT ![e(x, i)] = mark(x, i)]
          /\ applier' = [applier EXCEPT ![a] = IF refused(x, i) THEN ApplierIdle ELSE next]
          /\ history' = [history EXCEPT !.refused = @ \/ refused(x, i)]
  BY <1>1 DEF ApplyLedger
<1>5. i \in Invoices /\ i # NoInvoice /\ x \in Loaded \X BOOLEAN
  BY <1>2, <1>4 DEF HandlerStates, Invoices, NoInvoice
<1>6. e(x, i) \in Services \X Cycles /\ x[2] \in BOOLEAN
  BY <1>1, <1>5 DEF Loaded, InvoiceDocs
<1>7. refused(x, i) \in BOOLEAN /\ history.refused \in BOOLEAN
  BY <1>1 DEF Histories
<1>8. /\ mark(x, i) \in EntryDocs /\ mark(x, i).paid
      /\ \/ mark(x, i).invoice # NoInvoice
         \/ x[2] /\ mark(x, i).invoice = ledger[e(x, i)].invoice
  <2>1. ledger[e(x, i)] \in EntryDocs
    BY <1>1, <1>6
  <2> HIDE DEF e
  <2> QED
    BY <2>1, <1>5, <1>6 DEF EntryDocs
<1>9. next \in HandlerStates /\ next.pc = "next" /\ next.cur = {}
      /\ next.at = applier[a].at /\ next.todo = applier[a].todo
  BY <1>2 DEF HandlerStates
<1> HIDE DEF e, refused, mark, next
<1>10. /\ history' \in Histories /\ history'.refused = (history.refused \/ refused(x, i))
       /\ history'.paid = history.paid /\ history'.overlap = history.overlap
       /\ history'.stale = history.stale
  <2>1. (history.refused \/ refused(x, i)) \in BOOLEAN
    BY <1>7
  <2> QED
    BY <1>1, <1>4, <2>1 DEF Histories
<1>11. \A b \in Appliers : b # a => applier'[b] = applier[b]
  BY <1>1, <1>4
<1>12. ASSUME refused(x, i)
       PROVE  /\ applier' \in [Appliers -> HandlerStates] /\ applier'[a] = ApplierIdle
              /\ ledger' = ledger /\ history'.refused
  BY <1>1, <1>4, <1>10, <1>12, IdleStates
<1>13. ASSUME ~refused(x, i)
       PROVE  /\ applier' \in [Appliers -> HandlerStates] /\ applier'[a] = next
              /\ ledger' \in [Services \X Cycles -> EntryDocs]
              /\ ledger'[e(x, i)] = mark(x, i)
              /\ \A b \in Services \X Cycles : b # e(x, i) => ledger'[b] = ledger[b]
  BY <1>1, <1>4, <1>6, <1>8, <1>9, <1>13
<1>14. /\ applier' \in [Appliers -> HandlerStates]
       /\ applier'[a].pc \in {"idle", "next"} /\ applier'[a].cur = {}
       /\ applier'[a].at \subseteq applier[a].at /\ applier'[a].todo \subseteq applier[a].todo
  BY <1>9, <1>12, <1>13 DEF ApplierIdle
<1>15. /\ ledger' \in [Services \X Cycles -> EntryDocs]
       /\ \A b \in Services \X Cycles : b # e(x, i) => ledger'[b] = ledger[b]
       /\ \/ history'.refused /\ ledger' = ledger
          \/ /\ ledger'[e(x, i)].paid
             /\ \/ ledger'[e(x, i)].invoice # NoInvoice
                \/ x[2] /\ ledger'[e(x, i)].invoice = ledger[e(x, i)].invoice
  BY <1>1, <1>8, <1>12, <1>13
<1> QED
  BY <1>3, <1>6, <1>7, <1>10, <1>11, <1>14, <1>15 DEF e

-----------------------------------------------------------------------------
(* Types are kept, and what was made stays *)

LEMMA BillStep ==
    ASSUME RenewalTypeOK, NEW i \in Invoices, Pay(i) \/ AdminUnpay(i)
    PROVE  /\ bill' \in [Invoices -> InvoiceDocs]
           /\ bill[i].status # "none" /\ bill'[i].status \in {"PAID", "UNPAID"}
           /\ bill'[i].cycle = bill[i].cycle /\ bill'[i].services = bill[i].services
           /\ \A j \in Invoices : j # i => bill'[j] = bill[j]
           /\ UNCHANGED <<horizon, status, nextDue, ledger, cron, applier>>
<1>1. bill \in [Invoices -> InvoiceDocs]
  BY RenewalTypes
<1>2. bill[i] \in InvoiceDocs
  BY <1>1
<1> DEFINE next(s) == [bill[i] EXCEPT !.status = s]
<1>3. ASSUME NEW s \in {"PAID", "UNPAID"}
      PROVE  /\ next(s) \in InvoiceDocs /\ next(s).status = s
             /\ next(s).cycle = bill[i].cycle /\ next(s).services = bill[i].services
  BY <1>2 DEF InvoiceDocs
<1>4. CASE Pay(i)
  <2>1. /\ bill[i].status = "UNPAID" /\ bill' = [bill EXCEPT ![i] = next("PAID")]
        /\ UNCHANGED <<horizon, status, nextDue, ledger, cron, applier>>
    BY <1>1, <1>4 DEF Pay
  <2> HIDE DEF next
  <2> QED
    BY <2>1, <1>1, <1>3
<1>5. CASE AdminUnpay(i)
  <2>1. /\ bill[i].status = "PAID" /\ bill' = [bill EXCEPT ![i] = next("UNPAID")]
        /\ UNCHANGED <<horizon, status, nextDue, ledger, cron, applier>>
    BY <1>1, <1>5 DEF AdminUnpay
  <2> HIDE DEF next
  <2> QED
    BY <2>1, <1>1, <1>3
<1> QED
  BY <1>4, <1>5

LEMMA AbortStep ==
    ASSUME RenewalTypeOK
    PROVE  /\ \A c \in Crons : CronAborts(c) =>
                 /\ cron' \in [Crons -> CronStates] /\ used' \in Uses /\ used'.faults > 0
                 /\ cron'[c] = CronIdle
                 /\ \A d \in Crons : d # c => cron'[d] = cron[d]
                 /\ UNCHANGED <<horizon, status, nextDue, ledger, bill, owed, applier, history>>
           /\ \A a \in Appliers : ApplyAborts(a) =>
                 /\ applier' \in [Appliers -> HandlerStates] /\ used' \in Uses
                 /\ used'.faults > 0
                 /\ applier'[a] = ApplierIdle
                 /\ \A b \in Appliers : b # a => applier'[b] = applier[b]
                 /\ UNCHANGED <<horizon, status, nextDue, ledger, bill, owed, cron, history>>
  BY RenewalTypes, FaultUses, IdleStates DEF CronAborts, ApplyAborts

\* What a step can be
LEMMA StepCases ==
    ASSUME Next
    PROVE  \/ CycleComesUp \/ \E s \in Services : StatusChanges(s)
           \/ \E i \in Invoices : Pay(i) \/ PayAgain(i) \/ AdminUnpay(i)
           \/ \E c \in Crons : CronRead(c)
           \/ \E c \in Crons : CronCheck(c)
           \/ \E c \in Crons : CronInvoice(c)
           \/ \E c \in Crons : CronLedger(c)
           \/ \E c \in Crons : CronAborts(c)
           \/ \E a \in Appliers, i \in Invoices : ApplyRead(a, i)
           \/ \E a \in Appliers : ApplyNext(a)
           \/ \E a \in Appliers : ApplySave(a)
           \/ \E a \in Appliers : ApplyLedger(a)
           \/ \E a \in Appliers : ApplyAborts(a)
  BY DEF Next, CronStep, ApplyStep

LEMMA TypesKept == ASSUME RenewalTypeOK, Handled, Next PROVE RenewalTypeOK'
<1>1. CASE CycleComesUp
  <2>1. horizon' \in Cycles
    BY <1>1, RenewalTypes DEF CycleComesUp, Cycles
  <2> QED
    BY <1>1, <2>1, TypesMeet DEF CycleComesUp
<1>2. ASSUME NEW s \in Services, StatusChanges(s) PROVE RenewalTypeOK'
  <2>1. used' \in Uses
    BY <1>2, RenewalTypes DEF StatusChanges, Uses
  <2>2. status' \in [Services -> Statuses]
    BY <1>2, RenewalTypes DEF StatusChanges, Statuses
  <2> QED
    BY <1>2, <2>1, <2>2, TypesMeet DEF StatusChanges
<1>3. ASSUME NEW i \in Invoices, Pay(i) PROVE RenewalTypeOK'
  <2>1. owed' \subseteq Invoices /\ history' \in Histories
    BY <1>3, RenewalTypes DEF Pay, Histories
  <2> QED
    BY <1>3, <2>1, BillStep, TypesMeet DEF Pay
<1>4. ASSUME NEW i \in Invoices, PayAgain(i) PROVE RenewalTypeOK'
  <2>1. owed' \subseteq Invoices /\ used' \in Uses
    BY <1>4, RenewalTypes DEF PayAgain, Uses
  <2> QED
    BY <1>4, <2>1, TypesMeet DEF PayAgain
<1>5. ASSUME NEW i \in Invoices, AdminUnpay(i) PROVE RenewalTypeOK'
  <2>1. used' \in Uses
    BY <1>5, RenewalTypes DEF AdminUnpay, Uses
  <2> QED
    BY <1>5, <2>1, BillStep, TypesMeet DEF AdminUnpay
<1>6. ASSUME NEW c \in Crons,
             CronRead(c) \/ CronCheck(c) \/ CronInvoice(c) \/ CronLedger(c) \/ CronAborts(c)
      PROVE  RenewalTypeOK'
  <2>1. CASE CronRead(c)
    BY <2>1, ReadStep, TypesMeet
  <2>2. CASE CronCheck(c)
    BY <2>2, CheckStep, TypesMeet
  <2>3. CASE CronInvoice(c)
    BY <2>3, InvoiceStep, TypesMeet
  <2>4. CASE CronLedger(c)
    BY <2>4, LedgerStep, TypesMeet
  <2>5. CASE CronAborts(c)
    BY <2>5, AbortStep, TypesMeet
  <2> QED
    BY <1>6, <2>1, <2>2, <2>3, <2>4, <2>5
<1>7. ASSUME NEW a \in Appliers, NEW i \in Invoices, ApplyRead(a, i) PROVE RenewalTypeOK'
  <2>1. owed' \subseteq Invoices
    BY <1>7, RenewalTypes, ApplyReadStep
  <2> QED
    BY <1>7, <2>1, ApplyReadStep, TypesMeet
<1>8. ASSUME NEW a \in Appliers,
             ApplyNext(a) \/ ApplySave(a) \/ ApplyLedger(a) \/ ApplyAborts(a)
      PROVE  RenewalTypeOK'
  <2>1. CASE ApplyNext(a)
    <3>1. One(applier[a].at) /\ One(applier[a].cur)
      BY DEF Handled, Handling
    <3> QED
      BY <2>1, <3>1, ApplyNextStep, TypesMeet
  <2>2. CASE ApplySave(a)
    BY <2>2, SaveStep, TypesMeet
  <2>3. CASE ApplyLedger(a)
    BY <2>3, MarkStep, TypesMeet
  <2>4. CASE ApplyAborts(a)
    BY <2>4, AbortStep, TypesMeet
  <2> QED
    BY <1>8, <2>1, <2>2, <2>3, <2>4
<1> QED
  BY <1>1, <1>2, <1>3, <1>4, <1>5, <1>6, <1>7, <1>8, StepCases

\* Invoices, payments and ledger entries that exist stay.
Stays ==
    /\ \A i \in Invoices : bill[i].status # "none" =>
          /\ bill'[i].status # "none" /\ bill'[i].cycle = bill[i].cycle
          /\ bill'[i].services = bill[i].services
    /\ history.paid \subseteq history'.paid
    /\ \A e \in Services \X Cycles :
          /\ ledger[e].invoice # NoInvoice => ledger'[e].invoice # NoInvoice
          /\ ledger[e].paid => ledger'[e].paid

LEMMA MadeStays ==
    ASSUME RenewalTypeOK, Numbered, Handled, EntriesHaveInvoices, Next
    PROVE  Stays
<1>1. /\ ledger \in [Services \X Cycles -> EntryDocs] /\ history \in Histories
      /\ DOMAIN ledger = Services \X Cycles
  BY RenewalTypes
<1>2. ASSUME UNCHANGED <<bill, history, ledger>> PROVE Stays
  BY <1>2 DEF Stays
<1>3. CASE CycleComesUp \/ \E s \in Services : StatusChanges(s)
  BY <1>2, <1>3 DEF CycleComesUp, StatusChanges
<1>4. ASSUME NEW i \in Invoices, Pay(i) PROVE Stays
  <2>1. history.paid \subseteq history'.paid
    BY <1>1, <1>4 DEF Pay, Histories
  <2> QED
    BY <1>4, <2>1, BillStep DEF Stays
<1>5. ASSUME NEW i \in Invoices, AdminUnpay(i) PROVE Stays
  <2>1. history' = history
    BY <1>5 DEF AdminUnpay
  <2> QED
    BY <1>5, <2>1, BillStep DEF Stays
<1>6. CASE \E i \in Invoices : PayAgain(i)
  BY <1>2, <1>6 DEF PayAgain
<1>7. ASSUME NEW c \in Crons, CronRead(c) PROVE Stays
  BY <1>7, ReadStep DEF Stays
<1>8. ASSUME NEW c \in Crons, CronCheck(c) \/ CronAborts(c) PROVE Stays
  BY <1>2, <1>8, CheckStep, AbortStep
<1>9. ASSUME NEW c \in Crons, CronInvoice(c) PROVE Stays
  <2>new. PICK d \in Cycles, i \in Invoices : NewInvoice(c, d, i)
    BY <1>9, InvoiceStep
  <2>1. /\ i = 1 + Cardinality({j \in Invoices : bill[j].status # "none"})
        /\ \A j \in Invoices : j # i => bill'[j] = bill[j]
    BY <2>new DEF NewInvoice
  <2>2. bill[i].status = "none"
    BY <2>1, NextNumber
  <2>3. UNCHANGED <<history, ledger>>
    BY <1>9, InvoiceStep
  <2> QED
    BY <2>1, <2>2, <2>3 DEF Stays
<1>10. ASSUME NEW c \in Crons, CronLedger(c) PROVE Stays
  <2>1. /\ UNCHANGED <<bill, history>>
        /\ \A e \in Services \X Cycles :
              \/ ledger'[e] = ledger[e]
              \/ ledger[e].invoice = NoInvoice /\ ledger'[e].invoice # NoInvoice
    BY <1>10, LedgerStep
  <2>2. \A e \in Services \X Cycles : ledger[e].paid => ledger[e].invoice # NoInvoice
    BY <1>1 DEF EntriesHaveInvoices
  <2> QED
    BY <2>1, <2>2 DEF Stays
<1>11. ASSUME NEW a \in Appliers, NEW i \in Invoices, ApplyRead(a, i) PROVE Stays
  BY <1>11, ApplyReadStep DEF Stays
<1>12. ASSUME NEW a \in Appliers, ApplyNext(a) \/ ApplySave(a) \/ ApplyAborts(a) PROVE Stays
  <2>1. One(applier[a].at) /\ One(applier[a].cur)
    BY DEF Handled, Handling
  <2> QED
    BY <1>2, <1>12, <2>1, ApplyNextStep, SaveStep, AbortStep
<1>13. ASSUME NEW a \in Appliers, ApplyLedger(a) PROVE Stays
  <2>1. bill' = bill /\ history'.paid = history.paid
    BY <1>13, MarkStep
  <2>2. PICK x \in applier[a].cur, i \in applier[a].at :
            /\ <<x[1][1], bill[i].cycle>> \in Services \X Cycles
            /\ \A e \in Services \X Cycles :
                  e # <<x[1][1], bill[i].cycle>> => ledger'[e] = ledger[e]
            /\ \/ ledger' = ledger
               \/ /\ ledger'[<<x[1][1], bill[i].cycle>>].paid
                  /\ \/ ledger'[<<x[1][1], bill[i].cycle>>].invoice # NoInvoice
                     \/ ledger'[<<x[1][1], bill[i].cycle>>].invoice
                            = ledger[<<x[1][1], bill[i].cycle>>].invoice
    BY <1>13, MarkStep
  <2> QED
    BY <2>1, <2>2 DEF Stays
<1> QED
  BY <1>3, <1>4, <1>5, <1>6, <1>7, <1>8, <1>9, <1>10, <1>11, <1>12, <1>13, StepCases

-----------------------------------------------------------------------------
(* The steps keep the invariant, part by part *)

LEMMA NumberedKept == ASSUME RenewalTypeOK, Numbered, Next PROVE Numbered'
<1>1. ASSUME bill' = bill PROVE Numbered'
  BY <1>1 DEF Numbered
<1>2. ASSUME NEW i \in Invoices, Pay(i) \/ AdminUnpay(i) PROVE Numbered'
  <2>1. \A j \in Invoices : bill'[j].status = "none" <=> bill[j].status = "none"
    BY <1>2, BillStep
  <2> QED
    BY <2>1 DEF Numbered
<1>3. ASSUME NEW c \in Crons, CronInvoice(c) PROVE Numbered'
  <2>new. PICK d \in Cycles, i \in Invoices : NewInvoice(c, d, i)
    BY <1>3, InvoiceStep
  <2>1. /\ i = 1 + Cardinality({j \in Invoices : bill[j].status # "none"})
        /\ bill'[i].status = "UNPAID"
        /\ \A j \in Invoices : j # i => bill'[j] = bill[j]
    BY <2>new DEF NewInvoice
  <2>2. bill[i].status = "none" /\ \A k \in Invoices : k < i => bill[k].status # "none"
    BY <2>1, NextNumber
  <2> SUFFICES ASSUME NEW j \in Invoices, NEW k \in Invoices, bill'[j].status # "none", k <= j
               PROVE  bill'[k].status # "none"
    BY DEF Numbered
  <2>3. i \in Nat /\ j \in Nat /\ k \in Nat
    BY DEF Invoices
  <2>4. CASE k = i
    BY <2>1, <2>4
  <2>5. CASE k # i /\ j = i
    BY <2>1, <2>2, <2>3, <2>5
  <2>6. CASE k # i /\ j # i
    BY <2>1, <2>6 DEF Numbered
  <2> QED
    BY <2>4, <2>5, <2>6
<1>4. CASE \/ CycleComesUp \/ \E s \in Services : StatusChanges(s)
           \/ \E i \in Invoices : PayAgain(i)
  BY <1>1, <1>4 DEF CycleComesUp, StatusChanges, PayAgain
<1>5. CASE \E c \in Crons : CronRead(c) \/ CronCheck(c) \/ CronLedger(c) \/ CronAborts(c)
  BY <1>1, <1>5 DEF CronRead, CronCheck, CronLedger, CronAborts
<1>6. CASE \/ \E a \in Appliers, i \in Invoices : ApplyRead(a, i)
           \/ \E a \in Appliers :
                 ApplyNext(a) \/ ApplySave(a) \/ ApplyLedger(a) \/ ApplyAborts(a)
  BY <1>1, <1>6 DEF ApplyRead, ApplyNext, ApplySave, ApplyLedger, ApplyAborts
<1> QED
  BY <1>2, <1>3, <1>4, <1>5, <1>6, StepCases

LEMMA PaymentsKnownKept ==
    ASSUME RenewalTypeOK, Numbered, PaymentsKnown, Next, Stays
    PROVE  PaymentsKnown'
<1>1. owed \subseteq Invoices /\ history \in Histories /\ history.paid \subseteq Invoices
  BY RenewalTypes DEF Histories
<1> DEFINE Made == \A i \in history'.paid : bill'[i].status # "none"
           Bills == \A i \in Invoices : /\ bill'[i].status = "PAID" => i \in history'.paid
                                        /\ bill'[i].status = "none" => bill'[i].services = {}
<1>2. ASSUME history'.paid = history.paid PROVE Made
  BY <1>1, <1>2 DEF PaymentsKnown, Stays
<1>3. ASSUME bill' = bill PROVE Bills
  BY <1>3 DEF PaymentsKnown, Stays
<1>4. SUFFICES Made /\ owed' \subseteq history'.paid /\ Bills
  BY DEF PaymentsKnown
<1>5. CASE \/ CycleComesUp \/ \E s \in Services : StatusChanges(s)
           \/ \E c \in Crons : CronCheck(c) \/ CronLedger(c) \/ CronAborts(c)
           \/ \E a \in Appliers : ApplyNext(a) \/ ApplySave(a) \/ ApplyAborts(a)
  <2>1. UNCHANGED <<bill, owed, history>>
    BY <1>5 DEF CycleComesUp, StatusChanges, CronCheck, CronLedger, CronAborts, ApplyNext,
       ApplySave, ApplyAborts
  <2> QED
    BY <2>1, <1>2, <1>3 DEF PaymentsKnown
<1>6. ASSUME NEW i \in Invoices, Pay(i) PROVE Made /\ owed' \subseteq history'.paid /\ Bills
  <2>1. history'.paid = history.paid \cup {i} /\ owed' = owed \cup {i}
    BY <1>1, <1>6 DEF Pay, Histories
  <2>2. /\ bill[i].status # "none" /\ bill'[i].status \in {"PAID", "UNPAID"}
        /\ \A j \in Invoices : j # i => bill'[j] = bill[j]
    BY <1>6, BillStep
  <2> QED
    BY <2>1, <2>2, <1>1 DEF PaymentsKnown, Stays
<1>7. ASSUME NEW i \in Invoices, PayAgain(i) PROVE Made /\ owed' \subseteq history'.paid /\ Bills
  BY <1>7, <1>2, <1>3 DEF PayAgain, PaymentsKnown
<1>8. ASSUME NEW i \in Invoices, AdminUnpay(i)
      PROVE  Made /\ owed' \subseteq history'.paid /\ Bills
  <2>1. bill[i].status = "PAID" /\ owed' = owed /\ history' = history
    BY <1>8 DEF AdminUnpay
  <2>2. /\ bill'[i].status \in {"PAID", "UNPAID"}
        /\ \A j \in Invoices : j # i => bill'[j] = bill[j]
    BY <1>8, BillStep
  <2> QED
    BY <2>1, <2>2, <1>2 DEF PaymentsKnown
<1>9. ASSUME NEW c \in Crons, CronRead(c) PROVE Made /\ owed' \subseteq history'.paid /\ Bills
  <2>1. history'.paid = history.paid /\ bill' = bill /\ owed' = owed
    BY <1>9, ReadStep
  <2> QED
    BY <2>1, <1>2, <1>3 DEF PaymentsKnown
<1>10. ASSUME NEW c \in Crons, CronInvoice(c) PROVE Made /\ owed' \subseteq history'.paid /\ Bills
  <2>1. history' = history /\ owed' = owed
    BY <1>10, InvoiceStep
  <2>new. PICK d \in Cycles, i \in Invoices : NewInvoice(c, d, i)
    BY <1>10, InvoiceStep
  <2>2. /\ bill'[i].status = "UNPAID"
        /\ \A j \in Invoices : j # i => bill'[j] = bill[j]
    BY <2>new DEF NewInvoice
  <2> QED
    BY <2>1, <2>2, <1>2 DEF PaymentsKnown
<1>11. ASSUME NEW a \in Appliers, NEW i \in Invoices, ApplyRead(a, i)
       PROVE  Made /\ owed' \subseteq history'.paid /\ Bills
  <2>1. history'.paid = history.paid /\ bill' = bill /\ owed' \subseteq owed
    BY <1>11, ApplyReadStep
  <2> QED
    BY <2>1, <1>2, <1>3 DEF PaymentsKnown
<1>12. ASSUME NEW a \in Appliers, ApplyLedger(a)
       PROVE  Made /\ owed' \subseteq history'.paid /\ Bills
  <2>1. history'.paid = history.paid /\ bill' = bill /\ owed' = owed
    BY <1>12, MarkStep
  <2> QED
    BY <2>1, <1>2, <1>3 DEF PaymentsKnown
<1> QED
  BY <1>5, <1>6, <1>7, <1>8, <1>9, <1>10, <1>11, <1>12, StepCases

\* A handler stands as it did after a step that leaves it alone.
LEMMA HandlingStays ==
    ASSUME RenewalTypeOK, PaymentsKnown, Stays, NEW a \in Appliers, Handling(a),
           applier'[a] = applier[a]
    PROVE  Handling(a)'
<1>1. /\ applier[a] \in HandlerStates /\ bill \in [Invoices -> InvoiceDocs]
      /\ history.paid \subseteq Invoices
  BY RenewalTypes DEF Histories
<1>2. \A i \in applier[a].at :
          /\ i \in Invoices /\ i \in history'.paid
          /\ bill'[i].cycle = bill[i].cycle /\ bill'[i].services = bill[i].services
  BY <1>1 DEF Handling, PaymentsKnown, Stays
<1>3. \A i \in applier[a].at, x \in applier[a].cur :
          <<x[1][1], bill[i].cycle>> \in Services \X Cycles
  BY <1>1 DEF HandlerStates, InvoiceDocs, Loaded
<1> QED
  BY <1>2, <1>3 DEF Handling, Stays

LEMMA HandledKept ==
    ASSUME RenewalTypeOK, PaymentsKnown, Handled, Next, Stays
    PROVE  Handled'
<1>1. ASSUME applier' = applier PROVE Handled'
  BY <1>1, HandlingStays DEF Handled
<1>2. ASSUME NEW a \in Appliers, \A b \in Appliers : b # a => applier'[b] = applier[b],
             Handling(a)'
      PROVE  Handled'
  BY <1>2, HandlingStays DEF Handled
<1>3. CASE \/ CycleComesUp \/ \E s \in Services : StatusChanges(s)
           \/ \E i \in Invoices : Pay(i) \/ PayAgain(i) \/ AdminUnpay(i)
  BY <1>1, <1>3 DEF CycleComesUp, StatusChanges, Pay, PayAgain, AdminUnpay
<1>4. CASE \E c \in Crons : \/ CronRead(c) \/ CronCheck(c) \/ CronInvoice(c) \/ CronLedger(c)
                            \/ CronAborts(c)
  BY <1>1, <1>4 DEF CronRead, CronCheck, CronInvoice, CronLedger, CronAborts
<1>5. ASSUME NEW a \in Appliers, NEW i \in Invoices, ApplyRead(a, i) PROVE Handled'
  <2>1. /\ i \in owed /\ applier'[a].cur = {} /\ applier'[a].at \subseteq {i}
        /\ bill' = bill /\ history'.paid = history.paid
        /\ \A e \in applier'[a].todo : e[1] \in bill[i].services
        /\ \A b \in Appliers : b # a => applier'[b] = applier[b]
    BY <1>5, ApplyReadStep
  <2>2. i \in history.paid
    BY <2>1 DEF PaymentsKnown
  <2>3. Handling(a)'
    BY <2>1, <2>2 DEF Handling, One
  <2> QED
    BY <1>2, <2>1, <2>3
<1>6. ASSUME NEW a \in Appliers, ApplyNext(a) PROVE Handled'
  <2>1. Handling(a)
    BY DEF Handled
  <2>2. One(applier[a].at) /\ One(applier[a].cur)
    BY <2>1 DEF Handling
  <2>3. /\ \A b \in Appliers : b # a => applier'[b] = applier[b]
        /\ applier'[a].at \subseteq applier[a].at
        /\ applier'[a].todo \subseteq applier[a].todo /\ One(applier'[a].cur)
        /\ \/ applier'[a].cur \subseteq applier[a].cur
           \/ \A x \in applier'[a].cur, i \in applier[a].at :
                 /\ x[1] \in applier[a].todo
                 /\ x[2] => ledger[<<x[1][1], bill[i].cycle>>].invoice # NoInvoice
        /\ UNCHANGED <<bill, ledger, history>>
    BY <1>6, <2>2, ApplyNextStep
  <2>4. Handling(a)'
    BY <2>1, <2>2, <2>3 DEF Handling, One
  <2> QED
    BY <1>2, <2>3, <2>4
<1>7. ASSUME NEW a \in Appliers, ApplySave(a) PROVE Handled'
  <2>1. /\ \A b \in Appliers : b # a => applier'[b] = applier[b]
        /\ applier'[a].at = applier[a].at /\ applier'[a].cur = applier[a].cur
        /\ applier'[a].todo = applier[a].todo
        /\ UNCHANGED <<bill, ledger, history>>
    BY <1>7, SaveStep
  <2>2. Handling(a)'
    BY <2>1 DEF Handled, Handling
  <2> QED
    BY <1>2, <2>1, <2>2
<1>8. ASSUME NEW a \in Appliers, ApplyLedger(a) PROVE Handled'
  <2>1. /\ \A b \in Appliers : b # a => applier'[b] = applier[b]
        /\ applier'[a].at \subseteq applier[a].at /\ applier'[a].cur = {}
        /\ applier'[a].todo \subseteq applier[a].todo
        /\ history'.paid = history.paid /\ bill' = bill
    BY <1>8, MarkStep
  <2>2. Handling(a)
    BY DEF Handled
  <2>3. Handling(a)'
    BY <2>1, <2>2 DEF Handling, One
  <2> QED
    BY <1>2, <2>1, <2>3
<1>9. ASSUME NEW a \in Appliers, ApplyAborts(a) PROVE Handled'
  <2>1. /\ \A b \in Appliers : b # a => applier'[b] = applier[b]
        /\ applier'[a] = ApplierIdle
    BY <1>9, AbortStep
  <2>2. Handling(a)'
    BY <2>1 DEF Handling, One, ApplierIdle
  <2> QED
    BY <1>2, <2>1, <2>2
<1> QED
  BY <1>3, <1>4, <1>5, <1>6, <1>7, <1>8, <1>9, StepCases

LEMMA EntriesKept ==
    ASSUME RenewalTypeOK, RenewalTypeOK', Handled, EntriesHaveInvoices, Next
    PROVE  EntriesHaveInvoices'
<1>1. DOMAIN ledger = Services \X Cycles /\ DOMAIN ledger' = Services \X Cycles
  BY RenewalTypes, TypesAfter
<1>2. ASSUME ledger' = ledger PROVE EntriesHaveInvoices'
  BY <1>2 DEF EntriesHaveInvoices
<1>3. ASSUME NEW c \in Crons, CronLedger(c) PROVE EntriesHaveInvoices'
  <2>1. \A e \in Services \X Cycles : ledger'[e] = ledger[e] \/ ledger'[e].invoice # NoInvoice
    BY <1>3, LedgerStep
  <2> QED
    BY <2>1, <1>1 DEF EntriesHaveInvoices
<1>4. ASSUME NEW a \in Appliers, ApplyLedger(a) PROVE EntriesHaveInvoices'
  <2>1. PICK x \in applier[a].cur, i \in applier[a].at :
            /\ \A e \in Services \X Cycles :
                  e # <<x[1][1], bill[i].cycle>> => ledger'[e] = ledger[e]
            /\ \/ ledger' = ledger
               \/ ledger'[<<x[1][1], bill[i].cycle>>].invoice # NoInvoice
               \/ x[2] /\ ledger'[<<x[1][1], bill[i].cycle>>].invoice
                              = ledger[<<x[1][1], bill[i].cycle>>].invoice
    BY <1>4, MarkStep
  <2>2. x[2] => ledger[<<x[1][1], bill[i].cycle>>].invoice # NoInvoice
    BY <2>1 DEF Handled, Handling
  <2> QED
    BY <2>1, <2>2, <1>1 DEF EntriesHaveInvoices
<1>5. CASE \/ CycleComesUp \/ \E s \in Services : StatusChanges(s)
           \/ \E i \in Invoices : Pay(i) \/ PayAgain(i) \/ AdminUnpay(i)
  BY <1>2, <1>5 DEF CycleComesUp, StatusChanges, Pay, PayAgain, AdminUnpay
<1>6. CASE \E c \in Crons : CronRead(c) \/ CronCheck(c) \/ CronInvoice(c) \/ CronAborts(c)
  BY <1>2, <1>6 DEF CronRead, CronCheck, CronInvoice, CronAborts
<1>7. CASE \/ \E a \in Appliers, i \in Invoices : ApplyRead(a, i)
           \/ \E a \in Appliers : ApplyNext(a) \/ ApplySave(a) \/ ApplyAborts(a)
  BY <1>2, <1>7 DEF ApplyRead, ApplyNext, ApplySave, ApplyAborts
<1> QED
  BY <1>3, <1>4, <1>5, <1>6, <1>7, StepCases

\* Cycles that were paid stay paid.
LEMMA PaidStays ==
    ASSUME RenewalTypeOK, PaymentsKnown, Stays
    PROVE  \A s \in Services : \A d : PaidFor(s, d) => PaidFor(s, d)'
<1>1. history.paid \subseteq Invoices
  BY RenewalTypes DEF Histories
<1> QED
  BY <1>1 DEF PaymentsKnown, Stays, PaidFor, Covers

DueFree(s) == PaidBefore(s, nextDue[s])
BillFree(i) == \A s \in bill[i].services : PaidBefore(s, bill[i].cycle)
CronFree(c) == \A e \in cron[c].todo \cup cron[c].fresh : PaidBefore(e[1], e[2])

LEMMA NothingFreeKept ==
    ASSUME RenewalTypeOK, RenewalTypeOK', Numbered, PaymentsKnown, Handled, NothingFree, Next,
           Stays
    PROVE  NothingFree'
<1>1. /\ nextDue \in [Services -> DueDates] /\ bill \in [Invoices -> InvoiceDocs]
      /\ cron \in [Crons -> CronStates] /\ Cycles \subseteq DueDates
  BY RenewalTypes DEF Cycles, DueDates
<1>2. ASSUME NEW s \in Services, nextDue'[s] = nextDue[s] PROVE DueFree(s)'
  BY <1>2, PaidStays DEF NothingFree, DueFree, PaidBefore
<1>3. ASSUME NEW i \in Invoices, bill'[i].cycle = bill[i].cycle,
             bill'[i].services = bill[i].services
      PROVE  BillFree(i)'
  <2>1. bill[i].services \subseteq Services
    BY <1>1 DEF InvoiceDocs
  <2> QED
    BY <2>1, <1>3, PaidStays DEF NothingFree, BillFree, PaidBefore
<1>4. ASSUME bill' = bill PROVE \A i \in Invoices : BillFree(i)'
  <2>1. \A i \in Invoices : bill'[i].cycle = bill[i].cycle /\ bill'[i].services = bill[i].services
    BY <1>4
  <2> QED
    BY <2>1, <1>3
<1>5. ASSUME NEW c \in Crons,
             cron'[c].todo \cup cron'[c].fresh \subseteq cron[c].todo \cup cron[c].fresh
      PROVE  CronFree(c)'
  <2>1. \A e \in cron[c].todo \cup cron[c].fresh : e[1] \in Services
    BY <1>1 DEF CronStates
  <2> QED
    BY <2>1, <1>5, PaidStays DEF NothingFree, CronFree, PaidBefore
<1>6. ASSUME \A s \in Services : DueFree(s)', \A i \in Invoices : BillFree(i)',
             \A c \in Crons : CronFree(c)'
      PROVE  NothingFree'
  BY <1>6 DEF NothingFree, DueFree, BillFree, CronFree
<1>7. ASSUME cron' = cron PROVE \A c \in Crons : CronFree(c)'
  BY <1>5, <1>7
<1>8. CASE \/ CycleComesUp \/ \E s \in Services : StatusChanges(s)
           \/ \E i \in Invoices : PayAgain(i)
           \/ \E a \in Appliers, i \in Invoices : ApplyRead(a, i)
           \/ \E a \in Appliers : ApplyNext(a) \/ ApplyLedger(a) \/ ApplyAborts(a)
  <2>1. UNCHANGED <<nextDue, bill, cron>>
    BY <1>8 DEF CycleComesUp, StatusChanges, PayAgain, ApplyRead, ApplyNext, ApplyLedger,
       ApplyAborts
  <2> QED
    BY <2>1, <1>2, <1>4, <1>6, <1>7
<1>9. ASSUME NEW i \in Invoices, Pay(i) \/ AdminUnpay(i) PROVE NothingFree'
  <2>1. /\ nextDue' = nextDue /\ cron' = cron
        /\ \A j \in Invoices :
              bill'[j].cycle = bill[j].cycle /\ bill'[j].services = bill[j].services
    BY <1>9, BillStep
  <2> QED
    BY <2>1, <1>2, <1>3, <1>6, <1>7
<1>10. ASSUME NEW c \in Crons, CronRead(c) PROVE NothingFree'
  <2>1. /\ nextDue' = nextDue /\ bill' = bill /\ cron'[c].fresh = {}
        /\ \A d \in Crons : d # c => cron'[d] = cron[d]
        /\ \A e \in cron'[c].todo : e \in Services \X Cycles /\ e[2] = nextDue[e[1]]
    BY <1>10, ReadStep
  <2>2. \A s \in Services : DueFree(s)'
    BY <2>1, <1>2
  <2>3. CronFree(c)'
    BY <2>1, <2>2 DEF CronFree, DueFree, PaidBefore
  <2>4. \A d \in Crons : d # c => CronFree(d)'
    BY <2>1, <1>5
  <2> QED
    BY <2>1, <2>2, <2>3, <2>4, <1>4, <1>6
<1>11. ASSUME NEW c \in Crons, CronCheck(c) \/ CronLedger(c) \/ CronAborts(c)
       PROVE  NothingFree'
  <2>1. /\ nextDue' = nextDue /\ bill' = bill
        /\ \A d \in Crons : d # c => cron'[d] = cron[d]
        /\ cron'[c].todo \cup cron'[c].fresh \subseteq cron[c].todo \cup cron[c].fresh
    <3>1. CASE CronCheck(c)
      BY <3>1, CheckStep
    <3>2. CASE CronLedger(c)
      BY <3>2, LedgerStep
    <3>3. CASE CronAborts(c)
      BY <3>3, AbortStep DEF CronIdle
    <3> QED
      BY <1>11, <3>1, <3>2, <3>3
  <2>2. \A d \in Crons : CronFree(d)'
    BY <2>1, <1>5
  <2> QED
    BY <2>1, <2>2, <1>2, <1>4, <1>6
<1>12. ASSUME NEW c \in Crons, CronInvoice(c) PROVE NothingFree'
  <2>new. PICK d \in Cycles, i \in Invoices : NewInvoice(c, d, i)
    BY <1>12, InvoiceStep
  <2>1. /\ bill'[i].cycle = d
        /\ bill'[i].services = {s \in Services : <<s, d>> \in cron[c].fresh}
        /\ \A j \in Invoices : j # i => bill'[j] = bill[j]
        /\ \A e \in cron'[c].fresh : e \in cron[c].fresh
    BY <2>new DEF NewInvoice
  <2>2. /\ nextDue' = nextDue /\ cron'[c].todo = cron[c].todo
        /\ \A b \in Crons : b # c => cron'[b] = cron[b]
    BY <1>12, InvoiceStep
  <2>3. BillFree(i)'
    <3>1. \A s \in bill'[i].services : PaidBefore(s, d)
      <4> SUFFICES ASSUME NEW s \in bill'[i].services PROVE PaidBefore(s, d)
        OBVIOUS
      <4>1. <<s, d>> \in cron[c].fresh
        BY <2>1
      <4>2. PaidBefore(<<s, d>>[1], <<s, d>>[2])
        BY <4>1 DEF NothingFree
      <4> QED
        BY <4>2
    <3>2. bill'[i].services \subseteq Services
      BY <2>1
    <3> QED
      BY <2>1, <3>1, <3>2, PaidStays DEF BillFree, PaidBefore
  <2>4. \A j \in Invoices : BillFree(j)'
    BY <2>1, <2>3, <1>3
  <2>5. \A b \in Crons : CronFree(b)'
    BY <2>1, <2>2, <1>5
  <2> QED
    BY <2>2, <2>4, <2>5, <1>2, <1>6
<1>13. ASSUME NEW a \in Appliers, ApplySave(a) PROVE NothingFree'
  <2>1. /\ bill' = bill /\ cron' = cron /\ history' = history
    BY <1>13, SaveStep
  <2>2. PICK x \in applier[a].cur, i \in applier[a].at :
            \/ nextDue' = nextDue
            \/ /\ nextDue'[x[1][1]] = bill[i].cycle + 1
               /\ \A s \in Services : s # x[1][1] => nextDue'[s] = nextDue[s]
    BY <1>13, SaveStep
  <2> DEFINE s1 == x[1][1]
  <2>3. i \in history.paid /\ s1 \in bill[i].services /\ bill[i].status # "none" /\ i \in Invoices
    BY RenewalTypes DEF Handled, Handling, PaymentsKnown, Histories
  <2>4. bill[i].cycle \in Nat /\ bill[i].cycle \in DueDates /\ s1 \in Services
    BY <2>3, <1>1 DEF InvoiceDocs, Cycles
  <2>5. PaidBefore(s1, bill[i].cycle)
    BY <2>3 DEF NothingFree
  <2>6. PaidFor(s1, bill[i].cycle)
    BY <2>3 DEF PaidFor, Covers
  <2>7. PaidBefore(s1, bill[i].cycle + 1)
    BY <2>4, <2>5, <2>6 DEF PaidBefore
  <2>8. \A s \in Services : PaidBefore(s, nextDue'[s])
    BY <2>2, <2>7 DEF NothingFree
  <2>9. \A s \in Services : DueFree(s)'
    BY <2>1, <2>8, PaidStays DEF DueFree, PaidBefore
  <2> QED
    BY <2>1, <2>9, <1>4, <1>6, <1>7
<1> QED
  BY <1>8, <1>9, <1>10, <1>11, <1>12, <1>13, StepCases

\* What has gone wrong is not forgotten.
LEMMA TroubleStays ==
    ASSUME RenewalTypeOK, Handled, Next
    PROVE  /\ used'.faults = 0 => used.faults = 0
           /\ history.overlap => history'.overlap
           /\ history.stale => history'.stale
           /\ history.refused => history'.refused
<1>1. used \in Uses /\ history \in Histories
  BY RenewalTypes
<1>2. CASE CycleComesUp \/ \E s \in Services : StatusChanges(s)
  BY <1>1, <1>2 DEF CycleComesUp, StatusChanges, Uses
<1>3. ASSUME NEW i \in Invoices, Pay(i) \/ PayAgain(i) \/ AdminUnpay(i)
      PROVE  /\ used'.faults = used.faults /\ history'.overlap = history.overlap
             /\ history'.stale = history.stale /\ history'.refused = history.refused
  <2>1. CASE Pay(i)
    BY <2>1, <1>1 DEF Pay, Histories
  <2>2. CASE PayAgain(i)
    BY <2>2, <1>1 DEF PayAgain, Uses
  <2>3. CASE AdminUnpay(i)
    BY <2>3, <1>1 DEF AdminUnpay, Uses
  <2> QED
    BY <1>3, <2>1, <2>2, <2>3
<1>4. CASE \E c \in Crons : CronRead(c)
  BY <1>4, ReadStep
<1>5. CASE \E c \in Crons : CronCheck(c) \/ CronInvoice(c)
  BY <1>5, CheckStep, InvoiceStep
<1>6. ASSUME NEW c \in Crons, CronLedger(c) \/ CronAborts(c)
      PROVE  history' = history /\ (used'.faults > 0 \/ used' = used)
  BY <1>6, LedgerStep, AbortStep
<1>7. CASE \E a \in Appliers, i \in Invoices : ApplyRead(a, i)
  BY <1>7, ApplyReadStep
<1>8. CASE \E a \in Appliers : ApplyNext(a) \/ ApplySave(a)
  BY <1>8 DEF ApplyNext, ApplySave
<1>9. CASE \E a \in Appliers : ApplyLedger(a)
  BY <1>9, MarkStep
<1>10. CASE \E a \in Appliers : ApplyAborts(a)
  <2>1. history' = history /\ used'.faults > 0
    BY <1>10, AbortStep
  <2> QED
    BY <2>1
<1> QED
  BY <1>2, <1>3, <1>4, <1>5, <1>6, <1>7, <1>8, <1>9, <1>10, StepCases

LEMMA CronsSoundKept == ASSUME RenewalTypeOK, CronsSound, Next PROVE CronsSound'
<1>1. ASSUME cron' = cron PROVE CronsSound'
  BY <1>1 DEF CronsSound
<1>2. ASSUME NEW c \in Crons, \A d \in Crons : d # c => cron'[d] = cron[d],
             One(cron'[c].at), cron'[c].pc = "idle" => cron'[c].fresh = {}
      PROVE  CronsSound'
  BY <1>2 DEF CronsSound, One
<1>3. CASE \/ CycleComesUp \/ \E s \in Services : StatusChanges(s)
           \/ \E i \in Invoices : Pay(i) \/ PayAgain(i) \/ AdminUnpay(i)
  BY <1>1, <1>3 DEF CycleComesUp, StatusChanges, Pay, PayAgain, AdminUnpay
<1>4. CASE \/ \E a \in Appliers, i \in Invoices : ApplyRead(a, i)
           \/ \E a \in Appliers :
                 ApplyNext(a) \/ ApplySave(a) \/ ApplyLedger(a) \/ ApplyAborts(a)
  BY <1>1, <1>4 DEF ApplyRead, ApplyNext, ApplySave, ApplyLedger, ApplyAborts
<1>5. ASSUME NEW c \in Crons, CronRead(c) PROVE CronsSound'
  BY <1>2, <1>5, ReadStep DEF One
<1>6. ASSUME NEW c \in Crons, CronCheck(c) PROVE CronsSound'
  <2>1. cron'[c].at \subseteq cron[c].at
    BY <1>6, CheckStep
  <2>2. One(cron'[c].at)
    BY <2>1 DEF CronsSound, One
  <2> QED
    BY <1>2, <1>6, <2>2, CheckStep
<1>7. ASSUME NEW c \in Crons, CronInvoice(c) PROVE CronsSound'
  <2>new. PICK d \in Cycles, i \in Invoices : NewInvoice(c, d, i)
    BY <1>7, InvoiceStep
  <2>1. cron'[c].at = {i}
    BY <2>new DEF NewInvoice
  <2>2. cron'[c].pc = "ledger" /\ \A e \in Crons : e # c => cron'[e] = cron[e]
    BY <1>7, InvoiceStep
  <2> QED
    BY <1>2, <2>1, <2>2 DEF One
<1>8. ASSUME NEW c \in Crons, CronLedger(c) PROVE CronsSound'
  <2>1. /\ cron'[c].at = {} /\ (cron'[c].pc = "idle" => cron'[c].fresh = {})
        /\ \A d \in Crons : d # c => cron'[d] = cron[d]
    BY <1>8, LedgerStep
  <2> QED
    BY <1>2, <2>1 DEF One
<1>9. ASSUME NEW c \in Crons, CronAborts(c) PROVE CronsSound'
  BY <1>2, <1>9, AbortStep DEF One, CronIdle
<1> QED
  BY <1>3, <1>4, <1>5, <1>6, <1>7, <1>8, <1>9, StepCases

\* The parts of Invoicing
Undisturbed == used.faults = 0 /\ ~history.overlap
Billing == OneCron /\ InvoicedOnce /\ EnteredInLedger /\ FreshIsFree

\* A step that makes no invoice and leaves the cron calls alone
LEMMA BillingStays ==
    ASSUME RenewalTypeOK, Stays, Billing, cron' = cron,
           \A i \in Invoices, s \in Services, d \in Cycles : Covers(i, s, d)' => Covers(i, s, d)
    PROVE  Billing'
<1>1. OneCron' /\ InvoicedOnce'
  BY DEF Billing, OneCron, InvoicedOnce
<1>2. EnteredInLedger'
  BY DEF Billing, EnteredInLedger, Stays
<1>3. \A c \in Crons : \A e \in cron[c].fresh : e[1] \in Services /\ e[2] \in Cycles
  BY RenewalTypes DEF CronStates
<1>4. FreshIsFree'
  BY <1>3 DEF Billing, FreshIsFree
<1> QED
  BY <1>1, <1>2, <1>4 DEF Billing

LEMMA InvoicingKept ==
    ASSUME RenewalTypeOK, RenewalTypeOK', Numbered, Handled, CronsSound, Invoicing, Next, Stays
    PROVE  Invoicing'
<1> SUFFICES ASSUME Undisturbed' PROVE Billing'
  BY DEF Invoicing, Undisturbed, Billing
<1>1. Undisturbed /\ ~history'.overlap /\ used'.faults = 0
  BY TroubleStays DEF Undisturbed
<1>2. Billing
  BY <1>1 DEF Invoicing, Undisturbed, Billing
<1>3. ASSUME bill' = bill, cron' = cron PROVE Billing'
  BY <1>2, <1>3, BillingStays DEF Covers
<1>4. CASE \/ CycleComesUp \/ \E s \in Services : StatusChanges(s)
           \/ \E i \in Invoices : PayAgain(i)
  BY <1>3, <1>4 DEF CycleComesUp, StatusChanges, PayAgain
<1>5. CASE \/ \E a \in Appliers, i \in Invoices : ApplyRead(a, i)
           \/ \E a \in Appliers :
                 ApplyNext(a) \/ ApplySave(a) \/ ApplyLedger(a) \/ ApplyAborts(a)
  BY <1>3, <1>5 DEF ApplyRead, ApplyNext, ApplySave, ApplyLedger, ApplyAborts
<1>6. ASSUME NEW i \in Invoices, Pay(i) \/ AdminUnpay(i) PROVE Billing'
  <2>1. /\ cron' = cron /\ bill[i].status # "none"
        /\ bill'[i].cycle = bill[i].cycle /\ bill'[i].services = bill[i].services
        /\ \A j \in Invoices : j # i => bill'[j] = bill[j]
    BY <1>6, BillStep
  <2>2. \A j \in Invoices, s \in Services, d \in Cycles : Covers(j, s, d)' => Covers(j, s, d)
    BY <2>1 DEF Covers
  <2> QED
    BY <2>1, <2>2, <1>2, BillingStays
<1>7. ASSUME NEW c \in Crons, CronRead(c) PROVE Billing'
  <2>1. /\ bill' = bill /\ ledger' = ledger /\ cron'[c].fresh = {}
        /\ \A d \in Crons : d # c => cron'[d] = cron[d]
        /\ \A d \in Crons : cron[d].pc = "idle"
    BY <1>1, <1>7, ReadStep
  <2>2. OneCron' /\ InvoicedOnce'
    BY <2>1, <1>2 DEF Billing, OneCron, InvoicedOnce, Covers
  <2>3. EnteredInLedger'
    BY <2>1, <1>2 DEF Billing, EnteredInLedger, Covers
  <2>4. FreshIsFree'
    BY <2>1, <1>2 DEF Billing, FreshIsFree, Covers
  <2> QED
    BY <2>2, <2>3, <2>4 DEF Billing
<1>8. ASSUME NEW c \in Crons, CronCheck(c) PROVE Billing'
  <2>1. /\ bill' = bill /\ ledger' = ledger
        /\ cron[c].pc = "check" /\ cron'[c].pc # "ledger"
        /\ \A d \in Crons : d # c => cron'[d] = cron[d]
        /\ \A e \in cron'[c].fresh :
              e \in cron[c].fresh \/ (e \in cron[c].todo /\ ledger[e].invoice = NoInvoice)
    BY <1>8, CheckStep
  <2>2. \A d \in Crons : d # c => cron[d].pc = "idle"
    BY <2>1, <1>2 DEF Billing, OneCron
  <2>3. OneCron' /\ InvoicedOnce'
    BY <2>1, <2>2, <1>2 DEF Billing, OneCron, InvoicedOnce, Covers
  <2>4. EnteredInLedger'
    BY <2>1, <1>2 DEF Billing, EnteredInLedger, Covers
  <2>5. ASSUME NEW e \in cron[c].todo, ledger[e].invoice = NoInvoice, NEW i \in Invoices
        PROVE  ~Covers(i, e[1], e[2])
    <3>1. e[1] \in Services /\ e[2] \in Cycles /\ e = <<e[1], e[2]>>
      BY RenewalTypes DEF CronStates
    <3>2. \A d \in Crons : cron[d].pc # "ledger"
      BY <2>1, <2>2
    <3>3. ledger[<<e[1], e[2]>>].invoice = NoInvoice
      BY <3>1, <2>5
    <3> QED
      BY <3>1, <3>2, <3>3, <1>2 DEF Billing, EnteredInLedger
  <2>6. \A e \in cron'[c].fresh : \A i \in Invoices : ~Covers(i, e[1], e[2])
    BY <2>1, <2>5, <1>2 DEF Billing, FreshIsFree
  <2>7. FreshIsFree'
    BY <2>1, <2>6, <1>2 DEF Billing, FreshIsFree, Covers
  <2> QED
    BY <2>3, <2>4, <2>7 DEF Billing
<1>9. ASSUME NEW c \in Crons, CronInvoice(c) PROVE Billing'
  <2>1. /\ ledger' = ledger /\ cron[c].pc = "invoice" /\ cron'[c].pc = "ledger"
        /\ \A d \in Crons : d # c => cron'[d] = cron[d]
    BY <1>9, InvoiceStep
  <2>new. PICK d \in Cycles, i \in Invoices : NewInvoice(c, d, i)
    BY <1>9, InvoiceStep
  <2>2. /\ i = 1 + Cardinality({j \in Invoices : bill[j].status # "none"})
        /\ bill'[i].cycle = d
        /\ bill'[i].services = {s \in Services : <<s, d>> \in cron[c].fresh}
        /\ \A j \in Invoices : j # i => bill'[j] = bill[j]
        /\ cron'[c].at = {i}
        /\ \A e \in cron'[c].fresh : e \in cron[c].fresh /\ e[2] # d
    BY <2>new DEF NewInvoice
  <2>3. \A b \in Crons : b # c => cron[b].pc = "idle" /\ cron[b].fresh = {}
    BY <2>1, <1>2 DEF Billing, OneCron, CronsSound
  <2>4. \A j \in Invoices : j # i => \A s, k : Covers(j, s, k)' <=> Covers(j, s, k)
    BY <2>2 DEF Covers
  <2>5. \A s, k : Covers(i, s, k)' => k = d /\ s \in Services /\ <<s, d>> \in cron[c].fresh
    BY <2>2 DEF Covers
  <2>6. \A s \in Services : <<s, d>> \in cron[c].fresh => \A j \in Invoices : ~Covers(j, s, d)
    <3> SUFFICES ASSUME NEW s \in Services, <<s, d>> \in cron[c].fresh, NEW j \in Invoices
                 PROVE  ~Covers(j, s, d)
      OBVIOUS
    <3>1. ~Covers(j, <<s, d>>[1], <<s, d>>[2])
      BY <1>2 DEF Billing, FreshIsFree
    <3> QED
      BY <3>1
  <2>7. OneCron'
    BY <2>1, <2>3 DEF OneCron
  <2>8. InvoicedOnce'
    <3> SUFFICES ASSUME NEW s \in Services, NEW k \in Cycles, NEW j \in Invoices,
                        NEW m \in Invoices, Covers(j, s, k)', Covers(m, s, k)', j # m
                 PROVE  FALSE
      BY DEF InvoicedOnce
    <3>1. CASE j # i /\ m # i
      <4>1. Covers(j, s, k) /\ Covers(m, s, k)
        BY <3>1, <2>4
      <4> QED
        BY <4>1, <1>2 DEF Billing, InvoicedOnce
    <3>2. ASSUME NEW n \in Invoices, n # i, Covers(n, s, k)', Covers(i, s, k)' PROVE FALSE
      <4>1. Covers(n, s, k) /\ k = d /\ <<s, d>> \in cron[c].fresh
        BY <3>2, <2>4, <2>5
      <4> QED
        BY <4>1, <2>6
    <3> QED
      BY <3>1, <3>2
  <2>9. EnteredInLedger'
    <3> SUFFICES ASSUME NEW j \in Invoices, NEW s \in Services, NEW k \in Cycles,
                        Covers(j, s, k)'
                 PROVE  \/ ledger'[<<s, k>>].invoice # NoInvoice
                        \/ \E b \in Crons : cron'[b].pc = "ledger" /\ j \in cron'[b].at
      BY DEF EnteredInLedger
    <3>1. CASE j = i
      BY <3>1, <2>1, <2>2
    <3>2. CASE j # i
      <4>1. Covers(j, s, k) /\ \A b \in Crons : cron[b].pc # "ledger"
        BY <3>2, <2>1, <2>3, <2>4
      <4> QED
        BY <4>1, <2>1, <1>2 DEF Billing, EnteredInLedger
    <3> QED
      BY <3>1, <3>2
  <2>10. FreshIsFree'
    <3> SUFFICES ASSUME NEW b \in Crons, NEW e \in cron'[b].fresh, NEW j \in Invoices
                 PROVE  ~Covers(j, e[1], e[2])'
      BY DEF FreshIsFree
    <3>1. b = c /\ e \in cron[c].fresh /\ e[2] # d
      BY <2>1, <2>2, <2>3
    <3>2. ~Covers(j, e[1], e[2])
      BY <3>1, <1>2 DEF Billing, FreshIsFree
    <3>3. CASE j = i
      BY <3>1, <3>3, <2>2 DEF Covers
    <3>4. CASE j # i
      BY <3>2, <3>4, <2>2 DEF Covers
    <3> QED
      BY <3>3, <3>4
  <2> QED
    BY <2>7, <2>8, <2>9, <2>10 DEF Billing
<1>10. ASSUME NEW c \in Crons, CronLedger(c) PROVE Billing'
  <2>1. /\ bill' = bill /\ cron[c].pc = "ledger" /\ cron'[c].pc \in {"idle", "invoice"}
        /\ \A d \in Crons : d # c => cron'[d] = cron[d]
        /\ cron'[c].fresh \subseteq cron[c].fresh
    BY <1>10, LedgerStep
  <2>2. PICK i \in cron[c].at :
            \A s \in bill[i].services : ledger'[<<s, bill[i].cycle>>].invoice # NoInvoice
    BY <1>1, <1>10, LedgerStep
  <2>3. \A d \in Crons : d # c => cron[d].pc = "idle"
    BY <2>1, <1>2 DEF Billing, OneCron
  <2>4. OneCron' /\ InvoicedOnce'
    BY <2>1, <2>3, <1>2 DEF Billing, OneCron, InvoicedOnce, Covers
  <2>5. FreshIsFree'
    BY <2>1, <1>2 DEF Billing, FreshIsFree, Covers
  <2>6. EnteredInLedger'
    <3> SUFFICES ASSUME NEW j \in Invoices, NEW s \in Services, NEW k \in Cycles,
                        Covers(j, s, k)'
                 PROVE  ledger'[<<s, k>>].invoice # NoInvoice
      BY DEF EnteredInLedger
    <3>1. Covers(j, s, k)
      BY <2>1 DEF Covers
    <3>2. CASE j \in cron[c].at
      <4>1. j = i
        BY <3>2, <2>2 DEF CronsSound, One
      <4> QED
        BY <4>1, <3>1, <2>2 DEF Covers
    <3>3. CASE j \notin cron[c].at
      <4>1. ledger[<<s, k>>].invoice # NoInvoice
        BY <3>1, <3>3, <2>3, <1>2 DEF Billing, EnteredInLedger
      <4> QED
        BY <4>1 DEF Stays
    <3> QED
      BY <3>2, <3>3
  <2> QED
    BY <2>4, <2>5, <2>6 DEF Billing
<1>11. ASSUME NEW c \in Crons, CronAborts(c) PROVE Billing'
  <2>1. used'.faults > 0
    BY <1>11, AbortStep
  <2> QED
    BY <2>1, <1>1
<1> QED
  BY <1>4, <1>5, <1>6, <1>7, <1>8, <1>9, <1>10, <1>11, StepCases

\* The parts of Passing
PassedAt(s, d) == ledger[<<s, d>>].paid \/ Pending(s, d) <=> d < nextDue[s]
BillBehind(i) == \A s \in bill[i].services : bill[i].cycle <= nextDue[s]
CronBehind(c) == \A e \in cron[c].todo \cup cron[c].fresh : e[2] <= nextDue[e[1]]
SaveBehind(a) ==
    \A x \in applier[a].cur, i \in applier[a].at :
        x[1][2] <= nextDue[x[1][1]] /\ ~ledger[<<x[1][1], bill[i].cycle>>].paid
HandlerBehind(a) ==
    /\ \A e \in applier[a].todo : e[2] <= nextDue[e[1]]
    /\ applier[a].pc = "save" => SaveBehind(a)
Orderly ==
    /\ OneHandler
    /\ \A s \in Services, d \in Cycles : PassedAt(s, d)
    /\ \A i \in Invoices : BillBehind(i)
    /\ \A c \in Crons : CronBehind(c)
    /\ \A a \in Appliers : HandlerBehind(a)

LEMMA PassingParts == Passing <=> (Clean => Orderly)
  BY DEF Passing, Orderly, PassedIsPaid, DatesBehind, PassedAt, BillBehind, CronBehind,
     SaveBehind, HandlerBehind

LEMMA PassingPartsAfter == Passing' <=> (Clean' => Orderly')
  BY DEF Passing, Orderly, PassedIsPaid, DatesBehind, PassedAt, BillBehind, CronBehind,
     SaveBehind, HandlerBehind

\* A date somebody is to mark stays so, unless a handler gets there or is done.
LEMMA PendingStays ==
    ASSUME RenewalTypeOK, PaymentsKnown, Handled, Stays,
           \A a \in Appliers : \/ applier'[a] = applier[a]
                               \/ applier[a].pc # "ledger" /\ applier'[a].pc # "ledger"
    PROVE  \A s, d : Pending(s, d)' <=> Pending(s, d)
<1>1. \A a \in Appliers : \A i \in applier[a].at : bill'[i].cycle = bill[i].cycle
  BY RenewalTypes DEF Handled, Handling, PaymentsKnown, Stays, Histories
<1> SUFFICES ASSUME NEW s, NEW d PROVE Pending(s, d)' <=> Pending(s, d)
  OBVIOUS
<1>2. ASSUME NEW a \in Appliers
      PROVE  (/\ applier'[a].pc = "ledger"
              /\ \E x \in applier'[a].cur, i \in applier'[a].at :
                    x[1][1] = s /\ bill'[i].cycle = d)
             <=> (/\ applier[a].pc = "ledger"
                  /\ \E x \in applier[a].cur, i \in applier[a].at :
                        x[1][1] = s /\ bill[i].cycle = d)
  <2>1. CASE applier'[a] = applier[a]
    BY <2>1, <1>1
  <2>2. CASE applier[a].pc # "ledger" /\ applier'[a].pc # "ledger"
    BY <2>2
  <2> QED
    BY <2>1, <2>2
<1> QED
  BY <1>2 DEF Pending

\* Due dates that do not go back leave behind what was behind.
LEMMA BehindStays ==
    ASSUME RenewalTypeOK, RenewalTypeOK', PaymentsKnown, Handled, Stays, Orderly,
           \A s \in Services : nextDue[s] <= nextDue'[s]
    PROVE  /\ \A i \in Invoices : bill[i].status # "none" => BillBehind(i)'
           /\ bill' = bill => \A i \in Invoices : BillBehind(i)'
           /\ \A c \in Crons :
                 cron'[c].todo \cup cron'[c].fresh \subseteq cron[c].todo \cup cron[c].fresh
                    => CronBehind(c)'
           /\ \A a \in Appliers :
                 applier'[a].todo \subseteq applier[a].todo
                    => \A e \in applier'[a].todo : e[2] <= nextDue'[e[1]]
           /\ \A a \in Appliers :
                 /\ applier'[a] = applier[a]
                 /\ applier[a].pc = "save" =>
                       \A e \in Services \X Cycles : ~ledger[e].paid => ~ledger'[e].paid
                 => HandlerBehind(a)'
<1>1. /\ \A s \in Services : nextDue[s] \in Int /\ nextDue'[s] \in Int
      /\ bill \in [Invoices -> InvoiceDocs] /\ cron \in [Crons -> CronStates]
      /\ applier \in [Appliers -> HandlerStates]
  BY RenewalTypes, TypesAfter DEF DueDates
<1>2. \A s \in Services : \A k \in Int : k <= nextDue[s] => k <= nextDue'[s]
  BY <1>1
<1>3. ASSUME NEW i \in Invoices, bill'[i].cycle = bill[i].cycle,
             bill'[i].services = bill[i].services
      PROVE  BillBehind(i)'
  <2>1. bill[i].services \subseteq Services /\ bill[i].cycle \in Int
    BY <1>1 DEF InvoiceDocs, Cycles
  <2> QED
    BY <2>1, <1>2, <1>3 DEF Orderly, BillBehind
<1>4. ASSUME NEW c \in Crons,
             cron'[c].todo \cup cron'[c].fresh \subseteq cron[c].todo \cup cron[c].fresh
      PROVE  CronBehind(c)'
  <2>1. \A e \in cron[c].todo \cup cron[c].fresh : e[1] \in Services /\ e[2] \in Int
    BY <1>1 DEF CronStates, Cycles
  <2> QED
    BY <2>1, <1>2, <1>4 DEF Orderly, CronBehind
<1>5. ASSUME NEW a \in Appliers, applier'[a].todo \subseteq applier[a].todo
      PROVE  \A e \in applier'[a].todo : e[2] <= nextDue'[e[1]]
  <2>1. \A e \in applier[a].todo : e[1] \in Services /\ e[2] \in Int
    BY <1>1 DEF HandlerStates, Loaded, DueDates
  <2> QED
    BY <2>1, <1>2, <1>5 DEF Orderly, HandlerBehind
<1>6. ASSUME NEW a \in Appliers, applier'[a] = applier[a],
             applier[a].pc = "save" =>
                 \A e \in Services \X Cycles : ~ledger[e].paid => ~ledger'[e].paid
      PROVE  HandlerBehind(a)'
  <2>1. \A e \in applier'[a].todo : e[2] <= nextDue'[e[1]]
    BY <1>5, <1>6
  <2>2. ASSUME applier[a].pc = "save" PROVE SaveBehind(a)'
    <3> SUFFICES ASSUME NEW x \in applier[a].cur, NEW i \in applier[a].at
                 PROVE  /\ x[1][2] <= nextDue'[x[1][1]]
                        /\ ~ledger'[<<x[1][1], bill'[i].cycle>>].paid
      BY <1>6 DEF SaveBehind
    <3>1. x[1][1] \in Services /\ x[1][2] \in Int /\ bill[i].cycle \in Cycles /\ i \in Invoices
      BY <1>1 DEF HandlerStates, Loaded, DueDates, InvoiceDocs
    <3>2. bill'[i].cycle = bill[i].cycle
      BY <3>1 DEF Handled, Handling, PaymentsKnown, Stays
    <3>3. x[1][2] <= nextDue[x[1][1]] /\ ~ledger[<<x[1][1], bill[i].cycle>>].paid
      BY <2>2 DEF Orderly, HandlerBehind, SaveBehind
    <3>4. <<x[1][1], bill[i].cycle>> \in Services \X Cycles
      BY <3>1
    <3> QED
      BY <3>1, <3>2, <3>3, <3>4, <1>2, <1>6, <2>2
  <2> QED
    BY <2>1, <2>2, <1>6 DEF HandlerBehind
<1>7. \A i \in Invoices : bill[i].status # "none" => BillBehind(i)'
  BY <1>3 DEF Stays
<1>8. bill' = bill => \A i \in Invoices : BillBehind(i)'
  BY <1>3
<1> QED
  BY <1>4, <1>5, <1>6, <1>7, <1>8

\* A step that leaves the handlers, the due dates and what is marked alone
LEMMA OrderlyStays ==
    ASSUME RenewalTypeOK, RenewalTypeOK', PaymentsKnown, Handled, Stays, Orderly,
           applier' = applier, nextDue' = nextDue,
           \A e \in Services \X Cycles : ledger'[e].paid = ledger[e].paid,
           \A i \in Invoices : BillBehind(i)', \A c \in Crons : CronBehind(c)'
    PROVE  Orderly'
<1>1. \A s, d : Pending(s, d)' <=> Pending(s, d)
  BY PendingStays
<1>2. \A s \in Services, d \in Cycles : PassedAt(s, d)'
  BY <1>1 DEF Orderly, PassedAt
<1>3. \A s \in Services : nextDue[s] <= nextDue'[s]
  BY RenewalTypes DEF DueDates
<1>4. \A a \in Appliers : HandlerBehind(a)'
  BY <1>3, BehindStays
<1>5. OneHandler'
  BY DEF Orderly, OneHandler
<1> QED
  BY <1>2, <1>4, <1>5 DEF Orderly

LEMMA PassingKept ==
    ASSUME RenewalTypeOK, RenewalTypeOK', Numbered, PaymentsKnown, Handled,
           EntriesHaveInvoices, Passing, Next, Stays
    PROVE  Passing'
<1> SUFFICES ASSUME Clean' PROVE Orderly'
  BY PassingPartsAfter
<1>1. Clean /\ used'.faults = 0 /\ ~history'.stale /\ ~history'.refused
  BY TroubleStays DEF Clean
<1>2. Orderly
  BY <1>1, PassingParts
<1>3. /\ nextDue \in [Services -> DueDates] /\ bill \in [Invoices -> InvoiceDocs]
      /\ ledger \in [Services \X Cycles -> EntryDocs] /\ cron \in [Crons -> CronStates]
      /\ applier \in [Appliers -> HandlerStates]
  BY RenewalTypes
<1>4. ASSUME nextDue' = nextDue PROVE \A s \in Services : nextDue[s] <= nextDue'[s]
  BY <1>3, <1>4 DEF DueDates
<1>5. ASSUME cron' = cron, \A s \in Services : nextDue[s] <= nextDue'[s]
      PROVE  \A c \in Crons : CronBehind(c)'
  BY <1>2, <1>5, BehindStays
<1>6. ASSUME UNCHANGED <<nextDue, ledger, bill, cron, applier>> PROVE Orderly'
  <2>1. (\A i \in Invoices : BillBehind(i)') /\ (\A c \in Crons : CronBehind(c)')
    BY <1>2, <1>4, <1>6, BehindStays
  <2> QED
    BY <2>1, <1>2, <1>6, OrderlyStays
<1>7. CASE \/ CycleComesUp \/ \E s \in Services : StatusChanges(s)
           \/ \E i \in Invoices : PayAgain(i)
  BY <1>6, <1>7 DEF CycleComesUp, StatusChanges, PayAgain
<1>8. ASSUME NEW i \in Invoices, Pay(i) \/ AdminUnpay(i) PROVE Orderly'
  <2>1. /\ UNCHANGED <<nextDue, ledger, cron, applier>>
        /\ bill'[i].cycle = bill[i].cycle /\ bill'[i].services = bill[i].services
        /\ \A j \in Invoices : j # i => bill'[j] = bill[j]
    BY <1>8, BillStep
  <2>2. \A j \in Invoices : BillBehind(j)'
    BY <2>1, <1>2 DEF Orderly, BillBehind
  <2>3. \A c \in Crons : CronBehind(c)'
    BY <2>1, <1>4, <1>5
  <2> QED
    BY <2>1, <2>2, <2>3, <1>2, OrderlyStays
<1>9. ASSUME NEW c \in Crons, CronRead(c) PROVE Orderly'
  <2>1. /\ UNCHANGED <<nextDue, ledger, bill, applier>> /\ cron'[c].fresh = {}
        /\ \A d \in Crons : d # c => cron'[d] = cron[d]
        /\ \A e \in cron'[c].todo : e \in Services \X Cycles /\ e[2] = nextDue[e[1]]
    BY <1>9, ReadStep
  <2>2. \A i \in Invoices : BillBehind(i)'
    BY <2>1, <1>2, <1>4, BehindStays
  <2>3. CronBehind(c)'
    BY <2>1, <1>3 DEF CronBehind, DueDates
  <2>4. \A d \in Crons : d # c => CronBehind(d)'
    BY <2>1, <1>2, <1>4, BehindStays
  <2>5. \A d \in Crons : CronBehind(d)'
    BY <2>3, <2>4
  <2> QED
    BY <2>1, <2>2, <2>5, <1>2, OrderlyStays
<1>10. ASSUME NEW c \in Crons, CronCheck(c) \/ CronLedger(c) PROVE Orderly'
  <2>1. /\ UNCHANGED <<nextDue, bill, applier>>
        /\ \A d \in Crons : d # c => cron'[d] = cron[d]
        /\ cron'[c].todo \cup cron'[c].fresh \subseteq cron[c].todo \cup cron[c].fresh
    <3>1. CASE CronCheck(c)
      BY <3>1, CheckStep
    <3>2. CASE CronLedger(c)
      BY <3>2, LedgerStep
    <3> QED
      BY <1>10, <3>1, <3>2
  <2>2. \A e \in Services \X Cycles : ledger'[e].paid = ledger[e].paid
    <3>1. CASE CronCheck(c)
      BY <3>1, CheckStep
    <3>2. CASE CronLedger(c)
      <4> SUFFICES ASSUME NEW e \in Services \X Cycles PROVE ledger'[e].paid = ledger[e].paid
        OBVIOUS
      <4>1. \/ ledger'[e] = ledger[e]
            \/ ledger[e].invoice = NoInvoice /\ ~ledger'[e].paid
        BY <3>2, LedgerStep
      <4>2. ledger[e].paid => ledger[e].invoice # NoInvoice
        BY <1>3 DEF EntriesHaveInvoices
      <4>3. ledger[e] \in EntryDocs /\ ledger'[e] \in EntryDocs
        BY <1>3, TypesAfter
      <4>4. ledger[e].paid \in BOOLEAN /\ ledger'[e].paid \in BOOLEAN
        BY <4>3 DEF EntryDocs
      <4> QED
        BY <4>1, <4>2, <4>4
    <3> QED
      BY <1>10, <3>1, <3>2
  <2>3. (\A i \in Invoices : BillBehind(i)') /\ (\A d \in Crons : CronBehind(d)')
    BY <2>1, <1>2, <1>4, BehindStays
  <2> QED
    BY <2>1, <2>2, <2>3, <1>2, OrderlyStays
<1>11. ASSUME NEW c \in Crons, CronInvoice(c) PROVE Orderly'
  <2>1. /\ UNCHANGED <<nextDue, ledger, applier>> /\ cron'[c].todo = cron[c].todo
        /\ \A b \in Crons : b # c => cron'[b] = cron[b]
    BY <1>11, InvoiceStep
  <2>new. PICK d \in Cycles, i \in Invoices : NewInvoice(c, d, i)
    BY <1>11, InvoiceStep
  <2>2. /\ bill'[i].cycle = d
        /\ bill'[i].services = {s \in Services : <<s, d>> \in cron[c].fresh}
        /\ \A j \in Invoices : j # i => bill'[j] = bill[j]
        /\ \A e \in cron'[c].fresh : e \in cron[c].fresh
    BY <2>new DEF NewInvoice
  <2>3. BillBehind(i)'
    <3> SUFFICES ASSUME NEW s \in bill'[i].services PROVE d <= nextDue[s]
      BY <2>1, <2>2 DEF BillBehind
    <3>1. <<s, d>> \in cron[c].fresh
      BY <2>2
    <3>2. <<s, d>>[2] <= nextDue[<<s, d>>[1]]
      BY <3>1, <1>2 DEF Orderly, CronBehind
    <3> QED
      BY <3>2
  <2>4. \A j \in Invoices : BillBehind(j)'
    BY <2>1, <2>2, <2>3, <1>2 DEF Orderly, BillBehind
  <2>5. \A b \in Crons : CronBehind(b)'
    BY <2>1, <2>2, <1>2, <1>4, BehindStays
  <2> QED
    BY <2>1, <2>4, <2>5, <1>2, OrderlyStays
<1>12. ASSUME NEW c \in Crons, CronAborts(c) PROVE Orderly'
  <2>1. used'.faults > 0
    BY <1>12, AbortStep
  <2> QED
    BY <2>1, <1>1
<1>13. ASSUME NEW a \in Appliers, NEW i \in Invoices, ApplyRead(a, i) PROVE Orderly'
  <2>1. /\ UNCHANGED <<nextDue, ledger, bill, cron>>
        /\ \A b \in Appliers : b # a => applier'[b] = applier[b]
        /\ \A b \in Appliers : applier[b].pc = "idle"
        /\ applier'[a].pc \in {"idle", "next"}
        /\ \A e \in applier'[a].todo : e \in Loaded /\ e[2] = nextDue[e[1]]
    BY <1>1, <1>13, ApplyReadStep
  <2>2. \A s, d : Pending(s, d)' <=> Pending(s, d)
    BY <2>1, PendingStays
  <2>3. \A s \in Services, d \in Cycles : PassedAt(s, d)'
    BY <2>1, <2>2, <1>2 DEF Orderly, PassedAt
  <2>4. HandlerBehind(a)'
    BY <2>1, <1>3 DEF HandlerBehind, Loaded, DueDates
  <2>5. /\ \A b \in Appliers : b # a => HandlerBehind(b)'
        /\ (\A j \in Invoices : BillBehind(j)') /\ (\A c \in Crons : CronBehind(c)')
    BY <2>1, <1>2, <1>4, BehindStays
  <2>6. OneHandler'
    BY <2>1 DEF OneHandler
  <2> QED
    BY <2>3, <2>4, <2>5, <2>6 DEF Orderly
<1>14. ASSUME NEW a \in Appliers, ApplyNext(a) PROVE Orderly'
  <2>1. One(applier[a].at) /\ One(applier[a].cur)
    BY DEF Handled, Handling
  <2>2. /\ UNCHANGED <<nextDue, ledger, bill, cron>>
        /\ \A b \in Appliers : b # a => applier'[b] = applier[b]
        /\ applier[a].pc = "next" /\ applier'[a].pc \in {"idle", "next", "save"}
        /\ applier'[a].at \subseteq applier[a].at
        /\ applier'[a].todo \subseteq applier[a].todo
        /\ \/ applier'[a].pc # "save"
           \/ \A x \in applier'[a].cur, i \in applier[a].at :
                 x[1] \in applier[a].todo /\ ~ledger[<<x[1][1], bill[i].cycle>>].paid
    BY <1>14, <2>1, ApplyNextStep
  <2>3. \A s, d : Pending(s, d)' <=> Pending(s, d)
    BY <2>2, PendingStays
  <2>4. \A s \in Services, d \in Cycles : PassedAt(s, d)'
    BY <2>2, <2>3, <1>2 DEF Orderly, PassedAt
  <2>5. \A e \in applier[a].todo : e[2] <= nextDue[e[1]]
    BY <1>2 DEF Orderly, HandlerBehind
  <2>6. applier'[a].pc = "save" => SaveBehind(a)'
    BY <2>2, <2>5 DEF SaveBehind
  <2>7. HandlerBehind(a)'
    BY <2>2, <2>5, <2>6 DEF HandlerBehind
  <2>8. /\ \A b \in Appliers : b # a => HandlerBehind(b)'
        /\ (\A j \in Invoices : BillBehind(j)') /\ (\A c \in Crons : CronBehind(c)')
    BY <2>2, <1>2, <1>4, BehindStays
  <2>9. OneHandler'
    BY <2>2, <1>2 DEF Orderly, OneHandler
  <2> QED
    BY <2>4, <2>7, <2>8, <2>9 DEF Orderly
<1>15. ASSUME NEW a \in Appliers, ApplySave(a) PROVE Orderly'
  <2>1. /\ UNCHANGED <<ledger, bill, cron>>
        /\ \A b \in Appliers : b # a => applier'[b] = applier[b]
        /\ applier[a].pc = "save" /\ applier'[a].pc = "ledger"
        /\ applier'[a].at = applier[a].at /\ applier'[a].cur = applier[a].cur
        /\ applier'[a].todo = applier[a].todo
    BY <1>15, SaveStep
  <2>2. PICK x \in applier[a].cur, i \in applier[a].at :
            \/ bill[i].cycle + 1 = x[1][2] /\ nextDue' = nextDue
            \/ /\ nextDue'[x[1][1]] = bill[i].cycle + 1
               /\ \A s \in Services : s # x[1][1] => nextDue'[s] = nextDue[s]
    BY <1>15, SaveStep
  <2> DEFINE s1 == x[1][1]
             k == bill[i].cycle
  <2>3. i \in Invoices /\ s1 \in Services /\ k \in Cycles /\ x[1][2] \in Int
    BY <1>3 DEF HandlerStates, Loaded, DueDates, InvoiceDocs
  <2>4. s1 \in bill[i].services
    BY DEF Handled, Handling
  <2>5. x[1][2] <= nextDue[s1] /\ ~ledger[<<s1, k>>].paid
    BY <2>1, <1>2 DEF Orderly, HandlerBehind, SaveBehind
  <2>6. k <= nextDue[s1]
    BY <2>3, <2>4, <1>2 DEF Orderly, BillBehind
  <2>7. \A b \in Appliers : b # a => applier[b].pc = "idle"
    BY <2>1, <1>2 DEF Orderly, OneHandler
  <2>8. \A s, d : ~Pending(s, d)
    BY <2>1, <2>7 DEF Pending
  <2>9. PassedAt(s1, k)
    BY <2>3, <1>2 DEF Orderly
  <2>10. k \in Int /\ nextDue[s1] \in Int /\ ~(k < nextDue[s1])
    BY <2>3, <2>5, <2>8, <2>9, <1>3 DEF PassedAt, Cycles, DueDates
  <2>11. nextDue[s1] = k /\ nextDue'[s1] = k + 1
    BY <2>2, <2>3, <2>5, <2>6, <2>10
  <2>12. \A s \in Services : s # s1 => nextDue'[s] = nextDue[s]
    BY <2>2
  <2>13. \A s, d : Pending(s, d)' <=> s = s1 /\ d = k
    <3>1. \A y \in applier[a].cur, j \in applier[a].at : y = x /\ j = i
      BY <2>2 DEF Handled, Handling, One
    <3>2. \A b \in Appliers : b # a => applier'[b].pc # "ledger"
      BY <2>1, <2>7
    <3> QED
      BY <2>1, <2>2, <3>1, <3>2 DEF Pending
  <2>14. \A s \in Services, d \in Cycles : PassedAt(s, d)'
    <3> SUFFICES ASSUME NEW s \in Services, NEW d \in Cycles PROVE PassedAt(s, d)'
      OBVIOUS
    <3>1. PassedAt(s, d) /\ ~Pending(s, d) /\ ledger' = ledger
      BY <1>2, <2>1, <2>8 DEF Orderly
    <3>2. ledger[<<s, d>>].paid <=> d < nextDue[s]
      BY <3>1 DEF PassedAt
    <3>3. d \in Int
      BY DEF Cycles
    <3>4. CASE s # s1
      <4>1. ~Pending(s, d)' /\ nextDue'[s] = nextDue[s]
        BY <3>4, <2>12, <2>13
      <4> QED
        BY <4>1, <3>1, <3>2 DEF PassedAt
    <3>5. CASE s = s1
      <4>1. Pending(s, d)' <=> d = k
        BY <3>5, <2>13
      <4>2. ledger[<<s, d>>].paid <=> d < k
        BY <3>2, <3>5, <2>11
      <4>3. (d < k \/ d = k) <=> d < nextDue'[s]
        BY <3>3, <3>5, <2>10, <2>11
      <4> QED
        BY <3>1, <4>1, <4>2, <4>3 DEF PassedAt
    <3> QED
      BY <3>4, <3>5
  <2>15. \A s \in Services : nextDue[s] <= nextDue'[s]
    BY <2>10, <2>11, <2>12, <1>3 DEF DueDates
  <2>16. /\ \A b \in Appliers : b # a => HandlerBehind(b)'
         /\ \A e \in applier'[a].todo : e[2] <= nextDue'[e[1]]
         /\ (\A j \in Invoices : BillBehind(j)') /\ (\A c \in Crons : CronBehind(c)')
    BY <2>1, <2>15, <1>2, BehindStays
  <2>17. HandlerBehind(a)'
    BY <2>1, <2>16 DEF HandlerBehind
  <2>18. OneHandler'
    BY <2>1, <2>7 DEF OneHandler
  <2> QED
    BY <2>14, <2>16, <2>17, <2>18 DEF Orderly
<1>16. ASSUME NEW a \in Appliers, ApplyLedger(a) PROVE Orderly'
  <2>1. /\ UNCHANGED <<nextDue, bill, cron>>
        /\ \A b \in Appliers : b # a => applier'[b] = applier[b]
        /\ applier[a].pc = "ledger" /\ applier'[a].pc \in {"idle", "next"}
        /\ applier'[a].todo \subseteq applier[a].todo
    BY <1>16, MarkStep
  <2>2. PICK x \in applier[a].cur, i \in applier[a].at :
            /\ \A e \in Services \X Cycles :
                  e # <<x[1][1], bill[i].cycle>> => ledger'[e] = ledger[e]
            /\ ledger'[<<x[1][1], bill[i].cycle>>].paid
    BY <1>1, <1>16, MarkStep
  <2>3. \A b \in Appliers : b # a => applier[b].pc = "idle"
    BY <2>1, <1>2 DEF Orderly, OneHandler
  <2>4. \A s, d : Pending(s, d) <=> s = x[1][1] /\ d = bill[i].cycle
    <3>1. \A y \in applier[a].cur, j \in applier[a].at : y = x /\ j = i
      BY <2>2 DEF Handled, Handling, One
    <3> QED
      BY <2>1, <2>2, <2>3, <3>1 DEF Pending
  <2>5. \A s, d : ~Pending(s, d)'
    <3>1. \A b \in Appliers : applier'[b].pc # "ledger"
      BY <2>1, <2>3
    <3> QED
      BY <3>1 DEF Pending
  <2>6. \A s \in Services, d \in Cycles : PassedAt(s, d)'
    <3> SUFFICES ASSUME NEW s \in Services, NEW d \in Cycles PROVE PassedAt(s, d)'
      OBVIOUS
    <3>1. PassedAt(s, d) /\ ~Pending(s, d)' /\ nextDue' = nextDue
      BY <1>2, <2>1, <2>5 DEF Orderly
    <3>2. CASE s = x[1][1] /\ d = bill[i].cycle
      BY <3>1, <3>2, <2>2, <2>4 DEF PassedAt
    <3>3. CASE ~(s = x[1][1] /\ d = bill[i].cycle)
      <4>1. ledger'[<<s, d>>] = ledger[<<s, d>>] /\ ~Pending(s, d)
        BY <3>3, <2>2, <2>4
      <4> QED
        BY <3>1, <4>1 DEF PassedAt
    <3> QED
      BY <3>2, <3>3
  <2>7. /\ \A b \in Appliers : b # a => HandlerBehind(b)'
        /\ \A e \in applier'[a].todo : e[2] <= nextDue'[e[1]]
        /\ (\A j \in Invoices : BillBehind(j)') /\ (\A c \in Crons : CronBehind(c)')
    BY <2>1, <2>3, <1>2, <1>4, BehindStays
  <2>8. HandlerBehind(a)'
    BY <2>1, <2>7 DEF HandlerBehind
  <2>9. OneHandler'
    BY <2>1, <2>3 DEF OneHandler
  <2> QED
    BY <2>6, <2>7, <2>8, <2>9 DEF Orderly
<1>17. ASSUME NEW a \in Appliers, ApplyAborts(a) PROVE Orderly'
  <2>1. used'.faults > 0
    BY <1>17, AbortStep
  <2> QED
    BY <2>1, <1>1
<1> QED
  BY <1>7, <1>8, <1>9, <1>10, <1>11, <1>12, <1>13, <1>14, <1>15, <1>16, <1>17, StepCases

-----------------------------------------------------------------------------
(* The invariant, and what follows *)

LEMMA InitInv == ASSUME Init PROVE RenInv
<1>1. RenewalTypeOK
  BY InitTypes
<1>2. Numbered /\ PaymentsKnown
  BY DEF Init, Numbered, PaymentsKnown
<1>3. Handled
  BY DEF Init, Handled, Handling, One, ApplierIdle
<1>4. EntriesHaveInvoices
  BY DEF Init, EntriesHaveInvoices
<1>5. NothingFree
  BY DEF Init, NothingFree, PaidBefore, CronIdle
<1>6. Passing
  <2>1. \A s \in Services, d \in Cycles :
           ~ledger[<<s, d>>].paid /\ ~Pending(s, d) /\ ~(d < nextDue[s])
    BY DEF Init, Pending, ApplierIdle, Cycles
  <2>2. OneHandler /\ PassedIsPaid
    BY <2>1 DEF Init, OneHandler, PassedIsPaid, ApplierIdle
  <2>3. DatesBehind
    BY DEF Init, DatesBehind, CronIdle, ApplierIdle
  <2> QED
    BY <2>2, <2>3 DEF Passing
<1>7. CronsSound
  BY DEF Init, CronsSound, One, CronIdle
<1>8. Invoicing
  BY DEF Init, Invoicing, OneCron, InvoicedOnce, EnteredInLedger, FreshIsFree, Covers, CronIdle
<1> QED
  BY <1>1, <1>2, <1>3, <1>4, <1>5, <1>6, <1>7, <1>8 DEF RenInv

LEMMA StepKeepsInv == ASSUME RenInv, [Next]_vars PROVE RenInv'
<1>1. CASE Next
  <2>1. /\ RenewalTypeOK /\ Numbered /\ PaymentsKnown /\ Handled /\ EntriesHaveInvoices
        /\ NothingFree /\ Passing /\ CronsSound /\ Invoicing
    BY DEF RenInv
  <2>2. RenewalTypeOK'
    BY <1>1, <2>1, TypesKept
  <2>3. Stays
    BY <1>1, <2>1, MadeStays
  <2>4. Numbered' /\ PaymentsKnown' /\ Handled' /\ EntriesHaveInvoices'
    BY <1>1, <2>1, <2>2, <2>3, NumberedKept, PaymentsKnownKept, HandledKept, EntriesKept
  <2>5. NothingFree'
    BY <1>1, <2>1, <2>2, <2>3, NothingFreeKept
  <2>6. Passing'
    BY <1>1, <2>1, <2>2, <2>3, PassingKept
  <2>7. CronsSound' /\ Invoicing'
    BY <1>1, <2>1, <2>2, <2>3, CronsSoundKept, InvoicingKept
  <2> QED
    BY <2>2, <2>4, <2>5, <2>6, <2>7 DEF RenInv
<1>2. CASE UNCHANGED vars
  <2>1. UNCHANGED <<horizon, status, nextDue, ledger, bill, owed, cron, applier, used, history>>
    BY <1>2 DEF vars
  <2>2. RenewalTypeOK' /\ Numbered' /\ PaymentsKnown' /\ Handled' /\ EntriesHaveInvoices'
    BY <2>1 DEF RenInv, RenewalTypeOK, Numbered, PaymentsKnown, Handled, Handling,
       EntriesHaveInvoices
  <2>3. NothingFree' /\ CronsSound' /\ Invoicing'
    BY <2>1 DEF RenInv, NothingFree, PaidBefore, PaidFor, Covers, CronsSound, Invoicing, OneCron,
       InvoicedOnce, EnteredInLedger, FreshIsFree
  <2>4. Passing'
    BY <2>1 DEF RenInv, Passing, Clean, OneHandler, PassedIsPaid, Pending, DatesBehind
  <2> QED
    BY <2>2, <2>3, <2>4 DEF RenInv
<1> QED
  BY <1>1, <1>2

LEMMA InvAlways == Spec => []RenInv
<1>1. Init => RenInv
  BY InitInv
<1>2. RenInv /\ [Next]_vars => RenInv'
  BY StepKeepsInv
<1> QED
  BY <1>1, <1>2, PTL DEF Spec

\* Types: whatever calls overlap, die or come too late, ledger entries, due
\* dates and invoices keep their form.
THEOREM RenewalTypesHold == Spec => []RenewalTypeOK
<1>1. RenInv => RenewalTypeOK
  BY DEF RenInv
<1> QED
  BY <1>1, InvAlways, PTL

\* A cycle of a service is on one invoice: processRenewals looks in the ledger
\* before it invoices, and enters what it invoiced, so that nothing but a call
\* that dies or a second one at the same time gives it two.
THEOREM CyclesInvoicedOnce == Spec => []InvoicedOnceUndisturbed
<1>1. RenInv => InvoicedOnceUndisturbed
  BY DEF RenInv, Invoicing, InvoicedOnceUndisturbed
<1> QED
  BY <1>1, InvAlways, PTL

\* Due dates tell what was paid.  applyRenewalPayment counts the next one from
\* the cycle of the invoice, so that each cycle before it was paid, whatever
\* calls overlap, come late or twice, or die; and unless they do, a cycle with
\* a paidInvoiceId is behind the service.
THEOREM DueDatesTellPayments == Spec => []CyclesPaid
<1>1. RenInv => NoFreeCycle
  BY DEF RenInv, NothingFree, PaidBefore, PaidFor, NoFreeCycle
<1>2. RenInv => PaidCyclePassed
  <2> SUFFICES ASSUME RenInv, Clean, NEW e \in DOMAIN ledger, ledger[e].paid
               PROVE  nextDue[e[1]] > e[2]
    BY DEF PaidCyclePassed, Clean
  <2>1. RenewalTypeOK /\ PassedIsPaid
    BY DEF RenInv, Passing
  <2>2. e \in Services \X Cycles /\ nextDue \in [Services -> DueDates]
    BY <2>1, RenewalTypes
  <2>3. e = <<e[1], e[2]>> /\ e[1] \in Services /\ e[2] \in Cycles
    BY <2>2
  <2>4. ledger[<<e[1], e[2]>>].paid
    BY <2>3
  <2>5. e[2] < nextDue[e[1]]
    BY <2>1, <2>3, <2>4 DEF PassedIsPaid
  <2> QED
    BY <2>2, <2>3, <2>5 DEF Cycles, DueDates
<1>3. RenInv => CyclesPaid
  BY <1>1, <1>2 DEF CyclesPaid
<1> QED
  BY <1>3, InvAlways, PTL
=============================================================================

----------------------- MODULE ServiceLifecycle_proofs -----------------------
(***************************************************************************)
(* Proofs about ServiceActionQueue, for every set of services, invoices and  *)
(* workers and every value of the bounds.                                    *)
(*                                                                           *)
(* Then about ServiceLifecycle, which adds every linking of services to      *)
(* invoices: it uses the queue only as the queue allows, so that what is     *)
(* proved of the queue holds of the whole; accounts are destroyed, and jobs  *)
(* exist, only on somebody's decision.                                       *)
(***************************************************************************)
EXTENDS ServiceLifecycle, FiniteSetTheorems, TLAPS

USE MaxAttemptsAssumption, QueueBoundsAssumption

LEMMA VerdictType ==
    ASSUME NEW attempts \in Nat, NEW outcome \in Outcomes
    PROVE  /\ Verdict(attempts, outcome) \in JobStatus
           /\ Verdict(attempts, outcome) = "SUCCESS" <=> outcome = "ok"
           /\ Verdict(attempts, outcome) = "FAILED" => attempts >= MaxAttempts
  BY DEF Verdict, JobStatus, Outcomes

\* An entry of a batch or of current: a job and the attempts it was loaded with
LEMMA EntryType ==
    ASSUME QueueTypeOK, NEW w \in Workers
    PROVE  /\ \A e \in batch[w] : e = <<e[1], e[2]>> /\ e[1] \in Keys /\ e[2] \in Nat
           /\ \A c \in current[w] : /\ c = <<c[1], c[2], c[3]>>
                                    /\ c[1] \in Keys /\ c[2] \in Nat /\ c[3] \in Outcomes
  <1>1. batch[w] \subseteq Keys \X Nat /\ current[w] \subseteq Keys \X Nat \X Outcomes
    BY DEF QueueTypeOK
  <1>. QED  BY <1>1

-----------------------------------------------------------------------------
(* Type correctness *)

LEMMA TypeInit == QueueInit => QueueTypeOK
  BY DEF QueueInit, QueueTypeOK, Jobs, JobStatus, RemoteStates, Outcomes

LEMMA TypeStep == QueueTypeOK /\ [QueueNext]_queueVars => QueueTypeOK'
  <1>. SUFFICES ASSUME QueueTypeOK, [QueueNext]_queueVars
                PROVE  QueueTypeOK'
    OBVIOUS
  <1>. USE DEF bounds
  <1>1. ASSUME NEW w \in Workers, Find(w) PROVE QueueTypeOK'
    <2>1. \A B \in Batches(Eligible) : B \in SUBSET Keys
      BY DEF Batches, Eligible
    <2>. QED  BY <1>1, <2>1 DEF Find, QueueTypeOK
  <1>2. ASSUME NEW w \in Workers, Lock(w) PROVE QueueTypeOK'
    <2>1. job' \in [Keys -> Jobs]
      BY <1>2 DEF Lock, QueueTypeOK, Jobs, JobStatus
    <2>. QED  BY <1>2, <2>1 DEF Lock, QueueTypeOK
  <1>3. ASSUME NEW w \in Workers, Load(w) PROVE QueueTypeOK'
    <2>1. {<<k, job[k].attempts>> : k \in {k \in Keys : job[k].owner = w}} \in SUBSET (Keys \X Nat)
      BY DEF QueueTypeOK, Jobs
    <2>. QED  BY <1>3, <2>1 DEF Load, QueueTypeOK
  <1>4. ASSUME NEW w \in Workers, Call(w) PROVE QueueTypeOK'
    <2>1. PICK entry \in batch[w], o \in Outcomes :
             /\ batch' = [batch EXCEPT ![w] = @ \ {entry}]
             /\ current' = [current EXCEPT ![w] = {<<entry[1], entry[2], o>>}]
             /\ \/ UNCHANGED <<remote, calls, accepted>>
                \/ /\ \/ remote' = [remote EXCEPT ![entry[1][1]] = Effect(entry[1][2])]
                      \/ UNCHANGED remote
                   /\ calls' = [calls EXCEPT ![entry[1]] = @ + 1]
                   /\ accepted' \in {accepted, accepted \cup {entry[1]}}
      BY <1>4 DEF Call
    <2>2. entry[1] \in Keys /\ entry[2] \in Nat /\ entry[1][2] \in Actions
      BY EntryType DEF Keys
    <2>3. Effect(entry[1][2]) \in RemoteStates
      BY <2>2 DEF Effect, Actions, RemoteStates
    <2>4. <<entry[1], entry[2], o>> \in Keys \X Nat \X Outcomes
      BY <2>2
    <2>5. /\ remote' \in [Services -> RemoteStates]
          /\ calls' \in [Keys -> Nat]
          /\ accepted' \in SUBSET Keys
      BY <2>1, <2>2, <2>3 DEF QueueTypeOK
    <2>6. batch' \in [Workers -> SUBSET (Keys \X Nat)]
      BY <2>1 DEF QueueTypeOK
    <2>7. current' \in [Workers -> SUBSET (Keys \X Nat \X Outcomes)]
      BY <2>1, <2>4 DEF QueueTypeOK
    <2>. QED  BY <1>4, <2>5, <2>6, <2>7 DEF Call, QueueTypeOK
  <1>5. ASSUME NEW w \in Workers, Save(w) PROVE QueueTypeOK'
    <2>1. PICK c \in current[w] :
             job' = [job EXCEPT ![c[1]].status = Verdict(c[2], c[3]),
                                ![c[1]].owner = Nobody,
                                ![c[1]].stale = FALSE]
      BY <1>5 DEF Save
    <2>2. Verdict(c[2], c[3]) \in JobStatus
      BY EntryType, VerdictType
    <2>3. job' \in [Keys -> Jobs]
      BY <2>1, <2>2 DEF QueueTypeOK, Jobs
    <2>. QED  BY <1>5, <2>3 DEF Save, QueueTypeOK
  <1>6. ASSUME NEW w \in Workers, Abort(w) PROVE QueueTypeOK'
    <2>1. job' \in [Keys -> Jobs]
      BY <1>6 DEF Abort, QueueTypeOK, Jobs
    <2>. QED  BY <1>6, <2>1 DEF Abort, QueueTypeOK
  <1>7. ASSUME NEW k \in Keys, LostLockGoesStale(k) \/ LiveLockGoesStale(k)
        PROVE  QueueTypeOK'
    <2>1. job' = [job EXCEPT ![k].stale = TRUE]
      BY <1>7 DEF LostLockGoesStale, LiveLockGoesStale
    <2>2. job[k] \in Jobs
      BY DEF QueueTypeOK
    <2>3. [job[k] EXCEPT !.stale = TRUE] \in Jobs
      BY <2>2 DEF Jobs
    <2>4. job' \in [Keys -> Jobs]
      BY <2>1, <2>3 DEF QueueTypeOK
    <2>. QED  BY <1>7, <2>4 DEF LostLockGoesStale, LiveLockGoesStale, queueRest, QueueTypeOK
  <1>8. CASE Enqueue
    <2>1. job' \in [Keys -> Jobs]
      BY <1>8 DEF Enqueue, Insert, QueueTypeOK, Jobs, JobStatus
    <2>. QED  BY <1>8, <2>1 DEF Enqueue, queueRest, QueueTypeOK
  <1>9. CASE AdminCall
    BY <1>9 DEF AdminCall, QueueTypeOK
  <1>10. CASE RetrySave
    <2>1. PICK r \in retry :
             job' = [job EXCEPT ![r[1]] =
                       [status |-> IF r[2].status = "QUEUED" THEN @.status ELSE "QUEUED",
                        attempts |-> IF r[2].attempts = 0 THEN @.attempts ELSE 0,
                        owner |-> IF r[2].status = "RUNNING" THEN Nobody ELSE @.owner,
                        stale |-> ~(r[2].status = "RUNNING") /\ @.stale]]
      BY <1>10 DEF RetrySave
    <2>2. job' \in [Keys -> Jobs]
      BY <2>1 DEF QueueTypeOK, Jobs, JobStatus
    <2>. QED  BY <1>10, <2>2 DEF RetrySave, QueueTypeOK
  <1>11. ASSUME NEW k \in Keys, RetryRead(k) PROVE QueueTypeOK'
    BY <1>11 DEF RetryRead, QueueTypeOK
  <1>12. ASSUME NEW s \in Services, ServiceDeleted(s) PROVE QueueTypeOK'
    BY <1>12 DEF ServiceDeleted, QueueTypeOK
  <1>13. ASSUME NEW w \in Workers, SaveRejected(w) PROVE QueueTypeOK'
    <2>1. PICK c \in current[w] : current' = [current EXCEPT ![w] = {<<c[1], c[2], "error">>}]
      BY <1>13 DEF SaveRejected
    <2>2. <<c[1], c[2], "error">> \in Keys \X Nat \X Outcomes
      BY EntryType DEF Outcomes
    <2>3. current' \in [Workers -> SUBSET (Keys \X Nat \X Outcomes)]
      BY <2>1, <2>2 DEF QueueTypeOK
    <2>. QED  BY <1>13, <2>3 DEF SaveRejected, QueueTypeOK
  <1>14. CASE UNCHANGED queueVars
    BY <1>14 DEF queueVars, queueRest, QueueTypeOK
  <1>. QED
    BY <1>1, <1>2, <1>3, <1>4, <1>5, <1>6, <1>7, <1>8, <1>9, <1>10, <1>11, <1>12, <1>13, <1>14
    DEF QueueNext, QueueStep, WorkerStep, Environment

\* Every variable keeps its type: no job gets a status the schema does not
\* have, and no worker loads a document that is not a job.
THEOREM QueueTypeCorrect == QueueSpec => []QueueTypeOK
  <1>. QED  BY TypeInit, TypeStep, PTL DEF QueueSpec

-----------------------------------------------------------------------------
(* Results of jobs *)

\* A document loaded with n attempts had been locked n times, and the
\* database counts those locks still.
LoadedWasCounted ==
    \A w \in Workers :
        /\ \A e \in batch[w] : e[1] \in retried \/ e[2] <= job[e[1]].attempts
        /\ \A c \in current[w] : c[1] \in retried \/ c[2] <= job[c[1]].attempts

\* Without an error, the call was accepted, or none was made.
OkWasAccepted ==
    \A w \in Workers : \A c \in current[w] :
        c[3] = "ok" => c[1] \in accepted \/ c[1][1] \in gone

RetryIsKnown == \A r \in retry : r[1] \in retried

\* The inductive invariant: a job's end is written from what a worker carries
\* along, so that has to be tied to the database and the provider as well.
ResultInv ==
    /\ QueueTypeOK
    /\ LoadedWasCounted
    /\ OkWasAccepted
    /\ RetryIsKnown
    /\ FailedOnlyExhausted
    /\ SuccessWasAccepted

LEMMA ResultInit == QueueInit => ResultInv
  BY TypeInit DEF QueueInit, ResultInv, LoadedWasCounted, OkWasAccepted, RetryIsKnown,
     FailedOnlyExhausted, SuccessWasAccepted

\* Steps that take nothing from the history and only let attempts grow, and
\* end no job, keep what is said of jobs and of the entries that are left.
LEMMA ResultKept ==
    ASSUME ResultInv,
           retried' = retried,
           accepted' = accepted, gone \subseteq gone',
           retry' = retry,
           \A w \in Workers : batch'[w] \subseteq batch[w] /\ current'[w] \subseteq current[w],
           \A k \in Keys : /\ job'[k].attempts >= job[k].attempts
                           /\ job'[k].status \in {"SUCCESS", "FAILED"} =>
                                 job'[k].status = job[k].status,
           QueueTypeOK'
    PROVE  ResultInv'
  <1>1. LoadedWasCounted'
    <2>1. ASSUME NEW w \in Workers, NEW e \in batch'[w]
          PROVE  e[1] \in retried' \/ e[2] <= job'[e[1]].attempts
      <3>1. e \in batch[w]
        OBVIOUS
      <3>2. e[1] \in Keys /\ e[2] \in Nat
        BY <3>1, EntryType DEF ResultInv
      <3>3. job[e[1]].attempts \in Nat /\ job'[e[1]].attempts \in Nat
        BY <3>2 DEF ResultInv, QueueTypeOK, Jobs
      <3>. QED  BY <3>1, <3>2, <3>3 DEF ResultInv, LoadedWasCounted
    <2>2. ASSUME NEW w \in Workers, NEW c \in current'[w]
          PROVE  c[1] \in retried' \/ c[2] <= job'[c[1]].attempts
      <3>1. c \in current[w]
        OBVIOUS
      <3>2. c[1] \in Keys /\ c[2] \in Nat
        BY <3>1, EntryType DEF ResultInv
      <3>3. job[c[1]].attempts \in Nat /\ job'[c[1]].attempts \in Nat
        BY <3>2 DEF ResultInv, QueueTypeOK, Jobs
      <3>. QED  BY <3>1, <3>2, <3>3 DEF ResultInv, LoadedWasCounted
    <2>. QED  BY <2>1, <2>2 DEF LoadedWasCounted
  <1>2. OkWasAccepted' /\ RetryIsKnown'
    BY DEF ResultInv, OkWasAccepted, RetryIsKnown
  <1>3. FailedOnlyExhausted'
    <2>. SUFFICES ASSUME NEW k \in Keys \ retried, job'[k].status = "FAILED"
                  PROVE  job'[k].attempts >= MaxAttempts
      BY DEF FailedOnlyExhausted
    <2>1. job[k].attempts \in Nat /\ job'[k].attempts \in Nat
      BY DEF ResultInv, QueueTypeOK, Jobs
    <2>. QED  BY <2>1 DEF ResultInv, FailedOnlyExhausted
  <1>4. SuccessWasAccepted'
    BY DEF ResultInv, SuccessWasAccepted
  <1>. QED  BY <1>1, <1>2, <1>3, <1>4 DEF ResultInv

LEMMA ResultStep == ResultInv /\ [QueueNext]_queueVars => ResultInv'
  <1>. SUFFICES ASSUME ResultInv, [QueueNext]_queueVars
                PROVE  ResultInv'
    OBVIOUS
  <1>0. QueueTypeOK /\ QueueTypeOK'
    BY TypeStep DEF ResultInv
  <1>. USE DEF bounds
  <1>1. ASSUME NEW w \in Workers, Find(w) PROVE ResultInv'
    <2>. USE <1>1 DEF Find
    <2>1. \A k \in Keys : job[k].attempts \in Nat
      BY <1>0 DEF QueueTypeOK, Jobs
    <2>. QED  BY <1>0, <2>1, ResultKept
  <1>2. ASSUME NEW w \in Workers, Lock(w) PROVE ResultInv'
    <2>1. \A k \in Keys : job[k].attempts \in Nat
      BY <1>0 DEF QueueTypeOK, Jobs
    <2>2. \A k \in Keys : /\ job'[k].attempts >= job[k].attempts
                          /\ job'[k].status \in {"SUCCESS", "FAILED"} =>
                                job'[k].status = job[k].status
      BY <1>2, <2>1 DEF Lock
    <2>. QED  BY <1>0, <1>2, <2>2, ResultKept DEF Lock
  <1>3. ASSUME NEW w \in Workers, Load(w) PROVE ResultInv'
    <2>1. LoadedWasCounted'
      <3>1. \A k \in Keys : job[k].attempts \in Nat
        BY <1>0 DEF QueueTypeOK, Jobs
      <3>2. batch' = [batch EXCEPT ![w] =
                         {<<k, job[k].attempts>> : k \in {k \in Keys : job[k].owner = w}}]
        BY <1>3 DEF Load
      <3>3. ASSUME NEW v \in Workers, NEW e \in batch'[v]
            PROVE  e[1] \in retried \/ e[2] <= job[e[1]].attempts
        <4>1. CASE v = w
          <5>1. PICK k \in Keys : e = <<k, job[k].attempts>>
            BY <1>0, <3>2, <4>1 DEF QueueTypeOK
          <5>. QED  BY <3>1, <5>1
        <4>2. CASE v # w
          BY <1>0, <3>2, <4>2 DEF ResultInv, LoadedWasCounted, QueueTypeOK
        <4>. QED  BY <4>1, <4>2
      <3>. QED  BY <1>3, <3>3 DEF Load, ResultInv, LoadedWasCounted
    <2>. QED
      BY <1>0, <1>3, <2>1 DEF Load, ResultInv, OkWasAccepted, RetryIsKnown,
         FailedOnlyExhausted, SuccessWasAccepted
  <1>4. ASSUME NEW w \in Workers, Call(w) PROVE ResultInv'
    <2>1. PICK entry \in batch[w], o \in Outcomes :
             /\ batch' = [batch EXCEPT ![w] = @ \ {entry}]
             /\ current' = [current EXCEPT ![w] = {<<entry[1], entry[2], o>>}]
             /\ \/ entry[1][1] \in gone /\ accepted' = accepted
                \/ accepted' = IF o = "ok" THEN accepted \cup {entry[1]} ELSE accepted
      BY <1>4 DEF Call
    <2>2. /\ accepted \subseteq accepted'
          /\ o = "ok" => entry[1] \in accepted' \/ entry[1][1] \in gone
      BY <2>1
    <2>3. /\ \A v \in Workers : batch'[v] \subseteq batch[v]
          /\ \A v \in Workers : current'[v] = IF v = w THEN {<<entry[1], entry[2], o>>}
                                              ELSE current[v]
      BY <1>0, <2>1 DEF QueueTypeOK
    <2>4. UNCHANGED <<job, gone, retry, retried>>
      BY <1>4 DEF Call
    <2>5. LoadedWasCounted'
      BY <2>3, <2>4 DEF ResultInv, LoadedWasCounted
    <2>6. OkWasAccepted'
      BY <2>2, <2>3, <2>4 DEF ResultInv, OkWasAccepted
    <2>. QED
      BY <1>0, <2>2, <2>4, <2>5, <2>6 DEF ResultInv, RetryIsKnown,
         FailedOnlyExhausted, SuccessWasAccepted
  <1>5. ASSUME NEW w \in Workers, Save(w) PROVE ResultInv'
    <2>1. PICK c \in current[w] :
             job' = [job EXCEPT ![c[1]].status = Verdict(c[2], c[3]),
                                ![c[1]].owner = Nobody,
                                ![c[1]].stale = FALSE]
      BY <1>5 DEF Save
    <2>2. c[1] \in Keys /\ c[2] \in Nat /\ c[3] \in Outcomes
      BY <1>0, EntryType
    <2>3. /\ Verdict(c[2], c[3]) = "SUCCESS" => c[1] \in accepted \/ c[1][1] \in gone
          /\ Verdict(c[2], c[3]) = "FAILED" =>
                c[2] >= MaxAttempts /\ (c[1] \in retried \/ c[2] <= job[c[1]].attempts)
      BY <2>2, VerdictType DEF ResultInv, OkWasAccepted, LoadedWasCounted
    <2>4. /\ UNCHANGED <<batch, accepted, gone, retry, retried>>
          /\ \A v \in Workers : current'[v] \subseteq current[v]
      BY <1>0, <1>5 DEF Save, QueueTypeOK
    <2>5. \A k \in Keys : /\ job'[k].attempts = job[k].attempts
                          /\ job'[k].status = IF k = c[1] THEN Verdict(c[2], c[3])
                                              ELSE job[k].status
      BY <1>0, <2>1, <2>2 DEF QueueTypeOK, Jobs
    <2>6. FailedOnlyExhausted'
      <3>. SUFFICES ASSUME NEW k \in Keys \ retried, job'[k].status = "FAILED"
                    PROVE  job[k].attempts >= MaxAttempts
        BY <2>4, <2>5 DEF FailedOnlyExhausted
      <3>1. job[k].attempts \in Nat
        BY <1>0 DEF QueueTypeOK, Jobs
      <3>. QED  BY <2>2, <2>3, <2>5, <3>1 DEF ResultInv, FailedOnlyExhausted
    <2>7. SuccessWasAccepted'
      BY <2>3, <2>4, <2>5 DEF ResultInv, SuccessWasAccepted
    <2>8. LoadedWasCounted'
      <3>1. \A v \in Workers : /\ \A e \in batch[v] : e[1] \in Keys
                               /\ \A d \in current[v] : d[1] \in Keys
        BY <1>0, EntryType
      <3>. QED  BY <2>4, <2>5, <3>1 DEF ResultInv, LoadedWasCounted
    <2>. QED
      BY <1>0, <2>4, <2>6, <2>7, <2>8 DEF ResultInv, OkWasAccepted, RetryIsKnown
  <1>6. ASSUME NEW w \in Workers, Abort(w) PROVE ResultInv'
    <2>1. \A k \in Keys : /\ job'[k].attempts >= job[k].attempts
                          /\ job'[k].status = job[k].status
      <3>1. \A k \in Keys : job[k] \in Jobs
        BY <1>0 DEF QueueTypeOK
      <3>. QED  BY <1>6, <3>1 DEF Abort, Jobs
    <2>2. \A v \in Workers : batch'[v] \subseteq batch[v] /\ current'[v] \subseteq current[v]
      BY <1>0, <1>6 DEF Abort, QueueTypeOK
    <2>. QED  BY <1>0, <1>6, <2>1, <2>2, ResultKept DEF Abort
  <1>7. ASSUME NEW l \in Keys, LostLockGoesStale(l) \/ LiveLockGoesStale(l)
        PROVE  ResultInv'
    <2>1. job' = [job EXCEPT ![l].stale = TRUE]
      BY <1>7 DEF LostLockGoesStale, LiveLockGoesStale
    <2>2. \A k \in Keys : /\ job'[k].attempts >= job[k].attempts
                          /\ job'[k].status = job[k].status
      <3>1. \A k \in Keys : job[k] \in Jobs
        BY <1>0 DEF QueueTypeOK
      <3>. QED  BY <2>1, <3>1, <1>0 DEF Jobs, QueueTypeOK
    <2>3. UNCHANGED <<batch, current, accepted, gone, retry, retried>>
      BY <1>7 DEF LostLockGoesStale, LiveLockGoesStale, queueRest
    <2>. QED  BY <1>0, <2>2, <2>3, ResultKept
  <1>8. CASE Enqueue
    <2>1. \A k \in Keys : /\ job'[k].attempts >= job[k].attempts
                          /\ job'[k].status \in {"SUCCESS", "FAILED"} =>
                                job'[k].status = job[k].status
      <3>1. \A k \in Keys : job[k] \in Jobs
        BY <1>0 DEF QueueTypeOK
      <3>. QED  BY <1>8, <3>1 DEF Enqueue, Insert, Jobs
    <2>. QED  BY <1>0, <1>8, <2>1, ResultKept DEF Enqueue, queueRest
  <1>9. CASE AdminCall \/ (\E s \in Services : ServiceDeleted(s)) \/ UNCHANGED queueVars
    <2>1. /\ UNCHANGED <<job, batch, current, accepted, retry, retried>>
          /\ gone \subseteq gone'
      BY <1>9 DEF AdminCall, ServiceDeleted, queueVars, queueRest
    <2>2. \A k \in Keys : job[k].attempts \in Nat
      BY <1>0 DEF QueueTypeOK, Jobs
    <2>. QED  BY <1>0, <2>1, <2>2, ResultKept
  <1>10. ASSUME NEW l \in Keys, RetryRead(l) PROVE ResultInv'
    <2>1. /\ UNCHANGED <<job, batch, current, accepted, gone>>
          /\ retried' = retried \cup {l} /\ retry' = {<<l, job[l]>>}
      BY <1>10 DEF RetryRead
    <2>. QED
      BY <1>0, <2>1 DEF ResultInv, LoadedWasCounted, OkWasAccepted, RetryIsKnown,
         FailedOnlyExhausted, SuccessWasAccepted
  <1>11. CASE RetrySave
    <2>1. PICK r \in retry :
             job' = [job EXCEPT ![r[1]] =
                       [status |-> IF r[2].status = "QUEUED" THEN @.status ELSE "QUEUED",
                        attempts |-> IF r[2].attempts = 0 THEN @.attempts ELSE 0,
                        owner |-> IF r[2].status = "RUNNING" THEN Nobody ELSE @.owner,
                        stale |-> ~(r[2].status = "RUNNING") /\ @.stale]]
      BY <1>11 DEF RetrySave
    <2>2. r[1] \in Keys /\ r[1] \in retried
      BY <1>0 DEF QueueTypeOK, ResultInv, RetryIsKnown
    <2>3. /\ \A k \in Keys : k # r[1] => job'[k] = job[k]
          /\ job'[r[1]].status \in {job[r[1]].status, "QUEUED"}
      BY <1>0, <2>1, <2>2 DEF QueueTypeOK
    <2>4. UNCHANGED <<batch, current, accepted, gone, retried>> /\ retry' = {}
      BY <1>11 DEF RetrySave
    <2>5. \A v \in Workers : /\ \A e \in batch[v] : e[1] \in Keys
                             /\ \A d \in current[v] : d[1] \in Keys
      BY <1>0, EntryType
    <2>6. LoadedWasCounted'
      BY <2>2, <2>3, <2>4, <2>5 DEF ResultInv, LoadedWasCounted
    <2>7. FailedOnlyExhausted' /\ SuccessWasAccepted'
      BY <2>2, <2>3, <2>4 DEF ResultInv, FailedOnlyExhausted, SuccessWasAccepted
    <2>. QED
      BY <1>0, <2>4, <2>6, <2>7 DEF ResultInv, OkWasAccepted, RetryIsKnown
  <1>12. ASSUME NEW w \in Workers, SaveRejected(w) PROVE ResultInv'
    <2>1. PICK c \in current[w] : current' = [current EXCEPT ![w] = {<<c[1], c[2], "error">>}]
      BY <1>12 DEF SaveRejected
    <2>2. \A v \in Workers : current'[v] = IF v = w THEN {<<c[1], c[2], "error">>}
                                           ELSE current[v]
      BY <1>0, <2>1 DEF QueueTypeOK
    <2>3. UNCHANGED <<job, batch, accepted, gone, retry, retried>>
      BY <1>12 DEF SaveRejected
    <2>4. LoadedWasCounted'
      BY <2>2, <2>3 DEF ResultInv, LoadedWasCounted
    <2>5. OkWasAccepted'
      BY <2>2, <2>3 DEF ResultInv, OkWasAccepted
    <2>. QED
      BY <1>0, <2>3, <2>4, <2>5 DEF ResultInv, RetryIsKnown,
         FailedOnlyExhausted, SuccessWasAccepted
  <1>. QED
    BY <1>1, <1>2, <1>3, <1>4, <1>5, <1>6, <1>7, <1>8, <1>9, <1>10, <1>11, <1>12
    DEF QueueNext, QueueStep, WorkerStep, Environment

\* A job that no administrator retried is FAILED only after MaxAttempts locks,
\* whatever workers overlap, die or answer late, for any MaxAttempts.
THEOREM FailedOnlyWhenExhausted == QueueSpec => []FailedOnlyExhausted
  <1>1. ResultInv => FailedOnlyExhausted
    BY DEF ResultInv
  <1>. QED  BY ResultInit, ResultStep, <1>1, PTL DEF QueueSpec

\* A job is SUCCESS only if the provider accepted its action, or there was no
\* service left to act on: retries and takeovers included.
THEOREM SuccessOnlyIfAccepted == QueueSpec => []SuccessWasAccepted
  <1>1. ResultInv => SuccessWasAccepted
    BY DEF ResultInv
  <1>. QED  BY ResultInit, ResultStep, <1>1, PTL DEF QueueSpec

-----------------------------------------------------------------------------
(* Calls and attempts *)

\* Workers that are still to call the provider for a job they have locked.
ToCall(k) ==
    {w \in Workers : \/ wpc[w] = "locked" /\ job[k].owner = w
                     \/ \E e \in batch[w] : e[1] = k}

\* Where a worker keeps its jobs: each once, and none when it has ended.
BatchesKept ==
    \A w \in Workers :
        /\ wpc[w] \notin {"run", "save"} => batch[w] = {}
        /\ wpc[w] # "save" => current[w] = {}
        /\ \A e, f \in batch[w] : e[1] = f[1] => e = f
        /\ \A c, d \in current[w] : c = d

\* A lock carries the name of a worker only as long as that worker has the job.
OwnersAtWork ==
    \A k \in Keys, w \in Workers :
        job[k].owner = w => \/ wpc[w] = "locked"
                            \/ \E e \in batch[w] : e[1] = k
                            \/ \E c \in current[w] : c[1] = k

\* Calls made and calls to come are backed by attempts: CallsCounted alone is
\* not inductive, since a worker calls long after it has counted.
Backed(k) == IsFiniteSet(ToCall(k)) /\ calls[k] + Cardinality(ToCall(k)) <= job[k].attempts

CountInv ==
    /\ QueueTypeOK
    /\ BatchesKept
    /\ OwnersAtWork
    /\ \A k \in Keys \ retried : Backed(k)

LEMMA CountInit == QueueInit => CountInv
  <1>. SUFFICES ASSUME QueueInit PROVE CountInv
    OBVIOUS
  <1>1. ASSUME NEW k \in Keys PROVE Backed(k)
    <2>1. ToCall(k) = {}
      BY NobodyAssumption DEF QueueInit, ToCall
    <2>2. calls[k] = 0 /\ job[k].attempts = 0
      BY DEF QueueInit
    <2>. QED  BY <2>1, <2>2, FS_EmptySet DEF Backed
  <1>. QED  BY <1>1, TypeInit, NobodyAssumption DEF CountInv, QueueInit, BatchesKept, OwnersAtWork

\* With no more calls to come than before, and none made, attempts still do.
LEMMA BackedKept ==
    ASSUME NEW k \in Keys, QueueTypeOK, QueueTypeOK', Backed(k),
           ToCall(k)' \subseteq ToCall(k), calls'[k] = calls[k],
           job'[k].attempts >= job[k].attempts
    PROVE  Backed(k)'
  <1>1. IsFiniteSet(ToCall(k)') /\ Cardinality(ToCall(k)') <= Cardinality(ToCall(k))
    BY FS_Subset DEF Backed
  <1>2. /\ Cardinality(ToCall(k)) \in Nat /\ Cardinality(ToCall(k)') \in Nat
        /\ calls[k] \in Nat /\ job[k].attempts \in Nat /\ job'[k].attempts \in Nat
    BY <1>1, FS_CardinalityType DEF Backed, QueueTypeOK, Jobs
  <1>. QED  BY <1>1, <1>2 DEF Backed

\* Steps of which the workers' batches and calls notice nothing.
LEMMA CountKept ==
    ASSUME CountInv, QueueTypeOK',
           batch' = batch, current' = current, calls' = calls, retried \subseteq retried',
           \A w \in Workers : wpc'[w] = wpc[w] \/ (wpc[w] = "idle" /\ wpc'[w] = "found"),
           \A k \in Keys : job'[k].owner \in {job[k].owner, Nobody},
           \A k \in Keys \ retried' : job'[k].attempts >= job[k].attempts
    PROVE  CountInv'
  <1>1. BatchesKept'
    BY DEF CountInv, BatchesKept
  <1>2. OwnersAtWork'
    BY NobodyAssumption DEF CountInv, OwnersAtWork
  <1>3. ASSUME NEW k \in Keys \ retried' PROVE Backed(k)'
    <2>1. ToCall(k)' \subseteq ToCall(k)
      BY NobodyAssumption DEF ToCall
    <2>. QED  BY <2>1, BackedKept DEF CountInv
  <1>. QED  BY <1>1, <1>2, <1>3 DEF CountInv

\* A lock is one more call to come and one more attempt, for each job found.
LEMMA CountLock ==
    ASSUME CountInv, QueueTypeOK', NEW w \in Workers, Lock(w)
    PROVE  CountInv'
  <1>. USE DEF bounds
  <1>1. /\ UNCHANGED <<batch, current, calls, retried>>
        /\ wpc[w] = "found"
        /\ \A v \in Workers : wpc'[v] = IF v = w THEN "locked" ELSE wpc[v]
        /\ batch[w] = {} /\ current[w] = {}
    BY DEF Lock, CountInv, QueueTypeOK, BatchesKept
  <1>2. /\ \A k \in found[w] : k \in Keys => /\ job'[k].owner = w
                                             /\ job'[k].attempts = job[k].attempts + 1
        /\ \A k \in Keys \ found[w] : job'[k] = job[k]
    BY DEF Lock
  <1>3. BatchesKept'
    BY <1>1 DEF CountInv, BatchesKept
  <1>4. OwnersAtWork'
    BY <1>1, <1>2 DEF CountInv, OwnersAtWork
  <1>5. ASSUME NEW k \in Keys \ retried PROVE Backed(k)'
    <2>1. IsFiniteSet(ToCall(k)) /\ calls[k] + Cardinality(ToCall(k)) <= job[k].attempts
      BY DEF CountInv, Backed
    <2>2. CASE k \notin found[w]
      <3>1. job[k].owner # w
        BY <1>1 DEF CountInv, OwnersAtWork
      <3>2. ToCall(k)' \subseteq ToCall(k)
        BY <1>1, <1>2, <2>2, <3>1 DEF ToCall
      <3>3. job[k].attempts \in Nat
        BY DEF CountInv, QueueTypeOK, Jobs
      <3>. QED  BY <1>1, <1>2, <2>2, <3>2, <3>3, BackedKept DEF CountInv
    <2>3. CASE k \in found[w]
      <3>1. ToCall(k)' \subseteq ToCall(k) \cup {w}
        BY <1>1, <1>2, <2>3 DEF ToCall
      <3>2. w \notin ToCall(k)
        BY <1>1 DEF ToCall
      <3>3. /\ IsFiniteSet(ToCall(k) \cup {w})
            /\ Cardinality(ToCall(k) \cup {w}) = Cardinality(ToCall(k)) + 1
        BY <2>1, <3>2, FS_AddElement
      <3>4. /\ IsFiniteSet(ToCall(k)')
            /\ Cardinality(ToCall(k)') <= Cardinality(ToCall(k)) + 1
        BY <3>1, <3>3, FS_Subset
      <3>5. /\ Cardinality(ToCall(k)) \in Nat /\ Cardinality(ToCall(k)') \in Nat
            /\ calls[k] \in Nat /\ job[k].attempts \in Nat
        BY <2>1, <3>4, FS_CardinalityType DEF CountInv, QueueTypeOK, Jobs
      <3>6. job'[k].attempts = job[k].attempts + 1
        BY <1>2, <2>3
      <3>. QED  BY <1>1, <2>1, <3>4, <3>5, <3>6 DEF Backed
    <2>. QED  BY <2>2, <2>3
  <1>. QED  BY <1>1, <1>3, <1>4, <1>5 DEF CountInv

LEMMA CountLoad ==
    ASSUME CountInv, QueueTypeOK', NEW w \in Workers, Load(w)
    PROVE  CountInv'
  <1>. USE DEF bounds
  <1>. DEFINE mine == {k \in Keys : job[k].owner = w}
  <1>1. /\ UNCHANGED <<job, current, calls, retried>>
        /\ wpc[w] = "locked" /\ batch[w] = {} /\ current[w] = {}
        /\ \A v \in Workers : wpc'[v] = IF v = w THEN IF mine = {} THEN "idle" ELSE "run"
                                        ELSE wpc[v]
        /\ \A v \in Workers : batch'[v] = IF v = w THEN {<<k, job[k].attempts>> : k \in mine}
                                          ELSE batch[v]
    BY DEF Load, CountInv, QueueTypeOK, BatchesKept
  <1>2. BatchesKept'
    <2>1. ASSUME NEW e \in batch'[w] PROVE e = <<e[1], job[e[1]].attempts>>
      <3>1. PICK k \in mine : e = <<k, job[k].attempts>>
        BY <1>1
      <3>. QED  BY <3>1
    <2>2. mine = {} => batch'[w] = {}
      BY <1>1
    <2>. QED  BY <1>1, <2>1, <2>2 DEF CountInv, BatchesKept
  <1>3. OwnersAtWork'
    <2>. SUFFICES ASSUME NEW k \in Keys, NEW v \in Workers, job[k].owner = v
                  PROVE  \/ wpc'[v] = "locked"
                         \/ \E e \in batch'[v] : e[1] = k
                         \/ \E c \in current[v] : c[1] = k
      BY <1>1 DEF OwnersAtWork
    <2>1. CASE v = w
      <3>1. <<k, job[k].attempts>> \in batch'[w]
        BY <1>1, <2>1
      <3>. QED  BY <2>1, <3>1
    <2>2. CASE v # w
      <3>1. wpc'[v] = wpc[v] /\ batch'[v] = batch[v]
        BY <1>1, <2>2
      <3>. QED  BY <3>1 DEF CountInv, OwnersAtWork
    <2>. QED  BY <2>1, <2>2
  <1>4. ASSUME NEW k \in Keys \ retried PROVE Backed(k)'
    <2>1. ToCall(k)' \subseteq ToCall(k)
      <3>. SUFFICES ASSUME NEW v \in ToCall(k)' PROVE v \in ToCall(k)
        OBVIOUS
      <3>1. CASE v = w
        <4>1. PICK e \in batch'[w] : e[1] = k
          BY <1>1, <3>1 DEF ToCall
        <4>. DEFINE loaded == {<<l, job[l].attempts>> : l \in mine}
        <4>a. batch'[w] = loaded
          BY <1>1
        <4>2. PICK l \in mine : e = <<l, job[l].attempts>>
          BY <4>a, <4>1
        <4>. QED  BY <1>1, <3>1, <4>1, <4>2 DEF ToCall
      <3>2. CASE v # w
        BY <1>1, <3>2 DEF ToCall
      <3>. QED  BY <3>1, <3>2
    <2>2. job[k].attempts \in Nat
      BY DEF CountInv, QueueTypeOK, Jobs
    <2>. QED  BY <1>1, <2>1, <2>2, BackedKept DEF CountInv
  <1>. QED  BY <1>1, <1>2, <1>3, <1>4 DEF CountInv

\* The call made was one of those to come.
LEMMA CountCall ==
    ASSUME CountInv, QueueTypeOK', NEW w \in Workers, Call(w)
    PROVE  CountInv'
  <1>. USE DEF bounds
  <1>1. PICK entry \in batch[w], o \in Outcomes :
           /\ batch' = [batch EXCEPT ![w] = @ \ {entry}]
           /\ current' = [current EXCEPT ![w] = {<<entry[1], entry[2], o>>}]
           /\ calls' = calls \/ calls' = [calls EXCEPT ![entry[1]] = @ + 1]
    BY DEF Call
  <1>2. /\ UNCHANGED <<job, retried>>
        /\ wpc[w] = "run"
        /\ \A v \in Workers : wpc'[v] = IF v = w THEN "save" ELSE wpc[v]
        /\ \A v \in Workers : batch'[v] = IF v = w THEN batch[w] \ {entry} ELSE batch[v]
        /\ \A v \in Workers : current'[v] = IF v = w THEN {<<entry[1], entry[2], o>>}
                                            ELSE current[v]
    BY <1>1 DEF Call, CountInv, QueueTypeOK
  <1>3. entry[1] \in Keys
    BY EntryType DEF CountInv
  <1>4. BatchesKept'
    BY <1>2 DEF CountInv, BatchesKept
  <1>5. OwnersAtWork'
    <2>. SUFFICES ASSUME NEW k \in Keys, NEW v \in Workers, job[k].owner = v
                  PROVE  \/ wpc'[v] = "locked"
                         \/ \E e \in batch'[v] : e[1] = k
                         \/ \E c \in current'[v] : c[1] = k
      BY <1>2 DEF OwnersAtWork
    <2>1. CASE v = w
      <3>1. current[w] = {}
        BY <1>2 DEF CountInv, BatchesKept
      <3>2. PICK e \in batch[w] : e[1] = k
        BY <1>2, <2>1, <3>1 DEF CountInv, OwnersAtWork
      <3>3. CASE e = entry
        <4>1. <<k, entry[2], o>> \in current'[w]
          BY <1>2, <3>2, <3>3
        <4>. QED  BY <2>1, <4>1
      <3>. QED  BY <1>2, <2>1, <3>2, <3>3
    <2>2. CASE v # w
      BY <1>2, <2>2 DEF CountInv, OwnersAtWork
    <2>. QED  BY <2>1, <2>2
  <1>6. ASSUME NEW k \in Keys \ retried PROVE Backed(k)'
    <2>1. IsFiniteSet(ToCall(k)) /\ calls[k] + Cardinality(ToCall(k)) <= job[k].attempts
      BY DEF CountInv, Backed
    <2>2. job[k].attempts \in Nat /\ calls[k] \in Nat /\ calls'[k] \in Nat
      BY DEF CountInv, QueueTypeOK, Jobs
    <2>3. ToCall(k)' \subseteq ToCall(k)
      BY <1>2 DEF ToCall
    <2>4. CASE k # entry[1]
      <3>1. calls'[k] = calls[k]
        BY <1>1, <2>4 DEF CountInv, QueueTypeOK
      <3>. QED  BY <1>2, <2>2, <2>3, <3>1, BackedKept DEF CountInv
    <2>5. CASE k = entry[1]
      <3>1. calls'[k] <= calls[k] + 1
        BY <1>1, <1>3, <2>2, <2>5 DEF CountInv, QueueTypeOK
      <3>2. w \in ToCall(k) /\ w \notin ToCall(k)'
        BY <1>2, <2>5 DEF CountInv, BatchesKept, ToCall
      <3>3. /\ IsFiniteSet(ToCall(k) \ {w})
            /\ Cardinality(ToCall(k) \ {w}) = Cardinality(ToCall(k)) - 1
        BY <2>1, <3>2, FS_RemoveElement
      <3>4. ToCall(k)' \subseteq ToCall(k) \ {w}
        BY <2>3, <3>2
      <3>5. /\ IsFiniteSet(ToCall(k)')
            /\ Cardinality(ToCall(k)') <= Cardinality(ToCall(k)) - 1
        BY <3>3, <3>4, FS_Subset
      <3>6. Cardinality(ToCall(k)) \in Nat /\ Cardinality(ToCall(k)') \in Nat
        BY <2>1, <3>5, FS_CardinalityType
      <3>. QED  BY <1>2, <2>1, <2>2, <3>1, <3>5, <3>6 DEF Backed
    <2>. QED  BY <2>4, <2>5
  <1>. QED  BY <1>2, <1>4, <1>5, <1>6 DEF CountInv

LEMMA CountSave ==
    ASSUME CountInv, QueueTypeOK', NEW w \in Workers, Save(w)
    PROVE  CountInv'
  <1>. USE DEF bounds
  <1>1. PICK c \in current[w] :
           job' = [job EXCEPT ![c[1]].status = Verdict(c[2], c[3]),
                              ![c[1]].owner = Nobody,
                              ![c[1]].stale = FALSE]
    BY DEF Save
  <1>2. /\ UNCHANGED <<batch, calls, retried>>
        /\ wpc[w] = "save"
        /\ \A v \in Workers : wpc'[v] = IF v = w THEN IF batch[w] = {} THEN "idle" ELSE "run"
                                        ELSE wpc[v]
        /\ \A v \in Workers : current'[v] = IF v = w THEN {} ELSE current[v]
    BY DEF Save, CountInv, QueueTypeOK
  <1>3. \A k \in Keys : /\ job'[k].attempts = job[k].attempts
                        /\ job'[k].owner = IF k = c[1] THEN Nobody ELSE job[k].owner
    BY <1>1 DEF CountInv, QueueTypeOK, Jobs
  <1>4. BatchesKept'
    BY <1>2 DEF CountInv, BatchesKept
  <1>5. OwnersAtWork'
    <2>. SUFFICES ASSUME NEW k \in Keys, NEW v \in Workers, job'[k].owner = v
                  PROVE  \/ wpc'[v] = "locked"
                         \/ \E e \in batch[v] : e[1] = k
                         \/ \E d \in current'[v] : d[1] = k
      BY <1>2 DEF OwnersAtWork
    <2>1. k # c[1] /\ job[k].owner = v
      BY <1>3, NobodyAssumption
    <2>2. \A d \in current[w] : d = c
      BY DEF CountInv, BatchesKept
    <2>. QED  BY <1>2, <2>1, <2>2 DEF CountInv, OwnersAtWork
  <1>6. ASSUME NEW k \in Keys \ retried PROVE Backed(k)'
    <2>1. ToCall(k)' \subseteq ToCall(k)
      BY <1>2, <1>3, NobodyAssumption DEF ToCall
    <2>2. job[k].attempts \in Nat
      BY DEF CountInv, QueueTypeOK, Jobs
    <2>. QED  BY <1>2, <1>3, <2>1, <2>2, BackedKept DEF CountInv
  <1>. QED  BY <1>2, <1>4, <1>5, <1>6 DEF CountInv

LEMMA CountAbort ==
    ASSUME CountInv, QueueTypeOK', NEW w \in Workers, Abort(w)
    PROVE  CountInv'
  <1>1. /\ UNCHANGED <<calls, retried>>
        /\ \A v \in Workers : /\ wpc'[v] = IF v = w THEN "idle" ELSE wpc[v]
                              /\ batch'[v] = IF v = w THEN {} ELSE batch[v]
                              /\ current'[v] = IF v = w THEN {} ELSE current[v]
    BY DEF Abort, CountInv, QueueTypeOK
  <1>2. \A k \in Keys : /\ job'[k].attempts = job[k].attempts
                        /\ job'[k].owner = IF job[k].owner = w THEN Nobody ELSE job[k].owner
    <2>1. \A k \in Keys : job[k] \in Jobs
      BY DEF CountInv, QueueTypeOK
    <2>. QED  BY <2>1 DEF Abort, Jobs
  <1>3. BatchesKept'
    BY <1>1 DEF CountInv, BatchesKept
  <1>4. OwnersAtWork'
    BY <1>1, <1>2, NobodyAssumption DEF CountInv, OwnersAtWork
  <1>5. ASSUME NEW k \in Keys \ retried PROVE Backed(k)'
    <2>1. ToCall(k)' \subseteq ToCall(k)
      BY <1>1, <1>2, NobodyAssumption DEF ToCall
    <2>2. job[k].attempts \in Nat
      BY DEF CountInv, QueueTypeOK, Jobs
    <2>. QED  BY <1>1, <1>2, <2>1, <2>2, BackedKept DEF CountInv
  <1>. QED  BY <1>1, <1>3, <1>4, <1>5 DEF CountInv

LEMMA CountRejected ==
    ASSUME CountInv, QueueTypeOK', NEW w \in Workers, SaveRejected(w)
    PROVE  CountInv'
  <1>1. PICK c \in current[w] : current' = [current EXCEPT ![w] = {<<c[1], c[2], "error">>}]
    BY DEF SaveRejected
  <1>2. /\ UNCHANGED <<job, wpc, batch, calls, retried>>
        /\ wpc[w] = "save"
        /\ \A v \in Workers : current'[v] = IF v = w THEN {<<c[1], c[2], "error">>}
                                            ELSE current[v]
    BY <1>1 DEF SaveRejected, CountInv, QueueTypeOK
  <1>3. BatchesKept'
    BY <1>2 DEF CountInv, BatchesKept
  <1>4. OwnersAtWork'
    <2>1. ASSUME NEW k \in Keys, NEW d \in current[w], d[1] = k
          PROVE  \E e \in current'[w] : e[1] = k
      <3>1. d = c /\ <<c[1], c[2], "error">> \in current'[w]
        BY <1>2 DEF CountInv, BatchesKept
      <3>. QED  BY <2>1, <3>1
    <2>. QED  BY <1>2, <2>1 DEF CountInv, OwnersAtWork
  <1>5. ASSUME NEW k \in Keys \ retried PROVE Backed(k)'
    BY <1>2 DEF CountInv, Backed, ToCall
  <1>. QED  BY <1>2, <1>3, <1>4, <1>5 DEF CountInv

\* A retry that is read is on record, by ResultInv, when it is saved.
LEMMA CountStep == ResultInv /\ CountInv /\ [QueueNext]_queueVars => CountInv'
  <1>. SUFFICES ASSUME ResultInv, CountInv, [QueueNext]_queueVars
                PROVE  CountInv'
    OBVIOUS
  <1>0. QueueTypeOK /\ QueueTypeOK'
    BY TypeStep DEF CountInv
  <1>. USE DEF bounds
  <1>1. \A k \in Keys : job[k] \in Jobs /\ job[k].attempts \in Nat
    BY <1>0 DEF QueueTypeOK, Jobs
  <1>2. ASSUME NEW w \in Workers, WorkerStep(w) \/ SaveRejected(w) \/ Abort(w) PROVE CountInv'
    <2>1. CASE Find(w)
      <3>1. \A v \in Workers : wpc'[v] = wpc[v] \/ (wpc[v] = "idle" /\ wpc'[v] = "found")
        BY <1>0, <2>1 DEF Find, QueueTypeOK
      <3>. QED  BY <1>0, <1>1, <2>1, <3>1, CountKept DEF Find
    <2>. QED
      BY <1>0, <1>2, <2>1, CountLock, CountLoad, CountCall, CountSave, CountAbort, CountRejected
      DEF WorkerStep
  <1>3. ASSUME NEW l \in Keys, LostLockGoesStale(l) \/ LiveLockGoesStale(l) PROVE CountInv'
    <2>1. job' = [job EXCEPT ![l].stale = TRUE]
      BY <1>3 DEF LostLockGoesStale, LiveLockGoesStale
    <2>2. \A k \in Keys : job'[k].attempts = job[k].attempts /\ job'[k].owner = job[k].owner
      BY <1>0, <1>1, <2>1 DEF QueueTypeOK, Jobs
    <2>3. UNCHANGED <<wpc, batch, current, calls, retried>>
      BY <1>3 DEF LostLockGoesStale, LiveLockGoesStale, queueRest
    <2>. QED  BY <1>0, <1>1, <2>2, <2>3, CountKept
  <1>4. CASE Enqueue
    <2>1. \A k \in Keys : job'[k].attempts = job[k].attempts /\ job'[k].owner = job[k].owner
      BY <1>1, <1>4 DEF Enqueue, Insert, Jobs
    <2>. QED  BY <1>0, <1>1, <1>4, <2>1, CountKept DEF Enqueue, queueRest
  <1>5. CASE AdminCall \/ (\E s \in Services : ServiceDeleted(s)) \/ UNCHANGED queueVars
    <2>1. UNCHANGED <<job, wpc, batch, current, calls, retried>>
      BY <1>5 DEF AdminCall, ServiceDeleted, queueVars, queueRest
    <2>. QED  BY <1>0, <1>1, <2>1, CountKept
  <1>6. ASSUME NEW l \in Keys, RetryRead(l) PROVE CountInv'
    BY <1>0, <1>1, <1>6, CountKept DEF RetryRead
  <1>7. CASE RetrySave
    <2>1. PICK r \in retry :
             job' = [job EXCEPT ![r[1]] =
                       [status |-> IF r[2].status = "QUEUED" THEN @.status ELSE "QUEUED",
                        attempts |-> IF r[2].attempts = 0 THEN @.attempts ELSE 0,
                        owner |-> IF r[2].status = "RUNNING" THEN Nobody ELSE @.owner,
                        stale |-> ~(r[2].status = "RUNNING") /\ @.stale]]
      BY <1>7 DEF RetrySave
    <2>2. r[1] \in Keys /\ r[1] \in retried
      BY <1>0 DEF QueueTypeOK, ResultInv, RetryIsKnown
    <2>3. /\ \A k \in Keys : job'[k].owner \in {job[k].owner, Nobody}
          /\ \A k \in Keys : k # r[1] => job'[k] = job[k]
      BY <1>0, <2>1, <2>2 DEF QueueTypeOK
    <2>4. UNCHANGED <<wpc, batch, current, calls, retried>>
      BY <1>7 DEF RetrySave
    <2>. QED  BY <1>0, <1>1, <2>2, <2>3, <2>4, CountKept
  <1>. QED
    BY <1>2, <1>3, <1>4, <1>5, <1>6, <1>7 DEF QueueNext, QueueStep, Environment

\* What the collection says of a job can be relied on, for any number of workers
\* and any of their orders: FAILED, SUCCESS and the number of attempts.
THEOREM ResultsAreJustified == QueueSpec => []ResultsJustified
  <1>1. ResultInv /\ CountInv => ResultsJustified
    <2>. SUFFICES ASSUME ResultInv, CountInv, NEW k \in Keys \ retried
                  PROVE  calls[k] <= job[k].attempts
      BY DEF ResultsJustified, CallsCounted, ResultInv
    <2>1. IsFiniteSet(ToCall(k)) /\ calls[k] + Cardinality(ToCall(k)) <= job[k].attempts
      BY DEF CountInv, Backed
    <2>2. Cardinality(ToCall(k)) \in Nat /\ calls[k] \in Nat /\ job[k].attempts \in Nat
      BY <2>1, FS_CardinalityType DEF CountInv, QueueTypeOK, Jobs
    <2>. QED  BY <2>1, <2>2
  <1>. QED  BY ResultInit, ResultStep, CountInit, CountStep, <1>1, PTL DEF QueueSpec

-----------------------------------------------------------------------------
(* ServiceLifecycle *)

USE LinkedAssumption, MaxFaultsAssumption

-----------------------------------------------------------------------------
(* The lifecycle as an environment of the queue *)

\* However many of the inserts fail, jobs are only inserted, and only those asked for.
LEMMA QueueInserts ==
    ASSUME NEW ks, Queue(ks)
    PROVE  \E some \in SUBSET ks : Insert(some)
  BY DEF Queue

LEMMA InsertIsEnqueue ==
    ASSUME NEW ks, Insert(ks), UNCHANGED queueRest
    PROVE  Enqueue
  <1>1. Insert(ks \cap Keys)
    BY DEF Insert
  <1>2. ks \cap Keys \in SUBSET Keys
    OBVIOUS
  <1>. QED  BY <1>1, <1>2 DEF Enqueue

LEMMA QueueIsEnqueue ==
    ASSUME NEW ks, Queue(ks), UNCHANGED queueRest
    PROVE  Enqueue
  BY QueueInserts, InsertIsEnqueue

LEMMA WhmCallIsAdminCall ==
    ASSUME QueueTypeOK, NEW s \in Services, NEW a \in AdminActions, AdminCallWhm(s, a)
    PROVE  AdminCall
  <1>1. /\ a \in Actions /\ remote[s] # "destroyed"
        /\ remote' = [remote EXCEPT ![s] = Effect(a)]
    BY DEF AdminCallWhm
  <1>2. Effect(a) \in RemoteStates
    BY <1>1 DEF Effect, Actions, RemoteStates
  <1>3. remote \in [Services -> RemoteStates]
    BY DEF QueueTypeOK
  <1>4. remote' \in [Services -> RemoteStates]
    BY <1>1, <1>2, <1>3
  <1>5. \A t \in Services : remote[t] = "destroyed" => remote'[t] = "destroyed"
    BY <1>1, <1>3
  <1>. QED  BY <1>4, <1>5 DEF AdminCallWhm, AdminCall

\* Every step of a cron, a payment handler or an administrator is an insertion
\* of jobs, a WHM call of the administrator, or nothing to the queue.
LEMMA QueueMapStep == QueueTypeOK /\ [Next]_vars => [QueueNext]_queueVars
  <1>. SUFFICES ASSUME QueueTypeOK, [Next]_vars
                PROVE  [QueueNext]_queueVars
    OBVIOUS
  <1>. USE DEF QueueNext, Environment
  <1>1. CASE QueueStep
    BY <1>1
  <1>2. CASE Sweep
    <2>1. CASE SweepQueue
      BY <2>1, QueueIsEnqueue DEF SweepQueue
    <2>2. CASE SweepDateQueue
      BY <2>2, QueueIsEnqueue DEF SweepDateQueue
    <2>. QED
      BY <1>2, <2>1, <2>2 DEF Sweep, SweepStart, SweepDates, SweepSuspend, SweepDateSave
  <1>3. CASE Reaper
    <2>1. CASE ReaperQueue
      BY <2>1, QueueIsEnqueue DEF ReaperQueue
    <2>. QED  BY <1>3, <2>1 DEF Reaper, ReaperStart, ReaperSave
  <1>4. ASSUME NEW i \in Invoices, Restore(i) PROVE [QueueNext]_queueVars
    <2>1. CASE RestoreQueue(i)
      BY <2>1, QueueIsEnqueue DEF RestoreQueue
    <2>. QED  BY <1>4, <2>1 DEF Restore, RestoreRead, RestoreSave
  <1>5. ASSUME NEW s \in Services, NEW a \in AdminActions, AdminCallWhm(s, a)
        PROVE  [QueueNext]_queueVars
    BY <1>5, WhmCallIsAdminCall
  <1>6. CASE SweepAbort \/ ReaperAbort \/ AdminSave \/ AdminAbort
    BY <1>6 DEF SweepAbort, ReaperAbort, AdminSave, AdminAbort
  <1>7. ASSUME NEW i \in Invoices, DueDatePasses(i) \/ InvoicePaid(i) \/ RestoreAbort(i)
        PROVE  [QueueNext]_queueVars
    BY <1>7 DEF DueDatePasses, InvoicePaid, RestoreAbort
  <1>8. ASSUME NEW s \in Services, SuspensionRipens(s) \/ DatesPass(s) \/ AdminSetDates(s)
        PROVE  [QueueNext]_queueVars
    BY <1>8 DEF SuspensionRipens, DatesPass, AdminSetDates
  <1>9. CASE UNCHANGED vars
    BY <1>9 DEF vars
  <1>. QED
    BY <1>1, <1>2, <1>3, <1>4, <1>5, <1>6, <1>7, <1>8, <1>9 DEF Next, SystemNext

\* The crons, payment handlers and administrators, composed with the workers,
\* implement the queue: jobs are only inserted by them, and an account that is
\* destroyed stays destroyed (service-renewal.scheduler.ts:234, :300).
THEOREM LifecycleImplementsQueue == Spec => QueueRefinement
  <1>1. Init => QueueInit
    BY DEF Init
  <1>. QED
    BY <1>1, TypeInit, TypeStep, QueueMapStep, PTL DEF Spec, QueueSpec, QueueRefinement

\* What is proved of the queue alone holds in the composition: a job's
\* attempts, its FAILED and its SUCCESS can be relied on.
THEOREM ResultsJustifiedInLifecycle == Spec => []ResultsJustified
  BY LifecycleImplementsQueue, ResultsAreJustified, PTL DEF QueueRefinement

-----------------------------------------------------------------------------
(* Type correctness *)

\* What an administrator has under way is a provider action.
AdminActs == admin \subseteq Services \X Actions

TypeInv == LifecycleTypeOK /\ AdminActs

LEMMA LifecycleTypeInit == Init => TypeInv
  BY TypeInit, DatesAssumption
  DEF Init, TypeInv, LifecycleTypeOK, AdminActs, ServiceStatus, Schedules

LEMMA QueueFaults ==
    ASSUME NEW ks, Queue(ks), faults \in Nat
    PROVE  faults' \in Nat
  BY DEF Queue

LEMMA LifecycleTypeStep == TypeInv /\ [Next]_vars => TypeInv'
  <1>. SUFFICES ASSUME TypeInv, [Next]_vars
                PROVE  TypeInv'
    OBVIOUS
  <1>0. QueueTypeOK /\ QueueTypeOK'
    BY QueueMapStep, TypeStep DEF TypeInv, LifecycleTypeOK
  <1>. USE DEF TypeInv, LifecycleTypeOK, AdminActs, ServiceStatus
  <1>1. CASE QueueStep /\ UNCHANGED lifecycleVars
    BY <1>0, <1>1 DEF lifecycleVars
  <1>2. CASE Sweep
    <2>1. CASE SweepStart
      BY <1>0, <2>1 DEF SweepStart
    <2>2. CASE SweepQueue
      <3>1. faults' \in Nat
        BY <2>2, QueueFaults DEF SweepQueue
      <3>2. sweep'.todo \subseteq sweep.todo /\ sweep' = [pc |-> "invoices", todo |-> sweep'.todo, at |-> {}]
        BY <2>2 DEF SweepQueue
      <3>. QED  BY <1>0, <2>2, <3>1, <3>2 DEF SweepQueue
    <2>3. CASE SweepDates
      BY <1>0, <2>3 DEF SweepDates
    <2>4. CASE SweepDateQueue
      <3>1. faults' \in Nat
        BY <2>4, QueueFaults DEF SweepDateQueue
      <3>2. /\ sweep'.todo \subseteq sweep.todo
            /\ sweep'.pc \in {"idle", "dates"}
            /\ sweep' = [pc |-> sweep'.pc, todo |-> sweep'.todo, at |-> {}]
        BY <2>4 DEF SweepDateQueue
      <3>. QED  BY <1>0, <2>4, <3>1, <3>2 DEF SweepDateQueue
    <2>5. ASSUME NEW i \in Invoices, SweepSuspend(i) PROVE TypeInv'
      BY <1>0, <2>5 DEF SweepSuspend
    <2>6. ASSUME NEW s \in Services, SweepDateSave(s) PROVE TypeInv'
      BY <1>0, <2>6 DEF SweepDateSave
    <2>. QED  BY <1>2, <2>1, <2>2, <2>3, <2>4, <2>5, <2>6 DEF Sweep
  <1>3. CASE Reaper
    <2>1. CASE ReaperStart
      BY <1>0, <2>1 DEF ReaperStart
    <2>2. CASE ReaperQueue
      <3>1. faults' \in Nat
        BY <2>2, QueueFaults DEF ReaperQueue
      <3>2. /\ reaper'.todo \subseteq reaper.todo
            /\ reaper'.pc \in {"idle", "save"}
            /\ reaper' = [pc |-> reaper'.pc, todo |-> reaper'.todo, at |-> {}]
        BY <2>2 DEF ReaperQueue
      <3>. QED  BY <1>0, <2>2, <3>1, <3>2 DEF ReaperQueue
    <2>3. ASSUME NEW s \in Services, ReaperSave(s) PROVE TypeInv'
      BY <1>0, <2>3 DEF ReaperSave
    <2>. QED  BY <1>3, <2>1, <2>2, <2>3 DEF Reaper
  <1>4. ASSUME NEW i \in Invoices, Restore(i) PROVE TypeInv'
    <2>1. CASE RestoreRead(i)
      BY <1>0, <2>1 DEF RestoreRead
    <2>2. CASE RestoreQueue(i)
      <3>1. faults' \in Nat
        BY <2>2, QueueFaults DEF RestoreQueue
      <3>2. PICK s \in restore[i].at :
               restore' = [restore EXCEPT
                   ![i] = [pc |-> IF restore[i].todo \ {s} = {} THEN "done" ELSE "save",
                           todo |-> restore[i].todo \ {s}, at |-> {}]]
        BY <2>2 DEF RestoreQueue
      <3>3. restore' \in [Invoices -> [pc : {"none", "read", "save", "queue", "done"},
                                       todo : SUBSET Services, at : SUBSET Services]]
        BY <3>2
      <3>. QED  BY <1>0, <2>2, <3>1, <3>3 DEF RestoreQueue
    <2>3. ASSUME NEW s \in Services, RestoreSave(i, s) PROVE TypeInv'
      BY <1>0, <2>3 DEF RestoreSave
    <2>. QED  BY <1>4, <2>1, <2>2, <2>3 DEF Restore
  <1>5. CASE SweepAbort \/ ReaperAbort \/ AdminAbort
    BY <1>0, <1>5 DEF SweepAbort, ReaperAbort, AdminAbort
  <1>6. CASE AdminSave
    <2>1. PICK op \in admin :
             /\ status' = [status EXCEPT ![op[1]] = StatusAfter(op[2])]
             /\ ripe' = [ripe EXCEPT ![op[1]] = @ /\ op[2] = "TERMINATE"]
      BY <1>6 DEF AdminSave
    <2>2. StatusAfter(op[2]) \in ServiceStatus
      BY DEF StatusAfter, Actions
    <2>. QED  BY <1>0, <1>6, <2>1, <2>2 DEF AdminSave
  <1>7. ASSUME NEW i \in Invoices, DueDatePasses(i) \/ InvoicePaid(i) \/ RestoreAbort(i)
        PROVE  TypeInv'
    <2>1. CASE DueDatePasses(i)
      BY <1>0, <2>1 DEF DueDatePasses
    <2>2. CASE InvoicePaid(i)
      BY <1>0, <2>2 DEF InvoicePaid
    <2>3. CASE RestoreAbort(i)
      <3>1. restore' = [restore EXCEPT ![i] = [pc |-> "done", todo |-> {}, at |-> {}]]
        BY <2>3 DEF RestoreAbort
      <3>2. restore' \in [Invoices -> [pc : {"none", "read", "save", "queue", "done"},
                                       todo : SUBSET Services, at : SUBSET Services]]
        BY <3>1
      <3>. QED  BY <1>0, <2>3, <3>2 DEF RestoreAbort
    <2>. QED  BY <1>7, <2>1, <2>2, <2>3
  <1>8. ASSUME NEW s \in Services, SuspensionRipens(s) \/ DatesPass(s) \/ AdminSetDates(s)
        PROVE  TypeInv'
    <2>1. CASE SuspensionRipens(s)
      BY <1>0, <2>1 DEF SuspensionRipens
    <2>2. CASE DatesPass(s)
      <3>1. schedule' \in [Services -> Schedules]
        BY <2>2 DEF DatesPass
      <3>. QED  BY <1>0, <2>2, <3>1 DEF DatesPass
    <2>3. CASE AdminSetDates(s)
      <3>1. schedule' \in [Services -> Schedules]
        BY <2>3 DEF AdminSetDates
      <3>. QED  BY <1>0, <2>3, <3>1 DEF AdminSetDates
    <2>. QED  BY <1>8, <2>1, <2>2, <2>3
  <1>9. ASSUME NEW s \in Services, NEW a \in AdminActions, AdminCallWhm(s, a)
        PROVE  TypeInv'
    BY <1>0, <1>9 DEF AdminCallWhm
  <1>10. CASE UNCHANGED vars
    BY <1>0, <1>10 DEF vars, lifecycleVars
  <1>. QED
    BY <1>1, <1>2, <1>3, <1>4, <1>5, <1>6, <1>7, <1>8, <1>9, <1>10 DEF Next, SystemNext

\* Every variable keeps its type: no service gets a status the schema does not
\* have, whoever writes it, and the queue's documents stay what they are.
THEOREM LifecycleTypeCorrect == Spec => []LifecycleTypeOK
  <1>1. TypeInv => LifecycleTypeOK
    BY DEF TypeInv
  <1>. QED  BY <1>1, LifecycleTypeInit, LifecycleTypeStep, PTL DEF Spec

-----------------------------------------------------------------------------
(* Decisions *)

\* Whatever a worker found, holds or has called the provider about is a job.
JobsExist ==
    \A w \in Workers :
        /\ \A k \in Keys : job[k].owner = w => job[k].status # "absent"
        /\ \A k \in found[w] : job[k].status # "absent"
        /\ \A e \in batch[w] : job[e[1]].status # "absent"
        /\ \A c \in current[w] : job[c[1]].status # "absent"

\* A termination is queued only for a service somebody decided to terminate.
TerminationsDecided ==
    \A k \in Keys : k[2] = "TERMINATE" /\ job[k].status # "absent" => k[1] \in decided

\* The termination cron decides before it queues.
ReaperDecided == reaper.at \subseteq decided

\* Invoices the enforcement cron read are past their grace period, for good.
SweepOverdue ==
    sweep.pc \in {"invoices", "queue"} =>
        \A i \in sweep.todo \cup sweep.at : i \in Invoices /\ pastGrace[i]

\* The handler of an invoice runs once it is paid, on the services it names.
RestorePaid ==
    \A i \in Invoices :
        /\ restore[i].pc # "none" => paid[i]
        /\ restore[i].todo \cup restore[i].at \subseteq Linked[i]

\* The inductive invariant: what each cron, handler and worker carries along
\* from an earlier read is tied to the decision it was read from.
DecisionInv ==
    /\ TypeInv
    /\ JobsExist
    /\ TerminationsDecided
    /\ DestroyedOnlyDecided
    /\ ReaperDecided
    /\ JobsJustified
    /\ SweepOverdue
    /\ RestorePaid

LEMMA DecisionInit == Init => DecisionInv
  <1>. SUFFICES ASSUME Init
                PROVE  DecisionInv
    OBVIOUS
  <1>1. \A k \in Keys : job[k].status = "absent" /\ job[k].owner = Nobody
    BY DEF Init, QueueInit
  <1>2. JobsExist
    BY <1>1, NobodyAssumption DEF Init, QueueInit, JobsExist
  <1>3. JobsJustified
    BY <1>1 DEF JobsJustified, Keys, Actions
  <1>4. TerminationsDecided
    BY <1>1 DEF TerminationsDecided
  <1>5. DestroyedOnlyDecided
    BY DEF Init, QueueInit, DestroyedOnlyDecided
  <1>6. ReaperDecided /\ SweepOverdue /\ RestorePaid
    BY DEF Init, ReaperDecided, SweepOverdue, RestorePaid
  <1>. QED  BY <1>2, <1>3, <1>4, <1>5, <1>6, LifecycleTypeInit DEF DecisionInv

\* A key is a triple.
LEMMA KeyType ==
    ASSUME NEW k \in Keys
    PROVE  /\ k = <<k[1], k[2], k[3]>>
           /\ k[1] \in Services /\ k[2] \in Actions /\ k[3] \in Invoices \cup {NoInvoice}
  BY DEF Keys

\* The workers create no job and delete none, and they destroy an account only
\* for a job that says so.
LEMMA WorkersStep ==
    ASSUME QueueTypeOK, JobsExist, QueueStep
    PROVE  /\ JobsExist'
           /\ \A k \in Keys : job'[k].status = "absent" <=> job[k].status = "absent"
           /\ \A s \in Services :
                 remote'[s] = "destroyed" /\ remote[s] # "destroyed" =>
                    \E k \in Keys : /\ k[1] = s /\ k[2] = "TERMINATE"
                                    /\ job[k].status # "absent"
  <1>. DEFINE Same == \A k \in Keys : job'[k].status = "absent" <=> job[k].status = "absent"
              Destroys == \A s \in Services :
                 remote'[s] = "destroyed" /\ remote[s] # "destroyed" =>
                    \E k \in Keys : /\ k[1] = s /\ k[2] = "TERMINATE"
                                    /\ job[k].status # "absent"
  <1>0. \A k \in Keys : job[k] \in Jobs
    BY DEF QueueTypeOK
  <1>. USE DEF bounds
  <1>1. ASSUME NEW w \in Workers, Find(w) PROVE JobsExist' /\ Same /\ Destroys
    <2>1. PICK B \in SUBSET Eligible : found' = [found EXCEPT ![w] = B]
      BY <1>1 DEF Find, Batches
    <2>2. \A k \in B : job[k].status # "absent"
      BY DEF Eligible
    <2>. QED  BY <1>1, <2>1, <2>2 DEF Find, JobsExist, QueueTypeOK
  <1>2. ASSUME NEW w \in Workers, Lock(w) PROVE JobsExist' /\ Same /\ Destroys
    <2>1. \A k \in Keys :
             job'[k] = IF k \in found[w]
                       THEN [status |-> "RUNNING", attempts |-> job[k].attempts + 1,
                             owner |-> w, stale |-> FALSE]
                       ELSE job[k]
      BY <1>2 DEF Lock
    <2>2. \A k \in Keys : /\ job'[k].status = "absent" <=> job[k].status = "absent"
                          /\ job'[k].owner = job[k].owner \/ job'[k].status = "RUNNING"
      <3>. SUFFICES ASSUME NEW k \in Keys
                    PROVE  /\ job'[k].status = "absent" <=> job[k].status = "absent"
                           /\ job'[k].owner = job[k].owner \/ job'[k].status = "RUNNING"
        OBVIOUS
      <3>1. CASE k \in found[w]
        <4>1. job'[k] = [status |-> "RUNNING", attempts |-> job[k].attempts + 1,
                         owner |-> w, stale |-> FALSE]
          BY <2>1, <3>1, Zenon
        <4>2. job'[k].status = "RUNNING"
          BY <4>1
        <4>3. job[k].status # "absent"
          BY <3>1 DEF JobsExist
        <4>. QED  BY <4>2, <4>3
      <3>2. CASE k \notin found[w]
        BY <2>1, <3>2
      <3>. QED  BY <3>1, <3>2
    <2>3. \A v \in Workers : /\ found'[v] \subseteq found[v] /\ found[v] \subseteq Keys
                             /\ batch'[v] = batch[v] /\ current'[v] = current[v]
      BY <1>2 DEF Lock, QueueTypeOK
    <2>4. \A v \in Workers : /\ \A e \in batch[v] : e[1] \in Keys
                             /\ \A c \in current[v] : c[1] \in Keys
      BY EntryType
    <2>5. JobsExist'
      BY <2>1, <2>2, <2>3, <2>4 DEF JobsExist
    <2>. QED  BY <1>2, <2>2, <2>5 DEF Lock
  <1>3. ASSUME NEW w \in Workers, Load(w) PROVE JobsExist' /\ Same /\ Destroys
    <2>1. batch' = [batch EXCEPT ![w] =
                       {<<k, job[k].attempts>> : k \in {k \in Keys : job[k].owner = w}}]
      BY <1>3 DEF Load
    <2>2. \A e \in batch'[w] : job[e[1]].status # "absent"
      BY <2>1 DEF JobsExist, QueueTypeOK
    <2>3. \A v \in Workers : v # w => batch'[v] = batch[v]
      BY <2>1 DEF QueueTypeOK
    <2>. QED  BY <1>3, <2>2, <2>3 DEF Load, JobsExist
  <1>4. ASSUME NEW w \in Workers, Call(w) PROVE JobsExist' /\ Same /\ Destroys
    <2>1. PICK entry \in batch[w], o \in Outcomes :
             /\ batch' = [batch EXCEPT ![w] = @ \ {entry}]
             /\ current' = [current EXCEPT ![w] = {<<entry[1], entry[2], o>>}]
             /\ \/ remote' = [remote EXCEPT ![entry[1][1]] = Effect(entry[1][2])]
                \/ UNCHANGED remote
      BY <1>4 DEF Call
    <2>2. entry[1] \in Keys /\ job[entry[1]].status # "absent"
      BY <2>1, EntryType DEF JobsExist
    <2>3. entry[1][2] \in Actions /\ entry[1][1] \in Services
      BY <2>2, KeyType
    <2>4. Effect(entry[1][2]) = "destroyed" => entry[1][2] = "TERMINATE"
      BY <2>3 DEF Effect, Actions
    <2>5. Destroys
      BY <2>1, <2>2, <2>4 DEF QueueTypeOK
    <2>6. \A v \in Workers : /\ batch'[v] \subseteq batch[v]
                             /\ \A c \in current'[v] : c[1] = entry[1] \/ c \in current[v]
      BY <2>1 DEF QueueTypeOK
    <2>7. UNCHANGED <<job, found>>
      BY <1>4 DEF Call
    <2>8. JobsExist'
      BY <2>2, <2>6, <2>7 DEF JobsExist
    <2>. QED  BY <2>5, <2>7, <2>8
  <1>5. ASSUME NEW w \in Workers, Save(w) PROVE JobsExist' /\ Same /\ Destroys
    <2>1. PICK c \in current[w] :
             job' = [job EXCEPT ![c[1]].status = Verdict(c[2], c[3]),
                                ![c[1]].owner = Nobody,
                                ![c[1]].stale = FALSE]
      BY <1>5 DEF Save
    <2>2. c[1] \in Keys /\ job[c[1]].status # "absent"
      BY EntryType DEF JobsExist
    <2>3. Verdict(c[2], c[3]) # "absent"
      BY DEF Verdict
    <2>4. Same /\ \A k \in Keys : job'[k].owner \in {job[k].owner, Nobody}
      BY <1>0, <2>1, <2>2, <2>3 DEF QueueTypeOK, Jobs
    <2>5. \A v \in Workers : /\ found'[v] = found[v] /\ found[v] \subseteq Keys
                             /\ batch'[v] = batch[v] /\ current'[v] \subseteq current[v]
      BY <1>5 DEF Save, QueueTypeOK
    <2>6. \A v \in Workers : /\ \A e \in batch[v] : e[1] \in Keys
                             /\ \A d \in current[v] : d[1] \in Keys
      BY EntryType
    <2>7. JobsExist'
      BY <2>4, <2>5, <2>6, NobodyAssumption DEF JobsExist
    <2>. QED  BY <1>5, <2>4, <2>7 DEF Save
  <1>6. ASSUME NEW w \in Workers, SaveRejected(w) PROVE JobsExist' /\ Same /\ Destroys
    <2>1. PICK c \in current[w] : current' = [current EXCEPT ![w] = {<<c[1], c[2], "error">>}]
      BY <1>6 DEF SaveRejected
    <2>2. \A v \in Workers : \A d \in current'[v] :
             \E e \in current[v] : d[1] = e[1]
      BY <2>1 DEF QueueTypeOK
    <2>3. UNCHANGED <<job, remote, found, batch>>
      BY <1>6 DEF SaveRejected
    <2>. QED  BY <2>2, <2>3 DEF JobsExist
  <1>7. ASSUME NEW w \in Workers, Abort(w) PROVE JobsExist' /\ Same /\ Destroys
    <2>1. \A k \in Keys : /\ job'[k].status = job[k].status
                          /\ job'[k].owner \in {job[k].owner, Nobody}
      BY <1>0, <1>7 DEF Abort, Jobs
    <2>2. \A v \in Workers : /\ found'[v] \subseteq found[v] /\ found[v] \subseteq Keys
                             /\ batch'[v] \subseteq batch[v] /\ current'[v] \subseteq current[v]
      BY <1>7 DEF Abort, QueueTypeOK
    <2>3. \A v \in Workers : /\ \A e \in batch[v] : e[1] \in Keys
                             /\ \A d \in current[v] : d[1] \in Keys
      BY EntryType
    <2>4. JobsExist'
      BY <2>1, <2>2, <2>3, NobodyAssumption DEF JobsExist
    <2>. QED  BY <1>7, <2>1, <2>4 DEF Abort
  <1>8. ASSUME NEW l \in Keys, LostLockGoesStale(l) \/ LiveLockGoesStale(l)
        PROVE  JobsExist' /\ Same /\ Destroys
    <2>1. /\ job' = [job EXCEPT ![l].stale = TRUE]
          /\ UNCHANGED <<remote, found, batch, current>>
      BY <1>8 DEF LostLockGoesStale, LiveLockGoesStale, queueRest
    <2>2. \A k \in Keys : job'[k].status = job[k].status /\ job'[k].owner = job[k].owner
      BY <1>0, <2>1 DEF QueueTypeOK, Jobs
    <2>3. \A v \in Workers : /\ found[v] \subseteq Keys
                             /\ \A e \in batch[v] : e[1] \in Keys
                             /\ \A d \in current[v] : d[1] \in Keys
      BY EntryType DEF QueueTypeOK
    <2>. QED  BY <2>1, <2>2, <2>3 DEF JobsExist
  <1>. QED
    BY <1>1, <1>2, <1>3, <1>4, <1>5, <1>6, <1>7, <1>8 DEF QueueStep, WorkerStep

\* Inserting jobs touches no job there is.
LEMMA QueuedJobs ==
    ASSUME QueueTypeOK, JobsExist, NEW ks, Queue(ks), UNCHANGED queueRest
    PROVE  /\ JobsExist'
           /\ \A k \in Keys : job'[k].status # "absent" => job[k].status # "absent" \/ k \in ks
           /\ remote' = remote
  <1>1. PICK some \in SUBSET ks : Insert(some)
    BY QueueInserts
  <1>2. \A k \in Keys : job[k] \in Jobs
    BY DEF QueueTypeOK
  <1>3. \A k \in Keys : /\ job'[k].status \in {job[k].status, "QUEUED"}
                        /\ job'[k].owner = job[k].owner
                        /\ job'[k].status # job[k].status => k \in ks
    BY <1>1, <1>2 DEF Insert, Jobs
  <1>4. /\ remote' = remote /\ found' = found /\ batch' = batch /\ current' = current
    BY DEF queueRest
  <1>5. \A w \in Workers : /\ found[w] \subseteq Keys
                           /\ \A e \in batch[w] : e[1] \in Keys
                           /\ \A c \in current[w] : c[1] \in Keys
    BY EntryType DEF QueueTypeOK
  <1>6. JobsExist'
    BY <1>3, <1>4, <1>5 DEF JobsExist
  <1>. QED  BY <1>3, <1>4, <1>6

\* A decision is never taken back, a date that has passed never comes again and
\* a payment is final: what was justified stays so while the queue rests.
LEMMA DecisionsKept ==
    ASSUME DecisionInv, UNCHANGED queueVars, decided \subseteq decided',
           \A i \in Invoices : pastGrace[i] => pastGrace'[i],
           \A i \in Invoices : paid[i] => paid'[i]
    PROVE  JobsExist' /\ TerminationsDecided' /\ DestroyedOnlyDecided' /\ JobsJustified'
  <1>1. /\ job' = job /\ remote' = remote
        /\ found' = found /\ batch' = batch /\ current' = current
    BY DEF queueVars, queueRest
  <1>2. JobsExist'
    BY <1>1 DEF DecisionInv, JobsExist
  <1>3. TerminationsDecided' /\ DestroyedOnlyDecided'
    BY <1>1 DEF DecisionInv, TerminationsDecided, DestroyedOnlyDecided
  <1>4. JobsJustified'
    BY <1>1 DEF DecisionInv, JobsJustified
  <1>. QED  BY <1>2, <1>3, <1>4

\* Whoever queues jobs, each justified when it is queued, keeps the rest.
LEMMA JustifiedQueue ==
    ASSUME DecisionInv, NEW ks, Queue(ks),
           UNCHANGED <<queueRest, decided, pastGrace, paid>>,
           \A k \in ks \cap Keys :
              /\ k[2] = "TERMINATE" => k[1] \in decided
              /\ k[2] = "SUSPEND" /\ k[3] \in Invoices => k[1] \in Linked[k[3]] /\ pastGrace[k[3]]
              /\ k[2] = "UNSUSPEND" /\ k[3] \in Invoices => k[1] \in Linked[k[3]] /\ paid[k[3]]
    PROVE  JobsExist' /\ TerminationsDecided' /\ DestroyedOnlyDecided' /\ JobsJustified'
  <1>1. QueueTypeOK /\ JobsExist
    BY DEF DecisionInv, TypeInv, LifecycleTypeOK
  <1>2. /\ JobsExist'
        /\ \A k \in Keys : job'[k].status # "absent" => job[k].status # "absent" \/ k \in ks
        /\ remote' = remote
    BY <1>1, QueuedJobs
  <1>3. TerminationsDecided'
    BY <1>2 DEF DecisionInv, TerminationsDecided
  <1>4. DestroyedOnlyDecided'
    BY <1>2 DEF DecisionInv, DestroyedOnlyDecided
  <1>5. ASSUME NEW s \in Services, NEW i \in Invoices
        PROVE  /\ job'[<<s, "SUSPEND", i>>].status # "absent" => s \in Linked[i] /\ pastGrace[i]
               /\ job'[<<s, "UNSUSPEND", i>>].status # "absent" => s \in Linked[i] /\ paid[i]
    <2>1. <<s, "SUSPEND", i>> \in Keys /\ <<s, "UNSUSPEND", i>> \in Keys
      BY DEF Keys, Actions
    <2>. QED  BY <1>2, <2>1 DEF DecisionInv, JobsJustified
  <1>6. JobsJustified'
    BY <1>5 DEF JobsJustified
  <1>. QED  BY <1>2, <1>3, <1>4, <1>6

LEMMA DecisionStep == DecisionInv /\ [Next]_vars => DecisionInv'
  <1>. SUFFICES ASSUME DecisionInv, [Next]_vars
                PROVE  DecisionInv'
    OBVIOUS
  <1>0. TypeInv /\ LifecycleTypeOK /\ QueueTypeOK /\ TypeInv'
    BY LifecycleTypeStep DEF DecisionInv, TypeInv, LifecycleTypeOK
  <1>. DEFINE Reads == ReaperDecided' /\ SweepOverdue' /\ RestorePaid'
              Queues == /\ JobsExist' /\ TerminationsDecided'
                        /\ DestroyedOnlyDecided' /\ JobsJustified'
  <1>. SUFFICES Queues /\ Reads
    BY <1>0 DEF DecisionInv
  <1>. USE DEF DecisionInv, ReaperDecided, SweepOverdue, RestorePaid
  <1>1. CASE QueueStep /\ UNCHANGED lifecycleVars
    <2>1. /\ JobsExist'
          /\ \A k \in Keys : job'[k].status = "absent" <=> job[k].status = "absent"
          /\ \A s \in Services :
                 remote'[s] = "destroyed" /\ remote[s] # "destroyed" =>
                    \E k \in Keys : /\ k[1] = s /\ k[2] = "TERMINATE"
                                    /\ job[k].status # "absent"
      BY <1>0, <1>1, WorkersStep
    <2>2. UNCHANGED <<decided, pastGrace, paid, sweep, restore, reaper>>
      BY <1>1 DEF lifecycleVars
    <2>3. TerminationsDecided' /\ DestroyedOnlyDecided'
      BY <2>1, <2>2 DEF TerminationsDecided, DestroyedOnlyDecided
    <2>4. JobsJustified'
      BY <2>1, <2>2 DEF JobsJustified, Keys, Actions
    <2>. QED  BY <2>1, <2>2, <2>3, <2>4
  <1>2. CASE SweepQueue
    <2>1. PICK i \in sweep.at :
             /\ Queue({<<s, "SUSPEND", i>> : s \in Linked[i]})
             /\ sweep' = [pc |-> "invoices", todo |-> sweep.todo \ {i}, at |-> {}]
      BY <1>2 DEF SweepQueue
    <2>2. i \in Invoices /\ pastGrace[i]
      BY <1>2 DEF SweepQueue
    <2>3. UNCHANGED <<queueRest, decided, pastGrace, paid, restore, reaper>>
      BY <1>2 DEF SweepQueue
    <2>4. Queues
      BY <2>1, <2>2, <2>3, JustifiedQueue
    <2>5. Reads
      BY <1>2, <2>1, <2>3 DEF SweepQueue
    <2>. QED  BY <2>4, <2>5
  <1>3. CASE SweepDateQueue
    <2>1. PICK s \in sweep.at :
             /\ Queue({<<s, "SUSPEND", NoInvoice>>})
             /\ sweep'.pc \in {"idle", "dates"}
      BY <1>3 DEF SweepDateQueue
    <2>2. UNCHANGED <<queueRest, decided, pastGrace, paid, restore, reaper>>
      BY <1>3 DEF SweepDateQueue
    <2>3. Queues
      BY <2>1, <2>2, NoInvoiceAssumption, JustifiedQueue
    <2>. QED  BY <2>1, <2>2, <2>3
  <1>4. CASE SweepStart \/ SweepDates \/ SweepAbort
    <2>1. /\ UNCHANGED <<queueVars, decided, pastGrace, paid, restore, reaper>>
          /\ sweep'.pc \in {"idle", "invoices", "dates"}
          /\ sweep'.pc = "invoices" =>
                sweep' = [pc |-> "invoices", at |-> {},
                          todo |-> {i \in Invoices : ~paid[i] /\ pastGrace[i] /\ Linked[i] # {}}]
      BY <1>4 DEF SweepStart, SweepDates, SweepAbort
    <2>. QED  BY <2>1, DecisionsKept
  <1>5. ASSUME NEW i \in Invoices, SweepSuspend(i) PROVE Queues /\ Reads
    <2>1. /\ UNCHANGED <<queueVars, decided, pastGrace, paid, restore, reaper>>
          /\ sweep.pc = "invoices" /\ i \in sweep.todo
          /\ sweep' = [sweep EXCEPT !.pc = "queue", !.at = {i}]
      BY <1>5 DEF SweepSuspend
    <2>2. sweep'.todo = sweep.todo /\ sweep'.at = {i}
      BY <1>0, <2>1 DEF LifecycleTypeOK
    <2>. QED  BY <2>1, <2>2, DecisionsKept
  <1>6. ASSUME NEW s \in Services, SweepDateSave(s) PROVE Queues /\ Reads
    <2>1. /\ UNCHANGED <<queueVars, decided, pastGrace, paid, restore, reaper>>
          /\ sweep' = [sweep EXCEPT !.pc = "queueDate", !.at = {s}]
      BY <1>6 DEF SweepDateSave
    <2>2. sweep'.pc = "queueDate"
      BY <1>0, <2>1 DEF LifecycleTypeOK
    <2>. QED  BY <2>1, <2>2, DecisionsKept
  <1>7. CASE ReaperStart \/ ReaperAbort
    <2>1. /\ UNCHANGED <<queueVars, decided, pastGrace, paid, restore, sweep>>
          /\ reaper'.at = {}
      BY <1>7 DEF ReaperStart, ReaperAbort
    <2>. QED  BY <2>1, DecisionsKept
  <1>8. CASE ReaperQueue
    <2>1. PICK s \in reaper.at :
             /\ Queue({<<s, "TERMINATE", NoInvoice>>})
             /\ reaper' = [pc |-> IF reaper.todo \ {s} = {} THEN "idle" ELSE "save",
                           todo |-> reaper.todo \ {s}, at |-> {}]
      BY <1>8 DEF ReaperQueue
    <2>2. UNCHANGED <<queueRest, decided, pastGrace, paid, restore, sweep>>
      BY <1>8 DEF ReaperQueue
    <2>3. s \in decided
      BY <2>1
    <2>4. Queues
      BY <2>1, <2>2, <2>3, JustifiedQueue
    <2>. QED  BY <2>1, <2>2, <2>4
  <1>9. ASSUME NEW s \in Services, ReaperSave(s) PROVE Queues /\ Reads
    <2>1. /\ UNCHANGED <<queueVars, pastGrace, paid, restore, sweep>>
          /\ decided' = decided \cup {s}
          /\ reaper' = [reaper EXCEPT !.pc = "queue", !.at = {s}]
      BY <1>9 DEF ReaperSave
    <2>2. reaper'.at = {s}
      BY <1>0, <2>1 DEF LifecycleTypeOK
    <2>. QED  BY <2>1, <2>2, DecisionsKept
  <1>10. ASSUME NEW i \in Invoices, RestoreRead(i) PROVE Queues /\ Reads
    <2>1. /\ UNCHANGED <<queueVars, decided, pastGrace, paid, reaper, sweep>>
          /\ restore[i].pc = "read"
      BY <1>10 DEF RestoreRead
    <2>2. PICK p \in {"done", "save"} :
             restore' = [restore EXCEPT ![i] =
                [pc |-> p, todo |-> {s \in Linked[i] : status[s] = "SUSPENDED"}, at |-> {}]]
      BY <1>10 DEF RestoreRead
    <2>3. \A j \in Invoices : j # i => restore'[j] = restore[j]
      BY <1>0, <2>2 DEF LifecycleTypeOK
    <2>4. /\ restore'[i].todo \subseteq Linked[i] /\ restore'[i].at = {}
      BY <1>0, <2>2 DEF LifecycleTypeOK
    <2>5. RestorePaid'
      BY <2>1, <2>3, <2>4
    <2>. QED  BY <2>1, <2>5, DecisionsKept
  <1>11. ASSUME NEW i \in Invoices, RestoreQueue(i) PROVE Queues /\ Reads
    <2>1. PICK s \in restore[i].at :
             /\ Queue({<<s, "UNSUSPEND", i>>})
             /\ restore' = [restore EXCEPT
                   ![i] = [pc |-> IF restore[i].todo \ {s} = {} THEN "done" ELSE "save",
                           todo |-> restore[i].todo \ {s}, at |-> {}]]
      BY <1>11 DEF RestoreQueue
    <2>2. /\ UNCHANGED <<queueRest, decided, pastGrace, paid, reaper, sweep>>
          /\ restore[i].pc = "queue"
      BY <1>11 DEF RestoreQueue
    <2>3. s \in Linked[i] /\ paid[i]
      BY <2>1, <2>2
    <2>4. Queues
      BY <2>1, <2>2, <2>3, JustifiedQueue
    <2>5. \A j \in Invoices : j # i => restore'[j] = restore[j]
      BY <1>0, <2>1 DEF LifecycleTypeOK
    <2>6. restore'[i].todo \subseteq restore[i].todo /\ restore'[i].at = {}
      BY <1>0, <2>1 DEF LifecycleTypeOK
    <2>7. RestorePaid'
      BY <2>2, <2>3, <2>5, <2>6
    <2>. QED  BY <2>2, <2>4, <2>7
  <1>12. ASSUME NEW i \in Invoices, NEW s \in Services, RestoreSave(i, s)
         PROVE  Queues /\ Reads
    <2>1. /\ UNCHANGED <<queueVars, decided, pastGrace, paid, reaper, sweep>>
          /\ restore[i].pc = "save" /\ s \in restore[i].todo
          /\ restore' = [restore EXCEPT ![i].pc = "queue", ![i].at = {s}]
      BY <1>12 DEF RestoreSave
    <2>2. \A j \in Invoices : j # i => restore'[j] = restore[j]
      BY <1>0, <2>1 DEF LifecycleTypeOK
    <2>3. restore'[i].todo = restore[i].todo /\ restore'[i].at = {s}
      BY <1>0, <2>1 DEF LifecycleTypeOK
    <2>4. RestorePaid'
      BY <2>1, <2>2, <2>3
    <2>. QED  BY <2>1, <2>4, DecisionsKept
  <1>13. ASSUME NEW i \in Invoices, RestoreAbort(i) PROVE Queues /\ Reads
    <2>1. /\ UNCHANGED <<queueVars, decided, pastGrace, paid, reaper, sweep>>
          /\ restore[i].pc # "none"
          /\ restore' = [restore EXCEPT ![i] = [pc |-> "done", todo |-> {}, at |-> {}]]
      BY <1>13 DEF RestoreAbort
    <2>2. \A j \in Invoices : j # i => restore'[j] = restore[j]
      BY <1>0, <2>1 DEF LifecycleTypeOK
    <2>3. restore'[i].todo = {} /\ restore'[i].at = {}
      BY <1>0, <2>1 DEF LifecycleTypeOK
    <2>4. RestorePaid'
      BY <2>1, <2>2, <2>3
    <2>. QED  BY <2>1, <2>4, DecisionsKept
  <1>14. ASSUME NEW i \in Invoices, InvoicePaid(i) PROVE Queues /\ Reads
    <2>1. /\ UNCHANGED <<queueVars, decided, pastGrace, reaper, sweep>>
          /\ paid' = [paid EXCEPT ![i] = TRUE]
          /\ restore' = [restore EXCEPT ![i].pc = "read"]
      BY <1>14 DEF InvoicePaid
    <2>2. paid'[i] /\ \A j \in Invoices : j # i => paid'[j] = paid[j]
      BY <1>0, <2>1 DEF LifecycleTypeOK
    <2>3. \A j \in Invoices : /\ j # i => restore'[j] = restore[j]
                              /\ restore'[j].todo = restore[j].todo
                              /\ restore'[j].at = restore[j].at
      BY <1>0, <2>1 DEF LifecycleTypeOK
    <2>4. RestorePaid'
      BY <2>2, <2>3
    <2>. QED  BY <2>1, <2>2, <2>4, DecisionsKept
  <1>15. ASSUME NEW i \in Invoices, DueDatePasses(i) PROVE Queues /\ Reads
    <2>1. /\ UNCHANGED <<queueVars, decided, paid, reaper, restore, sweep>>
          /\ pastGrace' = [pastGrace EXCEPT ![i] = TRUE]
      BY <1>15 DEF DueDatePasses
    <2>2. \A j \in Invoices : pastGrace[j] => pastGrace'[j]
      BY <1>0, <2>1 DEF LifecycleTypeOK
    <2>. QED  BY <2>1, <2>2, DecisionsKept
  <1>16. ASSUME NEW s \in Services, NEW a \in AdminActions, AdminCallWhm(s, a)
         PROVE  Queues /\ Reads
    <2>1. /\ UNCHANGED <<job, found, batch, current, pastGrace, paid, reaper, restore, sweep>>
          /\ a \in Actions
          /\ remote' = [remote EXCEPT ![s] = Effect(a)]
          /\ decided' = IF a = "TERMINATE" THEN decided \cup {s} ELSE decided
      BY <1>16 DEF AdminCallWhm
    <2>2. Effect(a) = "destroyed" => a = "TERMINATE"
      BY <2>1 DEF Effect, Actions
    <2>3. DestroyedOnlyDecided'
      BY <1>0, <2>1, <2>2 DEF DestroyedOnlyDecided, QueueTypeOK
    <2>4. JobsExist'
      BY <2>1 DEF JobsExist
    <2>5. TerminationsDecided'
      BY <2>1 DEF TerminationsDecided
    <2>6. JobsJustified'
      BY <2>1 DEF JobsJustified
    <2>. QED  BY <2>1, <2>3, <2>4, <2>5, <2>6
  <1>17. CASE AdminSave \/ AdminAbort
    <2>1. UNCHANGED <<queueVars, decided, pastGrace, paid, reaper, restore, sweep>>
      BY <1>17 DEF AdminSave, AdminAbort
    <2>. QED  BY <2>1, DecisionsKept
  <1>18. ASSUME NEW s \in Services, SuspensionRipens(s) \/ DatesPass(s) \/ AdminSetDates(s)
         PROVE  Queues /\ Reads
    <2>1. UNCHANGED <<queueVars, decided, pastGrace, paid, reaper, restore, sweep>>
      BY <1>18 DEF SuspensionRipens, DatesPass, AdminSetDates
    <2>. QED  BY <2>1, DecisionsKept
  <1>19. CASE UNCHANGED vars
    <2>1. UNCHANGED <<queueVars, decided, pastGrace, paid, reaper, restore, sweep>>
      BY <1>19 DEF vars, lifecycleVars
    <2>. QED  BY <2>1, DecisionsKept
  <1>. QED
    BY <1>1, <1>2, <1>3, <1>4, <1>5, <1>6, <1>7, <1>8, <1>9, <1>10, <1>11, <1>12, <1>13,
       <1>14, <1>15, <1>16, <1>17, <1>18, <1>19
    DEF Next, SystemNext, Sweep, Reaper, Restore

\* An account is destroyed only for a service the termination cron or an
\* administrator decided to terminate, and jobs are queued under an invoice only
\* when it is past its grace period (to suspend) or paid (to unsuspend), however
\* stale the documents their authors work from and whatever fails in between.
THEOREM ActionsAreDecided == Spec => []ActionsDecided
  <1>1. DecisionInv => ActionsDecided
    BY DEF DecisionInv, ActionsDecided
  <1>. QED  BY <1>1, DecisionInit, DecisionStep, PTL DEF Spec
=============================================================================

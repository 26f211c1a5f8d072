------------------------ MODULE MCAutomationTaskLock ------------------------
(***************************************************************************)
(* Small instance of AutomationTaskLock for TLC: two timer runs of one      *)
(* process and a third run of another, started by its timer or by hand.     *)
(* Symmetry is broken by this choice, since liveness is checked as well.    *)
(***************************************************************************)
EXTENDS AutomationTaskLock

CONSTANTS p1, p2, r1, r2, r3

MCInit ==
    /\ LockInit
    /\ host = [r \in Runs |-> IF r = r3 THEN p2 ELSE p1]
    /\ source[r1] = "cron" /\ source[r2] = "cron"

MCSpec ==
    /\ MCInit /\ [][LockNext]_lockVars
    /\ WF_lockVars(Tick) /\ \A r \in Runs : WF_lockVars(Proceed(r))
=============================================================================

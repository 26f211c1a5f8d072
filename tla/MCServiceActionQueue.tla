------------------------ MODULE MCServiceActionQueue ------------------------
(***************************************************************************)
(* Small instance of ServiceActionQueue for TLC: MaxJobs jobs, and at most    *)
(* MaxDisturbances crashes, stale locks, retries and deletions together, in   *)
(* any combination.                                                          *)
(***************************************************************************)
EXTENDS ServiceActionQueue

CONSTANTS MaxJobs, MaxDisturbances

Bounded ==
    /\ crashes' + slow' + Cardinality(retried') + Cardinality(gone') <= MaxDisturbances
    /\ Cardinality({k \in Keys : job'[k].status # "absent"}) <= MaxJobs

MCSpec == QueueInit /\ [][QueueNext /\ Bounded]_queueVars /\ QueueFairness
=============================================================================

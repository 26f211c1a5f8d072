------------------------ MODULE MCProvisioningQueue ------------------------
(***************************************************************************)
(* Small instance of ProvisioningQueue for TLC.  A behaviour has at most    *)
(* MaxDisturbances crashes, stale locks, failed writes and administrator's  *)
(* operations together, in any combination, the hosting item comes first in  *)
(* the order, and payment leaves the order's status as it is.               *)
(***************************************************************************)
EXTENDS ProvisioningQueue

CONSTANT MaxDisturbances

Disturbances == used.crashes + used.slow + used.faults + used.admin

HostingFirst ==
    \A t \in Triggers :
        trigger'[t].pc \in {"create", "requeue"} => trigger'[t].todo \cap Hosting = {}

\* Of two operations of administrators and sweeps the second is a sweep.
SweepSecond ==
    used.admin = 1 /\ used'.admin = 2 =>
        history' = history /\ \E op \in admin' : op[2] \in ServiceStatus

OrderKept == invoice' # invoice => order' = order

MCSpec ==
    /\ Init
    /\ [][Next /\ Disturbances' <= MaxDisturbances /\ HostingFirst /\ OrderKept /\ SweepSecond]_vars
    /\ \A w \in Workers : WF_vars(WorkerStep(w))
    /\ \A t \in Triggers : WF_vars(TriggerStep(t))
    /\ \A k \in Items : WF_vars(LostLockGoesStale(k))
=============================================================================

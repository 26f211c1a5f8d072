----------------------------- MODULE LeaseMutex -----------------------------
(***************************************************************************)
(* What the task lock promises: for every task at most one run is inside    *)
(* its lease, and the lease is granted only when nobody has it.             *)
(***************************************************************************)
CONSTANTS Tasks, Runs, NoOwner

VARIABLES
    holder,   \* run that has the unexpired lease of a task, or NoOwner
    inside    \* runs of the task that execute under an unexpired lease

vars == <<holder, inside>>

Init ==
    /\ holder = [k \in Tasks |-> NoOwner]
    /\ inside = [k \in Tasks |-> {}]

\* The lease goes to a run; the run may never learn of it.
Grant(k) ==
    /\ holder[k] = NoOwner
    /\ \E r \in Runs :
          /\ holder'[k] = r
          /\ inside'[k] \in {inside[k], inside[k] \cup {r}}

\* The run leaves and keeps the lease, or the lease ends, run or no run.
Leave(k) ==
    /\ holder'[k] \in {holder[k], NoOwner}
    /\ inside'[k] = {}

Stay(k) == holder'[k] = holder[k] /\ inside'[k] = inside[k]

\* One tick of the clock may end the leases of several tasks.
Next ==
    /\ holder' \in [Tasks -> Runs \cup {NoOwner}]
    /\ inside' \in [Tasks -> SUBSET Runs]
    /\ \A k \in Tasks : Grant(k) \/ Leave(k) \/ Stay(k)

Spec == Init /\ [][Next]_vars
=============================================================================

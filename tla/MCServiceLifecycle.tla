------------------------- MODULE MCServiceLifecycle -------------------------
(***************************************************************************)
(* Small instance of ServiceLifecycle for TLC.  One automation date is set   *)
(* at most, once, to a later day and before any job exists.                  *)
(***************************************************************************)
EXTENDS ServiceLifecycle

CONSTANTS s1, i1

MCLinked == [i \in Invoices |-> Services]

MCSetDates(s) ==
    /\ \A k \in Keys : job[k].status = "absent"
    /\ schedule[s] = [suspend |-> "none", terminate |-> "none"]
    /\ AdminSetDates(s)
    /\ {schedule'[s].suspend, schedule'[s].terminate} = {"none", "later"}

MCNext == SystemNext \/ \E s \in Services : MCSetDates(s)

MCSpec == Init /\ [][MCNext]_vars /\ Fairness

\* Within a batch, jobs go in the order of their creation: SUSPEND jobs first.
InOrder ==
    \A w \in Workers : \A c \in current'[w] :
        current[w] = {} /\ c[1][2] = "UNSUSPEND" =>
            \A entry \in batch[w] : entry[1][2] # "SUSPEND"

MCOrderedSpec == Init /\ [][SystemNext /\ InOrder]_vars
=============================================================================

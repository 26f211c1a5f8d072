----------------------------- MODULE MCRenewals -----------------------------
(***************************************************************************)
(* Small instance of Renewals for TLC: a behaviour has at most               *)
(* MaxDisturbances faults, repeated payments, administrator's operations and *)
(* changes of status together, in any combination.                           *)
(***************************************************************************)
EXTENDS Renewals

CONSTANT MaxDisturbances

Disturbances == used.faults + used.admin + used.repeats + used.changes

MCSpec ==
    /\ Init
    /\ [][Next /\ Disturbances' <= MaxDisturbances]_vars
    /\ Fairness
=============================================================================

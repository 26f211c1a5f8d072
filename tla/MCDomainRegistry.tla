---------------------------- MODULE MCDomainRegistry ----------------------------
(***************************************************************************)
(* Instance of DomainRegistry for TLC: one name, a service that has ordered  *)
(* it and one an import may create, two requests beside the scheduler.       *)
(***************************************************************************)
EXTENDS DomainRegistry
=============================================================================

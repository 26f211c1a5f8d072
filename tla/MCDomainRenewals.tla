---------------------------- MODULE MCDomainRenewals ----------------------------
(***************************************************************************)
(* Instance of DomainRenewals for TLC.  Requests, payment handlers and calls *)
(* of the worker are alike, so their permutations are a symmetry.            *)
(***************************************************************************)
EXTENDS DomainRenewals, TLC

Alike == Permutations(Clients) \cup Permutations(Payments) \cup Permutations(Workers)
=============================================================================

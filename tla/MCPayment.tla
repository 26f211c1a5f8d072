----------------------------- MODULE MCPayment ------------------------------
(***************************************************************************)
(* Small instance of Payment for TLC.  Calls and transactions are alike, so  *)
(* they are numbered, and begin in the order of their numbers.                *)
(***************************************************************************)
EXTENDS Payment

InOrder ==
    /\ \A c \in Calls \ {1} : call'[c].pc # "idle" => call'[c - 1].pc # "idle"
    /\ \A t \in Transactions \ {1} : session'[t].state # "none" => session'[t - 1].state # "none"

MCSpec == Init /\ [][Next /\ InOrder]_vars
=============================================================================

------------------------------- MODULE MCServe -------------------------------
(***************************************************************************)
(* The application's listener with two requests and the operational one    *)
(* with one.                                                               *)
(***************************************************************************)
EXTENDS Serve

CONSTANTS r1, r2, probe

MCRequests == {r1, r2, probe}
MCTo == [r \in MCRequests |-> IF r = probe THEN 2 ELSE 1]
=============================================================================

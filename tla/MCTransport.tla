------------------------------ MODULE MCTransport ------------------------------
(***************************************************************************)
(* Two adapters provided under the same or different names, ports and      *)
(* settings types, an Open of either kind, and a server that runs.         *)
(***************************************************************************)
EXTENDS Transport, TLC

CONSTANTS p, q, open, run

MCProvides == {p, q}
MCOpens == {open, run}
MCServers == {run}
Symmetric == Permutations(MCProvides)
=============================================================================

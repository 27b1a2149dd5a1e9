--------------------------------- MODULE MCMcp ---------------------------------
(***************************************************************************)
(* Two calls at the same time, of any kind: one of the goga client and one *)
(* of either client.  The calls are alike, so that two of the goga client  *)
(* need one order only.                                                    *)
(***************************************************************************)
EXTENDS Mcp, Naturals

CONSTANTS c1, c2

MCCalls == {c1, c2}

Rank(c) == CASE Kind(c) = "tool" -> 1 [] Kind(c) = "resource" -> 2 [] Kind(c) = "prompt" -> 3

MCInit == McpInit /\ Goga(c1) /\ (Goga(c2) => Rank(c1) <= Rank(c2))

MCSpec == MCInit /\ [][McpNext]_mcpVars /\ Fairness
=============================================================================

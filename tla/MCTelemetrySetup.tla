--------------------------- MODULE MCTelemetrySetup ---------------------------
(***************************************************************************)
(* Two Setups in one process, the first still up or down by the second.    *)
(***************************************************************************)
EXTENDS TelemetrySetup
=============================================================================

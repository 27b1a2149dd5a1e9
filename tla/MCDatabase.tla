------------------------------ MODULE MCDatabase -------------------------------
(***************************************************************************)
(* Two calls, each with either driver, on pools of one connection that are *)
(* opened and cleaned up around them.                                      *)
(***************************************************************************)
EXTENDS Database

CONSTANTS c1, c2

MCCalls == {c1, c2}
MCDrivers == {"sql", "pgx"}
=============================================================================

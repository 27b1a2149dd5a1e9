------------------------------- MODULE MCHarness -------------------------------
(***************************************************************************)
(* One request of an assertion and one of another goroutine, two layers of *)
(* middleware, a health check and two readiness checks.                    *)
(***************************************************************************)
EXTENDS Harness

CONSTANTS r1, r2, m1, m2, db, cache, self

MCReqs == {r1, r2}
MCMiddleware == <<m1, m2>>
MCHealth == <<self>>
MCReadiness == <<db, cache>>
=============================================================================

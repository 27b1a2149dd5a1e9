---------------------------- MODULE MCConfigWatch ----------------------------
(***************************************************************************)
(* A base file that must exist and a local file in a directory of its own, *)
(* plain or, in one run, a link of a mounted directory.                    *)
(***************************************************************************)
EXTENDS ConfigWatch

CONSTANTS base, local

MCFiles == {base, local}
MCOrder == <<base, local>>
MCRequired == {base}
MCValues == {"a", "b"}
MCUnfit == {"b"}
MCPlain == {}
MCMounted == {local}
MCTwoDirs == [f \in MCFiles |-> IF f = base THEN "conf" ELSE "mount"]
=============================================================================

---------------------------- MODULE MCConfigMerge -----------------------------
(***************************************************************************)
(* Two files, the environment and flags, in every order of their options,  *)
(* over a key, a key below it, one below that one, and a sibling.          *)
(***************************************************************************)
EXTENDS ConfigMerge

MCKeys == <<<<"a">>, <<"a", "b">>, <<"a", "b", "c">>, <<"a", "d">>>>
MCSources == {"base", "overlay", "env", "flags"}
MCKind == [s \in MCSources |-> IF s \in {"env", "flags"} THEN s ELSE "file"]
=============================================================================

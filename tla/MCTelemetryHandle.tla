-------------------------- MODULE MCTelemetryHandle ---------------------------
(***************************************************************************)
(* Two goroutines, two operations each, and one installation; the closer   *)
(* of an operation has two callers.                                        *)
(*                                                                         *)
(* An operation that is being closed shares nothing with the others, so    *)
(* its steps commute with theirs: ClosersAlone lets it finish first.       *)
(***************************************************************************)
EXTENDS TelemetryHandle, TLC

CONSTANTS x, y, deferred, other

MCCallers == {x, y}
MCClosers == {deferred, other}
Symmetric == Permutations(MCCallers) \cup Permutations(MCClosers)

ClosersAlone ==
  \A c \in Callers :
    closing[c] # ClosedBy("no") => closing'[c] # closing[c]
=============================================================================

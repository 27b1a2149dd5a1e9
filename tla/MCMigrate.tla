------------------------------ MODULE MCMigrate ------------------------------
(***************************************************************************)
(* Two replicas: a permissive one with migrations 1 and 3 making two calls *)
(* on one pool, and a strict one with migrations 2 and 3.                  *)
(***************************************************************************)
EXTENDS Migrate

CONSTANTS a, b, c1, c2, c3

MCCalls == {c1, c2, c3}
MCReplicas == {a, b}
MCReplicaOf == [c \in MCCalls |-> IF c = c3 THEN b ELSE a]
MCVersions == 1..3
MCKnown == [r \in MCReplicas |-> IF r = a THEN {1, 3} ELSE {2}]
MCAllowMissing == [r \in MCReplicas |-> r = a]
MCPoolLimits == [r \in MCReplicas |-> IF r = a THEN {1, 2} ELSE {0}]

Operation(kind, target) == [kind |-> kind, target |-> target]
Up == Operation("up", 0)
Down == Operation("down", 0)
Ready == Operation("ready", 0)
MCOps ==
  [c \in MCCalls |->
     CASE c = c1 -> {Operation("upto", 1), Down}
       [] c = c2 -> {Up, Operation("upto", 0), Down, Ready}
       [] c = c3 -> {Up}]
=============================================================================

----------------------------- MODULE ConfigMerge ------------------------------
(***************************************************************************)
(* Package config: the options that name sources, build, which merges the  *)
(* sources, and the guard against keys koanf would silently discard.       *)
(*                                                                         *)
(* A key is the sequence of its segments, and the value a source gives to  *)
(* it is the source itself.  What a source sets is chosen when it is read. *)
(* Files nest their keys; none writes a dotted key into its text.          *)
(***************************************************************************)
EXTENDS Naturals, Sequences

CONSTANTS
  Keys,    \* the keys, in the order Go sorts them
  Sources, \* what may be configured as a source
  Kind     \* each source's kind

\* sourceKind, from the weakest to the strongest.
Rank == [defaults |-> 1, file |-> 2, env |-> 3, flags |-> 4]
Kinds == DOMAIN Rank

KeySet == {Keys[i] : i \in DOMAIN Keys}

ASSUME ConfigMergeAssumption ==
  /\ Kind \in [Sources -> Kinds]
  /\ Keys \in Seq(KeySet) /\ \A i, j \in DOMAIN Keys : Keys[i] = Keys[j] => i = j
  /\ \A key \in KeySet :
       key \in Seq({key[i] : i \in DOMAIN key}) /\ Len(key) > 0

VARIABLES
  settings,  \* the sources of each kind
  passed,    \* history: when the option for each source was passed, or 0
  at,        \* how many sources have been merged
  given,     \* the map each source was read as, and the flags left at a default
  unguarded, \* the keys of the source being merged the keyGuard has not seen
  leaves,    \* the keyGuard: the source that last set a leaf
  branches,  \* and for each parent path an example of a leaf below it
  error,     \* the collision it has found
  k,         \* the koanf: its leaf keys and the source each value is from
  outcome    \* where build is, or what it has returned

mergeVars ==
  <<settings, passed, at, given, unguarded, leaves, branches, error, k, outcome>>

NoCollision == [scalar |-> <<>>, scalarSource |-> {}, nested |-> <<>>, nestedSource |-> {}]

MergeInit ==
  /\ settings = [kind \in Kinds |-> <<>>] /\ passed = [s \in Sources |-> 0]
  /\ at = 0 /\ given = [s \in Sources |-> [read |-> {}, defaulted |-> {}]]
  /\ unguarded = {} /\ leaves = <<>> /\ branches = <<>> /\ error = NoCollision
  /\ k = <<>> /\ outcome = "options"

-----------------------------------------------------------------------------
(* The sources *)

\* The four loops over the sources of each kind.
SourcesInHouseOrder ==
  settings.defaults \o settings.file \o settings.env \o settings.flags

\* WithDefaults, WithFile, WithEnv and WithFlags, in any order.
Configure(s) ==
  /\ outcome = "options" /\ passed[s] = 0
  /\ passed' = [passed EXCEPT ![s] = Len(SourcesInHouseOrder) + 1]
  /\ settings' = [settings EXCEPT ![Kind[s]] = Append(@, s)]
  /\ UNCHANGED <<at, given, unguarded, leaves, branches, error, k, outcome>>

Below(p, q) == Len(q) < Len(p) /\ SubSeq(p, 1, Len(q)) = q
CollisionFree(S) == \A p, q \in S : ~Below(p, q)

\* The nested map koanf makes of flat keys: of two that collide one is lost,
\* depending on the order Go ranges over them.
Unflattened(S) ==
  {R \in SUBSET S : CollisionFree(R)
                      /\ \A p \in S \ R : \E q \in R : Below(p, q) \/ Below(q, p)}

Exists(p) == \E q \in DOMAIN k : q = p \/ Below(q, p)

\* A flag left at its default counts only if nothing has set its key.
FlagSet(defined, changed) == changed \cup {p \in defined : ~Exists(p)}

\* What a source may be read as, with the flags among it that were not set.
\* An optional file that is not there is read as nothing.
Reads(kind) ==
  LET Plain(R) == [read |-> R, defaulted |-> {}]
  IN  CASE kind = "file" -> {Plain(S) : S \in {S \in SUBSET KeySet : CollisionFree(S)}}
        [] kind \in {"defaults", "env"} ->
             {Plain(R) : R \in UNION {Unflattened(S) : S \in SUBSET KeySet}}
        [] kind = "flags" ->
             UNION {{[read |-> R, defaulted |-> R \ changed] :
                       R \in Unflattened(FlagSet(defined, changed))} :
                     defined \in SUBSET KeySet, changed \in SUBSET KeySet}

-----------------------------------------------------------------------------
(* keyGuard *)

\* mutant: a key's parent, and not those above it.
DirectParent(key) == IF Len(key) < 2 THEN {} ELSE {SubSeq(key, 1, Len(key) - 1)}

ParentPaths(key) == {SubSeq(key, 1, i) : i \in 1..(Len(key) - 1)}

Shortest(P) == CHOOSE p \in P : \A q \in P : Len(p) <= Len(q)

Collide(scalar, scalarSource, nested, nestedSource) ==
  /\ error' = [scalar |-> scalar, scalarSource |-> scalarSource,
               nested |-> nested, nestedSource |-> nestedSource]
  /\ outcome' = "collision"
  /\ UNCHANGED <<unguarded, leaves, branches>>

\* Entries of one map put over those of another.
Over(f, g) == [p \in DOMAIN f \cup DOMAIN g |-> IF p \in DOMAIN f THEN f[p] ELSE g[p]]

\* mutant: a leaf stays with the source that set it first.
RecordFirst(s, key) ==
  /\ leaves' = Over(leaves, [p \in {key} |-> s])
  /\ branches' = Over(branches, [p \in ParentPaths(key) |-> [leaf |-> key, source |-> s]])
  /\ unguarded' = unguarded \ {key}
  /\ UNCHANGED <<error, outcome>>

\* A leaf belongs to the last source, a branch keeps its first example.
Record(s, key) ==
  /\ leaves' = Over([p \in {key} |-> s], leaves)
  /\ branches' = Over(branches, [p \in ParentPaths(key) |-> [leaf |-> key, source |-> s]])
  /\ unguarded' = unguarded \ {key}
  /\ UNCHANGED <<error, outcome>>

Current == SourcesInHouseOrder[at + 1]

\* The keys of a source are seen in sorted order.
First(S) ==
  Keys[CHOOSE i \in DOMAIN Keys : Keys[i] \in S /\ \A j \in 1..i - 1 : Keys[j] \notin S]

\* One turn of the loop of add.
AddKey ==
  /\ outcome = "adding" /\ unguarded # {}
  /\ LET key == First(unguarded)
         owned == ParentPaths(key) \cap DOMAIN leaves
         scalar == Shortest(owned)
     IN  \/ owned # {} /\ Collide(scalar, leaves[scalar], key, Current)
         \/ /\ owned = {} /\ key \in DOMAIN branches
            /\ Collide(key, Current, branches[key].leaf, branches[key].source)
         \/ owned = {} /\ key \notin DOMAIN branches /\ Record(Current, key)
  /\ UNCHANGED <<settings, passed, at, given, k>>

-----------------------------------------------------------------------------
(* build *)

Build ==
  /\ outcome = "options" /\ outcome' = "merging"
  /\ UNCHANGED <<settings, passed, at, given, unguarded, leaves, branches, error, k>>

ReadFails ==
  /\ outcome = "merging" /\ at < Len(SourcesInHouseOrder)
  /\ outcome' = "unreadable"
  /\ UNCHANGED <<settings, passed, at, given, unguarded, leaves, branches, error, k>>

Read ==
  /\ outcome = "merging" /\ at < Len(SourcesInHouseOrder)
  /\ \E r \in Reads(Kind[Current]) :
       given' = [given EXCEPT ![Current] = r] /\ unguarded' = r.read
  /\ outcome' = "adding"
  /\ UNCHANGED <<settings, passed, at, leaves, branches, error, k>>

\* koanf's merge: a value replaces what is below it, and what it is below.
Loaded(s, read) ==
  [p \in read \cup {q \in DOMAIN k : CollisionFree(read \cup {q})} |->
     IF p \in read THEN s ELSE k[p]]

\* The guard has let all of the source's keys pass.
Merge ==
  /\ outcome = "adding" /\ unguarded = {}
  /\ k' = Loaded(Current, given[Current].read)
  /\ at' = at + 1 /\ outcome' = "merging"
  /\ UNCHANGED <<settings, passed, given, unguarded, leaves, branches, error>>

ReturnMerged ==
  /\ outcome = "merging" /\ at = Len(SourcesInHouseOrder)
  /\ outcome' = "loaded"
  /\ UNCHANGED <<settings, passed, at, given, unguarded, leaves, branches, error, k>>

Built == outcome \in {"unreadable", "collision", "loaded"} /\ UNCHANGED mergeVars

MergeNext ==
  \/ \E s \in Sources : Configure(s)
  \/ Build \/ ReadFails \/ Read \/ AddKey \/ Merge \/ ReturnMerged
  \/ Built

MergeSpec == MergeInit /\ [][MergeNext]_mergeVars

-----------------------------------------------------------------------------
(* Properties *)

\* s comes after t: by kind, and within one kind as their options were passed.
Beats(s, t) ==
  Rank[Kind[s]] > Rank[Kind[t]] \/ (Kind[s] = Kind[t] /\ passed[s] > passed[t])

SetBy(p) == {s \in Sources : p \in given[s].read \ given[s].defaulted}

\* When build succeeds, every key any source was read to set is there, with
\* the value of the last source in house order that set it, however the
\* options were ordered and whatever is nested in what; a flag left at its
\* default yields to all of them (package comment, "one of them is discarded,
\* silently"; sourcesInHouseOrder).
NothingDiscarded ==
  outcome = "loaded" =>
    \A s \in Sources : \A p \in given[s].read :
      /\ p \in DOMAIN k
      /\ SetBy(p) # {} =>
           k[p] \in SetBy(p) /\ \A t \in SetBy(p) \ {k[p]} : Beats(k[p], t)

\* A collision is real and its error says what to edit: it names a key and one
\* below it, a source that set each, and for a value merged before the source
\* whose value stands (CollidingKeysError).
CollisionIsReal ==
  outcome = "collision" =>
    /\ Below(error.nested, error.scalar)
    /\ error.scalar \in given[error.scalarSource].read
    /\ error.nested \in given[error.nestedSource].read
    /\ error.scalar \in DOMAIN k => k[error.scalar] = error.scalarSource
=============================================================================

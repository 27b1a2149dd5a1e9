----------------------------- MODULE ConfigProofs -----------------------------
(***************************************************************************)
(* For any files, directories, edits and length of the kernel's queue: no  *)
(* callback after Close, and none without a save of its file.  For any     *)
(* sources and keys, in any order of the options: no key is discarded, and *)
(* a reported collision is real.                                           *)
(***************************************************************************)
EXTENDS ConfigWatch, ConfigMerge, FiniteSetTheorems, SequenceTheorems,
        WellFoundedInduction, TLAPS

\* Close begins when Load is over, so no goroutine starts once it has begun.
ClosingIsOrderly ==
  /\ close # "open" => load = "loaded"
  /\ close = "closed" => loop = "exited"

\* The callbacks for f that are due: of this tick, and of the next.
InTick(f) == IF f \in todo \/ (loop = "reading" /\ path = f) THEN 1 ELSE 0
Waiting(f) == IF f \in pending THEN 1 ELSE 0

\* Those made and those due are owed to a save each, or to one that went on
\* after a tick.
Paid(f) == calls[f] + InTick(f) + Waiting(f) <= Cardinality(heard[f]) + late[f]

ChangesPay ==
  /\ calls \in [Files -> Nat] /\ late \in [Files -> Nat]
  /\ DOMAIN heard = Files
  /\ \A f \in Files : IsFiniteSet(heard[f])
  /\ loop \in {"off", "select"} => todo = {}
  /\ loop = "reading" => path \notin todo
  /\ load \in {"reading", "adding"} => loop = "off"
  /\ \A f \in Files : Paid(f)

-----------------------------------------------------------------------------
(* Close *)

LEMMA OrderlyNext == ClosingIsOrderly /\ [Next]_vars => ClosingIsOrderly'
<1> SUFFICES ASSUME ClosingIsOrderly, [Next]_vars PROVE ClosingIsOrderly'
  OBVIOUS
<1> USE DEF ClosingIsOrderly
<1>1. CASE LoadRead
  BY <1>1 DEF LoadRead, ReadNext
<1>2. CASE \E d \in Dirs : AddDir(d)
  BY <1>2 DEF AddDir
<1>3. CASE StartLoop \/ LoadReturns
  BY <1>3 DEF StartLoop, LoadReturns
<1>4. CASE StopLoop \/ TakeEvent \/ Tick \/ TakeError \/ NextPath \/ CallbackReturns
  BY <1>4 DEF StopLoop, TakeEvent, Tick, TakeError, NextPath, CallbackReturns
<1>5. CASE Reload
  BY <1>5 DEF Reload, ReadNext
<1>6. CASE CloseStep \/ CallClose
  BY <1>6 DEF CloseStep, CallClose, CloseDone, CloseFsw, CloseWait
<1>7. CASE (\E f \in Files : Edit(f)) \/ Noise \/ DebounceEnds \/ UNCHANGED vars
  BY <1>7 DEF Edit, Noise, DebounceEnds, vars
<1> QED
  BY <1>1, <1>2, <1>3, <1>4, <1>5, <1>6, <1>7 DEF Next, LoadStep, LoopStep, Terminated

\* No callback runs after Close has returned (watcher.Close).
THEOREM CloseSilences == Spec => []NoCallbackAfterClose
<1>1. Init => ClosingIsOrderly
  BY DEF Init, ClosingIsOrderly
<1>2. ClosingIsOrderly => NoCallbackAfterClose
  BY DEF ClosingIsOrderly, NoCallbackAfterClose
<1> QED
  BY <1>1, <1>2, OrderlyNext, PTL DEF Spec

-----------------------------------------------------------------------------
(* Callbacks *)

LEMMA PayInit == Init => ChangesPay
<1> SUFFICES ASSUME Init PROVE ChangesPay
  OBVIOUS
<1>1. IsFiniteSet({}) /\ Cardinality({}) = 0
  BY FS_EmptySet
<1> QED
  BY <1>1 DEF Init, ChangesPay, Paid, InTick, Waiting

\* What no step of the debounce or of a reload has touched stays paid.
Still == UNCHANGED <<loop, path, todo, pending, calls, heard, late>>

LEMMA StillPays ==
  ASSUME ChangesPay, Still, load' \in {"reading", "adding"} => load \in {"reading", "adding"}
  PROVE  ChangesPay'
BY DEF ChangesPay, Still, Paid, InTick, Waiting

LEMMA LoadPays ==
  ASSUME ChangesPay, LoadStep
  PROVE  ChangesPay'
<1>1. CASE LoadRead
  <2>1. load = "reading" /\ Still
    BY <1>1 DEF LoadRead, ReadNext, Still, tick
  <2> QED
    BY <2>1, StillPays
<1>2. CASE (\E d \in Dirs : AddDir(d)) \/ LoadReturns
  <2>1. load \in {"adding", "starting"} /\ load' # "reading" /\ Still
    BY <1>2 DEF AddDir, LoadReturns, Still, tick, history
  <2>2. load' = "adding" => load = "adding"
    BY <1>2 DEF AddDir, LoadReturns
  <2> QED
    BY <2>1, <2>2, StillPays
<1>3. CASE StartLoop
  <2>1. /\ load' = "starting" /\ loop' = "select" /\ loop = "off"
        /\ UNCHANGED <<path, todo, pending, calls, heard, late>>
    BY <1>3 DEF StartLoop, tick, history, ChangesPay
  <2> QED
    BY <2>1 DEF ChangesPay, Paid, InTick, Waiting
<1> QED
  BY <1>1, <1>2, <1>3 DEF LoadStep

\* An event of a file that does not wait yet is that of a save not heard of, or
\* is late.
LEMMA EventPays ==
  ASSUME ChangesPay, TakeEvent
  PROVE  ChangesPay'
<1> DEFINE e == Head(queue).file
           save == Head(queue).save
<1>1. loop = "select" /\ UNCHANGED <<load, loop, path, todo, calls>>
  BY DEF TakeEvent
<1>2. CASE UNCHANGED <<pending, timer, heard, late>>
  BY <1>1, <1>2, StillPays DEF Still
<1>3. CASE /\ pending' = pending \cup {e}
           /\ heard' = [heard EXCEPT ![e] = @ \cup {save}]
           /\ late' = [late EXCEPT ![e] = IF e \notin pending /\ save \in heard[e]
                                            THEN @ + 1 ELSE @]
  <2>1. ASSUME NEW f \in Files, f # e
        PROVE  heard'[f] = heard[f] /\ late'[f] = late[f] /\ (f \in pending' <=> f \in pending)
    BY <1>3, <2>1 DEF ChangesPay
  <2>2. ASSUME e \in Files
        PROVE  heard'[e] = heard[e] \cup {save} /\ e \in pending'
    BY <1>3, <2>2 DEF ChangesPay
  <2>3. ASSUME e \in Files
        PROVE  /\ IsFiniteSet(heard[e] \cup {save})
               /\ Cardinality(heard[e]) \in Nat
               /\ Cardinality(heard[e] \cup {save}) =
                    (IF save \in heard[e] THEN Cardinality(heard[e])
                     ELSE Cardinality(heard[e]) + 1)
    BY <2>3, FS_AddElement, FS_CardinalityType DEF ChangesPay
  <2>4. ASSUME e \in Files
        PROVE  /\ late[e] \in Nat /\ calls[e] \in Nat
               /\ late'[e] = (IF e \notin pending /\ save \in heard[e]
                                THEN late[e] + 1 ELSE late[e])
    BY <1>3, <2>4 DEF ChangesPay
  <2>5. late' \in [Files -> Nat] /\ DOMAIN heard' = Files
    <3>1. late \in [Files -> Nat] /\ DOMAIN heard = Files
      BY DEF ChangesPay
    <3>2. CASE e \in Files
      BY <1>3, <2>4, <3>1, <3>2
    <3>3. CASE e \notin Files
      BY <1>3, <3>1, <3>3
    <3> QED
      BY <3>2, <3>3
  <2>6. ASSUME NEW f \in Files PROVE IsFiniteSet(heard'[f]) /\ Paid(f)'
    <3>1. CASE f # e
      BY <1>1, <2>1, <3>1 DEF ChangesPay, Paid, InTick, Waiting
    <3>2. CASE f = e
      <4>1. /\ Paid(f) /\ InTick(f)' = InTick(f) /\ InTick(f) \in {0, 1}
            /\ Waiting(f) = (IF f \in pending THEN 1 ELSE 0)
            /\ calls'[f] = calls[f]
        BY <1>1 DEF ChangesPay, InTick, Waiting
      <4>2. Waiting(f)' = 1
        BY <2>2, <3>2 DEF Waiting
      <4>3. /\ heard'[f] = heard[f] \cup {save}
            /\ IsFiniteSet(heard[f] \cup {save})
            /\ Cardinality(heard[f]) \in Nat
            /\ Cardinality(heard[f] \cup {save}) =
                 (IF save \in heard[f] THEN Cardinality(heard[f])
                  ELSE Cardinality(heard[f]) + 1)
            /\ late[f] \in Nat /\ calls[f] \in Nat
            /\ late'[f] = (IF f \notin pending /\ save \in heard[f]
                             THEN late[f] + 1 ELSE late[f])
        BY <2>2, <2>3, <2>4, <3>2
      <4> HIDE DEF e, save
      <4>4. Paid(f)'
        BY <4>1, <4>2, <4>3 DEF Paid
      <4> QED
        BY <4>3, <4>4
    <3> QED
      BY <3>1, <3>2
  <2> QED
    BY <1>1, <2>5, <2>6 DEF ChangesPay
<1> QED
  BY <1>2, <1>3 DEF TakeEvent

LEMMA LoopPays ==
  ASSUME ChangesPay, LoopStep
  PROVE  ChangesPay'
<1>1. /\ \A f \in Files : calls[f] \in Nat /\ late[f] \in Nat /\ Cardinality(heard[f]) \in Nat
      /\ \A f \in Files : Paid(f)
  BY FS_CardinalityType DEF ChangesPay
<1>2. CASE StopLoop \/ TakeError \/ CallbackReturns
  <2>1. /\ UNCHANGED <<load, path, todo, pending, calls, heard, late>>
        /\ loop # "reading" /\ (loop' = loop \/ loop' \in {"exited", "next"})
        /\ loop # "off"
    BY <1>2 DEF StopLoop, TakeError, CallbackReturns, tick, history
  <2> QED
    BY <2>1 DEF ChangesPay, Paid, InTick, Waiting
<1>3. CASE TakeEvent
  BY <1>3, EventPays
<1>4. CASE Tick
  <2>1. /\ loop = "select" /\ loop' = "next" /\ todo = {} /\ todo' = pending /\ pending' = {}
        /\ UNCHANGED <<load, path, calls, heard, late>>
    BY <1>4 DEF Tick, history, ChangesPay
  <2>2. ASSUME NEW f \in Files PROVE Paid(f)'
    BY <1>1, <2>1 DEF Paid, InTick, Waiting
  <2> QED
    BY <2>1, <2>2 DEF ChangesPay
<1>5. CASE NextPath
  <2>1. loop = "next" /\ UNCHANGED <<load, pending, calls, heard, late>>
    BY <1>5 DEF NextPath, history
  <2>2. CASE todo = {} /\ loop' = "select" /\ UNCHANGED <<path, todo>>
    BY <2>1, <2>2 DEF ChangesPay, Paid, InTick, Waiting
  <2>3. ASSUME NEW f \in todo, path' = f, todo' = todo \ {f}, loop' = "reading"
        PROVE  ChangesPay'
    <3>1. ASSUME NEW g \in Files PROVE Paid(g)'
      BY <1>1, <2>1, <2>3 DEF Paid, InTick, Waiting
    <3> QED
      BY <2>1, <2>3, <3>1 DEF ChangesPay
  <2> QED
    BY <1>5, <2>2, <2>3 DEF NextPath
<1>6. CASE Reload
  <2>1. loop = "reading" /\ UNCHANGED <<path, pending, todo, heard, late>>
    BY <1>6 DEF Reload, ReadNext, tick
  <2>2. CASE UNCHANGED <<load, loop, calls>>
    BY <2>1, <2>2, StillPays DEF Still
  <2>3. CASE loop' = "callback" /\ load' = load /\ calls' = [calls EXCEPT ![path] = @ + 1]
    <3>1. ASSUME NEW f \in Files PROVE Paid(f)'
      <4>1. path \notin todo
        BY <2>1 DEF ChangesPay
      <4>2. CASE f = path
        <5>1. calls'[f] = calls[f] + 1
          BY <2>3, <4>2 DEF ChangesPay
        <5> QED
          BY <1>1, <2>1, <2>3, <4>1, <4>2, <5>1 DEF Paid, InTick, Waiting
      <4>3. CASE f # path
        <5>1. calls'[f] = calls[f]
          BY <2>3, <4>3 DEF ChangesPay
        <5> QED
          BY <1>1, <2>1, <2>3, <4>3, <5>1 DEF Paid, InTick, Waiting
      <4> QED
        BY <4>2, <4>3
    <3>2. calls' \in [Files -> Nat]
      <4>1. calls \in [Files -> Nat]
        BY DEF ChangesPay
      <4>2. CASE path \in Files
        <5>1. calls[path] + 1 \in Nat
          BY <4>1, <4>2
        <5> QED
          BY <2>3, <4>1, <5>1
      <4>3. CASE path \notin Files
        BY <2>3, <4>1, <4>3
      <4> QED
        BY <4>2, <4>3
    <3> QED
      BY <2>1, <2>3, <3>1, <3>2 DEF ChangesPay
  <2> QED
    BY <1>6, <2>2, <2>3 DEF Reload, ReadNext
<1> QED
  BY <1>2, <1>3, <1>4, <1>5, <1>6 DEF LoopStep

\* Nobody else pays or is owed anything, and other events least of all.
LEMMA OthersPay ==
  ASSUME ChangesPay,
         \/ CloseStep \/ CallClose \/ DebounceEnds \/ UNCHANGED vars
         \/ (\E f \in Files : Edit(f)) \/ Noise
  PROVE  ChangesPay'
<1>1. Still /\ UNCHANGED load
  BY DEF CloseStep, CallClose, CloseDone, CloseFsw, CloseWait, DebounceEnds, Edit, Noise,
     Still, vars, tick, history
<1> QED
  BY <1>1, StillPays

LEMMA PayNext == ChangesPay /\ [Next]_vars => ChangesPay'
BY LoadPays, LoopPays, OthersPay DEF Next, Terminated

\* The callbacks for a file are no more than its saves the watcher heard of and
\* those that went on after a tick, for every number of files and of operations
\* on them, whatever events meet in one tick and however the reloads end (run,
\* reload).
THEOREM CallbacksHaveChanges == Spec => []NoCallbackWithoutChange
<1>1. ChangesPay => NoCallbackWithoutChange
  <2> SUFFICES ASSUME ChangesPay, NEW f \in Files
               PROVE  calls[f] <= Cardinality(heard[f]) + late[f]
    BY DEF NoCallbackWithoutChange
  <2>1. calls[f] \in Nat /\ late[f] \in Nat /\ Cardinality(heard[f]) \in Nat /\ Paid(f)
    BY FS_CardinalityType DEF ChangesPay
  <2>2. InTick(f) \in Nat /\ Waiting(f) \in Nat
    BY DEF InTick, Waiting
  <2> QED
    BY <2>1, <2>2 DEF Paid
<1> QED
  BY <1>1, PayInit, PayNext, PTL DEF Spec

-----------------------------------------------------------------------------
(* The inductive invariant of a merge *)

\* The sources configured, from the weakest to the strongest.
House == SourcesInHouseOrder

\* Each is in the list of its kind, behind those passed before it.
Listed ==
  /\ \A kind \in Kinds : \A i \in DOMAIN settings[kind] :
       Kind[settings[kind][i]] = kind /\ passed[settings[kind][i]] \in 1..Len(House)
  /\ \A kind \in Kinds : \A i, j \in DOMAIN settings[kind] :
       i < j => passed[settings[kind][i]] < passed[settings[kind][j]]

MergeTypeOK ==
  /\ settings \in [Kinds -> Seq(Sources)] /\ passed \in [Sources -> Nat]
  /\ at \in 0..Len(House)
  /\ given \in [Sources -> [read : SUBSET KeySet, defaulted : SUBSET KeySet]]
  /\ unguarded \subseteq KeySet
  /\ leaves \in [DOMAIN leaves -> Sources] /\ DOMAIN leaves \subseteq KeySet
  /\ k \in [DOMAIN k -> Sources] /\ DOMAIN k \subseteq KeySet
  /\ outcome \in {"options", "merging", "adding", "unreadable", "collision", "loaded"}

\* What a source sets can be nested, and what it sets by default was not set.
WellRead(i) ==
  /\ CollisionFree(given[House[i]].read)
  /\ \A p \in given[House[i]].defaulted :
       p \in given[House[i]].read /\ \A j \in 1..(i - 1) : p \notin given[House[j]].read

\* How many sources have been read.
Started == at + (IF outcome \in {"adding", "collision"} THEN 1 ELSE 0)

\* The one the guard is looking at is the last of them.
SoFar ==
  /\ Started <= Len(House)
  /\ \A i \in 1..Started : WellRead(i)
  /\ \A s \in Sources : given[s].read # {} => \E i \in 1..Started : s = House[i]
  /\ unguarded \subseteq (IF Started > at THEN given[Current].read ELSE {})

\* The koanf holds every key, from the last source that was read to have it.
Koanf ==
  /\ \A i \in 1..at : given[House[i]].read \subseteq DOMAIN k
  /\ \A p \in DOMAIN k :
       \E i \in 1..at : /\ k[p] = House[i] /\ p \in given[House[i]].read
                        /\ \A j \in (i + 1)..at : p \notin given[House[j]].read

\* What the guard has seen of that one.
Guarded == IF Started > at THEN given[Current].read \ unguarded ELSE {}

\* The guard has seen what the koanf holds and part of the next source.
Guard ==
  /\ DOMAIN leaves = DOMAIN k \cup Guarded
  /\ \A p \in DOMAIN k \ Guarded : leaves[p] = k[p]
  /\ \A p \in Guarded : leaves[p] = Current
  /\ CollisionFree(DOMAIN leaves)
  /\ \A p \in DOMAIN leaves : ParentPaths(p) \subseteq DOMAIN branches
  /\ \A q \in DOMAIN branches :
       /\ branches[q].leaf \in DOMAIN leaves /\ q \in ParentPaths(branches[q].leaf)
       /\ branches[q].source \in Sources /\ branches[q].leaf \in given[branches[q].source].read

MergeInv ==
  /\ MergeTypeOK /\ Listed
  /\ SoFar /\ Koanf /\ Guard
  /\ outcome = "options" => at = 0
  /\ outcome = "loaded" => at = Len(House)
  /\ CollisionIsReal

-----------------------------------------------------------------------------
(* Keys and sources *)

\* Every set of numbers has a least one.
LEMMA LeastNumber ==
  ASSUME NEW S \in SUBSET Nat, S # {}
  PROVE  \E n \in S : \A m \in S : n <= m
<1>1. IsWellFoundedOn(OpToRel(<, Nat), Nat)
  BY NatLessThanWellFounded
<1>2. PICK n \in S : \A m \in S : ~(<<m, n>> \in OpToRel(<, Nat))
  BY <1>1, WFMin
<1>3. ASSUME NEW m \in S PROVE n <= m
  <2>1. <<m, n>> \in OpToRel(<, Nat) <=> <<m, n>> \in Nat \X Nat /\ m < n
    BY Zenon DEF OpToRel
  <2>2. ~(m < n)
    BY <2>1, <1>2
  <2> QED
    BY <2>2
<1> QED
  BY <1>3

\* Among keys, the parent paths are the keys a key nests under.
LEMMA ParentsAreAbove ==
  ASSUME NEW p \in KeySet, NEW q \in KeySet
  PROVE  q \in ParentPaths(p) <=> Below(p, q)
<1> DEFINE S == {p[i] : i \in DOMAIN p}
           T == {q[i] : i \in DOMAIN q}
<1>1. p \in Seq(S) /\ Len(p) \in Nat /\ q \in Seq(T) /\ Len(q) \in Nat /\ Len(q) > 0
  BY ConfigMergeAssumption
<1> HIDE DEF S, T
<1>2. \A i \in 1..(Len(p) - 1) : Len(SubSeq(p, 1, i)) = i
  BY <1>1
<1>3. ASSUME NEW i \in 1..(Len(p) - 1), q = SubSeq(p, 1, i) PROVE Len(q) = i
  BY <1>2, <1>3
<1>4. q \in ParentPaths(p) => Below(p, q)
  BY <1>1, <1>3 DEF ParentPaths, Below
<1>5. ASSUME Below(p, q) PROVE q \in ParentPaths(p)
  <2>1. Len(q) \in 1..(Len(p) - 1) /\ q = SubSeq(p, 1, Len(q))
    BY <1>1, <1>5 DEF Below
  <2> QED
    BY <2>1 DEF ParentPaths
<1> QED
  BY <1>4, <1>5

LEMMA ShortestIsOne ==
  ASSUME NEW P \in SUBSET KeySet, P # {}
  PROVE  Shortest(P) \in P
<1>1. \A p \in P : Len(p) \in Nat
  BY ConfigMergeAssumption
<1> DEFINE Lengths == {Len(p) : p \in P}
<1>2. Lengths \in SUBSET Nat /\ Lengths # {}
  BY <1>1
<1>3. \A p \in P : Len(p) \in Lengths
  OBVIOUS
<1>4. PICK s \in P : \A m \in Lengths : Len(s) <= m
  <2> HIDE DEF Lengths
  <2>1. PICK n \in Lengths : \A m \in Lengths : n <= m
    BY <1>2, LeastNumber
  <2>2. PICK t \in P : n = Len(t)
    BY <2>1 DEF Lengths
  <2> QED
    BY <2>1, <2>2
<1>5. \E p \in P : \A q \in P : Len(p) <= Len(q)
  <2> HIDE DEF Lengths
  <2> QED
    BY <1>3, <1>4
<1> QED
  BY <1>5 DEF Shortest

LEMMA FirstIsOne ==
  ASSUME NEW S \in SUBSET KeySet, S # {}
  PROVE  First(S) \in S
<1> DEFINE I == {i \in DOMAIN Keys : Keys[i] \in S}
<1>1. DOMAIN Keys = 1..Len(Keys) /\ Len(Keys) \in Nat
  BY ConfigMergeAssumption
<1>2. I \in SUBSET Nat /\ I # {}
  BY <1>1 DEF KeySet
<1>3. PICK n \in I : \A m \in I : n <= m
  <2> HIDE DEF I
  <2> QED
    BY <1>2, LeastNumber
<1>4. n \in 1..Len(Keys) /\ Keys[n] \in S
  BY <1>1, <1>3
<1>5. ASSUME NEW j \in 1..n - 1, Keys[j] \in S PROVE FALSE
  <2>1. j \in DOMAIN Keys /\ j < n
    BY <1>1, <1>4
  <2>2. j \in I
    BY <2>1, <1>5
  <2>3. n <= j
    BY <2>2, <1>3
  <2> QED
    BY <2>1, <2>3, <1>1, <1>4
<1>6. \E i \in DOMAIN Keys : Keys[i] \in S /\ \A j \in 1..i - 1 : Keys[j] \notin S
  BY <1>1, <1>4, <1>5
<1> QED
  BY <1>6 DEF First

\* What a source can be read as.
LEMMA WhatIsRead ==
  ASSUME NEW kind \in Kinds, NEW r \in Reads(kind)
  PROVE  /\ r \in [read : SUBSET KeySet, defaulted : SUBSET KeySet]
         /\ CollisionFree(r.read)
         /\ \A p \in r.defaulted : p \in r.read /\ p \notin DOMAIN k
<1> DEFINE Plain(R) == [read |-> R, defaulted |-> {}]
<1>1. ASSUME NEW S \in SUBSET KeySet, CollisionFree(S), r = Plain(S)
      PROVE  /\ r \in [read : SUBSET KeySet, defaulted : SUBSET KeySet]
             /\ CollisionFree(r.read)
             /\ \A p \in r.defaulted : p \in r.read /\ p \notin DOMAIN k
  BY <1>1
<1>2. CASE kind = "file"
  <2>1. r \in {Plain(S) : S \in {S \in SUBSET KeySet : CollisionFree(S)}}
    BY <1>2 DEF Reads
  <2> HIDE DEF Plain
  <2>2. PICK S \in SUBSET KeySet : CollisionFree(S) /\ r = Plain(S)
    BY <2>1
  <2> QED
    BY <2>2, <1>1
<1>3. CASE kind \in {"defaults", "env"}
  <2>1. r \in {Plain(R) : R \in UNION {Unflattened(S) : S \in SUBSET KeySet}}
    BY <1>3 DEF Reads
  <2> HIDE DEF Plain
  <2>2. PICK R \in UNION {Unflattened(S) : S \in SUBSET KeySet} : r = Plain(R)
    BY <2>1
  <2>3. R \in SUBSET KeySet /\ CollisionFree(R)
    BY <2>2 DEF Unflattened
  <2> QED
    BY <2>2, <2>3, <1>1
<1>4. CASE kind = "flags"
  <2>1. r \in UNION {{[read |-> R, defaulted |-> R \ changed] :
                       R \in Unflattened(FlagSet(defined, changed))} :
                     defined \in SUBSET KeySet, changed \in SUBSET KeySet}
    BY <1>4 DEF Reads
  <2>2. PICK defined \in SUBSET KeySet, changed \in SUBSET KeySet :
          r \in {[read |-> R, defaulted |-> R \ changed] :
                 R \in Unflattened(FlagSet(defined, changed))}
    BY <2>1
  <2>3. PICK R \in Unflattened(FlagSet(defined, changed)) :
          r = [read |-> R, defaulted |-> R \ changed]
    BY <2>2
  <2>4. R \subseteq FlagSet(defined, changed) /\ CollisionFree(R)
    BY <2>3 DEF Unflattened
  <2>5. FlagSet(defined, changed) \subseteq KeySet
        /\ \A p \in FlagSet(defined, changed) \ changed : p \notin DOMAIN k
    BY DEF FlagSet, Exists
  <2> QED
    BY <2>3, <2>4, <2>5
<1> QED
  BY <1>2, <1>3, <1>4 DEF Kinds, Rank

\* What is where in four lists one behind the other.
LEMMA FourLists ==
  ASSUME NEW S, NEW a \in Seq(S), NEW b \in Seq(S), NEW c \in Seq(S), NEW d \in Seq(S),
         NEW o, o = a \o b \o c \o d
  PROVE  /\ o \in Seq(S) /\ Len(o) = Len(a) + Len(b) + Len(c) + Len(d)
         /\ \A i \in 1..Len(o) :
              /\ i <= Len(a) => i \in 1..Len(a) /\ o[i] = a[i]
              /\ i > Len(a) /\ i <= Len(a) + Len(b) =>
                   i - Len(a) \in 1..Len(b) /\ o[i] = b[i - Len(a)]
              /\ i > Len(a) + Len(b) /\ i <= Len(a) + Len(b) + Len(c) =>
                   i - (Len(a) + Len(b)) \in 1..Len(c) /\ o[i] = c[i - (Len(a) + Len(b))]
              /\ i > Len(a) + Len(b) + Len(c) =>
                   i - (Len(a) + Len(b) + Len(c)) \in 1..Len(d)
                     /\ o[i] = d[i - (Len(a) + Len(b) + Len(c))]
<1>1. o \in Seq(S) /\ Len(o) = Len(a) + Len(b) + Len(c) + Len(d)
  OBVIOUS
<1>2. ASSUME NEW i \in 1..Len(o), i <= Len(a)
      PROVE  i \in 1..Len(a) /\ o[i] = a[i]
  BY <1>1, <1>2
<1>3. ASSUME NEW i \in 1..Len(o), i > Len(a), i <= Len(a) + Len(b)
      PROVE  i - Len(a) \in 1..Len(b) /\ o[i] = b[i - Len(a)]
  BY <1>1, <1>3
<1>4. ASSUME NEW i \in 1..Len(o), i > Len(a) + Len(b), i <= Len(a) + Len(b) + Len(c)
      PROVE  i - (Len(a) + Len(b)) \in 1..Len(c) /\ o[i] = c[i - (Len(a) + Len(b))]
  BY <1>1, <1>4
<1>5. ASSUME NEW i \in 1..Len(o), i > Len(a) + Len(b) + Len(c)
      PROVE  i - (Len(a) + Len(b) + Len(c)) \in 1..Len(d)
               /\ o[i] = d[i - (Len(a) + Len(b) + Len(c))]
  BY <1>1, <1>5
<1> QED
  BY <1>1, <1>2, <1>3, <1>4, <1>5

\* The four loops put the sources in order, each once.
LEMMA HouseOrder ==
  ASSUME MergeTypeOK, Listed
  PROVE  /\ House \in Seq(Sources) /\ Len(House) \in Nat
         /\ \A i, j \in 1..Len(House) : i < j => Beats(House[j], House[i])
         /\ \A i, j \in 1..Len(House) : House[i] = House[j] => i = j
<1> DEFINE a == settings["defaults"]
           b == settings["file"]
           c == settings["env"]
           d == settings["flags"]
<1>1. a \in Seq(Sources) /\ b \in Seq(Sources) /\ c \in Seq(Sources) /\ d \in Seq(Sources)
      /\ House = a \o b \o c \o d
  BY DEF MergeTypeOK, House, SourcesInHouseOrder, Kinds, Rank
<1>2. ASSUME NEW kind \in Kinds
      PROVE  \A i \in 1..Len(settings[kind]) : Kind[settings[kind][i]] = kind
             /\ \A j \in 1..Len(settings[kind]) :
                  i < j => passed[settings[kind][i]] < passed[settings[kind][j]]
  <2>1. DOMAIN settings[kind] = 1..Len(settings[kind])
    BY DEF MergeTypeOK
  <2> QED
    BY <2>1 DEF Listed
<1>3. /\ \A i \in 1..Len(a) : Kind[a[i]] = "defaults" /\ \A j \in 1..Len(a) : i < j => passed[a[i]] < passed[a[j]]
      /\ \A i \in 1..Len(b) : Kind[b[i]] = "file" /\ \A j \in 1..Len(b) : i < j => passed[b[i]] < passed[b[j]]
      /\ \A i \in 1..Len(c) : Kind[c[i]] = "env" /\ \A j \in 1..Len(c) : i < j => passed[c[i]] < passed[c[j]]
      /\ \A i \in 1..Len(d) : Kind[d[i]] = "flags" /\ \A j \in 1..Len(d) : i < j => passed[d[i]] < passed[d[j]]
  BY <1>2 DEF Kinds, Rank
<1>4. Rank["defaults"] = 1 /\ Rank["file"] = 2 /\ Rank["env"] = 3 /\ Rank["flags"] = 4
  BY DEF Rank
<1> DEFINE o == House
<1> HIDE DEF a, b, c, d, o
<1>5. o = a \o b \o c \o d
  BY <1>1 DEF o
<1>6. /\ o \in Seq(Sources) /\ Len(o) = Len(a) + Len(b) + Len(c) + Len(d)
      /\ \A i \in 1..Len(o) :
           /\ i <= Len(a) => i \in 1..Len(a) /\ o[i] = a[i]
           /\ i > Len(a) /\ i <= Len(a) + Len(b) =>
                i - Len(a) \in 1..Len(b) /\ o[i] = b[i - Len(a)]
           /\ i > Len(a) + Len(b) /\ i <= Len(a) + Len(b) + Len(c) =>
                i - (Len(a) + Len(b)) \in 1..Len(c) /\ o[i] = c[i - (Len(a) + Len(b))]
           /\ i > Len(a) + Len(b) + Len(c) =>
                i - (Len(a) + Len(b) + Len(c)) \in 1..Len(d)
                  /\ o[i] = d[i - (Len(a) + Len(b) + Len(c))]
  BY <1>1, <1>5, FourLists
<1>7. Len(a) \in Nat /\ Len(b) \in Nat /\ Len(c) \in Nat /\ Len(d) \in Nat
  BY <1>1
<1> DEFINE A == Len(a)
           B == Len(a) + Len(b)
           C == Len(a) + Len(b) + Len(c)
<1>8. A \in Nat /\ B \in Nat /\ C \in Nat /\ A <= B /\ B <= C
  BY <1>7
<1>9. \A i \in 1..Len(o) :
         /\ i <= A => i \in 1..Len(a) /\ o[i] = a[i]
         /\ i > A /\ i <= B => i - A \in 1..Len(b) /\ o[i] = b[i - A]
         /\ i > B /\ i <= C => i - B \in 1..Len(c) /\ o[i] = c[i - B]
         /\ i > C => i - C \in 1..Len(d) /\ o[i] = d[i - C]
  BY <1>6
<1> HIDE DEF A, B, C
<1>10. ASSUME NEW i \in 1..Len(o)
      PROVE  /\ i <= A => Kind[o[i]] = "defaults"
             /\ i > A /\ i <= B => Kind[o[i]] = "file"
             /\ i > B /\ i <= C => Kind[o[i]] = "env"
             /\ i > C => Kind[o[i]] = "flags"
  BY <1>3, <1>9
<1>11. \A s \in Sources : passed[s] \in Nat
  BY DEF MergeTypeOK
<1>12. \A s \in Sources : Rank[Kind[s]] \in Nat
  BY ConfigMergeAssumption DEF Kinds, Rank
<1>13. ASSUME NEW i \in 1..Len(o), NEW j \in 1..Len(o), i < j
      PROVE  Rank[Kind[o[j]]] > Rank[Kind[o[i]]]
               \/ (Kind[o[j]] = Kind[o[i]] /\ passed[o[j]] > passed[o[i]])
  <2>1. i \in Nat /\ j \in Nat /\ o[i] \in Sources /\ o[j] \in Sources
    BY <1>6
  <2>2. CASE j <= A
    <3>1. i \in 1..Len(a) /\ j \in 1..Len(a) /\ o[i] = a[i] /\ o[j] = a[j]
      BY <2>1, <2>2, <1>13, <1>8, <1>9
    <3> QED
      BY <3>1, <2>1, <1>3, <1>13, <1>11
  <2>3. CASE i > A /\ j <= B
    <3>1. i <= B /\ j > A
      BY <2>1, <2>3, <1>13, <1>8
    <3>2. i - A \in 1..Len(b) /\ o[i] = b[i - A]
      BY <3>1, <2>3, <1>9
    <3>3. j - A \in 1..Len(b) /\ o[j] = b[j - A]
      BY <3>1, <2>3, <1>9
    <3>4. i - A < j - A
      BY <2>1, <1>13, <1>8
    <3> QED
      BY <3>2, <3>3, <3>4, <2>1, <1>3, <1>11
  <2>4. CASE i > B /\ j <= C
    <3>1. i <= C /\ j > B
      BY <2>1, <2>4, <1>13, <1>8
    <3>2. i - B \in 1..Len(c) /\ o[i] = c[i - B]
      BY <3>1, <2>4, <1>9
    <3>3. j - B \in 1..Len(c) /\ o[j] = c[j - B]
      BY <3>1, <2>4, <1>9
    <3>4. i - B < j - B
      BY <2>1, <1>13, <1>8
    <3> QED
      BY <3>2, <3>3, <3>4, <2>1, <1>3, <1>11
  <2>5. CASE i > C
    <3>1. i > C /\ j > C
      BY <2>1, <2>5, <1>13, <1>8
    <3>2. i - C \in 1..Len(d) /\ o[i] = d[i - C]
      BY <3>1, <2>5, <1>9
    <3>3. j - C \in 1..Len(d) /\ o[j] = d[j - C]
      BY <3>1, <2>5, <1>9
    <3>4. i - C < j - C
      BY <2>1, <1>13, <1>8
    <3> QED
      BY <3>2, <3>3, <3>4, <2>1, <1>3, <1>11
  <2>6. CASE (i <= A /\ j > A) \/ (i <= B /\ j > B) \/ (i <= C /\ j > C)
    <3>1. Rank[Kind[o[j]]] > Rank[Kind[o[i]]]
      BY <2>1, <2>6, <1>4, <1>10, <1>8
    <3> QED
      BY <3>1
  <2> QED
    BY <2>1, <2>2, <2>3, <2>4, <2>5, <2>6, <1>13, <1>8
<1>14. \A i, j \in 1..Len(o) : i < j => Beats(o[j], o[i])
  BY <1>13 DEF Beats
<1>15. ASSUME NEW i \in 1..Len(o), NEW j \in 1..Len(o), o[i] = o[j] PROVE i = j
  <2>1. \A s \in Sources : ~Beats(s, s)
    BY <1>11, <1>12 DEF Beats
  <2>2. o[i] \in Sources /\ i \in Nat /\ j \in Nat
    BY <1>6
  <2>3. ~(i < j) /\ ~(j < i)
    BY <2>1, <2>2, <1>14, <1>15
  <2> QED
    BY <2>2, <2>3
<1>16. Len(o) \in Nat
  BY <1>6
<1> QED
  BY <1>6, <1>14, <1>15, <1>16 DEF o

-----------------------------------------------------------------------------
(* The steps *)

LEMMA MergeInvInit == MergeInit => MergeInv
<1> SUFFICES ASSUME MergeInit PROVE MergeInv
  OBVIOUS
<1>1. House = <<>>
  BY DEF MergeInit, House, SourcesInHouseOrder, Kinds, Rank
<1>2. MergeTypeOK
  BY <1>1 DEF MergeInit, MergeTypeOK
<1>3. Listed
  BY DEF MergeInit, Listed
<1>4. SoFar /\ Koanf
  BY <1>1 DEF MergeInit, SoFar, Koanf, Started
<1>5. Guard
  BY DEF MergeInit, Guard, Guarded, Started, CollisionFree
<1> QED
  BY <1>2, <1>3, <1>4, <1>5 DEF MergeInv, MergeInit, CollisionIsReal

\* An option makes the list one longer, whatever kind of source it passes.
LEMMA OneSourceMore ==
  ASSUME NEW S, NEW a \in Seq(S), NEW b \in Seq(S), NEW c \in Seq(S), NEW d \in Seq(S),
         NEW s \in S, NEW e, NEW f, NEW g, NEW h,
         NEW x, NEW y, x = a \o b \o c \o d, y = e \o f \o g \o h,
         \/ e = Append(a, s) /\ f = b /\ g = c /\ h = d
         \/ e = a /\ f = Append(b, s) /\ g = c /\ h = d
         \/ e = a /\ f = b /\ g = Append(c, s) /\ h = d
         \/ e = a /\ f = b /\ g = c /\ h = Append(d, s)
  PROVE  Len(x) \in Nat /\ Len(y) = Len(x) + 1
<1>1. Len(x) = Len(a) + Len(b) + Len(c) + Len(d)
  BY FourLists
<1>2. \A l \in Seq(S) : Append(l, s) \in Seq(S) /\ Len(Append(l, s)) = Len(l) + 1
                           /\ Len(l) \in Nat
  OBVIOUS
<1>3. e \in Seq(S) /\ f \in Seq(S) /\ g \in Seq(S) /\ h \in Seq(S)
  BY <1>2, Zenon
<1>4. Len(y) = Len(e) + Len(f) + Len(g) + Len(h)
  BY <1>3, FourLists
<1>5. \/ Len(e) = Len(a) + 1 /\ f = b /\ g = c /\ h = d
      \/ e = a /\ Len(f) = Len(b) + 1 /\ g = c /\ h = d
      \/ e = a /\ f = b /\ Len(g) = Len(c) + 1 /\ h = d
      \/ e = a /\ f = b /\ g = c /\ Len(h) = Len(d) + 1
  BY <1>2, Zenon
<1>6. /\ Len(a) \in Nat /\ Len(b) \in Nat /\ Len(c) \in Nat /\ Len(d) \in Nat
  BY <1>2
<1>7. CASE Len(e) = Len(a) + 1 /\ f = b /\ g = c /\ h = d
  BY <1>1, <1>4, <1>6, <1>7
<1>8. CASE e = a /\ Len(f) = Len(b) + 1 /\ g = c /\ h = d
  BY <1>1, <1>4, <1>6, <1>8
<1>9. CASE e = a /\ f = b /\ Len(g) = Len(c) + 1 /\ h = d
  BY <1>1, <1>4, <1>6, <1>9
<1>10. CASE e = a /\ f = b /\ g = c /\ Len(h) = Len(d) + 1
  BY <1>1, <1>4, <1>6, <1>10
<1> QED
  BY <1>5, <1>7, <1>8, <1>9, <1>10

\* Options only add to the lists.
LEMMA InvConfigure ==
  ASSUME MergeInv, NEW s \in Sources, Configure(s)
  PROVE  MergeInv'
<1>1. at = 0 /\ Started = 0 /\ Started' = 0 /\ at' = 0
  BY DEF MergeInv, Configure, Started
<1>2. settings \in [Kinds -> Seq(Sources)] /\ Kind[s] \in Kinds
  BY ConfigMergeAssumption DEF MergeInv, MergeTypeOK
<1>3. settings' = [settings EXCEPT ![Kind[s]] = Append(settings[Kind[s]], s)]
  BY DEF Configure
<1>4. settings' \in [Kinds -> Seq(Sources)]
  BY <1>2, <1>3
<1>5. Len(House) \in Nat /\ Len(House') = Len(House) + 1
  <2>1. /\ House = settings["defaults"] \o settings["file"] \o settings["env"] \o settings["flags"]
        /\ House' = settings'["defaults"] \o settings'["file"] \o settings'["env"] \o settings'["flags"]
    BY DEF House, SourcesInHouseOrder
  <2>2. Kinds = {"defaults", "file", "env", "flags"}
    BY DEF Kinds, Rank
  <2>3. \A kind \in Kinds :
          settings'[kind] = IF kind = Kind[s] THEN Append(settings[kind], s) ELSE settings[kind]
    BY <1>2, <1>3
  <2>4. CASE Kind[s] = "defaults"
    <3>1. /\ settings'["defaults"] = Append(settings["defaults"], s)
          /\ settings'["file"] = settings["file"]
          /\ settings'["env"] = settings["env"]
          /\ settings'["flags"] = settings["flags"]
      BY <2>2, <2>3, <2>4
    <3> QED
      BY <1>2, <2>1, <2>2, <3>1, OneSourceMore
  <2>5. CASE Kind[s] = "file"
    <3>1. /\ settings'["defaults"] = settings["defaults"]
          /\ settings'["file"] = Append(settings["file"], s)
          /\ settings'["env"] = settings["env"]
          /\ settings'["flags"] = settings["flags"]
      BY <2>2, <2>3, <2>5
    <3> QED
      BY <1>2, <2>1, <2>2, <3>1, OneSourceMore
  <2>6. CASE Kind[s] = "env"
    <3>1. /\ settings'["defaults"] = settings["defaults"]
          /\ settings'["file"] = settings["file"]
          /\ settings'["env"] = Append(settings["env"], s)
          /\ settings'["flags"] = settings["flags"]
      BY <2>2, <2>3, <2>6
    <3> QED
      BY <1>2, <2>1, <2>2, <3>1, OneSourceMore
  <2>7. CASE Kind[s] = "flags"
    <3>1. /\ settings'["defaults"] = settings["defaults"]
          /\ settings'["file"] = settings["file"]
          /\ settings'["env"] = settings["env"]
          /\ settings'["flags"] = Append(settings["flags"], s)
      BY <2>2, <2>3, <2>7
    <3> QED
      BY <1>2, <2>1, <2>2, <3>1, OneSourceMore
  <2> QED
    BY <1>2, <2>2, <2>4, <2>5, <2>6, <2>7
<1>6. /\ outcome = "options" /\ passed[s] = 0 /\ outcome' = outcome
      /\ passed' = [passed EXCEPT ![s] = Len(House) + 1]
      /\ UNCHANGED <<given, unguarded, leaves, branches, error, k>>
  BY DEF Configure, House
<1>7. MergeTypeOK'
  BY <1>1, <1>4, <1>5, <1>6 DEF MergeInv, MergeTypeOK
<1>8. Listed'
  <2>1. /\ \A kind \in Kinds : \A i \in DOMAIN settings[kind] :
              Kind[settings[kind][i]] = kind /\ passed[settings[kind][i]] \in 1..Len(House)
                /\ settings[kind][i] \in Sources
        /\ \A kind \in Kinds : \A i, j \in DOMAIN settings[kind] :
             i < j => passed[settings[kind][i]] < passed[settings[kind][j]]
    BY <1>2 DEF MergeInv, Listed
  <2>2. passed \in [Sources -> Nat]
    BY DEF MergeInv, MergeTypeOK
  <2>3. ASSUME NEW kind \in Kinds
        PROVE  /\ \A i \in DOMAIN settings'[kind] :
                    Kind[settings'[kind][i]] = kind /\ passed'[settings'[kind][i]] \in 1..Len(House')
               /\ \A i, j \in DOMAIN settings'[kind] :
                    i < j => passed'[settings'[kind][i]] < passed'[settings'[kind][j]]
    <3>1. \A i \in DOMAIN settings[kind] :
            /\ settings[kind][i] # s /\ passed'[settings[kind][i]] = passed[settings[kind][i]]
            /\ passed[settings[kind][i]] \in Nat /\ passed[settings[kind][i]] <= Len(House)
            /\ passed[settings[kind][i]] >= 1
      BY <1>5, <1>6, <2>1, <2>2
    <3>2. CASE kind # Kind[s]
      <4>1. settings'[kind] = settings[kind]
        BY <1>2, <1>3, <3>2
      <4> QED
        BY <4>1, <3>1, <2>1, <1>5
    <3>3. CASE kind = Kind[s]
      <4> DEFINE l == settings[kind]
                 m == settings'[kind]
      <4>1. l \in Seq(Sources) /\ m = Append(l, s)
        BY <1>2, <1>3, <3>3
      <4>2. passed'[s] = Len(House) + 1
        BY <1>6, <2>2
      <4> HIDE DEF l, m
      <4>3. /\ DOMAIN l = 1..Len(l) /\ Len(l) \in Nat /\ DOMAIN m = 1..Len(l) + 1
            /\ m[Len(l) + 1] = s /\ \A i \in 1..Len(l) : m[i] = l[i]
        BY <4>1
      <4>4. \A i \in DOMAIN m : i = Len(l) + 1 \/ i \in DOMAIN l
        BY <4>3
      <4>5. \A i \in DOMAIN l : /\ m[i] = l[i] /\ Kind[l[i]] = kind
                                /\ passed'[l[i]] \in Nat /\ passed'[l[i]] <= Len(House)
                                /\ passed'[l[i]] >= 1
        BY <4>3, <3>1, <2>1 DEF l
      <4>6. \A i, j \in DOMAIN l : i < j => passed'[l[i]] < passed'[l[j]]
        BY <3>1, <2>1 DEF l
      <4>7. \A i \in DOMAIN m : Kind[m[i]] = kind /\ passed'[m[i]] \in 1..Len(House')
        BY <4>2, <4>3, <4>4, <4>5, <1>5, <3>3
      <4>8. ASSUME NEW i \in DOMAIN m, NEW j \in DOMAIN m, i < j
            PROVE  passed'[m[i]] < passed'[m[j]]
        <5>1. i \in DOMAIN l
          BY <4>3, <4>4, <4>8
        <5>2. CASE j \in DOMAIN l
          BY <5>1, <5>2, <4>5, <4>6, <4>8
        <5>3. CASE j = Len(l) + 1
          BY <5>1, <5>3, <4>2, <4>3, <4>5, <1>5
        <5> QED
          BY <5>2, <5>3, <4>4
      <4> QED
        BY <4>7, <4>8 DEF m
    <3> QED
      BY <3>2, <3>3
  <2> QED
    BY <2>3 DEF Listed
<1>9. SoFar'
  BY <1>1, <1>5, <1>6 DEF MergeInv, SoFar
<1>10. Koanf'
  BY <1>1, <1>6 DEF MergeInv, Koanf
<1>11. Guard'
  BY <1>1, <1>6 DEF MergeInv, Guard, Guarded
<1> QED
  BY <1>1, <1>6, <1>7, <1>8, <1>9, <1>10, <1>11 DEF MergeInv, CollisionIsReal

LEMMA HouseStays ==
  ASSUME settings' = settings
  PROVE  House' = House
BY DEF House, SourcesInHouseOrder

\* Steps that only say where build is.
LEMMA InvOutcome ==
  ASSUME MergeInv,
         UNCHANGED <<settings, passed, at, given, unguarded, leaves, branches, error, k>>,
         \/ outcome = "options" /\ outcome' = "merging"
         \/ outcome = "merging" /\ outcome' = "unreadable"
         \/ outcome = "merging" /\ outcome' = "loaded" /\ at = Len(House)
         \/ outcome' = outcome
  PROVE  MergeInv'
<1>1. House' = House
  BY HouseStays
<1>2. Started' = Started /\ Current' = Current /\ Guarded' = Guarded
  BY <1>1 DEF Started, Current, Guarded, House
<1>3. MergeTypeOK' /\ Listed'
  BY <1>1 DEF MergeInv, MergeTypeOK, Listed
<1>4. SoFar' /\ Koanf'
  BY <1>1, <1>2 DEF MergeInv, SoFar, WellRead, Koanf
<1>5. Guard'
  BY <1>2 DEF MergeInv, Guard
<1>6. CollisionIsReal'
  BY DEF MergeInv, CollisionIsReal
<1> QED
  BY <1>1, <1>3, <1>4, <1>5, <1>6 DEF MergeInv

\* A source is read once, and a default in it is of a key nothing else has set.
LEMMA InvRead ==
  ASSUME MergeInv, Read
  PROVE  MergeInv'
<1> DEFINE n == at + 1
<1>1. /\ outcome = "merging" /\ outcome' = "adding" /\ at < Len(House)
      /\ UNCHANGED <<settings, passed, at, leaves, branches, error, k>>
  BY DEF Read, House
<1>2. House' = House /\ Current' = Current /\ Current = House[n]
  BY <1>1, HouseStays DEF Current, House
<1>3. /\ House \in Seq(Sources) /\ Len(House) \in Nat /\ at \in Nat /\ n \in 1..Len(House)
      /\ \A i, j \in 1..Len(House) : House[i] = House[j] => i = j
  BY <1>1, HouseOrder DEF MergeInv, MergeTypeOK
<1>4. Current \in Sources /\ Kind[Current] \in Kinds /\ \A i \in 1..at : House[i] # Current
  BY <1>2, <1>3, ConfigMergeAssumption
<1>5. PICK r \in Reads(Kind[Current]) :
        given' = [given EXCEPT ![Current] = r] /\ unguarded' = r.read
  BY DEF Read
<1>6. /\ r \in [read : SUBSET KeySet, defaulted : SUBSET KeySet]
      /\ CollisionFree(r.read)
      /\ \A p \in r.defaulted : p \in r.read /\ p \notin DOMAIN k
  BY <1>4, WhatIsRead
<1>7. given \in [Sources -> [read : SUBSET KeySet, defaulted : SUBSET KeySet]]
  BY DEF MergeInv, MergeTypeOK
<1>8. given'[Current] = r /\ \A s \in Sources \ {Current} : given'[s] = given[s]
  BY <1>4, <1>5, <1>7
<1>9. \A i \in 1..at : House[i] \in Sources \ {Current} /\ given'[House[i]] = given[House[i]]
  <2>1. \A i \in 1..at : i \in 1..Len(House)
    BY <1>1, <1>3
  <2>2. \A i \in 1..at : House[i] \in Sources \ {Current}
    BY <2>1, <1>3, <1>4
  <2> QED
    BY <2>2, <1>8
<1>10. Started = at /\ Started' = n
  BY <1>1, <1>3 DEF Started
<1>11. MergeTypeOK'
  BY <1>1, <1>2, <1>5, <1>6, <1>7 DEF MergeInv, MergeTypeOK
<1>12. Listed'
  BY <1>1, <1>2 DEF MergeInv, Listed
<1>13. SoFar'
  <2>1. ASSUME NEW i \in 1..at PROVE WellRead(i)'
    <3>1. WellRead(i)
      BY <1>10, <2>1 DEF MergeInv, SoFar
    <3>2. \A j \in 1..(i - 1) : j \in 1..at
      BY <1>3
    <3> QED
      BY <3>1, <3>2, <1>2, <1>9 DEF WellRead
  <2>2. ASSUME NEW i \in 1..Len(House), i = n PROVE WellRead(i)'
    <3>1. \A j \in 1..at : given[House[j]].read \subseteq DOMAIN k
      BY DEF MergeInv, Koanf
    <3>2. i - 1 = at
      BY <1>3, <2>2
    <3>3. \A p \in r.defaulted : \A j \in 1..(i - 1) : p \notin given'[House[j]].read
      BY <3>1, <3>2, <1>6, <1>9
    <3>4. given'[House[i]] = r
      BY <1>2, <1>8, <2>2
    <3> QED
      BY <3>3, <3>4, <1>2, <1>6 DEF WellRead
  <2>3. \A i \in 1..n : i \in 1..at \/ i = n
    BY <1>3
  <2>4. ASSUME NEW s \in Sources, given'[s].read # {} PROVE \E i \in 1..n : s = House[i]
    <3>1. CASE s = Current
      BY <3>1, <1>2, <1>3
    <3>2. CASE s # Current
      <4>1. given[s].read # {}
        BY <3>2, <2>4, <1>8
      <4>2. PICK i \in 1..at : s = House[i]
        BY <4>1, <1>10 DEF MergeInv, SoFar
      <4> QED
        BY <4>2, <1>3
    <3> QED
      BY <3>1, <3>2
  <2>5. Started' > at' /\ Started' <= Len(House)
    BY <1>1, <1>3, <1>10
  <2>6. unguarded' \subseteq given'[Current'].read
    BY <1>2, <1>5, <1>8
  <2>7. \A i \in 1..Started' : WellRead(i)'
    <3> ASSUME NEW i \in 1..n PROVE WellRead(i)'
      BY <2>1, <2>2, <2>3, <1>3
    <3> QED
      BY <1>10
  <2> QED
    BY <2>4, <2>5, <2>6, <2>7, <1>2, <1>10 DEF SoFar
<1>14. Koanf'
  <2>1. \A i \in 1..at : \A j \in (i + 1)..at : j \in 1..at
    BY <1>3
  <2> QED
    BY <2>1, <1>1, <1>2, <1>9 DEF MergeInv, Koanf
<1>15. Guard'
  <2>1. Guarded = {} /\ Guarded' = {}
    BY <1>1, <1>2, <1>3, <1>5, <1>8, <1>10 DEF Guarded
  <2>2. given[Current].read = {}
    <3>1. ~ \E i \in 1..at : Current = House[i]
      BY <1>4
    <3> QED
      BY <3>1, <1>4, <1>10 DEF MergeInv, SoFar
  <2>3. \A q \in DOMAIN branches :
          branches[q].source \in Sources /\ branches[q].leaf \in given'[branches[q].source].read
    BY <2>2, <1>8 DEF MergeInv, Guard
  <2> QED
    BY <2>1, <2>3, <1>1 DEF MergeInv, Guard
<1> QED
  BY <1>1, <1>11, <1>12, <1>13, <1>14, <1>15 DEF MergeInv, CollisionIsReal

\* What is known while the guard looks at a source.
LEMMA WhileAdding ==
  ASSUME MergeInv, outcome = "adding"
  PROVE  /\ House \in Seq(Sources) /\ Len(House) \in Nat /\ at \in Nat
         /\ at + 1 \in 1..Len(House) /\ at < Len(House) /\ Started = at + 1
         /\ \A i, j \in 1..Len(House) : House[i] = House[j] => i = j
         /\ Current = House[at + 1] /\ Current \in Sources
         /\ CollisionFree(given[Current].read) /\ given[Current].read \subseteq KeySet
         /\ unguarded \subseteq given[Current].read
         /\ Guarded = given[Current].read \ unguarded
         /\ DOMAIN leaves \subseteq KeySet
<1>1. at \in 0..Len(House) /\ Started = at + 1 /\ Started <= Len(House) /\ Len(House) \in Nat
  BY HouseOrder DEF MergeInv, MergeTypeOK, SoFar, Started
<1>2. at + 1 \in 1..Len(House) /\ at < Len(House) /\ at \in Nat /\ Started > at
  BY <1>1
<1>3. Current = House[at + 1] /\ Current \in Sources
  BY <1>2, HouseOrder DEF MergeInv, Current, House
<1>4. WellRead(at + 1)
  BY <1>1, <1>2 DEF MergeInv, SoFar
<1>5. CollisionFree(given[Current].read) /\ given[Current].read \subseteq KeySet
  BY <1>3, <1>4 DEF WellRead, MergeInv, MergeTypeOK
<1>6. unguarded \subseteq given[Current].read /\ Guarded = given[Current].read \ unguarded
  BY <1>2 DEF MergeInv, SoFar, Guarded
<1> QED
  BY <1>1, <1>2, <1>3, <1>5, <1>6, HouseOrder DEF MergeInv, MergeTypeOK

\* A key that collides is reported with what it collides with.
LEMMA InvCollide ==
  ASSUME MergeInv, outcome = "adding", NEW key \in unguarded,
         NEW scalar, NEW scalarSource, NEW nested, NEW nestedSource,
         Collide(scalar, scalarSource, nested, nestedSource),
         UNCHANGED <<settings, passed, at, given, k>>,
         Below(nested, scalar), scalar \in given[scalarSource].read,
         nested \in given[nestedSource].read, scalar \in DOMAIN k => k[scalar] = scalarSource
  PROVE  MergeInv'
<1>1. outcome' = "collision" /\ UNCHANGED <<unguarded, leaves, branches>>
  BY DEF Collide
<1>2. House' = House
  BY HouseStays
<1>3. Started' = Started /\ Current' = Current /\ Guarded' = Guarded
  BY <1>1, <1>2 DEF Started, Current, Guarded, House
<1>4. MergeTypeOK' /\ Listed'
  BY <1>1, <1>2 DEF MergeInv, MergeTypeOK, Listed
<1>5. SoFar' /\ Koanf'
  BY <1>1, <1>2, <1>3 DEF MergeInv, SoFar, WellRead, Koanf
<1>6. Guard'
  BY <1>1, <1>3 DEF MergeInv, Guard
<1>7. CollisionIsReal'
  BY DEF CollisionIsReal, Collide
<1> QED
  BY <1>1, <1>4, <1>5, <1>6, <1>7 DEF MergeInv

\* A key that collides with nothing leaves the guard without a collision.
LEMMA InvRecord ==
  ASSUME MergeInv, outcome = "adding", NEW key \in unguarded, Record(Current, key),
         ParentPaths(key) \cap DOMAIN leaves = {}, key \notin DOMAIN branches,
         UNCHANGED <<settings, passed, at, given, k>>
  PROVE  MergeInv'
<1>1. /\ House \in Seq(Sources) /\ Len(House) \in Nat /\ at \in Nat
      /\ Started = at + 1 /\ Started > at
      /\ Current \in Sources
      /\ given[Current].read \subseteq KeySet
      /\ unguarded \subseteq given[Current].read
      /\ Guarded = given[Current].read \ unguarded
      /\ DOMAIN leaves \subseteq KeySet
  BY WhileAdding
<1>2. /\ outcome' = outcome /\ unguarded' = unguarded \ {key} /\ error' = error
      /\ leaves' = Over([p \in {key} |-> Current], leaves)
      /\ branches' = Over(branches, [p \in ParentPaths(key) |-> [leaf |-> key, source |-> Current]])
  BY DEF Record
<1>3. House' = House
  BY HouseStays
<1>4. Started' = Started /\ Current' = Current
  BY <1>2, <1>3 DEF Started, Current, House
<1>5. Guarded' = Guarded \cup {key} /\ key \in KeySet /\ key \in given[Current].read
  BY <1>1, <1>2, <1>4 DEF Guarded
<1>6. /\ DOMAIN leaves' = DOMAIN leaves \cup {key}
      /\ leaves'[key] = Current /\ \A p \in DOMAIN leaves \ {key} : leaves'[p] = leaves[p]
  BY <1>2 DEF Over
<1>7. /\ DOMAIN branches' = DOMAIN branches \cup ParentPaths(key)
      /\ \A q \in DOMAIN branches : branches'[q] = branches[q]
      /\ \A q \in ParentPaths(key) \ DOMAIN branches :
           branches'[q] = [leaf |-> key, source |-> Current]
  BY <1>2 DEF Over
<1>8. MergeTypeOK'
  <2>1. leaves' \in [DOMAIN leaves' -> Sources] /\ DOMAIN leaves' \subseteq KeySet
    <3>1. leaves \in [DOMAIN leaves -> Sources]
      BY DEF MergeInv, MergeTypeOK
    <3>2. \A p \in DOMAIN leaves' : leaves'[p] \in Sources
      BY <3>1, <1>1, <1>6
    <3>3. leaves' = [p \in DOMAIN leaves' |-> leaves'[p]]
      BY <1>2 DEF Over
    <3> QED
      BY <3>2, <3>3, <1>1, <1>5, <1>6
  <2> QED
    BY <2>1, <1>2, <1>3 DEF MergeInv, MergeTypeOK
<1>9. Listed'
  BY <1>3 DEF MergeInv, Listed
<1>10. SoFar' /\ Koanf'
  <2>1. \A i : WellRead(i)' <=> WellRead(i)
    BY <1>2, <1>3 DEF WellRead
  <2>2. SoFar'
    BY <1>2, <1>3, <1>4, <2>1 DEF MergeInv, SoFar
  <2>3. Koanf'
    BY <1>2, <1>3 DEF MergeInv, Koanf
  <2> QED
    BY <2>2, <2>3
<1>11. Guard'
  <2>1. /\ DOMAIN leaves = DOMAIN k \cup Guarded
        /\ \A p \in DOMAIN k \ Guarded : leaves[p] = k[p]
        /\ \A p \in Guarded : leaves[p] = Current
        /\ CollisionFree(DOMAIN leaves)
        /\ \A p \in DOMAIN leaves : ParentPaths(p) \subseteq DOMAIN branches
        /\ \A q \in DOMAIN branches :
             /\ branches[q].leaf \in DOMAIN leaves /\ q \in ParentPaths(branches[q].leaf)
             /\ branches[q].source \in Sources
             /\ branches[q].leaf \in given[branches[q].source].read
    BY DEF MergeInv, Guard
  <2>2. DOMAIN leaves' = DOMAIN k \cup Guarded'
    BY <2>1, <1>5, <1>6
  <2>3. /\ \A p \in DOMAIN k \ Guarded' : leaves'[p] = k[p]
        /\ \A p \in Guarded' : leaves'[p] = Current
    BY <2>1, <1>5, <1>6
  <2>4. CollisionFree(DOMAIN leaves')
    <3> SUFFICES ASSUME NEW p \in DOMAIN leaves \cup {key}, NEW q \in DOMAIN leaves \cup {key},
                        Below(p, q)
                 PROVE  FALSE
      BY <1>6 DEF CollisionFree
    <3>1. p \in KeySet /\ q \in KeySet /\ q \in ParentPaths(p)
      BY <1>1, <1>5, ParentsAreAbove
    <3>2. CASE p \in DOMAIN leaves
      <4>1. q \in DOMAIN branches
        BY <3>1, <3>2, <2>1
      <4>2. q \notin DOMAIN leaves
        BY <3>2, <2>1 DEF CollisionFree
      <4> QED
        BY <4>1, <4>2
    <3>3. CASE p = key
      <4>1. q \notin DOMAIN leaves
        BY <3>1, <3>3
      <4>2. ~Below(key, key)
        <5>1. Len(key) \in Nat
          BY <1>5, ConfigMergeAssumption
        <5> QED
          BY <5>1 DEF Below
      <4> QED
        BY <3>3, <4>1, <4>2
    <3> QED
      BY <3>2, <3>3
  <2>5. \A p \in DOMAIN leaves' : ParentPaths(p) \subseteq DOMAIN branches'
    BY <2>1, <1>6, <1>7
  <2>6. ASSUME NEW q \in DOMAIN branches'
        PROVE  /\ branches'[q].leaf \in DOMAIN leaves' /\ q \in ParentPaths(branches'[q].leaf)
               /\ branches'[q].source \in Sources
               /\ branches'[q].leaf \in given[branches'[q].source].read
    <3>1. CASE q \in DOMAIN branches
      BY <3>1, <2>1, <1>6, <1>7
    <3>2. CASE q \notin DOMAIN branches
      BY <3>2, <1>1, <1>5, <1>6, <1>7
    <3> QED
      BY <3>1, <3>2
  <2> QED
    BY <2>2, <2>3, <2>4, <2>5, <2>6, <1>4 DEF Guard, ParentPaths
<1> QED
  BY <1>2, <1>8, <1>9, <1>10, <1>11 DEF MergeInv, CollisionIsReal

LEMMA InvAddKey ==
  ASSUME MergeInv, AddKey
  PROVE  MergeInv'
<1> DEFINE key == First(unguarded)
           owned == ParentPaths(key) \cap DOMAIN leaves
           scalar == Shortest(owned)
<1>1. outcome = "adding" /\ unguarded # {} /\ UNCHANGED <<settings, passed, at, given, k>>
  BY DEF AddKey
<1>2. key \in unguarded /\ key \in KeySet /\ key \in given[Current].read
  BY <1>1, WhileAdding, FirstIsOne
<1>3. /\ DOMAIN leaves = DOMAIN k \cup Guarded /\ DOMAIN leaves \subseteq KeySet
      /\ \A p \in DOMAIN k \ Guarded : leaves[p] = k[p]
      /\ CollisionFree(DOMAIN leaves)
      /\ \A q \in DOMAIN branches :
           /\ branches[q].leaf \in DOMAIN leaves /\ q \in ParentPaths(branches[q].leaf)
           /\ branches[q].leaf \in given[branches[q].source].read
  BY DEF MergeInv, MergeTypeOK, Guard
<1>4. CASE owned # {} /\ Collide(scalar, leaves[scalar], key, Current)
  <2>1. scalar \in ParentPaths(key) /\ scalar \in DOMAIN leaves /\ scalar \in KeySet
    <3>1. owned \in SUBSET KeySet
      BY <1>3
    <3> HIDE DEF owned
    <3>2. scalar \in owned
      BY <3>1, <1>4, ShortestIsOne
    <3> QED
      BY <3>1, <3>2 DEF owned
  <2> HIDE DEF key, owned, scalar
  <2>2. Below(key, scalar)
    BY <2>1, <1>2, ParentsAreAbove
  <2>3. scalar \notin Guarded
    BY <2>2, <1>1, <1>2, WhileAdding DEF CollisionFree
  <2>4. scalar \in DOMAIN k /\ leaves[scalar] = k[scalar]
    BY <2>1, <2>3, <1>3
  <2>5. scalar \in given[leaves[scalar]].read
    BY <2>4 DEF MergeInv, Koanf
  <2> QED
    BY <1>1, <1>2, <1>4, <2>2, <2>4, <2>5, InvCollide
<1>5. CASE key \in DOMAIN branches
             /\ Collide(key, Current, branches[key].leaf, branches[key].source)
  <2> HIDE DEF key, owned, scalar
  <2>1. /\ branches[key].leaf \in DOMAIN leaves /\ key \in ParentPaths(branches[key].leaf)
        /\ branches[key].leaf \in given[branches[key].source].read
    BY <1>3, <1>5
  <2>2. Below(branches[key].leaf, key)
    BY <2>1, <1>2, <1>3, ParentsAreAbove
  <2>3. key \notin DOMAIN k
    BY <2>1, <2>2, <1>3 DEF CollisionFree
  <2> QED
    BY <1>1, <1>2, <1>5, <2>1, <2>2, <2>3, InvCollide
<1>6. CASE owned = {} /\ key \notin DOMAIN branches /\ Record(Current, key)
  BY <1>1, <1>2, <1>6, InvRecord
<1> QED
  BY <1>4, <1>5, <1>6 DEF AddKey

\* What the guard has let pass is merged without a loss.
LEMMA InvMerge ==
  ASSUME MergeInv, Merge
  PROVE  MergeInv'
<1> DEFINE n == at + 1
           read == given[Current].read
<1>1. /\ outcome = "adding" /\ unguarded = {} /\ at' = n /\ outcome' = "merging"
      /\ k' = Loaded(Current, read)
      /\ UNCHANGED <<settings, passed, given, unguarded, leaves, branches, error>>
  BY DEF Merge
<1>2. /\ House \in Seq(Sources) /\ Len(House) \in Nat /\ at \in Nat
      /\ n \in 1..Len(House) /\ Started = n
      /\ Current = House[n] /\ Current \in Sources
      /\ Guarded = read /\ read \subseteq KeySet
  BY <1>1, WhileAdding
<1>3. House' = House
  BY <1>1, HouseStays
<1>4. Started' = n /\ Guarded' = {}
  BY <1>1, <1>2 DEF Started, Guarded
<1>5. /\ DOMAIN leaves = DOMAIN k \cup read
      /\ \A p \in DOMAIN k \ read : leaves[p] = k[p]
      /\ \A p \in read : leaves[p] = Current
      /\ CollisionFree(DOMAIN leaves) /\ DOMAIN leaves \subseteq KeySet
  BY <1>2 DEF MergeInv, Guard, MergeTypeOK
<1>6. DOMAIN k' = DOMAIN leaves /\ \A p \in DOMAIN k' : k'[p] = leaves[p]
  <2>1. \A q \in DOMAIN k : CollisionFree(read \cup {q})
    BY <1>5 DEF CollisionFree
  <2>2. read \cup {q \in DOMAIN k : CollisionFree(read \cup {q})} = DOMAIN leaves
    BY <2>1, <1>5
  <2>3. k' = [p \in DOMAIN leaves |-> IF p \in read THEN Current ELSE k[p]]
    BY <2>2, <1>1 DEF Loaded
  <2> QED
    BY <2>3, <1>5
<1>7. MergeTypeOK'
  <2>1. k' \in [DOMAIN k' -> Sources] /\ DOMAIN k' \subseteq KeySet
    <3>1. leaves \in [DOMAIN leaves -> Sources]
      BY DEF MergeInv, MergeTypeOK
    <3>2. k' = [p \in DOMAIN k' |-> k'[p]]
      BY <1>1 DEF Loaded
    <3> QED
      BY <3>1, <3>2, <1>5, <1>6
  <2> QED
    BY <2>1, <1>1, <1>2, <1>3 DEF MergeInv, MergeTypeOK
<1>8. Listed'
  BY <1>1, <1>3 DEF MergeInv, Listed
<1>9. SoFar'
  <2>1. \A i : WellRead(i)' <=> WellRead(i)
    BY <1>1, <1>3 DEF WellRead
  <2>2. ~(Started' > at')
    BY <1>1, <1>2, <1>4
  <2> QED
    BY <2>1, <2>2, <1>1, <1>2, <1>3, <1>4 DEF MergeInv, SoFar
<1>10. Koanf'
  <2>1. ASSUME NEW i \in 1..n PROVE given[House[i]].read \subseteq DOMAIN k'
    <3>1. CASE i = n
      BY <3>1, <1>2, <1>5, <1>6
    <3>2. CASE i # n
      <4>1. i \in 1..at
        BY <3>2, <1>2
      <4> QED
        BY <4>1, <1>5, <1>6 DEF MergeInv, Koanf
    <3> QED
      BY <3>1, <3>2
  <2>2. ASSUME NEW p \in DOMAIN k'
        PROVE  \E i \in 1..n : /\ k'[p] = House[i] /\ p \in given[House[i]].read
                               /\ \A j \in (i + 1)..n : p \notin given[House[j]].read
    <3>1. CASE p \in read
      <4>1. k'[p] = House[n] /\ p \in given[House[n]].read /\ (n + 1)..n = {} /\ n \in 1..n
        BY <3>1, <1>2, <1>5, <1>6
      <4> QED
        BY <4>1
    <3>2. CASE p \notin read
      <4>1. p \in DOMAIN k /\ k'[p] = k[p]
        BY <3>2, <1>5, <1>6
      <4>2. PICK i \in 1..at : /\ k[p] = House[i] /\ p \in given[House[i]].read
                               /\ \A j \in (i + 1)..at : p \notin given[House[j]].read
        BY <4>1 DEF MergeInv, Koanf
      <4>3. i \in 1..n /\ \A j \in (i + 1)..n : j \in (i + 1)..at \/ j = n
        BY <1>2
      <4>4. \A j \in (i + 1)..n : p \notin given[House[j]].read
        BY <4>2, <4>3, <3>2, <1>2
      <4> QED
        BY <4>1, <4>2, <4>3, <4>4
    <3> QED
      BY <3>1, <3>2
  <2> QED
    BY <2>1, <2>2, <1>1, <1>3 DEF Koanf
<1>11. Guard'
  <2>1. CollisionFree(DOMAIN leaves)' /\ DOMAIN leaves' = DOMAIN k' \cup Guarded'
    BY <1>1, <1>4, <1>5, <1>6
  <2> QED
    BY <2>1, <1>1, <1>4, <1>6 DEF MergeInv, Guard
<1> QED
  BY <1>1, <1>7, <1>8, <1>9, <1>10, <1>11 DEF MergeInv, CollisionIsReal

LEMMA MergeInvStep == MergeInv /\ [MergeNext]_mergeVars => MergeInv'
<1> SUFFICES ASSUME MergeInv, [MergeNext]_mergeVars PROVE MergeInv'
  OBVIOUS
<1>1. CASE Build \/ ReadFails \/ ReturnMerged \/ UNCHANGED mergeVars
  BY <1>1, InvOutcome DEF Build, ReadFails, ReturnMerged, mergeVars, House
<1> QED
  BY <1>1, InvConfigure, InvRead, InvAddKey, InvMerge DEF MergeNext, Built

\* While the sources are merged, the koanf has every key they were read to set.
THEOREM MergeInvariant == MergeSpec => []MergeInv
BY MergeInvInit, MergeInvStep, PTL DEF MergeSpec

LEMMA AllKept ==
  ASSUME MergeInv
  PROVE  NothingDiscarded
<1> SUFFICES ASSUME outcome = "loaded", NEW s \in Sources, NEW p \in given[s].read
             PROVE  /\ p \in DOMAIN k
                    /\ SetBy(p) # {} =>
                         k[p] \in SetBy(p) /\ \A t \in SetBy(p) \ {k[p]} : Beats(k[p], t)
  BY DEF NothingDiscarded
<1>1. /\ at = Len(House) /\ Started = at /\ at \in Nat /\ House \in Seq(Sources)
      /\ \A i, j \in 1..Len(House) : i < j => Beats(House[j], House[i])
  BY HouseOrder DEF MergeInv, Started
<1>2. \A t \in Sources : given[t].read # {} => \E i \in 1..at : t = House[i]
  BY <1>1 DEF MergeInv, SoFar
<1>3. p \in DOMAIN k
  BY <1>2 DEF MergeInv, Koanf
<1>4. PICK n \in 1..at : /\ k[p] = House[n] /\ p \in given[House[n]].read
                         /\ \A j \in (n + 1)..at : p \notin given[House[j]].read
  BY <1>3 DEF MergeInv, Koanf
<1>5. ASSUME NEW t \in SetBy(p)
      PROVE  \E j \in 1..n : t = House[j]
  <2>1. t \in Sources /\ p \in given[t].read
    BY <1>5 DEF SetBy
  <2>2. PICK j \in 1..at : t = House[j]
    BY <2>1, <1>2
  <2>3. ~(j \in (n + 1)..at)
    BY <2>1, <2>2, <1>4
  <2> QED
    BY <2>2, <2>3, <1>1
<1>6. ASSUME SetBy(p) # {} PROVE k[p] \in SetBy(p)
  <2>1. k[p] \in Sources
    BY <1>1, <1>4
  <2>2. CASE p \in given[House[n]].defaulted
    <3>1. WellRead(n)
      BY <1>1 DEF MergeInv, SoFar
    <3>2. \A j \in 1..(n - 1) : p \notin given[House[j]].read
      BY <2>2, <3>1 DEF WellRead
    <3>3. PICK t \in SetBy(p) : TRUE
      BY <1>6
    <3>4. PICK j \in 1..n : t = House[j]
      BY <1>5
    <3>5. p \in given[t].read /\ p \notin given[t].defaulted
      BY <3>3 DEF SetBy
    <3>6. j \in 1..(n - 1) \/ j = n
      BY <1>1
    <3> QED
      BY <2>2, <3>2, <3>4, <3>5, <3>6
  <2>3. CASE p \notin given[House[n]].defaulted
    BY <2>1, <2>3, <1>4 DEF SetBy
  <2> QED
    BY <2>2, <2>3
<1>7. ASSUME NEW t \in SetBy(p) \ {k[p]} PROVE Beats(k[p], t)
  <2>1. PICK j \in 1..n : t = House[j]
    BY <1>5
  <2>2. j # n
    BY <2>1, <1>4, <1>7
  <2>3. j < n /\ j \in 1..Len(House) /\ n \in 1..Len(House)
    BY <2>2, <1>1
  <2> QED
    BY <2>1, <2>3, <1>1, <1>4
<1> QED
  BY <1>3, <1>6, <1>7

\* Whatever is configured in whatever order, a build that succeeds has every key,
\* with the value of the last source that set it (build, sourcesInHouseOrder).
THEOREM NoKeyIsDiscarded == MergeSpec => []NothingDiscarded
BY AllKept, MergeInvariant, PTL

\* A collision that is reported is one (keyGuard.add, CollidingKeysError).
THEOREM CollisionsAreReal == MergeSpec => []CollisionIsReal
<1>1. MergeInv => CollisionIsReal
  BY DEF MergeInv
<1> QED
  BY <1>1, MergeInvariant, PTL
=============================================================================

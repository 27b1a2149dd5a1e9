------------------------------ MODULE LintProofs ------------------------------
(***************************************************************************)
(* The analyzers are right about every file and every package: theorems of *)
(* module Lint, for any set of import paths and any length of a file.      *)
(***************************************************************************)
EXTENDS Lint, SequenceTheorems, WellFoundedInduction, TLAPS

\* Every set of numbers has a least one.
LEMMA LeastNumber ==
  ASSUME NEW S \in SUBSET Nat, S # {}
  PROVE  \E n \in S : \A m \in S : n <= m
<1>1. IsWellFoundedOn(OpToRel(<, Nat), Nat)
  BY NatLessThanWellFounded
<1>2. PICK n \in S : \A m \in S : ~(<<m, n>> \in OpToRel(<, Nat))
  BY <1>1, WFMin
<1>3. ASSUME NEW m \in S PROVE n <= m
  <2>1. <<m, n>> \in OpToRel(<, Nat) <=> <<m, n>> \in Nat \X Nat /\ m < n
    BY Zenon DEF OpToRel
  <2>2. ~(m < n)
    BY <2>1, <1>2
  <2> QED
    BY <2>2
<1> QED
  BY <1>3

-----------------------------------------------------------------------------
(* Files *)

LEMMA FileInit == Init => TypeOK
BY DEF Init, TypeOK

LEMMA FileStep == TypeOK /\ [Next]_vars => TypeOK'
<1> SUFFICES ASSUME TypeOK, [Next]_vars PROVE TypeOK'
  OBVIOUS
<1>1. CASE Import
  BY <1>1 DEF Import, TypeOK
<1>2. CASE Assign
  <2>1. PICK a \in Assignments(rule) : body' = Append(body, a)
    BY <1>2 DEF Assign
  <2>2. body' \in Seq(Assignments(rule)) /\ rule' = rule
    BY <1>2, <2>1 DEF Assign, TypeOK
  <2> QED
    BY <1>2, <2>2 DEF Assign, TypeOK, Assignments
<1>3. CASE UNCHANGED vars
  BY <1>3 DEF TypeOK, vars
<1> QED
  BY <1>1, <1>2, <1>3 DEF Next

-----------------------------------------------------------------------------
(* What a name stands for *)

\* Imports as "_" and "." bind no name, and no name is the call of a method.
LEMMA Names ==
  ASSUME TypeOK, NEW e \in Identifiers(rule)
  PROVE  e \notin {"SDK()", "_", "."}
<1> DEFINE all == {"net/http", "sql", "pgxpool", "os", "attribute", "go-sdk/mcp"}
<1>1. Subject[rule] \in SUBSET all
  BY DEF TypeOK, Analyzers, Subject
<1>2. all = UNION {Subject[r] : r \in DOMAIN Subject}
  BY DEF Subject
<1>3. \A p \in all : Name[p] = (CASE p = "net/http" -> "http" [] p = "go-sdk/mcp" -> "mcp" [] OTHER -> p)
  BY <1>2 DEF Name
<1>4. \A p \in all : Name[p] \notin {"SDK()", "_", "."}
  BY <1>3
<1> QED
  BY <1>1, <1>4, LintAssumption DEF Identifiers

LEMMA NamesOfAnImport ==
  ASSUME TypeOK, NEW path, NEW e \in ImportedPackageNames(path)
  PROVE  /\ \E spec \in Bound(e) : spec.path = path
         /\ e # "SDK()"
<1>1. PICK spec \in imports : spec.path = path /\ spec.as = e /\ e \notin {"_", "."}
  BY DEF ImportedPackageNames
<1>2. spec \in ImportSpecs(rule)
  BY DEF TypeOK
<1>3. spec.as \in Identifiers(rule) \cup {"_", "."}
  BY <1>2 DEF ImportSpecs
<1>4. e \in Identifiers(rule)
  BY <1>1, <1>3
<1> QED
  BY <1>1, <1>4, Names DEF Bound

\* A name that stands for one thing only stands for the path it is imported as.
LEMMA ImportDenotes ==
  ASSUME TypeOK, NEW path, NEW u, NEW e \in ImportedPackageNames(path), Unambiguous(u, e)
  PROVE  Denotes(u.fn, e) = path
<1>1. PICK spec \in Bound(e) : spec.path = path
  BY NamesOfAnImport
<1>2. Local(u.fn, e) = {} /\ \A s \in Bound(e) : s = spec
  BY <1>1 DEF Unambiguous
<1>3. (CHOOSE s \in Bound(e) : TRUE) = spec
  BY <1>1, <1>2
<1> QED
  BY <1>1, <1>2, <1>3, NamesOfAnImport DEF Denotes

\* What a name denotes that no function assigns, a file imports as that name.
LEMMA DenotesAnImport ==
  ASSUME TypeOK, NEW fn, NEW e \in Expressions, NEW path,
         Denotes(fn, e) = path, path \notin {"server", "value", "nothing"}
  PROVE  e \in ImportedPackageNames(path)
<1>1. e # "SDK()" /\ Local(fn, e) = {} /\ Bound(e) # {}
      /\ (CHOOSE s \in Bound(e) : TRUE).path = path
  BY DEF Denotes
<1>2. PICK spec \in Bound(e) : spec.path = path
  BY <1>1
<1>3. e \in Identifiers(rule)
  BY <1>1 DEF Expressions
<1>4. e \notin {"_", "."}
  BY <1>3, Names
<1> QED
  BY <1>2, <1>4 DEF ImportedPackageNames, Bound

\* An identifier that gogamcp tracks holds the server if it stands for one thing.
LEMMA TrackedDenotes ==
  ASSUME TypeOK, NEW u, NEW e, IsSdkServer(u.fn, e), Unambiguous(u, e)
  PROVE  Denotes(u.fn, e) = "server"
<1>1. CASE e = "SDK()"
  BY <1>1 DEF Denotes
<1>2. CASE e # "SDK()"
  <2>1. PICK i \in Local(u.fn, e) : body[i].from = "SDK()"
    BY <1>2 DEF IsSdkServer, SdkBindings, ToSet, Local
  <2>2. Local(u.fn, e) = {i} /\ i \in Nat
    BY <2>1 DEF Unambiguous, Local, TypeOK
  <2>3. Max(Local(u.fn, e)) = i
    BY <2>2 DEF Max
  <2> QED
    BY <1>2, <2>1, <2>2, <2>3 DEF Denotes
<1> QED
  BY <1>1, <1>2

\* What gogamcp does not track it does not see.
LEMMA UntrackedIsUnseen ==
  ASSUME NEW u, NEW e
  PROVE  (u.fn # Outside /\ IsSdkServer(u.fn, e)) \/ Unseen(u, e)
BY DEF IsSdkServer, SdkBindings, ToSet, Local, Unseen

-----------------------------------------------------------------------------
(* Where a package lies *)

LEMMA PathBelow ==
  ASSUME NEW path \in Paths
  PROVE  /\ Len(path) \in Nat /\ DOMAIN path = 1..Len(path)
         /\ Below(Prefix, path) <=> Len(path) >= 1 /\ path[1] = "goga"
         /\ Below(Prefix, path) =>
              /\ path # Prefix <=> Len(path) > 1
              /\ DOMAIN Rel(path) = 1..(Len(path) - 1)
              /\ \A i \in 1..(Len(path) - 1) : Rel(path)[i] = path[i + 1]
              /\ Len(path) > 1 => Head(Rel(path)) = path[2]
         /\ \A o : IsPrefix(Append(Prefix, o), path) <=>
                    Len(path) > 1 /\ path[1] = "goga" /\ path[2] = o
<1> DEFINE S == ToSet(path)
<1>1. path \in Seq(S)
  BY LintAssumption
<1> HIDE DEF S
<1>2. Len(path) \in Nat /\ DOMAIN path = 1..Len(path)
  BY <1>1
<1>3. Below(Prefix, path) <=> Len(path) >= 1 /\ path[1] = "goga"
  BY <1>1, <1>2 DEF Below, Prefix, IsPrefix
<1>4. ASSUME Below(Prefix, path)
      PROVE  /\ path # Prefix <=> Len(path) > 1
             /\ DOMAIN Rel(path) = 1..(Len(path) - 1)
             /\ \A i \in 1..(Len(path) - 1) : Rel(path)[i] = path[i + 1]
             /\ Len(path) > 1 => Head(Rel(path)) = path[2]
  <2>1. Len(path) >= 1 /\ path[1] = "goga"
    BY <1>3, <1>4
  <2>2. path # Prefix <=> Len(path) > 1
    BY <1>1, <1>2, <2>1 DEF Prefix
  <2>3. Rel(path) = SubSeq(path, 2, Len(path))
    BY DEF Rel, Prefix
  <2>4. DOMAIN Rel(path) = 1..(Len(path) - 1)
    BY <1>1, <1>2, <2>1, <2>3
  <2>5. \A i \in 1..(Len(path) - 1) : Rel(path)[i] = path[i + 1]
    BY <1>1, <1>2, <2>1, <2>3
  <2>6. Len(path) > 1 => Head(Rel(path)) = path[2]
    BY <1>1, <1>2, <2>3
  <2> QED
    BY <2>2, <2>4, <2>5, <2>6
<1>5. ASSUME NEW o
      PROVE  IsPrefix(Append(Prefix, o), path) <=>
               Len(path) > 1 /\ path[1] = "goga" /\ path[2] = o
  <2> DEFINE T == {"goga", o}
             a == Append(Prefix, o)
  <2>1. Prefix \in Seq(T) /\ o \in T /\ Len(Prefix) = 1 /\ Prefix[1] = "goga"
    BY DEF Prefix
  <2> HIDE DEF T
  <2>2. a \in Seq(T) /\ Len(a) = 2 /\ a[1] = "goga" /\ a[2] = o
    <3> DEFINE P == Prefix
    <3> HIDE DEF P
    <3>1. P \in Seq(T) /\ o \in T /\ Len(P) = 1 /\ P[1] = "goga" /\ a = Append(P, o)
      BY <2>1 DEF P
    <3>2. \A i \in 1..Len(P) : Append(P, o)[i] = P[i]
      BY <3>1, AppendProperties
    <3>3. Append(P, o) \in Seq(T) /\ Len(Append(P, o)) = Len(P) + 1
          /\ Append(P, o)[Len(P) + 1] = o
      BY <3>1, AppendProperties
    <3>4. Append(P, o)[1] = "goga"
      BY <3>1, <3>2
    <3> QED
      BY <3>1, <3>3, <3>4
  <2> HIDE DEF a
  <2>3. ASSUME Len(path) > 1, path[1] = "goga", path[2] = o PROVE IsPrefix(a, path)
    <3> DEFINE W == S \cup T
               x == SubSeq(a, 1, 2)
               y == SubSeq(path, 1, 2)
    <3>1. x \in Seq(T) /\ y \in Seq(S) /\ Len(x) = 2 /\ Len(y) = 2
      <4>1. x \in Seq(T) /\ Len(x) = 2
        <5>1. \A i \in 1..2 : a[i] \in T
          BY <2>2 DEF T
        <5> QED
          BY <5>1, SubSeqProperties
      <4>2. y \in Seq(S) /\ Len(y) = 2
        BY <1>1, <1>2, <2>3
      <4> QED
        BY <4>1, <4>2
    <3>2. x[1] = a[1] /\ x[2] = a[2] /\ y[1] = path[1] /\ y[2] = path[2]
      BY <1>1, <1>2, <2>2, <2>3
    <3> HIDE DEF x, y
    <3>3. S \subseteq W /\ T \subseteq W
      OBVIOUS
    <3> HIDE DEF W
    <3>4. x \in Seq(W) /\ y \in Seq(W)
      BY <3>1, <3>3, SeqMonotonic
    <3>5. \A i \in 1..Len(x) : x[i] = y[i]
      BY <3>1, <3>2, <2>2, <2>3
    <3>6. x = y
      BY <3>1, <3>4, <3>5, SeqEqual
    <3> QED
      BY <1>2, <2>2, <2>3, <3>6 DEF IsPrefix, x, y
  <2>4. ASSUME IsPrefix(a, path) PROVE Len(path) > 1 /\ path[1] = "goga" /\ path[2] = o
    <3>1. Len(path) > 1 /\ SubSeq(a, 1, 2) = SubSeq(path, 1, 2)
      BY <1>2, <2>2, <2>4 DEF IsPrefix
    <3>2. /\ SubSeq(a, 1, 2)[1] = a[1] /\ SubSeq(a, 1, 2)[2] = a[2]
          /\ SubSeq(path, 1, 2)[1] = path[1] /\ SubSeq(path, 1, 2)[2] = path[2]
      BY <1>1, <1>2, <2>2, <3>1
    <3> QED
      BY <2>2, <3>1, <3>2
  <2> QED
    BY <2>3, <2>4 DEF a
<1> QED
  BY <1>2, <1>3, <1>4, <1>5

\* A name that is not the module's lies below the prefix if it is in the path.
LEMMA NameInPath ==
  ASSUME NEW path \in Paths, Below(Prefix, path), NEW s, s # "goga"
  PROVE  Contains(path, s) <=> s \in ToSet(Rel(path))
<1>1. Len(path) \in Nat /\ Len(path) >= 1 /\ path[1] = "goga"
  BY PathBelow
<1>2. /\ DOMAIN Rel(path) = 1..(Len(path) - 1)
      /\ \A i \in 1..(Len(path) - 1) : Rel(path)[i] = path[i + 1]
  BY PathBelow
<1>3. ASSUME Contains(path, s) PROVE s \in ToSet(Rel(path))
  <2>1. PICK i \in 1..Len(path) : path[i] = s
    BY <1>3 DEF Contains
  <2>2. i - 1 \in 1..(Len(path) - 1)
    BY <1>1, <2>1
  <2>3. Rel(path)[i - 1] = s
    BY <1>1, <1>2, <2>1, <2>2
  <2> QED
    BY <1>2, <2>2, <2>3 DEF ToSet
<1>4. ASSUME s \in ToSet(Rel(path)) PROVE Contains(path, s)
  <2>1. PICK i \in 1..(Len(path) - 1) : Rel(path)[i] = s
    BY <1>2, <1>4 DEF ToSet
  <2>2. i + 1 \in 1..Len(path) /\ path[i + 1] = s
    BY <1>1, <1>2, <2>1
  <2> QED
    BY <2>2 DEF Contains
<1> QED
  BY <1>3, <1>4

\* The analyzers skip what is out of scope, whatever is called like the owner:
\* skipPackage, which goes by the position in the tree.
LEMMA SkippedIsOutOfScope ==
  ASSUME NEW path \in Paths, NEW r
  PROVE  ~SkipPackage(r, path) <=>
           /\ IsPrefix(Prefix, path)
           /\ \A s \in Skipped : ~Contains(path, s)
           /\ ~IsPrefix(Append(Prefix, Owner(r)), path)
<1>1. CASE ~Below(Prefix, path)
  BY <1>1 DEF SkipPackage, Below
<1>2. CASE Below(Prefix, path)
  <2>1. \A s \in Skipped : Contains(path, s) <=> s \in ToSet(Rel(path))
    BY <1>2, NameInPath DEF Skipped
  <2>2. path # Prefix <=> Len(path) > 1
    BY <1>2, PathBelow
  <2>3. IsPrefix(Append(Prefix, Owner(r)), path) <=> Len(path) > 1 /\ path[2] = Owner(r)
    BY <1>2, PathBelow
  <2>4. Len(path) > 1 => Head(Rel(path)) = path[2]
    BY <1>2, PathBelow
  <2>5. path = Prefix => \A s \in Skipped : ~Contains(path, s)
    BY DEF Prefix, Skipped, Contains
  <2> QED
    BY <1>2, <2>1, <2>2, <2>3, <2>4, <2>5 DEF SkipPackage, Below
<1> QED
  BY <1>1, <1>2

\* And so does semconv, which goes by the name.
LEMMA NamedSemconvIsOutOfScope ==
  ASSUME NEW path \in Paths
  PROVE  (Below(Prefix, path) /\ \A s \in ToSet(Rel(path)) : s \notin Skipped \cup {"semconv"})
           <=> /\ IsPrefix(Prefix, path)
               /\ \A s \in Skipped : ~Contains(path, s)
               /\ ~IsPrefix(Append(Prefix, "semconv"), path)
               /\ ~Contains(path, "semconv")
<1>1. CASE ~Below(Prefix, path)
  BY <1>1 DEF Below
<1>2. CASE Below(Prefix, path)
  <2>1. \A s \in Skipped \cup {"semconv"} : Contains(path, s) <=> s \in ToSet(Rel(path))
    BY <1>2, NameInPath DEF Skipped
  <2>2. IsPrefix(Append(Prefix, "semconv"), path) => Contains(path, "semconv")
    <3>1. Len(path) \in Nat
          /\ (IsPrefix(Append(Prefix, "semconv"), path) => Len(path) > 1 /\ path[2] = "semconv")
      BY PathBelow
    <3> QED
      BY <3>1 DEF Contains
  <2> QED
    BY <1>2, <2>1, <2>2 DEF Below
<1> QED
  BY <1>1, <1>2

-----------------------------------------------------------------------------
(* Reports *)

\* A rule that skips the packages out of scope reports in the others alone.
LEMMA ScopeOfARule ==
  ASSUME TypeOK
  PROVE  InScope <=>
           /\ rule # "semconv" => ~SkipPackage(rule, pkg)
           /\ rule = "semconv" =>
                /\ Below(Prefix, pkg)
                /\ \A s \in ToSet(Rel(pkg)) : s \notin Skipped \cup {"semconv"}
           /\ rule = "config" => kind \notin {"main", "test"}
<1>1. pkg \in Paths /\ kind \in {"plain", "test", "main"}
  BY DEF TypeOK
<1>2. kind = "plain" <=> kind \notin {"main", "test"}
  BY <1>1
<1>3. CASE rule = "semconv"
  BY <1>1, <1>2, <1>3, NamedSemconvIsOutOfScope DEF InScope, Owner
<1>4. CASE rule # "semconv"
  BY <1>1, <1>2, <1>4, SkippedIsOutOfScope DEF InScope
<1> QED
  BY <1>3, <1>4

\* No analyzer reports what lies out of its scope.
LEMMA ReportsAreInScope ==
  ASSUME TypeOK, NEW u \in Uses, Reported(u)
  PROVE  InScope
<1>1. CASE rule = "serve"
  BY <1>1, ScopeOfARule DEF Reported, ServeReports
<1>2. CASE rule = "database"
  BY <1>2, ScopeOfARule DEF Reported, DatabaseReports
<1>3. CASE rule = "config"
  BY <1>3, ScopeOfARule DEF Reported, ConfigReports
<1>4. CASE rule = "semconv"
  BY <1>4, ScopeOfARule DEF Reported, SemconvReports
<1>5. CASE rule = "mcp"
  BY <1>5, ScopeOfARule DEF Reported, McpReports
<1> QED
  BY <1>1, <1>2, <1>3, <1>4, <1>5 DEF TypeOK, Analyzers

\* What is selected on the name of an import is selected on its package.
LEMMA SelectedOnPackage ==
  ASSUME TypeOK, NEW u \in Uses, NEW path, NEW sel, sel # "none",
         PackageSelector(u, path) = sel, Unambiguous(u, u.on)
  PROVE  u.sel = sel /\ Denotes(u.fn, u.on) = path
<1>1. u.sel = sel /\ u.on \in ImportedPackageNames(path)
  BY DEF PackageSelector
<1> QED
  BY <1>1, ImportDenotes

\* And the reverse: importedPackageNames knows every name of a package.
LEMMA PackageIsSelected ==
  ASSUME TypeOK, NEW u \in Uses, NEW path, path \notin {"server", "value", "nothing"},
         Denotes(u.fn, u.on) = path, u.shape # "generic"
  PROVE  PackageSelector(u, path) = u.sel
<1>1. u.on \in Expressions
  BY DEF Uses
<1>2. u.on \in ImportedPackageNames(path)
  BY <1>1, DenotesAnImport
<1> QED
  BY <1>2 DEF PackageSelector

\* What is reported goes around the wrapper.
LEMMA ReportsAreBypasses ==
  ASSUME TypeOK, NEW u \in Uses, Reported(u), Unambiguous(u, u.on), Unambiguous(u, u.arg)
  PROVE  Bypasses(u)
<1>1. CASE rule = "serve"
  BY <1>1, SelectedOnPackage DEF Reported, ServeReports, Bypasses
<1>2. CASE rule = "database"
  BY <1>2, SelectedOnPackage DEF Reported, DatabaseReports, Bypasses
<1>3. CASE rule = "config"
  BY <1>3, SelectedOnPackage DEF Reported, ConfigReports, Bypasses
<1>4. CASE rule = "semconv"
  BY <1>4, SelectedOnPackage DEF Reported, SemconvReports, Bypasses
<1>5. CASE rule = "mcp"
  <2>1. CASE MethodCall(u)
    BY <1>5, <2>1, TrackedDenotes DEF MethodCall, Bypasses
  <2>2. CASE PackageCall(u)
    BY <1>5, <2>2, TrackedDenotes, ImportDenotes DEF PackageCall, Bypasses
  <2> QED
    BY <1>5, <2>1, <2>2 DEF Reported, McpReports
<1> QED
  BY <1>1, <1>2, <1>3, <1>4, <1>5 DEF TypeOK, Analyzers

\* What goes around the wrapper is reported, unless gogamcp does not see it.
LEMMA BypassesAreReported ==
  ASSUME TypeOK, NEW u \in Uses, Bypasses(u), InScope
  PROVE  \/ Reported(u)
         \/ rule = "mcp" /\ Unseen(u, IF Denotes(u.fn, u.on) = "server" THEN u.on ELSE u.arg)
<1>1. CASE rule = "serve"
  BY <1>1, ScopeOfARule, PackageIsSelected DEF Reported, ServeReports, Bypasses
<1>2. CASE rule = "database"
  BY <1>2, ScopeOfARule, PackageIsSelected DEF Reported, DatabaseReports, Bypasses
<1>3. CASE rule = "config"
  BY <1>3, ScopeOfARule, PackageIsSelected DEF Reported, ConfigReports, Bypasses
<1>4. CASE rule = "semconv"
  BY <1>4, ScopeOfARule, PackageIsSelected DEF Reported, SemconvReports, Bypasses
<1>5. CASE rule = "mcp"
  <2>1. ~SkipPackage("mcp", pkg)
    BY <1>5, ScopeOfARule
  <2>2. CASE Denotes(u.fn, u.on) = "server"
    <3>1. u.shape = "call" /\ u.sel \in {"AddTool", "AddResource"}
      BY <1>5, <2>2 DEF Bypasses
    <3>2. CASE u.fn # Outside /\ IsSdkServer(u.fn, u.on)
      BY <1>5, <2>1, <3>1, <3>2 DEF Reported, McpReports, MethodCall
    <3> QED
      BY <1>5, <2>2, <3>2, UntrackedIsUnseen
  <2>3. CASE Denotes(u.fn, u.on) # "server"
    <3>1. /\ Denotes(u.fn, u.on) = "go-sdk/mcp" /\ u.shape # "literal"
          /\ u.sel = "AddTool" /\ u.on \in Expressions
      BY <1>5, <2>3 DEF Bypasses, Uses
    <3>2. u.on \in ImportedPackageNames("go-sdk/mcp")
      BY <3>1, DenotesAnImport
    <3>3. CASE u.fn # Outside /\ IsSdkServer(u.fn, u.arg)
      BY <1>5, <2>1, <3>1, <3>2, <3>3 DEF Reported, McpReports, PackageCall
    <3> QED
      BY <1>5, <2>3, <3>3, UntrackedIsUnseen
  <2> QED
    BY <2>2, <2>3
<1> QED
  BY <1>1, <1>2, <1>3, <1>4, <1>5 DEF TypeOK, Analyzers

\* gogalayout reports a path in which a banned segment comes before any that
\* exempts it.
LEMMA OffendingIsBannedFirst ==
  ASSUME NEW path \in Paths
  PROVE  OffendingSegment(path) # "none" <=>
           \E i \in DOMAIN Rel(path) :
             /\ Below(Prefix, path) /\ Rel(path)[i] \in Banned
             /\ \A j \in 1..i : Rel(path)[j] \notin Skipped
<1>1. CASE ~Below(Prefix, path)
  BY <1>1 DEF OffendingSegment
<1>2. CASE Below(Prefix, path)
  <2> DEFINE R == Rel(path)
             known == {i \in DOMAIN R : R[i] \in Skipped \cup Banned}
  <2>1. Len(path) \in Nat /\ DOMAIN R = 1..(Len(path) - 1)
    BY <1>2, PathBelow
  <2>2. OffendingSegment(path) # "none" <=> known # {} /\ R[Min(known)] \in Banned
    <3>1. OffendingSegment(path)
            = IF known # {} /\ R[Min(known)] \in Banned THEN R[Min(known)] ELSE "none"
      BY <1>2 DEF OffendingSegment
    <3>2. "none" \notin Banned
      BY DEF Banned
    <3> QED
      BY <3>1, <3>2
  <2> HIDE DEF R
  <2>3. CASE known = {}
    <3>1. \A i \in DOMAIN R : R[i] \notin Skipped \cup Banned
      BY <2>3
    <3> QED
      BY <2>2, <2>3, <3>1 DEF R
  <2>4. CASE known # {}
    <3>1. known \in SUBSET Nat
      BY <2>1
    <3>2. PICK n \in known : \A m \in known : n <= m
      BY <2>4, <3>1, LeastNumber
    <3>3. Min(known) = n
      BY <3>1, <3>2 DEF Min
    <3>4. ASSUME R[n] \in Banned
          PROVE  \E i \in DOMAIN R : R[i] \in Banned /\ \A j \in 1..i : R[j] \notin Skipped
      <4>1. \A j \in 1..n : R[j] \notin Skipped
        BY <2>1, <3>2, <3>4 DEF Skipped, Banned
      <4> QED
        BY <3>2, <3>4, <4>1
    <3>5. ASSUME NEW i \in DOMAIN R, R[i] \in Banned, \A j \in 1..i : R[j] \notin Skipped
          PROVE  R[n] \in Banned
      <4>1. i \in known
        BY <3>5
      <4>2. n \in 1..i
        BY <2>1, <3>2, <4>1
      <4> QED
        BY <3>2, <3>5, <4>2
    <3> QED
      BY <1>2, <2>2, <2>4, <3>3, <3>4, <3>5 DEF R
  <2> QED
    BY <2>3, <2>4
<1> QED
  BY <1>1, <1>2

\* An analyzer reports a use that bypasses the wrapper and no other, in every
\* file and every package, but for the blind spots its documentation names:
\* PackageSelector, importedPackageNames, skipPackage and sdkBindings.
THEOREM BypassesAreFound == Spec => []FindsTheBypasses
<1>1. Init => TypeOK
  BY FileInit
<1>2. TypeOK /\ [Next]_vars => TypeOK'
  BY FileStep
<1>3. TypeOK => FindsTheBypasses
  <2> SUFFICES ASSUME TypeOK PROVE FindsTheBypasses
    OBVIOUS
  <2>1. \A u \in Uses :
          Reported(u) /\ Unambiguous(u, u.on) /\ Unambiguous(u, u.arg) => Bypasses(u) /\ InScope
    BY ReportsAreBypasses, ReportsAreInScope
  <2>2. \A u \in Uses : Bypasses(u) /\ InScope =>
          \/ Reported(u)
          \/ rule = "mcp" /\ Unseen(u, IF Denotes(u.fn, u.on) = "server" THEN u.on ELSE u.arg)
    BY BypassesAreReported
  <2>3. OffendingSegment(pkg) # "none" <=>
          \E i \in DOMAIN Rel(pkg) :
            /\ Below(Prefix, pkg) /\ Rel(pkg)[i] \in Banned
            /\ \A j \in 1..i : Rel(pkg)[j] \notin Skipped
    BY OffendingIsBannedFirst DEF TypeOK
  <2> QED
    BY <2>1, <2>2, <2>3 DEF FindsTheBypasses
<1> QED
  BY <1>1, <1>2, <1>3, PTL DEF Spec
=============================================================================

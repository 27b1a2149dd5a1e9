--------------------------------- MODULE Lint ---------------------------------
(***************************************************************************)
(* Package lint: what the analyzers report of a file, against what the     *)
(* file really does.  They load syntax alone, so an identifier is judged   *)
(* by the file's imports and, for gogamcp, by the assignments of the       *)
(* function around it; what it denotes is decided by Go's scopes.          *)
(*                                                                         *)
(* The state is a file that is written one import, one assignment at a     *)
(* time; the calls and literals it could contain next are quantified over. *)
(* A dot import binds no identifier and is out of reach of every rule, as  *)
(* are a server that travels through a field, a parameter or a helper and  *)
(* an SDK() method of an unrelated type.  The names of the functions that  *)
(* are triggers are data: one stands for those an analyzer treats alike.   *)
(***************************************************************************)
EXTENDS Naturals, Sequences, SequencesExt, FiniteSets

CONSTANTS
  Paths,     \* import paths of packages under analysis, as their segments
  Alias,     \* an identifier an import or a variable may have
  MaxImports, MaxAssignments \* how long a file may get

ASSUME LintAssumption ==
  /\ \A path \in Paths : path \in Seq(ToSet(path))
  /\ Alias \notin {"SDK()", "_", "."}

VARIABLES
  rule,    \* the analyzer that runs
  pkg,     \* the import path of the package, see Paths
  kind,    \* the file: of a command, a test, or neither
  imports, \* what the file imports, and as what
  body     \* the assignments in its functions, in order

vars == <<rule, pkg, kind, imports, body>>

Prefix == <<"goga">>  \* the module prefix of every analyzer

\* The package that owns what a rule forbids, and may do it.
Owner(r) == r

\* The import paths a rule is about; every one of them has a name of its own,
\* which packages of the project may have, too.
Subject ==
  [serve |-> {"net/http"}, database |-> {"sql", "pgxpool"}, config |-> {"os"},
   semconv |-> {"attribute"}, mcp |-> {"go-sdk/mcp"}]

Name ==
  [p \in UNION {Subject[r] : r \in DOMAIN Subject} |->
    CASE p = "net/http" -> "http" [] p = "go-sdk/mcp" -> "mcp" [] OTHER -> p]

\* The analyzers the plugin contributes besides gogalayout.
Analyzers == {"semconv", "serve", "config", "mcp"}

\* Functions of the file: the one a use is in, if it is in any, and another.
Outside == 0
Functions == {1, 2}

Identifiers(r) == {Name[p] : p \in Subject[r]} \cup {Alias}

\* As "." and "_" an import binds nothing.
ImportSpecs(r) ==
  [path : Subject[r], as : Identifiers(r) \cup {"_", "."}]
    \cup [path : {"project"}, as : Identifiers(r)]

Assignments(r) ==
  [fn : Functions, op : {":=", "var"}, name : Identifiers(r), from : {"SDK()", "value"}]

TypeOK ==
  /\ rule \in Analyzers \cup {"database"} /\ pkg \in Paths
  /\ kind \in {"plain", "test", "main"}
  /\ imports \in SUBSET ImportSpecs(rule)
  /\ body \in Seq(Assignments(rule))

Init ==
  /\ rule \in Analyzers \cup {"database"} /\ pkg \in Paths
  /\ kind \in {"plain", "test", "main"}
  /\ imports = {} /\ body = <<>>

\* Two imports of a file have different names, a path may be imported twice.
Import ==
  /\ body = <<>> /\ Cardinality(imports) < MaxImports
  /\ \E spec \in ImportSpecs(rule) :
       /\ spec.as \in {"_", "."} \/ \A other \in imports : other.as # spec.as
       /\ imports' = imports \cup {spec}
  /\ UNCHANGED <<rule, pkg, kind, body>>

\* Variables matter to gogamcp alone.
Assign ==
  /\ rule = "mcp" /\ Len(body) < MaxAssignments
  /\ \E a \in Assignments(rule) : body' = Append(body, a)
  /\ UNCHANGED <<rule, pkg, kind, imports>>

Next == Import \/ Assign

Spec == Init /\ [][Next]_vars

-----------------------------------------------------------------------------
(* What is written: on.sel(arg, ...), on.sel[T](arg, ...) and on.sel{...} *)

Expressions == Identifiers(rule) \cup {"SDK()"}

Selectors ==
  CASE rule = "serve" -> {"ListenAndServe", "Server", "NewServeMux"}
    [] rule = "database" -> {"Open", "New", "ParseConfig"}
    [] rule = "config" -> {"Getenv", "Setenv"}
    [] rule = "semconv" -> {"String", "NewSet"}
    [] rule = "mcp" -> {"AddTool", "AddResource", "RemoveTools"}

\* A key has a constant in goga/semconv, another string has none.
Arguments ==
  IF rule = "semconv" THEN {"none", "key", "string"} ELSE {"none"} \cup Expressions

Uses ==
  [fn : {Outside, 1}, shape : {"call", "generic", "literal"},
   on : Expressions, sel : Selectors, arg : Arguments]

-----------------------------------------------------------------------------
(* What the analyzers report *)

\* The identifiers the file binds to a path.
ImportedPackageNames(path) ==
  {spec.as : spec \in {i \in imports : i.path = path}} \ {"_", "."}

\* The part of a path below the module prefix.
Rel(path) == SubSeq(path, Len(Prefix) + 1, Len(path))

Below(prefix, path) == IsPrefix(prefix, path)

Skipped == {"testdata", "vendor"}

\* mutant: the owner is exempt wherever its name appears.
SkipAnywhere(r, path) ==
  \/ ~Below(Prefix, path)
  \/ path # Prefix /\ \E s \in ToSet(Rel(path)) : s \in Skipped \cup {Owner(r)}

\* Another module, the owner's subtree, or a subtree nobody should judge.
SkipPackage(r, path) ==
  \/ ~Below(Prefix, path)
  \/ /\ path # Prefix
     /\ \/ Head(Rel(path)) = Owner(r)
        \/ \E s \in ToSet(Rel(path)) : s \in Skipped

\* The selector on a name the file binds to a path; type arguments hide it.
PackageSelector(u, path) ==
  IF u.shape # "generic" /\ u.on \in ImportedPackageNames(path) THEN u.sel ELSE "none"

ServeReports(u) ==
  /\ ~SkipPackage("serve", pkg)
  /\ \/ u.shape = "literal" /\ PackageSelector(u, "net/http") = "Server"
     \/ u.shape = "call" /\ PackageSelector(u, "net/http") = "ListenAndServe"

DatabaseReports(u) ==
  /\ ~SkipPackage("database", pkg)
  /\ u.shape = "call"
  /\ \/ PackageSelector(u, "sql") = "Open"
     \/ PackageSelector(u, "pgxpool") = "New"

\* Only this rule exempts commands and tests.
ConfigReports(u) ==
  /\ ~SkipPackage("config", pkg) /\ kind \notin {"main", "test"}
  /\ u.shape = "call" /\ PackageSelector(u, "os") = "Getenv"

\* Every package called semconv is exempt, not only the one at the top.
SemconvReports(u) ==
  /\ Below(Prefix, pkg)
  /\ \A s \in ToSet(Rel(pkg)) : s \notin Skipped \cup {"semconv"}
  /\ u.shape = "call" /\ PackageSelector(u, "attribute") = "String" /\ u.arg = "key"

\* The identifiers a function assigns from a call of SDK(), wherever in it; a
\* var declaration is no assignment.
SdkBindings(fn) ==
  {a.name : a \in {b \in ToSet(body) : b.fn = fn /\ b.op = ":=" /\ b.from = "SDK()"}}

IsSdkServer(fn, e) == e = "SDK()" \/ e \in SdkBindings(fn)

MethodCall(u) ==
  u.shape = "call" /\ u.sel \in {"AddTool", "AddResource"} /\ IsSdkServer(u.fn, u.on)

\* With or without type arguments.
PackageCall(u) ==
  /\ u.shape # "literal" /\ u.sel = "AddTool"
  /\ u.on \in ImportedPackageNames("go-sdk/mcp")
  /\ IsSdkServer(u.fn, u.arg)

\* Only the bodies of functions are walked.
McpReports(u) ==
  /\ ~SkipPackage("mcp", pkg)
  /\ u.fn # Outside
  /\ MethodCall(u) \/ PackageCall(u)

\* Whatever the analyzer that runs reports.
Reported(u) ==
  CASE rule = "serve" -> ServeReports(u)
    [] rule = "database" -> DatabaseReports(u)
    [] rule = "config" -> ConfigReports(u)
    [] rule = "semconv" -> SemconvReports(u)
    [] rule = "mcp" -> McpReports(u)

Banned == {"internal", "pkg"}

\* gogalayout: the first segment it knows decides.
OffendingSegment(path) ==
  LET known == {i \in DOMAIN Rel(path) : Rel(path)[i] \in Skipped \cup Banned}
      segment == Rel(path)[Min(known)]
  IN  IF Below(Prefix, path) /\ known # {} /\ segment \in Banned THEN segment ELSE "none"

-----------------------------------------------------------------------------
(* What a use does *)

\* The assignments to a name in a function, and the imports as that name.
Local(fn, e) == {i \in DOMAIN body : body[i].fn = fn /\ body[i].name = e}
Bound(e) == {spec \in imports : spec.as = e}

\* The last assignment in the function decides, then the imports.
Denotes(fn, e) ==
  IF e = "SDK()" THEN "server"
  ELSE IF Local(fn, e) # {}
    THEN IF body[Max(Local(fn, e))].from = "SDK()" THEN "server" ELSE "value"
  ELSE IF Bound(e) # {} THEN (CHOOSE spec \in Bound(e) : TRUE).path
  ELSE "nothing"

\* The use goes around goga's wrapper.
Bypasses(u) ==
  LET of == Denotes(u.fn, u.on)
  IN  CASE rule = "serve" ->
             of = "net/http" /\ <<u.shape, u.sel>> \in
               {<<"literal", "Server">>, <<"call", "ListenAndServe">>}
        [] rule = "database" ->
             u.shape = "call" /\ <<of, u.sel>> \in {<<"sql", "Open">>, <<"pgxpool", "New">>}
        [] rule = "config" -> of = "os" /\ u.shape = "call" /\ u.sel = "Getenv"
        [] rule = "semconv" ->
             of = "attribute" /\ u.shape = "call" /\ u.sel = "String" /\ u.arg = "key"
        [] rule = "mcp" ->
             \/ of = "server" /\ u.shape = "call" /\ u.sel \in {"AddTool", "AddResource"}
             \/ /\ of = "go-sdk/mcp" /\ u.shape # "literal" /\ u.sel = "AddTool"
                /\ Denotes(u.fn, u.arg) = "server"

-----------------------------------------------------------------------------
(* Properties *)

\* The package is the module's own and neither the one that owns what the rule
\* forbids nor a fixture.
InScope ==
  /\ IsPrefix(Prefix, pkg)
  /\ \A s \in Skipped : ~Contains(pkg, s)
  /\ ~IsPrefix(Append(Prefix, Owner(rule)), pkg)
  /\ rule = "semconv" => ~Contains(pkg, "semconv")
  /\ rule = "config" => kind = "plain"

\* An identifier stands for one thing wherever the file uses it.
Unambiguous(u, e) ==
  /\ \A i, j \in Local(u.fn, e) : i = j
  /\ \A s, t \in Bound(e) : s = t
  /\ Local(u.fn, e) = {} \/ Bound(e) = {}

\* What gogamcp does not see, as against mcpDoc: a variable that is declared
\* with var, and a function that is not the body of a declaration.
Unseen(u, e) ==
  \/ u.fn = Outside
  \/ e # "SDK()" /\ ~\E i \in Local(u.fn, e) : body[i].op = ":=" /\ body[i].from = "SDK()"

\* A report is never wrong unless a name is used twice, and a bypass in scope
\* goes unreported only where the documentation says so, whatever the imports
\* are called and wherever the package lies (importedPackageNames, "only the
\* import says which one it is"; skipPackage, "a position in the tree, not a
\* name"; sdkBindings, "the one-line edit").
FindsTheBypasses ==
  /\ \A u \in Uses :
       /\ Reported(u) /\ Unambiguous(u, u.on) /\ Unambiguous(u, u.arg) =>
            Bypasses(u) /\ InScope
       /\ Bypasses(u) /\ InScope =>
            \/ Reported(u)
            \/ rule = "mcp" /\ Unseen(u, IF Denotes(u.fn, u.on) = "server" THEN u.on ELSE u.arg)
  /\ OffendingSegment(pkg) # "none" <=>
       \E i \in DOMAIN Rel(pkg) :
         /\ Below(Prefix, pkg) /\ Rel(pkg)[i] \in Banned
         /\ \A j \in 1..i : Rel(pkg)[j] \notin Skipped
=============================================================================

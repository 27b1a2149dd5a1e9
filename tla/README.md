# Verification of goga

TLA+ specifications of goga, model-checked with TLC, and theorems about them
checked with TLAPS. Paths below are relative to the repository's root.

| File | What it is |
| --- | --- |
| `Migrate.tla`, `SerialMigrations.tla`, `MigrateProofs.tla` | package `migrate`; what it promises; the proofs |
| `Serve.tla` | package `serve`: `Run` and its drain |
| `Requests.tla`, `Harness.tla` | `serve`: the handlers `New` builds and the requests in them; `serve/servetest`: its recorder and assertions over those requests |
| `ServeProofs.tla` | the proofs of these three |
| `ConfigWatch.tla` | package `config`: `Load`, reloads, `Close` |
| `ConfigMerge.tla` | `config`: the options, the merge of sources and the collision guard |
| `ConfigProofs.tla` | the proofs of these two |
| `TelemetrySetup.tla`, `TelemetrySetupProofs.tla` | package `telemetry`: `Setup` and `Shutdown` |
| `TelemetryHandle.tla`, `TelemetryHandleProofs.tla` | `telemetry`: `For`, `Start` and its closer |
| `Tx.tla`, `Database.tla`, `DatabaseProofs.tla` | `database.Tx` and `pgxdb.Tx`; the pools below them, opened and cleaned up |
| `Registry.tla`, `Transport.tla` | package `registry`; `mcp.Server.Run`, which resolves its transport through it |
| `Mcp.tla` | package `mcp`: calls from a client to a handler and back |
| `McpProofs.tla` | the proofs of these three |
| `Lint.tla`, `LintProofs.tla` | package `lint`: the six analyzers |
| `MC*.tla`, `MC*.cfg` | the instances TLC checks |
| `PROJECT.json` | components, runs, mutants, map to the source, findings, hazards, theorems |

    tlc -workers 2 -config MCMigrate.cfg MCMigrate     # one run
    tlapm MigrateProofs.tla                            # the proofs of a module

## The system

goga is a library of modules a Go service is composed from. They share no state
of their own; they meet in the process's globals (telemetry), in the pools and
the server of the database, and in the calls the service makes.

| Component | State | Operations | What is hard |
| --- | --- | --- | --- |
| `migrate` | the version table, an advisory lock, a connection pool and the provider's mutex | `Up`, `UpTo`, `Down`, `Status`, `Pending`, `Ready` | replicas that boot together; failure or crash at each statement; lost commit answers; a pool too small for lock and work |
| `serve` | goroutines, the channel of outcomes, each listener's socket; the handlers | `New`, `Run`, `As`; probes | cancellation racing failure; one deadline over several listeners; handlers that never return; checks that change during a probe |
| `serve/servetest` | the recorded spans | `New`, `AssertTracedOnce`, `AssertOpsPathsNotTraced`, ... | a span ends after its response is read; requests beside the counted one |
| `config` | merged keys, the guard, the watch and its timer | `Load`, reload, `Close` | edits during reads; event order and loss; `Close` beside a callback; precedence and nesting of keys |
| `telemetry` | providers, exporters, OpenTelemetry's globals, cached handles | `Setup`, `Shutdown`, `For`, `Start` | failure halfway; several globals replaced one by one under users; two callers of one closer |
| `database`, `pgxdb` | pools, transactions | `Open`, its cleanup, `Tx` | timeout against commit; panics; a pool closed under its users |
| `registry` | a map of constructors | `Register`, `Provide`, `Open`, `Names` | concurrent registration, two looks at the map |
| `mcp` | a session, requests in flight, their contexts and spans | `AddTool`, ..., `Run`; `CallTool`, ... | timeouts on both sides; panics and `Goexit` of functions; the end of context, stream and transport |
| `lint` | none | analyzers | an import, a variable and a package path decide together |
| `goga.Apply`, `semconv`, `sqlcdb` | none | | |

They interact as follows. Every module takes a handle with `telemetry.For` and
calls `Start` around its operations, possibly before `Setup`. `migrate` and
`database.Tx` use the same `*sql.DB` pools. `config` feeds raw settings to
`registry.Open`; `telemetry` keeps its exporters in a registry and `mcp` its
transports, of which the listening ones run on `serve`. `serve` calls the
application's listener through `driver.Server`. `servetest` runs a whole server
of `serve` and reads its spans; `lint` keeps a project from going around the rest.

Three of these interactions are modelled by extending one module with another:
`Harness` adds the test to `Requests`, `Database` the pools to the calls of
`Tx`, and `Transport` the servers to the `Open`s of `Registry`.

## What is modelled

Each module's header names the abstraction; the `map` of `PROJECT.json` gives the
lines of every definition. Operators called *mutant* are wrong versions of the
definition after them, and appear in no specification: each property is known to
fail when one of them takes the definition's place.

**Migrate.** Calls by several replicas with their own migration sets against one
database. A call waits for a connection, takes the advisory lock on it, waits for
the provider's mutex and a second connection, reads what is pending, applies one
version after another in transactions that may fail or whose answer may be lost,
unlocks (or discards the connection when that fails) and returns. A replica may
crash anywhere. Actions are named after the functions of `migrate.go`.

The lock and the transactions are on sessions of their own, and nothing orders
what the server does for one and for the other:

- a transaction whose caller gave up, or died, is `inflight`; the server commits it
  or rolls it back at any later time (`Lands`), perhaps under another run's lock;
- the session that has the lock may end during the run, which does not notice
  (`LockLost`, `lost`);
- a `SessionLock` that fails may have been granted all the same, at once or, when
  its connection broke, later (`"asked"`). The lock then goes back to the pool with
  the connection; since it is reentrant, `holds` counts how often it was taken, and
  `unanswered` those of which no run knows. Another run of the pool may get this
  connection (`LockConn`), and the pool may close it (`PooledEnds`).

Two history variables say when the promises do not bind: `disturbed` are the runs
under whose lock a transaction of another one landed, `loose` the rows recorded
without an undisturbed lock. `Covered` is the condition the properties have:
the lock has been the run's own since it was granted, and nobody else's
transaction has landed. `SerialMigrations` is the promise: a lock with one owner,
and steps that add or remove one version while holding it; once a transaction has
landed late (`Intrude`), its owner is no longer bound, and the next one is.

**Serve.** `Run` with one goroutine per listener, the buffered channel, the
`select`, and `drain`, which flags and waits for the listeners one by one under
one grace period. net/http is modelled from the way `stdlib.go` uses it: a
listener shut down before it serves never serves; `Shutdown` looks for idleness
before it looks at its context. The application may shut its own listener down.

**Requests.** `New` with its options, refused where the code refuses them, and
the handlers it builds: a handler is the sequence of its layers (middleware
inside the instrumentation, or the checks of a probe), which a request enters one
by one and leaves in reverse. On one listener `rootHandler` tells the two muxes
apart, on two the listener does. Checks change while a probe runs them. The
answer may be with the client before the outermost layer is left. `/healthz`
behaves as `/livez` and is not told apart.

**Harness.** An assertion resets the recorder, sends a request, reads its
answer and counts spans, in two windows, while other goroutines of the test send
requests. `AssertOpsPathsNotTraced` asks for several paths in turn; the model asks
for one. The assertions about header timeouts and the drain are not modelled.

**ConfigWatch.** `Load` reads the files in order, one action per file, adds the
directories to the watch, starts the goroutine. A save of a file takes one or more
operations (`Edit`), each with an event of its own and between any two steps;
other files of the directory cause events too (`Noise`). The goroutine's `select`,
the debounce timer with the Go 1.23 semantics the source relies on, a reload per
changed file, and the three steps of `Close` are actions. A file's content is the
value of one key, absent or broken; a value in `Unfit` does not decode. Two history
variables relate callbacks to changes: `heard` are the saves of each file of which
an event was received, `late` counts the times a save went on after the debounce
period. `unseen` holds changes that caused no event, with the reason.

**ConfigMerge.** The options that name sources, passed in any order, and `build`:
the sources in house order, each read as any map its kind can produce, its keys
passed one by one and in sorted order by `keyGuard.add`, and merged as koanf does.
A key is the sequence of its segments, and a value is the source it is from. Of
keys that collide within one environment or flag set koanf keeps some; which ones
is a free choice.

**TelemetrySetup.** The parts `Setup` builds, in order, each running or "none",
the unwinding after a failure, the globals one at a time, `Shutdown` provider by
provider with an optional error at each. Several Setups follow one another. The
context may end at any moment (`CtxEnds`): that of `Setup` by its caller, that of
`Shutdown` by the one timeout for all three providers, or before the call. A
provider stopped in a context that has ended may leave its exporters running, and
then returns an error. `shutdownQuietly` gives each provider a context without the
caller's cancellation and a timeout of its own; `hung` are those that exceed it.

**TelemetryHandle.** Goroutines in `For` and `Start`; the three reads of the
globals, the comparison with the cache and the store are separate steps, and so
are the replacements of the three globals. The closer that `Start` returns may be
called by several goroutines: `sync.Once` lets one through, and the others wait
until it has ended the span and recorded the metrics.

**Tx.** Calls of either `Tx` over a pool: begin, a body that ends with nil, an
error, a panic or `runtime.Goexit` and may finish the transaction itself, commit
and rollback with their failures, the context's end, and `database/sql`'s
watcher, which pgx does not have.

**Database.** Both pools are opened or fail to, and are cleaned up at any moment.
Closing a `*sql.DB` refuses who waits and leaves who works; closing a
`*pgxpool.Pool` waits for the last connection.

**Registry.** `Provide` and `Open` by name or handle; each access to the map is
one critical section, an `Open` has up to two.

**Transport.** `Server.Run` with and without a registry: an `Open` by name, the
fallback to stdio, the constructor's own errors, serving until the peer or the
context ends, with event streams that clients hold open. An error of the registry
inside a constructor's own, which `errors.As` would find, and a constructor that
returns nil are left out.

**Mcp.** Calls of tools, resources and prompts by goga's client and by foreign
ones. The client's span and the trace context it puts into `_meta`, its timeout
and the cancellation it sends; the authenticator, which may refuse; the SDK's own
rejections; the wrapper with its span, its deadline for tools and the conversion of
a prompt's argument; a function that ends with nil, an error, a panic or
`runtime.Goexit` (`Ends`); the wrapper's deferred functions, which recover and end
the span (`Leave`); and the SDK behind them (`Pack`), which marshals what a tool
returned and validates it against the schema, and sends an error if that fails,
when the span has ended already. Whatever runs outside the wrapper is not
recovered: an authenticator that panics at any request, the handshake's among
them, or a JSON method the SDK calls (`PanicOutside`). The session may close.

**Lint.** The state is a file: its imports and assignments, its kind and its
package. Over it two sets of operators are compared: what each analyzer reports
of a call or literal (`ServeReports`, ..., `OffendingSegment`), and what that does
under Go's scopes (`Bypasses`). One function stands for those a rule treats alike.

## Runs

| Run | Instance | Shows |
| --- | --- | --- |
| `migrate` | 2 replicas with other migrations, 3 calls, 3 versions, pools of 1 (refused), 2 or unlimited | under an undisturbed lock: runs are serialised, nothing is applied out of order or from a stale plan, nil leaves nothing pending; reports are true; a lock a run knows of does not leak; calls return |
| `serve` | 2 listeners, 3 requests | a drain stops every listener, grants and keeps to the grace period, answers truly, leaves no goroutine |
| `harness` | 2 requests, 2 layers of middleware, 3 checks, one listener or two | layers are in place, a probe's answer is honest, an assertion made alone has the right verdict |
| `config_watch` | 2 files in 2 directories, 3 operations on them, a queue of 2, one of 2 values unfit | the last callback is what the files say; no callback without a save of its file or after `Close`; `Close` returns |
| `config_swap` | a file behind a swapped link | *violated*: the swap causes no reload |
| `config_merge` | 2 files, environment, flags, any of them and their options in every order; 4 nested keys | no key is discarded, the house order decides, collisions are real |
| `telemetry_setup` | 2 Setups, contexts that end at any moment | failures are unwound, globals agree, `Shutdown` comes to every provider, stops what its context lets it stop and reports the rest, and is observed |
| `telemetry_handle` | 2 goroutines, 2 calls each, 1 installation; 2 callers of a closer | no `Start` uses a provider older than at its beginning; one handle; an operation is ended once |
| `database` | 2 calls, both drivers, pools of 1 opened and cleaned up | answers are true, nothing stays open, calls and cleanups end |
| `mcp` | 2 calls of any kind, one of goga's client and one of either | answers and spans are true, panics are contained, calls return |
| `transport` | 2 Provides, 1 Open, 1 server; 2 names, ports and settings types | an `Open` runs the right constructor; its errors are true; a server serves on what it was asked to |
| `lint` | 2 imports, 2 assignments, 10 package paths | what is reported is a bypass, and what is not is none, with the documented exceptions |

The properties are defined at the end of each module, with the comment of the code
they come from. Some that state a doc's claim the code does not keep are defined,
too, and TLC refutes them under the configurations above when they are put in the
place of the others: `DownRemovesLatest` (`Migrate`), `FailureDrains` (`Serve`),
`CountIsExact` (`Harness`), `TimeoutEndsTransaction` (`Tx`, with `MCDatabase`),
`EveryOperationIsBounded` (`Mcp`), `StringArgumentsArrive` (`Mcp`, with `"string"`
in `Fields`), `CancelledIsNotAnError` (`Transport`). They belong to findings below.

**Bounds.** Two replicas are the smallest number that can race, and the third
call makes two calls of one replica share its pool and mutex. The permissive one
has versions 1 and 3 and a pool of two, the strict one version 2 and no limit, so
that 2 arrives between the others or after them; the operations of the calls are
those that tell `Up`, `UpTo` with and without a valid target, `Down` and `Ready`
apart once, in the places where they meet others. `MaxOps` (3) admits an operation
before the watch, one during a reload and one during the next, or three of one
save; `MaxQueue` (2) lets the queue overflow. Two listeners make one wait behind the other. One request of an
assertion and one beside it are enough for a span to be counted wrongly, three
checks for one list of two and one of one; checks that change while no probe looks
at them are indistinguishable from others at its start, so `HealthChanges` is
bounded to those under a probe. `Setups` (2) is the first number with a Setup over
an older one; `Installs` (1) already replaces three globals under a running
`Start`, `MaxCalls` (2) meets the cache both empty and filled; `ClosersAlone` in
`MCTelemetryHandle` lets an operation that is being closed finish first, whose
steps commute with all others. `Slots` (1) makes the second transaction wait.
Calls of `Mcp` meet only in the session and in the server's process, for which two
are enough; since they are alike, `MCInit` has one order only of the kinds of two
calls of goga's client, and leaves out two foreign ones, which share no session; the
types and wire forms of a prompt's argument are chosen so that decoding both
succeeds and fails. In `Transport` two names, ports and types are
what `Provide` and `Open` can differ in; with the two adapters alike, the
instance is symmetric in them. In `Lint` a name can be used twice from two imports
and assignments on, and the package paths are those the rules tell apart. Keys of
three levels are the smallest for which a parent is not the direct one. Every run
but `lint`, whose files end when they are full, checks for deadlock; the modules
have an explicit step for states in which all work is done.

**Fairness.** Steps of goga's own goroutines, of goroutines of libraries and of
the database server are weakly fair: the Go scheduler runs them. Timers end, and
so do waits with a deadline. A waiter for a pool's connection in `Database` is
strongly fair, as `database/sql` and pgxpool serve waiters in turn. Nothing is
assumed of clients, handlers, editors, whoever cancels, and the functions of tools
and transactions, with two exceptions: `CallsAndCleanupsEnd` speaks of bodies that
return and do not leave by `Goexit`, and watch callbacks return, as `WithWatch`
demands. `EveryCallReturns` of `Mcp` holds for goga's client alone, whose own timer
ends a call; a foreign client may wait for ever on a function that does not return.
`PanicsAreContained` asks the server for its answer, which needs no more than that
the wrapper and the SDK behind it are scheduled. `EveryCallReturns` of `Migrate`
lets a lock's session end (`LockLost`) and excepts the pool this happens in, if it
is bounded: the run that goes on without its lock and the one that takes it next
may have all connections between them, and wait for another for ever. In
`ConfigWatch` each case of the `select` is fair by itself: Go chooses among the ready
ones at random.

## Proofs

Theorems hold for any values of the constants that meet the assumptions named in
the modules, which TLC evaluates in each run. Each module proves an inductive
invariant, one lemma per action or group of actions, and derives the properties.

- `MigrateProofs`: `MutualExclusion`, `LockNeverLeaks`, `NoVersionAppliedTwice`,
  `PlansStayFresh`, `StrictRunsAscend`, `RunsAreComplete`, `ReportsAreTrue`, and
  `RunsAreSerialised`: every step of `Migrate` is one of `SerialMigrations` or
  leaves its variables alone. `OwnerInv` counts: the session with the lock has
  taken it once for the run that knows of it and once for each grant nobody heard
  of. `PlanIsFresh` is not inductive: that a plan stays fresh needs that nobody else
  changes the table unnoticed, so `FreshPlan` says of each run what it may assume as
  long as it is `Covered`, and `OthersDisturbed` that a transaction of anybody else
  takes this from it; nothing is assumed of the order in which sessions end and
  transactions land. `IInv` is the conjunction that is inductive. On it rest
  `Reports` (the versions a run has recorded are those it committed, but for one
  the server has still to decide) and `Complete` (whatever a covered run knows and
  the table lacks is still in its plan).
- `ServeProofs`, of `Serve`: `DrainIsComplete`, `NilIsHonest`, `GraceIsHonoured` for
  any number of listeners. `DrainProgress` says what holds half-way: the listeners
  before the one being drained are stopped and, unless an error is noted, idle.
  Of `Requests` and `Harness`: `LayersStayInPlace`, `ProbesAreHonest` and
  `VerdictsAreRight`, for any requests, middleware and checks. The lemma
  `FirstIsOutermost` computes the loop of `applyMiddleware` for a list of any length.
  `Layered` then says how many spans a request has left at each depth, `Probed`
  that a probe has noted each check it has run that failed throughout, and `Alone`
  that, while nobody else sends, the recorder holds the spans of the assertion's own
  request: the handler ends its span after the answer, so the count is right only
  because the second window lasts until the request has left the server.
  The layers and probes are proved of the server by itself, under any clients that
  send, hang up and wait for Ready (`ServersKeepLayers`, `ServersProbeHonestly`, of
  `RequestsSpec`). `ImplementsRequests` shows that the harness with its requests is
  such a system: each of its steps is one of `Requests` or a stutter. The theorems
  about the composition follow.
- `ConfigProofs`, of `ConfigWatch`: `CloseSilences`, from the order of the steps of `Close`
  (`ClosingIsOrderly`), and `CallbacksHaveChanges`. For the latter `ChangesPay`
  counts for each file: the callbacks made, one if it is pending and one if this
  tick has still to report it are together never more than the saves of it that
  were heard of and the times one went on after a tick.
  Of `ConfigMerge`: `NoKeyIsDiscarded` and `CollisionsAreReal`, for any keys,
  sources and order of the options. `HouseOrder` shows that the four loops over the
  kinds list the sources in the order `Beats` defines. `Koanf` says where each value
  in the koanf is from, and `Guard` why merging loses none: what the guard has seen
  is free of collisions (`leaves`), and every path above a leaf is in `branches`.
- `TelemetrySetupProofs`: `FailuresAreUnwound`, `GlobalsAreOfOne`,
  `ShutdownIsComplete`, `ShutdownsAreObserved`, for any number of Setups. `SInv`
  keeps the Setups in order, ties each global to how far the installation is, and
  says of each phase what can be running; `Excused` is what must be the case if
  something runs behind a provider that was stopped, and only its context's end
  makes it so (`Halts`).
- `TelemetryHandleProofs`: `StartsAreCurrent`, `HandleIsShared`,
  `OperationsCloseOnce`. Providers only grow (`InstallsGrow`), and what has been
  read is not older than the beginning of the `Start` (`ReadsAreCurrent`), also when it
  comes from a cache that others overwrite. `Closings` does the same for the closer.
- `DatabaseProofs`: `ImplementsTx`, the refinement of `Tx` by calls over pools that
  open, refuse and close, and `AnswersAreTrue`, with an invariant on which stages a
  call can be in with which body and server (`Stages`, `HandlesFinish`).
- `McpProofs`, of `Registry` and `Transport`: `OpensAreRight`, `ErrorsAreHonest`,
  `ServersServeWhatWasAsked` and `ImplementsRegistry`, the refinement of `Registry` by
  servers resolving their transports. `MapIsConsistent` ties the map to the answers
  given, `OpensProgress` what an `Open` holds to the map, `RunsProgress` a server to
  its `Open`. Of `Mcp`: `AnswersAreTrue` and `SpansAreTrue`, for any number of calls.
  `Stages` says which ends go with which stage of a request, the two behind the
  function among them, `ReplyIsTrue` what is sent, so that what is received is true.
- `LintProofs`: `BypassesAreFound`, for every package path and every file, however
  many imports and assignments it has. The invariant is only that the file is one
  (`TypeOK`); the argument is in the lemmas on names (`ImportDenotes`,
  `DenotesAnImport`, `TrackedDenotes`), on the place of a package
  (`SkippedIsOutOfScope`) and on gogalayout's loop (`OffendingIsBannedFirst`).

Loops over lists are reasoned about by a least counterexample: `LeastNumber`, which
rests on the library's theorem that `<` is well-founded on the naturals, takes the
place of induction, which would need a theorem with an operator as its parameter.

Assumptions on the constants are what the code gives: every use of `WithMiddleware`
is a layer of its own and none is the instrumentation or the handler
(`RequestsAssumption`); the keys are listed once, in the order Go sorts them, and none
is empty (`ConfigMergeAssumption`); an alias is an identifier (`LintAssumption`).

Only model-checked: liveness (`EveryCallReturns` twice, `PanicsAreContained`,
`CancelledRunReturns`,
`GoroutinesExit`, `Converges`, `CloseReturns`, `NothingStaysOpen`,
`SqlTimeoutEndsTransaction`, `CallsAndCleanupsEnd`), which is outside what the
prover does. Every invariant and every action property of a passing run is proved.

## Findings

`PROJECT.json` has the full list and quotes the lines. A run shows that a swapped
ConfigMap causes no reload (`config_swap`). The others were met while modelling; for
some of them a property is named above.

- `migrate`: `Down` after an out-of-order `Up` rolls back the highest version, not
  the most recent one; the connection of a failed `SessionLock` goes back to the pool
  with a lock that may have been granted (`unanswered`); the lock does not fence
  transactions, which may land when it is another run's (`disturbed`, `lost`).
- `serve`: no drain when a listener fails. `servetest`: a late span of an earlier
  request is counted; with `WithOpsAddr` the operational paths are asked for at the
  wrong address.
- `config`: edits between `Load`'s read and its watch are lost (`unseen` with cause
  `"early"`); `WithWatch` and `startWatching` disagree about absent files; keys that
  collide inside one environment are not reported; `CollidingKeysError.Nested` is not
  the first in sorted order.
- `telemetry`: the Prometheus reader touches the default registerer before `Setup` can
  no longer fail, and its failure leaks the push reader (excepted in
  `PartialSetupUnwound`); one provider that hangs takes the time of those behind it,
  which are then shut down in a context that has ended (excepted in
  `ShutdownStopsAll`).
- `database`: pgx transactions outlive their timeout; idle connections do not follow
  `WithMaxOpenConns`; the cleanup of `pgxdb` leaves the statistics registered.
- `mcp`: a string argument of a prompt that reads as JSON does not arrive;
  resources and prompts have no deadline; constructors of the listening transports
  bind nothing; an open stream turns a cancelled `Run` into a deadline error; embedded
  and `"-,"` fields of prompt arguments are listed wrongly.
- `lint`: `var` bindings and function literals escape `gogamcp`; the plugin does not
  contribute `gogadatabase`.

## Not modelled

- `telemetry`'s exporter registration by name: a thin use of `registry`, whose
  choice is free in `TelemetrySetup`.
- `goga.Apply`, `semconv`, `sqlcdb`, most option setters, error texts, log lines: no
  state, or no property about it.
- `servetest`'s `AssertHeaderTimeoutEnforced` and `AssertDrainsInFlightRequest`: their
  verdict depends on how long things take. What they exercise is in `Serve`.
- `lint`'s settings and its messages.

## What could follow

1. An abstract registry whose `Open` looks once, and its refinement by `Registry`.
2. `Serve` below `Transport`: streams as requests that never finish, in place of the
   outcome `ListenEnds` chooses.
3. `TelemetryHandle` composed with `TelemetrySetup`: which spans of a service are
   recorded around `Shutdown`.
4. Larger instances of `Mcp`, with both field types and all wire forms, as separate
   runs.

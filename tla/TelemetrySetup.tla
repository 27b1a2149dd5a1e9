---------------------------- MODULE TelemetrySetup ----------------------------
(***************************************************************************)
(* Package telemetry: Setup building its parts and installing them as the  *)
(* process globals, and Telemetry.Shutdown.                                *)
(*                                                                         *)
(* Setups are numbered in the order they are made, and so are the          *)
(* providers they install; 0 stands for OpenTelemetry's own defaults.      *)
(***************************************************************************)
EXTENDS Naturals, Sequences

CONSTANT
  Setups  \* how many times Setup is called, one after another

ASSUME TelemetrySetupAssumption == Setups \in Nat \ {0}

\* What Setup builds, in order; the meter provider has up to two readers.
Parts == <<"trace", "reader", "prometheus", "log", "propagator">>

\* What Setup installs, in order.
Globals == <<"trace", "metric", "log", "propagator", "slog">>
GlobalNames == {Globals[i] : i \in 1..Len(Globals)}

\* What can be running behind a provider: exporters and readers.
Runners == {"trace", "reader", "prometheus", "log"}
Behind == [metric |-> {"reader", "prometheus"}, trace |-> {"trace"}, log |-> {"log"}]

VARIABLES
  phase,      \* where each Setup, and then its Telemetry, is
  at,         \* the part to build, global to install or provider to stop next
  failedAt,   \* the part a failed Setup could not build
  running,    \* per Setup, its exporters and readers that are running
  ended,      \* whether the context of its Setup, then its Shutdown, has ended
  hung,       \* its providers that outlasted their timeout when it was unwound
  registered, \* Setups with a collector in prometheus.DefaultRegisterer
  globals,    \* the installed providers
  span,       \* per Setup, the tracer provider of its shutdown span
  observed,   \* Setups whose shutdown span ended on a running provider
  stopped,    \* per Setup, the providers that are shut down
  erred       \* Setups whose Shutdown met an error

vars == <<phase, at, failedAt, running, ended, hung, registered, globals, span,
          observed, stopped, erred>>
building == <<failedAt, registered>>
stopping == <<span, observed, stopped, erred>>

Ids == 0..Setups

TypeOK ==
  /\ phase \in [1..Setups -> {"idle", "building", "installing", "up",
                              "stopping", "down", "failed"}]
  /\ at \in [1..Setups -> 1..5]
  /\ failedAt \in [1..Setups -> Runners \cup {"none", "propagator"}]
  /\ running \in [1..Setups -> SUBSET Runners]
  /\ ended \in [1..Setups -> BOOLEAN]
  /\ hung \in [1..Setups -> SUBSET DOMAIN Behind]
  /\ registered \subseteq 1..Setups /\ observed \subseteq 1..Setups
  /\ globals \in [GlobalNames -> Ids]
  /\ span \in [1..Setups -> Ids]
  /\ stopped \in [1..Setups -> SUBSET DOMAIN Behind]
  /\ erred \subseteq 1..Setups

Init ==
  /\ phase = [s \in 1..Setups |-> "idle"]
  /\ at = [s \in 1..Setups |-> 1]
  /\ failedAt = [s \in 1..Setups |-> "none"]
  /\ running = [s \in 1..Setups |-> {}] /\ hung = [s \in 1..Setups |-> {}]
  /\ ended = [s \in 1..Setups |-> FALSE]
  /\ registered = {} /\ observed = {}
  /\ globals = [g \in GlobalNames |-> 0]
  /\ span = [s \in 1..Setups |-> 0]
  /\ stopped = [s \in 1..Setups |-> {}] /\ erred = {}

-----------------------------------------------------------------------------
(* Setup *)

\* The context of Setup is cancelled, or that of Shutdown, with the one timeout
\* newCleanup gives it for all three providers.
CtxEnds(s) ==
  /\ phase[s] \in {"building", "stopping"} /\ ~ended[s]
  /\ ended' = [ended EXCEPT ![s] = TRUE]
  /\ UNCHANGED <<phase, at, running, hung, building, globals, stopping>>

Call(s) ==
  /\ phase[s] = "idle"
  /\ \A q \in 1..(s - 1) : phase[q] \notin {"idle", "building", "installing"}
  /\ phase' = [phase EXCEPT ![s] = "building"]
  /\ UNCHANGED <<at, running, ended, hung, building, globals, stopping>>

\* A part is built, unless its exporter is "none" or Prometheus is off; the
\* Prometheus reader registers its collector with the default registerer.
Build(s) ==
  /\ phase[s] = "building"
  /\ LET part == Parts[at[s]]
     IN  \E on \in BOOLEAN :
           /\ part = "propagator" => ~on
           /\ running' = [running EXCEPT ![s] = @ \cup IF on THEN {part} ELSE {}]
           /\ registered' = registered \cup IF on /\ part = "prometheus" THEN {s} ELSE {}
  /\ IF at[s] < Len(Parts)
       THEN at' = [at EXCEPT ![s] = @ + 1] /\ UNCHANGED phase
       ELSE at' = [at EXCEPT ![s] = 1] /\ phase' = [phase EXCEPT ![s] = "installing"]
  /\ UNCHANGED <<ended, hung, failedAt, globals, stopping>>

\* The providers Setup shuts down when it could not build a part.
Unwind(part) ==
  CASE part = "trace" -> {}
    [] part \in {"reader", "prometheus"} -> {"trace"}
    [] part = "log" -> {"trace", "metric"}
    [] part = "propagator" -> {"trace", "metric", "log"}

\* The providers that are still running when their context ends may leave
\* behind what they have not stopped yet.
Left(s, signals) == SUBSET (running[s] \cap UNION {Behind[p] : p \in signals})

\* mutant: the providers are unwound in the caller's context.
QuietlyCancelled(s, slow) == IF ended[s] THEN DOMAIN Behind ELSE slow

\* shutdownQuietly: each provider is stopped in a context that does not end with
\* the caller's, under a timeout of its own, which only a slow one exceeds.
Quietly(s, slow) == slow

BuildFails(s) ==
  /\ phase[s] = "building"
  /\ phase' = [phase EXCEPT ![s] = "failed"]
  /\ failedAt' = [failedAt EXCEPT ![s] = Parts[at[s]]]
  /\ LET unwound == Unwind(Parts[at[s]])
     IN  \E slow \in SUBSET unwound :
           \E left \in Left(s, unwound \cap Quietly(s, slow)) :
             /\ hung' = [hung EXCEPT ![s] = slow]
             /\ running' = [running EXCEPT
                             ![s] = (@ \ UNION {Behind[p] : p \in unwound}) \cup left]
  /\ UNCHANGED <<at, ended, registered, globals, stopping>>

\* mutant: a meter provider without readers is not installed.
InstallReaders(s) ==
  /\ phase[s] = "installing"
  /\ globals' = IF Globals[at[s]] = "metric" /\ running[s] \cap Behind.metric = {}
                  THEN globals ELSE [globals EXCEPT ![Globals[at[s]]] = s]
  /\ IF at[s] < Len(Globals)
       THEN at' = [at EXCEPT ![s] = @ + 1] /\ UNCHANGED phase
       ELSE phase' = [phase EXCEPT ![s] = "up"] /\ UNCHANGED at
  /\ UNCHANGED <<running, ended, hung, building, stopping>>

Install(s) ==
  /\ phase[s] = "installing"
  /\ globals' = [globals EXCEPT ![Globals[at[s]]] = s]
  /\ IF at[s] < Len(Globals)
       THEN at' = [at EXCEPT ![s] = @ + 1] /\ UNCHANGED phase
       ELSE phase' = [phase EXCEPT ![s] = "up"] /\ UNCHANGED at
  /\ UNCHANGED <<running, ended, hung, building, stopping>>

-----------------------------------------------------------------------------
(* Shutdown *)

TraceFirst == <<"trace", "metric", "log">>  \* mutant

\* The providers in the order they are stopped.
ShutdownOrder == <<"log", "metric", "trace">>

\* The context is newCleanup's or any other, which may have ended before.  The
\* span of Shutdown is opened through the globals, like everybody's.
Shutdown(s) ==
  /\ phase[s] = "up"
  /\ phase' = [phase EXCEPT ![s] = "stopping"]
  /\ at' = [at EXCEPT ![s] = 1]
  /\ span' = [span EXCEPT ![s] = globals["trace"]]
  /\ \E done \in BOOLEAN : ended' = [ended EXCEPT ![s] = done]
  /\ UNCHANGED <<running, hung, building, globals, observed, stopped, erred>>

\* ForceFlush and Shutdown of one provider, with or without an error.  In a
\* context that has ended it may leave something running, and says so.
Halt(s, signal) ==
  /\ \E left \in (IF ended[s] THEN Left(s, {signal}) ELSE {{}}) :
       /\ running' = [running EXCEPT ![s] = (@ \ Behind[signal]) \cup left]
       /\ erred' \in {erred \cup {s}} \cup IF left = {} THEN {erred} ELSE {}
  /\ stopped' = [stopped EXCEPT ![s] = @ \cup {signal}]

\* The span ends before the last provider is stopped, and is recorded if the
\* one it was opened on still runs.
EndSpan(s) ==
  observed' = IF at[s] = 2 /\ span[s] # 0 /\ "trace" \notin stopped[span[s]]
                THEN observed \cup {s} ELSE observed

\* mutant: the first error ends Shutdown.
StopFirstError(s) ==
  /\ phase[s] = "stopping"
  /\ Halt(s, ShutdownOrder[at[s]])
  /\ EndSpan(s)
  /\ IF at[s] < Len(ShutdownOrder) /\ s \notin erred'
       THEN at' = [at EXCEPT ![s] = @ + 1] /\ UNCHANGED phase
       ELSE phase' = [phase EXCEPT ![s] = "down"] /\ UNCHANGED at
  /\ UNCHANGED <<ended, hung, building, globals, span>>

Stop(s) ==
  /\ phase[s] = "stopping"
  /\ Halt(s, ShutdownOrder[at[s]])
  /\ EndSpan(s)
  /\ IF at[s] < Len(ShutdownOrder)
       THEN at' = [at EXCEPT ![s] = @ + 1] /\ UNCHANGED phase
       ELSE phase' = [phase EXCEPT ![s] = "down"] /\ UNCHANGED at
  /\ UNCHANGED <<ended, hung, building, globals, span>>

-----------------------------------------------------------------------------
Terminated ==
  /\ \A s \in 1..Setups : phase[s] \in {"down", "failed"}
  /\ UNCHANGED vars

Next ==
  \/ \E s \in 1..Setups :
       \/ Call(s) \/ Build(s) \/ BuildFails(s) \/ Install(s)
       \/ Shutdown(s) \/ Stop(s) \/ CtxEnds(s)
  \/ Terminated

Spec == Init /\ [][Next]_vars

-----------------------------------------------------------------------------
(* Properties *)

\* A failed Setup leaves nothing running and nothing installed, whichever part
\* failed and whether or not its context had ended (Setup, "All three or none";
\* shutdownQuietly, "that cancellation may be the very reason the build
\* failed"), but for a provider that outlasts the timeout it has of its own,
\* and the push reader of a meter provider whose Prometheus reader failed,
\* which newMeterProvider drops.
PartialSetupUnwound ==
  \A s \in 1..Setups :
    phase[s] = "failed" =>
      /\ running[s] \subseteq (UNION {Behind[p] : p \in hung[s]})
                               \cup IF failedAt[s] = "prometheus" THEN {"reader"} ELSE {}
      /\ \A g \in GlobalNames : globals[g] # s

\* When no Setup is installing, the globals are those of one Setup: never
\* traces of one and no metrics, logs or propagator of it (Setup, "never runs
\* with traces but no metrics").
GlobalsAgree ==
  (\A s \in 1..Setups : phase[s] # "installing") =>
    \A g, h \in GlobalNames : globals[g] = globals[h]

\* Shutdown comes to all three providers, whichever of them fails, and stops
\* everything behind them (Shutdown, "stops every provider").  Only a context
\* that ends before keeps it from that, and then it returns an error.
ShutdownStopsAll ==
  \A s \in 1..Setups :
    phase[s] = "down" =>
      /\ stopped[s] = DOMAIN Behind
      /\ running[s] # {} => ended[s] /\ s \in erred

\* The span of a Shutdown whose own tracers are the globals is recorded: it
\* ends before they stop (Shutdown, "ends before its own provider is stopped").
ShutdownIsObserved ==
  \A s \in 1..Setups : phase[s] = "down" /\ span[s] = s => s \in observed
=============================================================================

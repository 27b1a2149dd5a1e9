--------------------------- MODULE TelemetryHandle ----------------------------
(***************************************************************************)
(* Package telemetry: the handles of For, Start resolving one through      *)
(* OpenTelemetry's globals while Setup replaces these one after another,   *)
(* and the closer Start returns, which may be called more than once and    *)
(* from more than one goroutine.                                           *)
(*                                                                         *)
(* Installations are numbered; 0 stands for OpenTelemetry's defaults,      *)
(* which can be compared and refuse nothing.  A resolved handle is the     *)
(* tuple of the installations it was built from.                           *)
(***************************************************************************)
EXTENDS Naturals

CONSTANTS
  Callers,  \* goroutines calling For and then Start, for one module
  Installs, \* number of installations
  Closers,  \* who calls the closer of an operation: the deferred call, another
  MaxCalls  \* bound on the calls of each

ASSUME TelemetryHandleAssumption ==
  Installs \in Nat /\ MaxCalls \in Nat /\ Closers \cap {"new", "done"} = {}

Signals == {"trace", "metric", "log"}
Providers == [Signals -> 0..Installs]
Unresolved == [s \in Signals |-> Installs + 1]

VARIABLES
  opaque,    \* the installations whose providers cannot be compared
  broken,    \* those whose meter refuses the instruments
  globals,   \* the installed providers
  installed, \* the signals the installation under way has replaced
  current,   \* the installation under way, or the last one
  stored,    \* the handles in the map of instrumentations
  handle,    \* each caller's handle, named after the caller that made it
  cache,     \* per handle, what it was resolved to last
  pc,        \* where each caller is
  read,      \* the providers it has read
  got,       \* the providers its Start uses
  floor,     \* history: the globals when its Start began
  calls,     \* how many calls it made
  once,      \* per caller, the closer's once: who runs it, or whether it has run
  closing,   \* where each call of the closer is
  failed,    \* whether it was given an error
  span,      \* the span: its status, and how often it was ended
  metrics    \* what was measured of the operation

kinds == <<opaque, broken>>
installs == <<globals, installed, current>>
ending == <<once, closing, failed, span, metrics>>
vars == <<kinds, installs, stored, handle, cache, pc, read, got, floor, calls,
          ending>>

TypeOK ==
  /\ globals \in Providers
  /\ installed \subseteq Signals /\ current \in 0..Installs
  /\ stored \subseteq Callers
  /\ handle \in [Callers -> Callers]
  /\ cache \in [Callers -> Providers \cup {Unresolved}]
  /\ pc \in [Callers -> {"for", "store", "idle", "metric", "log", "check", "build",
                      "open"}]
  /\ read \in [Callers -> Providers] /\ got \in [Callers -> Providers]
  /\ floor \in [Callers -> Providers]
  /\ calls \in [Callers -> 0..MaxCalls]
  /\ opaque \subseteq 1..Installs /\ broken \subseteq 1..Installs
  /\ once \in [Callers -> {"new", "done"} \cup Closers]
  /\ closing \in [Callers -> [Closers -> {"no", "in", "mark", "end", "back"}]]
  /\ failed \in [Callers -> [Closers -> BOOLEAN]]
  /\ span \in [Callers -> [status : {"unset", "ok", "error"}, ends : Nat]]
  /\ metrics \in [Callers -> [durations : Nat, errors : Nat]]

ClosedBy(s) == [k \in Closers |-> s]
Opened == [status |-> "unset", ends |-> 0]
Unmeasured == [durations |-> 0, errors |-> 0]

Defaults == [s \in Signals |-> 0]

Init ==
  /\ globals = Defaults /\ installed = Signals /\ current = 0
  /\ stored = {}
  /\ handle = [c \in Callers |-> c]
  /\ cache = [c \in Callers |-> Unresolved]
  /\ pc = [c \in Callers |-> "for"]
  /\ read = [c \in Callers |-> Defaults]
  /\ got = [c \in Callers |-> Defaults]
  /\ floor = [c \in Callers |-> Defaults]
  /\ calls = [c \in Callers |-> 0]
  /\ opaque \in SUBSET (1..Installs) /\ broken \in SUBSET (1..Installs)
  /\ once = [c \in Callers |-> "new"]
  /\ closing = [c \in Callers |-> ClosedBy("no")]
  /\ failed = [c \in Callers |-> ClosedBy(FALSE)]
  /\ span = [c \in Callers |-> Opened]
  /\ metrics = [c \in Callers |-> Unmeasured]

-----------------------------------------------------------------------------
(* Setup, or the application, replaces the globals *)

InstallNext ==
  /\ installed = Signals /\ current < Installs
  /\ installed' = {} /\ current' = current + 1
  /\ UNCHANGED <<kinds, ending, globals, stored, handle, cache, pc, read, got, floor, calls>>

Install(s) ==
  /\ s \notin installed
  /\ installed' = installed \cup {s}
  /\ globals' = [globals EXCEPT ![s] = current]
  /\ UNCHANGED <<kinds, ending, current, stored, handle, cache, pc, read, got, floor, calls>>

-----------------------------------------------------------------------------
(* For *)

Goto(c, p) == pc' = [pc EXCEPT ![c] = p]

Load(c) ==
  /\ pc[c] = "for"
  /\ \/ stored = {} /\ Goto(c, "store") /\ UNCHANGED handle
     \/ \E h \in stored : handle' = [handle EXCEPT ![c] = h] /\ Goto(c, "idle")
  /\ UNCHANGED <<kinds, ending, installs, stored, cache, read, got, floor, calls>>

\* mutant: Store instead of LoadOrStore.
StoreHandle(c) ==
  /\ pc[c] = "store"
  /\ stored' = {c} /\ UNCHANGED handle
  /\ Goto(c, "idle")
  /\ UNCHANGED <<kinds, ending, installs, cache, read, got, floor, calls>>

LoadOrStore(c) ==
  /\ pc[c] = "store"
  /\ \/ stored = {} /\ stored' = {c} /\ UNCHANGED handle
     \/ \E h \in stored : handle' = [handle EXCEPT ![c] = h] /\ UNCHANGED stored
  /\ Goto(c, "idle")
  /\ UNCHANGED <<kinds, ending, installs, cache, read, got, floor, calls>>

-----------------------------------------------------------------------------
(* Start: current and build *)

Read(c, s) == read' = [read EXCEPT ![c][s] = globals[s]]

ReadTracer(c) ==
  /\ pc[c] = "idle" /\ calls[c] < MaxCalls
  /\ calls' = [calls EXCEPT ![c] = @ + 1]
  /\ floor' = [floor EXCEPT ![c] = globals]
  /\ Read(c, "trace")
  /\ Goto(c, "metric")
  /\ UNCHANGED <<kinds, ending, installs, stored, handle, cache, got>>

ReadMeter(c) ==
  /\ pc[c] = "metric"
  /\ Read(c, "metric")
  /\ Goto(c, "log")
  /\ UNCHANGED <<kinds, ending, installs, stored, handle, cache, got, floor, calls>>

ReadLogger(c) ==
  /\ pc[c] = "log"
  /\ Read(c, "log")
  /\ Goto(c, "check")
  /\ UNCHANGED <<kinds, ending, installs, stored, handle, cache, got, floor, calls>>

SameTracer(r, p) == r["trace"] = p["trace"]  \* mutant: one signal for all three

\* sameProvider, of each signal: the cached handle was built from the providers
\* read; one that cannot be compared never matches.
SameProviders(r, p) == \A s \in Signals : r[s] = p[s] /\ p[s] \notin opaque

\* A hit returns the cached handle, a miss builds another one.
Check(c) ==
  /\ pc[c] = "check"
  /\ IF SameProviders(cache[handle[c]], read[c])
       THEN /\ got' = [got EXCEPT ![c] = cache[handle[c]]] /\ Goto(c, "open")
            /\ read' = [read EXCEPT ![c] = Defaults]
       ELSE UNCHANGED <<got, read>> /\ Goto(c, "build")
  /\ UNCHANGED <<kinds, ending, installs, stored, handle, cache, floor, calls>>

\* The handle built is stored, over a newer one perhaps, and used.
Build(c) ==
  /\ pc[c] = "build"
  /\ cache' = [cache EXCEPT ![handle[c]] = read[c]]
  /\ got' = [got EXCEPT ![c] = read[c]]
  /\ read' = [read EXCEPT ![c] = Defaults]
  /\ Goto(c, "open")
  /\ UNCHANGED <<kinds, ending, installs, stored, handle, floor, calls>>

-----------------------------------------------------------------------------
(* The closer *)

Step(c, k, s) == closing' = [closing EXCEPT ![c][k] = s]
others == <<kinds, installs, stored, handle, cache, read>>

CallCloser(c, k, e) ==
  /\ pc[c] = "open" /\ closing[c][k] = "no"
  /\ Step(c, k, "in")
  /\ failed' = [failed EXCEPT ![c][k] = e]
  /\ UNCHANGED <<others, pc, got, floor, calls, once, span, metrics>>

\* mutant: a flag that is set when the work is done, in place of a once.
EnterUnlessDone(c, k) ==
  /\ closing[c][k] = "in"
  /\ IF once[c] = "done" THEN Step(c, k, "back") ELSE Step(c, k, "mark")
  /\ UNCHANGED <<others, pc, got, floor, calls, once, failed, span, metrics>>

\* once.Do: the first runs the function, and the others return after it.
Enter(c, k) ==
  /\ closing[c][k] = "in"
  /\ \/ once[c] = "new" /\ once' = [once EXCEPT ![c] = k] /\ Step(c, k, "mark")
     \/ once[c] = "done" /\ UNCHANGED once /\ Step(c, k, "back")
  /\ UNCHANGED <<others, pc, got, floor, calls, failed, span, metrics>>

Instrument(c) == IF got[c]["metric"] \in broken THEN 0 ELSE 1

\* The status of the span, and the error counter if there is one.
Mark(c, k) ==
  /\ closing[c][k] = "mark"
  /\ span' = [span EXCEPT ![c].status = IF failed[c][k] THEN "error" ELSE "ok"]
  /\ metrics' = [metrics EXCEPT
       ![c].errors = IF failed[c][k] THEN @ + Instrument(c) ELSE @]
  /\ Step(c, k, "end")
  /\ UNCHANGED <<others, pc, got, floor, calls, once, failed>>

\* The duration, and the end of the span.
EndSpan(c, k) ==
  /\ closing[c][k] = "end"
  /\ metrics' = [metrics EXCEPT ![c].durations = @ + Instrument(c)]
  /\ span' = [span EXCEPT ![c].ends = @ + 1]
  /\ once' = [once EXCEPT ![c] = "done"]
  /\ Step(c, k, "back")
  /\ UNCHANGED <<others, pc, got, floor, calls, failed>>

\* The caller is through with the operation, and starts another one.
Close(c) ==
  /\ pc[c] = "open"
  /\ \A k \in Closers : closing[c][k] \in {"no", "back"}
  /\ \E k \in Closers : closing[c][k] = "back"
  /\ Goto(c, "idle")
  /\ once' = [once EXCEPT ![c] = "new"]
  /\ closing' = [closing EXCEPT ![c] = ClosedBy("no")]
  /\ failed' = [failed EXCEPT ![c] = ClosedBy(FALSE)]
  /\ span' = [span EXCEPT ![c] = Opened]
  /\ metrics' = [metrics EXCEPT ![c] = Unmeasured]
  /\ got' = [got EXCEPT ![c] = Defaults] /\ floor' = [floor EXCEPT ![c] = Defaults]
  /\ UNCHANGED <<others, calls>>

-----------------------------------------------------------------------------
Terminated ==
  /\ installed = Signals /\ current = Installs
  /\ \A c \in Callers : pc[c] = "idle" /\ calls[c] = MaxCalls
  /\ UNCHANGED vars

Next ==
  \/ InstallNext
  \/ \E s \in Signals : Install(s)
  \/ \E c \in Callers :
       \/ Load(c) \/ LoadOrStore(c)
       \/ ReadTracer(c) \/ ReadMeter(c) \/ ReadLogger(c) \/ Check(c) \/ Build(c)
       \/ Close(c)
       \/ \E k \in Closers :
            \/ \E e \in BOOLEAN : CallCloser(c, k, e)
            \/ Enter(c, k) \/ Mark(c, k) \/ EndSpan(c, k)
  \/ Terminated

Spec == Init /\ [][Next]_vars

-----------------------------------------------------------------------------
(* Properties *)

\* A Start uses no provider older than the one installed when it began, for
\* every signal, also while one is replaced and another is not, and also when
\* a slower call has overwritten the cache with what it had read before
\* (For, "begins emitting as soon as Setup installs the real providers").
StartIsCurrent ==
  \A c \in Callers :
    pc[c] = "open" => \A s \in Signals : got[c][s] >= floor[c][s]

\* All callers share one handle, however their first calls of For interleave:
\* no second set of instruments is built beside the cached one (For).
OneHandle ==
  \A c, d \in Callers :
    pc[c] \notin {"for", "store"} /\ pc[d] \notin {"for", "store"} =>
      handle[c] = handle[d]

\* Whoever's call of the closer has returned, the span is ended once, the
\* operation is counted once, and the span and the error counter tell the same
\* of it: also when two calls meet that were given different errors, and when
\* the meter has refused an instrument (Start, "It is idempotent: calling it
\* twice ends the span once and counts the operation once").
ClosedOnce ==
  \A c \in Callers :
    (\E k \in Closers : closing[c][k] = "back") =>
      /\ span[c].ends = 1 /\ span[c].status # "unset"
      /\ metrics[c].durations = Instrument(c)
      /\ metrics[c].errors = IF span[c].status = "error" THEN Instrument(c) ELSE 0
=============================================================================

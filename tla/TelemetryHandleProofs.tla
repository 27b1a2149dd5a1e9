------------------------- MODULE TelemetryHandleProofs -------------------------
(***************************************************************************)
(* For every number of callers, installations and calls of a closer: one   *)
(* handle, no old provider, and an operation that is closed once.          *)
(***************************************************************************)
EXTENDS TelemetryHandle, TLAPS

\* The providers only get newer.
InstallsGrow ==
  /\ globals \in Providers /\ current \in 0..Installs /\ installed \subseteq Signals
  /\ \A s \in Signals : globals[s] <= current

\* A caller has the handle it would make until it has taken the stored one.
HandlesAgree ==
  /\ handle \in [Callers -> Callers]
  /\ stored \subseteq Callers /\ \A g, h \in stored : g = h
  /\ \A c \in Callers :
       IF pc[c] \in {"for", "store"} THEN handle[c] = c ELSE handle[c] \in stored

\* A signal that a Start has read is no older than the Start.
Has(c, s) ==
  \/ pc[c] \in {"check", "build"}
  \/ pc[c] = "log" /\ s # "log"
  \/ pc[c] = "metric" /\ s = "trace"

ReadsAreCurrent ==
  /\ cache \in [Callers -> Providers \cup {Unresolved}]
  /\ pc \in [Callers -> {"for", "store", "idle", "metric", "log", "check", "build", "open"}]
  /\ read \in [Callers -> Providers] /\ got \in [Callers -> Providers]
  /\ floor \in [Callers -> Providers]
  /\ \A c \in Callers, s \in Signals :
       /\ pc[c] \in {"metric", "log", "check", "build"} => floor[c][s] <= globals[s]
       /\ Has(c, s) => floor[c][s] <= read[c][s]

Starts == InstallsGrow /\ HandlesAgree /\ ReadsAreCurrent /\ StartIsCurrent

-----------------------------------------------------------------------------
(* For and Start *)

LEMMA StartsInit == Init => Starts
<1> SUFFICES ASSUME Init PROVE Starts
  OBVIOUS
<1>1. Defaults \in Providers
  BY TelemetryHandleAssumption DEF Defaults, Providers
<1>2. InstallsGrow
  BY <1>1, TelemetryHandleAssumption DEF Init, InstallsGrow, Defaults
<1>3. HandlesAgree /\ ReadsAreCurrent /\ StartIsCurrent
  BY <1>1 DEF Init, HandlesAgree, ReadsAreCurrent, StartIsCurrent, Has
<1> QED
  BY <1>2, <1>3 DEF Starts

LEMMA InstallStep ==
  ASSUME Starts, InstallNext \/ \E s \in Signals : Install(s)
  PROVE  Starts'
<1> USE DEF Starts
<1>1. InstallsGrow' /\ \A s \in Signals : globals[s] <= globals'[s]
  <2>1. CASE InstallNext
    BY <2>1, TelemetryHandleAssumption DEF InstallNext, InstallsGrow, Providers
  <2>2. ASSUME NEW s \in Signals, Install(s)
        PROVE  InstallsGrow' /\ \A z \in Signals : globals[z] <= globals'[z]
    BY <2>2, TelemetryHandleAssumption DEF Install, InstallsGrow, Providers
  <2> QED
    BY <2>1, <2>2
<1>2. UNCHANGED <<kinds, ending, stored, handle, cache, pc, read, got, floor, calls>>
  BY DEF InstallNext, Install
<1>3. HandlesAgree' /\ StartIsCurrent'
  BY <1>2 DEF HandlesAgree, StartIsCurrent
<1>4. ReadsAreCurrent'
  <2>1. ASSUME NEW c \in Callers, NEW s \in Signals,
               pc[c] \in {"metric", "log", "check", "build"}
        PROVE  floor[c][s] <= globals'[s]
    <3>1. /\ floor[c][s] <= globals[s] /\ globals[s] <= globals'[s]
          /\ floor[c][s] \in Nat /\ globals[s] \in Nat /\ globals'[s] \in Nat
      BY <1>1, <2>1 DEF ReadsAreCurrent, InstallsGrow, Providers
    <3> QED
      BY <3>1
  <2> QED
    BY <1>2, <2>1 DEF ReadsAreCurrent, Has
<1> QED
  BY <1>1, <1>3, <1>4

\* The first to store its handle hands it to everybody.
LEMMA ForStep ==
  ASSUME Starts, NEW c \in Callers, Load(c) \/ LoadOrStore(c)
  PROVE  Starts'
<1> USE DEF Starts
<1>1. /\ pc[c] \in {"for", "store"}
      /\ UNCHANGED <<kinds, ending, installs, cache, read, got, floor, calls>>
  BY DEF Load, LoadOrStore
<1>2. PICK p \in {"store", "idle"} : pc' = [pc EXCEPT ![c] = p]
  BY DEF Load, LoadOrStore, Goto
<1>3. InstallsGrow'
  BY <1>1 DEF installs, InstallsGrow
<1>4. HandlesAgree'
  <2>1. CASE stored = {} /\ UNCHANGED <<stored, handle>> /\ p = "store"
    BY <1>1, <1>2, <2>1 DEF HandlesAgree, ReadsAreCurrent
  <2>2. CASE stored = {} /\ stored' = {c} /\ UNCHANGED handle /\ p = "idle"
    BY <1>1, <1>2, <2>2 DEF HandlesAgree, ReadsAreCurrent
  <2>3. CASE UNCHANGED stored /\ p = "idle"
             /\ \E h \in stored : handle' = [handle EXCEPT ![c] = h]
    <3>1. PICK h \in stored : handle' = [handle EXCEPT ![c] = h]
      BY <2>3
    <3>2. stored \subseteq Callers
      BY DEF HandlesAgree
    <3> QED
      BY <1>1, <1>2, <2>3, <3>1, <3>2 DEF HandlesAgree, ReadsAreCurrent
  <2>4. p = "store" <=> pc'[c] = "store"
    BY <1>2 DEF ReadsAreCurrent
  <2> QED
    BY <1>2, <2>1, <2>2, <2>3, <2>4 DEF Load, LoadOrStore, Goto, ReadsAreCurrent
<1>5. ReadsAreCurrent'
  BY <1>1, <1>2 DEF installs, ReadsAreCurrent, Has
<1>6. StartIsCurrent'
  BY <1>1, <1>2 DEF ReadsAreCurrent, StartIsCurrent
<1> QED
  BY <1>3, <1>4, <1>5, <1>6

\* A provider is read no earlier than the Start began.
LEMMA ReadStep ==
  ASSUME Starts, NEW c \in Callers, ReadTracer(c) \/ ReadMeter(c) \/ ReadLogger(c)
  PROVE  Starts'
<1> USE DEF Starts
<1>1. UNCHANGED <<kinds, ending, installs, stored, handle, cache, got>>
  BY DEF ReadTracer, ReadMeter, ReadLogger
<1>2. InstallsGrow'
  BY <1>1 DEF installs, InstallsGrow
<1>3. globals \in Providers /\ \A s \in Signals : globals[s] <= globals[s]
  BY TelemetryHandleAssumption DEF InstallsGrow, Providers
<1>4. CASE ReadTracer(c)
  <2>1. /\ pc[c] = "idle" /\ pc' = [pc EXCEPT ![c] = "metric"]
        /\ floor' = [floor EXCEPT ![c] = globals]
        /\ read' = [read EXCEPT ![c] = [read[c] EXCEPT !["trace"] = globals["trace"]]]
    BY <1>4 DEF ReadTracer, Goto, Read
  <2>2. HandlesAgree' /\ StartIsCurrent'
    BY <1>1, <2>1 DEF HandlesAgree, ReadsAreCurrent, StartIsCurrent
  <2>3. ReadsAreCurrent'
    BY <1>1, <1>3, <2>1 DEF installs, ReadsAreCurrent, Has, Providers, Signals
  <2> QED
    BY <1>2, <2>2, <2>3
<1>5. CASE ReadMeter(c)
  <2>1. /\ pc[c] = "metric" /\ pc' = [pc EXCEPT ![c] = "log"] /\ UNCHANGED floor
        /\ read' = [read EXCEPT ![c] = [read[c] EXCEPT !["metric"] = globals["metric"]]]
    BY <1>5 DEF ReadMeter, Goto, Read
  <2>2. HandlesAgree' /\ StartIsCurrent'
    BY <1>1, <2>1 DEF HandlesAgree, ReadsAreCurrent, StartIsCurrent
  <2>3. ReadsAreCurrent'
    BY <1>1, <1>3, <2>1 DEF installs, ReadsAreCurrent, Has, Providers, Signals
  <2> QED
    BY <1>2, <2>2, <2>3
<1>6. CASE ReadLogger(c)
  <2>1. /\ pc[c] = "log" /\ pc' = [pc EXCEPT ![c] = "check"] /\ UNCHANGED floor
        /\ read' = [read EXCEPT ![c] = [read[c] EXCEPT !["log"] = globals["log"]]]
    BY <1>6 DEF ReadLogger, Goto, Read
  <2>2. HandlesAgree' /\ StartIsCurrent'
    BY <1>1, <2>1 DEF HandlesAgree, ReadsAreCurrent, StartIsCurrent
  <2>3. ReadsAreCurrent'
    BY <1>1, <1>3, <2>1 DEF installs, ReadsAreCurrent, Has, Providers, Signals
  <2> QED
    BY <1>2, <2>2, <2>3
<1> QED
  BY <1>4, <1>5, <1>6

\* A cached handle is used only if it is what would be built.
LEMMA ResolveStep ==
  ASSUME Starts, NEW c \in Callers, Check(c) \/ Build(c)
  PROVE  Starts'
<1> USE DEF Starts
<1>1. /\ pc[c] \in {"check", "build"} /\ handle[c] \in Callers
      /\ UNCHANGED <<kinds, ending, installs, stored, handle, floor, calls>>
  BY DEF Check, Build, HandlesAgree
<1>2. InstallsGrow'
  BY <1>1 DEF installs, InstallsGrow
<1>3. Defaults \in Providers
  BY TelemetryHandleAssumption DEF Defaults, Providers
<1>4. CASE Check(c) /\ ~SameProviders(cache[handle[c]], read[c])
  <2>1. pc' = [pc EXCEPT ![c] = "build"] /\ UNCHANGED <<got, read, cache>> /\ pc[c] = "check"
    BY <1>4 DEF Check, Goto
  <2> QED
    BY <1>1, <1>2, <2>1 DEF installs, HandlesAgree, ReadsAreCurrent, StartIsCurrent, Has
<1>5. CASE Build(c) \/ (Check(c) /\ SameProviders(cache[handle[c]], read[c]))
  <2>1. /\ pc' = [pc EXCEPT ![c] = "open"]
        /\ read' = [read EXCEPT ![c] = Defaults]
    BY <1>5 DEF Check, Build, Goto
  <2>2. /\ cache' \in [Callers -> Providers \cup {Unresolved}]
        /\ got' = [got EXCEPT ![c] = read[c]]
    <3>1. CASE Build(c)
      BY <1>1, <3>1 DEF Build, ReadsAreCurrent
    <3>2. CASE Check(c) /\ SameProviders(cache[handle[c]], read[c])
      <4>1. \A s \in Signals : cache[handle[c]][s] = read[c][s]
        BY <3>2 DEF SameProviders
      <4>2. /\ cache[handle[c]] \in Providers \cup {Unresolved} /\ read[c] \in Providers
            /\ DOMAIN cache[handle[c]] = Signals
        BY <1>1 DEF ReadsAreCurrent, Unresolved, Providers
      <4>3. cache[handle[c]] = read[c]
        BY <4>1, <4>2 DEF Unresolved, Providers
      <4> QED
        BY <3>2, <4>3 DEF Check, ReadsAreCurrent
    <3> QED
      BY <1>5, <3>1, <3>2
  <2>3. \A s \in Signals : floor[c][s] <= read[c][s] /\ read[c][s] >= floor[c][s]
    BY <1>1, TelemetryHandleAssumption DEF ReadsAreCurrent, Has, Providers
  <2>4. HandlesAgree' /\ StartIsCurrent'
    BY <1>1, <2>1, <2>2, <2>3 DEF HandlesAgree, ReadsAreCurrent, StartIsCurrent
  <2>5. ReadsAreCurrent'
    BY <1>1, <1>3, <2>1, <2>2 DEF installs, ReadsAreCurrent, Has
  <2> QED
    BY <1>2, <2>4, <2>5
<1> QED
  BY <1>4, <1>5

LEMMA CloserLeavesStarts ==
  ASSUME Starts, NEW c \in Callers,
         \/ Close(c)
         \/ \E k \in Closers : \/ \E e \in BOOLEAN : CallCloser(c, k, e)
                               \/ Enter(c, k) \/ Mark(c, k) \/ EndSpan(c, k)
  PROVE  Starts'
<1> USE DEF Starts
<1>1. CASE Close(c)
  <2>1. /\ pc[c] = "open" /\ pc' = [pc EXCEPT ![c] = "idle"]
        /\ got' = [got EXCEPT ![c] = Defaults] /\ floor' = [floor EXCEPT ![c] = Defaults]
        /\ UNCHANGED others
    BY <1>1 DEF Close, Goto
  <2>2. Defaults \in Providers
    BY TelemetryHandleAssumption DEF Defaults, Providers
  <2> QED
    BY <2>1, <2>2 DEF others, installs, InstallsGrow, HandlesAgree, ReadsAreCurrent,
       StartIsCurrent, Has
<1>2. CASE \E k \in Closers : \/ \E e \in BOOLEAN : CallCloser(c, k, e)
                              \/ Enter(c, k) \/ Mark(c, k) \/ EndSpan(c, k)
  <2>1. UNCHANGED <<others, pc, got, floor>>
    BY <1>2 DEF CallCloser, Enter, Mark, EndSpan
  <2> QED
    BY <2>1 DEF others, installs, InstallsGrow, HandlesAgree, ReadsAreCurrent,
       StartIsCurrent, Has
<1> QED
  BY <1>1, <1>2

LEMMA StartsNext == Starts /\ [Next]_vars => Starts'
<1> SUFFICES ASSUME Starts, [Next]_vars PROVE Starts'
  OBVIOUS
<1>1. CASE UNCHANGED vars
  BY <1>1 DEF vars, installs, Starts, InstallsGrow, HandlesAgree, ReadsAreCurrent,
     StartIsCurrent, Has
<1> QED
  BY <1>1, InstallStep, ForStep, ReadStep, ResolveStep, CloserLeavesStarts
     DEF Next, Terminated

\* No Start uses a provider that had been replaced when it began, however many
\* callers overwrite the cache of one another (current, sameProvider).
THEOREM StartsAreCurrent == Spec => []StartIsCurrent
<1>1. Starts => StartIsCurrent
  BY DEF Starts
<1> QED
  BY <1>1, StartsInit, StartsNext, PTL DEF Spec

\* All callers share one handle (For).
THEOREM HandleIsShared == Spec => []OneHandle
<1>1. Starts => OneHandle
  BY DEF Starts, HandlesAgree, OneHandle
<1> QED
  BY <1>1, StartsInit, StartsNext, PTL DEF Spec

-----------------------------------------------------------------------------
(* The closer: one call runs the function, and the others wait for it *)

ClosingTyped ==
  /\ once \in [Callers -> {"new", "done"} \cup Closers]
  /\ closing \in [Callers -> [Closers -> {"no", "in", "mark", "end", "back"}]]
  /\ failed \in [Callers -> [Closers -> BOOLEAN]]
  /\ span \in [Callers -> [status : {"unset", "ok", "error"}, ends : Nat]]
  /\ metrics \in [Callers -> [durations : Nat, errors : Nat]]

\* The span has been given its status, and the error counter knows of it.
Marked(c) ==
  /\ span[c].status # "unset"
  /\ metrics[c].errors = IF span[c].status = "error" THEN Instrument(c) ELSE 0

Waiting(c, k) == closing[c][k] \in {"no", "in"}

ClosesOnce(c) ==
  /\ pc[c] # "open" => once[c] = "new" /\ \A k \in Closers : closing[c][k] = "no"
  /\ once[c] = "new" =>
       /\ \A k \in Closers : Waiting(c, k)
       /\ span[c] = Opened /\ metrics[c] = Unmeasured
  /\ \A k \in Closers : once[c] = k =>
       /\ closing[c][k] \in {"mark", "end"}
       /\ \A j \in Closers \ {k} : Waiting(c, j)
       /\ closing[c][k] = "mark" => span[c] = Opened /\ metrics[c] = Unmeasured
       /\ closing[c][k] = "end" =>
            Marked(c) /\ span[c].ends = 0 /\ metrics[c].durations = 0
  /\ once[c] = "done" =>
       /\ \A k \in Closers : Waiting(c, k) \/ closing[c][k] = "back"
       /\ Marked(c) /\ span[c].ends = 1 /\ metrics[c].durations = Instrument(c)

Closings ==
  /\ pc \in [Callers -> {"for", "store", "idle", "metric", "log", "check", "build", "open"}]
  /\ ClosingTyped /\ \A c \in Callers : ClosesOnce(c)

LEMMA ClosingsInit == Init => Closings
<1> USE TelemetryHandleAssumption
<1> QED
  BY DEF Init, Closings, ClosingTyped, ClosesOnce, ClosedBy, Waiting, Opened, Unmeasured

\* What an operation is made of while it is open: nobody else changes it.
Same(c) ==
  /\ once'[c] = once[c] /\ closing'[c] = closing[c] /\ span'[c] = span[c]
  /\ metrics'[c] = metrics[c] /\ broken' = broken
  /\ pc'[c] # "open" => pc[c] # "open"
  /\ pc[c] = "open" => got'[c] = got[c]

LEMMA SameIsClosed ==
  ASSUME NEW c \in Callers, ClosesOnce(c), once[c] \in {"new", "done"} \cup Closers, Same(c)
  PROVE  ClosesOnce(c)'
<1>1. CASE pc[c] = "open"
  BY <1>1 DEF Same, ClosesOnce, Waiting, Marked, Instrument
<1>2. CASE pc[c] # "open"
  BY <1>2, TelemetryHandleAssumption DEF Same, ClosesOnce, Waiting
<1> QED
  BY <1>1, <1>2

\* Nothing before the operation is open touches the closer of anybody.
LEMMA StartsLeaveClosers ==
  ASSUME Starts, Closings,
         \/ InstallNext \/ \E s \in Signals : Install(s)
         \/ \E c \in Callers :
              \/ Load(c) \/ LoadOrStore(c)
              \/ ReadTracer(c) \/ ReadMeter(c) \/ ReadLogger(c) \/ Check(c) \/ Build(c)
         \/ UNCHANGED vars
  PROVE  Closings'
<1>1. UNCHANGED <<ending, broken>>
  BY DEF vars, kinds, InstallNext, Install, Load, LoadOrStore, ReadTracer, ReadMeter,
     ReadLogger, Check, Build
<1>2. CASE \/ InstallNext \/ \E s \in Signals : Install(s)
           \/ UNCHANGED vars
  <2>1. UNCHANGED <<pc, got>>
    BY <1>2 DEF vars, InstallNext, Install
  <2> QED
    BY <1>1, <2>1, SameIsClosed DEF Closings, ClosingTyped, ending, Same
<1>3. ASSUME NEW c \in Callers,
             \/ Load(c) \/ LoadOrStore(c)
             \/ ReadTracer(c) \/ ReadMeter(c) \/ ReadLogger(c) \/ Check(c) \/ Build(c)
      PROVE  Closings'
  <2>1. PICK p \in {"store", "idle", "metric", "log", "check", "build", "open"} :
          pc' = [pc EXCEPT ![c] = p]
    BY <1>3 DEF Load, LoadOrStore, ReadTracer, ReadMeter, ReadLogger, Check, Build, Goto
  <2>2. pc[c] # "open"
    BY <1>3 DEF Load, LoadOrStore, ReadTracer, ReadMeter, ReadLogger, Check, Build
  <2>3. \A d \in Callers \ {c} : got'[d] = got[d]
    <3>1. got \in [Callers -> Providers]
      BY DEF Starts, ReadsAreCurrent
    <3> QED
      BY <1>3, <3>1 DEF Load, LoadOrStore, ReadTracer, ReadMeter, ReadLogger, Check, Build
  <2>4. \A d \in Callers : Same(d)
    BY <1>1, <2>1, <2>2, <2>3 DEF Closings, ending, Same
  <2> QED
    BY <1>1, <2>1, <2>4, SameIsClosed DEF Closings, ClosingTyped, ending
<1> QED
  BY <1>2, <1>3

LEMMA InstrumentTyped ==
  ASSUME NEW c \in Callers PROVE Instrument(c) \in {0, 1}
BY DEF Instrument

\* A step of one caller's operation is no step of another's.
LEMMA OthersKeepClosed ==
  ASSUME Closings, NEW c \in Callers, UNCHANGED others, ClosingTyped', pc' \in
           [Callers -> {"for", "store", "idle", "metric", "log", "check", "build", "open"}],
         \A d \in Callers \ {c} : Same(d), ClosesOnce(c)'
  PROVE  Closings'
BY SameIsClosed DEF Closings, ClosingTyped

LEMMA CloserStep ==
  ASSUME Closings, NEW c \in Callers, NEW k \in Closers,
         (\E e \in BOOLEAN : CallCloser(c, k, e)) \/ Enter(c, k) \/ Mark(c, k) \/ EndSpan(c, k)
  PROVE  Closings'
<1>1. UNCHANGED <<others, pc, got, broken>>
  BY DEF CallCloser, Enter, Mark, EndSpan, others, kinds
<1>2. /\ once[c] \in {"new", "done"} \cup Closers
      /\ closing[c] \in [Closers -> {"no", "in", "mark", "end", "back"}]
      /\ failed[c] \in [Closers -> BOOLEAN]
      /\ span[c] \in [status : {"unset", "ok", "error"}, ends : Nat]
      /\ metrics[c] \in [durations : Nat, errors : Nat]
      /\ ClosesOnce(c) /\ k # "new" /\ k # "done"
  BY TelemetryHandleAssumption DEF Closings, ClosingTyped
<1>3. CASE \E e \in BOOLEAN : CallCloser(c, k, e)
  <2>1. /\ pc[c] = "open" /\ closing[c][k] = "no"
        /\ closing' = [closing EXCEPT ![c] = [closing[c] EXCEPT ![k] = "in"]]
        /\ UNCHANGED <<once, span, metrics>>
    BY <1>3 DEF CallCloser, Step
  <2>2. ClosingTyped'
    <3>1. PICK e \in BOOLEAN : failed' = [failed EXCEPT ![c] = [failed[c] EXCEPT ![k] = e]]
      BY <1>3 DEF CallCloser
    <3> QED
      BY <1>2, <2>1, <3>1 DEF Closings, ClosingTyped
  <2>3. closing'[c] = [closing[c] EXCEPT ![k] = "in"]
    BY <2>1 DEF Closings, ClosingTyped
  <2>4. ClosesOnce(c)'
    BY <1>1, <1>2, <2>1, <2>3 DEF ClosesOnce, Waiting, Marked, Instrument
  <2>5. \A d \in Callers \ {c} : Same(d)
    BY <1>1, <2>1 DEF Closings, ClosingTyped, Same
  <2> QED
    BY <1>1, <2>2, <2>4, <2>5, OthersKeepClosed DEF Closings
<1>4. CASE Enter(c, k)
  <2>1. PICK s \in {"mark", "back"} :
          /\ closing' = [closing EXCEPT ![c] = [closing[c] EXCEPT ![k] = s]]
          /\ \/ s = "mark" /\ once[c] = "new" /\ once' = [once EXCEPT ![c] = k]
             \/ s = "back" /\ once[c] = "done" /\ UNCHANGED once
    BY <1>4 DEF Enter, Step
  <2>2. closing[c][k] = "in" /\ UNCHANGED <<failed, span, metrics>>
    BY <1>4 DEF Enter
  <2>3. ClosingTyped'
    <3>1. once' \in [Callers -> {"new", "done"} \cup Closers]
      BY <2>1 DEF Closings, ClosingTyped
    <3>2. closing' \in [Callers -> [Closers -> {"no", "in", "mark", "end", "back"}]]
      BY <1>2, <2>1 DEF Closings, ClosingTyped
    <3> QED
      BY <2>2, <3>1, <3>2 DEF Closings, ClosingTyped
  <2>4. closing'[c] = [closing[c] EXCEPT ![k] = s]
    BY <2>1 DEF Closings, ClosingTyped
  <2>5. pc[c] = "open"
    BY <1>2, <2>2 DEF ClosesOnce
  <2>6. ClosesOnce(c)'
    <3>1. CASE s = "mark"
      <4>1. once[c] = "new" /\ once'[c] = k
        BY <2>1, <3>1 DEF Closings, ClosingTyped
      <4> QED
        BY <1>1, <1>2, <2>2, <2>4, <2>5, <3>1, <4>1 DEF ClosesOnce, Waiting
    <3>2. CASE s = "back"
      <4>1. once[c] = "done" /\ once'[c] = "done"
        BY <2>1, <3>2
      <4> QED
        BY <1>1, <1>2, <2>2, <2>4, <2>5, <3>2, <4>1, TelemetryHandleAssumption
           DEF ClosesOnce, Waiting, Marked, Instrument
    <3> QED
      BY <3>1, <3>2
  <2>7. \A d \in Callers \ {c} : Same(d)
    BY <1>1, <2>1, <2>2 DEF Closings, ClosingTyped, Same
  <2> QED
    BY <1>1, <2>3, <2>6, <2>7, OthersKeepClosed DEF Closings
<1>5. CASE Mark(c, k)
  <2> DEFINE st == IF failed[c][k] THEN "error" ELSE "ok"
             er == IF failed[c][k] THEN metrics[c].errors + Instrument(c)
                                   ELSE metrics[c].errors
  <2>1. /\ closing[c][k] = "mark" /\ UNCHANGED <<once, failed>>
        /\ closing' = [closing EXCEPT ![c] = [closing[c] EXCEPT ![k] = "end"]]
        /\ span' = [span EXCEPT ![c] = [span[c] EXCEPT !.status = st]]
        /\ metrics' = [metrics EXCEPT ![c] = [metrics[c] EXCEPT !.errors = er]]
    BY <1>5 DEF Mark, Step
  <2>2. once[c] = k /\ span[c] = Opened /\ metrics[c] = Unmeasured /\ pc[c] = "open"
    BY <1>2, <2>1 DEF ClosesOnce, Waiting
  <2>3. er \in Nat /\ st \in {"error", "ok"}
    BY <1>2, InstrumentTyped
  <2>4. ClosingTyped'
    BY <1>2, <2>1, <2>3 DEF Closings, ClosingTyped
  <2>5. /\ closing'[c] = [closing[c] EXCEPT ![k] = "end"]
        /\ span'[c].status = st /\ span'[c].ends = 0
        /\ metrics'[c].errors = er /\ metrics'[c].durations = 0
    BY <2>1, <2>2 DEF Closings, ClosingTyped, Opened, Unmeasured
  <2>6. Marked(c)'
    BY <1>1, <2>2, <2>3, <2>5, InstrumentTyped DEF Marked, Instrument, Unmeasured
  <2>7. once'[c] = k
    BY <2>1, <2>2
  <2>8. ClosesOnce(c)'
    BY <1>1, <1>2, <2>1, <2>2, <2>5, <2>6, <2>7 DEF ClosesOnce, Waiting
  <2>9. \A d \in Callers \ {c} : Same(d)
    BY <1>1, <2>1 DEF Closings, ClosingTyped, Same
  <2> QED
    BY <1>1, <2>4, <2>8, <2>9, OthersKeepClosed DEF Closings
<1>6. CASE EndSpan(c, k)
  <2> DEFINE du == metrics[c].durations + Instrument(c)
             en == span[c].ends + 1
  <2>1. /\ closing[c][k] = "end" /\ UNCHANGED failed
        /\ closing' = [closing EXCEPT ![c] = [closing[c] EXCEPT ![k] = "back"]]
        /\ once' = [once EXCEPT ![c] = "done"]
        /\ span' = [span EXCEPT ![c] = [span[c] EXCEPT !.ends = en]]
        /\ metrics' = [metrics EXCEPT ![c] = [metrics[c] EXCEPT !.durations = du]]
    BY <1>6 DEF EndSpan, Step
  <2>2. /\ once[c] = k /\ pc[c] = "open" /\ Marked(c)
        /\ span[c].ends = 0 /\ metrics[c].durations = 0
    BY <1>2, <2>1 DEF ClosesOnce, Waiting
  <2>3. du = Instrument(c) /\ en = 1 /\ du \in Nat
    BY <2>2, InstrumentTyped
  <2>4. ClosingTyped'
    <3>1. once' \in [Callers -> {"new", "done"} \cup Closers]
      BY <2>1 DEF Closings, ClosingTyped
    <3>2. closing' \in [Callers -> [Closers -> {"no", "in", "mark", "end", "back"}]]
      BY <1>2, <2>1 DEF Closings, ClosingTyped
    <3>3. [span[c] EXCEPT !.ends = en] \in [status : {"unset", "ok", "error"}, ends : Nat]
      BY <1>2, <2>3
    <3>4. [metrics[c] EXCEPT !.durations = du] \in [durations : Nat, errors : Nat]
      BY <1>2, <2>3
    <3> QED
      BY <2>1, <3>1, <3>2, <3>3, <3>4 DEF Closings, ClosingTyped
  <2>5. /\ closing'[c] = [closing[c] EXCEPT ![k] = "back"] /\ once'[c] = "done"
        /\ span'[c].status = span[c].status /\ span'[c].ends = 1
        /\ metrics'[c].errors = metrics[c].errors /\ metrics'[c].durations = Instrument(c)
    BY <2>1, <2>3 DEF Closings, ClosingTyped
  <2>6. Marked(c)' /\ Instrument(c)' = Instrument(c)
    BY <1>1, <2>2, <2>5 DEF Marked, Instrument
  <2>7. \A j \in Closers : closing'[c][j] \in {"no", "in", "back"}
    BY <1>2, <2>2, <2>5 DEF ClosesOnce, Waiting
  <2>8. ClosesOnce(c)'
    BY <1>1, <2>2, <2>5, <2>6, <2>7, TelemetryHandleAssumption DEF ClosesOnce, Waiting
  <2>9. \A d \in Callers \ {c} : Same(d)
    BY <1>1, <2>1 DEF Closings, ClosingTyped, Same
  <2> QED
    BY <1>1, <2>4, <2>8, <2>9, OthersKeepClosed DEF Closings
<1> QED
  BY <1>3, <1>4, <1>5, <1>6

LEMMA CloseStep ==
  ASSUME Starts, Closings, NEW c \in Callers, Close(c)
  PROVE  Closings'
<1>1. /\ pc' = [pc EXCEPT ![c] = "idle"] /\ once' = [once EXCEPT ![c] = "new"]
      /\ closing' = [closing EXCEPT ![c] = [k \in Closers |-> "no"]]
      /\ failed' = [failed EXCEPT ![c] = [k \in Closers |-> FALSE]]
      /\ span' = [span EXCEPT ![c] = Opened]
      /\ metrics' = [metrics EXCEPT ![c] = Unmeasured]
      /\ got' = [got EXCEPT ![c] = Defaults] /\ UNCHANGED <<others, broken>>
  BY DEF Close, Goto, ClosedBy, others, kinds
<1>2. ClosingTyped'
  BY <1>1 DEF Closings, ClosingTyped, Opened, Unmeasured
<1>3. ClosesOnce(c)'
  BY <1>1, TelemetryHandleAssumption DEF Closings, ClosingTyped, ClosesOnce, Waiting
<1>4. \A d \in Callers \ {c} : Same(d)
  BY <1>1 DEF Starts, ReadsAreCurrent, Closings, ClosingTyped, Same
<1> QED
  BY <1>1, <1>2, <1>3, <1>4, OthersKeepClosed DEF Closings

LEMMA ClosingsNext == Starts /\ Closings /\ [Next]_vars => Closings'
BY StartsLeaveClosers, CloserStep, CloseStep DEF Next, Terminated

\* Whichever calls of the closer meet, and whatever errors they carry, the
\* operation is ended once and counted once by the time any of them returns
\* (Start).
THEOREM OperationsCloseOnce == Spec => []ClosedOnce
<1>1. Closings => ClosedOnce
  <2> SUFFICES ASSUME Closings, NEW c \in Callers, NEW k \in Closers, closing[c][k] = "back"
               PROVE  /\ span[c].ends = 1 /\ Marked(c)
                      /\ metrics[c].durations = Instrument(c)
    BY Zenon DEF ClosedOnce, Marked
  <2>1. once[c] = "done"
    <3>1. ClosesOnce(c) /\ once[c] \in {"new", "done"} \cup Closers
      BY DEF Closings, ClosingTyped
    <3>2. ~Waiting(c, k)
      BY DEF Waiting
    <3>3. ASSUME NEW j \in Closers, once[c] = j PROVE FALSE
      BY <3>1, <3>2, <3>3 DEF ClosesOnce
    <3> QED
      BY <3>1, <3>2, <3>3 DEF ClosesOnce
  <2> QED
    BY <2>1 DEF Closings, ClosesOnce
<1> QED
  BY <1>1, StartsInit, StartsNext, ClosingsInit, ClosingsNext, PTL DEF Spec
=============================================================================

------------------------------ MODULE ServeProofs ------------------------------
(***************************************************************************)
(* A drain is complete, honest and patient for every number of listeners   *)
(* and requests; the layers around a handler stay in their order, and the  *)
(* verdicts of servetest are right, for every set of options.              *)
(***************************************************************************)
EXTENDS Serve, Harness, SequenceTheorems, WellFoundedInduction, TLAPS

Typed ==
  /\ run \in {"new", "select", "shutdown", "wait", "done"}
  /\ at \in Listeners
  /\ clock \in {"idle", "running", "over"}
  /\ failed \subseteq Listeners
  /\ gor \in [Listeners -> Outcomes \cup {"none", "start", "bound", "serving", "exited"}]
  /\ closing \in [Listeners -> BOOLEAN]
  /\ req \in [Requests -> {"unsent", "active", "served"}]
  /\ result \in {"none", "nil", "error"}

\* A listener that drain is through with.
Stopped(l) == closing[l] /\ gor[l] # "serving"

\* The listeners before the one drain has come to are stopped, and idle unless
\* one of them has used up the grace period.
DrainProgress ==
  /\ run = "new" => \A l \in Listeners : gor[l] = "none"
  /\ run \in {"shutdown", "wait"} =>
       /\ clock # "idle"
       /\ \A l \in Listeners : l < at => Stopped(l)
       /\ \A l \in Listeners : l < at /\ l \notin failed => InFlight(l) = {}
  /\ run = "wait" => closing[at]
  /\ run \in {"new", "select"} => clock = "idle" /\ at = 1 /\ failed = {}
  /\ failed # {} => clock = "over"

IInv ==
  Typed /\ DrainProgress /\ DrainStopsEveryListener /\ NilMeansAllServed /\ GraceIsGranted

-----------------------------------------------------------------------------
LEMMA InitInvariant == Init => IInv
<1> SUFFICES ASSUME Init PROVE IInv
  OBVIOUS
<1>1. Typed
  BY ServeAssumption DEF Init, Typed, Listeners
<1>2. DrainProgress /\ DrainStopsEveryListener /\ NilMeansAllServed /\ GraceIsGranted
  BY DEF Init, DrainProgress, DrainStopsEveryListener, NilMeansAllServed, GraceIsGranted,
     Drained, Listeners
<1> QED
  BY <1>1, <1>2 DEF IInv

\* Run starts the listeners, and leaves them alone when one ended first.
LEMMA RunStepInv ==
  ASSUME IInv, Run \/ TakeOutcome \/ CtxDone \/ Shutdown
  PROVE  IInv'
<1> USE DEF IInv, Listeners
<1>1. CASE Run
  BY <1>1 DEF Run, draining, answer, Typed, Outcomes, DrainProgress, DrainStopsEveryListener,
     NilMeansAllServed, GraceIsGranted, Drained, InFlight
<1>2. CASE TakeOutcome
  BY <1>2 DEF TakeOutcome, Return, draining, Typed, DrainProgress, DrainStopsEveryListener,
     NilMeansAllServed, GraceIsGranted, Drained, InFlight
<1>3. CASE CtxDone
  BY <1>3 DEF CtxDone, draining, answer, Typed, DrainProgress, DrainStopsEveryListener,
     NilMeansAllServed, GraceIsGranted, Drained, InFlight
<1>4. CASE Shutdown
  BY <1>4 DEF Shutdown, draining, answer, Typed, DrainProgress, DrainStopsEveryListener,
     NilMeansAllServed, GraceIsGranted, Drained, Stopped, InFlight
<1> QED
  BY <1>1, <1>2, <1>3, <1>4

\* Drain is through with a listener: it goes on to the next one, or returns
\* and says whether one of them has failed.
LEMMA ShutdownWaitInv ==
  ASSUME IInv, ShutdownWait
  PROVE  IInv'
<1> USE DEF IInv
<1>1. /\ run = "wait" /\ gor[at] # "serving" /\ at \in Listeners
      /\ UNCHANGED <<cancelled, clock, errc, gor, closing, req>>
  BY DEF ShutdownWait, Typed
<1>2. PICK errs \in SUBSET Listeners :
        /\ Proceed(errs) /\ failed \subseteq errs /\ errs \subseteq failed \cup {at}
        /\ errs # {} => clock = "over"
        /\ at \notin errs => InFlight(at) = {}
  <2>1. CASE InFlight(at) = {} /\ Proceed(failed)
    BY <1>1, <2>1 DEF Typed, DrainProgress
  <2>2. CASE InFlight(at) # {} /\ GraceOver /\ Proceed(failed \cup {at})
    BY <1>1, <2>2 DEF Typed, GraceOver
  <2> QED
    BY <2>1, <2>2 DEF ShutdownWait
<1>3. \A l \in Listeners : l <= at => Stopped(l)
  BY <1>1 DEF DrainProgress, Stopped, Listeners
<1>4. \A l \in Listeners : l <= at /\ l \notin errs => InFlight(l) = {}
  BY <1>1, <1>2 DEF DrainProgress, Listeners
<1>5. CASE at < N
  <2>1. failed' = errs /\ at' = at + 1 /\ run' = "shutdown" /\ UNCHANGED answer
    BY <1>2, <1>5 DEF Proceed
  <2>2. Typed'
    BY <1>1, <1>5, <2>1, ServeAssumption DEF Typed, answer, Listeners
  <2>3. \A l \in Listeners : l < at' => l <= at
    BY <1>1, <2>1, ServeAssumption DEF Listeners
  <2>4. DrainProgress'
    BY <1>1, <1>2, <1>3, <1>4, <2>1, <2>3 DEF DrainProgress, Stopped, InFlight
  <2> QED
    BY <1>1, <2>1, <2>2, <2>4 DEF DrainStopsEveryListener, NilMeansAllServed,
       GraceIsGranted, Drained
<1>6. CASE ~(at < N)
  <2>1. /\ failed' = errs /\ run' = "done" /\ UNCHANGED at
        /\ result' = IF errs = {} THEN "nil" ELSE "error"
        /\ cut' = {r \in Requests : req[r] = "active"}
    BY <1>2, <1>6 DEF Proceed, Return
  <2>2. \A l \in Listeners : l <= at
    BY <1>1, <1>6, ServeAssumption DEF Listeners
  <2>3. errs = {} => cut' = {}
    BY <1>4, <2>1, <2>2, ServeAssumption DEF InFlight, Listeners
  <2>4. Typed' /\ DrainProgress'
    BY <1>1, <1>2, <2>1 DEF Typed, DrainProgress
  <2>5. DrainStopsEveryListener'
    BY <1>1, <1>3, <2>2 DEF DrainStopsEveryListener, Stopped
  <2>6. NilMeansAllServed' /\ GraceIsGranted'
    BY <1>1, <1>2, <2>1, <2>3 DEF NilMeansAllServed, GraceIsGranted
  <2> QED
    BY <2>4, <2>5, <2>6
<1> QED
  BY <1>5, <1>6

\* A listener that is stopped stays stopped, whatever its goroutine does.
LEMMA ListenerInv ==
  ASSUME IInv, NEW l \in Listeners, ListenerStep(l) \/ AcceptFails(l)
  PROVE  IInv'
<1> USE DEF IInv
<1>1. PICK s \in Outcomes \cup {"bound", "serving", "exited"} :
        Become(l, s) /\ (s = "serving" => ~closing[l]) /\ gor[l] # "none"
  BY DEF ListenerStep, Bind, Serve, AcceptLoopEnds, Report, AcceptFails, Accepts, Outcomes,
     Typed
<1>2. Typed'
  BY <1>1 DEF Become, draining, answer, Typed
<1>3. \A k \in Listeners : Stopped(k) => Stopped(k)'
  BY <1>1 DEF Become, Typed, Stopped
<1>4. \A k \in Listeners : InFlight(k)' = InFlight(k)
  BY <1>1 DEF Become, InFlight
<1>5. DrainProgress'
  BY <1>1, <1>3, <1>4 DEF Become, draining, Typed, DrainProgress
<1>6. DrainStopsEveryListener' /\ NilMeansAllServed' /\ GraceIsGranted'
  BY <1>1, <1>3 DEF Become, draining, answer, DrainStopsEveryListener, NilMeansAllServed,
     GraceIsGranted, Drained, Stopped
<1> QED
  BY <1>2, <1>5, <1>6

\* Whatever happens around Run: nothing arrives at a listener that is stopped.
LEMMA AroundInv ==
  ASSUME IInv,
         \/ Cancel \/ GraceEnds \/ StoppedByApplication
         \/ \E r \in Requests : Arrive(r) \/ Finish(r)
  PROVE  IInv'
<1> USE DEF IInv
<1>1. CASE Cancel \/ GraceEnds
  BY <1>1 DEF Cancel, GraceEnds, draining, answer, Typed, DrainProgress,
     DrainStopsEveryListener, NilMeansAllServed, GraceIsGranted, Drained, Stopped, InFlight
<1>2. CASE StoppedByApplication
  <2>1. 1 \in Listeners
    BY ServeAssumption DEF Listeners
  <2> QED
    BY <1>2, <2>1 DEF StoppedByApplication, draining, answer, Typed, DrainProgress,
       DrainStopsEveryListener, NilMeansAllServed, GraceIsGranted, Drained, Stopped, InFlight
<1>3. ASSUME NEW r \in Requests, Arrive(r) PROVE IInv'
  <2>1. /\ ~Stopped(To[r]) /\ To[r] \in Listeners
        /\ req' = [req EXCEPT ![r] = "active"]
        /\ UNCHANGED <<cancelled, run, draining, errc, gor, closing, answer>>
    BY <1>3, ServeAssumption DEF Arrive, Accepts, Stopped, Listeners
  <2>2. \A k \in Listeners : k # To[r] => InFlight(k)' = InFlight(k)
    BY <2>1 DEF Typed, InFlight
  <2>3. Typed' /\ DrainProgress'
    BY <2>1, <2>2 DEF draining, answer, Typed, DrainProgress, Stopped
  <2> QED
    BY <2>1, <2>3 DEF draining, answer, DrainStopsEveryListener, NilMeansAllServed,
       GraceIsGranted, Drained
<1>4. ASSUME NEW r \in Requests, Finish(r) PROVE IInv'
  <2>1. /\ req' = [req EXCEPT ![r] = "served"]
        /\ UNCHANGED <<cancelled, run, draining, errc, gor, closing, answer>>
    BY <1>4 DEF Finish
  <2>2. \A k \in Listeners : InFlight(k) = {} => InFlight(k)' = {}
    BY <2>1 DEF Typed, InFlight
  <2>3. Typed' /\ DrainProgress'
    BY <2>1, <2>2 DEF draining, answer, Typed, DrainProgress, Stopped
  <2> QED
    BY <2>1, <2>3 DEF draining, answer, DrainStopsEveryListener, NilMeansAllServed,
       GraceIsGranted, Drained
<1> QED
  BY <1>1, <1>2, <1>3, <1>4

LEMMA NextInvariant == IInv /\ [Next]_vars => IInv'
<1> SUFFICES ASSUME IInv, [Next]_vars PROVE IInv'
  OBVIOUS
<1>1. CASE UNCHANGED vars
  BY <1>1 DEF vars, draining, answer, IInv, Typed, DrainProgress, DrainStopsEveryListener,
     NilMeansAllServed, GraceIsGranted, Drained, Stopped, InFlight
<1> QED
  BY <1>1, RunStepInv, ShutdownWaitInv, ListenerInv, AroundInv DEF Next, RunStep, Terminated

LEMMA Invariance == Spec => []IInv
<1> QED
  BY InitInvariant, NextInvariant, PTL DEF Spec

-----------------------------------------------------------------------------
\* After a drain no listener accepts, however many there are and whichever of
\* them failed or was late to bind (drain).
THEOREM DrainIsComplete == Spec => []DrainStopsEveryListener
<1>1. IInv => DrainStopsEveryListener
  BY DEF IInv
<1> QED
  BY <1>1, Invariance, PTL

\* A drain that returns nil has abandoned no request on any listener (drain).
THEOREM NilIsHonest == Spec => []NilMeansAllServed
<1>1. IInv => NilMeansAllServed
  BY DEF IInv
<1> QED
  BY <1>1, Invariance, PTL

\* A drain that abandons a request has waited for the whole grace period,
\* which all the listeners share (drain).
THEOREM GraceIsHonoured == Spec => []GraceIsGranted
<1>1. IInv => GraceIsGranted
  BY DEF IInv
<1> QED
  BY <1>1, Invariance, PTL

-----------------------------------------------------------------------------
(* The layers of a handler *)

\* Every set of numbers has a least one.
LEMMA LeastNumber ==
  ASSUME NEW S \in SUBSET Nat, S # {}
  PROVE  \E n \in S : \A m \in S : n <= m
<1>1. IsWellFoundedOn(OpToRel(<, Nat), Nat)
  BY NatLessThanWellFounded
<1>2. PICK n \in S : \A m \in S : ~(<<m, n>> \in OpToRel(<, Nat))
  BY <1>1, WFMin
<1>3. ASSUME NEW m \in S PROVE n <= m
  <2>1. <<m, n>> \in OpToRel(<, Nat) <=> <<m, n>> \in Nat \X Nat /\ m < n
    BY Zenon DEF OpToRel
  <2>2. ~(m < n)
    BY <2>1, <1>2
  <2> QED
    BY <2>2
<1> QED
  BY <1>3

\* One turn of the loop: a layer is put around those after it.
LEMMA ConsIsConcat ==
  ASSUME NEW S, NEW a \in Seq(S), NEW b \in Seq(S), NEW x \in S,
         Len(a) = Len(b) + 1, a[1] = x, \A j \in 1..Len(b) : a[j + 1] = b[j]
  PROVE  a = <<x>> \o b
<1>1. <<x>> \o b \in Seq(S) /\ Len(<<x>> \o b) = Len(a)
  OBVIOUS
<1>2. ASSUME NEW j \in 1..Len(a) PROVE a[j] = (<<x>> \o b)[j]
  <2>1. CASE j = 1
    BY <2>1
  <2>2. CASE j # 1
    <3>1. j - 1 \in 1..Len(b)
      BY <2>2
    <3>2. a[(j - 1) + 1] = b[j - 1]
      BY <3>1
    <3> QED
      BY <2>2, <3>1, <3>2
  <2> QED
    BY <2>1, <2>2
<1> QED
  BY <1>1, <1>2, SeqEqual

LEMMA OneLayerAround ==
  ASSUME NEW S, NEW mw \in Seq(S), NEW h \in Seq(S), NEW i \in 1..Len(mw)
  PROVE  SubSeq(mw, i, Len(mw)) \o h = <<mw[i]>> \o (SubSeq(mw, i + 1, Len(mw)) \o h)
<1> DEFINE a == SubSeq(mw, i, Len(mw)) \o h
           b == SubSeq(mw, i + 1, Len(mw)) \o h
<1>1. a \in Seq(S) /\ b \in Seq(S) /\ Len(a) = Len(b) + 1 /\ a[1] = mw[i]
  OBVIOUS
<1>2. ASSUME NEW j \in 1..Len(b) PROVE a[j + 1] = b[j]
  <2>1. CASE j <= Len(mw) - i
    BY <2>1
  <2>2. CASE j > Len(mw) - i
    BY <2>2
  <2> QED
    BY <2>1, <2>2
<1>3. mw[i] \in S
  OBVIOUS
<1> HIDE DEF a, b
<1>4. a = <<mw[i]>> \o b
  BY <1>1, <1>2, <1>3, ConsIsConcat
<1> QED
  BY <1>4 DEF a, b

\* The loop of applyMiddleware, from the last to the first, puts the layers in
\* the order they were given in, with the handler inside.
LEMMA FirstIsOutermost ==
  ASSUME NEW S, NEW h \in Seq(S), NEW mw \in Seq(S)
  PROVE  ApplyMiddleware(h, mw) = mw \o h
<1> DEFINE n == Len(mw)
           D == 1..n + 1
           E(f) == [i \in D |-> IF i = n + 1 THEN h ELSE <<mw[i]>> \o f[i + 1]]
           w == CHOOSE f : f = E(f)
           g == [i \in D |-> SubSeq(mw, i, n) \o h]
<1>1. g = E(g)
  <2>1. ASSUME NEW i \in D PROVE g[i] = IF i = n + 1 THEN h ELSE <<mw[i]>> \o g[i + 1]
    <3>1. CASE i = n + 1
      BY <3>1
    <3>2. CASE i # n + 1
      <4>1. i \in 1..Len(mw) /\ i + 1 \in D
        BY <3>2
      <4>2. SubSeq(mw, i, n) \o h = <<mw[i]>> \o (SubSeq(mw, i + 1, n) \o h)
        BY <4>1, OneLayerAround
      <4> QED
        BY <3>2, <4>1, <4>2
    <3> QED
      BY <3>1, <3>2
  <2> QED
    BY <2>1
<1>2. w = E(w)
  BY <1>1
<1>3. ApplyMiddleware(h, mw) = w[1]
  BY DEF ApplyMiddleware
<1>4. n \in Nat /\ SubSeq(mw, 1, n) = mw
  BY SubSeqFull
<1>5. g[1] = mw \o h
  <2>1. 1 \in D
    BY <1>4
  <2> QED
    BY ONLY <2>1, <1>4
<1> HIDE DEF w, g, n
<1>6. \A i \in D : w[i] = g[i]
  <2> DEFINE Bad == {k \in Nat : k \in D /\ w[n + 2 - k] # g[n + 2 - k]}
  <2>1. SUFFICES ASSUME Bad # {} PROVE FALSE
    <3> ASSUME NEW i \in D, w[i] # g[i] PROVE n + 2 - i \in Bad
      BY <1>4
    <3> QED
      BY <1>4
  <2>2. PICK k \in Bad : \A m \in Bad : k <= m
    <3> HIDE DEF Bad
    <3>1. Bad \in SUBSET Nat
      BY DEF Bad
    <3> QED
      BY <2>1, <3>1, LeastNumber
  <2>3. k \in D /\ w[n + 2 - k] # g[n + 2 - k]
    BY <2>2
  <2>4. n + 2 - k \in D
    BY <2>3, <1>4
  <2>5. CASE k = 1
    <3>1. n + 1 \in D /\ n + 2 - k = n + 1
      BY <2>5, <1>4
    <3>2. w[n + 1] = h /\ g[n + 1] = h
      BY <3>1, <1>1, <1>2
    <3> QED
      BY <3>1, <3>2, <2>3
  <2>6. CASE k # 1
    <3>1. k - 1 \notin Bad
      BY <2>2, <2>3, <1>4
    <3>2. k - 1 \in D /\ n + 2 - (k - 1) = (n + 2 - k) + 1
      BY <2>3, <2>6, <1>4
    <3>3. w[(n + 2 - k) + 1] = g[(n + 2 - k) + 1]
      BY <3>1, <3>2, <1>4
    <3> DEFINE z == n + 2 - k
    <3>4. z \in D /\ z # n + 1
      BY <2>4, <2>6, <1>4
    <3>5. w[z] = <<mw[z]>> \o w[z + 1] /\ g[z] = <<mw[z]>> \o g[z + 1]
      BY <3>4, <1>1, <1>2
    <3> QED
      BY <3>5, <3>3, <2>3
  <2> QED
    BY <2>5, <2>6
<1> QED
  BY <1>3, <1>4, <1>5, <1>6

-----------------------------------------------------------------------------
(* The inductive invariant of the requests *)

\* The layers around the project's own handler.
Inner == Len(Middleware) + 1

\* The spans a request has left when it has come out to a depth: none while it
\* is inside the middleware, that of a project's own instrumentation, unless
\* a middleware answered in its place, and last the one around them all.
SpansLeft(r) ==
  IF ServedByOps(r) THEN total[r] = 0
  ELSE /\ depth[r] = 0 => total[r] \in (IF conf.wrapped THEN {1, 2} ELSE {1})
       /\ depth[r] \in 1..Inner => total[r] \in (IF conf.wrapped THEN {0, 1} ELSE {0})
       /\ depth[r] > Inner => total[r] = 0

Layered(r) ==
  /\ depth[r] \in 0..Len(Root(r))
  /\ way[r] = "unsent" => depth[r] = 0 /\ bad[r] = {}
  /\ way[r] \in {"unsent", "in"} => total[r] = 0
  /\ way[r] = "over" => depth[r] = 0
  /\ way[r] \in {"out", "over"} => SpansLeft(r)

\* What a probe has noted is of its own checks, and as they are now if they have
\* not changed since it was sent.
Probed(r) ==
  ServedByOps(r) /\ way[r] = "in" =>
    /\ bad[r] \subseteq Elements(Root(r))
    /\ bad[r] \cap steady[r] \cap healthy = {}
    /\ \A i \in 1..depth[r] : Root(r)[i] \in steady[r] \ healthy => Root(r)[i] \in bad[r]

RequestsInv ==
  /\ RequestsTypeOK
  /\ \A r \in Reqs : Layered(r) /\ Probed(r)

-----------------------------------------------------------------------------
(* The inductive invariant of an assertion *)

\* Nobody else has a request under way, and what has been recorded since the
\* reset is the spans of the one the assertion has sent.
Alone ==
  alone /\ test \in {"reset", "get", "eventually", "never"} =>
    /\ \A r \in Reqs \ {target} : way[r] \in {"unsent", "over"}
    /\ Len(ended) = total[target]

Asserting ==
  /\ ended \in Seq(Reqs) /\ once \in BOOLEAN /\ alone \in BOOLEAN
  /\ test \in {"idle", "reset", "get", "eventually", "never", "done"}
  /\ test # "idle" => target \in Reqs
  /\ test = "reset" => way[target] = "unsent"
  /\ test \in {"eventually", "never"} => way[target] \in {"out", "over"}
  /\ test = "eventually" => once
  /\ test = "never" /\ once => ended # <<>>
  /\ \A r \in Reqs : answered[r] => way[r] \in {"out", "over"}

HarnessInv == RequestsInv /\ Asserting /\ Alone /\ VerdictIsRight

-----------------------------------------------------------------------------
\* What is where when one layer is put around others.
LEMMA LayersAround ==
  ASSUME NEW S, NEW x \in S, NEW mw \in Seq(S), NEW h \in Seq(S),
         NEW a, a = <<x>> \o (mw \o h)
  PROVE  /\ a \in Seq(S) /\ Len(a) = 1 + Len(mw) + Len(h)
         /\ a[1] = x
         /\ \A i \in 1..Len(mw) : a[i + 1] = mw[i]
         /\ \A i \in 1..Len(h) : a[Len(mw) + 1 + i] = h[i]
<1>1. a \in Seq(S) /\ Len(a) = 1 + Len(mw) + Len(h) /\ a[1] = x
  OBVIOUS
<1>2. \A i \in 1..Len(mw) : a[i + 1] = mw[i]
  OBVIOUS
<1>3. \A i \in 1..Len(h) : a[Len(mw) + 1 + i] = h[i]
  OBVIOUS
<1> QED
  BY <1>1, <1>2, <1>3

LEMMA LayersOfApp ==
  ASSUME RequestsTypeOK
  PROVE  /\ Inner \in Nat \ {0} /\ Len(App) \in Nat /\ DOMAIN App = 1..Len(App)
         /\ Len(App) = Inner + (IF conf.wrapped THEN 2 ELSE 1)
         /\ App[1] = "otel" /\ App[Inner + 1] = (IF conf.wrapped THEN "otel" ELSE "handler")
         /\ conf.wrapped => App[Inner + 2] = "handler"
         /\ \A i \in DOMAIN Middleware : i + 1 \in 2..Inner /\ App[i + 1] = Middleware[i]
         /\ \A i \in 2..Inner : App[i] \in Elements(Middleware)
<1> DEFINE S == Elements(Middleware) \cup {"otel", "handler"}
<1>1. Middleware \in Seq(S)
  <2>1. Middleware \in Seq(Elements(Middleware))
    BY RequestsAssumption
  <2>2. Elements(Middleware) \subseteq S
    OBVIOUS
  <2> HIDE DEF S
  <2> QED
    BY <2>1, <2>2, SeqMonotonic
<1>2. Handler \in Seq(S) /\ Handler = IF conf.wrapped THEN <<"otel", "handler">> ELSE <<"handler">>
  <2>1. "otel" \in S /\ "handler" \in S
    OBVIOUS
  <2> HIDE DEF S
  <2>2. <<"otel", "handler">> \in Seq(S) /\ <<"handler">> \in Seq(S)
    BY <2>1
  <2> QED
    BY <2>2 DEF Handler
<1>3. App = <<"otel">> \o (Middleware \o Handler)
  BY <1>1, <1>2, FirstIsOutermost DEF App
<1>4. /\ Len(App) = 1 + Len(Middleware) + Len(Handler) /\ App \in Seq(S)
      /\ App[1] = "otel"
      /\ \A i \in 1..Len(Middleware) : App[i + 1] = Middleware[i]
      /\ \A i \in 1..Len(Handler) : App[Len(Middleware) + 1 + i] = Handler[i]
  BY <1>1, <1>2, <1>3, LayersAround
<1> HIDE DEF S
<1>5. Len(Middleware) \in Nat /\ DOMAIN Middleware = 1..Len(Middleware)
  BY <1>1
<1>6. Len(App) \in Nat /\ DOMAIN App = 1..Len(App)
  BY <1>4
<1>7. conf.wrapped \in BOOLEAN
  BY DEF RequestsTypeOK
<1>8. \A i \in 2..Inner : i - 1 \in DOMAIN Middleware /\ App[(i - 1) + 1] = Middleware[i - 1]
  BY <1>4, <1>5 DEF Inner
<1>9. \A i \in 2..Inner : App[i] \in Elements(Middleware)
  BY <1>8, <1>5 DEF Elements, Inner
<1>10. CASE conf.wrapped
  <2>1. Len(Handler) = 2 /\ Handler[1] = "otel" /\ Handler[2] = "handler"
    BY <1>2, <1>10
  <2> QED
    BY <1>4, <1>5, <1>6, <1>9, <1>10, <2>1 DEF Inner
<1>11. CASE ~conf.wrapped
  <2>1. Len(Handler) = 1 /\ Handler[1] = "handler"
    BY <1>2, <1>11
  <2> QED
    BY <1>4, <1>5, <1>6, <1>9, <1>11, <2>1 DEF Inner
<1> QED
  BY <1>7, <1>10, <1>11

LEMMA LayersOfOps ==
  ASSUME NEW path
  PROVE  /\ Len(Ops(path)) \in Nat /\ DOMAIN Ops(path) = 1..Len(Ops(path))
         /\ Elements(Ops(path)) \subseteq Checks
         /\ Elements(Ops(path)) = Relevant(path)
<1>1. Health \in Seq(Elements(Health)) /\ Readiness \in Seq(Elements(Readiness))
  BY RequestsAssumption
<1>2. Elements(<<>>) = {} /\ Len(<<>>) = 0 /\ DOMAIN <<>> = 1..0
  BY DEF Elements
<1>3. Ops(path) \in {Health, Readiness, <<>>}
  BY DEF Ops
<1>4. Elements(Ops(path)) = Relevant(path)
  BY <1>2 DEF Ops, Relevant
<1> QED
  BY <1>1, <1>2, <1>3, <1>4 DEF Checks

LEMMA RootOfRequest ==
  ASSUME RequestsTypeOK, NEW r \in Reqs
  PROVE  /\ ServedByOps(r) => Root(r) = Ops(ask[r].path)
         /\ ~ServedByOps(r) => Root(r) = App
         /\ Len(Root(r)) \in Nat /\ DOMAIN Root(r) = 1..Len(Root(r))
         /\ ServedByOps(r) \in BOOLEAN
<1>1. ServedByOps(r) \in BOOLEAN
  BY DEF ServedByOps, RequestsTypeOK
<1>2. ServedByOps(r) => Root(r) = Ops(ask[r].path)
  BY DEF ServedByOps, Root, RequestsTypeOK
<1>3. ~ServedByOps(r) => Root(r) = App
  BY DEF ServedByOps, Root, RequestsTypeOK
<1> QED
  BY <1>1, <1>2, <1>3, LayersOfApp, LayersOfOps

\* Only the instrumentation ends spans, and it is no check.
LEMMA WhereSpansEnd ==
  ASSUME RequestsTypeOK, NEW r \in Reqs, depth[r] \in 1..Len(Root(r))
  PROVE  /\ ServedByOps(r) => Root(r)[depth[r]] # "otel"
         /\ ~ServedByOps(r) =>
              (Root(r)[depth[r]] = "otel" <=>
                 depth[r] = 1 \/ (conf.wrapped /\ depth[r] = Inner + 1))
<1>1. CASE ServedByOps(r)
  <2>1. Root(r)[depth[r]] \in Checks
    BY <1>1, RootOfRequest, LayersOfOps DEF Elements
  <2>2. "otel" \notin Checks
    BY RequestsAssumption
  <2> QED
    BY <1>1, <2>1, <2>2
<1>2. CASE ~ServedByOps(r)
  <2>1. "otel" \notin Elements(Middleware)
    BY RequestsAssumption
  <2>2. conf.wrapped \in BOOLEAN
    BY DEF RequestsTypeOK
  <2>3. Root(r) = App
    BY <1>2, RootOfRequest
  <2>4. depth[r] = 1 \/ depth[r] \in 2..Inner \/ depth[r] = Inner + 1
          \/ (conf.wrapped /\ depth[r] = Inner + 2)
    BY <2>2, <2>3, LayersOfApp
  <2> QED
    BY <1>2, <2>1, <2>2, <2>3, <2>4, LayersOfApp
<1> QED
  BY <1>1, <1>2

-----------------------------------------------------------------------------
(* The requests *)

\* What a request meets is fixed when it is sent.
LEMMA RootStays ==
  ASSUME NEW r, conf' = conf, ask'[r] = ask[r]
  PROVE  Root(r)' = Root(r) /\ ServedByOps(r)' = ServedByOps(r)
<1>1. Handler' = Handler
  BY DEF Handler
<1>2. App' = App
  BY <1>1 DEF App, ApplyMiddleware
<1> QED
  BY <1>2 DEF Root, ServedByOps, Ops

LEMMA Untouched ==
  ASSUME NEW r, Layered(r), Probed(r), conf' = conf, ask'[r] = ask[r],
         way'[r] = way[r], depth'[r] = depth[r], bad'[r] = bad[r], total'[r] = total[r],
         steady'[r] = steady[r], healthy' = healthy
  PROVE  Layered(r)' /\ Probed(r)'
<1>1. Root(r)' = Root(r) /\ ServedByOps(r)' = ServedByOps(r)
  BY RootStays
<1>2. Layered(r)'
  BY <1>1 DEF Layered, SpansLeft, Inner
<1>3. Probed(r)'
  BY <1>1 DEF Probed
<1> QED
  BY <1>2, <1>3

LEMMA RequestsInvInit == RequestsInit => RequestsInv
<1> SUFFICES ASSUME RequestsInit PROVE RequestsInv
  OBVIOUS
<1>1. RequestsTypeOK
  BY DEF RequestsInit, RequestsTypeOK, NotSent, Paths
<1>2. ASSUME NEW r \in Reqs PROVE Layered(r) /\ Probed(r)
  <2>1. way[r] = "unsent" /\ depth[r] = 0 /\ bad[r] = {} /\ total[r] = 0
    BY DEF RequestsInit
  <2>2. Len(Root(r)) \in Nat
    BY <1>1, RootOfRequest
  <2> QED
    BY <2>1, <2>2 DEF Layered, Probed
<1> QED
  BY <1>1, <1>2 DEF RequestsInv

LEMMA InvNew == RequestsInv /\ New => RequestsInv'
<1> SUFFICES ASSUME RequestsInv, New PROVE RequestsInv'
  OBVIOUS
<1>1. RequestsTypeOK'
  BY DEF RequestsInv, New, RequestsTypeOK
<1>2. ASSUME NEW r \in Reqs PROVE Layered(r)' /\ Probed(r)'
  BY Untouched DEF RequestsInv, New
<1> QED
  BY <1>1, <1>2 DEF RequestsInv

LEMMA InvSend ==
  ASSUME RequestsInv, NEW q \in Reqs, NEW path \in Paths, NEW to \in {"app", "ops"},
         Send(q, path, to)
  PROVE  RequestsInv'
<1>1. RequestsTypeOK'
  <2>1. Relevant(path) \subseteq Checks
    BY DEF Relevant, Checks
  <2> QED
    BY <2>1 DEF RequestsInv, Send, Turn, RequestsTypeOK
<1>2. ASSUME NEW r \in Reqs PROVE Layered(r)' /\ Probed(r)'
  <2>1. CASE r # q
    BY <2>1, Untouched DEF RequestsInv, Send, Turn, RequestsTypeOK
  <2>2. CASE r = q
    <3>1. way'[r] = "in" /\ depth'[r] = 0 /\ total'[r] = 0 /\ bad'[r] = {}
      BY <2>2 DEF RequestsInv, Send, Turn, RequestsTypeOK, Layered
    <3>2. Len(Root(r))' \in Nat
      <4> HIDE DEF RequestsTypeOK
      <4>1. (RequestsTypeOK => Len(Root(r)) \in Nat)'
        BY RootOfRequest, PTL
      <4> QED
        BY <4>1, <1>1
    <3> QED
      BY <3>1, <3>2 DEF Layered, Probed
  <2> QED
    BY <2>1, <2>2
<1> QED
  BY <1>1, <1>2 DEF RequestsInv

LEMMA InvEnter ==
  ASSUME RequestsInv, NEW q \in Reqs, Enter(q)
  PROVE  RequestsInv'
<1>1. RequestsTypeOK'
  BY DEF RequestsInv, Enter, RequestsTypeOK, Failed
<1>2. ASSUME NEW r \in Reqs PROVE Layered(r)' /\ Probed(r)'
  <2>1. CASE r # q
    BY <2>1, Untouched DEF RequestsInv, Enter, RequestsTypeOK
  <2>2. CASE r = q
    <3> DEFINE layer == Root(r)[depth[r] + 1]
    <3>1. Root(r)' = Root(r) /\ ServedByOps(r)' = ServedByOps(r)
      BY RootStays DEF Enter
    <3>2. /\ way'[r] = "in" /\ way[r] = "in" /\ depth'[r] = depth[r] + 1
          /\ total'[r] = total[r] /\ steady' = steady /\ healthy' = healthy
          /\ bad'[r] = IF layer \in Checks THEN Failed(r, layer) ELSE bad[r]
      BY <2>2 DEF RequestsInv, Enter, RequestsTypeOK
    <3>3. depth[r] \in Nat /\ depth[r] < Len(Root(r)) /\ Len(Root(r)) \in Nat
          /\ DOMAIN Root(r) = 1..Len(Root(r))
      BY <2>2, RootOfRequest DEF RequestsInv, Enter, RequestsTypeOK
    <3>4. Layered(r)'
      BY <3>1, <3>2, <3>3 DEF Layered, RequestsInv
    <3>5. Probed(r)'
      <4> SUFFICES ASSUME ServedByOps(r)
                   PROVE  /\ bad'[r] \subseteq Elements(Root(r))
                          /\ bad'[r] \cap steady[r] \cap healthy = {}
                          /\ \A i \in 1..depth[r] + 1 :
                               Root(r)[i] \in steady[r] \ healthy => Root(r)[i] \in bad'[r]
        BY <3>1, <3>2 DEF Probed
      <4>1. layer \in Elements(Root(r))
        BY <3>3 DEF Elements
      <4>2. Elements(Root(r)) \subseteq Checks
        BY RootOfRequest, LayersOfOps DEF RequestsInv
      <4>3. bad'[r] = bad[r] \cup ({layer} \ healthy)
        BY <4>1, <4>2, <3>2 DEF Failed
      <4>4. /\ bad[r] \subseteq Elements(Root(r))
            /\ bad[r] \cap steady[r] \cap healthy = {}
            /\ \A i \in 1..depth[r] : Root(r)[i] \in steady[r] \ healthy => Root(r)[i] \in bad[r]
        BY <3>2 DEF RequestsInv, Probed
      <4>5. \A i \in 1..depth[r] + 1 : i \in 1..depth[r] \/ i = depth[r] + 1
        BY <3>3
      <4> HIDE DEF layer
      <4>6. bad'[r] \subseteq Elements(Root(r)) /\ bad'[r] \cap steady[r] \cap healthy = {}
        BY <4>1, <4>3, <4>4
      <4>7. ASSUME NEW i \in 1..depth[r] + 1, Root(r)[i] \in steady[r] \ healthy
            PROVE  Root(r)[i] \in bad'[r]
        <5>1. CASE i \in 1..depth[r]
          BY <5>1, <4>3, <4>4, <4>7
        <5>2. CASE i = depth[r] + 1
          BY <5>2, <4>3, <4>7 DEF layer
        <5> QED
          BY <5>1, <5>2, <4>5
      <4> QED
        BY <4>6, <4>7
    <3> QED
      BY <3>4, <3>5
  <2> QED
    BY <2>1, <2>2
<1> QED
  BY <1>1, <1>2 DEF RequestsInv

LEMMA InvTurnBack ==
  ASSUME RequestsInv, NEW q \in Reqs, TurnBack(q)
  PROVE  RequestsInv'
<1>1. RequestsTypeOK'
  BY DEF RequestsInv, TurnBack, Turn, RequestsTypeOK
<1>2. ASSUME NEW r \in Reqs PROVE Layered(r)' /\ Probed(r)'
  <2>1. CASE r # q
    BY <2>1, Untouched DEF RequestsInv, TurnBack, Turn, RequestsTypeOK
  <2>2. CASE r = q
    <3>1. Root(r)' = Root(r) /\ ServedByOps(r)' = ServedByOps(r)
      BY RootStays DEF TurnBack
    <3>2. way'[r] = "out" /\ way[r] = "in" /\ depth'[r] = depth[r]
          /\ total'[r] = total[r] /\ conf' = conf
      BY <2>2 DEF RequestsInv, TurnBack, Turn, RequestsTypeOK
    <3>3. total[r] = 0 /\ depth[r] \in 0..Len(Root(r)) /\ Len(Root(r)) \in Nat
      BY <3>2, RootOfRequest DEF RequestsInv, Layered
    <3>4. ~ServedByOps(r) => depth[r] > 0
      <4>1. ~ServedByOps(r) => Root(r) = App /\ Len(App) > 0
        BY RootOfRequest, LayersOfApp DEF RequestsInv
      <4> QED
        BY <2>2, <4>1, <3>3 DEF TurnBack
    <3>5. SpansLeft(r)'
      BY <3>1, <3>2, <3>3, <3>4, LayersOfApp DEF SpansLeft, Inner, RequestsInv
    <3> QED
      BY <3>1, <3>2, <3>3, <3>5 DEF Layered, Probed
  <2> QED
    BY <2>1, <2>2
<1> QED
  BY <1>1, <1>2 DEF RequestsInv

\* A span ends where the instrumentation is left.
LEMMA InvLeave ==
  ASSUME RequestsInv, NEW q \in Reqs, Leave(q)
  PROVE  RequestsInv'
<1>1. RequestsTypeOK'
  <2>1. (IF Spans(q) THEN 1 ELSE 0) \in Nat
    OBVIOUS
  <2>2. depth' \in [Reqs -> Nat] /\ total' \in [Reqs -> Nat]
    <3>1. depth \in [Reqs -> Nat] /\ total \in [Reqs -> Nat]
      BY DEF RequestsInv, RequestsTypeOK
    <3>2. CASE depth[q] = 0
      BY <3>1, <3>2 DEF Leave
    <3>3. CASE depth[q] # 0
      <4>1. /\ depth' = [depth EXCEPT ![q] = depth[q] - 1]
            /\ total' = [total EXCEPT ![q] = total[q] + (IF Spans(q) THEN 1 ELSE 0)]
        BY <3>3 DEF Leave
      <4>2. depth[q] - 1 \in Nat /\ total[q] + (IF Spans(q) THEN 1 ELSE 0) \in Nat
        BY <2>1, <3>1, <3>3
      <4> QED
        BY <3>1, <4>1, <4>2
    <3> QED
      BY <3>2, <3>3
  <2>3. way' \in [Reqs -> {"unsent", "in", "out", "over"}]
    BY DEF RequestsInv, Leave, Turn, RequestsTypeOK
  <2> QED
    BY <2>2, <2>3 DEF RequestsInv, Leave, RequestsTypeOK
<1>2. ASSUME NEW r \in Reqs PROVE Layered(r)' /\ Probed(r)'
  <2>1. CASE r # q
    BY <2>1, Untouched DEF RequestsInv, Leave, Turn, RequestsTypeOK
  <2>2. CASE r = q
    <3>1. Root(r)' = Root(r) /\ ServedByOps(r)' = ServedByOps(r) /\ conf' = conf
      BY RootStays DEF Leave
    <3>2. way[r] = "out" /\ SpansLeft(r) /\ depth[r] \in 0..Len(Root(r)) /\ Len(Root(r)) \in Nat
      BY <2>2, RootOfRequest DEF Leave, RequestsInv, Layered
    <3>3. ServedByOps(r) \in BOOLEAN /\ conf.wrapped \in BOOLEAN /\ total[r] \in Nat
      BY RootOfRequest DEF RequestsInv, RequestsTypeOK
    <3>4. CASE depth[r] = 0
      <4>1. way'[r] = "over" /\ depth'[r] = 0 /\ total'[r] = total[r]
        BY <2>2, <3>4 DEF Leave, Turn, RequestsInv, RequestsTypeOK
      <4> QED
        BY <3>1, <3>2, <3>3, <3>4, <4>1, LayersOfApp DEF Layered, Probed, SpansLeft, Inner, RequestsInv
    <3>5. CASE depth[r] # 0
      <4>1. /\ way'[r] = "out" /\ depth'[r] = depth[r] - 1
            /\ total'[r] = total[r] + (IF Root(r)[depth[r]] = "otel" THEN 1 ELSE 0)
        BY <2>2, <3>2, <3>5 DEF Leave, Spans, RequestsInv, RequestsTypeOK
      <4>2. depth[r] \in 1..Len(Root(r))
        BY <3>2, <3>5
      <4>3. CASE ServedByOps(r)
        <5>1. total'[r] = total[r]
          BY <4>1, <4>2, <4>3, <3>3, WhereSpansEnd DEF RequestsInv
        <5> QED
          BY <3>1, <3>2, <3>3, <4>1, <4>2, <4>3, <5>1 DEF Layered, Probed, SpansLeft
      <4>4. CASE ~ServedByOps(r)
        <5>1. Root(r)[depth[r]] = "otel" <=>
                 depth[r] = 1 \/ (conf.wrapped /\ depth[r] = Inner + 1)
          BY <4>2, <4>4, WhereSpansEnd DEF RequestsInv
        <5>2. Inner \in Nat \ {0} /\ Len(Root(r)) = Inner + (IF conf.wrapped THEN 2 ELSE 1)
          BY <4>4, RootOfRequest, LayersOfApp DEF RequestsInv
        <5>3. Inner' = Inner
          BY DEF Inner
        <5>4. SpansLeft(r)'
          BY <3>1, <3>2, <3>3, <4>1, <4>2, <4>4, <5>1, <5>2, <5>3 DEF SpansLeft
        <5> QED
          BY <3>1, <3>2, <4>1, <4>2, <5>4 DEF Layered, Probed
      <4> QED
        BY <4>3, <4>4
    <3> QED
      BY <3>4, <3>5
  <2> QED
    BY <2>1, <2>2
<1> QED
  BY <1>1, <1>2 DEF RequestsInv

LEMMA InvAnswer ==
  ASSUME RequestsInv, NEW q \in Reqs, Answer(q)
  PROVE  RequestsInv'
<1>1. RequestsTypeOK'
  BY DEF RequestsInv, Answer, RequestsTypeOK
<1>2. ASSUME NEW r \in Reqs PROVE Layered(r)' /\ Probed(r)'
  BY Untouched DEF RequestsInv, Answer
<1> QED
  BY <1>1, <1>2 DEF RequestsInv

\* A check that changes is no longer one of those that have not.
LEMMA InvHealthChanges ==
  ASSUME RequestsInv, NEW c \in Checks, HealthChanges(c)
  PROVE  RequestsInv'
<1>1. RequestsTypeOK'
  BY DEF RequestsInv, HealthChanges, RequestsTypeOK
<1>2. ASSUME NEW r \in Reqs PROVE Layered(r)' /\ Probed(r)'
  <2>1. Root(r)' = Root(r) /\ ServedByOps(r)' = ServedByOps(r)
    BY RootStays DEF HealthChanges
  <2>2. Layered(r)'
    BY <2>1 DEF Layered, SpansLeft, Inner, RequestsInv, HealthChanges
  <2>3. Probed(r)'
    <3> SUFFICES ASSUME ServedByOps(r), way[r] = "in"
                 PROVE  /\ bad[r] \subseteq Elements(Root(r))
                        /\ bad[r] \cap steady'[r] \cap healthy' = {}
                        /\ \A i \in 1..depth[r] :
                             Root(r)[i] \in steady'[r] \ healthy' => Root(r)[i] \in bad[r]
      BY <2>1 DEF Probed, HealthChanges
    <3>1. steady'[r] = steady[r] \ {c} /\ healthy' \ {c} = healthy \ {c}
      BY DEF HealthChanges
    <3>2. /\ bad[r] \subseteq Elements(Root(r))
          /\ bad[r] \cap steady[r] \cap healthy = {}
          /\ \A i \in 1..depth[r] : Root(r)[i] \in steady[r] \ healthy => Root(r)[i] \in bad[r]
      BY DEF RequestsInv, Probed
    <3> QED
      BY <3>1, <3>2
  <2> QED
    BY <2>2, <2>3
<1> QED
  BY <1>1, <1>2 DEF RequestsInv

LEMMA RequestsInvStutter ==
  ASSUME RequestsInv, UNCHANGED requestVars
  PROVE  RequestsInv'
<1>1. RequestsTypeOK'
  BY DEF RequestsInv, requestVars, RequestsTypeOK
<1>2. ASSUME NEW r \in Reqs PROVE Layered(r)' /\ Probed(r)'
  BY Untouched DEF RequestsInv, requestVars
<1> QED
  BY <1>1, <1>2 DEF RequestsInv

\* A layer of the middleware is only in one place, after all those before it.
LEMMA InPlace ==
  ASSUME RequestsInv
  PROVE  LayersInPlace
<1> SUFFICES ASSUME NEW r \in Reqs
             PROVE  IF ServedByOps(r)
                      THEN (way[r] = "over" => total[r] = 0) /\ Elements(Root(r)) \subseteq Checks
                      ELSE /\ way[r] = "over" => total[r] \in (IF conf.wrapped THEN {1, 2} ELSE {1})
                           /\ \A i \in DOMAIN Middleware :
                                Within(r, Middleware[i]) =>
                                  /\ \A j \in 1..i : Within(r, Middleware[j])
                                  /\ Root(r)[1] = "otel"
  BY DEF LayersInPlace
<1>1. CASE ServedByOps(r)
  <2>1. way[r] = "over" => total[r] = 0
    BY <1>1 DEF RequestsInv, Layered, SpansLeft
  <2>2. Elements(Root(r)) \subseteq Checks
    BY <1>1, RootOfRequest, LayersOfOps DEF RequestsInv
  <2> QED
    BY <1>1, <2>1, <2>2
<1>2. CASE ~ServedByOps(r)
  <2>1. way[r] = "over" => total[r] \in (IF conf.wrapped THEN {1, 2} ELSE {1})
    BY <1>2 DEF RequestsInv, Layered, SpansLeft
  <2>2. Root(r) = App /\ depth[r] \in 0..Len(App) /\ conf.wrapped \in BOOLEAN
    BY <1>2, RootOfRequest DEF RequestsInv, Layered, RequestsTypeOK
  <2>3. ASSUME NEW i \in DOMAIN Middleware, Within(r, Middleware[i])
        PROVE  (\A j \in 1..i : Within(r, Middleware[j])) /\ Root(r)[1] = "otel"
    <3>1. PICK k \in 1..depth[r] : App[k] = Middleware[i]
      BY <2>2, <2>3 DEF Within
    <3>2. Middleware[i] \in Elements(Middleware) /\ {"otel", "handler"} \cap Elements(Middleware) = {}
      BY RequestsAssumption DEF Elements
    <3>3. k = 1 \/ k \in 2..Inner \/ k = Inner + 1 \/ (conf.wrapped /\ k = Inner + 2)
      BY <2>2, LayersOfApp DEF RequestsInv
    <3>4. k \in 2..Inner
      BY <2>2, <3>1, <3>2, <3>3, LayersOfApp DEF RequestsInv
    <3>5. DOMAIN Middleware = 1..Len(Middleware) /\ Len(Middleware) \in Nat
      BY RequestsAssumption
    <3>6. k - 1 \in DOMAIN Middleware /\ App[(k - 1) + 1] = Middleware[k - 1]
      BY <3>4, <3>5, LayersOfApp DEF Inner, RequestsInv
    <3>7. k - 1 = i
      BY <3>1, <3>4, <3>6, RequestsAssumption
    <3>8. ASSUME NEW j \in 1..i PROVE Within(r, Middleware[j])
      <4>1. j \in DOMAIN Middleware /\ j + 1 \in 1..depth[r]
        BY <3>4, <3>5, <3>7, <2>2
      <4>2. App[j + 1] = Middleware[j]
        BY <4>1, LayersOfApp DEF RequestsInv
      <4> QED
        BY <4>1, <4>2, <2>2 DEF Within
    <3> QED
      BY <3>8, <2>2, LayersOfApp DEF RequestsInv
  <2> QED
    BY <1>2, <2>1, <2>3
<1> QED
  BY <1>1, <1>2, RootOfRequest DEF RequestsInv

LEMMA Honest ==
  ASSUME RequestsInv
  PROVE  ProbeIsHonest
<1> SUFFICES ASSUME NEW r \in Reqs, ServedByOps(r), way[r] = "in", depth[r] = Len(Root(r))
             PROVE  /\ (Relevant(ask[r].path) \cap steady[r]) \ healthy # {} => Status(r) = 503
                    /\ Relevant(ask[r].path) \subseteq steady[r] \cap healthy => Status(r) = 200
  BY DEF ProbeIsHonest
<1>1. Relevant(ask[r].path) = Elements(Root(r)) /\ DOMAIN Root(r) = 1..depth[r]
  BY RootOfRequest, LayersOfOps DEF RequestsInv
<1>2. /\ bad[r] \subseteq Elements(Root(r))
      /\ bad[r] \cap steady[r] \cap healthy = {}
      /\ \A i \in 1..depth[r] : Root(r)[i] \in steady[r] \ healthy => Root(r)[i] \in bad[r]
  BY DEF RequestsInv, Probed
<1>3. ASSUME NEW c \in (Elements(Root(r)) \cap steady[r]) \ healthy PROVE c \in bad[r]
  BY <1>1, <1>2 DEF Elements
<1>4. Elements(Root(r)) \subseteq steady[r] \cap healthy => bad[r] = {}
  BY <1>2
<1> QED
  BY <1>1, <1>3, <1>4 DEF Status

LEMMA RequestsInvStep == RequestsInv /\ [RequestsNext]_requestVars => RequestsInv'
BY InvNew, InvSend, InvEnter, InvTurnBack, InvLeave, InvAnswer, InvHealthChanges,
   RequestsInvStutter DEF RequestsNext

LEMMA RequestsInvariance == RequestsSpec => []RequestsInv
<1> QED
  BY RequestsInvInit, RequestsInvStep, PTL DEF RequestsSpec

\* Whatever clients ask for at the same time, an application's request leaves the
\* span of the instrumentation and meets its middleware in order, an operational
\* endpoint's neither (New, rootHandler).
THEOREM ServersKeepLayers == RequestsSpec => []LayersInPlace
BY InPlace, RequestsInvariance, PTL

\* A probe answers for its own checks, whatever the others do and whoever else
\* asks (probe).
THEOREM ServersProbeHonestly == RequestsSpec => []ProbeIsHonest
BY Honest, RequestsInvariance, PTL

-----------------------------------------------------------------------------
(* The assertions *)

LEMMA HarnessInvInit == HarnessInit => HarnessInv
<1> SUFFICES ASSUME HarnessInit PROVE HarnessInv
  OBVIOUS
<1>1. RequestsInv
  BY RequestsInvInit DEF HarnessInit
<1> QED
  BY <1>1 DEF HarnessInit, RequestsInit, HarnessInv, Asserting, Alone, VerdictIsRight

\* The steps of the server that leave the recorder alone.
LEMMA InvInside ==
  ASSUME HarnessInv, NEW r \in Reqs, test # "done",
         Enter(r) \/ TurnBack(r) \/ Answer(r), UNCHANGED <<ended, harness>>
  PROVE  HarnessInv'
<1>1. RequestsInv'
  BY InvEnter, InvTurnBack, InvAnswer DEF HarnessInv
<1>2. total' = total /\ (way' = way \/ (way[r] = "in" /\ way' = [way EXCEPT ![r] = "out"]))
  BY DEF Enter, TurnBack, Answer, Turn
<1>3. answered' = answered
        \/ (way[r] \in {"out", "over"} /\ way' = way /\ answered' = [answered EXCEPT ![r] = TRUE])
  BY DEF Enter, TurnBack, Answer
<1>4. way \in [Reqs -> {"unsent", "in", "out", "over"}] /\ answered \in [Reqs -> BOOLEAN]
  BY DEF HarnessInv, RequestsInv, RequestsTypeOK
<1>5. Asserting'
  BY <1>2, <1>3, <1>4 DEF HarnessInv, Asserting, harness
<1>6. Alone'
  BY <1>2, <1>4 DEF HarnessInv, Asserting, Alone, harness
<1>7. VerdictIsRight'
  BY DEF VerdictIsRight, harness
<1> QED
  BY <1>1, <1>5, <1>6, <1>7 DEF HarnessInv

\* A span that ends is recorded; while the assertion is alone, it is its own.
LEMMA InvLeaves ==
  ASSUME HarnessInv, NEW r \in Reqs, test # "done",
         Leave(r), Record(r), UNCHANGED harness
  PROVE  HarnessInv'
<1>1. RequestsInv'
  BY InvLeave DEF HarnessInv
<1>2. way[r] = "out" /\ way' \in {way, [way EXCEPT ![r] = "over"]} /\ answered' = answered
  BY DEF Leave, Turn
<1>3. way \in [Reqs -> {"unsent", "in", "out", "over"}] /\ answered \in [Reqs -> BOOLEAN]
      /\ total \in [Reqs -> Nat] /\ depth \in [Reqs -> Nat]
  BY DEF HarnessInv, RequestsInv, RequestsTypeOK
<1>4. ended \in Seq(Reqs) /\ ended' \in Seq(Reqs)
      /\ Len(ended') = Len(ended) + (IF Spans(r) THEN 1 ELSE 0)
      /\ (ended # <<>> => ended' # <<>>)
  BY DEF HarnessInv, Asserting, Record
<1>5. total'[r] = total[r] + (IF Spans(r) THEN 1 ELSE 0)
      /\ \A q \in Reqs \ {r} : total'[q] = total[q]
  <2>1. CASE depth[r] = 0
    BY <1>3, <2>1 DEF Leave, Spans
  <2>2. CASE depth[r] # 0
    BY <1>3, <2>2 DEF Leave
  <2> QED
    BY <2>1, <2>2
<1>6. Asserting'
  BY <1>2, <1>3, <1>4 DEF HarnessInv, Asserting, harness
<1>7. Alone'
  <2> SUFFICES ASSUME alone, test \in {"reset", "get", "eventually", "never"}
               PROVE  /\ \A q \in Reqs \ {target} : way'[q] \in {"unsent", "over"}
                      /\ Len(ended') = total'[target]
    BY DEF Alone, harness
  <2>1. Len(ended) = total[target] /\ r = target
    BY <1>2 DEF HarnessInv, Alone
  <2>2. \A q \in Reqs \ {target} : way'[q] \in {"unsent", "over"}
    BY <1>2, <1>3, <2>1 DEF HarnessInv, Alone
  <2> QED
    BY <1>4, <1>5, <2>1, <2>2
<1>8. VerdictIsRight'
  BY DEF VerdictIsRight, harness
<1> QED
  BY <1>1, <1>6, <1>7, <1>8 DEF HarnessInv

LEMMA InvServerStep ==
  ASSUME HarnessInv, NEW r \in Reqs, test # "done", ServerStep(r)
  PROVE  HarnessInv'
BY InvInside, InvLeaves DEF ServerStep

\* A request of another goroutine ends the time the assertion is alone.
LEMMA InvSendOther ==
  ASSUME HarnessInv, NEW r \in Reqs, test # "done", SendOther(r)
  PROVE  HarnessInv'
<1>1. PICK path \in Paths, to \in {"app", "ops"} : Send(r, path, to)
  BY DEF SendOther
<1>2. RequestsInv'
  BY <1>1, InvSend DEF HarnessInv
<1>3. way[r] = "unsent" /\ way' = [way EXCEPT ![r] = "in"] /\ answered' = answered
  BY <1>1 DEF Send, Turn
<1>4. way \in [Reqs -> {"unsent", "in", "out", "over"}]
  BY DEF HarnessInv, RequestsInv, RequestsTypeOK
<1>5. Asserting'
  BY <1>3, <1>4 DEF HarnessInv, Asserting, SendOther
<1>6. Alone'
  BY DEF HarnessInv, Alone, SendOther
<1>7. VerdictIsRight'
  BY DEF VerdictIsRight, SendOther
<1> QED
  BY <1>2, <1>5, <1>6, <1>7 DEF HarnessInv

LEMMA InvBegin ==
  ASSUME HarnessInv, NEW r \in Reqs, Begin(r)
  PROVE  HarnessInv'
<1>1. RequestsInv'
  BY RequestsInvStutter DEF HarnessInv, Begin
<1>2. way \in [Reqs -> {"unsent", "in", "out", "over"}] /\ total[r] = 0
  BY DEF HarnessInv, RequestsInv, RequestsTypeOK, Layered, Begin
<1>3. Asserting'
  BY DEF HarnessInv, Asserting, Begin, Reset, requestVars
<1>4. Alone'
  BY <1>2 DEF Alone, Begin, Reset, UnderWay, requestVars
<1>5. VerdictIsRight'
  BY DEF VerdictIsRight, Begin
<1> QED
  BY <1>1, <1>3, <1>4, <1>5 DEF HarnessInv

LEMMA InvGet ==
  ASSUME HarnessInv, Get
  PROVE  HarnessInv'
<1>1. PICK path \in Paths : Send(target, path, "app")
  BY DEF Get
<1>2. target \in Reqs
  BY DEF HarnessInv, Asserting, Get
<1>3. RequestsInv'
  BY <1>1, <1>2, InvSend DEF HarnessInv
<1>4. way[target] = "unsent" /\ way' = [way EXCEPT ![target] = "in"] /\ answered' = answered
      /\ total' = total
  BY <1>1 DEF Send, Turn
<1>5. way \in [Reqs -> {"unsent", "in", "out", "over"}]
  BY DEF HarnessInv, RequestsInv, RequestsTypeOK
<1>6. Asserting'
  BY <1>4, <1>5 DEF HarnessInv, Asserting, Get
<1>7. Alone'
  BY <1>4, <1>5 DEF HarnessInv, Alone, Get
<1>8. VerdictIsRight'
  BY DEF VerdictIsRight, Get
<1> QED
  BY <1>3, <1>6, <1>7, <1>8 DEF HarnessInv

LEMMA InvGot ==
  ASSUME HarnessInv, Got
  PROVE  HarnessInv'
<1>1. RequestsInv'
  BY RequestsInvStutter DEF HarnessInv, Got
<1>2. Asserting'
  BY DEF HarnessInv, Asserting, Got, requestVars
<1>3. Alone'
  BY DEF HarnessInv, Alone, Got, requestVars
<1>4. VerdictIsRight'
  BY DEF VerdictIsRight, Got
<1> QED
  BY <1>1, <1>2, <1>3, <1>4 DEF HarnessInv

\* The status of a request does not change under a report about it.
LEMMA InvReports ==
  ASSUME HarnessInv, NEW v, test \in {"eventually", "never"}, Reports(v),
         alone => (v = "pass" <=> total[target] = Limit /\ Status(target) = 200)
  PROVE  HarnessInv'
<1>1. RequestsInv'
  BY RequestsInvStutter DEF HarnessInv, Reports
<1>2. Asserting'
  BY DEF HarnessInv, Asserting, Reports, requestVars
<1>3. Alone'
  BY DEF Alone, Reports
<1>4. VerdictIsRight'
  BY DEF VerdictIsRight, Correct, Limit, Status, Reports, requestVars
<1> QED
  BY <1>1, <1>2, <1>3, <1>4 DEF HarnessInv

LEMMA InvEventually ==
  ASSUME HarnessInv, Eventually
  PROVE  HarnessInv'
<1>1. test = "eventually" /\ once
  BY DEF HarnessInv, Asserting, Eventually
<1>2. CASE ended # <<>> /\ test' = "never" /\ UNCHANGED <<requestVars, ended, once, target, alone, verdict>>
  <2>1. RequestsInv'
    BY <1>2, RequestsInvStutter DEF HarnessInv
  <2>2. Asserting'
    BY <1>1, <1>2 DEF HarnessInv, Asserting, requestVars
  <2>3. Alone' /\ VerdictIsRight'
    BY <1>1, <1>2 DEF HarnessInv, Alone, VerdictIsRight, requestVars
  <2> QED
    BY <2>1, <2>2, <2>3 DEF HarnessInv
<1>3. CASE ended = <<>> /\ Reports("fail")
  <2>1. alone => total[target] = 0 /\ Limit = 1
    BY <1>1, <1>3 DEF HarnessInv, Alone, Limit
  <2> QED
    BY <1>1, <1>3, <2>1, InvReports
<1> QED
  BY <1>2, <1>3 DEF Eventually

LEMMA InvNever ==
  ASSUME HarnessInv, Never
  PROVE  HarnessInv'
<1>1. test = "never" /\ Len(ended) \in Nat /\ (once => ended # <<>>) /\ ended \in Seq(Reqs)
      /\ once \in BOOLEAN
  BY DEF HarnessInv, Asserting, Never
<1>2. alone => Len(ended) = total[target]
  BY <1>1 DEF HarnessInv, Alone
<1>3. Limit \in Nat /\ (once => Limit = 1) /\ (~once => Limit = 0)
  BY <1>1 DEF Limit
<1>4. CASE Len(ended) > Limit /\ Reports("fail")
  <2>1. alone => total[target] # Limit
    BY <1>1, <1>2, <1>3, <1>4
  <2> QED
    BY <1>1, <1>4, <2>1, InvReports
<1>5. CASE Len(ended) <= Limit /\ Reports(IF Status(target) < 500 THEN "pass" ELSE "fail")
  <2>1. alone => total[target] = Limit
    BY <1>1, <1>2, <1>3, <1>5
  <2>2. Status(target) \in {200, 503}
    BY DEF Status
  <2>3. CASE Status(target) = 200
    <3>1. Reports("pass")
      BY <1>5, <2>3
    <3> QED
      BY <3>1, <1>1, <2>1, <2>3, InvReports
  <2>4. CASE Status(target) = 503
    <3>1. Reports("fail")
      BY <1>5, <2>4
    <3> QED
      BY <3>1, <1>1, <2>1, <2>4, InvReports
  <2> QED
    BY <2>2, <2>3, <2>4
<1> QED
  BY <1>1, <1>4, <1>5 DEF Never

LEMMA HarnessInvStep == HarnessInv /\ [HarnessNext]_allVars => HarnessInv'
<1> SUFFICES ASSUME HarnessInv, [HarnessNext]_allVars PROVE HarnessInv'
  OBVIOUS
<1>1. ASSUME test # "done", New \/ (\E c \in Checks : HealthChanges(c)), UNCHANGED <<ended, harness>>
      PROVE  HarnessInv'
  <2>1. RequestsInv'
    BY <1>1, InvNew, InvHealthChanges DEF HarnessInv
  <2>2. way' = way /\ total' = total /\ answered' = answered
    BY <1>1 DEF New, HealthChanges
  <2>3. Asserting'
    BY <1>1, <2>2 DEF HarnessInv, Asserting, harness
  <2>4. Alone' /\ VerdictIsRight'
    BY <1>1, <2>2 DEF HarnessInv, Alone, VerdictIsRight, harness
  <2> QED
    BY <2>1, <2>3, <2>4 DEF HarnessInv
<1>2. CASE test # "done" /\ Running
  BY <1>1, <1>2, InvServerStep, InvSendOther, InvBegin, InvGet, InvGot, InvEventually, InvNever
     DEF Running
<1>3. CASE UNCHANGED allVars
  <2>1. RequestsInv'
    BY <1>3, RequestsInvStutter DEF HarnessInv, allVars
  <2>2. Asserting'
    BY <1>3 DEF HarnessInv, Asserting, allVars, harness, requestVars
  <2>3. Alone' /\ VerdictIsRight'
    BY <1>3 DEF HarnessInv, Alone, VerdictIsRight, Correct, Limit, Status,
                allVars, harness, requestVars
  <2> QED
    BY <2>1, <2>2, <2>3 DEF HarnessInv
<1> QED
  BY <1>2, <1>3 DEF HarnessNext, TestOver

\* While the requests of a test pass through the server, what has been counted,
\* recorded and noted agrees with where they are.
THEOREM HarnessInvariant == HarnessSpec => []HarnessInv
BY HarnessInvInit, HarnessInvStep, PTL DEF HarnessSpec

\* A test's step leaves the server alone or is one of its own, or of a client's.
LEMMA StepsOfServer ==
  ASSUME HarnessInv, [HarnessNext]_allVars
  PROVE  [RequestsNext]_requestVars
<1>1. ASSUME NEW r \in Reqs, ServerStep(r) \/ SendOther(r) \/ Begin(r)
      PROVE  [RequestsNext]_requestVars
  BY <1>1 DEF ServerStep, SendOther, Begin, RequestsNext
<1>2. CASE Get
  <2>1. target \in Reqs
    BY <1>2 DEF HarnessInv, Asserting, Get
  <2> QED
    BY <1>2, <2>1 DEF Get, RequestsNext
<1>3. CASE Got \/ Eventually \/ Never
  BY <1>3 DEF Got, Eventually, Never, Reports
<1>4. CASE New \/ (\E c \in Checks : HealthChanges(c)) \/ UNCHANGED allVars
  BY <1>4 DEF RequestsNext, allVars
<1> QED
  BY <1>1, <1>2, <1>3, <1>4 DEF HarnessNext, Running, TestOver

\* The assertions of servetest and the goroutines beside them are clients like
\* any others: what is true of the server is true of it in a test.
THEOREM ImplementsRequests == HarnessSpec => RequestsSpec
<1>1. HarnessInit => RequestsInit
  BY DEF HarnessInit
<1>2. HarnessInv /\ [HarnessNext]_allVars => [RequestsNext]_requestVars
  BY StepsOfServer
<1> QED
  BY <1>1, <1>2, HarnessInvariant, PTL DEF HarnessSpec, RequestsSpec

\* In a test, too, the layers stay in place (New, rootHandler).
THEOREM LayersStayInPlace == HarnessSpec => []LayersInPlace
BY ImplementsRequests, ServersKeepLayers, PTL

\* And probes are honest (probe).
THEOREM ProbesAreHonest == HarnessSpec => []ProbeIsHonest
BY ImplementsRequests, ServersProbeHonestly, PTL

\* An assertion that is alone reports what its request did (AssertTracedOnce,
\* AssertOpsPathsNotTraced).
THEOREM VerdictsAreRight == HarnessSpec => []VerdictIsRight
<1>1. HarnessInv => VerdictIsRight
  BY DEF HarnessInv
<1> QED
  BY <1>1, HarnessInvariant, PTL
=============================================================================

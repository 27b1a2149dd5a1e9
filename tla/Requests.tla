------------------------------- MODULE Requests -------------------------------
(***************************************************************************)
(* Package serve: the handlers New builds, and the requests that pass      *)
(* through them: the application's, behind its middleware and inside the   *)
(* instrumentation, and those of the operational endpoints beside it.      *)
(*                                                                         *)
(* A handler is the sequence of its layers, outermost first.  A request    *)
(* enters them one by one and leaves them in reverse; its client may have  *)
(* the whole response as soon as the innermost one has written it.  An     *)
(* operational endpoint runs its checks one after another.                 *)
(***************************************************************************)
EXTENDS Naturals, Sequences, FiniteSets

CONSTANTS
  Reqs,       \* requests
  Middleware, \* what was given to WithMiddleware, in order
  Health,     \* the checks of WithHealthCheck, in order
  Readiness   \* those of WithReadinessCheck

Elements(s) == {s[i] : i \in DOMAIN s}
Checks == Elements(Health) \cup Elements(Readiness)

\* Every use of WithMiddleware is a layer of its own.
ASSUME RequestsAssumption ==
  /\ \A s \in {Middleware, Health, Readiness} : s \in Seq(Elements(s))
  /\ \A i, j \in DOMAIN Middleware : Middleware[i] = Middleware[j] => i = j
  /\ Checks \cap (Elements(Middleware) \cup {"otel", "handler"}) = {}
  /\ {"otel", "handler"} \cap Elements(Middleware) = {}

VARIABLES
  conf,     \* the options given to New
  built,    \* what New returned
  ask,      \* the path and the listener of each request
  way,      \* whether it goes in or comes out
  depth,    \* how many layers it is in
  bad,      \* the checks that failed for it
  total,    \* how many spans have ended for it
  answered, \* whether its client has the response
  healthy,  \* the checks that pass now
  steady    \* history: those that have not changed since each was sent

requestVars == <<conf, built, ask, way, depth, bad, total, answered, healthy, steady>>

Paths == {"app", "livez", "readyz", "metrics"}
NotSent == [path |-> "app", to |-> "app"]

RequestsTypeOK ==
  /\ conf \in [separate : BOOLEAN, wrapped : BOOLEAN]
  /\ built \in {"none", "ok", "opsaddr", "notls"}
  /\ ask \in [Reqs -> [path : Paths, to : {"app", "ops"}]]
  /\ way \in [Reqs -> {"unsent", "in", "out", "over"}]
  /\ depth \in [Reqs -> Nat] /\ total \in [Reqs -> Nat]
  /\ bad \in [Reqs -> SUBSET Checks] /\ healthy \subseteq Checks
  /\ answered \in [Reqs -> BOOLEAN] /\ steady \in [Reqs -> SUBSET Checks]

RequestsInit ==
  /\ conf \in [separate : BOOLEAN, wrapped : BOOLEAN] /\ built = "none"
  /\ ask = [r \in Reqs |-> NotSent]
  /\ way = [r \in Reqs |-> "unsent"]
  /\ depth = [r \in Reqs |-> 0] /\ total = [r \in Reqs |-> 0]
  /\ bad = [r \in Reqs |-> {}] /\ healthy \in SUBSET Checks
  /\ answered = [r \in Reqs |-> FALSE] /\ steady = [r \in Reqs |-> {}]

-----------------------------------------------------------------------------
(* New *)

\* A driver of the caller's cannot bind a second address, and may not speak TLS.
New ==
  /\ built = "none"
  /\ \E driver \in {"intree", "plain", "tls"}, tls \in BOOLEAN :
       built' = IF conf.separate /\ driver # "intree" THEN "opsaddr"
                ELSE IF tls /\ driver = "plain" THEN "notls" ELSE "ok"
  /\ UNCHANGED <<conf, ask, way, depth, bad, total, answered, healthy, steady>>

\* mutant: the loop runs forwards.
ApplyForwards(h, mw) ==
  LET wrap[i \in 0..Len(mw)] == IF i = 0 THEN h ELSE <<mw[i]>> \o wrap[i - 1]
  IN  wrap[Len(mw)]

\* applyMiddleware: wrapped from the last to the first, the first is outermost.
ApplyMiddleware(h, mw) ==
  LET wrap[i \in 1..Len(mw) + 1] ==
        IF i = Len(mw) + 1 THEN h ELSE <<mw[i]>> \o wrap[i + 1]
  IN  wrap[1]

\* A project may have instrumented its handler already.
Handler == IF conf.wrapped THEN <<"otel", "handler">> ELSE <<"handler">>

App == <<"otel">> \o ApplyMiddleware(Handler, Middleware)

\* mutant: readiness decides about restarts, too.
OpsOneList(path) == IF path \in {"livez", "readyz"} THEN Readiness ELSE <<>>

\* The mux of the operational endpoints: the layers of each are its checks.
Ops(path) ==
  CASE path = "livez" -> Health [] path = "readyz" -> Readiness [] OTHER -> <<>>

\* rootHandler, or the listener's own handler when there are two: which of the
\* muxes serves a request.
Root(r) ==
  IF conf.separate
    THEN IF ask[r].to = "ops" THEN Ops(ask[r].path) ELSE App
    ELSE IF ask[r].path # "app" THEN Ops(ask[r].path) ELSE App

-----------------------------------------------------------------------------
(* Requests *)

\* The checks that decide about a probe, as documented (history).
Relevant(path) ==
  CASE path = "livez" -> Elements(Health) [] path = "readyz" -> Elements(Readiness)
    [] OTHER -> {}

Turn(r, w) == way' = [way EXCEPT ![r] = w]

\* Only what is bound can be asked; a single listener serves both.
Send(r, path, to) ==
  /\ built = "ok" /\ way[r] = "unsent" /\ (to = "ops" => conf.separate)
  /\ ask' = [ask EXCEPT ![r] = [path |-> path, to |-> to]]
  /\ Turn(r, "in")
  /\ steady' = [steady EXCEPT ![r] = Relevant(path)]
  /\ UNCHANGED <<conf, built, depth, bad, total, answered, healthy>>

\* probe: a failing check is noted, and the next one is run.
Failed(r, c) == bad[r] \cup ({c} \ healthy)

Enter(r) ==
  /\ way[r] = "in" /\ depth[r] < Len(Root(r))
  /\ depth' = [depth EXCEPT ![r] = @ + 1]
  /\ LET layer == Root(r)[depth[r] + 1]
     IN  bad' = [bad EXCEPT ![r] = IF layer \in Checks THEN Failed(r, layer) ELSE @]
  /\ UNCHANGED <<conf, built, ask, way, total, answered, healthy, steady>>

\* The innermost layer answers, or a middleware does in its place.
TurnBack(r) ==
  /\ way[r] = "in"
  /\ \/ depth[r] = Len(Root(r))
     \/ depth[r] > 0 /\ Root(r)[depth[r]] \in Elements(Middleware)
  /\ Turn(r, "out")
  /\ steady' = [steady EXCEPT ![r] = {}]
  /\ UNCHANGED <<conf, built, ask, depth, bad, total, answered, healthy>>

Spans(r) == way[r] = "out" /\ depth[r] > 0 /\ Root(r)[depth[r]] = "otel"

\* The deferred end of the instrumentation's span is one of the steps out.
Leave(r) ==
  /\ way[r] = "out"
  /\ IF depth[r] = 0
       THEN Turn(r, "over") /\ UNCHANGED <<depth, total>>
       ELSE /\ depth' = [depth EXCEPT ![r] = @ - 1]
            /\ total' = [total EXCEPT ![r] = @ + (IF Spans(r) THEN 1 ELSE 0)]
            /\ UNCHANGED way
  /\ UNCHANGED <<conf, built, ask, bad, answered, healthy, steady>>

Answer(r) ==
  /\ way[r] \in {"out", "over"} /\ ~answered[r]
  /\ answered' = [answered EXCEPT ![r] = TRUE]
  /\ UNCHANGED <<conf, built, ask, way, depth, bad, total, healthy, steady>>

\* What a check looks at changes under a probe that runs it; before the first
\* probe it may be anything.
HealthChanges(c) ==
  /\ \E r \in Reqs : way[r] = "in" /\ c \in Elements(Root(r))
  /\ healthy' = IF c \in healthy THEN healthy \ {c} ELSE healthy \cup {c}
  /\ steady' = [r \in Reqs |-> IF way[r] = "in" THEN steady[r] \ {c} ELSE steady[r]]
  /\ UNCHANGED <<conf, built, ask, way, depth, bad, total, answered>>

-----------------------------------------------------------------------------
\* The server under any clients: they ask for what they like, when they like.
RequestsNext ==
  \/ New
  \/ \E c \in Checks : HealthChanges(c)
  \/ \E r \in Reqs :
       \/ \E path \in Paths, to \in {"app", "ops"} : Send(r, path, to)
       \/ Enter(r) \/ TurnBack(r) \/ Leave(r) \/ Answer(r)

RequestsSpec == RequestsInit /\ [][RequestsNext]_requestVars

-----------------------------------------------------------------------------
(* Properties *)

ServedByOps(r) == IF conf.separate THEN ask[r].to = "ops" ELSE ask[r].path # "app"

Within(r, l) == \E i \in 1..depth[r] : Root(r)[i] = l

\* A request to an operational endpoint leaves no span and meets none of the
\* middleware; any other leaves one span, whatever answers it, and a second one
\* only if the project instruments its handler as well (rootHandler, "the
\* traced handler is only ever reached when the ops mux has nothing").  The
\* middleware sees it in the order it was given, inside the span
\* (WithMiddleware; New, "wraps h in the caller's middleware and then in
\* OpenTelemetry instrumentation").
LayersInPlace ==
  \A r \in Reqs :
    IF ServedByOps(r)
      THEN (way[r] = "over" => total[r] = 0) /\ Elements(Root(r)) \subseteq Checks
      ELSE /\ way[r] = "over" => total[r] \in (IF conf.wrapped THEN {1, 2} ELSE {1})
           /\ \A i \in DOMAIN Middleware :
                Within(r, Middleware[i]) =>
                  /\ \A j \in 1..i : Within(r, Middleware[j])
                  /\ Root(r)[1] = "otel"

\* The status of a probe: what it is after its last check.
Status(r) == IF bad[r] = {} THEN 200 ELSE 503

\* A probe fails if one of its own checks fails from its beginning to its end,
\* wherever in the list, and succeeds if all of them pass all that time, however
\* the others change (probe; WithReadinessCheck, which "leaves it running").
ProbeIsHonest ==
  \A r \in Reqs :
    ServedByOps(r) /\ way[r] = "in" /\ depth[r] = Len(Root(r)) =>
      /\ (Relevant(ask[r].path) \cap steady[r]) \ healthy # {} => Status(r) = 503
      /\ Relevant(ask[r].path) \subseteq steady[r] \cap healthy => Status(r) = 200
=============================================================================

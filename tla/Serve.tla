-------------------------------- MODULE Serve --------------------------------
(***************************************************************************)
(* Package serve: one Server.Run over its listeners, listener 1 being the  *)
(* application's and a further one that of the operational endpoints.      *)
(*                                                                         *)
(* Run starts one goroutine per listener and waits for the first outcome   *)
(* on a buffered channel or for the end of its context.  The latter drains *)
(* the listeners one after another under one deadline.  A listener is a    *)
(* net/http server: it binds, registers itself, accepts, and on Shutdown   *)
(* closes its socket and waits for the requests in flight.                 *)
(***************************************************************************)
EXTENDS Naturals, Sequences

CONSTANTS
  N,         \* number of listeners
  Requests,  \* requests clients may send, each once
  To         \* the listener each request is sent to

ASSUME ServeAssumption ==
  /\ N \in Nat \ {0}
  /\ To \in [Requests -> 1..N]

Listeners == 1..N

VARIABLES
  cancelled, \* whether Run's context has ended
  run,       \* where Run is
  at,        \* the listener drain has come to
  clock,     \* the grace period, from the start of drain
  failed,    \* the listeners whose Shutdown returned an error to drain
  errc,      \* the channel of listener outcomes
  gor,       \* each listener's goroutine
  closing,   \* whether Shutdown was called on each listener
  req,       \* what became of each request
  result,    \* what Run returned
  cut        \* history: the requests in flight when Run returned

vars == <<cancelled, run, at, clock, failed, errc, gor, closing, req, result, cut>>
draining == <<at, clock, failed>>
answer == <<result, cut>>

Outcomes == {"closed", "failed"}

TypeOK ==
  /\ cancelled \in BOOLEAN
  /\ run \in {"new", "select", "shutdown", "wait", "done"}
  /\ at \in Listeners
  /\ clock \in {"idle", "running", "over"}
  /\ failed \subseteq Listeners
  /\ errc \in Seq(Outcomes)
  /\ gor \in [Listeners -> Outcomes \cup {"none", "start", "bound", "serving", "exited"}]
  /\ closing \in [Listeners -> BOOLEAN]
  /\ req \in [Requests -> {"unsent", "active", "served"}]
  /\ result \in {"none", "nil", "error"}
  /\ cut \subseteq Requests

Init ==
  /\ cancelled = FALSE
  /\ run = "new" /\ at = 1 /\ clock = "idle" /\ failed = {}
  /\ errc = <<>>
  /\ gor = [l \in Listeners |-> "none"]
  /\ closing = [l \in Listeners |-> FALSE]
  /\ req = [r \in Requests |-> "unsent"]
  /\ result = "none" /\ cut = {}

-----------------------------------------------------------------------------
InFlight(l) == {r \in Requests : To[r] = l /\ req[r] = "active"}

Accepts(l) == gor[l] = "serving" /\ ~closing[l]

Return(res) ==
  /\ run' = "done"
  /\ result' = res
  /\ cut' = {r \in Requests : req[r] = "active"}

BufferOne == 1  \* mutant

\* Room for every listener's outcome, read or not.
Buffer == N

-----------------------------------------------------------------------------
(* Run and drain *)

Run ==
  /\ run = "new"
  /\ run' = "select"
  /\ gor' = [l \in Listeners |-> "start"]
  /\ UNCHANGED <<cancelled, draining, errc, closing, req, answer>>

\* A listener ended first: Run returns as it is, the others go on.
TakeOutcome ==
  /\ run = "select" /\ errc # <<>>
  /\ errc' = Tail(errc)
  /\ Return(IF Head(errc) = "closed" THEN "nil" ELSE "error")
  /\ UNCHANGED <<cancelled, draining, gor, closing, req>>

CtxDone ==
  /\ run = "select" /\ cancelled
  /\ run' = "shutdown" /\ clock' = "running"
  /\ UNCHANGED <<cancelled, at, failed, errc, gor, closing, req, answer>>

GraceOverChild == cancelled  \* mutant: a child of the ended context
GraceOverNever == FALSE      \* mutant: no timeout

\* drain's context: detached from Run's, bounded by the grace period.
GraceOver == clock = "over"

\* net/http Shutdown, first part: flag the server and close its socket.
Shutdown ==
  /\ run = "shutdown"
  /\ closing' = [closing EXCEPT ![at] = TRUE]
  /\ run' = "wait"
  /\ UNCHANGED <<cancelled, draining, errc, gor, req, answer>>

\* mutant: drain returns at the first error.
ProceedFirstError(errs) ==
  /\ failed' = errs
  /\ IF at < N /\ errs = {}
       THEN at' = at + 1 /\ run' = "shutdown" /\ UNCHANGED answer
       ELSE Return(IF errs = {} THEN "nil" ELSE "error") /\ UNCHANGED at

\* mutant: drain forgets the errors.
ProceedForgetful(errs) ==
  /\ failed' = errs
  /\ IF at < N
       THEN at' = at + 1 /\ run' = "shutdown" /\ UNCHANGED answer
       ELSE Return("nil") /\ UNCHANGED at

\* The loop of drain goes on to the next listener, or joins the errors.
Proceed(errs) ==
  /\ failed' = errs
  /\ IF at < N
       THEN at' = at + 1 /\ run' = "shutdown" /\ UNCHANGED answer
       ELSE Return(IF errs = {} THEN "nil" ELSE "error") /\ UNCHANGED at

\* net/http Shutdown, second part: once the accept loop is gone, idleness is
\* looked at before the context.
ShutdownWait ==
  /\ run = "wait" /\ gor[at] # "serving"
  /\ \/ InFlight(at) = {} /\ Proceed(failed)
     \/ InFlight(at) # {} /\ GraceOver /\ Proceed(failed \cup {at})
  /\ UNCHANGED <<cancelled, clock, errc, gor, closing, req>>

-----------------------------------------------------------------------------
(* The listeners' goroutines *)

Become(l, state) ==
  /\ gor' = [gor EXCEPT ![l] = state]
  /\ UNCHANGED <<cancelled, run, draining, closing, req, answer>>

Bind(l) ==
  /\ gor[l] = "start"
  /\ \/ closing[l] /\ Become(l, "closed")
     \/ ~closing[l] /\ \E s \in {"bound", "failed"} : Become(l, s)
  /\ UNCHANGED errc

\* Serve registers the socket, unless Shutdown was faster.
Serve(l) ==
  /\ gor[l] = "bound"
  /\ Become(l, IF closing[l] THEN "closed" ELSE "serving")
  /\ UNCHANGED errc

AcceptFails(l) ==
  /\ Accepts(l)
  /\ Become(l, "failed")
  /\ UNCHANGED errc

AcceptLoopEnds(l) ==
  /\ gor[l] = "serving" /\ closing[l]
  /\ Become(l, "closed")
  /\ UNCHANGED errc

Report(l) ==
  /\ gor[l] \in Outcomes /\ Len(errc) < Buffer
  /\ errc' = Append(errc, gor[l])
  /\ Become(l, "exited")

-----------------------------------------------------------------------------
(* The process around Run *)

Cancel ==
  /\ ~cancelled /\ cancelled' = TRUE
  /\ UNCHANGED <<run, draining, errc, gor, closing, req, answer>>

GraceEnds ==
  /\ clock = "running" /\ clock' = "over"
  /\ UNCHANGED <<cancelled, run, at, failed, errc, gor, closing, req, answer>>

\* The application shuts its listener down itself: it reaches the in-tree one
\* with As and holds the one it gave to WithDriver.
StoppedByApplication ==
  /\ ~closing[1]
  /\ closing' = [closing EXCEPT ![1] = TRUE]
  /\ UNCHANGED <<cancelled, run, draining, errc, gor, req, answer>>

Arrive(r) ==
  /\ req[r] = "unsent" /\ Accepts(To[r])
  /\ req' = [req EXCEPT ![r] = "active"]
  /\ UNCHANGED <<cancelled, run, draining, errc, gor, closing, answer>>

Finish(r) ==
  /\ req[r] = "active"
  /\ req' = [req EXCEPT ![r] = "served"]
  /\ UNCHANGED <<cancelled, run, draining, errc, gor, closing, answer>>

-----------------------------------------------------------------------------
RunStep == Run \/ TakeOutcome \/ CtxDone \/ Shutdown \/ ShutdownWait
ListenerStep(l) == Bind(l) \/ Serve(l) \/ AcceptLoopEnds(l) \/ Report(l)

Terminated ==
  /\ run = "done" /\ \A l \in Listeners : gor[l] \in {"serving", "exited"}
  /\ UNCHANGED vars

Next ==
  \/ RunStep
  \/ \E l \in Listeners : ListenerStep(l) \/ AcceptFails(l)
  \/ Cancel \/ GraceEnds \/ StoppedByApplication
  \/ \E r \in Requests : Arrive(r) \/ Finish(r)
  \/ Terminated

Spec == Init /\ [][Next]_vars

\* Goroutines are scheduled and the grace period ends.  A handler need not
\* return, a client need not call, and nobody needs to cancel.
Fairness ==
  /\ WF_vars(RunStep) /\ WF_vars(GraceEnds)
  /\ \A l \in Listeners : WF_vars(ListenerStep(l))
FairSpec == Spec /\ Fairness

-----------------------------------------------------------------------------
(* Properties *)

Drained == run = "done" /\ clock # "idle"

\* After a drain nothing is accepted any more on any listener: not on the one
\* behind a listener whose drain failed, and not on one whose goroutine had
\* not even bound its socket when it was shut down (drain, "shuts every
\* listener down").
DrainStopsEveryListener ==
  Drained => \A l \in Listeners : closing[l] /\ gor[l] # "serving"

\* Run returns nil from a drain only if no request was in flight on any
\* listener at that moment, the ones drained first included.
NilMeansAllServed == Drained /\ result = "nil" => cut = {}

\* A drain abandons a request only when the whole grace period has passed
\* since it began: "in-flight requests get that long to finish" (Run).
GraceIsGranted == Drained /\ cut # {} => clock = "over"

\* A cancelled Run returns, although handlers may never do: the drain of all
\* listeners together is bounded (Run, "rather than waiting on a connection
\* that will never close").
CancelledRunReturns == cancelled ~> run = "done"

\* No listener's goroutine stays behind after a drain, although nobody reads
\* their outcomes any more (Run, "every goroutine can report and exit").
GoroutinesExit == Drained ~> \A l \in Listeners : gor[l] = "exited"

\* What Run's comment says: "serves until ctx is cancelled or a listener
\* fails, then drains" (line 262).  The failing path returns at once.
FailureDrains == run = "done" /\ result = "error" => cut = {} \/ clock = "over"
=============================================================================

---------------------------------- MODULE Mcp ----------------------------------
(***************************************************************************)
(* Package mcp: calls of tools, resources and prompts, from the Client of  *)
(* one process through the SDK's session to the wrapped handlers of the    *)
(* Server of another, with their timeouts, cancellations and panics.       *)
(*                                                                         *)
(* The SDK is external: it carries requests, answers and cancellations,    *)
(* runs the handlers of a session concurrently, and answers by itself what *)
(* no handler is registered for or what does not fit a tool's schema.  A   *)
(* foreign client has no timeout.  What a result contains is left out,     *)
(* except for the argument of a prompt.                                    *)
(***************************************************************************)
EXTENDS FiniteSets

CONSTANTS
  Calls,   \* calls, each with a request id of its own
  Fields,  \* types of a prompt's argument in Go, of "string" and "int"
  Wires    \* what a client sends for it, see Decode

ASSUME McpAssumption ==
  Fields \subseteq {"string", "int"} /\ Wires \subseteq {"word", "number", "null", "quoted"}

VARIABLES
  call,    \* what each call asks for
  up,      \* whether the server's process is alive
  outside, \* whether something panicked in front of the wrappers, or behind
  session, \* the session of the goga client
  at,      \* where each caller is
  got,     \* what its call returned
  meta,    \* the trace context in the request's _meta
  cancel,  \* whether a cancellation of the request was sent
  srv,     \* where the request is on the server
  ctxDone, \* whether its context there has ended
  body,    \* how its handler ended, or why it never ran
  span,    \* its span on the server
  parent,  \* what the span continues
  reply    \* the answer sent back

mcpVars == <<call, up, outside, session, at, got, meta, cancel, srv, ctxDone,
             body, span, parent, reply>>
client == <<session, at, got, meta, cancel>>
server == <<up, outside, srv, ctxDone, body, span, parent, reply>>

\* What is asked for, and by whom.
Requests ==
  [kind : {"tool", "resource"}, goga : BOOLEAN]
    \cup [kind : {"prompt"}, goga : BOOLEAN, field : Fields, wire : Wires]

Endings == {"nil", "error", "panic", "goexit"}

TypeOK ==
  /\ call \in [Calls -> Requests] /\ up \in BOOLEAN /\ outside \in BOOLEAN
  /\ session \in {"none", "open", "failed", "closed"}
  /\ at \in [Calls -> {"ready", "waiting", "returned"}]
  /\ got \in [Calls -> {"none", "result", "inband", "error", "timeout", "closed"}]
  /\ meta \in [Calls -> {"none", "client", "foreign"}]
  /\ cancel \in [Calls -> BOOLEAN] /\ ctxDone \in [Calls -> BOOLEAN]
  /\ srv \in [Calls -> {"none", "sent", "running", "leaving", "packing", "over"}]
  /\ body \in [Calls -> Endings \cup {"none", "refused", "rejected", "arguments"}]
  /\ span \in [Calls -> {"none", "open", "ok", "error"}]
  /\ parent \in [Calls -> {"none", "root", "client", "foreign"}]
  /\ reply \in [Calls -> {"none", "result", "inband", "error"}]

McpInit ==
  /\ call \in [Calls -> Requests]
  /\ up = TRUE /\ outside = FALSE /\ session = "none"
  /\ at = [c \in Calls |-> "ready"] /\ got = [c \in Calls |-> "none"]
  /\ meta = [c \in Calls |-> "none"] /\ cancel = [c \in Calls |-> FALSE]
  /\ srv = [c \in Calls |-> "none"] /\ ctxDone = [c \in Calls |-> FALSE]
  /\ body = [c \in Calls |-> "none"] /\ span = [c \in Calls |-> "none"]
  /\ parent = [c \in Calls |-> "none"] /\ reply = [c \in Calls |-> "none"]

Kind(c) == call[c].kind
Goga(c) == call[c].goga

-----------------------------------------------------------------------------
(* The client *)

\* The handshake, which the authenticator may refuse or panic at, and which has
\* no timeout of its own: the session is there or it is not.
Connect ==
  /\ session = "none"
  /\ \/ session' = "open" /\ up
     \/ session' = "failed"
  /\ UNCHANGED <<call, at, got, meta, cancel, server>>

\* The caller's span is opened before its context is put into _meta, and only
\* a recording one has a context to put; a foreign client puts what it likes.
Inject(c) ==
  \E m \in (IF Goga(c) THEN {"none", "client"} ELSE {"none", "foreign"}) :
    meta' = [meta EXCEPT ![c] = m]

Send(c) ==
  /\ at[c] = "ready" /\ (Goga(c) => session = "open")
  /\ Inject(c)
  /\ at' = [at EXCEPT ![c] = "waiting"]
  /\ srv' = [srv EXCEPT ![c] = "sent"]
  /\ UNCHANGED <<call, up, outside, session, got, cancel, ctxDone, body, span, parent, reply>>

CallTool(c) == Kind(c) = "tool" /\ Send(c)
ReadResource(c) == Kind(c) = "resource" /\ Send(c)
GetPrompt(c) == Kind(c) = "prompt" /\ Send(c)

Returns(c, res) ==
  /\ at' = [at EXCEPT ![c] = "returned"]
  /\ got' = [got EXCEPT ![c] = res]

Receive(c) ==
  /\ at[c] = "waiting" /\ reply[c] # "none"
  /\ Returns(c, reply[c])
  /\ UNCHANGED <<call, session, meta, cancel, server>>

\* mutant: the client waits for an answer however long it takes.
TimeoutOff(c) == FALSE /\ UNCHANGED mcpVars

\* The context of a goga client's call ends, by its timeout or its caller; the
\* SDK tells the server, and an answer that arrives later finds nobody.
Timeout(c) ==
  /\ at[c] = "waiting" /\ Goga(c)
  /\ Returns(c, "timeout")
  /\ cancel' = [cancel EXCEPT ![c] = TRUE]
  /\ UNCHANGED <<call, session, meta, server>>

Close ==
  /\ session = "open"
  /\ session' = "closed"
  /\ UNCHANGED <<call, at, got, meta, cancel, server>>

\* A session that is closed, or whose server is gone, ends its calls and
\* takes no other.
SessionLost(c) ==
  /\ \/ at[c] = "waiting" /\ ~up
     \/ at[c] # "returned" /\ Goga(c) /\ session = "closed"
  /\ Returns(c, "closed")
  /\ UNCHANGED <<call, session, meta, cancel, server>>

-----------------------------------------------------------------------------
(* The server, in front of the handlers *)

\* The request is over, and its context with it.
Answer(c, how, ans) ==
  /\ ctxDone' = [ctxDone EXCEPT ![c] = TRUE]
  /\ srv' = [srv EXCEPT ![c] = "over"]
  /\ body' = [body EXCEPT ![c] = how]
  /\ reply' = [reply EXCEPT ![c] = ans]

\* The authenticator, if there is one, refuses.
Refuse(c) ==
  /\ up /\ srv[c] = "sent"
  /\ Answer(c, "refused", "error")
  /\ UNCHANGED <<call, up, outside, client, span, parent>>

\* The authenticator panics at a request of any method, those of the handshake
\* and the lists among them, or a JSON method of a tool's In or Out does, which
\* the SDK calls in front of the wrapper and behind it.  Nothing recovers that.
PanicOutside ==
  /\ up
  /\ up' = FALSE /\ outside' = TRUE
  /\ UNCHANGED <<call, client, srv, ctxDone, body, span, parent, reply>>

\* The SDK knows no such name, finds arguments that do not fit the tool's
\* schema, or finds the request cancelled.
Reject(c) ==
  /\ up /\ srv[c] = "sent"
  /\ \E ans \in {"error", "inband"} :
       (ans = "inband" => Kind(c) = "tool") /\ Answer(c, "rejected", ans)
  /\ UNCHANGED <<call, up, outside, client, span, parent>>

\* mutant: the span is started before the caller's context is restored.
ExtractLate(c) == "root"

\* A _meta without a traceparent that is a string leaves a root span.
Extract(c) == IF meta[c] = "none" THEN "root" ELSE meta[c]

\* The wrapper restores the trace, opens the span and, for a tool, sets the
\* deadline before it runs the function.
Start(c) ==
  /\ up /\ srv[c] = "sent"
  /\ srv' = [srv EXCEPT ![c] = "running"]
  /\ span' = [span EXCEPT ![c] = "open"]
  /\ parent' = [parent EXCEPT ![c] = Extract(c)]
  /\ UNCHANGED <<call, up, outside, client, ctxDone, body, reply>>

CancelArrives(c) ==
  /\ up /\ cancel[c] /\ srv[c] \notin {"none", "over"} /\ ~ctxDone[c]
  /\ ctxDone' = [ctxDone EXCEPT ![c] = TRUE]
  /\ UNCHANGED <<call, client, up, outside, srv, body, span, parent, reply>>

\* Tools have a timeout; resources and prompts have none.
HasDeadline(c) == Kind(c) = "tool"

Deadline(c) ==
  /\ up /\ HasDeadline(c) /\ srv[c] \in {"running", "leaving"} /\ ~ctxDone[c]
  /\ ctxDone' = [ctxDone EXCEPT ![c] = TRUE]
  /\ UNCHANGED <<call, client, up, outside, srv, body, span, parent, reply>>

-----------------------------------------------------------------------------
(* The handlers: how the function ends, what its span says and what is sent *)

\* The function, or what the wrapper does before it, ends; the wrapper's
\* deferred functions run next.
Ends(c, how) ==
  /\ up /\ srv[c] = "running"
  /\ srv' = [srv EXCEPT ![c] = "leaving"]
  /\ body' = [body EXCEPT ![c] = how]
  /\ UNCHANGED <<call, up, outside, client, ctxDone, span, parent, reply>>

ToolEnds(c, how) == Kind(c) = "tool" /\ Ends(c, how)

ResourceEnds(c, how) == Kind(c) = "resource" /\ Ends(c, how)

\* rawJSONValue: what the string sent is decoded from, as JSON or as itself.
Raw(wire) == wire \in {"number", "null"}

\* What the function is given.  JSON's null leaves the field as it was, and a
\* string that was not sent as JSON does not fit an int.
Decode(field, wire) ==
  IF Raw(wire)
    THEN IF wire = "null" THEN "zero" ELSE IF field = "int" THEN wire ELSE "error"
    ELSE IF field = "string" THEN wire ELSE "error"

Given(c) == Decode(call[c].field, call[c].wire)

PromptEnds(c, how) ==
  /\ Kind(c) = "prompt"
  /\ IF Given(c) = "error" THEN how = "arguments" ELSE how \in Endings
  /\ Ends(c, how)

\* The deferred closer ends the span with the error; runtime.Goexit runs it
\* with none.
Outcome(how) == IF how \in {"nil", "goexit"} THEN "ok" ELSE "error"

\* mutant: a failing tool is a protocol error, as a failing resource is.
ProtocolError(c) == "error"

\* The SDK packs the error of a tool into its result.
Failure(c) == IF Kind(c) = "tool" THEN "inband" ELSE "error"

\* mutant: a panic is raised again once the span has ended.
LeaveRaises(c) ==
  /\ up /\ srv[c] = "leaving"
  /\ span' = [span EXCEPT ![c] = Outcome(body[c])]
  /\ up' = (body[c] # "panic")
  /\ IF body[c] = "nil"
       THEN srv' = [srv EXCEPT ![c] = "packing"] /\ UNCHANGED <<ctxDone, body, reply>>
       ELSE Answer(c, body[c], IF body[c] \in {"goexit", "panic"} THEN "none" ELSE Failure(c))
  /\ UNCHANGED <<call, outside, client, parent>>

\* The deferred functions recover a panic, make an error of it, and end the
\* span.  A goroutine that has exited answers nothing.
Leave(c) ==
  /\ up /\ srv[c] = "leaving"
  /\ span' = [span EXCEPT ![c] = Outcome(body[c])]
  /\ IF body[c] = "nil"
       THEN srv' = [srv EXCEPT ![c] = "packing"] /\ UNCHANGED <<ctxDone, body, reply>>
       ELSE Answer(c, body[c], IF body[c] = "goexit" THEN "none" ELSE Failure(c))
  /\ UNCHANGED <<call, up, outside, client, parent>>

\* What was returned is sent.  The Out of a tool is marshalled and validated
\* against its schema first, and if that fails the caller is sent an error.
Pack(c) ==
  /\ up /\ srv[c] = "packing"
  /\ \E ans \in {"result", "error"} :
       (ans = "error" => Kind(c) = "tool") /\ Answer(c, "nil", ans)
  /\ UNCHANGED <<call, up, outside, client, span, parent>>

-----------------------------------------------------------------------------
Function(c) ==
  \/ \E how \in Endings : ToolEnds(c, how) \/ ResourceEnds(c, how)
  \/ \E how \in Endings \cup {"arguments"} : PromptEnds(c, how)

Wrapper(c) == Leave(c) \/ Pack(c)
Gateway(c) == Refuse(c) \/ Reject(c) \/ Start(c)
Request(c) == CallTool(c) \/ ReadResource(c) \/ GetPrompt(c)

CallsAreOver ==
  /\ session \in {"failed", "closed"}
  /\ \A c \in Calls :
       /\ at[c] = "waiting" => ~Goga(c) /\ up /\ reply[c] = "none"
       /\ srv[c] \in {"none", "over"} \/ ~up
  /\ UNCHANGED mcpVars

McpNext ==
  \/ Connect \/ Close \/ PanicOutside
  \/ \E c \in Calls :
       \/ Request(c) \/ Receive(c) \/ Timeout(c) \/ SessionLost(c)
       \/ Gateway(c) \/ CancelArrives(c) \/ Deadline(c)
       \/ Function(c) \/ Wrapper(c)
  \/ CallsAreOver

McpSpec == McpInit /\ [][McpNext]_mcpVars

\* The timers of the goga client and of the server's tools run, messages
\* arrive, and the server takes up what it was sent and sends what it has.  A
\* function need not end, and a foreign client waits for its answer.
Fairness ==
  \A c \in Calls :
    /\ WF_mcpVars(Receive(c)) /\ WF_mcpVars(SessionLost(c))
    /\ WF_mcpVars(Timeout(c))
    /\ WF_mcpVars(Gateway(c)) /\ WF_mcpVars(Wrapper(c))
    /\ WF_mcpVars(CancelArrives(c)) /\ WF_mcpVars(Deadline(c))
FairSpec == McpSpec /\ Fairness

-----------------------------------------------------------------------------
(* Properties *)

\* Whatever the timeouts, cancellations and panics in between, a call's answer
\* is true: a result only of a function that returned one, the failure of a
\* tool's function in-band and that of a resource or a prompt as an error, an
\* error of a tool only if its function was not run or what it returned does
\* not fit its schema, and a request that was refused never reached a function
\* (AddTool, "A tool failure is in-band"; Authenticator, "did not fail, it did
\* not happen").
AnswerIsTrue ==
  \A c \in Calls :
    /\ got[c] = "result" => body[c] = "nil"
    /\ got[c] = "inband" => Kind(c) = "tool" /\ body[c] \in {"error", "panic", "rejected"}
    /\ got[c] = "error" =>
         \/ body[c] \in {"refused", "rejected"}
         \/ Kind(c) = "tool" /\ body[c] = "nil"
         \/ Kind(c) # "tool" /\ body[c] \in {"error", "panic", "arguments"}
    /\ body[c] \in {"refused", "rejected"} => span[c] = "none"

\* A span is open as long as its function and the wrapper run and no longer,
\* however that ends; if it says error the caller is sent no result, if it says
\* ok no failure of the function, only that of the SDK over what a tool
\* returned; and it hangs below the client's span of the same call (AddTool;
\* Client, "continues the caller's trace rather than starting a new one").
SpansTellTheTruth ==
  \A c \in Calls :
    /\ span[c] = "open" <=> srv[c] \in {"running", "leaving"}
    /\ span[c] = "error" => reply[c] # "result"
    /\ span[c] = "ok" /\ reply[c] \notin {"none", "result"} =>
         Kind(c) = "tool" /\ body[c] = "nil" /\ reply[c] = "error"
    /\ span[c] # "none" /\ meta[c] = "client" => parent[c] = "client"

\* A panic of a function becomes the answer to its caller and no more: unless
\* something panics outside the wrappers, every function that does is answered,
\* with the server alive to do it ("one tool's nil dereference takes down a
\* server that was serving every other tool", AddTool).
PanicsAreContained ==
  \A c \in Calls :
    srv[c] = "leaving" /\ body[c] = "panic" ~> reply[c] # "none" \/ outside

\* A call of the goga client returns, whatever the server does with it
\* (WithClientCallTimeout).
EveryCallReturns ==
  \A c \in Calls : Goga(c) /\ at[c] = "waiting" ~> at[c] = "returned"

\* The function does not go on for good with a context that has ended.
Heeds(c) == []<>~(srv[c] = "running" /\ ctxDone[c] /\ up)

\* What the package says of itself: "every tool call, resource read and prompt
\* render a project serves is traced, timed, bounded and contained"
\* (mcp.go:1-3).  Only a tool is given a deadline.
EveryOperationIsBounded ==
  \A c \in Calls :
    Heeds(c) => (srv[c] = "running" ~> srv[c] = "over" \/ ~up)

\* What PromptFunc says: "MCP carries prompt arguments as strings on the wire,
\* so its fields should be string-typed" (prompt.go:22).  A string that reads
\* as JSON does not reach a string field.
StringArgumentsArrive ==
  \A c \in Calls :
    Kind(c) = "prompt" /\ srv[c] = "over" /\ span[c] # "none" =>
      (call[c].field = "string" => Given(c) = call[c].wire)
=============================================================================

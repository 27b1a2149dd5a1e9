------------------------------- MODULE McpProofs -------------------------------
(***************************************************************************)
(* What is true of every number of calls: their answers and their spans.   *)
(* What a registry hands out, for every number of Provides and Opens that  *)
(* race; and that a server's Run is such an Open, so that it serves on the *)
(* transport it asked for.                                                 *)
(***************************************************************************)
EXTENDS Mcp, Transport, TLAPS

\* What the server has done so far shows in where the request is.
Stages ==
  \A c \in Calls :
    /\ at[c] = "ready" => srv[c] = "none"
    /\ srv[c] \in {"none", "sent"} => span[c] = "none"
    /\ srv[c] \in {"none", "sent", "running"} => body[c] = "none"
    /\ srv[c] = "leaving" => body[c] \in Endings \cup {"arguments"}
    /\ srv[c] = "packing" => body[c] = "nil" /\ span[c] = "ok"
    /\ body[c] = "arguments" => Kind(c) = "prompt"
    /\ srv[c] # "over" => reply[c] = "none"
    /\ got[c] \in {"result", "inband", "error"} => got[c] = reply[c]

\* AnswerIsTrue of the answer that is on its way.
ReplyIsTrue ==
  \A c \in Calls :
    /\ reply[c] = "result" => body[c] = "nil"
    /\ reply[c] = "inband" => Kind(c) = "tool" /\ body[c] \in {"error", "panic", "rejected"}
    /\ reply[c] = "error" =>
         \/ body[c] \in {"refused", "rejected"}
         \/ Kind(c) = "tool" /\ body[c] = "nil"
         \/ Kind(c) # "tool" /\ body[c] \in {"error", "panic", "arguments"}
    /\ body[c] \in {"refused", "rejected"} => span[c] = "none"

IInv == TypeOK /\ Stages /\ ReplyIsTrue /\ SpansTellTheTruth

-----------------------------------------------------------------------------
\* The invariant holds before the client connects.
LEMMA InitInvariant == McpInit => IInv
<1> SUFFICES ASSUME McpInit PROVE IInv
  OBVIOUS
<1>1. TypeOK
  BY DEF McpInit, TypeOK
<1>2. Stages /\ ReplyIsTrue /\ SpansTellTheTruth
  BY DEF McpInit, Stages, ReplyIsTrue, SpansTellTheTruth
<1> QED
  BY <1>1, <1>2 DEF IInv

\* The session comes and goes, and the server goes, without a trace in the calls.
LEMMA SessionStep ==
  ASSUME IInv, Connect \/ Close \/ PanicOutside
  PROVE  IInv'
<1>1. /\ session' \in {"none", "open", "failed", "closed"}
      /\ up' \in BOOLEAN /\ outside' \in BOOLEAN
  BY DEF Connect, Close, PanicOutside, client, server, IInv, TypeOK
<1>2. UNCHANGED <<call, at, got, meta, cancel, srv, ctxDone, body, span, parent, reply>>
  BY DEF Connect, Close, PanicOutside, client, server
<1> QED
  BY <1>1, <1>2 DEF IInv, TypeOK, Stages, ReplyIsTrue, SpansTellTheTruth, Kind

\* The steps of the client touch no span and no answer.
LEMMA ClientStep ==
  ASSUME IInv, NEW c \in Calls,
         Request(c) \/ Receive(c) \/ Timeout(c) \/ SessionLost(c)
  PROVE  IInv'
<1> USE DEF IInv
<1>1. CASE Request(c)
  <2>1. Send(c)
    BY <1>1 DEF Request, CallTool, ReadResource, GetPrompt
  <2>2. PICK m \in {"none", "client", "foreign"} : meta' = [meta EXCEPT ![c] = m]
    BY <2>1 DEF Send, Inject
  <2>3. TypeOK'
    BY <2>1, <2>2 DEF Send, TypeOK
  <2>4. Stages'
    BY <2>1 DEF Send, TypeOK, Stages, Kind
  <2>5. ReplyIsTrue'
    BY <2>1 DEF Send, ReplyIsTrue, Kind
  <2>6. SpansTellTheTruth'
    BY <2>1, <2>2 DEF Send, TypeOK, Stages, SpansTellTheTruth, Kind
  <2> QED
    BY <2>3, <2>4, <2>5, <2>6
<1>2. CASE Receive(c)
  BY <1>2 DEF Receive, Returns, server, TypeOK, Stages, ReplyIsTrue, SpansTellTheTruth, Kind
<1>3. CASE Timeout(c)
  BY <1>3 DEF Timeout, Returns, server, TypeOK, Stages, ReplyIsTrue, SpansTellTheTruth, Kind
<1>4. CASE SessionLost(c)
  BY <1>4 DEF SessionLost, Returns, server, TypeOK, Stages, ReplyIsTrue, SpansTellTheTruth,
     Kind
<1> QED
  BY <1>1, <1>2, <1>3, <1>4

\* What the server does with a request before its function runs, and what ends
\* the function's context.
LEMMA GatewayStep ==
  ASSUME IInv, NEW c \in Calls, Gateway(c) \/ CancelArrives(c) \/ Deadline(c)
  PROVE  IInv'
<1> USE DEF IInv
<1>1. CASE Refuse(c)
  <2>1. TypeOK' /\ Stages'
    BY <1>1 DEF Refuse, Answer, client, TypeOK, Stages, Kind
  <2>2. ReplyIsTrue' /\ SpansTellTheTruth'
    BY <1>1 DEF Refuse, Answer, client, TypeOK, Stages, ReplyIsTrue, SpansTellTheTruth, Kind
  <2> QED
    BY <2>1, <2>2
<1>2. CASE Reject(c)
  <2>1. TypeOK' /\ Stages'
    BY <1>2 DEF Reject, Answer, client, TypeOK, Stages, Kind
  <2>2. ReplyIsTrue' /\ SpansTellTheTruth'
    BY <1>2 DEF Reject, Answer, client, TypeOK, Stages, ReplyIsTrue, SpansTellTheTruth, Kind
  <2> QED
    BY <2>1, <2>2
<1>3. CASE Start(c)
  <2>1. TypeOK' /\ Stages'
    BY <1>3 DEF Start, Extract, client, TypeOK, Stages, Kind
  <2>2. ReplyIsTrue' /\ SpansTellTheTruth'
    BY <1>3 DEF Start, Extract, client, TypeOK, Stages, ReplyIsTrue, SpansTellTheTruth, Kind
  <2> QED
    BY <2>1, <2>2
<1>4. CASE CancelArrives(c)
  BY <1>4 DEF CancelArrives, client, TypeOK, Stages, ReplyIsTrue, SpansTellTheTruth, Kind
<1>5. CASE Deadline(c)
  BY <1>5 DEF Deadline, client, TypeOK, Stages, ReplyIsTrue, SpansTellTheTruth, Kind
<1> QED
  BY <1>1, <1>2, <1>3, <1>4, <1>5 DEF Gateway

\* A function ends, in a way its kind has.
LEMMA FunctionStep ==
  ASSUME IInv, NEW c \in Calls, Function(c)
  PROVE  IInv'
<1> USE DEF IInv
<1>1. PICK how \in Endings \cup {"arguments"} :
        Ends(c, how) /\ (how = "arguments" => Kind(c) = "prompt")
  BY DEF Function, ToolEnds, ResourceEnds, PromptEnds, Endings
<1>2. TypeOK'
  BY <1>1 DEF Ends, Endings, client, TypeOK
<1>3. Stages'
  BY <1>1 DEF Ends, Endings, client, TypeOK, Stages, Kind
<1>4. ReplyIsTrue' /\ SpansTellTheTruth'
  BY <1>1 DEF Ends, Endings, client, TypeOK, Stages, ReplyIsTrue, SpansTellTheTruth, Kind
<1> QED
  BY <1>2, <1>3, <1>4

\* The span ends as the function did, and a failure is sent as its kind has it.
LEMMA LeaveStep ==
  ASSUME IInv, NEW c \in Calls, Leave(c)
  PROVE  IInv'
<1> USE DEF IInv
<1>1. /\ srv[c] = "leaving" /\ body[c] \in Endings \cup {"arguments"}
      /\ span' = [span EXCEPT ![c] = Outcome(body[c])]
      /\ UNCHANGED <<call, up, outside, client, parent>>
  BY DEF Leave, Stages
<1>2. CASE body[c] = "nil"
  <2>1. srv' = [srv EXCEPT ![c] = "packing"] /\ UNCHANGED <<ctxDone, body, reply>>
    BY <1>2 DEF Leave
  <2>2. TypeOK' /\ Stages'
    BY <1>1, <1>2, <2>1 DEF Outcome, client, TypeOK, Stages, Kind
  <2>3. ReplyIsTrue' /\ SpansTellTheTruth'
    BY <1>1, <1>2, <2>1 DEF Outcome, client, TypeOK, Stages, ReplyIsTrue, SpansTellTheTruth,
       Kind
  <2> QED
    BY <2>2, <2>3
<1>3. CASE body[c] # "nil"
  <2>1. PICK ans \in {"none", "inband", "error"} :
          /\ Answer(c, body[c], ans)
          /\ ans = (IF body[c] = "goexit" THEN "none" ELSE Failure(c))
    BY <1>3 DEF Leave, Failure
  <2>2. TypeOK' /\ Stages'
    BY <1>1, <1>3, <2>1 DEF Answer, Outcome, Endings, client, TypeOK, Stages, Kind
  <2>3. ReplyIsTrue'
    BY <1>1, <1>3, <2>1 DEF Answer, Outcome, Failure, Endings, client, TypeOK, Stages,
       ReplyIsTrue, Kind
  <2>4. SpansTellTheTruth'
    BY <1>1, <1>3, <2>1 DEF Answer, Outcome, Endings, client, TypeOK, Stages,
       SpansTellTheTruth, Kind
  <2> QED
    BY <2>2, <2>3, <2>4
<1> QED
  BY <1>2, <1>3

\* What was returned is a result, or an error that is the tool's schema's.
LEMMA PackStep ==
  ASSUME IInv, NEW c \in Calls, Pack(c)
  PROVE  IInv'
<1> USE DEF IInv
<1>1. PICK ans \in {"result", "error"} :
        (ans = "error" => Kind(c) = "tool") /\ Answer(c, "nil", ans)
  BY DEF Pack
<1>2. srv[c] = "packing" /\ UNCHANGED <<call, up, outside, client, span, parent>>
  BY DEF Pack
<1>3. TypeOK' /\ Stages'
  BY <1>1, <1>2 DEF Answer, Endings, client, TypeOK, Stages, Kind
<1>4. ReplyIsTrue' /\ SpansTellTheTruth'
  BY <1>1, <1>2 DEF Answer, client, TypeOK, Stages, ReplyIsTrue, SpansTellTheTruth, Kind
<1> QED
  BY <1>3, <1>4

LEMMA NextInvariant == IInv /\ [McpNext]_mcpVars => IInv'
<1> SUFFICES ASSUME IInv, [McpNext]_mcpVars PROVE IInv'
  OBVIOUS
<1>1. CASE Connect \/ Close \/ PanicOutside
  BY <1>1, SessionStep
<1>2. ASSUME NEW c \in Calls,
             Request(c) \/ Receive(c) \/ Timeout(c) \/ SessionLost(c)
      PROVE  IInv'
  BY <1>2, ClientStep
<1>3. ASSUME NEW c \in Calls, Gateway(c) \/ CancelArrives(c) \/ Deadline(c)
      PROVE  IInv'
  BY <1>3, GatewayStep
<1>4. ASSUME NEW c \in Calls, Function(c) \/ Wrapper(c) PROVE IInv'
  BY <1>4, FunctionStep, LeaveStep, PackStep DEF Wrapper
<1>5. CASE UNCHANGED mcpVars
  BY <1>5 DEF mcpVars, IInv, TypeOK, Stages, ReplyIsTrue, SpansTellTheTruth, Kind
<1> QED
  BY <1>1, <1>2, <1>3, <1>4, <1>5 DEF McpNext, CallsAreOver

LEMMA Invariance == McpSpec => []IInv
<1> QED
  BY InitInvariant, NextInvariant, PTL DEF McpSpec

-----------------------------------------------------------------------------
\* The variables keep their types, for every set of calls.
THEOREM TypeCorrect == McpSpec => []TypeOK
<1>1. IInv => TypeOK
  BY DEF IInv
<1> QED
  BY <1>1, Invariance, PTL

\* Whatever a caller is told is what became of its call, however many calls
\* there are and whatever else ends, times out or panics (AddTool).
THEOREM AnswersAreTrue == McpSpec => []AnswerIsTrue
<1>1. IInv => AnswerIsTrue
  BY DEF IInv, TypeOK, Stages, ReplyIsTrue, AnswerIsTrue
<1> QED
  BY <1>1, Invariance, PTL

\* Every span ends with its function, says what was sent but for what the SDK
\* finds in a tool's Out, and continues the client's (AddTool,
\* injectTraceContext).
THEOREM SpansAreTrue == McpSpec => []SpansTellTheTruth
<1>1. IInv => SpansTellTheTruth
  BY DEF IInv
<1> QED
  BY <1>1, Invariance, PTL

-----------------------------------------------------------------------------
(* The registry and those who open from it *)

States == {"start", "lookup", "check", "names", "done"}

Typed ==
  /\ \A o \in Opens : ByHandle(o) => ask[o].of \in Provides
  /\ answer \in [Provides -> {"none", "ok", "duplicate"}]
  /\ pc \in [Opens -> States]
  /\ found \in [Opens -> Provides \cup {None}]
  /\ result \in [Opens -> {"none", "unusable", "unknown", "mismatch", "decode",
                           "option", "ok", "constructor"}]
  /\ ran \in [Opens -> Provides \cup {None}]
  /\ DOMAIN listed = Opens /\ DOMAIN known = Opens

\* A name leads to the Provide that returned a handle for it, and to no other.
MapIsConsistent ==
  /\ \A n \in DOMAIN entries :
       entries[n] \in Provides /\ answer[entries[n]] = "ok" /\ adapter[entries[n]].name = n
  /\ \A p \in Provides :
       answer[p] = "ok" => adapter[p].name \in DOMAIN entries /\ entries[adapter[p].name] = p

\* An adapter an Open found is the one it asked for, up to its port.
IsAsked(o, p) ==
  /\ p \in Provides /\ answer[p] = "ok" /\ adapter[p].name = AskedName(o)
  /\ ByHandle(o) => p = ask[o].of

\* What an Open has seen so far.
OpensProgress ==
  \A o \in Opens :
    /\ known[o] \subseteq DOMAIN entries
    /\ pc[o] \notin {"start", "done"} /\ ByHandle(o) => answer[ask[o].of] = "ok"
    /\ pc[o] = "names" => ~ByHandle(o) /\ AskedName(o) \notin known[o]
    /\ pc[o] = "check" => IsAsked(o, found[o])
    /\ pc[o] # "done" => result[o] = "none" /\ ran[o] = None
    /\ result[o] = "ok" => ran[o] # None /\ found[o] = ran[o]

RegistryInv ==
  Typed /\ MapIsConsistent /\ OpensProgress /\ OpenRunsWhatWasProvided /\ UnknownIsHonest

-----------------------------------------------------------------------------
(* The registry *)

LEMMA RegistryInit == Init => RegistryInv
<1> SUFFICES ASSUME Init PROVE RegistryInv
  OBVIOUS
<1>1. ASSUME NEW o \in Opens, ByHandle(o) PROVE ask[o].of \in Provides
  <2>1. ask[o] \in Asks
    BY DEF Init
  <2> QED
    BY <1>1, <2>1 DEF Asks, ByHandle
<1>2. Typed
  BY <1>1 DEF Init, Typed, States
<1>3. MapIsConsistent
  BY DEF Init, MapIsConsistent
<1>4. OpensProgress /\ OpenRunsWhatWasProvided /\ UnknownIsHonest
  BY DEF Init, OpensProgress, OpenRunsWhatWasProvided, UnknownIsHonest
<1> QED
  BY <1>2, <1>3, <1>4 DEF RegistryInv

\* The first Provide of a name wins, and nobody who has looked notices.
LEMMA ProvideStep ==
  ASSUME RegistryInv, NEW p \in Provides, Provide(p)
  PROVE  RegistryInv'
<1> USE DEF RegistryInv
<1>1. /\ answer[p] = "none"
      /\ UNCHANGED <<adapter, ask, pc, found, result, ran, listed, known>>
  BY DEF Provide
<1>2. CASE adapter[p].name \in DOMAIN entries
  <2>1. answer' = [answer EXCEPT ![p] = "duplicate"] /\ UNCHANGED entries
    BY <1>2 DEF Provide
  <2>2. \A q \in Provides : answer'[q] = "ok" <=> answer[q] = "ok"
    BY <1>1, <2>1 DEF Typed
  <2>3. Typed'
    BY <1>1, <2>1 DEF Typed, ByHandle
  <2>4. MapIsConsistent'
    BY <1>1, <2>1, <2>2 DEF MapIsConsistent
  <2>5. OpensProgress'
    BY <1>1, <2>1, <2>2 DEF OpensProgress, Typed, IsAsked, ByHandle, AskedName
  <2>6. OpenRunsWhatWasProvided' /\ UnknownIsHonest'
    BY <1>1, <2>1, <2>2 DEF OpenRunsWhatWasProvided, UnknownIsHonest, Typed, ByHandle,
       AskedName, AskedPort
  <2> QED
    BY <2>3, <2>4, <2>5, <2>6
<1>3. CASE adapter[p].name \notin DOMAIN entries
  <2>1. answer' = [answer EXCEPT ![p] = "ok"] /\ Put(p)
    BY <1>3 DEF Provide
  <2>2. \A q \in Provides : answer'[q] = "ok" <=> answer[q] = "ok" \/ q = p
    BY <1>1, <2>1 DEF Typed
  <2>3. /\ DOMAIN entries' = DOMAIN entries \cup {adapter[p].name}
        /\ entries'[adapter[p].name] = p
        /\ \A n \in DOMAIN entries : entries'[n] = entries[n]
    BY <1>3, <2>1 DEF Put
  <2>4. Typed'
    BY <1>1, <2>1 DEF Typed, ByHandle
  <2>5. MapIsConsistent'
    BY <1>1, <1>3, <2>2, <2>3 DEF MapIsConsistent
  <2>6. OpensProgress'
    BY <1>1, <2>2, <2>3 DEF OpensProgress, Typed, IsAsked, ByHandle, AskedName
  <2>7. OpenRunsWhatWasProvided' /\ UnknownIsHonest'
    BY <1>1, <2>2 DEF OpenRunsWhatWasProvided, UnknownIsHonest, Typed, ByHandle,
       AskedName, AskedPort
  <2> QED
    BY <2>4, <2>5, <2>6, <2>7
<1> QED
  BY <1>2, <1>3

LEMMA CallStep ==
  ASSUME RegistryInv, NEW o \in Opens, Call(o)
  PROVE  RegistryInv'
<1> USE DEF RegistryInv
<1>1. /\ pc[o] = "start" /\ (ByHandle(o) => answer[ask[o].of] # "none")
      /\ known' = [known EXCEPT ![o] = DOMAIN entries]
      /\ UNCHANGED <<adapter, ask, entries, answer, found, ran, listed>>
  BY DEF Call
<1>2. CASE ByHandle(o) /\ answer[ask[o].of] = "duplicate"
  BY <1>1, <1>2 DEF Call, Return, Typed, States, MapIsConsistent, OpensProgress, IsAsked,
     OpenRunsWhatWasProvided, UnknownIsHonest, ByHandle, AskedName, AskedPort
<1>3. CASE ~(ByHandle(o) /\ answer[ask[o].of] = "duplicate")
  <2>1. pc' = [pc EXCEPT ![o] = "lookup"] /\ UNCHANGED result
    BY <1>3 DEF Call
  <2>2. ByHandle(o) => answer[ask[o].of] = "ok"
    BY <1>1, <1>3 DEF Typed
  <2> QED
    BY <1>1, <2>1, <2>2 DEF Typed, States, MapIsConsistent, OpensProgress, IsAsked,
       OpenRunsWhatWasProvided, UnknownIsHonest, ByHandle, AskedName, AskedPort
<1> QED
  BY <1>2, <1>3

\* A handle finds its own Provide; a name that is not found was not there when
\* the Open began.
LEMMA LookupStep ==
  ASSUME RegistryInv, NEW o \in Opens, Lookup(o)
  PROVE  RegistryInv'
<1> USE DEF RegistryInv
<1>1. /\ pc[o] = "lookup"
      /\ UNCHANGED <<adapter, ask, entries, answer, result, ran, listed, known>>
  BY DEF Lookup
<1>2. ByHandle(o) => /\ AskedName(o) \in DOMAIN entries
                     /\ entries[AskedName(o)] = ask[o].of
  BY <1>1 DEF Typed, OpensProgress, MapIsConsistent, AskedName
<1>3. CASE AskedName(o) \in DOMAIN entries
  <2>1. /\ found' = [found EXCEPT ![o] = entries[AskedName(o)]]
        /\ pc' = [pc EXCEPT ![o] = "check"]
    BY <1>3 DEF Lookup
  <2>2. IsAsked(o, entries[AskedName(o)])
    BY <1>2, <1>3 DEF MapIsConsistent, IsAsked
  <2>3. Typed' /\ MapIsConsistent'
    <3>1. found' \in [Opens -> Provides \cup {None}] /\ pc' \in [Opens -> States]
      BY <2>1, <2>2 DEF Typed, States, IsAsked
    <3>2. Typed'
      BY <1>1, <3>1 DEF Typed, ByHandle
    <3>3. MapIsConsistent'
      BY <1>1 DEF MapIsConsistent
    <3> QED
      BY <3>2, <3>3
  <2>4. OpensProgress'
    <3>1. pc'[o] = "check" /\ found'[o] = entries[AskedName(o)]
      BY <2>1 DEF Typed
    <3>2. \A other \in Opens \ {o} : pc'[other] = pc[other] /\ found'[other] = found[other]
      BY <2>1 DEF Typed
    <3>3. \A any \in Opens, p \in Provides : IsAsked(any, p)' <=> IsAsked(any, p)
      BY <1>1 DEF IsAsked, ByHandle, AskedName
    <3>4. UNCHANGED <<known, entries, answer, ask, adapter, result, ran>>
      BY <1>1
    <3>5. result[o] = "none"
      BY <1>1 DEF OpensProgress
    <3>6. IsAsked(o, found[o])'
      BY <2>2, <3>1, <3>3 DEF IsAsked
    <3>7. \A q \in Opens : /\ ByHandle(q)' <=> ByHandle(q)
                          /\ AskedName(q)' = AskedName(q)
      BY <1>1 DEF ByHandle, AskedName
    <3>8. /\ known[o] \subseteq DOMAIN entries /\ ran[o] = None
          /\ ByHandle(o) => answer[ask[o].of] = "ok"
      BY <1>1 DEF OpensProgress
    <3> DEFINE Progress(q) ==
                 /\ known[q] \subseteq DOMAIN entries
                 /\ pc[q] \notin {"start", "done"} /\ ByHandle(q) => answer[ask[q].of] = "ok"
                 /\ pc[q] = "names" => ~ByHandle(q) /\ AskedName(q) \notin known[q]
                 /\ pc[q] = "check" => IsAsked(q, found[q])
                 /\ pc[q] # "done" => result[q] = "none" /\ ran[q] = None
                 /\ result[q] = "ok" => ran[q] # None /\ found[q] = ran[q]
    <3>9. \A q \in Opens : Progress(q)
      BY DEF OpensProgress
    <3>10. Progress(o)'
      BY <3>1, <3>4, <3>5, <3>6, <3>7, <3>8
    <3>11. ASSUME NEW q \in Opens \ {o} PROVE Progress(q)'
      <4>1. Progress(q) /\ pc'[q] = pc[q] /\ found'[q] = found[q]
        BY <3>2, <3>9
      <4>2. pc[q] = "check" => IsAsked(q, found[q])'
        BY <3>3, <3>4, <4>1 DEF IsAsked
      <4> QED
        BY <3>4, <3>7, <4>1, <4>2
    <3>12. \A q \in Opens : Progress(q)'
      BY <3>10, <3>11
    <3> QED
      BY <3>12 DEF OpensProgress
  <2>5. OpenRunsWhatWasProvided' /\ UnknownIsHonest'
    BY <1>1 DEF OpenRunsWhatWasProvided, UnknownIsHonest, ByHandle, AskedName, AskedPort
  <2> QED
    BY <2>3, <2>4, <2>5
<1>4. CASE AskedName(o) \notin DOMAIN entries
  <2>1. pc' = [pc EXCEPT ![o] = "names"] /\ UNCHANGED found
    BY <1>4 DEF Lookup
  <2>2. ~ByHandle(o) /\ AskedName(o) \notin known[o]
    BY <1>2, <1>4 DEF OpensProgress
  <2> QED
    BY <1>1, <2>1, <2>2 DEF Typed, States, MapIsConsistent, OpensProgress, IsAsked,
       OpenRunsWhatWasProvided, UnknownIsHonest, ByHandle, AskedName, AskedPort
<1> QED
  BY <1>3, <1>4

LEMMA ListNamesStep ==
  ASSUME RegistryInv, NEW o \in Opens, ListNames(o)
  PROVE  RegistryInv'
<1> USE DEF RegistryInv
<1>1. /\ pc[o] = "names"
      /\ listed' = [listed EXCEPT ![o] = DOMAIN entries]
      /\ pc' = [pc EXCEPT ![o] = "done"] /\ result' = [result EXCEPT ![o] = "unknown"]
      /\ UNCHANGED <<adapter, ask, entries, answer, found, ran, known>>
  BY DEF ListNames, Return
<1>2. Typed' /\ MapIsConsistent'
  BY <1>1 DEF Typed, States, MapIsConsistent, ByHandle
<1>3. OpensProgress' /\ OpenRunsWhatWasProvided'
  BY <1>1 DEF Typed, OpensProgress, OpenRunsWhatWasProvided, IsAsked, ByHandle, AskedName,
     AskedPort
<1>4. UnknownIsHonest'
  BY <1>1 DEF Typed, OpensProgress, UnknownIsHonest, ByHandle, AskedName
<1> QED
  BY <1>2, <1>3, <1>4

LEMMA ConstructStep ==
  ASSUME RegistryInv, NEW o \in Opens, Construct(o)
  PROVE  RegistryInv'
<1> USE DEF RegistryInv
<1>1. /\ pc[o] = "check" /\ pc' = [pc EXCEPT ![o] = "done"]
      /\ UNCHANGED <<adapter, ask, entries, answer, found, listed, known>>
  BY DEF Construct, Return
<1>2. PICK res \in {"mismatch", "decode", "option", "ok", "constructor"} :
        result' = [result EXCEPT ![o] = res]
  BY DEF Construct, Return
<1>3. IsAsked(o, found[o])
  BY <1>1 DEF OpensProgress
<1>4. ByHandle(o) => Fits(o)
  BY <1>3 DEF IsAsked, Fits, AskedPort
<1>5. CASE UNCHANGED ran /\ res # "ok" /\ (res = "mismatch" => ~ByHandle(o))
  BY <1>1, <1>2, <1>5 DEF Typed, States, MapIsConsistent, OpensProgress, IsAsked,
     OpenRunsWhatWasProvided, UnknownIsHonest, ByHandle, AskedName, AskedPort
<1>6. CASE Fits(o) /\ res # "mismatch" /\ ran' = [ran EXCEPT ![o] = found[o]]
  <2>1. Typed' /\ MapIsConsistent'
    BY <1>1, <1>2, <1>6 DEF Typed, States, MapIsConsistent, ByHandle
  <2>2. OpensProgress' /\ UnknownIsHonest'
    BY RegistryAssumption, <1>1, <1>2, <1>3, <1>6 DEF Typed, OpensProgress, UnknownIsHonest,
       IsAsked, ByHandle, AskedName
  <2>3. OpenRunsWhatWasProvided'
    BY <1>1, <1>3, <1>6 DEF Typed, OpenRunsWhatWasProvided, IsAsked, Fits, ByHandle,
       AskedName, AskedPort
  <2> QED
    BY <2>1, <2>2, <2>3
<1>7. \/ UNCHANGED ran /\ res # "ok" /\ (res = "mismatch" => ~ByHandle(o))
      \/ Fits(o) /\ res # "mismatch" /\ ran' = [ran EXCEPT ![o] = found[o]]
  <2>1. result'[o] = res
    BY <1>2 DEF Typed
  <2> QED
    BY <1>4, <2>1 DEF Construct, Return, Typed
<1> QED
  BY <1>5, <1>6, <1>7

LEMMA RegistryNext == RegistryInv /\ [Next]_vars => RegistryInv'
<1> SUFFICES ASSUME RegistryInv, [Next]_vars PROVE RegistryInv'
  OBVIOUS
<1>1. CASE UNCHANGED vars
  BY <1>1 DEF vars, RegistryInv, Typed, MapIsConsistent, OpensProgress, IsAsked,
     OpenRunsWhatWasProvided, UnknownIsHonest, ByHandle, AskedName, AskedPort
<1> QED
  BY <1>1, ProvideStep, CallStep, LookupStep, ListNamesStep, ConstructStep
     DEF Next, Terminated

LEMMA RegistryInvariance == Spec => []RegistryInv
<1> QED
  BY RegistryInit, RegistryNext, PTL DEF Spec

\* However many goroutines provide and open at the same time, an Open runs a
\* constructor that was registered for what it asked, and a handle leads to its
\* own (Register, Open).
THEOREM OpensAreRight == Spec => []OpenRunsWhatWasProvided
<1>1. RegistryInv => OpenRunsWhatWasProvided
  BY DEF RegistryInv
<1> QED
  BY <1>1, RegistryInvariance, PTL

\* An adapter is unknown only to an Open that began before it was registered,
\* and a handle never is (Open, UnknownNameError).
THEOREM ErrorsAreHonest == Spec => []UnknownIsHonest
<1>1. RegistryInv => UnknownIsHonest
  BY DEF RegistryInv
<1> QED
  BY <1>1, RegistryInvariance, PTL

-----------------------------------------------------------------------------
(* The servers *)

ServersTyped ==
  /\ \A s \in Servers : ask[s].by = "name" /\ ask[s].port = Port
  /\ DOMAIN phase = Servers /\ DOMAIN transport = Servers /\ DOMAIN answered = Servers

\* A Run opens its transport once, and not before it begins.
RunsProgress ==
  \A s \in Servers :
    /\ phase[s] = "new" => pc[s] = "start"
    /\ phase[s] \in {"new", "resolving"} => transport[s] = None /\ answered[s] = "none"
    /\ phase[s] = "resolving" => wired[s] /\ pc[s] # "start"
    /\ ~wired[s] => phase[s] # "resolving"
    /\ phase[s] # "new" /\ wired[s] => pc[s] # "start"

TransportInv == RegistryInv /\ ServersTyped /\ RunsProgress /\ ServesWhatWasAsked

\* A server's steps leave the registry alone or are an Open's.
LEMMA StepsImplement == [TransportNext]_allVars => [Next]_vars
<1> SUFFICES ASSUME [TransportNext]_allVars PROVE [Next]_vars
  OBVIOUS
<1>1. CASE RegistryStep
  BY <1>1 DEF RegistryStep, Next
<1>2. ASSUME NEW s \in Servers,
             \/ RunUnwired(s) \/ RunWired(s) \/ Resolved(s) \/ CtxEnds(s)
             \/ StreamChanges(s) \/ StdioEnds(s) \/ ListenEnds(s)
      PROVE  [Next]_vars
  BY <1>2, TransportAssumption DEF RunUnwired, RunWired, Resolved, CtxEnds, StreamChanges,
     StdioEnds, ListenEnds, Next
<1>3. CASE AllTerminated \/ UNCHANGED allVars
  BY <1>3 DEF AllTerminated, allVars
<1> QED
  BY <1>1, <1>2, <1>3 DEF TransportNext

LEMMA TransportInitInv == TransportInit => TransportInv
<1> SUFFICES ASSUME TransportInit PROVE TransportInv
  OBVIOUS
<1>1. RegistryInv
  BY RegistryInit DEF TransportInit
<1>2. ServersTyped /\ RunsProgress
  BY TransportAssumption DEF TransportInit, Init, ServersTyped, RunsProgress
<1>3. ServesWhatWasAsked
  BY TransportAssumption, RegistryAssumption DEF TransportInit, ServesWhatWasAsked
<1> QED
  BY <1>1, <1>2, <1>3 DEF TransportInv

\* What the registry does meanwhile changes nothing for a server: its Open
\* goes on, and nothing that was registered is registered otherwise.
LEMMA RegistryStepInv ==
  ASSUME TransportInv, RegistryStep
  PROVE  TransportInv'
<1> USE DEF TransportInv
<1>1. [Next]_vars
  BY StepsImplement DEF TransportNext
<1>2. RegistryInv'
  BY <1>1, RegistryNext
<1>3. UNCHANGED own /\ UNCHANGED <<adapter, ask>>
  BY DEF RegistryStep, Provide, Call, Lookup, ListNames, Construct
<1>4. ServersTyped'
  BY <1>3 DEF own, ServersTyped
<1>5. \A s \in Servers :
        (pc'[s] = "start" <=> pc[s] = "start") /\ known'[s] = known[s]
  <2>1. ASSUME NEW p \in Provides, Provide(p) PROVE UNCHANGED <<pc, known>>
    BY <2>1 DEF Provide
  <2>2. ASSUME NEW o \in Opens \ Servers, Call(o)
        PROVE  \A s \in Servers : pc'[s] = pc[s] /\ known'[s] = known[s]
    BY <2>2, TransportAssumption DEF Call, Return, RegistryInv, Typed
  <2>3. ASSUME NEW o \in Opens, Lookup(o) \/ ListNames(o) \/ Construct(o)
        PROVE  /\ UNCHANGED known /\ pc[o] # "start"
               /\ \E to \in {"check", "names", "done"} : pc' = [pc EXCEPT ![o] = to]
    BY <2>3 DEF Lookup, ListNames, Construct, Return
  <2> QED
    BY <2>1, <2>2, <2>3, TransportAssumption DEF RegistryStep, RegistryInv, Typed
<1>6. \A p \in Provides : answer[p] = "ok" => answer'[p] = "ok"
  BY DEF RegistryStep, Provide, Call, Lookup, ListNames, Construct, RegistryInv, Typed
<1>7. RunsProgress'
  BY <1>3, <1>5 DEF own, RunsProgress
<1>8. ServesWhatWasAsked'
  BY <1>3, <1>5, <1>6 DEF own, ServesWhatWasAsked, Name
<1> QED
  BY <1>2, <1>4, <1>7, <1>8

\* What was opened for a server is a registered transport of its name, and a
\* name that is unknown was not registered when it began.
LEMMA ResolvedStep ==
  ASSUME TransportInv, NEW s \in Servers, Resolved(s)
  PROVE  TransportInv'
<1> USE DEF TransportInv
<1>1. /\ phase[s] = "resolving" /\ pc[s] = "done"
      /\ UNCHANGED <<vars, config, ended, streams>>
  BY DEF Resolved
<1>2. RegistryInv'
  BY <1>1, RegistryNext
<1>3. s \in Opens /\ ~ByHandle(s) /\ AskedName(s) = Name(s) /\ AskedPort(s) = Port
  BY TransportAssumption DEF ServersTyped, ByHandle, AskedName, AskedPort, Name
<1>4. ServersTyped' /\ RunsProgress'
  BY <1>1 DEF Resolved, Serving, Stop, vars, config, ServersTyped, RunsProgress
<1>5. result[s] = "unknown" => Name(s) \notin known[s]
  BY <1>3 DEF RegistryInv, UnknownIsHonest
<1>6. result[s] = "ok" =>
        /\ found[s] \in Provides /\ answer[found[s]] = "ok"
        /\ adapter[found[s]].name = Name(s) /\ adapter[found[s]].port = Port
  BY <1>3 DEF RegistryInv, Typed, OpensProgress, OpenRunsWhatWasProvided
<1>7. ServesWhatWasAsked'
  <2>1. CASE Fallback(s) /\ Serving(s, InTree)
    BY <1>1, <1>5, <2>1, TransportAssumption DEF Fallback, Serving, vars, config,
       ServersTyped, RunsProgress, ServesWhatWasAsked, Name
  <2>2. CASE ~Fallback(s) /\ result[s] # "ok" /\ Stop(s, result[s])
    BY <1>1, <1>5, <2>2 DEF Fallback, Stop, vars, config, ServersTyped,
       ServesWhatWasAsked, Name
  <2>3. CASE result[s] = "ok" /\ endpoint[s] # "none" /\ Serving(s, found[s])
    BY <1>1, <1>6, <2>3, TransportAssumption DEF Serving, vars, config, ServersTyped,
       RunsProgress, ServesWhatWasAsked, Name
  <2>4. CASE result[s] = "ok" /\ Stop(s, "constructor")
    BY <1>1, <2>4 DEF Stop, vars, config, ServersTyped, ServesWhatWasAsked, Name
  <2> QED
    BY <2>1, <2>2, <2>3, <2>4 DEF Resolved
<1> QED
  BY <1>2, <1>4, <1>7

\* The other steps of a server.
LEMMA ServerStep ==
  ASSUME TransportInv, NEW s \in Servers,
         \/ RunUnwired(s) \/ RunWired(s) \/ CtxEnds(s)
         \/ StreamChanges(s) \/ StdioEnds(s) \/ ListenEnds(s)
  PROVE  TransportInv'
<1> USE DEF TransportInv
<1>1. [Next]_vars
  BY StepsImplement DEF TransportNext
<1>2. RegistryInv'
  BY <1>1, RegistryNext
<1>3. CASE RunUnwired(s)
  BY <1>2, <1>3, TransportAssumption DEF RunUnwired, Serving, Stop, vars, config,
     ServersTyped, RunsProgress, ServesWhatWasAsked, Name
<1>4. CASE RunWired(s)
  <2>1. /\ phase[s] = "new" /\ wired[s] /\ s \in Opens
        /\ phase' = [phase EXCEPT ![s] = "resolving"]
        /\ UNCHANGED <<config, transport, ended, streams, answered>>
    BY <1>4, TransportAssumption DEF RunWired
  <2>2. /\ \A r \in Servers \ {s} : pc'[r] = pc[r] /\ known'[r] = known[r]
        /\ pc'[s] # "start" /\ UNCHANGED <<adapter, ask, answer>>
    BY <1>4, <2>1, TransportAssumption DEF RunWired, Call, Return, RegistryInv, Typed, States
  <2>3. ServersTyped' /\ RunsProgress'
    BY <2>1, <2>2 DEF config, ServersTyped, RunsProgress
  <2>4. ServesWhatWasAsked'
    BY <2>1, <2>2, TransportAssumption, RegistryAssumption DEF config, RunsProgress,
       ServesWhatWasAsked, Name
  <2> QED
    BY <1>2, <2>3, <2>4
<1>5. CASE CtxEnds(s) \/ StreamChanges(s)
  BY <1>2, <1>5 DEF CtxEnds, StreamChanges, vars, config, ServersTyped, RunsProgress,
     ServesWhatWasAsked, Name
<1>6. CASE StdioEnds(s) \/ ListenEnds(s)
  <2>1. PICK res \in {"nil", "serve", "deadline"} : Stop(s, res)
    BY <1>6 DEF StdioEnds, ListenEnds
  <2>2. phase[s] = "serving" /\ UNCHANGED <<vars, config, ended, streams>>
    BY <1>6 DEF StdioEnds, ListenEnds
  <2> QED
    BY <1>2, <2>1, <2>2 DEF Stop, vars, config, ServersTyped, RunsProgress,
       ServesWhatWasAsked, Name
<1> QED
  BY <1>3, <1>4, <1>5, <1>6

LEMMA TransportNextInv == TransportInv /\ [TransportNext]_allVars => TransportInv'
<1> SUFFICES ASSUME TransportInv, [TransportNext]_allVars PROVE TransportInv'
  OBVIOUS
<1>1. CASE UNCHANGED allVars
  <2>1. RegistryInv'
    BY <1>1, RegistryNext DEF allVars, TransportInv
  <2> QED
    BY <1>1, <2>1 DEF allVars, vars, own, TransportInv, ServersTyped, RunsProgress,
       ServesWhatWasAsked, Name
<1> QED
  BY <1>1, RegistryStepInv, ResolvedStep, ServerStep DEF TransportNext, AllTerminated

\* Servers that resolve their transports are Opens among others, whatever they
\* do with the result (resolveTransport).
THEOREM ImplementsRegistry == TransportSpec => Spec
<1>1. TransportInit => Init
  BY DEF TransportInit
<1> QED
  BY <1>1, StepsImplement, PTL DEF TransportSpec, Spec

\* A server serves on what is registered under its name, and on stdio only if
\* that is its name and the registry did not have it, for every number of
\* servers and whatever is provided meanwhile (resolveTransport).
THEOREM ServersServeWhatWasAsked == TransportSpec => []ServesWhatWasAsked
<1>1. TransportInv => ServesWhatWasAsked
  BY DEF TransportInv
<1> QED
  BY <1>1, TransportInitInv, TransportNextInv, PTL DEF TransportSpec
=============================================================================

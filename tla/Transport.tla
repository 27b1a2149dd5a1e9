------------------------------- MODULE Transport -------------------------------
(***************************************************************************)
(* Package mcp, Server.Run: the transport of a server is resolved by name, *)
(* through the Registry it was given, and then serves until its context    *)
(* ends.  The in-tree stdio transport needs no registry; those of          *)
(* httptransport and ssetransport listen through goga/serve.               *)
(*                                                                         *)
(* Extends Registry: a Run is an Open by name of the port of transports.   *)
(***************************************************************************)
EXTENDS Registry

CONSTANTS
  Servers, \* the Opens that are calls of Server.Run
  Port,    \* the port of transports, transportFactory
  Default, \* the default transport's name, "stdio"
  InTree   \* the in-tree transport

ASSUME TransportAssumption ==
  /\ Servers \subseteq Opens /\ Port \in Ports /\ Default \in Names
  /\ InTree \notin Provides \cup {None}

VARIABLES
  wired,     \* whether the server was given a registry
  endpoint,  \* where its endpoint comes from, the adapter's settings first
  phase,     \* where each Run is
  transport, \* what it serves on
  ended,     \* whether its context has ended
  streams,   \* whether a client holds an event stream
  answered   \* what it returned

own == <<wired, endpoint, phase, transport, ended, streams, answered>>
allVars == <<vars, own>>
config == <<wired, endpoint>>

TransportInit ==
  /\ Init
  /\ \A s \in Servers : ask[s].by = "name" /\ ask[s].port = Port
  /\ wired \in [Servers -> BOOLEAN]
  /\ endpoint \in [Servers -> {"none", "module", "adapter"}]
  /\ \A s \in Servers : endpoint[s] = "adapter" => wired[s] /\ ask[s].raw
  /\ phase = [s \in Servers |-> "new"]
  /\ transport = [s \in Servers |-> None]
  /\ ended = [s \in Servers |-> FALSE]
  /\ streams = [s \in Servers |-> FALSE]
  /\ answered = [s \in Servers |-> "none"]

-----------------------------------------------------------------------------
(* Resolution *)

Name(s) == ask[s].name

Serving(s, t) ==
  /\ phase' = [phase EXCEPT ![s] = "serving"]
  /\ transport' = [transport EXCEPT ![s] = t]
  /\ UNCHANGED answered

Stop(s, res) ==
  /\ phase' = [phase EXCEPT ![s] = "over"]
  /\ answered' = [answered EXCEPT ![s] = res]
  /\ UNCHANGED transport

\* Without a registry there is the default and nothing else.
RunUnwired(s) ==
  /\ phase[s] = "new" /\ ~wired[s]
  /\ IF Name(s) = Default THEN Serving(s, InTree) ELSE Stop(s, "unknown")
  /\ UNCHANGED <<vars, config, ended, streams>>

RunWired(s) ==
  /\ phase[s] = "new" /\ wired[s]
  /\ Call(s)
  /\ phase' = [phase EXCEPT ![s] = "resolving"]
  /\ UNCHANGED <<config, transport, ended, streams, answered>>

\* mutant: whatever could not be opened is served over stdio.
FallbackAny(s) == result[s] = "unknown"

\* The default is in-tree, unless the registry holds one of its name.
Fallback(s) == result[s] = "unknown" /\ Name(s) = Default

\* The registry hands back the factory; the transport's constructor needs an
\* endpoint from one of the two, and refuses a negative timeout.
Resolved(s) ==
  /\ phase[s] = "resolving" /\ pc[s] = "done"
  /\ \/ Fallback(s) /\ Serving(s, InTree)
     \/ ~Fallback(s) /\ result[s] # "ok" /\ Stop(s, result[s])
     \/ result[s] = "ok" /\ endpoint[s] # "none" /\ Serving(s, found[s])
     \/ result[s] = "ok" /\ Stop(s, "constructor")
  /\ UNCHANGED <<vars, config, ended, streams>>

-----------------------------------------------------------------------------
(* Serving *)

Listening(s) == transport[s] \in Provides

\* Over HTTP a connected client holds a stream for as long as it likes.
StreamChanges(s) ==
  /\ phase[s] = "serving" /\ Listening(s)
  /\ ~ended[s] \/ streams[s]
  /\ streams' = [streams EXCEPT ![s] = ~@]
  /\ UNCHANGED <<vars, config, phase, transport, ended, answered>>

CtxEnds(s) ==
  /\ ~ended[s] /\ phase[s] # "over"
  /\ ended' = [ended EXCEPT ![s] = TRUE]
  /\ UNCHANGED <<vars, config, phase, transport, streams, answered>>

\* The peer of stdio is gone, cleanly or not; the end of the context is nil.
StdioEnds(s) ==
  /\ phase[s] = "serving" /\ ~Listening(s)
  /\ \/ ended[s] /\ Stop(s, "nil")
     \/ ~ended[s] /\ \E res \in {"nil", "serve"} : Stop(s, res)
  /\ UNCHANGED <<vars, config, ended, streams>>

\* serve.Run: a socket that cannot be bound, or a drain that waits out its
\* grace period for the streams that are open.
ListenEnds(s) ==
  /\ phase[s] = "serving" /\ Listening(s)
  /\ \/ ~streams[s] /\ Stop(s, "serve")
     \/ ended[s] /\ Stop(s, IF streams[s] THEN "deadline" ELSE "nil")
  /\ UNCHANGED <<vars, config, ended, streams>>

-----------------------------------------------------------------------------
RegistryStep ==
  /\ \/ \E p \in Provides : Provide(p)
     \/ \E o \in Opens \ Servers : Call(o)
     \/ \E o \in Opens : Lookup(o) \/ ListNames(o) \/ Construct(o)
  /\ UNCHANGED own

AllTerminated ==
  /\ \A p \in Provides : answer[p] # "none"
  /\ \A o \in Opens \ Servers : pc[o] = "done"
  /\ \A s \in Servers : phase[s] = "over"
  /\ UNCHANGED allVars

TransportNext ==
  \/ RegistryStep
  \/ \E s \in Servers :
       \/ RunUnwired(s) \/ RunWired(s) \/ Resolved(s) \/ CtxEnds(s)
       \/ StreamChanges(s) \/ StdioEnds(s) \/ ListenEnds(s)
  \/ AllTerminated

TransportSpec == TransportInit /\ [][TransportNext]_allVars

-----------------------------------------------------------------------------
(* Properties *)

\* A server serves on the transport registered under the name it asked for,
\* and on the in-tree one only if that is the default and the registry, if
\* there is one, did not hold it when Run began ("A registry carrying only
\* http and sse still serves stdio", resolveTransport); and the name was unknown
\* only if it is not the default and was not registered when Run began,
\* whatever is being provided meanwhile (UnknownTransportError).
ServesWhatWasAsked ==
  \A s \in Servers :
    /\ transport[s] = InTree =>
         Name(s) = Default /\ (wired[s] => Default \notin known[s])
    /\ transport[s] \in Provides =>
         /\ wired[s] /\ endpoint[s] # "none"
         /\ answer[transport[s]] = "ok"
         /\ adapter[transport[s]].name = Name(s)
         /\ adapter[transport[s]].port = Port
    /\ answered[s] = "unknown" =>
         Name(s) # Default /\ (wired[s] => Name(s) \notin known[s])

\* What Transport says of Serve: "It returns nil on a clean shutdown, so a
\* cancelled context is not an error" (transport.go:32).  Nothing closes the
\* event streams, and the drain waits for them in vain.
CancelledIsNotAnError == \A s \in Servers : answered[s] # "deadline"
=============================================================================

------------------------------- MODULE Registry -------------------------------
(***************************************************************************)
(* Package registry: goroutines providing adapters to one Registry and     *)
(* opening them, by name or through the handle Provide returned.           *)
(*                                                                         *)
(* Every access to the map is one critical section of the RWMutex, but an  *)
(* Open takes up to two, and runs the constructor outside of both.  A port *)
(* stands for a Go type; what settings contain is left out.                *)
(***************************************************************************)
EXTENDS FiniteSets

CONSTANTS
  Provides, \* calls of Provide, each with a constructor of its own
  Opens,    \* calls of Open
  Names,    \* adapter names
  Ports,    \* port types
  Types,    \* settings types
  None      \* no constructor

ASSUME RegistryAssumption == None \notin Provides

VARIABLES
  adapter, \* name, port and settings type of each Provide
  ask,     \* what each Open asks for: by name, or by handle
  entries, \* the map: the Provide that registered each name
  answer,  \* what each Provide returned
  pc,      \* where each Open is
  found,   \* the entry it looked up
  result,  \* what it returned
  ran,     \* the constructor it ran
  listed,  \* the names its UnknownNameError lists
  known    \* history: the names registered when it began

vars == <<adapter, ask, entries, answer, pc, found, result, ran, listed, known>>

Asks ==
  [by : {"name"}, name : Names, port : Ports, raw : BOOLEAN]
    \cup [by : {"handle"}, of : Provides, raw : BOOLEAN]

Init ==
  /\ adapter \in [Provides -> [name : Names, port : Ports, settings : Types]]
  /\ ask \in [Opens -> Asks]
  /\ entries = [n \in {} |-> None]
  /\ answer = [p \in Provides |-> "none"]
  /\ pc = [o \in Opens |-> "start"]
  /\ found = [o \in Opens |-> None]
  /\ result = [o \in Opens |-> "none"]
  /\ ran = [o \in Opens |-> None]
  /\ listed = [o \in Opens |-> {}] /\ known = [o \in Opens |-> {}]

-----------------------------------------------------------------------------
Put(p) ==
  entries' = [n \in DOMAIN entries \cup {adapter[p].name} |->
                IF n = adapter[p].name THEN p ELSE entries[n]]

\* mutant: a duplicate replaces the adapter it is reported against.
ProvideOver(p) ==
  /\ answer[p] = "none"
  /\ answer' = [answer EXCEPT ![p] =
                  IF adapter[p].name \in DOMAIN entries THEN "duplicate" ELSE "ok"]
  /\ Put(p)
  /\ UNCHANGED <<adapter, ask, pc, found, result, ran, listed, known>>

\* Register looks and inserts under one write lock; the first one wins.
Provide(p) ==
  /\ answer[p] = "none"
  /\ IF adapter[p].name \in DOMAIN entries
       THEN answer' = [answer EXCEPT ![p] = "duplicate"] /\ UNCHANGED entries
       ELSE answer' = [answer EXCEPT ![p] = "ok"] /\ Put(p)
  /\ UNCHANGED <<adapter, ask, pc, found, result, ran, listed, known>>

-----------------------------------------------------------------------------
ByHandle(o) == ask[o].by = "handle"
AskedName(o) == IF ByHandle(o) THEN adapter[ask[o].of].name ELSE ask[o].name
AskedPort(o) == IF ByHandle(o) THEN adapter[ask[o].of].port ELSE ask[o].port

Return(o, res) ==
  /\ pc' = [pc EXCEPT ![o] = "done"]
  /\ result' = [result EXCEPT ![o] = res]

\* The handle of a Provide that failed is the zero Adapter.
Call(o) ==
  /\ pc[o] = "start" /\ (ByHandle(o) => answer[ask[o].of] # "none")
  /\ known' = [known EXCEPT ![o] = DOMAIN entries]
  /\ IF ByHandle(o) /\ answer[ask[o].of] = "duplicate"
       THEN Return(o, "unusable")
       ELSE pc' = [pc EXCEPT ![o] = "lookup"] /\ UNCHANGED result
  /\ UNCHANGED <<adapter, ask, entries, answer, found, ran, listed>>

Lookup(o) ==
  /\ pc[o] = "lookup"
  /\ LET n == AskedName(o)
     IN  IF n \in DOMAIN entries
           THEN /\ found' = [found EXCEPT ![o] = entries[n]]
                /\ pc' = [pc EXCEPT ![o] = "check"]
           ELSE pc' = [pc EXCEPT ![o] = "names"] /\ UNCHANGED found
  /\ UNCHANGED <<adapter, ask, entries, answer, result, ran, listed, known>>

\* The list of the error is a second look at the map.
ListNames(o) ==
  /\ pc[o] = "names"
  /\ listed' = [listed EXCEPT ![o] = DOMAIN entries]
  /\ Return(o, "unknown")
  /\ UNCHANGED <<adapter, ask, entries, answer, found, ran, known>>

\* mutant: any constructor that takes the handle's settings will do.
FitsSettings(o) ==
  ByHandle(o) => adapter[found[o]].settings = adapter[ask[o].of].settings

\* The port by identity and, for a handle, the constructor's own type.
Fits(o) ==
  /\ adapter[found[o]].port = AskedPort(o)
  /\ ByHandle(o) => adapter[found[o]].settings = adapter[ask[o].of].settings

\* Settings are decoded, options applied, and the constructor runs last.
Construct(o) ==
  /\ pc[o] = "check"
  /\ \/ ~Fits(o) /\ Return(o, "mismatch") /\ UNCHANGED ran
     \/ Fits(o) /\ ask[o].raw /\ Return(o, "decode") /\ UNCHANGED ran
     \/ Fits(o) /\ ByHandle(o) /\ Return(o, "option") /\ UNCHANGED ran
     \/ /\ Fits(o)
        /\ ran' = [ran EXCEPT ![o] = found[o]]
        /\ \E res \in {"ok", "constructor"} : Return(o, res)
  /\ UNCHANGED <<adapter, ask, entries, answer, found, listed, known>>

-----------------------------------------------------------------------------
Terminated ==
  /\ \A p \in Provides : answer[p] # "none"
  /\ \A o \in Opens : pc[o] = "done"
  /\ UNCHANGED vars

Next ==
  \/ \E p \in Provides : Provide(p)
  \/ \E o \in Opens : Call(o) \/ Lookup(o) \/ ListNames(o) \/ Construct(o)
  \/ Terminated

Spec == Init /\ [][Next]_vars

-----------------------------------------------------------------------------
(* Properties *)

\* Whatever else is provided meanwhile under the same name, the constructor an
\* Open runs is one that was registered, under the name and for the port asked
\* for; an Open through a handle runs the constructor given to its Provide
\* (Open, "can never be handed back as an unrelated interface").
OpenRunsWhatWasProvided ==
  \A o \in Opens :
    ran[o] # None =>
      /\ answer[ran[o]] = "ok"
      /\ adapter[ran[o]].name = AskedName(o)
      /\ adapter[ran[o]].port = AskedPort(o)
      /\ ByHandle(o) => ran[o] = ask[o].of

\* A handle never meets "unknown" or "mismatch", and an Open meets "unknown"
\* only if its name was not registered when it began; the error then lists
\* every name that was.
UnknownIsHonest ==
  \A o \in Opens :
    /\ result[o] = "unknown" =>
         ~ByHandle(o) /\ AskedName(o) \notin known[o] /\ known[o] \subseteq listed[o]
    /\ result[o] = "mismatch" => ~ByHandle(o)
=============================================================================

------------------------- MODULE TelemetrySetupProofs -------------------------
(***************************************************************************)
(* For any number of Setups in one process: one that fails is undone, the  *)
(* globals are of one, and Shutdown comes to every provider, stops what    *)
(* its context lets it stop, and is observed.                              *)
(***************************************************************************)
EXTENDS TelemetrySetup, TLAPS

\* Setups are made one after another.
InOrder ==
  \A s, q \in 1..Setups :
    s < q /\ phase[q] # "idle" => phase[s] \notin {"idle", "building", "installing"}

\* A Setup has replaced the globals before the one it is at.
InstallsAgree ==
  /\ GlobalsAgree
  /\ \A s \in 1..Setups :
       phase[s] = "installing" => \A i \in 1..(at[s] - 1) : globals[Globals[i]] = s

\* One that installs nothing is in no global.
Uninstalled ==
  \A s \in 1..Setups, g \in GlobalNames :
    phase[s] \in {"idle", "building", "failed"} => globals[g] # s

\* What a Setup has built, what a failed one left, what Shutdown has stopped.
Built(s) ==
  /\ phase[s] = "idle" => at[s] = 1 /\ running[s] = {}
  /\ phase[s] = "building" => running[s] \subseteq {Parts[i] : i \in 1..(at[s] - 1)}
  /\ phase[s] = "failed" =>
       running[s] \subseteq (UNION {Behind[p] : p \in hung[s]})
                              \cup IF failedAt[s] = "prometheus" THEN {"reader"} ELSE {}

\* What still runs behind a provider that was stopped has its excuse.
Excused(s) == ended[s] /\ s \in erred

Halted(s) ==
  /\ phase[s] \notin {"stopping", "down"} => stopped[s] = {}
  /\ phase[s] = "stopping" =>
       /\ at[s] \in 1..3
       /\ \A i \in 1..(at[s] - 1) :
            running[s] \cap Behind[ShutdownOrder[i]] # {} => Excused(s)
       /\ stopped[s] = {ShutdownOrder[i] : i \in 1..(at[s] - 1)}
       /\ span[s] = s /\ at[s] = 3 => s \in observed
  /\ phase[s] = "down" =>
       /\ stopped[s] = DOMAIN Behind
       /\ running[s] # {} => Excused(s)
       /\ span[s] = s => s \in observed

SInv ==
  /\ TypeOK /\ InOrder /\ InstallsAgree /\ Uninstalled
  /\ \A s \in 1..Setups : Built(s) /\ Halted(s)

-----------------------------------------------------------------------------
(* The sequences, spelled out *)

LEMMA Names ==
  /\ GlobalNames = {"trace", "metric", "log", "propagator", "slog"}
  /\ Globals[1] = "trace" /\ Globals[2] = "metric" /\ Globals[3] = "log"
  /\ Globals[4] = "propagator" /\ Globals[5] = "slog" /\ Len(Globals) = 5
<1>1. /\ Globals[1] = "trace" /\ Globals[2] = "metric" /\ Globals[3] = "log"
      /\ Globals[4] = "propagator" /\ Globals[5] = "slog" /\ Len(Globals) = 5
  BY DEF Globals
<1>2. 1..Len(Globals) = {1, 2, 3, 4, 5}
  BY <1>1
<1> QED
  BY <1>1, <1>2 DEF GlobalNames

LEMMA PartNames ==
  /\ Parts[1] = "trace" /\ Parts[2] = "reader" /\ Parts[3] = "prometheus"
  /\ Parts[4] = "log" /\ Parts[5] = "propagator" /\ Len(Parts) = 5
BY DEF Parts

LEMMA OrderNames ==
  /\ ShutdownOrder[1] = "log" /\ ShutdownOrder[2] = "metric" /\ ShutdownOrder[3] = "trace"
  /\ Len(ShutdownOrder) = 3
  /\ DOMAIN Behind = {"log", "metric", "trace"}
  /\ Behind["log"] = {"log"} /\ Behind["trace"] = {"trace"}
  /\ Behind["metric"] = {"reader", "prometheus"}
BY DEF ShutdownOrder, Behind

LEMMA SetupInit == Init => SInv
<1> SUFFICES ASSUME Init PROVE SInv
  OBVIOUS
<1>1. TypeOK
  BY TelemetrySetupAssumption, Names, OrderNames DEF Init, TypeOK, Ids
<1>2. InOrder /\ InstallsAgree /\ Uninstalled
  BY DEF Init, InOrder, InstallsAgree, GlobalsAgree, Uninstalled
<1>3. \A s \in 1..Setups : Built(s) /\ Halted(s)
  BY DEF Init, Built, Halted
<1> QED
  BY <1>1, <1>2, <1>3 DEF SInv

-----------------------------------------------------------------------------
(* One Setup moves, the others stay *)

Stays(q) ==
  /\ phase'[q] = phase[q] /\ at'[q] = at[q] /\ failedAt'[q] = failedAt[q]
  /\ running'[q] = running[q] /\ ended'[q] = ended[q] /\ hung'[q] = hung[q]
  /\ span'[q] = span[q] /\ stopped'[q] = stopped[q]
  /\ q \in observed => q \in observed'
  /\ q \in erred => q \in erred'

LEMMA OthersStay ==
  ASSUME NEW q, Built(q), Halted(q), Stays(q)
  PROVE  Built(q)' /\ Halted(q)'
BY DEF Built, Halted, Excused, Stays

\* What one provider's ForceFlush and Shutdown change.
LEMMA Halts ==
  ASSUME TypeOK, NEW s \in 1..Setups, NEW signal \in DOMAIN Behind, Halt(s, signal)
  PROVE  \E left \in SUBSET (running[s] \cap Behind[signal]) :
           /\ running' = [running EXCEPT ![s] = (running[s] \ Behind[signal]) \cup left]
           /\ erred' \in {erred, erred \cup {s}}
           /\ left # {} => ended[s] /\ erred' = erred \cup {s}
           /\ stopped' = [stopped EXCEPT ![s] = stopped[s] \cup {signal}]
<1>1. Left(s, {signal}) = SUBSET (running[s] \cap Behind[signal])
  <2>1. {Behind[p] : p \in {signal}} = {Behind[signal]}
    OBVIOUS
  <2>2. UNION {Behind[signal]} = Behind[signal]
    OBVIOUS
  <2> QED
    BY <2>1, <2>2 DEF Left
<1>2. PICK left \in (IF ended[s] THEN Left(s, {signal}) ELSE {{}}) :
        /\ running' = [running EXCEPT ![s] = (running[s] \ Behind[signal]) \cup left]
        /\ erred' \in {erred \cup {s}} \cup IF left = {} THEN {erred} ELSE {}
  BY DEF Halt
<1>3. left \in SUBSET (running[s] \cap Behind[signal]) /\ (left # {} => ended[s])
  BY <1>1, <1>2
<1>4. erred' \in {erred, erred \cup {s}} /\ (left # {} => erred' = erred \cup {s})
  BY <1>2
<1>5. stopped' = [stopped EXCEPT ![s] = stopped[s] \cup {signal}]
  BY DEF Halt
<1> QED
  BY <1>2, <1>3, <1>4, <1>5

\* Every step is one Setup's.
LEMMA OneMoves ==
  ASSUME TypeOK, NEW s \in 1..Setups, phase[s] = "stopping" => at[s] \in 1..3,
         \/ Call(s) \/ Build(s) \/ BuildFails(s) \/ Install(s) \/ Shutdown(s) \/ Stop(s) \/ CtxEnds(s)
  PROVE  \A q \in (1..Setups) \ {s} : Stays(q)
<1> USE DEF TypeOK, Stays
<1>1. CASE Call(s)
  BY <1>1 DEF Call, building, stopping
<1>2. CASE Build(s)
  <2>1. \E R : running' = [running EXCEPT ![s] = R]
    BY <1>2 DEF Build
  <2>2. \E p : phase' = [phase EXCEPT ![s] = p] \/ UNCHANGED phase
    BY <1>2 DEF Build
  <2>3. \E n : at' = [at EXCEPT ![s] = n]
    BY <1>2 DEF Build
  <2>4. UNCHANGED <<ended, hung, failedAt, span, stopped, observed, erred>>
    BY <1>2 DEF Build, stopping
  <2> QED
    BY <2>1, <2>2, <2>3, <2>4
<1>3. CASE BuildFails(s)
  <2>1. \E R : running' = [running EXCEPT ![s] = R]
    BY <1>3 DEF BuildFails
  <2>2. \E h : hung' = [hung EXCEPT ![s] = h]
    BY <1>3 DEF BuildFails
  <2>3. /\ UNCHANGED <<at, ended, span, stopped, observed, erred>>
        /\ \A q \in (1..Setups) \ {s} : phase'[q] = phase[q] /\ failedAt'[q] = failedAt[q]
    BY <1>3 DEF BuildFails, stopping
  <2> QED
    BY <2>1, <2>2, <2>3
<1>4. CASE Install(s)
  BY <1>4 DEF Install, building, stopping
<1>5. CASE Shutdown(s)
  BY <1>5 DEF Shutdown, building
<1>6. CASE Stop(s)
  <2>1. ShutdownOrder[at[s]] \in DOMAIN Behind
    BY <1>6, OrderNames DEF Stop
  <2> DEFINE signal == ShutdownOrder[at[s]]
  <2>h. Halt(s, signal)
    BY <1>6 DEF Stop
  <2> HIDE DEF signal
  <2>2. PICK left \in SUBSET (running[s] \cap Behind[signal]) :
          /\ running' = [running EXCEPT ![s] = (running[s] \ Behind[signal]) \cup left]
          /\ erred' \in {erred, erred \cup {s}}
          /\ left # {} => ended[s] /\ erred' = erred \cup {s}
          /\ stopped' = [stopped EXCEPT ![s] = stopped[s] \cup {signal}]
    <3>1. signal \in DOMAIN Behind
      BY <2>1 DEF signal
    <3> QED
      BY <2>h, <3>1, Halts
  <2>3. /\ UNCHANGED <<ended, hung, failedAt, span>> /\ observed' \in {observed, observed \cup {s}}
        /\ \A q \in (1..Setups) \ {s} : phase'[q] = phase[q] /\ at'[q] = at[q]
    BY <1>6 DEF Stop, EndSpan, building
  <2> QED
    BY <2>2, <2>3
<1>7. CASE CtxEnds(s)
  BY <1>7 DEF CtxEnds, building, stopping
<1> QED
  BY <1>1, <1>2, <1>3, <1>4, <1>5, <1>6, <1>7

LEMMA Rest ==
  ASSUME SInv, NEW s \in 1..Setups,
         \/ Call(s) \/ Build(s) \/ BuildFails(s) \/ Install(s) \/ Shutdown(s) \/ Stop(s) \/ CtxEnds(s),
         TypeOK', InOrder', InstallsAgree', Uninstalled', Built(s)', Halted(s)'
  PROVE  SInv'
<1>1. phase[s] = "stopping" => at[s] \in 1..3
  BY DEF SInv, Halted
<1> QED
  BY <1>1, OneMoves, OthersStay DEF SInv

-----------------------------------------------------------------------------
(* Setup *)

LEMMA CallKeeps ==
  ASSUME SInv, NEW s \in 1..Setups, Call(s)
  PROVE  SInv'
<1> USE DEF SInv
<1>1. /\ phase[s] = "idle" /\ phase' = [phase EXCEPT ![s] = "building"]
      /\ \A q \in 1..(s - 1) : phase[q] \notin {"idle", "building", "installing"}
      /\ UNCHANGED <<at, running, ended, hung, building, globals, stopping>>
  BY DEF Call
<1>2. TypeOK'
  BY <1>1 DEF TypeOK, building, stopping
<1>3. InOrder'
  <2>1. \A q \in 1..Setups : q < s => phase[q] \notin {"idle", "building", "installing"}
    BY <1>1, TelemetrySetupAssumption
  <2>2. \A q \in 1..Setups : s < q => phase[q] = "idle"
    BY <1>1 DEF InOrder
  <2> QED
    BY <1>1, <2>1, <2>2, TelemetrySetupAssumption DEF InOrder, TypeOK
<1>4. InstallsAgree'
  BY <1>1 DEF InstallsAgree, GlobalsAgree, TypeOK
<1>5. Uninstalled'
  BY <1>1 DEF Uninstalled, TypeOK
<1>6. Built(s)' /\ Halted(s)'
  BY <1>1 DEF TypeOK, building, stopping, Built, Halted, Excused
<1> QED
  BY <1>2, <1>3, <1>4, <1>5, <1>6, Rest

\* A Setup that builds or installs is alone.
LEMMA Alone ==
  ASSUME InOrder, NEW s \in 1..Setups, phase[s] \in {"building", "installing"},
         NEW q \in 1..Setups, q # s
  PROVE  phase[q] \notin {"building", "installing"}
<1>1. s < q \/ q < s
  OBVIOUS
<1>2. CASE s < q
  BY <1>2 DEF InOrder
<1>3. CASE q < s
  BY <1>3 DEF InOrder
<1> QED
  BY <1>1, <1>2, <1>3

\* Once a Setup is past "building", later ones may begin.
LEMMA OrderKeeps ==
  ASSUME TypeOK, InOrder, NEW s \in 1..Setups, phase[s] # "idle",
         NEW p, p # "idle", phase' = [phase EXCEPT ![s] = p],
         p \in {"building", "installing"} => phase[s] \in {"building", "installing"}
  PROVE  InOrder'
<1>1. \A q \in 1..Setups : phase'[q] = IF q = s THEN p ELSE phase[q]
  BY DEF TypeOK
<1> QED
  BY <1>1 DEF InOrder

LEMMA BuildKeeps ==
  ASSUME SInv, NEW s \in 1..Setups, Build(s)
  PROVE  SInv'
<1> USE DEF SInv
<1>1. /\ phase[s] = "building" /\ at[s] \in 1..5
      /\ UNCHANGED <<ended, hung, failedAt, globals, stopping>>
  BY DEF Build, TypeOK
<1>2. PICK new \in SUBSET {Parts[at[s]]} :
        /\ new \subseteq Runners
        /\ running' = [running EXCEPT ![s] = running[s] \cup new]
        /\ registered' \in {registered, registered \cup {s}}
  <2>1. PICK on \in BOOLEAN :
          /\ Parts[at[s]] = "propagator" => ~on
          /\ running' = [running EXCEPT ![s] =
                           running[s] \cup IF on THEN {Parts[at[s]]} ELSE {}]
          /\ registered' = registered \cup
               IF on /\ Parts[at[s]] = "prometheus" THEN {s} ELSE {}
    BY DEF Build
  <2>2. Parts[at[s]] \in Runners \cup {"propagator"}
    BY <1>1, PartNames DEF Runners
  <2>3. CASE on
    BY <2>1, <2>2, <2>3
  <2>4. CASE ~on
    <3>1. running' = [running EXCEPT ![s] = running[s] \cup {}] /\ registered' = registered
      BY <2>1, <2>4
    <3> WITNESS {} \in SUBSET {Parts[at[s]]}
    <3> QED
      BY <3>1
  <2> QED
    BY <2>3, <2>4
<1>3. \/ /\ at[s] < 5 /\ at' = [at EXCEPT ![s] = at[s] + 1] /\ UNCHANGED phase
      \/ at' = [at EXCEPT ![s] = 1] /\ phase' = [phase EXCEPT ![s] = "installing"]
  BY PartNames DEF Build
<1>4. TypeOK'
  BY <1>1, <1>2, <1>3 DEF TypeOK, stopping
<1>5. InOrder'
  BY <1>1, <1>3, OrderKeeps DEF InOrder
<1>6. InstallsAgree'
  <2>1. \A q \in 1..Setups : phase[q] # "installing"
    BY <1>1, Alone
  <2>2. GlobalsAgree' /\ \A q \in 1..Setups : phase'[q] = "installing" => q = s /\ at'[q] = 1
    BY <1>1, <1>3, <2>1 DEF InstallsAgree, GlobalsAgree, TypeOK
  <2> QED
    BY <2>2 DEF InstallsAgree
<1>7. Uninstalled'
  BY <1>1, <1>3 DEF Uninstalled, TypeOK
<1>8. Built(s)'
  <2>1. CASE UNCHANGED phase /\ at'[s] = at[s] + 1 /\ at[s] < 5
    <3>1. running[s] \subseteq {Parts[i] : i \in 1..(at[s] - 1)}
      BY <1>1 DEF Built
    <3>2. at[s] \in 1..(at'[s] - 1) /\ 1..(at[s] - 1) \subseteq 1..(at'[s] - 1)
      BY <1>1, <2>1
    <3>3. running'[s] = running[s] \cup new
      BY <1>2 DEF TypeOK
    <3>4. running'[s] \subseteq {Parts[i] : i \in 1..(at'[s] - 1)}
      BY <3>1, <3>2, <3>3
    <3> QED
      BY <1>1, <2>1, <3>4 DEF Built
  <2>2. CASE phase'[s] = "installing"
    BY <2>2 DEF Built
  <2> QED
    BY <1>3, <2>1, <2>2 DEF TypeOK
<1>9. Halted(s)'
  BY <1>1, <1>3 DEF Halted, TypeOK, stopping
<1> QED
  BY <1>4, <1>5, <1>6, <1>7, <1>8, <1>9, Rest

LEMMA FailKeeps ==
  ASSUME SInv, NEW s \in 1..Setups, BuildFails(s)
  PROVE  SInv'
<1> USE DEF SInv
<1>1. /\ phase[s] = "building" /\ at[s] \in 1..5
      /\ phase' = [phase EXCEPT ![s] = "failed"]
      /\ failedAt' = [failedAt EXCEPT ![s] = Parts[at[s]]]
      /\ UNCHANGED <<at, ended, registered, globals, stopping>>
  BY DEF BuildFails, TypeOK
<1> DEFINE unwound == Unwind(Parts[at[s]])
<1>u. unwound \in SUBSET DOMAIN Behind
  BY <1>1, PartNames, OrderNames DEF Unwind
<1>p. PICK slow \in SUBSET unwound : \E left \in Left(s, unwound \cap slow) :
        /\ hung' = [hung EXCEPT ![s] = slow]
        /\ running' = [running EXCEPT
                        ![s] = (running[s] \ UNION {Behind[p] : p \in unwound}) \cup left]
  BY DEF BuildFails, Quietly
<1>q. PICK left \in Left(s, unwound \cap slow) :
        running' = [running EXCEPT
                     ![s] = (running[s] \ UNION {Behind[p] : p \in unwound}) \cup left]
  BY <1>p
<1>l. left \subseteq running[s] /\ left \subseteq UNION {Behind[p] : p \in slow}
  BY <1>q DEF Left
<1>2. TypeOK'
  <2>1. Parts[at[s]] \in Runners \cup {"none", "propagator"}
    BY <1>1, PartNames DEF Runners
  <2>2. running' \in [1..Setups -> SUBSET Runners] /\ hung' \in [1..Setups -> SUBSET DOMAIN Behind]
    BY <1>p, <1>q, <1>l, <1>u DEF TypeOK
  <2> QED
    BY <1>1, <2>1, <2>2 DEF TypeOK, stopping
<1>3. InOrder'
  BY <1>1, OrderKeeps
<1>4. InstallsAgree'
  <2>1. \A q \in 1..Setups : phase[q] # "installing"
    BY <1>1, Alone
  <2> QED
    BY <1>1, <2>1 DEF InstallsAgree, GlobalsAgree, TypeOK
<1>5. Uninstalled'
  BY <1>1 DEF Uninstalled, TypeOK
<1>6. Built(s)'
  <2>1. running[s] \subseteq {Parts[i] : i \in 1..(at[s] - 1)} /\ running[s] \subseteq Runners
    BY <1>1 DEF Built, TypeOK
  <2>2. /\ failedAt'[s] = Parts[at[s]] /\ hung'[s] = slow /\ phase'[s] = "failed"
        /\ running'[s] = (running[s] \ UNION {Behind[p] : p \in unwound}) \cup left
    BY <1>1, <1>p, <1>q DEF TypeOK
  <2>a. (running[s] \ UNION {Behind[p] : p \in unwound})
          \subseteq IF Parts[at[s]] = "prometheus" THEN {"reader"} ELSE {}
    <3>3. CASE at[s] = 1
      <4>1. 1..(at[s] - 1) = {}
        BY <3>3
      <4> QED
        BY <2>1, <4>1
    <3>4. CASE at[s] = 2
      <4>1. running[s] \subseteq {"trace"}
        <5>1. 1..(at[s] - 1) = {1}
          BY <3>4
        <5> QED
          BY <2>1, <5>1, PartNames
      <4>2. "trace" \in unwound
        BY <3>4, PartNames DEF Unwind
      <4> QED
        BY <4>1, <4>2, OrderNames
    <3>5. CASE at[s] = 3
      <4>1. running[s] \subseteq {"trace", "reader"}
        <5>1. 1..(at[s] - 1) = {1, 2}
          BY <3>5
        <5> QED
          BY <2>1, <5>1, PartNames
      <4>2. "trace" \in unwound /\ Parts[at[s]] = "prometheus"
        BY <3>5, PartNames DEF Unwind
      <4> QED
        BY <4>1, <4>2, OrderNames
    <3>6. CASE at[s] = 4
      <4>1. running[s] \subseteq {"trace", "reader", "prometheus"}
        <5>1. 1..(at[s] - 1) = {1, 2, 3}
          BY <3>6
        <5> QED
          BY <2>1, <5>1, PartNames
      <4>2. "trace" \in unwound /\ "metric" \in unwound
        BY <3>6, PartNames DEF Unwind
      <4> QED
        BY <4>1, <4>2, OrderNames
    <3>7. CASE at[s] = 5
      <4>1. "trace" \in unwound /\ "metric" \in unwound /\ "log" \in unwound
        BY <3>7, PartNames DEF Unwind
      <4> QED
        BY <2>1, <4>1, OrderNames DEF Runners
    <3> QED
      BY <1>1, <3>3, <3>4, <3>5, <3>6, <3>7
  <2>b. running'[s] \subseteq (UNION {Behind[p] : p \in hung'[s]})
                               \cup IF failedAt'[s] = "prometheus" THEN {"reader"} ELSE {}
    <3>1. left \subseteq UNION {Behind[p] : p \in hung'[s]}
      BY <1>l, <2>2
    <3> QED
      BY <2>2, <2>a, <3>1
  <2> QED
    BY <2>2, <2>b DEF Built
<1>7. Halted(s)'
  BY <1>1 DEF Halted, TypeOK, stopping
<1> QED
  BY <1>2, <1>3, <1>4, <1>5, <1>6, <1>7, Rest

LEMMA InstallKeeps ==
  ASSUME SInv, NEW s \in 1..Setups, Install(s)
  PROVE  SInv'
<1> USE DEF SInv
<1>1. /\ phase[s] = "installing" /\ at[s] \in 1..5
      /\ globals' = [globals EXCEPT ![Globals[at[s]]] = s]
      /\ \/ at[s] < 5 /\ at' = [at EXCEPT ![s] = at[s] + 1] /\ UNCHANGED phase
         \/ at[s] = 5 /\ UNCHANGED at /\ phase' = [phase EXCEPT ![s] = "up"]
      /\ UNCHANGED <<running, ended, hung, building, stopping>>
  BY Names DEF Install, TypeOK
<1>2. Globals[at[s]] \in GlobalNames
  BY <1>1, Names
<1>3. \A g \in GlobalNames : globals'[g] = IF g = Globals[at[s]] THEN s ELSE globals[g]
  BY <1>1 DEF TypeOK
<1>4. TypeOK'
  <2>1. s \in Ids
    BY TelemetrySetupAssumption DEF Ids
  <2>2. globals' \in [GlobalNames -> Ids]
    BY <1>1, <1>2, <2>1 DEF TypeOK
  <2> QED
    BY <1>1, <2>2 DEF TypeOK, building, stopping
<1>5. InOrder'
  BY <1>1, OrderKeeps DEF InOrder
<1>6. \A i \in 1..at[s] : globals'[Globals[i]] = s
  <2> SUFFICES ASSUME NEW i \in 1..at[s] PROVE globals'[Globals[i]] = s
    OBVIOUS
  <2>1. Globals[i] \in GlobalNames
    BY <1>1, Names
  <2>2. CASE i = at[s]
    BY <1>3, <2>1, <2>2
  <2>3. CASE i # at[s]
    <3>1. i \in 1..(at[s] - 1)
      BY <1>1, <2>3
    <3>2. globals[Globals[i]] = s
      BY <1>1, <3>1 DEF InstallsAgree
    <3> QED
      BY <1>3, <2>1, <3>2
  <2> QED
    BY <2>2, <2>3
<1>7. \A q \in 1..Setups : q # s => phase[q] # "installing"
  BY <1>1, Alone
<1>8. InstallsAgree'
  <2>1. CASE at[s] < 5 /\ at' = [at EXCEPT ![s] = at[s] + 1] /\ UNCHANGED phase
    <3>1. 1..(at'[s] - 1) = 1..at[s]
      BY <1>1, <2>1 DEF TypeOK
    <3> QED
      BY <1>1, <1>6, <1>7, <2>1, <3>1 DEF InstallsAgree, GlobalsAgree
  <2>2. CASE at[s] = 5 /\ phase' = [phase EXCEPT ![s] = "up"]
    <3>1. \A g \in GlobalNames : globals'[g] = s
      <4>1. 1 \in 1..at[s] /\ 2 \in 1..at[s] /\ 3 \in 1..at[s] /\ 4 \in 1..at[s] /\ 5 \in 1..at[s]
        BY <2>2
      <4> QED
        BY <1>6, <4>1, Names
    <3>2. \A q \in 1..Setups : phase'[q] # "installing"
      BY <1>7, <2>2 DEF TypeOK
    <3> QED
      BY <3>1, <3>2 DEF InstallsAgree, GlobalsAgree
  <2> QED
    BY <1>1, <2>1, <2>2
<1>9. Uninstalled'
  BY <1>1, <1>3 DEF Uninstalled, TypeOK
<1>10. Built(s)' /\ Halted(s)'
  <2>1. phase'[s] \in {"installing", "up"} /\ stopped'[s] = stopped[s]
    BY <1>1 DEF TypeOK, stopping
  <2>2. stopped[s] = {}
    BY <1>1 DEF Halted
  <2> QED
    BY <2>1, <2>2 DEF Built, Halted
<1> QED
  BY <1>4, <1>5, <1>8, <1>9, <1>10, Rest

-----------------------------------------------------------------------------
(* Shutdown *)

LEMMA ShutdownKeeps ==
  ASSUME SInv, NEW s \in 1..Setups, Shutdown(s)
  PROVE  SInv'
<1> USE DEF SInv
<1>1. /\ phase[s] = "up" /\ phase' = [phase EXCEPT ![s] = "stopping"]
      /\ at' = [at EXCEPT ![s] = 1] /\ span' = [span EXCEPT ![s] = globals["trace"]]
      /\ UNCHANGED <<running, hung, building, globals, observed, stopped, erred>>
  BY DEF Shutdown
<1>e. ended' \in [1..Setups -> BOOLEAN]
  BY DEF Shutdown, TypeOK
<1>2. TypeOK'
  BY <1>1, <1>e, Names DEF TypeOK, building
<1>3. InOrder'
  BY <1>1, OrderKeeps
<1>4. InstallsAgree'
  BY <1>1 DEF InstallsAgree, GlobalsAgree, TypeOK
<1>5. Uninstalled'
  BY <1>1 DEF Uninstalled, TypeOK
<1>6. Built(s)'
  BY <1>1 DEF Built, TypeOK
<1>7. Halted(s)'
  <2>1. at'[s] = 1 /\ phase'[s] = "stopping" /\ stopped'[s] = {} /\ 1..(at'[s] - 1) = {}
    BY <1>1 DEF TypeOK, Halted
  <2> QED
    BY <2>1 DEF Halted
<1> QED
  BY <1>2, <1>3, <1>4, <1>5, <1>6, <1>7, Rest

LEMMA StopKeeps ==
  ASSUME SInv, NEW s \in 1..Setups, Stop(s)
  PROVE  SInv'
<1> USE DEF SInv
<1>1. /\ phase[s] = "stopping" /\ at[s] \in 1..3
      /\ Halt(s, ShutdownOrder[at[s]]) /\ EndSpan(s)
      /\ \/ at[s] < 3 /\ at' = [at EXCEPT ![s] = at[s] + 1] /\ UNCHANGED phase
         \/ at[s] = 3 /\ UNCHANGED at /\ phase' = [phase EXCEPT ![s] = "down"]
      /\ UNCHANGED <<ended, hung, building, globals, span>>
  BY OrderNames DEF Stop, Halted
<1>2. ShutdownOrder[at[s]] \in DOMAIN Behind
  BY <1>1, OrderNames
<1> DEFINE signal == ShutdownOrder[at[s]]
<1>3. PICK left \in SUBSET (running[s] \cap Behind[signal]) :
        /\ running' = [running EXCEPT ![s] = (running[s] \ Behind[signal]) \cup left]
        /\ erred' \in {erred, erred \cup {s}}
        /\ left # {} => ended[s] /\ erred' = erred \cup {s}
        /\ stopped' = [stopped EXCEPT ![s] = stopped[s] \cup {signal}]
  BY <1>1, <1>2, Halts
<1>o. observed' \in {observed, observed \cup {s}}
  BY <1>1 DEF EndSpan
<1>4. TypeOK'
  <2>1. running' \in [1..Setups -> SUBSET Runners]
    BY <1>3 DEF TypeOK
  <2>2. stopped' \in [1..Setups -> SUBSET DOMAIN Behind]
    BY <1>2, <1>3 DEF TypeOK
  <2>3. erred' \subseteq 1..Setups /\ observed' \subseteq 1..Setups
    BY <1>3, <1>o DEF TypeOK
  <2>4. /\ at' \in [1..Setups -> 1..5]
        /\ phase' \in [1..Setups -> {"idle", "building", "installing", "up",
                                     "stopping", "down", "failed"}]
    BY <1>1 DEF TypeOK
  <2> QED
    BY <1>1, <2>1, <2>2, <2>3, <2>4 DEF TypeOK, building
<1>5. InOrder'
  BY <1>1, OrderKeeps DEF InOrder
<1>6. InstallsAgree' /\ Uninstalled'
  BY <1>1 DEF InstallsAgree, GlobalsAgree, Uninstalled, TypeOK
<1>7. Built(s)'
  BY <1>1 DEF Built, TypeOK
<1>8. /\ running'[s] = (running[s] \ Behind[signal]) \cup left
      /\ stopped'[s] = stopped[s] \cup {signal}
      /\ span'[s] = span[s] /\ ended'[s] = ended[s]
  BY <1>1, <1>3 DEF TypeOK
<1>9. /\ \A i \in 1..at[s] : running'[s] \cap Behind[ShutdownOrder[i]] # {} => Excused(s)'
      /\ stopped'[s] = {ShutdownOrder[i] : i \in 1..at[s]}
  <2>1. 1..at[s] = (1..(at[s] - 1)) \cup {at[s]}
    BY <1>1
  <2>2. \A i \in 1..at[s] : running'[s] \cap Behind[ShutdownOrder[i]] # {} => Excused(s)'
    <3> SUFFICES ASSUME NEW i \in 1..at[s], running'[s] \cap Behind[ShutdownOrder[i]] # {}
                 PROVE  Excused(s)'
      OBVIOUS
    <3>1. CASE left # {}
      BY <1>3, <1>8, <3>1 DEF Excused
    <3>2. CASE left = {}
      <4>1. i # at[s]
        BY <1>8, <3>2
      <4>2. i \in 1..(at[s] - 1) /\ running[s] \cap Behind[ShutdownOrder[i]] # {}
        BY <2>1, <4>1, <1>8, <3>2
      <4>3. Excused(s)
        BY <1>1, <4>2 DEF Halted
      <4> QED
        BY <1>3, <1>8, <4>3 DEF Excused
    <3> QED
      BY <3>1, <3>2
  <2>3. stopped'[s] = {ShutdownOrder[i] : i \in 1..at[s]}
    <3>1. stopped[s] = {ShutdownOrder[i] : i \in 1..(at[s] - 1)}
      BY <1>1 DEF Halted
    <3> QED
      BY <1>8, <2>1, <3>1
  <2> QED
    BY <2>2, <2>3
<1>10. at[s] = 2 /\ span[s] = s => s \in observed'
  <2> SUFFICES ASSUME at[s] = 2, span[s] = s PROVE s \in observed'
    OBVIOUS
  <2>1. 1..(at[s] - 1) = {1}
    OBVIOUS
  <2>2. stopped[s] \subseteq {"log"}
    BY <1>1, <2>1, OrderNames DEF Halted
  <2>3. "trace" \notin stopped[span[s]] /\ span[s] # 0
    BY <2>2
  <2> QED
    BY <1>1, <2>3 DEF EndSpan
<1>11. Halted(s)'
  <2>1. CASE at[s] < 3 /\ at' = [at EXCEPT ![s] = at[s] + 1] /\ UNCHANGED phase
    <3>1. at'[s] \in 1..3 /\ 1..(at'[s] - 1) = 1..at[s] /\ (at'[s] = 3 => at[s] = 2)
      BY <1>1, <2>1 DEF TypeOK
    <3> QED
      BY <1>1, <1>8, <1>9, <1>10, <2>1, <3>1 DEF Halted
  <2>2. CASE at[s] = 3 /\ phase' = [phase EXCEPT ![s] = "down"]
    <3>1. 1 \in 1..at[s] /\ 2 \in 1..at[s] /\ 3 \in 1..at[s]
      BY <2>2
    <3>2. running'[s] # {} => Excused(s)'
      <4> SUFFICES ASSUME NEW x \in running'[s] PROVE Excused(s)'
        OBVIOUS
      <4>1. x \in {"log"} \/ x \in {"trace"} \/ x \in {"reader", "prometheus"}
        BY <1>4 DEF TypeOK, Runners
      <4>2. PICK i \in 1..at[s] : x \in Behind[ShutdownOrder[i]]
        BY <3>1, <4>1, OrderNames
      <4> QED
        BY <1>9, <4>2
    <3>3. stopped'[s] = DOMAIN Behind
      <4>1. 1..at[s] = {1, 2, 3}
        BY <2>2
      <4> QED
        BY <1>9, <4>1, OrderNames
    <3>4. span[s] = s => s \in observed'
      BY <1>1, <1>o, <2>2 DEF Halted
    <3>5. phase'[s] = "down"
      BY <2>2 DEF TypeOK
    <3> QED
      BY <1>8, <3>2, <3>3, <3>4, <3>5 DEF Halted
  <2> QED
    BY <1>1, <2>1, <2>2
<1> QED
  BY <1>4, <1>5, <1>6, <1>7, <1>11, Rest

\* The end of a context only gives more excuses.
LEMMA CtxKeeps ==
  ASSUME SInv, NEW s \in 1..Setups, CtxEnds(s)
  PROVE  SInv'
<1> USE DEF SInv
<1>1. /\ ended' = [ended EXCEPT ![s] = TRUE]
      /\ UNCHANGED <<phase, at, running, hung, building, globals, stopping>>
  BY DEF CtxEnds
<1>2. TypeOK'
  BY <1>1 DEF TypeOK, building, stopping
<1>3. InOrder' /\ InstallsAgree' /\ Uninstalled'
  BY <1>1 DEF InOrder, InstallsAgree, GlobalsAgree, Uninstalled
<1>4. ended'[s]
  BY <1>1 DEF TypeOK
<1>5. Built(s)' /\ Halted(s)'
  BY <1>1, <1>4 DEF Built, Halted, Excused, building, stopping
<1> QED
  BY <1>2, <1>3, <1>5, Rest

LEMMA SetupNext == SInv /\ [Next]_vars => SInv'
<1> SUFFICES ASSUME SInv, [Next]_vars PROVE SInv'
  OBVIOUS
<1>1. CASE UNCHANGED vars
  BY <1>1 DEF vars, SInv, TypeOK, InOrder, InstallsAgree, GlobalsAgree, Uninstalled,
     Built, Halted, Excused, building, stopping
<1> QED
  BY <1>1, CallKeeps, BuildKeeps, FailKeeps, InstallKeeps, ShutdownKeeps, StopKeeps, CtxKeeps
     DEF Next, Terminated

LEMMA SetupInvariant == Spec => []SInv
BY SetupInit, SetupNext, PTL DEF Spec

-----------------------------------------------------------------------------

\* A Setup that failed, at whichever part and in whatever context, left nothing
\* installed, and nothing running but what outlasted the timeout of its own and
\* the reader newMeterProvider drops (Setup, "All three or none").
THEOREM FailuresAreUnwound == Spec => []PartialSetupUnwound
<1>1. SInv => PartialSetupUnwound
  BY DEF SInv, Built, Uninstalled, PartialSetupUnwound
<1> QED
  BY <1>1, SetupInvariant, PTL

\* Between installations all globals are one Setup's, however many Setups have
\* been made, have failed or are stopping (Setup, Telemetry.install).
THEOREM GlobalsAreOfOne == Spec => []GlobalsAgree
<1>1. SInv => GlobalsAgree
  BY DEF SInv, InstallsAgree
<1> QED
  BY <1>1, SetupInvariant, PTL

\* Shutdown comes to every provider, whichever of them fail, and where something
\* keeps running its context ended first and an error says so (Shutdown).
THEOREM ShutdownIsComplete == Spec => []ShutdownStopsAll
<1>1. SInv => ShutdownStopsAll
  BY DEF SInv, Halted, Excused, ShutdownStopsAll
<1> QED
  BY <1>1, SetupInvariant, PTL

\* A Shutdown whose own tracers are the globals is recorded by them (Shutdown,
\* "ends before its own provider is stopped").
THEOREM ShutdownsAreObserved == Spec => []ShutdownIsObserved
<1>1. SInv => ShutdownIsObserved
  BY DEF SInv, Halted, ShutdownIsObserved
<1> QED
  BY <1>1, SetupInvariant, PTL
=============================================================================

-------------------------------- MODULE Harness --------------------------------
(***************************************************************************)
(* Package serve/servetest: the assertions of a Harness and its            *)
(* SpanRecorder, over the requests of a server under test (Requests).      *)
(*                                                                         *)
(* An assertion resets the recorder, sends its request and counts the      *)
(* spans that end, while other goroutines of the test send requests of     *)
(* their own.  Its windows are long: it waits for a span, and for a second *)
(* one, until its request has left the server.                             *)
(***************************************************************************)
EXTENDS Requests

CONSTANTS NoReq

ASSUME HarnessAssumption == NoReq \notin Reqs

VARIABLES
  ended,   \* the recorder: the request of each span that has ended
  test,    \* where the assertion is
  once,    \* AssertTracedOnce, or else AssertOpsPathsNotTraced
  target,  \* the request it sends
  alone,   \* history: whether no other request was under way meanwhile
  verdict  \* what it reported

harness == <<test, once, target, alone, verdict>>
allVars == <<requestVars, ended, harness>>

HarnessTypeOK ==
  /\ RequestsTypeOK
  /\ ended \in Seq(Reqs)
  /\ test \in {"idle", "reset", "get", "eventually", "never", "done"}
  /\ once \in BOOLEAN /\ alone \in BOOLEAN
  /\ target \in Reqs \cup {NoReq}
  /\ verdict \in {"none", "pass", "fail"}

HarnessInit ==
  /\ RequestsInit
  /\ ended = <<>> /\ test = "idle" /\ once \in BOOLEAN
  /\ target = NoReq /\ alone = TRUE /\ verdict = "none"

UnderWay == {r \in Reqs : way[r] \in {"in", "out"}}

-----------------------------------------------------------------------------
(* The server's steps, and the spans it ends *)

\* mutant: a recording span that is left is not ended.
RecordDropped(r) == UNCHANGED ended

\* End records a span once, into whatever the recorder holds now.
Record(r) == IF Spans(r) THEN ended' = Append(ended, r) ELSE UNCHANGED ended

ServerStep(r) ==
  \/ Leave(r) /\ Record(r) /\ UNCHANGED harness
  \/ (Enter(r) \/ TurnBack(r)) /\ UNCHANGED <<ended, harness>>
  \/ r = target /\ Answer(r) /\ UNCHANGED <<ended, harness>>

\* Another goroutine of the test.
SendOther(r) ==
  /\ r # target
  /\ \E path \in Paths, to \in {"app", "ops"} : Send(r, path, to)
  /\ alone' = (alone /\ test \notin {"reset", "get", "eventually", "never"})
  /\ UNCHANGED <<ended, test, once, target, verdict>>

-----------------------------------------------------------------------------
(* AssertTracedOnce and AssertOpsPathsNotTraced *)

Reset == ended' = <<>>

\* The operational paths are fixed, and asked for at the application's address.
Begin(r) ==
  /\ test = "idle" /\ built = "ok" /\ way[r] = "unsent"
  /\ target' = r /\ alone' = (UnderWay = {})
  /\ Reset
  /\ test' = "reset"
  /\ UNCHANGED <<requestVars, once, verdict>>

Get ==
  /\ test = "reset"
  /\ \E path \in Paths : (once \/ path # "app") /\ Send(target, path, "app")
  /\ test' = "get"
  /\ UNCHANGED <<ended, once, target, alone, verdict>>

Got ==
  /\ test = "get" /\ answered[target]
  /\ test' = IF once THEN "eventually" ELSE "never"
  /\ UNCHANGED <<requestVars, ended, once, target, alone, verdict>>

Reports(v) ==
  /\ test' = "done" /\ verdict' = v
  /\ UNCHANGED <<requestVars, ended, once, target, alone>>

\* One span at least, within the bound.
Eventually ==
  /\ test = "eventually"
  /\ \/ /\ ended # <<>> /\ test' = "never"
        /\ UNCHANGED <<requestVars, ended, once, target, alone, verdict>>
     \/ ended = <<>> /\ way[target] = "over" /\ Reports("fail")

Limit == IF once THEN 1 ELSE 0

\* No more than that, for as long as the window lasts; a probe that fails is
\* reported, too.
Never ==
  /\ test = "never"
  /\ \/ Len(ended) > Limit /\ Reports("fail")
     \/ /\ Len(ended) <= Limit /\ way[target] = "over"
        /\ Reports(IF Status(target) < 500 THEN "pass" ELSE "fail")

-----------------------------------------------------------------------------
\* The end of the test stops the server; a test may also end without one of
\* these assertions, or New may refuse the options.
TestOver ==
  /\ \/ test = "done" \/ built \notin {"none", "ok"}
     \/ test = "idle" /\ \A r \in Reqs : way[r] = "over"
  /\ UNCHANGED allVars

Running ==
  \/ New /\ UNCHANGED <<ended, harness>>
  \/ \E c \in Checks : HealthChanges(c) /\ UNCHANGED <<ended, harness>>
  \/ \E r \in Reqs : ServerStep(r) \/ SendOther(r) \/ Begin(r)
  \/ Get \/ Got \/ Eventually \/ Never

HarnessNext == (test # "done" /\ Running) \/ TestOver

HarnessSpec == HarnessInit /\ [][HarnessNext]_allVars

-----------------------------------------------------------------------------
(* Properties *)

Correct ==
  verdict = "pass" <=> total[target] = Limit /\ Status(target) = 200

\* An assertion made while no other request is under way is right: it passes
\* exactly if its request left as many spans as it should, and no probe failed;
\* spans of requests before it are not counted, and a span that ends after the
\* response is (Reset, "which is what lets them assert an exact number").
VerdictIsRight == test = "done" /\ alone => Correct

\* What Reset says: the assertions "call it immediately before the request they
\* are about to count, which is what lets them assert an exact number rather
\* than a difference" (recorder.go:80).  A span of an earlier request may end
\* after its response, and after the reset.
CountIsExact == test = "done" => Correct
=============================================================================

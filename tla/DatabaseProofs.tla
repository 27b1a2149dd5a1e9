---------------------------- MODULE DatabaseProofs -----------------------------
(***************************************************************************)
(* What Tx answers is true for every number of calls and every size of the *)
(* pools, and stays so when the pools open and close around the calls: the *)
(* calls over pools implement the calls of module Tx.                      *)
(***************************************************************************)
EXTENDS Database, TLAPS

\* How far a call is decides what its body and its answer can be.
Stages ==
  \A c \in Calls :
    /\ pc[c] = "begin" => server[c] = "none" /\ own[c] = "none"
    /\ pc[c] \in {"begin", "body"} => body[c] = "none"
    /\ pc[c] = "commit" => body[c] = "nil"
    /\ pc[c] = "rollback" => body[c] \in {"error", "panic"}
    /\ pc[c] # "done" => result[c] = "none"

\* Nobody touches a transaction whose handle is finished.
HandlesFinish ==
  \A c \in Calls :
    /\ server[c] \in {"committed", "deciding"} => txDone[c]
    /\ own[c] # "none" => txDone[c]

IInv == TypeOK /\ Stages /\ HandlesFinish /\ AnswerIsTrue

-----------------------------------------------------------------------------
LEMMA InitInvariant == Init => IInv
<1> SUFFICES ASSUME Init PROVE IInv
  OBVIOUS
<1>1. TypeOK
  BY TxAssumption DEF Init, TypeOK
<1>2. Stages /\ HandlesFinish /\ AnswerIsTrue
  BY DEF Init, Stages, HandlesFinish, AnswerIsTrue, Endings
<1> QED
  BY <1>1, <1>2 DEF IInv

\* One step per action; each disturbs the call it is of alone.
LEMMA CallStep ==
  ASSUME IInv, NEW c \in Calls,
         \/ Step(c) \/ Body(c) \/ BodyFinishes(c) \/ BeginFails(c)
         \/ CtxEnds(c) \/ Watcher(c) \/ ServerEnds(c)
  PROVE  IInv'
<1> USE DEF IInv, TypeOK, Stages, HandlesFinish, AnswerIsTrue, Endings
<1>1. CASE Begin(c)
  <2>1. /\ pc[c] = "begin"
        /\ pc' = [pc EXCEPT ![c] = "body"]
        /\ server' = [server EXCEPT ![c] = "open"]
        /\ UNCHANGED <<driver, ctxDone, txDone, body, own, result>>
    BY <1>1 DEF Begin, Goto
  <2>2. TypeOK'
    BY <2>1
  <2>3. Stages' /\ HandlesFinish'
    BY <2>1
  <2>4. AnswerIsTrue'
    BY <2>1
  <2> QED
    BY <2>2, <2>3, <2>4
<1>2. CASE CommitRefused(c)
  <2>1. Return(c, "commit") /\ pc[c] = "commit" /\ UNCHANGED <<driver, ctxDone, body, own>>
    BY <1>2 DEF CommitRefused
  <2>2. CASE Finish(c, "dropped")
    BY <2>1, <2>2 DEF Finish, Return, Goto
  <2>3. CASE UNCHANGED <<txDone, server>>
    BY <2>1, <2>3 DEF Return, Goto
  <2> QED
    BY <1>2, <2>2, <2>3 DEF CommitRefused
<1>3. CASE Commit(c)
  <2>1. PICK state \in {"committed", "rolledback", "deciding"}, res \in {"nil", "commit"} :
          /\ Finish(c, state) /\ Return(c, res)
          /\ res = "nil" <=> state = "committed"
    BY <1>3 DEF Commit
  <2>2. /\ pc[c] = "commit" /\ ~txDone[c]
        /\ UNCHANGED <<driver, ctxDone, body, own>>
    BY <1>3 DEF Commit
  <2> QED
    BY <2>1, <2>2 DEF Finish, Return, Goto
<1>4. CASE Rollback(c)
  <2>1. PICK state \in {server[c], "rolledback", "dropped"} :
          /\ txDone' = [txDone EXCEPT ![c] = TRUE]
          /\ server' = [server EXCEPT ![c] = state]
    BY <1>4 DEF Rollback, Finish
  <2>2. /\ pc[c] = "rollback" /\ Return(c, body[c])
        /\ UNCHANGED <<driver, ctxDone, body, own>>
    BY <1>4 DEF Rollback
  <2>3. txDone[c] => server' = server
    BY <1>4 DEF Rollback
  <2> QED
    BY <2>1, <2>2, <2>3 DEF Return, Goto
<1>5. ASSUME NEW how \in {"nil", "error", "panic", "goexit"}, BodyEnds(c, how)
      PROVE  IInv'
  <2>1. CASE how = "goexit"
    BY <1>5, <2>1 DEF BodyEnds, Return, Goto
  <2>2. CASE how # "goexit"
    BY <1>5, <2>2 DEF BodyEnds, Return, Goto
  <2> QED
    BY <2>1, <2>2
<1>6. CASE BodyFinishes(c)
  <2>1. PICK how \in {"committed", "rolledback"} :
          Finish(c, how) /\ own' = [own EXCEPT ![c] = how]
    BY <1>6 DEF BodyFinishes
  <2> QED
    BY <1>6, <2>1 DEF BodyFinishes, Finish
<1>7. CASE BeginFails(c)
  BY <1>7 DEF BeginFails, Return, Goto
<1>8. CASE CtxEnds(c)
  BY <1>8 DEF CtxEnds
<1>9. CASE Watcher(c)
  <2>1. PICK state \in {"rolledback", "dropped"} : Finish(c, state)
    BY <1>9 DEF Watcher
  <2> QED
    BY <1>9, <2>1 DEF Watcher, InUse, Finish
<1>10. CASE ServerEnds(c)
  <2>1. PICK state \in {"rolledback", "committed"} :
          /\ state = "committed" => server[c] = "deciding"
          /\ server' = [server EXCEPT ![c] = state]
    BY <1>10 DEF ServerEnds
  <2> QED
    BY <1>10, <2>1 DEF ServerEnds
<1> QED
  BY <1>1, <1>2, <1>3, <1>4, <1>5, <1>6, <1>7, <1>8, <1>9, <1>10 DEF Step, Body

LEMMA NextInvariant == IInv /\ [Next]_vars => IInv'
<1> SUFFICES ASSUME IInv, [Next]_vars PROVE IInv'
  OBVIOUS
<1>1. CASE UNCHANGED vars
  BY <1>1 DEF vars, IInv, TypeOK, Stages, HandlesFinish, AnswerIsTrue
<1>2. CASE \E c \in Calls :
             \/ Step(c) \/ Body(c) \/ BodyFinishes(c) \/ BeginFails(c)
             \/ CtxEnds(c) \/ Watcher(c) \/ ServerEnds(c)
  BY <1>2, CallStep
<1> QED
  BY <1>1, <1>2 DEF Next, Terminated

LEMMA Invariance == Spec => []IInv
<1> QED
  BY InitInvariant, NextInvariant, PTL DEF Spec

\* The variables keep their types.
THEOREM TypeCorrect == Spec => []TypeOK
<1>1. IInv => TypeOK
  BY DEF IInv
<1> QED
  BY <1>1, Invariance, PTL

-----------------------------------------------------------------------------
(* The calls over pools that open and close *)

\* A step of the pools leaves the calls alone, and a step of a call over its
\* pool is a step of Tx.
LEMMA StepsImplement == [DatabaseNext]_allVars => [Next]_vars
<1> SUFFICES ASSUME [DatabaseNext]_allVars PROVE [Next]_vars
  OBVIOUS
<1>1. CASE PoolStep
  BY <1>1 DEF PoolStep, OpenSql, OpenPgx, CleanupSql, CleanupPgx, CleanupReturns, Becomes
<1>2. CASE \E c \in Calls : NeedsPool(c) \/ Goes(c)
  BY <1>2 DEF NeedsPool, Goes, BeginRefused, Next, Step
<1>3. CASE AllTerminated \/ UNCHANGED allVars
  BY <1>3 DEF AllTerminated, allVars
<1> QED
  BY <1>1, <1>2, <1>3 DEF DatabaseNext

\* The calls behave as those of module Tx, whenever the pools open, refuse and
\* close (Open, Set).
THEOREM ImplementsTx == DatabaseSpec => Spec
<1>1. DatabaseInit => Init
  BY DEF DatabaseInit
<1> QED
  BY <1>1, StepsImplement, PTL DEF DatabaseSpec, Spec

\* Nil means that Tx committed, and a body that failed or panicked gets its
\* own error or panic back and is never committed by Tx, for every number of
\* calls, drivers and connections (Tx).
THEOREM AnswersAreTrue == DatabaseSpec => []AnswerIsTrue
<1>1. IInv => AnswerIsTrue
  BY DEF IInv
<1> QED
  BY <1>1, Invariance, ImplementsTx, PTL
=============================================================================

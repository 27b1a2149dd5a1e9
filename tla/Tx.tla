---------------------------------- MODULE Tx ----------------------------------
(***************************************************************************)
(* Packages database and database/pgxdb: calls of Tx over the *sql.DB of   *)
(* the one and over the *pgxpool.Pool of the other.                        *)
(*                                                                         *)
(* Tx takes a connection, begins, runs the body and commits or rolls back. *)
(* database/sql watches the transaction's context and rolls back by itself *)
(* when it ends; pgx does not, and its rollback gets a context of its own. *)
(* The body may also finish the transaction it was handed.                 *)
(***************************************************************************)
EXTENDS Naturals, FiniteSets

CONSTANTS
  Calls,   \* calls of Tx
  Drivers, \* the drivers a call may use, of "sql" and "pgx"
  Slots    \* connections in each driver's pool

ASSUME TxAssumption == Drivers \subseteq {"sql", "pgx"} /\ Slots \in Nat \ {0}

VARIABLES
  driver,  \* the driver of each call
  pc,      \* where it is
  ctxDone, \* whether the transaction's context has ended
  txDone,  \* whether the handle is finished and its connection given back
  server,  \* the transaction on the server
  body,    \* how the body ended
  own,     \* how the body itself finished the transaction
  result   \* what Tx returned or raised

vars == <<driver, pc, ctxDone, txDone, server, body, own, result>>

Endings == {"nil", "error", "panic", "goexit"}

TypeOK ==
  /\ driver \in [Calls -> {"sql", "pgx"}]
  /\ pc \in [Calls -> {"begin", "body", "commit", "rollback", "done"}]
  /\ ctxDone \in [Calls -> BOOLEAN] /\ txDone \in [Calls -> BOOLEAN]
  /\ server \in [Calls -> {"none", "open", "dropped", "deciding",
                           "committed", "rolledback"}]
  /\ body \in [Calls -> Endings \cup {"none"}]
  /\ own \in [Calls -> {"none", "committed", "rolledback"}]
  /\ result \in [Calls -> Endings \cup {"none", "begin", "commit"}]

Init ==
  /\ driver \in [Calls -> Drivers]
  /\ pc = [c \in Calls |-> "begin"]
  /\ ctxDone = [c \in Calls |-> FALSE] /\ txDone = [c \in Calls |-> FALSE]
  /\ server = [c \in Calls |-> "none"]
  /\ body = [c \in Calls |-> "none"] /\ own = [c \in Calls |-> "none"]
  /\ result = [c \in Calls |-> "none"]

-----------------------------------------------------------------------------
\* The connections in use are those of the unfinished handles.
InUse == {c \in Calls : server[c] # "none" /\ ~txDone[c]}
HasSlot(d) == Cardinality({c \in InUse : driver[c] = d}) < Slots

Goto(c, p) == pc' = [pc EXCEPT ![c] = p]

Return(c, res) ==
  /\ Goto(c, "done")
  /\ result' = [result EXCEPT ![c] = res]

\* The handle is finished and leaves the server's transaction as it is now.
Finish(c, state) ==
  /\ txDone' = [txDone EXCEPT ![c] = TRUE]
  /\ server' = [server EXCEPT ![c] = state]

-----------------------------------------------------------------------------
Begin(c) ==
  /\ pc[c] = "begin" /\ ~ctxDone[c] /\ HasSlot(driver[c])
  /\ server' = [server EXCEPT ![c] = "open"]
  /\ Goto(c, "body")
  /\ UNCHANGED <<driver, ctxDone, txDone, body, own, result>>

\* The context ends in the wait for a connection, or the driver refuses.
BeginFails(c) ==
  /\ pc[c] = "begin"
  /\ Return(c, "begin")
  /\ UNCHANGED <<driver, ctxDone, txDone, server, body, own>>

\* The body calls the handle's own Commit or Rollback.
BodyFinishes(c) ==
  /\ pc[c] = "body" /\ ~txDone[c] /\ ~ctxDone[c]
  /\ \E how \in {"committed", "rolledback"} :
       Finish(c, how) /\ own' = [own EXCEPT ![c] = how]
  /\ UNCHANGED <<driver, pc, ctxDone, body, result>>

\* mutant: no deferred recover.
BodyEndsNoRecover(c, how) ==
  /\ pc[c] = "body"
  /\ body' = [body EXCEPT ![c] = how]
  /\ \/ how = "nil" /\ Goto(c, "commit") /\ UNCHANGED result
     \/ how = "error" /\ Goto(c, "rollback") /\ UNCHANGED result
     \/ how \in {"panic", "goexit"} /\ Return(c, how)
  /\ UNCHANGED <<driver, ctxDone, txDone, server, own>>

\* mutant: one deferred function commits unless the error is set.
BodyEndsCommitDeferred(c, how) ==
  /\ pc[c] = "body"
  /\ body' = [body EXCEPT ![c] = how]
  /\ Goto(c, IF how = "error" THEN "rollback" ELSE "commit")
  /\ UNCHANGED <<driver, ctxDone, txDone, server, own, result>>

\* An error and a panic roll back; runtime.Goexit runs the deferred functions
\* with nothing to recover.
BodyEnds(c, how) ==
  /\ pc[c] = "body"
  /\ body' = [body EXCEPT ![c] = how]
  /\ \/ how = "nil" /\ Goto(c, "commit") /\ UNCHANGED result
     \/ how \in {"error", "panic"} /\ Goto(c, "rollback") /\ UNCHANGED result
     \/ how = "goexit" /\ Return(c, "goexit")
  /\ UNCHANGED <<driver, ctxDone, txDone, server, own>>

\* Nothing is sent: the handle is finished or the context has ended.  pgx
\* closes the connection then, database/sql leaves it to its watcher.
CommitRefused(c) ==
  /\ pc[c] = "commit" /\ (txDone[c] \/ ctxDone[c])
  /\ IF driver[c] = "pgx" /\ ~txDone[c]
       THEN Finish(c, "dropped") ELSE UNCHANGED <<txDone, server>>
  /\ Return(c, "commit")
  /\ UNCHANGED <<driver, ctxDone, body, own>>

Commit(c) ==
  /\ pc[c] = "commit" /\ ~txDone[c] /\ ~ctxDone[c]
  /\ \/ Finish(c, "committed") /\ Return(c, "nil")
     \/ Finish(c, "rolledback") /\ Return(c, "commit")
     \/ Finish(c, "deciding") /\ Return(c, "commit")
  /\ UNCHANGED <<driver, ctxDone, body, own>>

\* A finished handle is no error; a failed rollback costs the connection.
Rollback(c) ==
  /\ pc[c] = "rollback"
  /\ \/ txDone[c] /\ UNCHANGED <<txDone, server>>
     \/ ~txDone[c] /\ \E state \in {"rolledback", "dropped"} : Finish(c, state)
  /\ Return(c, body[c])
  /\ UNCHANGED <<driver, ctxDone, body, own>>

-----------------------------------------------------------------------------
\* The timeout passes, its deferred cancel runs, or the caller cancels; a call
\* without WithTxTimeout is one whose context may last for ever.
CtxEnds(c) ==
  /\ ~ctxDone[c] /\ (pc[c] # "done" \/ c \in InUse)
  /\ ctxDone' = [ctxDone EXCEPT ![c] = TRUE]
  /\ UNCHANGED <<driver, pc, txDone, server, body, own, result>>

WatcherOff(c) == FALSE  \* mutant: the transaction is begun on another context

\* database/sql: rolls back when the context BeginTx was given ends.
Watches(c) == driver[c] = "sql"

Watcher(c) ==
  /\ Watches(c) /\ c \in InUse /\ ctxDone[c]
  /\ \E state \in {"rolledback", "dropped"} : Finish(c, state)
  /\ UNCHANGED <<driver, pc, ctxDone, body, own, result>>

\* PostgreSQL ends the transaction of a connection that is gone, and decides
\* one whose commit was sent and not answered.
ServerEnds(c) ==
  /\ server[c] \in {"dropped", "deciding"}
  /\ \E state \in {"rolledback", "committed"} :
       /\ state = "committed" => server[c] = "deciding"
       /\ server' = [server EXCEPT ![c] = state]
  /\ UNCHANGED <<driver, pc, ctxDone, txDone, body, own, result>>

-----------------------------------------------------------------------------
Body(c) == \E how \in Endings : BodyEnds(c, how)
Step(c) == Begin(c) \/ CommitRefused(c) \/ Commit(c) \/ Rollback(c)

Terminated ==
  /\ \A c \in Calls : pc[c] = "done" /\ server[c] \notin {"dropped", "deciding"}
  /\ UNCHANGED vars

Next ==
  \/ \E c \in Calls :
       \/ Step(c) \/ Body(c) \/ BodyFinishes(c) \/ BeginFails(c)
       \/ CtxEnds(c) \/ Watcher(c) \/ ServerEnds(c)
  \/ Terminated

Spec == Init /\ [][Next]_vars

-----------------------------------------------------------------------------
(* Properties *)

\* What the caller is told is true: nil means that Tx committed, a body that
\* failed or panicked is never committed by Tx and its error or panic comes
\* back, whatever the timeout, the watcher and the body's own commit or rollback
\* did in between.  Only a failing commit may leave the outcome open (Tx).
AnswerIsTrue ==
  \A c \in Calls :
    /\ result[c] = "nil" => server[c] = "committed" /\ own[c] = "none"
    /\ server[c] \in {"committed", "deciding"} =>
         own[c] = "committed" \/ body[c] = "nil"
    /\ pc[c] = "done" /\ body[c] \in Endings \ {"nil"} => result[c] = body[c]

\* No transaction stays open behind a Tx that is over, and its connection goes
\* back to the pool, except when the body left by runtime.Goexit (Tx, "leaves
\* a panicking request holding an open transaction").
NothingStaysOpen ==
  \A c \in Calls :
    pc[c] = "done" ~>
      \/ c \notin InUse /\ server[c] \notin {"open", "dropped"}
      \/ body[c] = "goexit"

\* A database/sql transaction ends on the server with its context, although
\* its body goes on or left by Goexit (WithTxTimeout, "bounds the transaction
\* as a whole").
SqlTimeoutEndsTransaction ==
  \A c \in Calls :
    ctxDone[c] /\ driver[c] = "sql" ~> server[c] # "open"

\* What pgxdb's Tx says of itself and database.Tx: "Their commit, rollback,
\* panic and timeout behaviour is identical" (pgxdb/tx.go:98).  Nobody watches
\* the context of a pgx transaction while its body does not use it.
TimeoutEndsTransaction ==
  \A c \in Calls :
    ctxDone[c] ~> server[c] # "open" \/ body[c] = "goexit"
=============================================================================

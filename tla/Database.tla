------------------------------- MODULE Database --------------------------------
(***************************************************************************)
(* Packages database and database/pgxdb: the pools that Open returns, the  *)
(* cleanups that goforj/wire generates for them, and the calls of Tx over  *)
(* them (module Tx), which may be under way when a cleanup starts.         *)
(*                                                                         *)
(* Closing a *sql.DB does not wait for the connections in use; closing a   *)
(* *pgxpool.Pool does, until the last one has come back.                   *)
(***************************************************************************)
EXTENDS Tx

VARIABLE pool \* the state of each driver's pool

allVars == <<vars, pool>>

PoolTypeOK ==
  pool \in [Drivers -> {"none", "failed", "open", "closing", "closed"}]

DatabaseInit == Init /\ pool = [d \in Drivers |-> "none"]

\* The pools the calls use.  The injector opens them before anything runs.
Used(d) == d \in Drivers /\ \E c \in Calls : driver[c] = d
Ready == \A d \in Drivers : Used(d) => pool[d] \in {"open", "closing", "closed"}

Becomes(d, state) == pool' = [pool EXCEPT ![d] = state] /\ UNCHANGED vars

-----------------------------------------------------------------------------
(* Open and its cleanup *)

\* A DSN that does not parse and an option out of range are errors; statistics
\* that cannot be registered are reported, and the handle is returned.
OpenSql ==
  /\ pool["sql"] = "none"
  /\ \E state \in {"open", "failed"} : Becomes("sql", state)

\* Here they are a failure, too, and the pool just built is closed again.
OpenPgx ==
  /\ pool["pgx"] = "none"
  /\ \E state \in {"open", "failed"} : Becomes("pgx", state)

\* Transactions in progress keep their connections until they end.
CleanupSql == pool["sql"] = "open" /\ Becomes("sql", "closed")

\* The pool's own Close: it refuses new callers, then waits for the others.
CleanupPgx == pool["pgx"] = "open" /\ Becomes("pgx", "closing")

CleanupReturns ==
  /\ pool["pgx"] = "closing" /\ \A c \in InUse : driver[c] # "pgx"
  /\ Becomes("pgx", "closed")

-----------------------------------------------------------------------------
(* Tx over the pools *)

Pool(c) == pool[driver[c]]

\* mutant: a closed pool keeps its callers waiting.
BeginRefusedOff(c) == ctxDone[c] /\ BeginFails(c)

\* A pool that is closed, or closing, refuses those who wait for a connection.
BeginRefused(c) ==
  /\ ctxDone[c] \/ Pool(c) \in {"closing", "closed"}
  /\ BeginFails(c)

\* The steps of Tx that need the pool, and those that do not.
NeedsPool(c) ==
  \/ Ready /\ Pool(c) = "open" /\ (Begin(c) \/ BeginFails(c))
  \/ Ready /\ Pool(c) \in {"closing", "closed"} /\ BeginRefused(c)

Goes(c) ==
  \/ CommitRefused(c) \/ Commit(c) \/ Rollback(c)
  \/ Body(c) \/ BodyFinishes(c) \/ CtxEnds(c) \/ Watcher(c) \/ ServerEnds(c)

-----------------------------------------------------------------------------
PoolStep ==
  \/ Used("sql") /\ (OpenSql \/ CleanupSql)
  \/ Used("pgx") /\ (OpenPgx \/ CleanupPgx \/ CleanupReturns)

AllTerminated ==
  /\ \A c \in Calls :
       /\ pc[c] = "done" \/ ~Ready
       /\ server[c] \notin {"dropped", "deciding"}
  /\ \A d \in Drivers : Used(d) => pool[d] \in {"failed", "closing", "closed"}
  /\ UNCHANGED allVars

DatabaseNext ==
  \/ PoolStep
  \/ \E c \in Calls : (NeedsPool(c) \/ Goes(c)) /\ UNCHANGED pool
  \/ AllTerminated

\* As in Tx; closing a pool goes on, and refuses those who wait.
DatabaseFairness ==
  /\ \A c \in Calls :
       /\ SF_allVars(Ready /\ Pool(c) = "open" /\ Begin(c) /\ UNCHANGED pool)
       /\ WF_allVars(Ready /\ BeginRefused(c) /\ UNCHANGED pool)
       /\ WF_allVars((CommitRefused(c) \/ Commit(c) \/ Rollback(c)) /\ UNCHANGED pool)
       /\ WF_allVars(Watcher(c) /\ UNCHANGED pool)
       /\ WF_allVars(ServerEnds(c) /\ UNCHANGED pool)
  /\ WF_allVars(Used("pgx") /\ CleanupReturns)
DatabaseSpec == DatabaseInit /\ [][DatabaseNext]_allVars /\ DatabaseFairness

-----------------------------------------------------------------------------
(* Properties *)

\* A body that hangs, or leaves by Goexit.
Returns(c) == []<>(pc[c] # "body") /\ [](body[c] # "goexit")

\* With bodies that return, and none that leaves by Goexit, every call gets a
\* connection or is refused, and ends, however small the pool and whenever it
\* is closed; and a cleanup returns, as each failing or panicking transaction
\* has given its connection back (Tx; Set, "a pool nothing closes").  A body
\* that left by Goexit keeps the cleanup of pgxdb waiting for ever.
CallsAndCleanupsEnd ==
  (\A c \in Calls : Returns(c)) =>
    /\ \A c \in Calls : Ready ~> pc[c] = "done"
    /\ \A d \in Drivers : pool[d] = "closing" ~> pool[d] = "closed"
=============================================================================

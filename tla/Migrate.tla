------------------------------- MODULE Migrate -------------------------------
(***************************************************************************)
(* Package migrate: calls of Up, UpTo, Down and Ready made by several      *)
(* replicas against one PostgreSQL database.                               *)
(*                                                                         *)
(* A run takes a connection from its replica's pool, takes the session's   *)
(* advisory lock on it (bounded by the lock timeout), reads the pending    *)
(* migrations, rejects the ones that are too old, applies the rest one by  *)
(* one through goose's provider, and releases the lock.  Every operation   *)
(* of the provider holds the provider's mutex and a second connection of   *)
(* the same pool.  Ready reads through the provider without the lock.      *)
(*                                                                         *)
(* The lock and the transactions are on different sessions, which end      *)
(* independently: a transaction whose caller has given up may be committed *)
(* after the lock is free, and a run that loses the lock's session goes on *)
(* without it.                                                             *)
(*                                                                         *)
(* Contexts: a cancelled or expired context makes the call's next wait or  *)
(* query fail, so each wait that watches the context has a failing step.   *)
(***************************************************************************)
EXTENDS Integers, FiniteSets

CONSTANTS
  Calls,        \* the calls; each is made once
  Replicas,     \* processes, each with one Migrator over one *sql.DB
  ReplicaOf,    \* the replica making each call
  Versions,     \* versions of the migrations that exist anywhere
  Known,        \* the versions embedded in each replica's binary
  AllowMissing, \* per replica, WithAllowMissing
  Ops,          \* per call, the operations it may be: records [kind, target]
  PoolLimits,   \* per replica, MaxOpenConnections to consider; 0 is unlimited
  None          \* no call

Operations == [kind : {"up", "upto", "down", "ready"}, target : Int]

ASSUME MigrateAssumption ==
  /\ ReplicaOf \in [Calls -> Replicas]
  /\ Versions \subseteq Nat \ {0}
  /\ Known \in [Replicas -> SUBSET Versions]
  /\ AllowMissing \in [Replicas -> BOOLEAN]
  /\ Ops \in [Calls -> SUBSET Operations]
  /\ PoolLimits \in [Replicas -> SUBSET Nat]
  /\ None \notin Calls

VARIABLES
  rows,       \* the version table: a set of [id, version], ids by order of commit
  nextId,     \* the id of its next row
  inflight,   \* the calls that gave up on a transaction the server has not decided
  disturbed,  \* history: the calls that had the lock while another's transaction landed
  loose,      \* history: the ids of rows that were not recorded under the lock
  lockOwner,  \* the call on whose connection the advisory lock is (or was, when
              \* the connection is back in the pool), or None
  holds,      \* how often that session has taken it: the lock is reentrant
  unanswered, \* history: the times of these that no call has learned of
  lost,       \* the calls whose lock's session ended while they worked
  op,         \* what each call does
  limit,      \* each pool's MaxOpenConnections
  pc,         \* where each call is
  stage,      \* how far it is in the provider operation named by pc
  todo,       \* the versions it has still to apply (or to roll back)
  reported,   \* the versions it returns to its caller
  committed,  \* history: the versions whose transaction of this call committed
  result      \* what it returns

vars == <<rows, nextId, inflight, disturbed, loose, lockOwner, holds, unanswered, lost,
          op, limit, pc, stage, todo, reported, committed, result>>
database == <<rows, nextId, inflight, disturbed, loose>>
lock == <<lockOwner, holds, unanswered, lost>>
settings == <<op, limit>>
progress == <<todo, reported, committed>>

ProviderOps == {"status", "version", "apply"}
PCs == ProviderOps \cup {"idle", "conn", "lock", "release", "asked", "closed", "done"}
Stages == {"none", "mutex", "conn", "query", "commit"}

TypeOK ==
  /\ rows \subseteq [id : Nat, version : Versions]
  /\ nextId \in Nat
  /\ inflight \subseteq Calls /\ disturbed \subseteq Calls /\ lost \subseteq Calls
  /\ loose \subseteq Nat
  /\ lockOwner \in Calls \cup {None}
  /\ holds \in Int /\ unanswered \in Nat
  /\ op \in [Calls -> Operations]
  /\ limit \in [Replicas -> Nat]
  /\ pc \in [Calls -> PCs]
  /\ stage \in [Calls -> Stages]
  /\ todo \in [Calls -> SUBSET Versions]
  /\ reported \in [Calls -> SUBSET Versions]
  /\ committed \in [Calls -> SUBSET Versions]
  /\ result \in [Calls -> {"none", "ok", "error"}]

-----------------------------------------------------------------------------
Applied == {row.version : row \in rows}

Reads(c) == op[c].kind = "ready"          \* takes no lock
Rollback(c) == op[c].kind = "down"

WithinExclusive(c, v) == op[c].kind = "up" \/ v < op[c].target  \* mutant

\* run stops at the first pending version above the target; Up has none.
Within(c, v) == op[c].kind = "up" \/ v <= op[c].target

\* The part of a run that the advisory lock is there to protect.
Working(c) == ~Reads(c) /\ pc[c] \in ProviderOps \cup {"release"}

\* The call's session has had the lock since it was granted, and no transaction
\* of another call has landed since.
Covered(c) == lockOwner = c /\ c \notin disturbed

\* database/sql: connections checked out of a replica's pool.
LockConns(r) == {c \in Calls : /\ ReplicaOf[c] = r
                               /\ ~Reads(c)
                               /\ pc[c] \in ProviderOps \cup {"lock", "release"}}
ProviderConns(r) == {c \in Calls : ReplicaOf[c] = r /\ stage[c] \in {"query", "commit"}}
HasSlot(r) ==
  \/ limit[r] = 0
  \/ Cardinality(LockConns(r)) + Cardinality(ProviderConns(r)) < limit[r]

\* goose: the provider's mutex is held from before db.Conn to the operation's end.
ProviderFree(r) ==
  \A d \in Calls : ReplicaOf[d] = r => stage[d] \notin {"conn", "query", "commit"}

-----------------------------------------------------------------------------
NewAcceptsAny(n) == TRUE  \* mutant: no check of the pool size

\* New refuses the one pool size at which a run waits for itself.
NewAccepts(n) == n # 1

Init ==
  /\ rows = {} /\ nextId = 1
  /\ inflight = {} /\ disturbed = {} /\ loose = {}
  /\ lockOwner = None /\ holds = 0 /\ unanswered = 0 /\ lost = {}
  /\ op \in [Calls -> UNION {Ops[c] : c \in Calls}]
  /\ \A c \in Calls : op[c] \in Ops[c]
  /\ limit \in [Replicas -> UNION {PoolLimits[r] : r \in Replicas}]
  /\ \A r \in Replicas : limit[r] \in PoolLimits[r] /\ NewAccepts(limit[r])
  /\ pc = [c \in Calls |-> "idle"]
  /\ stage = [c \in Calls |-> "none"]
  /\ todo = [c \in Calls |-> {}]
  /\ reported = [c \in Calls |-> {}]
  /\ committed = [c \in Calls |-> {}]
  /\ result = [c \in Calls |-> "none"]

Goto(c, p) ==
  /\ pc' = [pc EXCEPT ![c] = p]
  /\ stage' = [stage EXCEPT ![c] = IF p \in ProviderOps THEN "mutex" ELSE "none"]

Return(c, res) == Goto(c, "done") /\ result' = [result EXCEPT ![c] = res]

\* mutant: a failing run returns without releasing.
LeaveUnreleased(c, res) ==
  /\ Goto(c, IF Reads(c) \/ res = "error" THEN "done" ELSE "release")
  /\ result' = [result EXCEPT ![c] = res]

\* A provider operation ended the call's work: a run releases, a read returns.
Leave(c, res) ==
  /\ Goto(c, IF Reads(c) THEN "done" ELSE "release")
  /\ result' = [result EXCEPT ![c] = res]

\* The loop of run over the versions that are left.
Loop(c, rest) ==
  IF \E v \in rest : Within(c, v)
    THEN Goto(c, "apply") /\ UNCHANGED result
    ELSE Leave(c, "ok")

\* The lock is with a connection that is back in its pool.
Pooled(c) == lockOwner = c /\ pc[c] = "done"

-----------------------------------------------------------------------------
Begin(c) ==
  /\ pc[c] = "idle"
  /\ \/ /\ Reads(c)
        /\ Goto(c, "status") /\ UNCHANGED result
     \/ /\ op[c].kind = "upto" /\ op[c].target < 1
        /\ Return(c, "error")
     \/ /\ ~Reads(c) /\ (op[c].kind = "upto" => op[c].target >= 1)
        /\ Goto(c, "conn") /\ UNCHANGED result
  /\ UNCHANGED <<database, lock, settings, progress>>

\* lock: db.Conn, bounded by the caller's context only.  The connection is a
\* new one, or the idle one of this pool whose session has the lock.
LockConn(c) ==
  /\ pc[c] = "conn"
  /\ HasSlot(ReplicaOf[c])
  /\ Goto(c, "lock")
  /\ \/ UNCHANGED lockOwner
     \/ /\ \E d \in Calls : Pooled(d) /\ ReplicaOf[d] = ReplicaOf[c]
        /\ lockOwner' = c
  /\ UNCHANGED <<database, holds, unanswered, lost, settings, progress, result>>

LockConnFails(c) ==
  /\ pc[c] = "conn"
  /\ Return(c, "error")
  /\ UNCHANGED <<database, lock, settings, progress>>

\* pg_try_advisory_lock: a session may take the lock it already has.
Grant(c) ==
  /\ lockOwner \in {None, c}
  /\ lockOwner' = c /\ holds' = holds + 1

\* lock: the locker's poll of pg_try_advisory_lock succeeds.
SessionLock(c) ==
  /\ pc[c] = "lock"
  /\ Grant(c)
  /\ Goto(c, IF Rollback(c) THEN "version" ELSE "status")
  /\ UNCHANGED <<database, unanswered, lost, settings, progress, result>>

\* The query was decided, or never sent, when its caller gave up.
MaybeGranted(c) ==
  \/ Grant(c) /\ unanswered' = unanswered + 1
  \/ UNCHANGED <<lockOwner, holds, unanswered>>

\* lock: the deadline passed or the query failed; closeConn gives the connection
\* back as it is.  A broken one is closed, perhaps with its query still to be
\* decided; a healthy one goes to the pool, also with a lock that was granted.
SessionLockFails(c) ==
  /\ pc[c] = "lock"
  /\ \/ Return(c, "error") /\ MaybeGranted(c)
     \/ Goto(c, "asked") /\ result' = [result EXCEPT ![c] = "error"]
        /\ UNCHANGED <<lockOwner, holds, unanswered>>
  /\ UNCHANGED <<database, lost, settings, progress>>

-----------------------------------------------------------------------------
\* goose's provider: the mutex, then a connection, then the queries.
ProviderLock(c) ==
  /\ stage[c] = "mutex"
  /\ ProviderFree(ReplicaOf[c])
  /\ stage' = [stage EXCEPT ![c] = "conn"]
  /\ UNCHANGED <<database, lock, settings, pc, progress, result>>

ProviderConn(c) ==
  /\ stage[c] = "conn"
  /\ HasSlot(ReplicaOf[c])
  /\ stage' = [stage EXCEPT ![c] = "query"]
  /\ UNCHANGED <<database, lock, settings, pc, progress, result>>

\* mutant: run returns nil applied versions with the error.
ProviderFailsForgetful(c) ==
  /\ stage[c] \in {"conn", "query", "commit"}
  /\ Leave(c, "error")
  /\ reported' = [reported EXCEPT ![c] = {}]
  /\ UNCHANGED <<database, lock, settings, todo, committed>>

\* Any ctx-aware part of a provider operation fails; a transaction rolls back.
ProviderFails(c) ==
  /\ stage[c] \in {"conn", "query", "commit"}
  /\ Leave(c, "error")
  /\ UNCHANGED <<database, lock, settings, progress>>

\* What a call does with the pending migrations it has read.
UsePending(c, pending) ==
  IF Reads(c)
    THEN /\ Leave(c, IF pending = {} THEN "ok" ELSE "error")
         /\ UNCHANGED todo
    ELSE /\ todo' = [todo EXCEPT ![c] = pending]
         /\ IF AllowMissing[ReplicaOf[c]] \/ pending = {}
              THEN Loop(c, pending)
              ELSE Goto(c, "version") /\ UNCHANGED result

\* mutant: statuses that are not pending are kept.
PendingReadAll(c) ==
  /\ pc[c] = "status" /\ stage[c] = "query"
  /\ UsePending(c, Known[ReplicaOf[c]])
  /\ UNCHANGED <<database, lock, settings, reported, committed>>

\* status and pending: the versions this binary knows and the table lacks.
PendingRead(c) ==
  /\ pc[c] = "status" /\ stage[c] = "query"
  /\ UsePending(c, Known[ReplicaOf[c]] \ Applied)
  /\ UNCHANGED <<database, lock, settings, reported, committed>>

\* mutant: what is older than the current version is applied all the same.
CheckForMissingOff(c) ==
  /\ pc[c] = "version" /\ stage[c] = "query" /\ ~Rollback(c)
  /\ Loop(c, todo[c])
  /\ UNCHANGED <<database, lock, settings, progress>>

\* checkForMissing: a pending version below GetDBVersion, the highest recorded.
CheckForMissing(c) ==
  /\ pc[c] = "version" /\ stage[c] = "query" /\ ~Rollback(c)
  /\ IF \E v \in todo[c], u \in Applied : v < u
       THEN Leave(c, "error")
       ELSE Loop(c, todo[c])
  /\ UNCHANGED <<database, lock, settings, progress>>

\* Down goes on to roll back version v.
RollbackOf(c, v) ==
  /\ todo' = [todo EXCEPT ![c] = {v}]
  /\ Goto(c, "apply") /\ UNCHANGED result

\* mutant: the youngest row instead of the highest version.
DownVersionYoungest(c) ==
  /\ pc[c] = "version" /\ stage[c] = "query" /\ Rollback(c)
  /\ \E x \in rows : (\A y \in rows : y.id <= x.id) /\ RollbackOf(c, x.version)
  /\ UNCHANGED <<database, lock, settings, reported, committed>>

\* Down: GetDBVersion is the highest version, zero when there is none.
DownVersion(c) ==
  /\ pc[c] = "version" /\ stage[c] = "query" /\ Rollback(c)
  /\ \/ /\ Applied = {}
        /\ Leave(c, "error") /\ UNCHANGED todo
     \/ \E v \in Applied : (\A u \in Applied : u <= v) /\ RollbackOf(c, v)
  /\ UNCHANGED <<database, lock, settings, reported, committed>>

\* The version that run reaches next: pending is in ascending order.
IsNext(c, v) == v \in todo[c] /\ \A u \in todo[c] : v <= u

\* ApplyVersion looks the version up before it runs it.
ApplyCheck(c) ==
  /\ pc[c] = "apply" /\ stage[c] = "query"
  /\ \E v \in Versions :
       /\ IsNext(c, v)
       /\ IF v \in Known[ReplicaOf[c]] /\ (Rollback(c) <=> v \in Applied)
            THEN stage' = [stage EXCEPT ![c] = "commit"] /\ UNCHANGED <<pc, result>>
            ELSE Leave(c, "error")
  /\ UNCHANGED <<database, lock, settings, progress>>

\* The migration's transaction: its statements and the version row, or neither.
Transaction(c, v) ==
  /\ IF Rollback(c)
       THEN /\ rows' = {row \in rows : row.version # v}
            /\ UNCHANGED <<nextId, loose>>
       ELSE /\ rows' = rows \cup {[id |-> nextId, version |-> v]}
            /\ nextId' = nextId + 1
            /\ loose' = IF Covered(c) THEN loose ELSE loose \cup {nextId}
  /\ committed' = [committed EXCEPT ![c] = @ \cup {v}]
  /\ disturbed' = disturbed \cup
       {d \in Calls \ {c} : lockOwner = d /\ pc[d] \notin {"lock", "asked"}}

ApplyCommit(c) ==
  /\ pc[c] = "apply" /\ stage[c] = "commit"
  /\ \E v \in Versions :
       /\ IsNext(c, v)
       /\ Transaction(c, v)
       /\ todo' = [todo EXCEPT ![c] = @ \ {v}]
       /\ reported' = [reported EXCEPT ![c] = @ \cup {v}]
       /\ IF Rollback(c) THEN Leave(c, "ok") ELSE Loop(c, todo[c] \ {v})
  /\ UNCHANGED <<inflight, lock, settings>>

\* The context ends or the connection breaks during the commit: apply returns the
\* error, and the server decides the transaction when it gets to it.
ApplyAnswerLost(c) ==
  /\ pc[c] = "apply" /\ stage[c] = "commit"
  /\ inflight' = inflight \cup {c}
  /\ Leave(c, "error")
  /\ UNCHANGED <<rows, nextId, disturbed, loose, lock, settings, progress>>

-----------------------------------------------------------------------------
\* release, on a context of its own: the unlock gives back one hold; on a session
\* that is gone it fails, and the connection is discarded.
Unlock(c) ==
  /\ pc[c] = "release"
  /\ Goto(c, "done")
  /\ IF c \in lost
       THEN UNCHANGED <<lockOwner, holds>>
       ELSE /\ holds' = holds - 1
            /\ lockOwner' = IF holds = 1 THEN None ELSE lockOwner
  /\ UNCHANGED <<database, unanswered, lost, settings, progress, result>>

\* The unlock fails for another reason: the connection is discarded all the same,
\* which ends the session a little later.
UnlockFails(c) ==
  /\ pc[c] = "release" /\ c \notin lost
  /\ Goto(c, "closed")
  /\ UNCHANGED <<database, lock, settings, progress, result>>

-----------------------------------------------------------------------------
\* PostgreSQL.  A session that ends leaves no lock.
Free == lockOwner' = None /\ holds' = 0 /\ unanswered' = 0

\* The query for the lock, sent before its connection broke, is decided.
AskDecided(c) ==
  /\ pc[c] = "asked"
  /\ MaybeGranted(c)
  /\ Goto(c, IF lockOwner' = c THEN "closed" ELSE "done")
  /\ UNCHANGED <<database, lost, settings, progress, result>>

\* The server notices that a client closed the session that has the lock.
SessionEnds(c) ==
  /\ pc[c] = "closed"
  /\ Free
  /\ Goto(c, "done")
  /\ UNCHANGED <<database, lost, settings, progress, result>>

\* The pool closes an idle connection, or its process is gone.
PooledEnds(c) ==
  /\ Pooled(c)
  /\ Free
  /\ UNCHANGED <<database, lost, settings, pc, stage, progress, result>>

\* The lock's session ends during the run, which does not look at it.
LockLost(c) ==
  /\ Working(c) /\ lockOwner = c
  /\ Free
  /\ lost' = lost \cup {c}
  /\ UNCHANGED <<database, settings, pc, stage, progress, result>>

\* A transaction nobody waits for any more commits or rolls back.
Lands(c) ==
  /\ c \in inflight
  /\ inflight' = inflight \ {c}
  /\ \/ \E v \in Versions : IsNext(c, v) /\ Transaction(c, v)
     \/ UNCHANGED <<rows, nextId, disturbed, loose, committed>>
  /\ UNCHANGED <<lock, settings, pc, stage, todo, reported, result>>

Gone == {"asked", "closed", "done"}

\* A replica dies: its calls never return.  What they had sent to the server is
\* still to be decided there, on each session by itself.
Crash(r) ==
  /\ \E c \in Calls : ReplicaOf[c] = r /\ pc[c] \notin Gone
  /\ inflight' = inflight \cup {c \in Calls : ReplicaOf[c] = r /\ stage[c] = "commit"}
  /\ pc' = [c \in Calls |->
              IF ReplicaOf[c] # r \/ pc[c] \in Gone THEN pc[c]
              ELSE IF pc[c] = "lock" THEN "asked"
              ELSE IF lockOwner = c THEN "closed" ELSE "done"]
  /\ stage' = [c \in Calls |-> IF ReplicaOf[c] = r THEN "none" ELSE stage[c]]
  /\ result' = [c \in Calls |-> IF ReplicaOf[c] = r /\ result[c] = "none"
                                  THEN "error" ELSE result[c]]
  /\ UNCHANGED <<rows, nextId, disturbed, loose, lock, settings, progress>>

-----------------------------------------------------------------------------
Terminated ==
  /\ \A c \in Calls : pc[c] = "done"
  /\ UNCHANGED vars

\* What the code does when nothing fails (a lock wait that ends counts).
Step(c) ==
  \/ Begin(c) \/ LockConn(c) \/ SessionLock(c) \/ SessionLockFails(c)
  \/ ProviderLock(c) \/ ProviderConn(c)
  \/ PendingRead(c) \/ CheckForMissing(c) \/ DownVersion(c)
  \/ ApplyCheck(c) \/ ApplyCommit(c) \/ Unlock(c)

Fault(c) ==
  \/ LockConnFails(c) \/ ProviderFails(c) \/ ApplyAnswerLost(c) \/ UnlockFails(c)
  \/ LockLost(c) \/ PooledEnds(c)

Server(c) == AskDecided(c) \/ SessionEnds(c)

Next ==
  \/ \E c \in Calls : Step(c) \/ Fault(c) \/ Server(c) \/ Lands(c)
  \/ \E r \in Replicas : Crash(r)
  \/ Terminated

Spec == Init /\ [][Next]_vars

\* Goroutines are scheduled, a lock wait ends at its deadline, a migration's
\* transaction finishes, and the server notices a closed session.
Fairness == \A c \in Calls : WF_vars(Step(c)) /\ WF_vars(Server(c)) /\ WF_vars(Lands(c))
FairSpec == Spec /\ Fairness

-----------------------------------------------------------------------------
(* Properties *)

\* From the moment the lock is granted until it is released, the session holding
\* the lock is that run's, unless that session was lost: two runs never overlap
\* otherwise, whatever the replicas and the failures (Up and run: "under one
\* advisory lock").
LockCoversRun == \A c \in Calls : Working(c) => lockOwner = c \/ c \in lost

\* A run gives back the lock it was told of: not on a failing migration, a
\* cancelled run, a failed unlock or a crash (release, line 493) does it stay with
\* a session that remains open.  What stays there are holds a failed SessionLock
\* never told of (lock, line 485).
NoLeakedLock ==
  \A c \in Calls :
    lockOwner = c /\ pc[c] # "closed"
    => holds = unanswered + (IF Working(c) THEN 1 ELSE 0)

\* A version that is in the table is recorded again only outside of the lock or
\* by a run another's late transaction disturbed: the loser of a boot race finds
\* nothing to do instead of applying the same migration again (Up).
AppliedOnce ==
  \A x, y \in rows : x.version = y.version /\ x.id < y.id => y.id \in loose

\* What a run has still to apply is not applied by anybody else meanwhile: it
\* never meets a migration the winner of the race had already committed (run,
\* "Read inside the lock"), unless a transaction lands that another run left
\* behind, or its own session loses the lock.
PlanIsFresh ==
  \A c \in Calls :
    pc[c] = "apply" /\ ~Rollback(c) /\ Covered(c) => todo[c] \cap Applied = {}

\* A run that is about to return nil leaves nothing pending up to its target,
\* also when it began while another replica was migrating.
UpLeavesNothingPending ==
  \A c \in Calls :
    /\ pc[c] = "release" /\ result[c] = "ok" /\ ~Rollback(c) /\ Covered(c)
    => \A v \in Known[ReplicaOf[c]] :
         op[c].kind = "up" \/ v <= op[c].target => v \in Applied

\* The versions returned are those this call committed: all of them when it
\* returns nil, and with an error all but the one it was applying when it gave up
\* (Up: "the migrations applied before the failing one are returned").
ReportMatchesCommits ==
  \A c \in Calls :
    /\ reported[c] \subseteq committed[c]
    /\ result[c] = "ok" => reported[c] = committed[c]
    /\ \A v \in committed[c] \ reported[c] : IsNext(c, v)

\* Under its lock a migrator without WithAllowMissing never adds a version below
\* one that is already there, whichever set of migrations other replicas run with,
\* also when the commit lands after the run has ended (checkForMissing).
StrictlyAscending ==
  [][\A c \in Calls :
       /\ committed'[c] # committed[c] /\ Covered(c)
       /\ ~Rollback(c) /\ ~AllowMissing[ReplicaOf[c]]
       => \A v \in committed'[c] \ committed[c], u \in Applied : u < v]_vars

\* Calls that change nothing, failing or not, do return: runs on one pool do
\* not wait for each other's connections forever, and a run that leaves no hold
\* behind frees the lock for the next one (New refuses a pool of one;
\* WithLockTimeout).  Excepted is a bounded pool with a run that lost its lock:
\* the run that takes the lock next and this one may have all its connections.
EveryCallReturns ==
  \A c \in Calls :
    <>(\/ pc[c] = "done"
       \/ limit[ReplicaOf[c]] # 0 /\ \E d \in lost : ReplicaOf[d] = ReplicaOf[c])

\* What Down's comment says: "rolls back the most recently applied migration"
\* (line 247).  GetDBVersion's answer is another one after an out-of-order run.
DownRemovesLatest ==
  [][\A x \in rows : x \notin rows' => \A y \in rows : y.id <= x.id]_vars

\* The call that has the lock: a connection that is back in its pool, or on which
\* SessionLock has not returned yet, is nobody's.
Owner ==
  IF \E c \in Calls : lockOwner = c /\ (Working(c) \/ pc[c] = "closed")
    THEN lockOwner ELSE None

\* The serialised migrations this implements.
Serial == INSTANCE SerialMigrations
            WITH owner <- Owner,
                 late <- Owner \in disturbed,
                 Strict <- {c \in Calls : ~AllowMissing[ReplicaOf[c]]}

\* Every step is one of the serialised specification or leaves lock and table
\* alone: until a late transaction lands, only the lock's owner changes the table,
\* in order, once per version; and what lands late is forgotten with the owner.
ImplementsSerial == Serial!AbsSpec
=============================================================================

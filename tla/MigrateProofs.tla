---------------------------- MODULE MigrateProofs ----------------------------
(***************************************************************************)
(* Proofs about Migrate, for any calls, replicas, migrations, pool limits  *)
(* and operations.                                                         *)
(***************************************************************************)
EXTENDS Migrate, TLAPS

LEMMA TypeInit == Init => TypeOK
<1> SUFFICES ASSUME Init PROVE TypeOK
  OBVIOUS
<1>1. limit \in [Replicas -> Nat]
  BY MigrateAssumption DEF Init
<1>2. op \in [Calls -> Operations]
  BY MigrateAssumption DEF Init
<1> QED
  BY <1>1, <1>2 DEF Init, TypeOK, PCs, Stages, ProviderOps

\* Goto keeps the program counters in their sets.
LEMMA GotoType ==
  ASSUME TypeOK, NEW c \in Calls, NEW p \in PCs, Goto(c, p)
  PROVE  pc' \in [Calls -> PCs] /\ stage' \in [Calls -> Stages]
BY DEF Goto, TypeOK, Stages

LEMMA LeaveType ==
  ASSUME TypeOK, NEW c \in Calls, NEW res \in {"ok", "error"}, Leave(c, res)
  PROVE  /\ pc' \in [Calls -> PCs] /\ stage' \in [Calls -> Stages]
         /\ result' \in [Calls -> {"none", "ok", "error"}]
<1>1. (IF Reads(c) THEN "done" ELSE "release") \in PCs
  BY DEF PCs
<1> QED
  BY <1>1, GotoType DEF Leave, TypeOK

LEMMA ReturnType ==
  ASSUME TypeOK, NEW c \in Calls, NEW res \in {"ok", "error"}, Return(c, res)
  PROVE  /\ pc' \in [Calls -> PCs] /\ stage' \in [Calls -> Stages]
         /\ result' \in [Calls -> {"none", "ok", "error"}]
<1>1. "done" \in PCs
  BY DEF PCs
<1> QED
  BY <1>1, GotoType DEF Return, TypeOK

LEMMA LoopType ==
  ASSUME TypeOK, NEW c \in Calls, NEW rest, Loop(c, rest)
  PROVE  /\ pc' \in [Calls -> PCs] /\ stage' \in [Calls -> Stages]
         /\ result' \in [Calls -> {"none", "ok", "error"}]
<1>1. CASE \E v \in rest : Within(c, v)
  <2>1. "apply" \in PCs
    BY DEF PCs, ProviderOps
  <2> QED
    BY <1>1, <2>1, GotoType DEF Loop, TypeOK
<1>2. CASE ~ \E v \in rest : Within(c, v)
  BY <1>2, LeaveType DEF Loop
<1> QED
  BY <1>1, <1>2

LEMMA TransactionType ==
  ASSUME TypeOK, NEW c \in Calls, NEW v \in Versions, Transaction(c, v)
  PROVE  /\ rows' \subseteq [id : Nat, version : Versions] /\ nextId' \in Nat
         /\ committed' \in [Calls -> SUBSET Versions]
         /\ disturbed' \subseteq Calls /\ loose' \subseteq Nat
<1>1. committed' \in [Calls -> SUBSET Versions] /\ disturbed' \subseteq Calls
  BY DEF Transaction, TypeOK
<1>2. CASE Rollback(c)
  BY <1>1, <1>2 DEF Transaction, TypeOK
<1>3. CASE ~Rollback(c)
  <2>1. [id |-> nextId, version |-> v] \in [id : Nat, version : Versions]
    BY DEF TypeOK
  <2>2. /\ rows' = rows \cup {[id |-> nextId, version |-> v]} /\ nextId' = nextId + 1
        /\ loose' \in {loose, loose \cup {nextId}}
    BY <1>3 DEF Transaction
  <2>3. nextId' \in Nat /\ loose' \subseteq Nat
    BY <2>2 DEF TypeOK
  <2>4. rows' \subseteq [id : Nat, version : Versions]
    BY <2>1, <2>2 DEF TypeOK
  <2> QED
    BY <1>1, <2>3, <2>4
<1> QED
  BY <1>2, <1>3

LEMMA GrantType ==
  ASSUME TypeOK, NEW c \in Calls, MaybeGranted(c)
  PROVE  lockOwner' \in Calls \cup {None} /\ holds' \in Int /\ unanswered' \in Nat
BY DEF MaybeGranted, Grant, TypeOK

LEMMA TypeStep == TypeOK /\ [Next]_vars => TypeOK'
<1> SUFFICES ASSUME TypeOK, [Next]_vars PROVE TypeOK'
  OBVIOUS
<1> USE DEF database, lock, settings, progress
<1>1. ASSUME NEW c \in Calls, Begin(c) PROVE TypeOK'
  <2>1. "status" \in PCs /\ "conn" \in PCs
    BY DEF PCs, ProviderOps
  <2>2. CASE Goto(c, "status") /\ UNCHANGED result
    BY <1>1, <2>1, <2>2, GotoType DEF Begin, TypeOK
  <2>3. CASE Return(c, "error")
    BY <1>1, <2>3, ReturnType DEF Begin, TypeOK
  <2>4. CASE Goto(c, "conn") /\ UNCHANGED result
    BY <1>1, <2>1, <2>4, GotoType DEF Begin, TypeOK
  <2> QED
    BY <1>1, <2>2, <2>3, <2>4 DEF Begin
<1>2. ASSUME NEW c \in Calls, LockConn(c) PROVE TypeOK'
  <2>1. "lock" \in PCs
    BY DEF PCs
  <2> QED
    BY <1>2, <2>1, GotoType DEF LockConn, TypeOK
<1>3. ASSUME NEW c \in Calls, LockConnFails(c) PROVE TypeOK'
  BY <1>3, ReturnType DEF LockConnFails, TypeOK
<1>4. ASSUME NEW c \in Calls, SessionLock(c) PROVE TypeOK'
  <2>1. (IF Rollback(c) THEN "version" ELSE "status") \in PCs
    BY DEF PCs, ProviderOps
  <2> QED
    BY <1>4, <2>1, GotoType DEF SessionLock, Grant, TypeOK
<1>5. ASSUME NEW c \in Calls, SessionLockFails(c) PROVE TypeOK'
  <2>1. CASE Return(c, "error") /\ MaybeGranted(c)
    BY <1>5, <2>1, ReturnType, GrantType DEF SessionLockFails, TypeOK
  <2>2. CASE /\ Goto(c, "asked") /\ result' = [result EXCEPT ![c] = "error"]
             /\ UNCHANGED <<lockOwner, holds, unanswered>>
    <3>1. "asked" \in PCs
      BY DEF PCs
    <3>2. result' \in [Calls -> {"none", "ok", "error"}]
      BY <2>2 DEF TypeOK
    <3> QED
      BY <1>5, <2>2, <3>1, <3>2, GotoType DEF SessionLockFails, TypeOK
  <2> QED
    BY <1>5, <2>1, <2>2 DEF SessionLockFails
<1>6. ASSUME NEW c \in Calls, ProviderLock(c) \/ ProviderConn(c) PROVE TypeOK'
  BY <1>6 DEF ProviderLock, ProviderConn, TypeOK, Stages
<1>7. ASSUME NEW c \in Calls, ProviderFails(c) PROVE TypeOK'
  BY <1>7, LeaveType DEF ProviderFails, TypeOK
<1>8. ASSUME NEW c \in Calls, PendingRead(c) PROVE TypeOK'
  <2> DEFINE pending == Known[ReplicaOf[c]] \ Applied
  <2>1. pending \subseteq Versions
    BY MigrateAssumption
  <2>2. UsePending(c, pending)
    BY <1>8 DEF PendingRead
  <2>3. "version" \in PCs
    BY DEF PCs, ProviderOps
  <2>4. /\ pc' \in [Calls -> PCs] /\ stage' \in [Calls -> Stages]
        /\ result' \in [Calls -> {"none", "ok", "error"}]
    <3>1. CASE Reads(c)
      <4>1. (IF pending = {} THEN "ok" ELSE "error") \in {"ok", "error"}
        OBVIOUS
      <4> QED
        BY <2>2, <3>1, <4>1, LeaveType DEF UsePending
    <3>2. CASE Loop(c, pending)
      BY <3>2, LoopType
    <3>3. CASE Goto(c, "version") /\ UNCHANGED result
      BY <2>3, <3>3, GotoType DEF TypeOK
    <3> HIDE DEF pending
    <3> QED
      BY <2>2, <3>1, <3>2, <3>3 DEF UsePending
  <2>5. todo' \in [Calls -> SUBSET Versions]
    BY <2>1, <2>2 DEF UsePending, TypeOK
  <2> QED
    BY <1>8, <2>4, <2>5 DEF PendingRead, TypeOK
<1>9. ASSUME NEW c \in Calls, CheckForMissing(c) PROVE TypeOK'
  <2>1. CASE Leave(c, "error")
    BY <1>9, <2>1, LeaveType DEF CheckForMissing, TypeOK
  <2>2. CASE Loop(c, todo[c])
    BY <1>9, <2>2, LoopType DEF CheckForMissing, TypeOK
  <2> QED
    BY <1>9, <2>1, <2>2 DEF CheckForMissing
<1>10. ASSUME NEW c \in Calls, DownVersion(c) PROVE TypeOK'
  <2>1. CASE Leave(c, "error") /\ UNCHANGED todo
    BY <1>10, <2>1, LeaveType DEF DownVersion, TypeOK
  <2>2. ASSUME NEW v \in Applied, RollbackOf(c, v) PROVE TypeOK'
    <3>1. "apply" \in PCs /\ v \in Versions
      BY DEF PCs, ProviderOps, Applied, TypeOK
    <3> QED
      BY <1>10, <2>2, <3>1, GotoType DEF DownVersion, RollbackOf, TypeOK
  <2> QED
    BY <1>10, <2>1, <2>2 DEF DownVersion
<1>11. ASSUME NEW c \in Calls, ApplyCheck(c) PROVE TypeOK'
  <2>1. CASE Leave(c, "error")
    BY <1>11, <2>1, LeaveType DEF ApplyCheck, TypeOK
  <2>2. CASE stage' = [stage EXCEPT ![c] = "commit"] /\ UNCHANGED <<pc, result>>
    BY <1>11, <2>2 DEF ApplyCheck, TypeOK, Stages
  <2> QED
    BY <1>11, <2>1, <2>2 DEF ApplyCheck
<1>12. ASSUME NEW c \in Calls, ApplyCommit(c) PROVE TypeOK'
  <2>1. PICK v \in Versions :
          /\ Transaction(c, v)
          /\ todo' = [todo EXCEPT ![c] = @ \ {v}]
          /\ reported' = [reported EXCEPT ![c] = @ \cup {v}]
          /\ IF Rollback(c) THEN Leave(c, "ok") ELSE Loop(c, todo[c] \ {v})
    BY <1>12 DEF ApplyCommit
  <2>2. /\ pc' \in [Calls -> PCs] /\ stage' \in [Calls -> Stages]
        /\ result' \in [Calls -> {"none", "ok", "error"}]
    BY <2>1, LeaveType, LoopType
  <2>3. /\ todo' \in [Calls -> SUBSET Versions]
        /\ reported' \in [Calls -> SUBSET Versions]
    BY <2>1 DEF TypeOK
  <2> QED
    BY <1>12, <2>1, <2>2, <2>3, TransactionType DEF ApplyCommit, TypeOK
<1>13. ASSUME NEW c \in Calls, ApplyAnswerLost(c) PROVE TypeOK'
  BY <1>13, LeaveType DEF ApplyAnswerLost, TypeOK
<1>14. ASSUME NEW c \in Calls, Unlock(c) PROVE TypeOK'
  <2>1. "done" \in PCs
    BY DEF PCs
  <2> QED
    BY <1>14, <2>1, GotoType DEF Unlock, TypeOK
<1>15. ASSUME NEW c \in Calls, UnlockFails(c) PROVE TypeOK'
  <2>1. "closed" \in PCs
    BY DEF PCs
  <2> QED
    BY <1>15, <2>1, GotoType DEF UnlockFails, TypeOK
<1>16. ASSUME NEW c \in Calls, Lands(c) PROVE TypeOK'
  <2>1. /\ rows' \subseteq [id : Nat, version : Versions] /\ nextId' \in Nat
        /\ committed' \in [Calls -> SUBSET Versions]
        /\ disturbed' \subseteq Calls /\ loose' \subseteq Nat
    BY <1>16, TransactionType DEF Lands, TypeOK
  <2> QED
    BY <1>16, <2>1 DEF Lands, TypeOK
<1>17. ASSUME NEW r \in Replicas, Crash(r) PROVE TypeOK'
  BY <1>17 DEF Crash, TypeOK, PCs, Stages
<1>19. ASSUME NEW c \in Calls, AskDecided(c) PROVE TypeOK'
  <2>1. (IF lockOwner' = c THEN "closed" ELSE "done") \in PCs
    BY DEF PCs
  <2> QED
    BY <1>19, <2>1, GotoType, GrantType DEF AskDecided, TypeOK
<1>20. ASSUME NEW c \in Calls, SessionEnds(c) PROVE TypeOK'
  <2>1. "done" \in PCs
    BY DEF PCs
  <2> QED
    BY <1>20, <2>1, GotoType DEF SessionEnds, Free, TypeOK
<1>21. ASSUME NEW c \in Calls, PooledEnds(c) \/ LockLost(c) PROVE TypeOK'
  <2>1. /\ lockOwner' = None /\ holds' = 0 /\ unanswered' = 0
        /\ lost' \in {lost, lost \cup {c}}
        /\ UNCHANGED <<database, settings, pc, stage, progress, result>>
    BY <1>21 DEF PooledEnds, LockLost, Free
  <2>2. lost' \subseteq Calls
    BY <2>1 DEF TypeOK
  <2> QED
    BY <2>1, <2>2 DEF TypeOK
<1>18. CASE UNCHANGED vars
  BY <1>18 DEF vars, TypeOK
<1> QED
  BY <1>1, <1>2, <1>3, <1>4, <1>5, <1>6, <1>7, <1>8, <1>9, <1>10, <1>11,
     <1>12, <1>13, <1>14, <1>15, <1>16, <1>17, <1>18, <1>19, <1>20, <1>21
     DEF Next, Step, Fault, Server, Terminated

\* Every variable keeps to its set.
THEOREM TypeCorrect == Spec => []TypeOK
BY TypeInit, TypeStep, PTL DEF Spec

-----------------------------------------------------------------------------
\* Where a call can be: readers take no lock, a rollback reads no status, and
\* only the apply operation has a transaction to commit.  A call that gave up on
\* a transaction is out of the provider, and one that has not asked for the lock
\* has neither lost it nor been disturbed.
ControlInv ==
  \A c \in Calls :
    /\ stage[c] # "none" => pc[c] \in ProviderOps
    /\ stage[c] = "commit" => pc[c] = "apply"
    /\ Reads(c) => pc[c] \in {"idle", "status", "done"} /\ lockOwner # c
    /\ Rollback(c) => pc[c] # "status"
    /\ c \in inflight => pc[c] \in {"release", "closed", "done"} /\ ~Reads(c)
    /\ pc[c] \in {"idle", "conn", "lock", "asked"} => c \notin disturbed \cup lost

\* Whose the lock can be.
OwnerInv ==
  /\ lockOwner = None => holds = 0 /\ unanswered = 0
  /\ \A c \in Calls :
       /\ c \in lost => lockOwner # c
       /\ lockOwner = c => pc[c] \notin {"idle", "conn"}
       /\ pc[c] = "closed" => lockOwner = c

LockInv == ControlInv /\ OwnerInv /\ LockCoversRun /\ NoLeakedLock

LEMMA LockInit == Init => LockInv
BY MigrateAssumption DEF Init, LockInv, ControlInv, OwnerInv, LockCoversRun, NoLeakedLock,
       Working, ProviderOps, Reads, Rollback

\* A step of a call in the provider, or to its end, that leaves the lock alone.
LEMMA LockKept ==
  ASSUME TypeOK, LockInv, NEW c \in Calls, pc[c] \in ProviderOps,
         UNCHANGED <<lockOwner, holds, unanswered, lost, op>>,
         \A d \in Calls \ {c} : pc'[d] = pc[d] /\ stage'[d] = stage[d],
         \/ pc'[c] \in ProviderOps /\ ~Reads(c) /\ (Rollback(c) => pc'[c] # "status")
         \/ pc'[c] = pc[c]
         \/ pc'[c] = "release" /\ ~Reads(c)
         \/ pc'[c] = "done" /\ Reads(c),
         stage'[c] # "none" => pc'[c] \in ProviderOps,
         stage'[c] = "commit" => pc'[c] = "apply",
         \/ inflight' \subseteq inflight
         \/ inflight' = inflight \cup {c} /\ pc'[c] = "release",
         disturbed' \subseteq disturbed \cup
           {d \in Calls \ {c} : lockOwner = d /\ pc[d] \notin {"lock", "asked"}}
  PROVE  LockInv'
<1> USE MigrateAssumption DEF LockInv, ProviderOps, TypeOK
<1>1. ControlInv'
  BY DEF ControlInv, OwnerInv, Reads, Rollback
<1>2. OwnerInv'
  BY DEF OwnerInv
<1>3. \A d \in Calls : Working(d)' <=> Working(d)
  BY DEF Working, Reads, ControlInv
<1>4. LockCoversRun'
  BY <1>3 DEF LockCoversRun
<1>5. NoLeakedLock'
  BY <1>3 DEF NoLeakedLock
<1> QED
  BY <1>1, <1>2, <1>4, <1>5

\* A grant adds one hold to the session that asked.
LEMMA GrantHolds ==
  ASSUME TypeOK, LockInv, NEW c \in Calls, pc[c] \in {"lock", "asked"}, Grant(c)
  PROVE  /\ lockOwner' = c /\ holds' = unanswered + 1 /\ c \notin lost
         /\ ~Reads(c)
         /\ \A d \in Calls \ {c} :
              lockOwner # d /\ pc[d] # "closed" /\ (Working(d) => d \in lost)
<1> USE MigrateAssumption DEF LockInv, TypeOK
<1>1. lockOwner \in {None, c} /\ lockOwner' = c /\ holds' = holds + 1
  BY DEF Grant
<1>2. ~Reads(c) /\ ~Working(c) /\ c \notin lost
  BY DEF ControlInv, Working, ProviderOps
<1>3. holds = unanswered
  BY <1>1, <1>2 DEF NoLeakedLock, OwnerInv
<1>4. \A d \in Calls \ {c} : lockOwner # d
  BY <1>1
<1> QED
  BY <1>1, <1>2, <1>3, <1>4 DEF OwnerInv, LockCoversRun

LEMMA LockStep == TypeOK /\ LockInv /\ [Next]_vars => LockInv'
<1> SUFFICES ASSUME TypeOK, LockInv, [Next]_vars PROVE LockInv'
  OBVIOUS
<1> USE MigrateAssumption DEF LockInv, Reads, Rollback, ProviderOps, TypeOK, settings,
        database, lock
<1>1. ASSUME NEW c \in Calls, Begin(c) \/ LockConnFails(c) PROVE LockInv'
  BY <1>1 DEF Begin, LockConnFails, Goto, Return, ControlInv, OwnerInv, LockCoversRun,
     NoLeakedLock, Working
<1>2. ASSUME NEW c \in Calls, LockConn(c) PROVE LockInv'
  <2>1. CASE UNCHANGED lockOwner
    BY <1>2, <2>1 DEF LockConn, Goto, ControlInv, OwnerInv, LockCoversRun, NoLeakedLock, Working
  <2>2. ASSUME NEW d \in Calls, Pooled(d), lockOwner' = c PROVE LockInv'
    <3>1. /\ lockOwner = d /\ pc[d] = "done" /\ holds = unanswered /\ ~Working(d)
          /\ pc[c] = "conn" /\ pc' = [pc EXCEPT ![c] = "lock"]
          /\ stage' = [stage EXCEPT ![c] = "none"]
          /\ UNCHANGED <<holds, unanswered, lost, op, inflight, disturbed>>
      BY <1>2, <2>2 DEF LockConn, Pooled, Goto, NoLeakedLock, Working
    <3>2. ControlInv' /\ OwnerInv'
      BY <3>1, <2>2 DEF ControlInv, OwnerInv
    <3>3. LockCoversRun'
      BY <3>1, <2>2 DEF LockCoversRun, Working
    <3>4. NoLeakedLock'
      BY <3>1, <2>2 DEF NoLeakedLock, Working
    <3> QED
      BY <3>2, <3>3, <3>4
  <2> QED
    BY <1>2, <2>1, <2>2 DEF LockConn
<1>3. ASSUME NEW c \in Calls, SessionLock(c) PROVE LockInv'
  <2>1. /\ pc[c] = "lock" /\ Grant(c)
        /\ pc' = [pc EXCEPT ![c] = IF Rollback(c) THEN "version" ELSE "status"]
        /\ stage' = [stage EXCEPT ![c] = "mutex"]
        /\ UNCHANGED <<unanswered, lost, op, inflight, disturbed>>
    BY <1>3 DEF SessionLock, Goto
  <2>2. /\ lockOwner' = c /\ holds' = unanswered + 1 /\ c \notin lost /\ ~Reads(c)
        /\ \A d \in Calls \ {c} :
             lockOwner # d /\ pc[d] # "closed" /\ (Working(d) => d \in lost)
    BY <2>1, GrantHolds
  <2>3. ControlInv' /\ OwnerInv'
    BY <2>1, <2>2 DEF ControlInv, OwnerInv
  <2>4. LockCoversRun' /\ NoLeakedLock'
    BY <2>1, <2>2 DEF LockCoversRun, NoLeakedLock, Working
  <2> QED
    BY <2>3, <2>4
<1>4. ASSUME NEW c \in Calls, SessionLockFails(c) \/ AskDecided(c) PROVE LockInv'
  <2>1. /\ pc[c] \in {"lock", "asked"} /\ pc'[c] \in {"asked", "closed", "done"}
        /\ stage'[c] = "none" /\ UNCHANGED <<lost, op, inflight, disturbed>>
        /\ \A d \in Calls \ {c} : pc'[d] = pc[d] /\ stage'[d] = stage[d]
        /\ pc'[c] = "closed" => lockOwner' = c
    BY <1>4 DEF SessionLockFails, AskDecided, Return, Goto
  <2>2. ~Reads(c) /\ ~Working(c) /\ ~Working(c)' /\ c \notin lost
    BY <2>1 DEF ControlInv, Working
  <2>3. CASE UNCHANGED <<lockOwner, holds, unanswered>>
    <3>1. ControlInv' /\ OwnerInv'
      BY <2>1, <2>2, <2>3 DEF ControlInv, OwnerInv
    <3>2. LockCoversRun' /\ NoLeakedLock'
      BY <2>1, <2>2, <2>3 DEF LockCoversRun, NoLeakedLock, Working
    <3> QED
      BY <3>1, <3>2
  <2>4. CASE Grant(c) /\ unanswered' = unanswered + 1
    <3>1. /\ lockOwner' = c /\ holds' = unanswered'
          /\ \A d \in Calls \ {c} :
               lockOwner # d /\ pc[d] # "closed" /\ (Working(d) => d \in lost)
      BY <2>1, <2>4, GrantHolds
    <3>2. OwnerInv'
      BY <2>1, <2>2, <3>1 DEF OwnerInv
    <3>5. \A d \in Calls : Working(d)' <=> Working(d)
      BY <2>1, <2>2 DEF Working
    <3>6. NoLeakedLock'
      BY <2>2, <2>4, <3>1, <3>5 DEF NoLeakedLock
    <3>3. LockCoversRun' /\ NoLeakedLock'
      BY <2>1, <2>2, <3>1, <3>5, <3>6 DEF LockCoversRun
    <3>4. ControlInv'
      BY <2>1, <2>2, <3>1 DEF ControlInv
    <3> QED
      BY <3>2, <3>3, <3>4
  <2> QED
    BY <1>4, <2>3, <2>4 DEF SessionLockFails, AskDecided, MaybeGranted
<1>5. ASSUME NEW c \in Calls, ProviderLock(c) \/ ProviderConn(c) PROVE LockInv'
  <2>1. stage[c] # "none" /\ stage'[c] \in {"conn", "query"}
    BY <1>5 DEF ProviderLock, ProviderConn
  <2>2. pc[c] \in ProviderOps
    BY <2>1 DEF ControlInv
  <2> QED
    BY <1>5, <2>1, <2>2, LockKept DEF ProviderLock, ProviderConn
<1>6. ASSUME NEW c \in Calls,
             \/ ProviderFails(c) \/ PendingRead(c) \/ CheckForMissing(c)
             \/ DownVersion(c) \/ ApplyCheck(c) \/ ApplyAnswerLost(c)
      PROVE  LockInv'
  <2>1. pc[c] \in ProviderOps
    BY <1>6 DEF ProviderFails, PendingRead, CheckForMissing, DownVersion, ApplyCheck,
       ApplyAnswerLost, ControlInv
  <2>2. /\ UNCHANGED <<lockOwner, holds, unanswered, lost, op, disturbed>>
        /\ \A d \in Calls \ {c} : pc'[d] = pc[d] /\ stage'[d] = stage[d]
        /\ \/ UNCHANGED inflight
           \/ inflight' = inflight \cup {c} /\ pc[c] = "apply" /\ Leave(c, "error")
    BY <1>6 DEF ProviderFails, PendingRead, UsePending, CheckForMissing, DownVersion, RollbackOf,
       ApplyCheck, ApplyAnswerLost, Loop, Leave, Goto
  <2>3. /\ \/ pc'[c] \in ProviderOps /\ ~Reads(c) /\ (Rollback(c) => pc'[c] # "status")
           \/ pc'[c] = pc[c]
           \/ pc'[c] = "release" /\ ~Reads(c)
           \/ pc'[c] = "done" /\ Reads(c)
        /\ stage'[c] # "none" => pc'[c] \in ProviderOps
        /\ stage'[c] = "commit" => pc'[c] = "apply"
    <3>1. CASE ProviderFails(c) \/ ApplyAnswerLost(c)
      BY <3>1 DEF ProviderFails, ApplyAnswerLost, Leave, Goto
    <3>2. CASE PendingRead(c)
      BY <3>2 DEF PendingRead, UsePending, Loop, Leave, Goto, ControlInv
    <3>3. CASE CheckForMissing(c)
      BY <3>3 DEF CheckForMissing, Loop, Leave, Goto, ControlInv
    <3>4. CASE DownVersion(c)
      BY <3>4 DEF DownVersion, RollbackOf, Leave, Goto
    <3>5. CASE ApplyCheck(c)
      BY <3>5 DEF ApplyCheck, Leave, Goto
    <3> QED
      BY <1>6, <3>1, <3>2, <3>3, <3>4, <3>5
  <2>4. \/ inflight' \subseteq inflight
        \/ inflight' = inflight \cup {c} /\ pc'[c] = "release"
    BY <2>2, <2>3 DEF Leave, Goto, ControlInv
  <2> HIDE DEF TypeOK, LockInv
  <2> QED
    BY <2>1, <2>2, <2>3, <2>4, LockKept
<1>7. ASSUME NEW c \in Calls, ApplyCommit(c) PROVE LockInv'
  <2>1. PICK v \in Versions :
          /\ Transaction(c, v)
          /\ IF Rollback(c) THEN Leave(c, "ok") ELSE Loop(c, todo[c] \ {v})
    BY <1>7 DEF ApplyCommit
  <2>2. /\ pc[c] = "apply" /\ ~Reads(c)
        /\ UNCHANGED <<lockOwner, holds, unanswered, lost, op, inflight>>
    BY <1>7 DEF ApplyCommit, ControlInv
  <2>3. /\ \A d \in Calls \ {c} : pc'[d] = pc[d] /\ stage'[d] = stage[d]
        /\ \/ pc'[c] = "release" /\ stage'[c] = "none"
           \/ pc'[c] = "apply" /\ stage'[c] = "mutex"
    BY <2>1, <2>2 DEF Loop, Leave, Goto
  <2>4. disturbed' = disturbed \cup
          {d \in Calls \ {c} : lockOwner = d /\ pc[d] \notin {"lock", "asked"}}
    BY <2>1 DEF Transaction
  <2> HIDE DEF TypeOK, LockInv
  <2> QED
    BY <2>2, <2>3, <2>4, LockKept
<1>8. ASSUME NEW c \in Calls, Unlock(c) PROVE LockInv'
  <2>1. /\ pc[c] = "release" /\ pc' = [pc EXCEPT ![c] = "done"]
        /\ stage' = [stage EXCEPT ![c] = "none"]
        /\ UNCHANGED <<unanswered, lost, op, inflight, disturbed>>
        /\ Working(c) /\ ~Working(c)'
    BY <1>8 DEF Unlock, Goto, Working, ControlInv
  <2>2. CASE c \in lost
    BY <1>8, <2>1, <2>2 DEF Unlock, ControlInv, OwnerInv, LockCoversRun, NoLeakedLock, Working
  <2>3. CASE c \notin lost
    <3>1. /\ lockOwner = c /\ holds = unanswered + 1
          /\ holds' = unanswered /\ lockOwner' = IF holds = 1 THEN None ELSE c
      BY <1>8, <2>1, <2>3 DEF Unlock, LockCoversRun, NoLeakedLock
    <3>2. ControlInv' /\ OwnerInv'
      BY <2>1, <2>3, <3>1 DEF ControlInv, OwnerInv
    <3>3. LockCoversRun' /\ NoLeakedLock'
      BY <2>1, <2>3, <3>1 DEF LockCoversRun, NoLeakedLock, Working
    <3> QED
      BY <3>2, <3>3
  <2> QED
    BY <2>2, <2>3
<1>9. ASSUME NEW c \in Calls, UnlockFails(c) PROVE LockInv'
  BY <1>9 DEF UnlockFails, Goto, ControlInv, OwnerInv, LockCoversRun, NoLeakedLock, Working
<1>10. ASSUME NEW c \in Calls, SessionEnds(c) \/ PooledEnds(c) \/ LockLost(c) PROVE LockInv'
  <2>1. /\ lockOwner = c /\ lockOwner' = None /\ holds' = 0 /\ unanswered' = 0
        /\ \A d \in Calls : pc'[d] = pc[d] \/ (d = c /\ pc[c] = "closed" /\ pc'[c] = "done")
        /\ \A d \in Calls : stage'[d] = stage[d] \/ stage'[d] = "none"
        /\ UNCHANGED <<op, inflight, disturbed>>
        /\ lost' \in {lost, lost \cup {c}} /\ (Working(c) => c \in lost')
        /\ pc'[c] # "closed" /\ (pc[c] \in {"idle", "conn", "lock", "asked"} => lost' = lost)
    <3>1. CASE SessionEnds(c)
      <4>1. /\ pc[c] = "closed" /\ lockOwner = c /\ pc' = [pc EXCEPT ![c] = "done"]
            /\ stage' = [stage EXCEPT ![c] = "none"]
            /\ lockOwner' = None /\ holds' = 0 /\ unanswered' = 0
            /\ UNCHANGED <<op, inflight, disturbed, lost>>
        BY <3>1 DEF SessionEnds, Free, Goto, OwnerInv
      <4> QED
        BY <4>1 DEF Working
    <3>2. CASE PooledEnds(c)
      <4>1. /\ pc[c] = "done" /\ lockOwner = c
            /\ lockOwner' = None /\ holds' = 0 /\ unanswered' = 0
            /\ UNCHANGED <<op, inflight, disturbed, lost, pc, stage>>
        BY <3>2 DEF PooledEnds, Free, Pooled
      <4> QED
        BY <4>1 DEF Working
    <3>3. CASE LockLost(c)
      BY <3>3 DEF LockLost, Free, Working, OwnerInv
    <3> QED
      BY <1>10, <3>1, <3>2, <3>3
  <2>3. ControlInv'
    BY <2>1 DEF ControlInv
  <2>4. OwnerInv'
    BY <2>1 DEF OwnerInv
  <2>5. LockCoversRun'
    BY <2>1 DEF LockCoversRun, Working
  <2>6. NoLeakedLock'
    BY <2>1 DEF NoLeakedLock
  <2> QED
    BY <2>3, <2>4, <2>5, <2>6
<1>11. ASSUME NEW c \in Calls, Lands(c) PROVE LockInv'
  <2>1. /\ UNCHANGED <<lockOwner, holds, unanswered, lost, op, pc, stage>>
        /\ inflight' \subseteq inflight
        /\ disturbed' \subseteq disturbed \cup
             {d \in Calls : lockOwner = d /\ pc[d] \notin {"lock", "asked"}}
    BY <1>11 DEF Lands, Transaction
  <2>2. ControlInv'
    BY <2>1 DEF ControlInv, OwnerInv
  <2> QED
    BY <2>1, <2>2 DEF OwnerInv, LockCoversRun, NoLeakedLock, Working
<1>12. ASSUME NEW r \in Replicas, Crash(r) PROVE LockInv'
  <2>1. /\ UNCHANGED <<lockOwner, holds, unanswered, lost, op, disturbed>>
        /\ inflight' = inflight \cup {c \in Calls : ReplicaOf[c] = r /\ stage[c] = "commit"}
    BY <1>12 DEF Crash
  <2>2. \A c \in Calls :
          \/ pc'[c] = pc[c] /\ stage'[c] = stage[c] /\ (c \in inflight' <=> c \in inflight)
          \/ pc'[c] = pc[c] /\ stage'[c] = "none" /\ pc[c] \in Gone
          \/ /\ pc[c] \notin Gone /\ stage'[c] = "none"
             /\ pc'[c] = IF pc[c] = "lock" THEN "asked"
                         ELSE IF lockOwner = c THEN "closed" ELSE "done"
    BY <1>12, <2>1 DEF Crash
  <2>3. \A c \in Calls : c \in inflight' => c \in inflight \/ pc[c] = "apply"
    BY <2>1 DEF ControlInv
  <2>4. ControlInv'
    BY <2>1, <2>2, <2>3 DEF ControlInv, OwnerInv, Gone
  <2>5. OwnerInv'
    BY <2>1, <2>2 DEF OwnerInv, Gone
  <2>6. LockCoversRun' /\ NoLeakedLock'
    BY <2>1, <2>2 DEF LockCoversRun, NoLeakedLock, Working, Gone
  <2> QED
    BY <2>4, <2>5, <2>6
<1>13. CASE UNCHANGED vars
  BY <1>13 DEF vars, ControlInv, OwnerInv, LockCoversRun, NoLeakedLock, Working
<1> QED
  BY <1>1, <1>2, <1>3, <1>4, <1>5, <1>6, <1>7, <1>8, <1>9, <1>10, <1>11,
     <1>12, <1>13
     DEF Next, Step, Fault, Server, Terminated

LEMMA LockInvariant == Spec => []LockInv
BY LockInit, LockStep, TypeCorrect, PTL DEF Spec

\* Whoever works inside the lock owns it or has lost its session.
THEOREM MutualExclusion == Spec => []LockCoversRun
BY LockInvariant, PTL DEF LockInv

\* What stays with an open session is what a failed SessionLock never told of.
THEOREM LockNeverLeaks == Spec => []NoLeakedLock
BY LockInvariant, PTL DEF LockInv

-----------------------------------------------------------------------------
\* The table: ids are below the identity column's next value, and a version
\* recorded again was recorded without the lock.
TableInv == (\A row \in rows : row.id < nextId) /\ AppliedOnce

\* A transaction of the call can still come: it has one to commit or to land.
At(c) == pc[c] = "apply" \/ c \in inflight

\* What a run with an undisturbed lock has read of the table still holds there.
\* After pending, what it plans is not applied; once the loop runs, a strict run
\* has only versions above every applied one left; a rollback removes the highest.
FreshPlan(c) ==
  Covered(c) =>
    /\ ~Reads(c) /\ ~Rollback(c) /\ (pc[c] = "version" \/ At(c))
       => todo[c] \cap Applied = {}
    /\ ~Reads(c) /\ ~Rollback(c) /\ At(c) /\ ~AllowMissing[ReplicaOf[c]]
       => \A v \in todo[c], u \in Applied : u < v
    /\ Rollback(c) /\ At(c)
       => \E v \in Applied : todo[c] = {v} /\ \A u \in Applied : u <= v

PlanInv == \A c \in Calls : FreshPlan(c)

IInv == TypeOK /\ LockInv /\ TableInv /\ PlanInv

\* The plan of a call survives a step that leaves the table alone, gives the call
\* no lock and moves it to no place where more is asked of it.
LEMMA PlanKept ==
  ASSUME NEW c \in Calls, FreshPlan(c), op' = op, rows' = rows, todo'[c] = todo[c],
         Covered(c)' => Covered(c),
         pc'[c] = "version" => pc[c] = "version",
         At(c)' => At(c)
  PROVE  FreshPlan(c)'
BY DEF FreshPlan, Reads, Rollback, Applied

\* A call outside those places has no plan to keep fresh.
LEMMA NoPlan ==
  ASSUME NEW c \in Calls, pc'[c] \notin {"version", "apply"}, c \notin inflight'
  PROVE  FreshPlan(c)'
BY DEF FreshPlan, At

\* A transaction disturbs whoever has the lock and has read the table.
LEMMA OthersDisturbed ==
  ASSUME LockInv, NEW c \in Calls, NEW v \in Versions, Transaction(c, v), lockOwner' = lockOwner,
         NEW d \in Calls, c # d, pc'[d] = pc[d], inflight' \subseteq inflight, Covered(d)'
  PROVE  pc'[d] \in {"lock", "asked"} /\ FreshPlan(d)'
<1>1. pc[d] \in {"lock", "asked"}
  BY DEF Covered, Transaction
<1>2. d \notin inflight'
  BY <1>1 DEF LockInv, ControlInv
<1> QED
  BY <1>1, <1>2, NoPlan

\* A transaction keeps the table well formed when its version is not applied yet,
\* when it is a rollback, and when it is not made under an undisturbed lock.
LEMMA TransactionTable ==
  ASSUME TypeOK, TableInv, NEW c \in Calls, NEW v \in Versions, Transaction(c, v),
         Covered(c) => Rollback(c) \/ v \notin Applied
  PROVE  TableInv'
<1>1. CASE Rollback(c)
  BY <1>1 DEF Transaction, TableInv, AppliedOnce
<1>2. CASE ~Rollback(c)
  <2> DEFINE new == [id |-> nextId, version |-> v]
  <2>1. /\ rows' = rows \cup {new} /\ nextId' = nextId + 1
        /\ loose \subseteq loose' /\ (Covered(c) \/ nextId \in loose')
    BY <1>2 DEF Transaction
  <2>2. Covered(c) => \A row \in rows : row.version # v
    BY <1>2 DEF Applied
  <2>3. new.id = nextId /\ new.version = v
    OBVIOUS
  <2> HIDE DEF new
  <2>4. \A row \in rows : row.id \in Nat /\ row.id < nextId
    BY DEF TableInv, TypeOK
  <2>5. \A row \in rows' : row.id < nextId'
    BY <2>1, <2>3, <2>4 DEF TypeOK
  <2>6. ASSUME NEW x \in rows', NEW y \in rows', x.version = y.version, x.id < y.id
        PROVE  y.id \in loose'
    <3>1. CASE x \in rows /\ y \in rows
      BY <2>1, <2>6, <3>1 DEF TableInv, AppliedOnce
    <3>2. CASE x = new
      BY <2>1, <2>3, <2>4, <2>6, <3>2 DEF TypeOK
    <3>3. CASE x \in rows /\ y = new
      BY <2>1, <2>2, <2>3, <2>6, <3>3
    <3> QED
      BY <2>1, <2>6, <3>1, <3>2, <3>3
  <2> QED
    BY <2>5, <2>6 DEF TableInv, AppliedOnce
<1> QED
  BY <1>1, <1>2

\* The versions recorded after a transaction.
LEMMA TransactionApplied ==
  ASSUME NEW c \in Calls, NEW v \in Versions, Transaction(c, v)
  PROVE  Applied' = IF Rollback(c) THEN Applied \ {v} ELSE Applied \cup {v}
<1>1. CASE Rollback(c)
  BY <1>1 DEF Transaction, Applied
<1>2. CASE ~Rollback(c)
  <2>1. rows' = rows \cup {[id |-> nextId, version |-> v]}
    BY <1>2 DEF Transaction
  <2> DEFINE new == [id |-> nextId, version |-> v]
  <2>2. new.version = v
    OBVIOUS
  <2>3. rows' = rows \cup {new}
    BY <2>1
  <2> HIDE DEF new
  <2>4. ASSUME NEW x PROVE x \in Applied' <=> x \in Applied \cup {v}
    BY <2>2, <2>3 DEF Applied
  <2> QED
    BY <1>2, <2>4
<1> QED
  BY <1>1, <1>2

LEMMA PlanInit == Init => TableInv /\ PlanInv
BY DEF Init, TableInv, AppliedOnce, PlanInv, FreshPlan, At

\* The transaction of a call: the table stays well formed and every other call's
\* plan stays fresh.
LEMMA OneCommits ==
  ASSUME IInv, NEW c \in Calls, At(c), NEW v \in Versions, IsNext(c, v), Transaction(c, v),
         UNCHANGED lockOwner, inflight' \subseteq inflight,
         \A d \in Calls \ {c} : pc'[d] = pc[d]
  PROVE  TableInv' /\ \A d \in Calls \ {c} : FreshPlan(d)'
<1>1. ~Reads(c)
  BY DEF IInv, LockInv, ControlInv, At
<1>2. Covered(c) => Rollback(c) \/ v \notin Applied
  BY <1>1 DEF IInv, PlanInv, FreshPlan, IsNext
<1>3. TableInv'
  BY <1>2, TransactionTable DEF IInv
<1>4. ASSUME NEW d \in Calls \ {c} PROVE FreshPlan(d)'
  <2>1. CASE Covered(d)'
    BY <2>1, OthersDisturbed DEF IInv
  <2>2. CASE ~Covered(d)'
    BY <2>2 DEF FreshPlan
  <2> QED
    BY <2>1, <2>2
<1> QED
  BY <1>3, <1>4

LEMMA PlanStep == IInv /\ [Next]_vars => TableInv' /\ PlanInv'
<1> SUFFICES ASSUME IInv, [Next]_vars PROVE TableInv' /\ PlanInv'
  OBVIOUS
<1> USE DEF database, lock, settings, progress
<1>a. TypeOK /\ LockInv /\ TableInv /\ PlanInv
  BY DEF IInv
<1>b. ASSUME UNCHANGED <<rows, nextId, loose>> PROVE TableInv'
  BY <1>a, <1>b DEF TableInv, AppliedOnce
\* A step of one call that leaves the table alone concerns only its own plan.
<1>c. ASSUME NEW c \in Calls, UNCHANGED <<rows, nextId, loose, op, disturbed>>,
             lockOwner' \in {lockOwner, None, c}, inflight' \subseteq inflight \cup {c},
             \A d \in Calls \ {c} : pc'[d] = pc[d] /\ todo'[d] = todo[d],
             FreshPlan(c)'
      PROVE  TableInv' /\ PlanInv'
  <2>1. ASSUME NEW d \in Calls \ {c} PROVE FreshPlan(d)'
    <3>1. (Covered(d)' => Covered(d)) /\ (At(d)' => At(d))
      BY <1>c, <1>a, MigrateAssumption DEF Covered, At
    <3> QED
      BY <1>c, <1>a, <3>1, PlanKept DEF PlanInv
  <2> QED
    BY <1>b, <1>c, <2>1 DEF PlanInv
<1>1. ASSUME NEW c \in Calls, Begin(c) \/ LockConnFails(c) PROVE TableInv' /\ PlanInv'
  <2>1. /\ pc[c] \in {"idle", "conn"} /\ pc'[c] \in {"status", "conn", "done"}
        /\ UNCHANGED <<rows, nextId, loose, op, disturbed, lockOwner, inflight, todo>>
        /\ \A d \in Calls \ {c} : pc'[d] = pc[d]
    BY <1>1, <1>a DEF Begin, LockConnFails, Return, Goto, TypeOK
  <2>2. FreshPlan(c)'
    BY <2>1, <1>a, NoPlan DEF LockInv, ControlInv
  <2> QED
    BY <2>1, <2>2, <1>c
<1>2. ASSUME NEW c \in Calls, LockConn(c) \/ SessionLockFails(c) \/ AskDecided(c)
      PROVE  TableInv' /\ PlanInv'
  <2>1. /\ pc[c] \in {"conn", "lock", "asked"}
        /\ pc'[c] \in {"lock", "asked", "closed", "done"}
        /\ UNCHANGED <<rows, nextId, loose, op, disturbed, inflight, todo>>
        /\ lockOwner' \in {lockOwner, c}
        /\ \A d \in Calls \ {c} : pc'[d] = pc[d]
    BY <1>2, <1>a DEF LockConn, SessionLockFails, AskDecided, MaybeGranted, Grant, Return,
       Goto, TypeOK
  <2>2. FreshPlan(c)'
    BY <2>1, <1>a, NoPlan DEF LockInv, ControlInv
  <2> QED
    BY <2>1, <2>2, <1>c
<1>3. ASSUME NEW c \in Calls, SessionLock(c) PROVE TableInv' /\ PlanInv'
  <2>1. /\ pc[c] = "lock" /\ pc'[c] = (IF Rollback(c) THEN "version" ELSE "status")
        /\ UNCHANGED <<rows, nextId, loose, op, disturbed, inflight, todo>>
        /\ lockOwner' = c
        /\ \A d \in Calls \ {c} : pc'[d] = pc[d]
    BY <1>3, <1>a DEF SessionLock, Grant, Goto, TypeOK
  <2>2. ~At(c)' /\ (Rollback(c)' <=> Rollback(c))
    BY <2>1, <1>a DEF LockInv, ControlInv, At, Rollback
  <2>3. FreshPlan(c)'
    BY <2>1, <2>2 DEF FreshPlan
  <2> QED
    BY <2>1, <2>3, <1>c
<1>4. ASSUME NEW c \in Calls, ProviderLock(c) \/ ProviderConn(c)
      PROVE  TableInv' /\ PlanInv'
  <2>1. UNCHANGED <<rows, nextId, loose, op, disturbed, lockOwner, inflight, todo, pc>>
    BY <1>4 DEF ProviderLock, ProviderConn
  <2>2. FreshPlan(c)'
    BY <2>1, <1>a, PlanKept DEF PlanInv, Covered, At
  <2> QED
    BY <2>1, <2>2, <1>c
<1>5. ASSUME NEW c \in Calls, ProviderFails(c) \/ ApplyCheck(c) \/ ApplyAnswerLost(c)
      PROVE  TableInv' /\ PlanInv'
  <2>1. /\ pc'[c] \in {pc[c], "release", "done"}
        /\ UNCHANGED <<rows, nextId, loose, op, disturbed, lockOwner, todo>>
        /\ inflight' = inflight \/ (inflight' = inflight \cup {c} /\ pc[c] = "apply")
        /\ \A d \in Calls \ {c} : pc'[d] = pc[d]
    BY <1>5, <1>a DEF ProviderFails, ApplyCheck, ApplyAnswerLost, Leave, Goto, TypeOK
  <2>2. FreshPlan(c)'
    BY <2>1, <1>a, PlanKept DEF PlanInv, Covered, At
  <2> QED
    BY <2>1, <2>2, <1>c
<1>6. ASSUME NEW c \in Calls, PendingRead(c) PROVE TableInv' /\ PlanInv'
  <2> DEFINE pending == Known[ReplicaOf[c]] \ Applied
  <2>1. /\ UsePending(c, pending) /\ pc[c] = "status"
        /\ UNCHANGED <<rows, nextId, loose, op, disturbed, lockOwner, inflight>>
    BY <1>6 DEF PendingRead
  <2>2. /\ pc'[c] \in {"version", "apply", "release", "done"}
        /\ pc'[c] \in {"version", "apply"} => todo'[c] = pending
        /\ pc'[c] = "apply" => AllowMissing[ReplicaOf[c]]
    BY <2>1, <1>a DEF UsePending, Loop, Leave, Goto, TypeOK
  <2>3. \A d \in Calls \ {c} : pc'[d] = pc[d] /\ todo'[d] = todo[d]
    BY <2>1, <1>a DEF UsePending, Loop, Leave, Goto, TypeOK
  <2>4. FreshPlan(c)'
    <3>1. ~Rollback(c) /\ c \notin inflight
      BY <1>a, <2>1 DEF LockInv, ControlInv
    <3>2. (Rollback(c)' <=> Rollback(c)) /\ Applied' = Applied
      BY <2>1 DEF Rollback, Applied
    <3> QED
      BY <2>1, <2>2, <3>1, <3>2 DEF FreshPlan, At
  <2> QED
    BY <2>1, <2>3, <2>4, <1>c
<1>7. ASSUME NEW c \in Calls, CheckForMissing(c) PROVE TableInv' /\ PlanInv'
  <2>1. /\ UNCHANGED <<rows, nextId, loose, op, disturbed, lockOwner, inflight, todo>>
        /\ pc[c] = "version" /\ ~Rollback(c) /\ \A d \in Calls \ {c} : pc'[d] = pc[d]
    BY <1>7, <1>a DEF CheckForMissing, Loop, Leave, Goto, TypeOK
  <2>2. c \notin inflight
    BY <2>1, <1>a DEF LockInv, ControlInv
  <2>3. CASE \E v \in todo[c], u \in Applied : v < u
    <3>1. pc'[c] \in {"release", "done"}
      BY <1>7, <2>3, <1>a DEF CheckForMissing, Leave, Goto, TypeOK
    <3> QED
      BY <2>1, <2>2, <3>1, <1>c, NoPlan
  <2>4. CASE ~ \E v \in todo[c], u \in Applied : v < u
    <3>1. Covered(c) => todo[c] \cap Applied = {} \/ Reads(c)
      BY <2>1, <1>a DEF PlanInv, FreshPlan
    <3>2. todo[c] \subseteq Nat /\ Applied \subseteq Nat
      <4>1. todo[c] \subseteq Versions
        BY <1>a DEF TypeOK
      <4>2. Applied \subseteq Versions
        BY <1>a DEF TypeOK, Applied
      <4> QED
        BY <4>1, <4>2, MigrateAssumption
    <3>3. ASSUME Covered(c), ~Reads(c), NEW v \in todo[c], NEW u \in Applied PROVE u < v
      <4>1. v \in Nat /\ u \in Nat /\ u # v
        BY <3>1, <3>2, <3>3
      <4>2. ~(v < u)
        BY <2>4
      <4> QED
        BY <4>1, <4>2
    <3>4. /\ Applied' = Applied /\ (Covered(c)' => Covered(c))
          /\ (Rollback(c)' <=> Rollback(c)) /\ (Reads(c)' <=> Reads(c))
      BY <2>1 DEF Rollback, Reads, Applied, Covered
    <3>5. FreshPlan(c)'
      BY <2>1, <3>1, <3>3, <3>4 DEF FreshPlan
    <3> QED
      BY <2>1, <3>5, <1>c
  <2> QED
    BY <2>3, <2>4
<1>8. ASSUME NEW c \in Calls, DownVersion(c) PROVE TableInv' /\ PlanInv'
  <2>1. /\ UNCHANGED <<rows, nextId, loose, op, disturbed, lockOwner, inflight>>
        /\ pc[c] = "version" /\ Rollback(c) /\ Rollback(c)'
        /\ \A d \in Calls \ {c} : pc'[d] = pc[d] /\ todo'[d] = todo[d]
    BY <1>8, <1>a DEF DownVersion, RollbackOf, Leave, Goto, TypeOK, Rollback
  <2>2. c \notin inflight
    BY <2>1, <1>a DEF LockInv, ControlInv
  <2>3. CASE Leave(c, "error")
    <3>1. pc'[c] \in {"release", "done"}
      BY <2>3, <1>a DEF Leave, Goto, TypeOK
    <3> QED
      BY <2>1, <2>2, <3>1, <1>c, NoPlan
  <2>4. ASSUME NEW v \in Applied, \A u \in Applied : u <= v, RollbackOf(c, v)
        PROVE  TableInv' /\ PlanInv'
    <3>1. todo'[c] = {v} /\ Applied' = Applied
      BY <2>1, <2>4, <1>a DEF RollbackOf, TypeOK, Applied
    <3>2. FreshPlan(c)'
      BY <2>1, <2>4, <3>1 DEF FreshPlan
    <3> QED
      BY <2>1, <3>2, <1>c
  <2> QED
    BY <1>8, <2>3, <2>4 DEF DownVersion
<1>9. ASSUME NEW c \in Calls, ApplyCommit(c) PROVE TableInv' /\ PlanInv'
  <2>1. PICK v \in Versions :
          /\ IsNext(c, v)
          /\ Transaction(c, v)
          /\ todo' = [todo EXCEPT ![c] = @ \ {v}]
          /\ IF Rollback(c) THEN Leave(c, "ok") ELSE Loop(c, todo[c] \ {v})
    BY <1>9 DEF ApplyCommit
  <2>2. /\ UNCHANGED <<op, lockOwner, inflight>> /\ pc[c] = "apply" /\ ~Reads(c)
        /\ c \notin inflight /\ At(c)
    BY <1>9, <1>a DEF ApplyCommit, LockInv, ControlInv, At
  <2>3. \A d \in Calls \ {c} : pc'[d] = pc[d]
    BY <2>1, <1>a DEF Loop, Leave, Goto, TypeOK
  <2>4. TableInv' /\ \A d \in Calls \ {c} : FreshPlan(d)'
    BY <2>1, <2>2, <2>3, OneCommits
  <2>5. FreshPlan(c)'
    <3>1. CASE pc'[c] # "apply"
      <4>1. pc'[c] \in {"release", "done"}
        BY <2>1, <3>1, <1>a DEF Loop, Leave, Goto, TypeOK
      <4> QED
        BY <2>2, <4>1, NoPlan
    <3>2. CASE pc'[c] = "apply"
      <4>1. ~Rollback(c)
        BY <2>1, <3>2, <1>a DEF Leave, Goto, TypeOK
      <4>2. Applied' = Applied \cup {v} /\ todo'[c] = todo[c] \ {v}
        BY <2>1, <4>1, <1>a, TransactionApplied DEF TypeOK
      <4>3. /\ (Rollback(c)' <=> Rollback(c)) /\ (Reads(c)' <=> Reads(c))
            /\ Covered(c)' => Covered(c)
        BY <2>1, <2>2 DEF Rollback, Reads, Covered, Transaction
      <4>4. \A u \in todo[c] : v <= u
        BY <2>1 DEF IsNext
      <4>5. Covered(c) =>
              /\ todo[c] \cap Applied = {}
              /\ ~AllowMissing[ReplicaOf[c]] => \A w \in todo[c], u \in Applied : u < w
        BY <2>2, <4>1, <1>a DEF PlanInv, FreshPlan
      <4>6. todo[c] \subseteq Nat /\ v \in Nat
        BY <1>a, MigrateAssumption DEF TypeOK
      <4>7. ASSUME Covered(c), ~AllowMissing[ReplicaOf[c]],
                   NEW w \in todo'[c], NEW u \in Applied'
            PROVE  u < w
        BY <4>2, <4>4, <4>5, <4>6, <4>7
      <4>8. Covered(c) => todo'[c] \cap Applied' = {}
        BY <4>2, <4>5
      <4> QED
        BY <4>1, <4>3, <4>7, <4>8 DEF FreshPlan
    <3> QED
      BY <3>1, <3>2
  <2> QED
    BY <2>4, <2>5 DEF PlanInv
<1>10. ASSUME NEW c \in Calls, Lands(c) PROVE TableInv' /\ PlanInv'
  <2>1. /\ UNCHANGED <<op, todo, lockOwner, pc>> /\ c \in inflight
        /\ inflight' = inflight \ {c} /\ At(c)
    BY <1>10 DEF Lands, At
  <2>2. FreshPlan(c)'
    BY <2>1, <1>a, NoPlan DEF LockInv, ControlInv
  <2>3. CASE \E v \in Versions : IsNext(c, v) /\ Transaction(c, v)
    BY <2>1, <2>2, <2>3, OneCommits DEF PlanInv
  <2>4. CASE UNCHANGED <<rows, nextId, disturbed, loose>>
    BY <2>1, <2>2, <2>4, <1>c
  <2> QED
    BY <1>10, <2>3, <2>4 DEF Lands
<1>11. ASSUME NEW c \in Calls, Unlock(c) \/ UnlockFails(c) \/ SessionEnds(c)
                                \/ PooledEnds(c) \/ LockLost(c)
       PROVE  TableInv' /\ PlanInv'
  <2>1. /\ pc'[c] \in {pc[c], "closed", "done"} /\ lockOwner' \in {lockOwner, None}
        /\ UNCHANGED <<rows, nextId, loose, op, disturbed, inflight, todo>>
        /\ \A d \in Calls \ {c} : pc'[d] = pc[d]
    BY <1>11, <1>a DEF Unlock, UnlockFails, SessionEnds, PooledEnds, LockLost, Free, Goto, TypeOK
  <2>2. (Covered(c)' => Covered(c)) /\ (At(c)' => At(c))
    BY <2>1, MigrateAssumption DEF Covered, At
  <2>3. FreshPlan(c)'
    BY <2>1, <2>2, <1>a, PlanKept DEF PlanInv
  <2> QED
    BY <2>1, <2>3, <1>c
<1>12. ASSUME NEW r \in Replicas, Crash(r) PROVE TableInv' /\ PlanInv'
  <2>1. /\ UNCHANGED <<rows, nextId, loose, op, disturbed, lockOwner, todo>>
        /\ inflight' = inflight \cup {c \in Calls : ReplicaOf[c] = r /\ stage[c] = "commit"}
        /\ \A d \in Calls : pc'[d] \in {pc[d], "asked", "closed", "done"}
    BY <1>12 DEF Crash
  <2>2. \A d \in Calls : (Covered(d)' => Covered(d)) /\ (At(d)' => At(d))
    BY <2>1, <1>a DEF Covered, At, LockInv, ControlInv
  <2> QED
    BY <2>1, <2>2, <1>a, <1>b, PlanKept DEF PlanInv
<1>13. CASE UNCHANGED vars
  BY <1>13, <1>a, <1>b, PlanKept DEF vars, PlanInv, Covered, At
<1> QED
  BY <1>1, <1>2, <1>3, <1>4, <1>5, <1>6, <1>7, <1>8, <1>9, <1>10, <1>11,
     <1>12, <1>13
     DEF Next, Step, Fault, Server, Terminated

\* The inductive invariant: types, the lock, the table and the plans.
THEOREM InductiveInvariant == Spec => []IInv
<1>1. Init => IInv
  BY TypeInit, LockInit, PlanInit DEF IInv
<1>2. IInv /\ [Next]_vars => IInv'
  BY TypeStep, LockStep, PlanStep DEF IInv
<1> QED
  BY <1>1, <1>2, PTL DEF Spec

\* Only outside of the lock, or disturbed by a transaction that landed late, is a
\* version recorded twice, however runs, failures and crashes interleave.
THEOREM NoVersionAppliedTwice == Spec => []AppliedOnce
<1>1. IInv => AppliedOnce
  BY DEF IInv, TableInv
<1> QED
  BY <1>1, InductiveInvariant, PTL

\* The plan of a run with an undisturbed lock stays clear of what the table holds.
THEOREM PlansStayFresh == Spec => []PlanIsFresh
<1>1. IInv => PlanIsFresh
  BY DEF IInv, LockInv, ControlInv, PlanInv, FreshPlan, PlanIsFresh, At
<1> QED
  BY <1>1, InductiveInvariant, PTL

-----------------------------------------------------------------------------
\* Every version a strict run commits under its undisturbed lock is above those it
\* finds in the table.
LEMMA AscendingStep ==
  ASSUME IInv, [Next]_vars, NEW c \in Calls, committed'[c] # committed[c], Covered(c),
         ~Rollback(c), ~AllowMissing[ReplicaOf[c]]
  PROVE  \A v \in committed'[c] \ committed[c], u \in Applied : u < v
<1> USE DEF database, lock, settings, progress
<1>a. TypeOK /\ LockInv /\ PlanInv
  BY DEF IInv
<1>1. PICK v \in Versions : At(c) /\ IsNext(c, v) /\ Transaction(c, v)
  <2> DEFINE Commits(d) == ApplyCommit(d) \/ Lands(d)
  <2>1. ASSUME NEW d \in Calls, Step(d) \/ Fault(d) \/ Server(d)
        PROVE  committed' = committed \/ Commits(d)
    BY <2>1 DEF Step, Fault, Server, Begin, LockConn, LockConnFails, SessionLock,
                SessionLockFails, ProviderLock, ProviderConn, ProviderFails,
                PendingRead, CheckForMissing, DownVersion, ApplyCheck, ApplyAnswerLost,
                Unlock, UnlockFails, AskDecided, SessionEnds, PooledEnds, LockLost
  <2>2. ASSUME NEW r \in Replicas, Crash(r) PROVE committed' = committed
    BY <2>2 DEF Crash
  <2>3. ASSUME UNCHANGED vars \/ Terminated PROVE committed' = committed
    BY <2>3 DEF vars, Terminated
  <2>4. committed' # committed
    OBVIOUS
  <2>5. PICK d \in Calls : Commits(d)
    <3>1. ASSUME NEW d \in Calls, Lands(d) PROVE Commits(d)
      BY <3>1
    <3> HIDE DEF Commits
    <3> QED
      BY <2>1, <2>2, <2>3, <2>4, <3>1 DEF Next
  <2>6. \/ committed' = committed
        \/ At(d) /\ \E v \in Versions : IsNext(d, v) /\ Transaction(d, v)
    BY <2>5 DEF ApplyCommit, Lands, At
  <2>7. PICK v \in Versions : IsNext(d, v) /\ Transaction(d, v)
    BY <2>4, <2>6
  <2>8. d = c
    BY <2>7, <1>a DEF Transaction, TypeOK
  <2> QED
    BY <2>4, <2>6, <2>7, <2>8
<1>2. ~Reads(c)
  BY <1>1, <1>a DEF LockInv, ControlInv, At
<1>3. committed'[c] \ committed[c] \subseteq {v}
  BY <1>1, <1>a DEF Transaction, TypeOK
<1>4. \A u \in Applied : u < v
  BY <1>1, <1>2, <1>a DEF PlanInv, FreshPlan, IsNext
<1> QED
  BY <1>3, <1>4

\* Under its undisturbed lock a strict migrator never adds a version below one that
\* is there already.
THEOREM StrictRunsAscend == Spec => StrictlyAscending
<1>1. IInv /\ [Next]_vars =>
        [\A c \in Calls :
           /\ committed'[c] # committed[c] /\ Covered(c)
           /\ ~Rollback(c) /\ ~AllowMissing[ReplicaOf[c]]
           => \A v \in committed'[c] \ committed[c], u \in Applied : u < v]_vars
  BY AscendingStep
<1> QED
  BY <1>1, InductiveInvariant, PTL DEF Spec, StrictlyAscending

-----------------------------------------------------------------------------
(* Refinement of the serialised migrations. *)

\* The call whose session has the lock has been told so, or its session is
\* waiting to end: it counts as the owner.
Holding(c) == Working(c) \/ pc[c] = "closed"

LEMMA OwnerIs ==
  /\ \A c \in Calls : lockOwner = c /\ Holding(c) => Owner = c
  /\ (\A c \in Calls : lockOwner = c => ~Holding(c)) => Owner = None
BY DEF Owner, Holding

\* The owner stays when the lock does and its holder keeps holding it.
LEMMA OwnerKept ==
  ASSUME UNCHANGED lockOwner, \A c \in Calls : lockOwner = c => (Holding(c)' <=> Holding(c))
  PROVE  Owner' = Owner
BY DEF Owner, Holding

LEMMA NobodyOwns ==
  ASSUME \A c \in Calls : lockOwner' = c => ~Holding(c)'
  PROVE  Owner' = None
BY DEF Owner, Holding

LEMMA SerialRecorded == Serial!Recorded = Applied
BY DEF Serial!Recorded, Applied

\* With the owner and its disturbance unchanged, and the table, nothing happens.
LEMMA SerialStutters ==
  ASSUME Owner' = Owner, UNCHANGED <<rows, nextId, disturbed>>
  PROVE  UNCHANGED Serial!avars
BY DEF Serial!avars

\* A transaction is a Record or a Revert of its version by the owner, or intrudes.
LEMMA CommitIsSerial ==
  ASSUME IInv, NEW c \in Calls, At(c), NEW v \in Versions, IsNext(c, v), Transaction(c, v),
         UNCHANGED lockOwner, Owner' = Owner
  PROVE  Serial!AbsNext
<1>a. TypeOK /\ LockInv /\ PlanInv
  BY DEF IInv
<1>1. CASE Owner = c /\ c \notin disturbed
  <2>1. ~Reads(c)
    BY <1>a DEF LockInv, ControlInv, At
  <2>2. Owner # None /\ lockOwner = c /\ Covered(c)
    BY <1>1, MigrateAssumption DEF Owner, Covered
  <2>3. (Owner' \in disturbed') <=> (Owner \in disturbed)
    BY <1>1 DEF Transaction
  <2>4. CASE Rollback(c)
    <3>1. v \in Applied /\ \A u \in Applied : u <= v
      BY <1>a, <2>2, <2>4 DEF PlanInv, FreshPlan, IsNext
    <3>2. Serial!Delete(v)
      BY <2>4 DEF Serial!Delete, Transaction
    <3>3. Serial!Revert(v)
      BY <2>2, <2>3, <3>1, <3>2, SerialRecorded DEF Serial!Revert
    <3> QED
      BY <3>3 DEF Serial!AbsNext
  <2>5. CASE ~Rollback(c)
    <3>1. v \notin Applied
      BY <1>a, <2>1, <2>2, <2>5 DEF PlanInv, FreshPlan, IsNext
    <3>2. Owner \in {d \in Calls : ~AllowMissing[ReplicaOf[d]]} => \A u \in Applied : u < v
      BY <1>1, <1>a, <2>1, <2>2, <2>5 DEF PlanInv, FreshPlan, IsNext
    <3>3. Serial!Insert(v)
      BY <2>5 DEF Serial!Insert, Transaction
    <3>4. Serial!Record(v)
      BY <2>2, <2>3, <3>1, <3>2, <3>3, SerialRecorded DEF Serial!Record
    <3> QED
      BY <3>4 DEF Serial!AbsNext
  <2> QED
    BY <2>4, <2>5
<1>2. CASE ~(Owner = c /\ c \notin disturbed)
  <2>1. Serial!Insert(v) \/ Serial!Delete(v)
    BY DEF Serial!Insert, Serial!Delete, Transaction
  <2>2. CASE Owner = None
    <3>1. Owner' \notin disturbed'
      BY <1>a, <2>2, TransactionType, MigrateAssumption
    <3>2. Serial!Intrude(v)
      BY <2>1, <2>2, <3>1 DEF Serial!Intrude
    <3> QED
      BY <3>2 DEF Serial!AbsNext
  <2>3. CASE Owner # None
    <3>1. PICK d \in Calls : Owner = d /\ lockOwner = d /\ (Working(d) \/ pc[d] = "closed")
      BY <2>3 DEF Owner
    <3>2. pc[d] \notin {"lock", "asked"}
      BY <3>1 DEF Working, ProviderOps
    <3>3. Owner' \in disturbed'
      BY <1>2, <3>1, <3>2 DEF Transaction
    <3>4. Serial!Intrude(v)
      BY <2>1, <2>3, <3>3 DEF Serial!Intrude
    <3> QED
      BY <3>4 DEF Serial!AbsNext
  <2> QED
    BY <2>2, <2>3
<1> QED
  BY <1>1, <1>2

LEMMA SerialStep == IInv /\ [Next]_vars => [Serial!AbsNext]_(Serial!avars)
<1> SUFFICES ASSUME IInv, [Next]_vars PROVE [Serial!AbsNext]_(Serial!avars)
  OBVIOUS
<1> USE DEF database, lock, settings, progress
<1>a. TypeOK /\ LockInv
  BY DEF IInv
<1>b. \A c \in Calls : Owner = c <=> lockOwner = c /\ Holding(c)
  BY OwnerIs, MigrateAssumption DEF Owner, Holding
\* The owner frees the lock.
<1>c. ASSUME NEW c \in Calls, lockOwner = c, Holding(c), Owner' = None,
             UNCHANGED <<rows, nextId>>, disturbed' = disturbed
      PROVE  Serial!AbsNext
  <2>1. Owner # None
    BY <1>b, <1>c, MigrateAssumption
  <2>2. Owner' \notin disturbed'
    BY <1>a, <1>c, MigrateAssumption DEF TypeOK
  <2>3. Serial!Yield
    BY <1>c, <2>1, <2>2 DEF Serial!Yield
  <2> QED
    BY <2>3 DEF Serial!AbsNext
\* A call is granted the free lock.
<1>d. ASSUME NEW c \in Calls, pc[c] \in {"lock", "asked"}, lockOwner \in {None, c},
             lockOwner' = c, Holding(c)',
             UNCHANGED <<rows, nextId, disturbed>>
      PROVE  Serial!AbsNext
  <2>1. Owner = None
    <3>1. ~Holding(c)
      BY <1>d DEF Holding, Working, ProviderOps
    <3> QED
      BY <1>d, <3>1, OwnerIs, MigrateAssumption
  <2>2. Owner' = c
    BY <1>d DEF Owner, Holding
  <2>3. Owner' \notin disturbed'
    BY <1>a, <1>d, <2>2 DEF LockInv, ControlInv
  <2>4. Serial!Acquire(c)
    BY <1>d, <2>1, <2>2, <2>3 DEF Serial!Acquire
  <2> QED
    BY <2>4 DEF Serial!AbsNext
<1>1. ASSUME NEW c \in Calls, SessionLock(c) PROVE Serial!AbsNext
  <2>1. /\ pc[c] = "lock" /\ lockOwner \in {None, c} /\ lockOwner' = c
        /\ pc'[c] \in {"version", "status"} /\ UNCHANGED <<rows, nextId, disturbed, op>>
    BY <1>1, <1>a DEF SessionLock, Grant, Goto, TypeOK
  <2>2. Holding(c)'
    BY <1>a, <2>1 DEF Holding, Working, ProviderOps, LockInv, ControlInv, Reads
  <2> QED
    BY <1>d, <2>1, <2>2
<1>2. ASSUME NEW c \in Calls, AskDecided(c)
      PROVE  Serial!AbsNext \/ UNCHANGED Serial!avars
  <2>1. /\ pc[c] = "asked" /\ lockOwner' \in {lockOwner, c} /\ UNCHANGED <<rows, nextId, disturbed, op>>
        /\ lockOwner' = c => lockOwner \in {None, c}
        /\ pc' = [pc EXCEPT ![c] = IF lockOwner' = c THEN "closed" ELSE "done"]
    BY <1>2, <1>a DEF AskDecided, MaybeGranted, Grant, Goto, TypeOK
  <2>2. CASE lockOwner' = c
    <3>1. Holding(c)'
      BY <1>a, <2>1, <2>2 DEF Holding, TypeOK
    <3> QED
      BY <1>d, <2>1, <2>2, <3>1
  <2>3. CASE lockOwner' # c
    <3>1. lockOwner' = lockOwner /\ \A d \in Calls : lockOwner = d => (Holding(d)' <=> Holding(d))
      BY <1>a, <2>1, <2>3 DEF Holding, Working, Reads, TypeOK
    <3> QED
      BY <2>1, <3>1, OwnerKept, SerialStutters
  <2> QED
    BY <2>2, <2>3
<1>3. ASSUME NEW c \in Calls, Unlock(c)
      PROVE  Serial!AbsNext \/ UNCHANGED Serial!avars
  <2>1. /\ pc[c] = "release" /\ pc' = [pc EXCEPT ![c] = "done"]
        /\ UNCHANGED <<rows, nextId, disturbed, op>>
    BY <1>3 DEF Unlock, Goto
  <2>2. Holding(c) /\ ~Holding(c)'
    BY <1>a, <2>1 DEF Holding, Working, ProviderOps, LockInv, ControlInv, TypeOK
  <2>3. CASE c \in lost
    <3>1. UNCHANGED lockOwner /\ lockOwner # c
      BY <1>3, <1>a, <2>3 DEF Unlock, LockInv, OwnerInv
    <3>2. \A d \in Calls : lockOwner = d => (Holding(d)' <=> Holding(d))
      BY <1>a, <2>1, <3>1 DEF Holding, Working, Reads, TypeOK
    <3> QED
      BY <2>1, <3>1, <3>2, OwnerKept, SerialStutters
  <2>4. CASE c \notin lost
    <3>1. lockOwner = c /\ lockOwner' \in {None, c}
      BY <1>3, <1>a, <2>2, <2>4, <2>1 DEF Unlock, LockInv, LockCoversRun, Holding
    <3>2. Owner' = None
      BY <2>2, <3>1, NobodyOwns, MigrateAssumption
    <3> QED
      BY <1>c, <2>1, <2>2, <3>1, <3>2
  <2> QED
    BY <2>3, <2>4
<1>4. ASSUME NEW c \in Calls, SessionEnds(c) \/ LockLost(c) PROVE Serial!AbsNext
  <2>1. lockOwner = c /\ Holding(c) /\ lockOwner' = None /\ UNCHANGED <<rows, nextId, disturbed>>
    BY <1>4, <1>a DEF SessionEnds, LockLost, Free, Holding, LockInv, OwnerInv
  <2>2. Owner' = None
    BY <2>1, NobodyOwns, MigrateAssumption
  <2> QED
    BY <1>c, <2>1, <2>2
<1>5. ASSUME NEW c \in Calls, PooledEnds(c) PROVE UNCHANGED Serial!avars
  <2>1. lockOwner = c /\ ~Holding(c) /\ lockOwner' = None /\ UNCHANGED <<rows, nextId, disturbed>>
    BY <1>5 DEF PooledEnds, Pooled, Free, Holding, Working, ProviderOps
  <2>2. Owner = None /\ Owner' = None
    BY <2>1, OwnerIs, NobodyOwns, MigrateAssumption
  <2> QED
    BY <2>1, <2>2, SerialStutters
<1>6. ASSUME NEW c \in Calls, LockConn(c) \/ SessionLockFails(c) PROVE UNCHANGED Serial!avars
  <2>1. /\ pc[c] \in {"conn", "lock"} /\ pc'[c] \in {"lock", "asked", "done"}
        /\ \A d \in Calls \ {c} : pc'[d] = pc[d]
        /\ UNCHANGED <<rows, nextId, disturbed, op>>
        /\ \/ lockOwner' = lockOwner
           \/ /\ lockOwner' = c
              /\ lockOwner \in {None, c} \/ \E d \in Calls : lockOwner = d /\ pc[d] = "done"
    BY <1>6, <1>a DEF LockConn, SessionLockFails, MaybeGranted, Grant, Pooled, Return, Goto, TypeOK
  <2>2. ~Holding(c) /\ ~Holding(c)' /\ \A d \in Calls : pc[d] = "done" => ~Holding(d)
    BY <2>1 DEF Holding, Working, ProviderOps
  <2>3. CASE lockOwner' = lockOwner
    <3>1. \A d \in Calls : Holding(d)' <=> Holding(d)
      BY <2>1, <2>2 DEF Holding, Working, Reads
    <3> QED
      BY <2>1, <2>3, <3>1, OwnerKept, SerialStutters
  <2>4. CASE lockOwner' = c /\ (lockOwner \in {None, c} \/ \E d \in Calls : lockOwner = d /\ pc[d] = "done")
    <3>1. Owner = None
      BY <2>2, <2>4, OwnerIs, MigrateAssumption
    <3>2. Owner' = None
      BY <2>2, <2>4, NobodyOwns
    <3> QED
      BY <2>1, <3>1, <3>2, SerialStutters
  <2> QED
    BY <2>1, <2>3, <2>4
<1>7. ASSUME NEW c \in Calls, ApplyCommit(c) PROVE Serial!AbsNext
  <2>1. PICK v \in Versions :
          /\ IsNext(c, v) /\ Transaction(c, v)
          /\ IF Rollback(c) THEN Leave(c, "ok") ELSE Loop(c, todo[c] \ {v})
    BY <1>7 DEF ApplyCommit
  <2>2. At(c) /\ pc[c] = "apply" /\ ~Reads(c) /\ UNCHANGED <<op, lockOwner>>
    BY <1>7, <1>a DEF ApplyCommit, At, LockInv, ControlInv
  <2>3. pc'[c] \in {"apply", "release"} /\ \A d \in Calls \ {c} : pc'[d] = pc[d]
    BY <1>a, <2>1, <2>2 DEF Loop, Leave, Goto, TypeOK
  <2>4. \A d \in Calls : Holding(d)' <=> Holding(d)
    BY <2>2, <2>3 DEF Holding, Working, ProviderOps, Reads
  <2> QED
    BY <2>1, <2>2, <2>4, OwnerKept, CommitIsSerial
<1>8. ASSUME NEW c \in Calls, Lands(c)
      PROVE  Serial!AbsNext \/ UNCHANGED Serial!avars
  <2>1. At(c) /\ UNCHANGED <<op, pc, lockOwner>>
    BY <1>8 DEF Lands, At
  <2>2. Owner' = Owner
    BY <2>1, OwnerKept DEF Holding, Working, Reads
  <2>3. CASE \E v \in Versions : IsNext(c, v) /\ Transaction(c, v)
    BY <2>1, <2>2, <2>3, CommitIsSerial
  <2>4. CASE UNCHANGED <<rows, nextId, disturbed, loose, committed>>
    BY <2>2, <2>4, SerialStutters
  <2> QED
    BY <1>8, <2>3, <2>4 DEF Lands
<1>9. ASSUME NEW c \in Calls,
             \/ Begin(c) \/ LockConnFails(c) \/ ProviderLock(c) \/ ProviderConn(c)
             \/ PendingRead(c) \/ CheckForMissing(c) \/ DownVersion(c) \/ ApplyCheck(c)
             \/ ProviderFails(c) \/ ApplyAnswerLost(c) \/ UnlockFails(c)
      PROVE  UNCHANGED Serial!avars
  <2>1. /\ UNCHANGED <<rows, nextId, disturbed, op, lockOwner>>
        /\ \A d \in Calls \ {c} : pc'[d] = pc[d]
    BY <1>9, <1>a DEF Begin, LockConnFails, ProviderLock, ProviderConn, PendingRead, UsePending,
       CheckForMissing, DownVersion, RollbackOf, ApplyCheck, ProviderFails, ApplyAnswerLost,
       UnlockFails, Loop, Leave, Return, Goto, TypeOK
  <2>2. lockOwner = c => (Holding(c)' <=> Holding(c))
    <3>1. CASE Begin(c) \/ LockConnFails(c)
      BY <3>1, <1>a DEF Begin, LockConnFails, LockInv, OwnerInv
    <3>2. CASE ProviderLock(c) \/ ProviderConn(c)
      BY <3>2 DEF ProviderLock, ProviderConn, Holding, Working, Reads
    <3>3. CASE UnlockFails(c)
      BY <3>3, <2>1, <1>a DEF UnlockFails, Goto, Holding, Working, Reads, ProviderOps, TypeOK,
         LockInv, ControlInv
    <3>4. CASE \/ PendingRead(c) \/ CheckForMissing(c) \/ DownVersion(c) \/ ApplyCheck(c)
               \/ ProviderFails(c) \/ ApplyAnswerLost(c)
      <4>1. pc[c] \in ProviderOps /\ (lockOwner = c => ~Reads(c))
        BY <3>4, <1>a DEF PendingRead, CheckForMissing, DownVersion, ApplyCheck, ProviderFails,
           ApplyAnswerLost, LockInv, ControlInv, ProviderOps
      <4>2. ~Reads(c) => pc'[c] \in ProviderOps \cup {"release"}
        BY <3>4, <4>1, <1>a DEF PendingRead, UsePending, CheckForMissing, DownVersion, RollbackOf,
           ApplyCheck, ProviderFails, ApplyAnswerLost, Loop, Leave, Goto, TypeOK, ProviderOps
      <4> QED
        BY <2>1, <4>1, <4>2 DEF Holding, Working, Reads
    <3> QED
      BY <1>9, <3>1, <3>2, <3>3, <3>4
  <2>3. \A d \in Calls : lockOwner = d => (Holding(d)' <=> Holding(d))
    BY <2>1, <2>2 DEF Holding, Working, Reads
  <2> QED
    BY <2>1, <2>3, OwnerKept, SerialStutters
<1>10. ASSUME NEW r \in Replicas, Crash(r) PROVE UNCHANGED Serial!avars
  <2>1. /\ UNCHANGED <<rows, nextId, disturbed, op, lockOwner>>
        /\ \A c \in Calls :
             \/ pc'[c] = pc[c]
             \/ /\ pc[c] \notin Gone
                /\ pc'[c] = IF pc[c] = "lock" THEN "asked"
                            ELSE IF lockOwner = c THEN "closed" ELSE "done"
    BY <1>10 DEF Crash
  <2>2. \A c \in Calls : lockOwner = c => (Holding(c)' <=> Holding(c))
    BY <1>a, <2>1 DEF Holding, Working, Reads, Gone, ProviderOps, LockInv, ControlInv, OwnerInv,
       TypeOK, PCs
  <2> QED
    BY <2>1, <2>2, OwnerKept, SerialStutters
<1>11. CASE UNCHANGED vars
  <2>1. UNCHANGED <<rows, nextId, disturbed, op, lockOwner, pc>>
    BY <1>11 DEF vars
  <2>2. Owner' = Owner
    BY <2>1, OwnerKept DEF Holding, Working, Reads
  <2> QED
    BY <2>1, <2>2, SerialStutters
<1> QED
  BY <1>1, <1>2, <1>3, <1>4, <1>5, <1>6, <1>7, <1>8, <1>9, <1>10, <1>11
     DEF Next, Step, Fault, Server, Terminated

\* The replicas' runs, with their faults and crashes, implement serialised
\* migrations whose owner is the run that was granted the lock.
THEOREM RunsAreSerialised == Spec => ImplementsSerial
<1>1. Init => Serial!AbsInit
  BY DEF Init, Serial!AbsInit, Owner, Working, ProviderOps
<1> QED
  BY <1>1, SerialStep, InductiveInvariant, PTL
     DEF Spec, ImplementsSerial, Serial!AbsSpec

-----------------------------------------------------------------------------
(* What a run reports *)

Unfinished == {"idle", "conn", "lock"} \cup ProviderOps

\* A run reports its commits one by one; only the answer it did not get, or a
\* crash, leaves one commit unreported, the one it was about to report.
Report(c) ==
  /\ pc[c] \in Unfinished => result[c] = "none" /\ reported[c] = committed[c]
  /\ c \in inflight => result[c] = "error" /\ reported[c] = committed[c]
  /\ reported[c] \subseteq committed[c]
  /\ result[c] = "ok" => reported[c] = committed[c]
  /\ \A v \in committed[c] \ reported[c] : IsNext(c, v)

Reports == \A c \in Calls : Report(c)

LEMMA ReportsInit == Init => Reports
BY DEF Init, Reports, Report, Unfinished, ProviderOps

\* A step that is not the call's own.
LEMMA ReportKept ==
  ASSUME NEW c \in Calls, Report(c), pc'[c] = pc[c], result'[c] = result[c],
         c \in inflight' => c \in inflight, todo'[c] = todo[c], reported'[c] = reported[c], committed'[c] = committed[c]
  PROVE  Report(c)'
BY DEF Report, IsNext

\* A step of a call that has not finished, and that reports what it commits.
LEMMA ReportGrows ==
  ASSUME NEW c \in Calls, Report(c), pc[c] \in Unfinished,
         \/ UNCHANGED <<reported, committed>>
         \/ reported'[c] = committed'[c],
         \/ pc'[c] \in Unfinished /\ result'[c] = result[c]
         \/ pc'[c] \in {"release", "asked", "closed", "done"},
         c \in inflight' => result'[c] = "error"
  PROVE  Report(c)'
<1>1. reported'[c] = committed'[c]
  BY DEF Report
<1> QED
  BY <1>1 DEF Report, Unfinished, ProviderOps

LEMMA ReportsStep == IInv /\ Reports /\ [Next]_vars => Reports'
<1> SUFFICES ASSUME IInv, Reports, [Next]_vars PROVE Reports'
  OBVIOUS
<1> USE DEF database, settings, progress
<1>a. TypeOK /\ LockInv
  BY DEF IInv
<1>1. ASSUME NEW c \in Calls,
             \/ Begin(c) \/ LockConn(c) \/ LockConnFails(c) \/ SessionLock(c)
             \/ SessionLockFails(c)
      PROVE  Reports'
  <2>1. /\ pc[c] \in Unfinished /\ UNCHANGED <<reported, committed, todo, inflight>>
        /\ c \notin inflight
        /\ \/ pc'[c] \in Unfinished /\ result' = result
           \/ pc'[c] \in {"release", "asked", "closed", "done"}
        /\ \A d \in Calls \ {c} : pc'[d] = pc[d] /\ result'[d] = result[d]
    BY <1>1, <1>a DEF Begin, LockConn, LockConnFails, SessionLock, SessionLockFails,
       Return, Goto, TypeOK, Unfinished, ProviderOps, LockInv, ControlInv
  <2> QED
    BY <2>1, ReportKept, ReportGrows DEF Reports
<1>2. ASSUME NEW c \in Calls, ProviderLock(c) \/ ProviderConn(c) PROVE Reports'
  BY <1>2, ReportKept DEF ProviderLock, ProviderConn, Reports
<1>3. ASSUME NEW c \in Calls,
             ProviderFails(c) \/ PendingRead(c) \/ CheckForMissing(c) \/ DownVersion(c)
      PROVE  Reports'
  <2>1. pc[c] \in Unfinished /\ c \notin inflight
    BY <1>3, <1>a DEF ProviderFails, PendingRead, CheckForMissing, DownVersion, LockInv,
       ControlInv, Unfinished, ProviderOps
  <2>2. /\ UNCHANGED <<reported, committed, inflight>>
        /\ \/ pc'[c] \in Unfinished /\ result' = result
           \/ pc'[c] \in {"release", "done"}
        /\ \A d \in Calls \ {c} :
             pc'[d] = pc[d] /\ result'[d] = result[d] /\ todo'[d] = todo[d]
    <3>1. CASE ProviderFails(c)
      BY <3>1, <1>a DEF ProviderFails, Leave, Goto, TypeOK
    <3>2. CASE PendingRead(c)
      BY <3>2, <1>a DEF PendingRead, UsePending, Loop, Leave, Goto, TypeOK, Unfinished,
         ProviderOps
    <3>3. CASE CheckForMissing(c)
      BY <3>3, <1>a DEF CheckForMissing, Loop, Leave, Goto, TypeOK, Unfinished, ProviderOps
    <3>4. CASE DownVersion(c)
      BY <3>4, <1>a DEF DownVersion, RollbackOf, Leave, Goto, TypeOK, Unfinished, ProviderOps
    <3> QED
      BY <1>3, <3>1, <3>2, <3>3, <3>4
  <2> QED
    BY <2>1, <2>2, ReportKept, ReportGrows DEF Reports
<1>4. ASSUME NEW c \in Calls, ApplyCheck(c) PROVE Reports'
  <2>1. /\ pc[c] \in Unfinished /\ UNCHANGED <<reported, committed, todo, inflight>>
        /\ c \notin inflight
        /\ \/ pc'[c] \in Unfinished /\ result' = result
           \/ pc'[c] \in {"release", "done"}
        /\ \A d \in Calls \ {c} : pc'[d] = pc[d] /\ result'[d] = result[d]
    BY <1>4, <1>a DEF ApplyCheck, Leave, Goto, TypeOK, Unfinished, ProviderOps, LockInv, ControlInv
  <2> QED
    BY <2>1, ReportKept, ReportGrows DEF Reports
<1>5. ASSUME NEW c \in Calls, ApplyCommit(c) PROVE Reports'
  <2>1. PICK v \in Versions :
          /\ Transaction(c, v)
          /\ todo' = [todo EXCEPT ![c] = todo[c] \ {v}]
          /\ reported' = [reported EXCEPT ![c] = reported[c] \cup {v}]
          /\ IF Rollback(c) THEN Leave(c, "ok") ELSE Loop(c, todo[c] \ {v})
    BY <1>5 DEF ApplyCommit
  <2>2. pc[c] \in Unfinished /\ c \notin inflight /\ inflight' = inflight
    BY <1>5, <1>a DEF ApplyCommit, Unfinished, ProviderOps, LockInv, ControlInv
  <2>3. /\ reported'[c] = reported[c] \cup {v} /\ committed'[c] = committed[c] \cup {v}
        /\ \A d \in Calls \ {c} : /\ reported'[d] = reported[d]
                                  /\ committed'[d] = committed[d] /\ todo'[d] = todo[d]
    BY <2>1, <1>a DEF Transaction, TypeOK
  <2>4. reported'[c] = committed'[c]
    BY <2>2, <2>3 DEF Reports, Report
  <2>5. /\ \/ pc'[c] \in Unfinished /\ result' = result
           \/ pc'[c] \in {"release", "done"}
        /\ \A d \in Calls \ {c} : pc'[d] = pc[d] /\ result'[d] = result[d]
    BY <2>1, <1>a DEF Loop, Leave, Goto, TypeOK, Unfinished, ProviderOps
  <2> QED
    BY <2>2, <2>3, <2>4, <2>5, ReportKept, ReportGrows DEF Reports
<1>6. ASSUME NEW c \in Calls, ApplyAnswerLost(c) PROVE Reports'
  <2>1. /\ pc'[c] \in {"release", "done"} /\ result'[c] = "error" /\ pc[c] \in Unfinished
        /\ UNCHANGED <<reported, committed, todo>> /\ inflight' = inflight \cup {c}
        /\ \A d \in Calls \ {c} : pc'[d] = pc[d] /\ result'[d] = result[d]
    BY <1>6, <1>a DEF ApplyAnswerLost, Leave, Goto, TypeOK, Unfinished, ProviderOps
  <2> QED
    BY <2>1, ReportKept, ReportGrows DEF Reports
<1>7. ASSUME NEW c \in Calls,
             \/ Unlock(c) \/ UnlockFails(c) \/ AskDecided(c) \/ SessionEnds(c)
             \/ PooledEnds(c) \/ LockLost(c)
      PROVE  Reports'
  <2>1. /\ pc'[c] \in {pc[c], "closed", "done"}
        /\ UNCHANGED <<reported, committed, todo, result, inflight>>
        /\ \A d \in Calls \ {c} : pc'[d] = pc[d]
    BY <1>7, <1>a DEF Unlock, UnlockFails, AskDecided, SessionEnds, PooledEnds, LockLost, Goto,
       TypeOK
  <2>2. Report(c)'
    <3>1. Report(c)
      BY DEF Reports
    <3> QED
      BY <2>1, <3>1 DEF Report, IsNext, Unfinished, ProviderOps
  <2> QED
    BY <2>1, <2>2, ReportKept DEF Reports
<1>8. ASSUME NEW c \in Calls, Lands(c) PROVE Reports'
  <2>1. /\ c \in inflight /\ inflight' = inflight \ {c} /\ pc[c] \notin Unfinished
        /\ UNCHANGED <<reported, todo, result, pc>>
    BY <1>8, <1>a DEF Lands, LockInv, ControlInv, Unfinished, ProviderOps
  <2>2. /\ \/ UNCHANGED committed
           \/ \E v \in Versions : IsNext(c, v) /\ committed'[c] = committed[c] \cup {v}
        /\ \A d \in Calls \ {c} : committed'[d] = committed[d]
    BY <1>8, <1>a DEF Lands, Transaction, TypeOK
  <2>3. Report(c)'
    <3>1. Report(c) /\ result[c] = "error" /\ reported[c] = committed[c]
      BY <2>1 DEF Reports, Report
    <3> QED
      BY <2>1, <2>2, <3>1 DEF Report, IsNext
  <2> QED
    BY <2>1, <2>2, <2>3, ReportKept DEF Reports
<1>9. ASSUME NEW r \in Replicas, Crash(r) PROVE Reports'
  <2> SUFFICES ASSUME NEW c \in Calls PROVE Report(c)'
    BY DEF Reports
  <2>1. /\ UNCHANGED <<reported, committed, todo>> /\ Report(c)
        /\ inflight' = inflight \cup {d \in Calls : ReplicaOf[d] = r /\ stage[d] = "commit"}
    BY <1>9 DEF Crash, Reports
  <2>2. CASE ReplicaOf[c] # r
    BY <1>9, <2>1, <2>2, ReportKept DEF Crash
  <2>3. CASE ReplicaOf[c] = r /\ pc[c] \in Unfinished
    <3>1. pc'[c] \in {"asked", "closed", "done"} /\ result'[c] = "error"
      BY <1>9, <2>1, <2>3 DEF Crash, Gone, Report, Unfinished, ProviderOps
    <3> QED
      BY <2>1, <2>3, <3>1, ReportGrows
  <2>4. CASE ReplicaOf[c] = r /\ pc[c] \notin Unfinished
    <3>1. /\ pc'[c] \in {pc[c], "asked", "closed", "done"}
          /\ result'[c] = result[c] \/ (result[c] = "none" /\ result'[c] = "error")
      BY <1>9, <2>4 DEF Crash
    <3>2. c \in inflight' => c \in inflight
      BY <1>a, <2>1, <2>4 DEF LockInv, ControlInv, Unfinished
    <3> QED
      BY <2>1, <2>4, <3>1, <3>2 DEF Report, IsNext, Unfinished, ProviderOps
  <2> QED
    BY <2>2, <2>3, <2>4
<1>10. CASE UNCHANGED vars
  BY <1>10, ReportKept DEF vars, Reports
<1> QED
  BY <1>1, <1>2, <1>3, <1>4, <1>5, <1>6, <1>7, <1>8, <1>9, <1>10
     DEF Next, Step, Fault, Server, Terminated

\* Whatever fails, is lost or crashes, a run names the versions it committed,
\* all of them if it returns nil and all but the last otherwise (run).
THEOREM ReportsAreTrue == Spec => []ReportMatchesCommits
<1>1. Reports => ReportMatchesCommits
  BY DEF Reports, Report, ReportMatchesCommits
<1> QED
  BY <1>1, ReportsInit, ReportsStep, InductiveInvariant, PTL DEF Spec

-----------------------------------------------------------------------------
(* What a run leaves pending *)

\* A run that has read the pending migrations has each one it knows in its plan
\* or in the table, up to the moment it reports success, while its lock lasts and
\* nothing disturbs it.
NothingMissed(c) ==
  Covered(c) =>
    /\ ~Reads(c) /\ ~Rollback(c) /\ pc[c] \in {"version", "apply"}
       => Known[ReplicaOf[c]] \subseteq Applied \cup todo[c]
    /\ ~Rollback(c) /\ pc[c] = "release" /\ result[c] = "ok"
       => \A v \in Known[ReplicaOf[c]] : Within(c, v) => v \in Applied

Complete == \A c \in Calls : NothingMissed(c)

LEMMA CompleteInit == Init => Complete
BY DEF Init, Complete, NothingMissed

\* The table and the call's plan stay, and the call stays or needs them no more.
LEMMA MissedKept ==
  ASSUME NEW c \in Calls, NothingMissed(c), UNCHANGED <<op, rows>>, todo'[c] = todo[c],
         Covered(c)' => Covered(c),
         \/ pc'[c] = pc[c] /\ result'[c] = result[c]
         \/ pc'[c] \notin {"version", "apply", "release"}
         \/ pc'[c] = "release" /\ result'[c] = "error"
  PROVE  NothingMissed(c)'
BY DEF NothingMissed, Reads, Rollback, Within, Applied

\* A transaction of another call leaves a covered call only where it needs nothing.
LEMMA NobodyElseNeeds ==
  ASSUME LockInv, NEW c \in Calls, NEW v \in Versions, Transaction(c, v), UNCHANGED lockOwner,
         inflight' \subseteq inflight, NEW d \in Calls, d # c, pc'[d] = pc[d]
  PROVE  NothingMissed(d)'
BY OthersDisturbed DEF NothingMissed

\* The loop of run ends when nothing it has left is within its target.
LEMMA LoopMissesNothing ==
  ASSUME TypeOK, NEW c \in Calls, ~Reads(c), ~Rollback(c), op' = op, NEW rest, Loop(c, rest),
         todo'[c] = rest, Known[ReplicaOf[c]] \subseteq Applied' \cup rest
  PROVE  NothingMissed(c)'
<1>1. CASE \E v \in rest : Within(c, v)
  <2>1. pc'[c] = "apply"
    BY <1>1 DEF Loop, Goto, TypeOK
  <2> QED
    BY <2>1 DEF NothingMissed
<1>2. CASE ~ \E v \in rest : Within(c, v)
  <2>1. pc'[c] = "release"
    BY <1>2 DEF Loop, Leave, Goto, TypeOK
  <2>2. \A v : Within(c, v)' <=> Within(c, v)
    BY DEF Within
  <2>3. \A v \in Known[ReplicaOf[c]] : Within(c, v) => v \in Applied'
    BY <1>2
  <2> QED
    BY <2>1, <2>2, <2>3 DEF NothingMissed
<1> QED
  BY <1>1, <1>2

LEMMA CompleteStep == IInv /\ Complete /\ [Next]_vars => Complete'
<1> SUFFICES ASSUME IInv, Complete, [Next]_vars PROVE Complete'
  OBVIOUS
<1> USE DEF database, lock, settings, progress
<1>a. TypeOK /\ LockInv /\ \A c \in Calls : NothingMissed(c)
  BY DEF IInv, Complete
<1>b. ASSUME NEW c \in Calls, UNCHANGED <<op, rows, disturbed>>,
             lockOwner' \in {lockOwner, None, c},
             \A d \in Calls \ {c} : /\ todo'[d] = todo[d] /\ pc'[d] = pc[d]
                                   /\ result'[d] = result[d],
             NothingMissed(c)'
      PROVE  Complete'
  <2>1. \A d \in Calls \ {c} : Covered(d)' => Covered(d)
    BY <1>b, MigrateAssumption DEF Covered
  <2> QED
    BY <1>a, <1>b, <2>1, MissedKept DEF Complete
<1>1. ASSUME NEW c \in Calls,
             \/ Begin(c) \/ LockConn(c) \/ LockConnFails(c) \/ SessionLockFails(c)
             \/ AskDecided(c) \/ Unlock(c) \/ UnlockFails(c) \/ SessionEnds(c)
      PROVE  Complete'
  <2>1. /\ UNCHANGED <<op, rows, disturbed, todo>> /\ lockOwner' \in {lockOwner, None, c}
        /\ \A d \in Calls \ {c} : pc'[d] = pc[d] /\ result'[d] = result[d]
        /\ pc'[c] \notin {"version", "apply", "release"}
    BY <1>1, <1>a DEF Begin, LockConn, LockConnFails, SessionLockFails, AskDecided, MaybeGranted,
       Grant, Unlock, UnlockFails, SessionEnds, Free, Return, Goto, TypeOK
  <2> QED
    BY <1>b, <2>1 DEF NothingMissed
<1>2. ASSUME NEW c \in Calls, SessionLock(c) PROVE Complete'
  <2>1. /\ UNCHANGED <<op, rows, disturbed, todo, result>> /\ (Rollback(c) <=> Rollback(c)')
        /\ pc' = [pc EXCEPT ![c] = IF Rollback(c) THEN "version" ELSE "status"]
        /\ lockOwner' = c
    BY <1>2 DEF SessionLock, Grant, Goto, Rollback
  <2>2. NothingMissed(c)'
    BY <1>a, <2>1 DEF NothingMissed, TypeOK
  <2> QED
    BY <1>a, <1>b, <2>1, <2>2 DEF TypeOK
<1>3. ASSUME NEW c \in Calls,
             \/ ProviderFails(c) \/ ApplyCheck(c) \/ ApplyAnswerLost(c) \/ ProviderLock(c)
             \/ ProviderConn(c) \/ PooledEnds(c) \/ LockLost(c)
      PROVE  Complete'
  <2>1. /\ UNCHANGED <<op, rows, disturbed, todo>> /\ lockOwner' \in {lockOwner, None}
        /\ \A d \in Calls \ {c} : pc'[d] = pc[d] /\ result'[d] = result[d]
        /\ \/ pc'[c] = pc[c] /\ result'[c] = result[c]
           \/ pc'[c] = "done"
           \/ pc'[c] = "release" /\ result'[c] = "error"
    BY <1>3, <1>a DEF ProviderFails, ApplyCheck, ApplyAnswerLost, ProviderLock, ProviderConn,
       PooledEnds, LockLost, Free, Leave, Goto, TypeOK
  <2>2. Covered(c)' => Covered(c)
    BY <2>1, MigrateAssumption DEF Covered
  <2>3. NothingMissed(c)'
    BY <1>a, <2>1, <2>2, MissedKept
  <2> QED
    BY <1>b, <2>1, <2>3
<1>4. ASSUME NEW c \in Calls, PendingRead(c) PROVE Complete'
  <2> DEFINE pending == Known[ReplicaOf[c]] \ Applied
  <2>1. UNCHANGED <<op, rows, disturbed, lockOwner>> /\ UsePending(c, pending) /\ ~Rollback(c)
    BY <1>4, <1>a DEF PendingRead, LockInv, ControlInv
  <2>2. \A d \in Calls \ {c} : todo'[d] = todo[d] /\ pc'[d] = pc[d] /\ result'[d] = result[d]
    BY <2>1, <1>a DEF UsePending, Loop, Leave, Goto, TypeOK
  <2>3. CASE Reads(c)
    <3>1. pc'[c] = "done"
      BY <2>1, <2>3, <1>a DEF UsePending, Leave, Goto, TypeOK
    <3> QED
      BY <1>b, <2>1, <2>2, <3>1 DEF NothingMissed
  <2>4. CASE ~Reads(c)
    <3>1. todo'[c] = pending /\ Known[ReplicaOf[c]] \subseteq Applied' \cup pending
      BY <2>1, <2>4, <1>a DEF UsePending, TypeOK, Applied
    <3>2. CASE Loop(c, pending)
      BY <1>a, <1>b, <2>1, <2>2, <2>4, <3>1, <3>2, LoopMissesNothing
    <3>3. CASE Goto(c, "version")
      <4>1. pc'[c] = "version"
        BY <1>a, <3>3 DEF Goto, TypeOK
      <4> QED
        BY <1>b, <2>1, <2>2, <3>1, <4>1 DEF NothingMissed
    <3> QED
      BY <2>1, <2>4, <3>2, <3>3 DEF UsePending
  <2> QED
    BY <2>3, <2>4
<1>5. ASSUME NEW c \in Calls, CheckForMissing(c) PROVE Complete'
  <2>1. UNCHANGED <<op, rows, disturbed, lockOwner, todo>> /\ ~Rollback(c) /\ pc[c] = "version"
    BY <1>5 DEF CheckForMissing
  <2>2. \A d \in Calls \ {c} : pc'[d] = pc[d] /\ result'[d] = result[d]
    BY <1>5, <1>a DEF CheckForMissing, Loop, Leave, Goto, TypeOK
  <2>3. ~Reads(c)
    BY <1>a, <2>1 DEF LockInv, ControlInv
  <2>4. CASE Leave(c, "error")
    <3>1. pc'[c] = "release" /\ result'[c] = "error"
      BY <1>a, <2>3, <2>4 DEF Leave, Goto, TypeOK
    <3> QED
      BY <1>b, <2>1, <2>2, <3>1 DEF NothingMissed
  <2>5. CASE Loop(c, todo[c])
    <3>1. Covered(c) => Known[ReplicaOf[c]] \subseteq Applied' \cup todo[c]
      BY <1>a, <2>1, <2>3 DEF NothingMissed, Applied
    <3>2. CASE Covered(c)
      BY <1>a, <1>b, <2>1, <2>2, <2>3, <2>5, <3>1, <3>2, LoopMissesNothing
    <3>3. CASE ~Covered(c)
      BY <1>b, <2>1, <2>2, <3>3 DEF NothingMissed, Covered
    <3> QED
      BY <3>2, <3>3
  <2> QED
    BY <1>5, <2>4, <2>5 DEF CheckForMissing
<1>6. ASSUME NEW c \in Calls, DownVersion(c) PROVE Complete'
  <2>1. UNCHANGED <<op, rows, disturbed, lockOwner>> /\ Rollback(c) /\ Rollback(c)'
    BY <1>6 DEF DownVersion, Rollback
  <2>2. \A d \in Calls \ {c} : todo'[d] = todo[d] /\ pc'[d] = pc[d] /\ result'[d] = result[d]
    BY <1>6, <1>a DEF DownVersion, RollbackOf, Leave, Goto, TypeOK
  <2> QED
    BY <1>b, <2>1, <2>2 DEF NothingMissed
<1>7. ASSUME NEW c \in Calls, ApplyCommit(c) PROVE Complete'
  <2>1. PICK v \in Versions :
          /\ Transaction(c, v) /\ todo' = [todo EXCEPT ![c] = todo[c] \ {v}]
          /\ IF Rollback(c) THEN Leave(c, "ok") ELSE Loop(c, todo[c] \ {v})
    BY <1>7 DEF ApplyCommit
  <2>2. UNCHANGED <<op, lockOwner, inflight>> /\ pc[c] = "apply" /\ ~Reads(c)
    BY <1>7, <1>a DEF ApplyCommit, LockInv, ControlInv
  <2>3. \A d \in Calls \ {c} : NothingMissed(d)'
    <3>1. \A d \in Calls \ {c} : pc'[d] = pc[d]
      BY <1>a, <2>1 DEF Loop, Leave, Goto, TypeOK
    <3> QED
      BY <1>a, <2>1, <2>2, <3>1, NobodyElseNeeds
  <2>4. NothingMissed(c)'
    <3>1. Covered(c)' => Covered(c)
      BY <2>1, <2>2 DEF Covered, Transaction
    <3>2. CASE Rollback(c)
      BY <2>2, <3>2 DEF NothingMissed, Rollback
    <3>3. CASE ~Rollback(c) /\ Covered(c)
      <4>1. Applied' = Applied \cup {v} /\ todo'[c] = todo[c] \ {v}
        BY <1>a, <2>1, <3>3, TransactionApplied DEF TypeOK
      <4>2. Known[ReplicaOf[c]] \subseteq Applied \cup todo[c]
        BY <1>a, <2>2, <3>3 DEF NothingMissed
      <4>3. Known[ReplicaOf[c]] \subseteq Applied' \cup (todo[c] \ {v})
        BY <4>1, <4>2
      <4> QED
        BY <1>a, <2>1, <2>2, <3>3, <4>1, <4>3, LoopMissesNothing
    <3>4. CASE ~Covered(c)
      BY <3>1, <3>4 DEF NothingMissed
    <3> QED
      BY <3>2, <3>3, <3>4
  <2> QED
    BY <2>3, <2>4 DEF Complete
<1>8. ASSUME NEW c \in Calls, Lands(c) PROVE Complete'
  <2>1. /\ UNCHANGED <<op, lockOwner, pc, todo, result>> /\ inflight' \subseteq inflight
        /\ pc[c] \in {"release", "closed", "done"}
    BY <1>8, <1>a DEF Lands, LockInv, ControlInv
  <2>2. CASE UNCHANGED <<rows, nextId, disturbed, loose, committed>>
    BY <1>b, <1>a, <2>1, <2>2, MissedKept DEF Covered
  <2>3. ASSUME NEW v \in Versions, Transaction(c, v) PROVE Complete'
    <3>1. \A d \in Calls \ {c} : NothingMissed(d)'
      BY <1>a, <2>1, <2>3, NobodyElseNeeds
    <3>2. NothingMissed(c)'
      <4>1. Covered(c)' => Covered(c)
        BY <2>1, <2>3 DEF Covered, Transaction
      <4>2. ~Rollback(c) => Applied \subseteq Applied'
        BY <2>3, TransactionApplied
      <4>3. (Rollback(c)' <=> Rollback(c)) /\ \A v0 : Within(c, v0)' <=> Within(c, v0)
        BY <2>1 DEF Rollback, Within
      <4>4. NothingMissed(c)
        BY <1>a
      <4> QED
        BY <2>1, <4>1, <4>2, <4>3, <4>4 DEF NothingMissed
    <3> QED
      BY <3>1, <3>2 DEF Complete
  <2> QED
    BY <1>8, <2>2, <2>3 DEF Lands
<1>9. ASSUME NEW r \in Replicas, Crash(r) PROVE Complete'
  <2>1. \A c \in Calls : \/ pc'[c] = pc[c] /\ result'[c] = result[c]
                         \/ pc'[c] \notin {"version", "apply", "release"}
    BY <1>9 DEF Crash, Gone
  <2>2. UNCHANGED <<op, rows, todo, lockOwner, disturbed>>
    BY <1>9 DEF Crash
  <2> QED
    BY <1>a, <2>1, <2>2, MissedKept DEF Complete, Covered
<1>10. CASE UNCHANGED vars
  BY <1>10, <1>a, MissedKept DEF vars, Complete, Covered
<1> QED
  BY <1>1, <1>2, <1>3, <1>4, <1>5, <1>6, <1>7, <1>8, <1>9, <1>10
     DEF Next, Step, Fault, Server, Terminated

\* A run that returns nil leaves nothing pending up to its target, for any
\* replicas with any sets of migrations, modes and faults, as long as its lock was
\* its own and undisturbed (Up, UpTo).
THEOREM RunsAreComplete == Spec => []UpLeavesNothingPending
<1>1. Complete => UpLeavesNothingPending
  BY DEF Complete, NothingMissed, UpLeavesNothingPending, Within
<1> QED
  BY <1>1, CompleteInit, CompleteStep, InductiveInvariant, PTL DEF Spec
=============================================================================

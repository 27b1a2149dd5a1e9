-------------------------- MODULE SerialMigrations --------------------------
(***************************************************************************)
(* What package migrate promises of a database that several replicas       *)
(* migrate at once: runs are serialised by one lock; the run holding it    *)
(* never records a version twice, a strict one never a version older than  *)
(* one already there, and a rollback removes the highest version.  What is *)
(* not promised is a fence: a transaction may land without the lock, and   *)
(* then the run that has it is no longer bound by what it has read.  The   *)
(* next run is.                                                            *)
(***************************************************************************)
EXTENDS Naturals

CONSTANTS
  Calls,      \* calls of Up, UpTo and Down that may take the lock
  Strict,     \* those made by a migrator without WithAllowMissing(true)
  Versions,   \* migration versions
  None        \* no call

VARIABLES
  owner,      \* the call holding the lock, or None
  late,       \* whether a transaction has landed without the lock since it has it
  rows,       \* the version table: a set of [id, version]
  nextId      \* the id of its next row

avars == <<owner, late, rows, nextId>>

Recorded == {row.version : row \in rows}

AbsInit == owner = None /\ ~late /\ rows = {} /\ nextId = 1

Acquire(c) ==
  /\ owner = None
  /\ owner' = c /\ ~late'
  /\ UNCHANGED <<rows, nextId>>

Yield ==
  /\ owner # None
  /\ owner' = None /\ ~late'
  /\ UNCHANGED <<rows, nextId>>

Insert(v) ==
  /\ rows' = rows \cup {[id |-> nextId, version |-> v]}
  /\ nextId' = nextId + 1

Delete(v) ==
  /\ rows' = {row \in rows : row.version # v}
  /\ UNCHANGED nextId

\* The version was not recorded before and, for a strict run, is the highest.
Record(v) ==
  /\ owner # None
  /\ v \notin Recorded
  /\ owner \in Strict => \A u \in Recorded : u < v
  /\ Insert(v)
  /\ UNCHANGED <<owner, late>>

Revert(v) ==
  /\ owner # None
  /\ v \in Recorded
  /\ \A u \in Recorded : u <= v
  /\ Delete(v)
  /\ UNCHANGED <<owner, late>>

\* A transaction without the lock, or of a run that one has disturbed.
Intrude(v) ==
  /\ Insert(v) \/ Delete(v)
  /\ late' = (owner # None)
  /\ UNCHANGED owner

AbsNext ==
  \/ \E c \in Calls : Acquire(c)
  \/ Yield
  \/ \E v \in Versions : Record(v) \/ Revert(v) \/ Intrude(v)

AbsSpec == AbsInit /\ [][AbsNext]_avars
=============================================================================

------------------------------ MODULE Migrations ------------------------------
(***************************************************************************)
(* migrateDatabase: instances of a service that start at the same time     *)
(* bring the schema up to date, each in one transaction.                   *)
(* Source: src/shared/persistence/src/migrations.ts.                       *)
(*                                                                         *)
(* The module has the state and the operations of the database side.       *)
(* ServiceHost calls them as part of the start of a service.               *)
(***************************************************************************)
EXTENDS Naturals, Sequences, SequencesExt

CONSTANTS Instances,  \* instances of one service that share a database
          Known       \* the number of migrations that each of them contains

ASSUME KnownAssumption == Known \in [Instances -> Nat]

VARIABLES
  schema,   \* migrations whose effect the tables have, in order
  history,  \* versions in the history table
  lock,     \* who has the advisory lock: one at most
  phase,    \* where each call of migrateDatabase is
  seen,     \* alreadyApplied
  applied   \* appliedVersions

tables == <<schema, history>>
calls == <<lock, phase, seen, applied>>
database == <<schema, history, lock, phase, seen, applied>>

\* Contiguous from 1: assertMigrationsAreOrdered refuses others.
Plan(i) == 1..Known[i]

Versions == UNION {Plan(i) : i \in Instances}

\* What is left to do, in order.
Pending(i) == (Plan(i) \ seen[i]) \ Range(applied[i])

DatabaseInit ==
  /\ schema = <<>> /\ history = {}
  /\ lock = {}
  /\ phase = [i \in Instances |-> "idle"]
  /\ seen = [i \in Instances |-> {}]
  /\ applied = [i \in Instances |-> <<>>]
-----------------------------------------------------------------------------
SetPhase(i, p) == phase' = [phase EXCEPT ![i] = p]

Unlock(i) == lock' = lock \ {i}

\* A client of the pool is in use.
InTransaction(i) == phase[i] \in {"locking", "reading", "applying"}

\* BEGIN; pg_advisory_xact_lock waits.
BeginMigrating(i) ==
  /\ SetPhase(i, "locking")
  /\ UNCHANGED <<tables, lock, seen, applied>>

\* Faulty variant: nobody waits.
TakeNoLock(i) ==
  /\ phase[i] = "locking"
  /\ SetPhase(i, "reading")
  /\ UNCHANGED <<tables, lock, seen, applied>>

TakeLock(i) ==
  /\ phase[i] = "locking"
  /\ lock = {}
  /\ lock' = {i}
  /\ SetPhase(i, "reading")
  /\ UNCHANGED <<tables, seen, applied>>

\* The history table is created if need be, and read.
ReadHistory(i) ==
  /\ phase[i] = "reading"
  /\ seen' = [seen EXCEPT ![i] = history]
  /\ applied' = [applied EXCEPT ![i] = <<>>]
  /\ SetPhase(i, "applying")
  /\ UNCHANGED <<tables, lock>>

\* The next pending migration and its row, if no other transaction has
\* inserted that.
Apply(i) ==
  /\ phase[i] = "applying"
  /\ \E v \in Pending(i) :
       /\ \A w \in Pending(i) : v <= w
       /\ v \notin history
       /\ applied' = [applied EXCEPT ![i] = Append(@, v)]
  /\ UNCHANGED <<tables, lock, phase, seen>>

\* The transaction becomes visible.
Persist(i) ==
  /\ schema' = schema \o applied[i]
  /\ history' = history \cup Range(applied[i])

\* Faulty variant: each migration is in a transaction of its own.
FailWithoutRollback(i) ==
  /\ InTransaction(i)
  /\ schema' = schema \o applied[i]
  /\ SetPhase(i, "failed")
  /\ Unlock(i)
  /\ UNCHANGED <<history, seen, applied>>

\* Something throws: a migration, a timeout or the connection.
FailMigrating(i) ==
  /\ InTransaction(i)
  /\ SetPhase(i, "failed")
  /\ Unlock(i)
  /\ UNCHANGED <<tables, seen, applied>>

\* All is done: COMMIT.
Commit(i) ==
  /\ phase[i] = "applying" /\ Pending(i) = {}
  /\ Persist(i)
  /\ SetPhase(i, "done")
  /\ Unlock(i)
  /\ UNCHANGED <<seen, applied>>

\* COMMIT takes effect, and the connection is lost before its answer.
CommitUnanswered(i) ==
  /\ phase[i] = "applying" /\ Pending(i) = {}
  /\ Persist(i)
  /\ SetPhase(i, "failed")
  /\ Unlock(i)
  /\ UNCHANGED <<seen, applied>>

\* The process is gone: PostgreSQL rolls back and frees the lock.
Disconnect(i) ==
  /\ SetPhase(i, "idle")
  /\ seen' = [seen EXCEPT ![i] = {}]
  /\ applied' = [applied EXCEPT ![i] = <<>>]
  /\ Unlock(i)
  /\ UNCHANGED tables

\* What goes on without faults.
Migrate(i) == TakeLock(i) \/ ReadHistory(i) \/ Apply(i) \/ Commit(i)
-----------------------------------------------------------------------------
(* Properties. *)

\* The tables are what their history says: every migration was applied once,
\* in order, and none by a transaction that failed, whoever started when.  What
\* an instance has read of the history is still true while it applies the rest,
\* so none fails because another one is migrating.
MigratedInOrder ==
  /\ schema = [v \in 1..Len(schema) |-> v]
  /\ history = Range(schema)
  /\ \A i \in Instances : phase[i] = "applying" => seen[i] = history
=============================================================================

----------------------------- MODULE Migrations -----------------------------
(***************************************************************************)
(* db.Migrate, run by every detector as it starts, on one database: per    *)
(* file a look-up, then a transaction that applies and records it.         *)
(***************************************************************************)
EXTENDS Naturals

CONSTANTS
  Process,     \* detectors on one database
  Files,       \* number of migration files, in the order of their names
  Repeatable   \* those that say IF NOT EXISTS throughout

ASSUME MigrationsAssumption == Files \in Nat \ {0} /\ Repeatable \subseteq 1..Files

VARIABLES
  applied,    \* the files whose statements are committed
  versions,   \* table schema_migrations
  migrating   \* process -> [step, file]

migrationVars == <<applied, versions, migrating>>

Down == [step |-> "down", file |-> 0]

MigrationsInit ==
  applied = {} /\ versions = {} /\ migrating = [p \in Process |-> Down]

Stage(p, step, f) == migrating' = [migrating EXCEPT ![p] = [step |-> step, file |-> f]]
Now(p, step) == migrating[p].step = step

\* A transaction holds what it has created until it ends.
Holds(p, f) == migrating[p].step \in {"record", "commit"} /\ migrating[p].file = f

\* The schema_migrations table is there from here on.
BeginMigrate(p) ==
  /\ migrating[p] = Down
  /\ Stage(p, "check", 1)
  /\ UNCHANGED <<applied, versions>>

CheckMigration(p) ==
  LET f == migrating[p].file IN
  /\ Now(p, "check")
  /\ IF f > Files THEN Stage(p, "done", f)
     ELSE IF f \in versions THEN Stage(p, "check", f + 1)
     ELSE Stage(p, "apply", f)
  /\ UNCHANGED <<applied, versions>>

\* Mutant: the transaction stays open when a statement of it fails.
AbortLeavesOpen(p) == UNCHANGED migrating

\* Rollback, and Migrate gives up: the detector runs without the database.
Abort(p) == Stage(p, "failed", 0)

\* The statements of a file create what another transaction may be creating
\* too: they wait for it to end.
ApplyMigration(p) ==
  LET f == migrating[p].file IN
  /\ Now(p, "apply")
  /\ \A q \in Process \ {p} : ~Holds(q, f)
  /\ IF f \in applied \ Repeatable THEN Abort(p) ELSE Stage(p, "record", f)
  /\ UNCHANGED <<applied, versions>>

\* The version is the primary key.
RecordMigration(p) ==
  LET f == migrating[p].file IN
  /\ Now(p, "record")
  /\ IF f \in versions THEN Abort(p) ELSE Stage(p, "commit", f)
  /\ UNCHANGED <<applied, versions>>

\* Mutant: the version is recorded in a statement of its own, afterwards.
CommitThenRecord(p) ==
  LET f == migrating[p].file IN
  /\ Now(p, "commit")
  /\ applied' = applied \cup {f}
  /\ \/ versions' = versions \cup {f} /\ Stage(p, "check", f + 1)
     \/ versions' = versions /\ Stage(p, "failed", 0)

\* The commit may succeed and its answer be lost.
Commit(p) ==
  LET f == migrating[p].file IN
  /\ Now(p, "commit")
  /\ applied' = applied \cup {f} /\ versions' = versions \cup {f}
  /\ Stage(p, "check", f + 1) \/ Stage(p, "failed", 0)

\* Any call of the database can fail.
DatabaseError(p) ==
  /\ migrating[p].step \in {"check", "apply", "record", "commit"}
  /\ Abort(p)
  /\ UNCHANGED <<applied, versions>>

\* The process dies; the database rolls its transaction back.
Die(p) ==
  /\ ~Now(p, "down")
  /\ migrating' = [migrating EXCEPT ![p] = Down]
  /\ UNCHANGED <<applied, versions>>

Migrate(p) == CheckMigration(p) \/ ApplyMigration(p) \/ RecordMigration(p) \/ Commit(p)
=============================================================================

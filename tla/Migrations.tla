----------------------------- MODULE Migrations -----------------------------
(* memory/migrations/runner.py: numbered migrations of one database, applied  *)
(* by any number of processes that start at once. A migration changes the     *)
(* schema and is committed by itself, since SQLite commits a script and a     *)
(* DDL statement at once; the row that remembers it is a second transaction.  *)
EXTENDS Integers

CONSTANTS
  Runners,      \* processes that call migrate()
  Latest,       \* the last version of MIGRATIONS
  MaxMigrates   \* bound of the calls

ASSUME MigrationAssumption == Latest \in Nat /\ MaxMigrates \in Nat

VARIABLES
  schema,       \* versions whose change the schema has
  applied,      \* rows of _migrations
  runs,         \* the call each runner is in, and where
  migrates      \* number of calls so far

migrationVars == <<schema, applied, runs, migrates>>

Versions == 1..Latest
NoRun == [pc |-> "none"]
RunsOn(r, x) == runs' = [runs EXCEPT ![r] = x]

(* The list as it is written, not sorted (mutant).                            *)
PendingUnsorted(x) == {v \in Versions : v \notin x.already /\ v <= x.target}

(* What the loop looks at next: the versions above the last one it looked at, *)
(* in order, up to the target, without those applied when the call began.     *)
Pending(x) ==
  LET rest == {v \in Versions : v > x.last /\ v <= x.target /\ v \notin x.already}
  IN {v \in rest : \A u \in rest : v <= u}

-----------------------------------------------------------------------------

(* applied_versions() in a connection of its own.                             *)
Migrate(r, target) ==
  /\ runs[r] = NoRun
  /\ migrates < MaxMigrates
  /\ migrates' = migrates + 1
  /\ RunsOn(r, [pc |-> "loop", already |-> applied, target |-> target, last |-> 0])
  /\ UNCHANGED <<schema, applied>>

(* up(): a second time it changes nothing.                                    *)
Up(r, v) ==
  /\ runs[r].pc = "loop"
  /\ v \in Pending(runs[r])
  /\ schema' = schema \cup {v}
  /\ RunsOn(r, [runs[r] EXCEPT !.pc = "book", !.last = v])
  /\ UNCHANGED <<applied, migrates>>

(* up() raises: the call ends, and what it did may stay.                      *)
UpFails(r, v) ==
  /\ runs[r].pc = "loop"
  /\ v \in Pending(runs[r])
  /\ schema' \in {schema, schema \cup {v}}
  /\ RunsOn(r, NoRun)
  /\ UNCHANGED <<applied, migrates>>

(* The row of a version that another call has stored violates the primary     *)
(* key: this call raises and stops.                                           *)
Book(r) ==
  LET v == runs[r].last IN
  /\ runs[r].pc = "book"
  /\ IF v \in applied
     THEN RunsOn(r, NoRun) /\ UNCHANGED applied
     ELSE RunsOn(r, [runs[r] EXCEPT !.pc = "loop"]) /\ applied' = applied \cup {v}
  /\ UNCHANGED <<schema, migrates>>

Migrated(r) ==
  /\ runs[r].pc = "loop"
  /\ Pending(runs[r]) = {}
  /\ RunsOn(r, NoRun)
  /\ UNCHANGED <<schema, applied, migrates>>

RunnerDies(r) ==
  /\ runs[r] # NoRun
  /\ RunsOn(r, NoRun)
  /\ UNCHANGED <<schema, applied, migrates>>

MigrationInit ==
  /\ schema = {} /\ applied = {}
  /\ runs = [r \in Runners |-> NoRun]
  /\ migrates = 0

MigrationNext ==
  \E r \in Runners :
    \/ \E t \in Versions : Migrate(r, t)
    \/ \E v \in Versions : Up(r, v) \/ UpFails(r, v)
    \/ Book(r) \/ Migrated(r) \/ RunnerDies(r)

MigrationSpec == MigrationInit /\ [][MigrationNext]_migrationVars

-----------------------------------------------------------------------------

MigrationTypes ==
  /\ schema \in SUBSET Versions
  /\ applied \in SUBSET Versions
  /\ migrates \in 0..MaxMigrates

(* A database is at a version: the schema has every change up to it, and what *)
(* is remembered is never ahead of what was done, through failures, deaths    *)
(* and several runners at once; only the change being made may be ahead.      *)
ForwardOnly ==
  /\ \A v \in applied : 1..v \subseteq applied \cap schema
  /\ \A v \in schema : 1..(v - 1) \subseteq applied
=============================================================================

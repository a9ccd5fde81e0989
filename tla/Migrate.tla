------------------------------- MODULE Migrate -------------------------------
(***************************************************************************)
(* migrate.js run by several operators or deployments at once: "up" walks  *)
(* through the files in order and applies those that are not recorded,     *)
(* "down" takes back the last one. PostgreSQL runs the DDL and the record  *)
(* of a file in one transaction, and the locks of the DDL let one such     *)
(* transaction run at a time.                                              *)
(***************************************************************************)
EXTENDS Naturals, Sequences, FiniteSets, SequencesExt

CONSTANTS
    Runners,   \* runs of migrate.js at a time
    LastFile   \* migrations/, numbered in the order of their names

ASSUME SomeFile == LastFile \in Nat \ {0}

Migrations == 1 .. LastFile

VARIABLES
    recorded,   \* schema_migrations, by applied_at
    schema,     \* migrations whose DDL is in the database
    mode,       \* of each runner: "idle", "up" or "down"
    file,       \* the file it is at
    stage,      \* "look": before the SELECT, "begin": after it, "ddl": the
                \* transaction holds its locks
    overlapped  \* history: a rollback ran beside another runner

migrateVars == <<recorded, schema, mode, file, stage, overlapped>>

MigrateTypeOK ==
    /\ recorded \in Seq(Migrations) /\ IsInjective(recorded)
    /\ schema \subseteq Migrations
    /\ mode \in [Runners -> {"idle", "up", "down"}]
    /\ file \in [Runners -> 1 .. LastFile + 1]
    /\ stage \in [Runners -> {"look", "begin", "ddl"}]
    /\ overlapped \in BOOLEAN
    /\ \A r, s \in Runners : stage[r] = "ddl" /\ stage[s] = "ddl" => r = s

MigrateInit ==
    /\ recorded = <<>> /\ schema = {}
    /\ mode = [r \in Runners |-> "idle"]
    /\ file = [r \in Runners |-> 1]
    /\ stage = [r \in Runners |-> "look"]
    /\ overlapped = FALSE

Recorded(f) == f \in ToSet(recorded)
Alone(r) == \A s \in Runners \ {r} : mode[s] = "idle"

Reaches(r, s) == stage' = [stage EXCEPT ![r] = s]

Ends(r) ==
    /\ mode' = [mode EXCEPT ![r] = "idle"]
    /\ file' = [file EXCEPT ![r] = 1]
    /\ Reaches(r, "look")

BeginUp(r) ==
    /\ mode[r] = "idle"
    /\ mode' = [mode EXCEPT ![r] = "up"]
    /\ overlapped' = (overlapped \/ \E s \in Runners : mode[s] = "down")
    /\ UNCHANGED <<recorded, schema, file, stage>>

\* rollback(): the last migration is looked up before the transaction.
BeginDown(r) ==
    /\ mode[r] = "idle" /\ recorded # <<>>
    /\ mode' = [mode EXCEPT ![r] = "down"]
    /\ file' = [file EXCEPT ![r] = Last(recorded)]
    /\ Reaches(r, "begin")
    /\ overlapped' = (overlapped \/ ~Alone(r))
    /\ UNCHANGED <<recorded, schema>>

\* apply() asks for each file whether it is recorded.
Look(r) ==
    /\ mode[r] = "up" /\ stage[r] = "look" /\ file[r] <= LastFile
    /\ IF Recorded(file[r])
         THEN file' = [file EXCEPT ![r] = @ + 1] /\ UNCHANGED stage
         ELSE Reaches(r, "begin") /\ UNCHANGED file
    /\ UNCHANGED <<recorded, schema, mode, overlapped>>

\* The DDL waits for the transaction of anybody else.
Begin(r) ==
    /\ stage[r] = "begin" /\ \A s \in Runners : stage[s] # "ddl"
    /\ Reaches(r, "ddl")
    /\ UNCHANGED <<recorded, schema, mode, file, overlapped>>

\* Faulty variant of Commit: the record is written without the transaction,
\* and what it refuses leaves the DDL behind.
CommitApart(r) ==
    /\ mode[r] = "up" /\ stage[r] = "ddl"
    /\ \E dies \in BOOLEAN :
        /\ schema' = schema \cup {file[r]}
        /\ recorded' = IF dies THEN recorded ELSE Append(recorded, file[r])
    /\ Ends(r)
    /\ UNCHANGED overlapped

\* The primary key of schema_migrations refuses what is recorded by now.
Commit(r) ==
    /\ mode[r] = "up" /\ stage[r] = "ddl" /\ ~Recorded(file[r])
    /\ schema' = schema \cup {file[r]}
    /\ recorded' = Append(recorded, file[r])
    /\ file' = [file EXCEPT ![r] = @ + 1]
    /\ Reaches(r, "look")
    /\ UNCHANGED <<mode, overlapped>>

CommitDown(r) ==
    /\ mode[r] = "down" /\ stage[r] = "ddl"
    /\ schema' = schema \ {file[r]}
    /\ recorded' = RemoveFirst(recorded, file[r])
    /\ Ends(r)
    /\ UNCHANGED overlapped

\* ROLLBACK, a failed statement or the end of the process: nothing remains.
Fails(r) ==
    /\ mode[r] # "idle"
    /\ Ends(r)
    /\ UNCHANGED <<recorded, schema, overlapped>>

Finishes(r) ==
    /\ mode[r] = "up" /\ file[r] > LastFile
    /\ Ends(r)
    /\ UNCHANGED <<recorded, schema, overlapped>>

MigrateNext ==
    \E r \in Runners :
        \/ BeginUp(r) \/ BeginDown(r) \/ Look(r) \/ Begin(r)
        \/ Commit(r) \/ CommitDown(r) \/ Fails(r) \/ Finishes(r)

\* The record says what the schema holds; and while no rollback ran beside
\* another runner, the files were applied in order and without a gap, however
\* many runners applied them (apply, rollback).
SchemaIsRecorded ==
    /\ schema = ToSet(recorded)
    /\ ~overlapped => recorded = [i \in 1 .. Len(recorded) |-> i]

=============================================================================

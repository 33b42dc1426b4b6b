------------------------------- MODULE Startup -------------------------------
(***************************************************************************)
(* How a tracker opens its database: initializeSchema of                   *)
(* src/src/db/database.ts, the migrations of src/src/db/migrations.ts, and *)
(* rollbackMigration.                                                      *)
(*                                                                         *)
(* There is no transaction: every CREATE, ALTER, DROP and INSERT is a step *)
(* of its own, and so is each test whether a table exists.  Processes that *)
(* open the same database overlap, and may die at any step.                *)
(***************************************************************************)
EXTENDS Naturals, Sequences, SequencesExt, FiniteSets, FiniteSetsExt

CONSTANT Procs      \* processes, each with one tracker

VARIABLES
  opening,    \* where each process is on its way to an open tracker
  schema,     \* the tables there are, and the column a migration adds
  versions    \* git_cascade_migrations: the versions recorded

stvars == <<opening, schema, versions>>

\* what initializeSchema creates, in its order; "others" stands for the tables
\* no migration is about
Base == <<"streams", "others", "stream_merges", "worker_tasks", "task_merges">>

\* what each migration adds
Up == <<<<"branch_point_commit">>, <<"stream_merges">>,
        <<"checkpoints", "diff_stacks", "diff_stack_entries">>,
        <<"worker_tasks", "task_merges">>>>

\* what its rollback drops: the column cannot be dropped
Down == [v \in DOMAIN Up |-> IF v = 1 THEN <<>> ELSE Reverse(Up[v])]

Latest == Len(Up)
WholeSchema == ToSet(Base) \cup UNION {ToSet(Up[v]) : v \in DOMAIN Up}

\* the schema of a database that an earlier release left at version v
SchemaAt(v) == {"streams", "others"} \cup UNION {ToSet(Up[u]) : u \in 1 .. v}

Closed == [pc |-> "closed", v |-> 0, i |-> 0]

OpeningPcs == {"closed", "schema", "version", "check", "create", "record", "recover", "open",
               "drop", "unrecord", "outdated"}

StartupTypeOK ==
  /\ \A p \in Procs : opening[p].pc \in OpeningPcs
  /\ schema \subseteq WholeSchema
  /\ versions \subseteq 1 .. Latest

\* a new database, or an old one
StartupInit ==
  /\ opening = [p \in Procs |-> Closed]
  /\ \/ schema = {} /\ versions = {}
     \/ \E v \in 0 .. Latest : schema = SchemaAt(v) /\ versions = 1 .. v

Is(p, pc) == opening[p].pc = pc
Open(p) == Is(p, "open")
Move(p, r) == opening' = [opening EXCEPT ![p] = r]

-----------------------------------------------------------------------------
(* createDatabase *)

BeginOpen(p) ==
  /\ Is(p, "closed")
  /\ Move(p, [Closed EXCEPT !.pc = "schema", !.i = 1])
  /\ UNCHANGED <<schema, versions>>

\* CREATE TABLE IF NOT EXISTS; a new streams table has the column
InitializeSchema(p) ==
  LET i == opening[p].i IN
  /\ Is(p, "schema")
  /\ schema' = schema \cup {Base[i]}
                 \cup IF i = 1 /\ "streams" \notin schema THEN {"branch_point_commit"} ELSE {}
  /\ Move(p, IF i < Len(Base) THEN [opening[p] EXCEPT !.i = @ + 1]
             ELSE [opening[p] EXCEPT !.pc = "version"])
  /\ UNCHANGED versions

\* the next migration, or startup recovery when there is none
Migration(r, v) ==
  IF v > Latest THEN [r EXCEPT !.pc = "recover", !.v = 0, !.i = 0]
  ELSE [r EXCEPT !.pc = "check", !.v = v, !.i = 1]

CurrentVersion == Max(versions \cup {0})

ReadVersion(p) ==
  /\ Is(p, "version")
  /\ Move(p, Migration(opening[p], CurrentVersion + 1))
  /\ UNCHANGED <<schema, versions>>

\* the next table of the migration, or its end
NextObject(r) ==
  IF r.i < Len(Up[r.v]) THEN [r EXCEPT !.pc = "check", !.i = @ + 1] ELSE [r EXCEPT !.pc = "record"]

\* mutant: a table that exists ends the migration
CheckFirst(p) ==
  LET r == opening[p] IN
  /\ Is(p, "check")
  /\ Move(p, [r EXCEPT !.pc = IF Up[r.v][r.i] \in schema THEN "record" ELSE "create"])
  /\ UNCHANGED <<schema, versions>>

\* mutant: the test is left out
CheckNothing(p) ==
  /\ Is(p, "check")
  /\ Move(p, [opening[p] EXCEPT !.pc = "create"])
  /\ UNCHANGED <<schema, versions>>

\* does the table or column exist?
CheckObject(p) ==
  LET r == opening[p] IN
  /\ Is(p, "check")
  /\ Move(p, IF Up[r.v][r.i] \in schema THEN NextObject(r) ELSE [r EXCEPT !.pc = "create"])
  /\ UNCHANGED <<schema, versions>>

\* CREATE TABLE or ALTER TABLE, which throws when another process was faster:
\* the tracker is not opened
CreateObject(p) ==
  LET r == opening[p] IN
  /\ Is(p, "create")
  /\ IF Up[r.v][r.i] \in schema
     THEN Move(p, Closed) /\ UNCHANGED schema
     ELSE Move(p, NextObject(r)) /\ schema' = schema \cup {Up[r.v][r.i]}
  /\ UNCHANGED versions

RecordMigration(p) ==
  LET r == opening[p] IN
  /\ Is(p, "record")
  /\ versions' = versions \cup {r.v}
  /\ Move(p, Migration(r, r.v + 1))
  /\ UNCHANGED schema

-----------------------------------------------------------------------------
(* rollbackMigration, with a database that is open; the tracker is outdated then *)

BeginRollback(p) ==
  /\ Open(p) \/ Is(p, "outdated")
  /\ CurrentVersion > 0
  /\ Move(p, [pc |-> IF Down[CurrentVersion] = <<>> THEN "unrecord" ELSE "drop",
              v |-> CurrentVersion, i |-> 1])
  /\ UNCHANGED <<schema, versions>>

DropObject(p) ==
  LET r == opening[p] IN
  /\ Is(p, "drop")
  /\ schema' = schema \ {Down[r.v][r.i]}
  /\ Move(p, IF r.i < Len(Down[r.v]) THEN [r EXCEPT !.i = @ + 1] ELSE [r EXCEPT !.pc = "unrecord"])
  /\ UNCHANGED versions

UnrecordMigration(p) ==
  LET r == opening[p] IN
  /\ Is(p, "unrecord")
  /\ versions' = versions \ {r.v}
  /\ Move(p, [Closed EXCEPT !.pc = "outdated"])
  /\ UNCHANGED schema

CloseTracker(p) ==
  /\ Open(p) \/ Is(p, "outdated")
  /\ Move(p, Closed)
  /\ UNCHANGED <<schema, versions>>

OpeningStep(p) ==
  \/ BeginOpen(p) \/ InitializeSchema(p) \/ ReadVersion(p)
  \/ CheckObject(p) \/ CreateObject(p) \/ RecordMigration(p)

RollbackStep(p) == DropObject(p) \/ UnrecordMigration(p)

=============================================================================

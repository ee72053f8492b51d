--------------------------- MODULE StorageSchema ---------------------------
(* initialize_schema (storage/core.py), which every command runs before its   *)
(* work, on a database an earlier version of the program made.  Python's      *)
(* sqlite3 commits each DDL statement by itself until an INSERT has opened a  *)
(* transaction, so a migration that stops half-way leaves what it had done so *)
(* far; other processes initialize the same file beside it.                   *)
EXTENDS Naturals, FiniteSets

CONSTANTS
  Processes,
  Rows,          \* rows of each legacy table
  NoTable,
  MaxStops,      \* bound: statements that fail and processes that are killed
  MaxBegins      \* bound: initializations of each process

Migrated == {"search_results", "embeddings"}

ASSUME SchemaAssumption ==
  /\ MaxStops \in Nat /\ MaxBegins \in Nat
  /\ NoTable \notin Processes /\ NoTable \notin [policy : {"legacy", "current"}, rows : SUBSET Rows]

VARIABLES
  db,      \* what is committed
  work,    \* the open transaction's view
  writer,  \* the process that has it open
  at,      \* where each process is: a statement, and the table it is about
  begins, stops,
  clean    \* ghost: no statement failed, and no process was ever beside another
schemaVars == <<db, work, writer, at, begins, stops, clean>>

Table(policy, rows) == [policy |-> policy, rows |-> rows]
At(pc, table) == [pc |-> pc, table |-> table]
Idle == At("idle", "search_results")

SchemaInit ==
  /\ db \in [table : [Migrated -> {NoTable, Table("legacy", Rows), Table("current", Rows)}],
             old : {[t \in Migrated |-> NoTable]},
             columns : {{"router_output_json"}, {"query_plan_json"}, {}},
             duplicates : BOOLEAN]
  /\ work = db /\ writer = NoTable
  /\ at = [p \in Processes |-> Idle]
  /\ begins = [p \in Processes |-> 0] /\ stops = 0 /\ clean = TRUE

-----------------------------------------------------------------------------
View(p) == IF writer = p THEN work ELSE db
Free(p) == writer \in {p, NoTable}
\* A statement commits by itself, or belongs to the process's transaction.
Writes(p, next) ==
  /\ Free(p)
  /\ IF writer = p THEN work' = next /\ UNCHANGED db ELSE db' = next /\ work' = next
  /\ UNCHANGED writer
Goes(p, pc, table) == at' = [at EXCEPT ![p] = At(pc, table)]
Step(p, pc) == at[p].pc = pc

Begin(p) ==
  /\ at[p].pc \in {"idle", "ready", "failed"} /\ begins[p] < MaxBegins
  /\ begins' = [begins EXCEPT ![p] = @ + 1]
  /\ Goes(p, "script", "embeddings")
  /\ clean' = (clean /\ \A q \in Processes : at[q].pc \in {"idle", "ready"})
  /\ UNCHANGED <<db, work, writer, stops>>

\* executescript(MVP_SCHEMA_SQL): a CREATE TABLE IF NOT EXISTS for each table.
Script(p) ==
  /\ Step(p, "script")
  /\ LET t == at[p].table IN
       /\ Writes(p, [View(p) EXCEPT !.table[t] = IF @ = NoTable THEN Table("current", {}) ELSE @])
       /\ IF t = "embeddings" THEN Goes(p, "script", "search_results") ELSE Goes(p, "columns", "search_results")
  /\ UNCHANGED <<begins, stops, clean>>

\* _migrate_search_runs_schema: rename one column, add another.
Columns(p) ==
  /\ Step(p, "columns")
  /\ \/ /\ "query_plan_json" \notin View(p).columns
        /\ "router_output_json" \in View(p).columns
        /\ Writes(p, [View(p) EXCEPT !.columns = (@ \ {"router_output_json"}) \cup {"query_plan_json"}])
        /\ UNCHANGED at
     \/ /\ "query_plan_json" \in View(p).columns
        /\ Writes(p, [View(p) EXCEPT !.columns = @ \cup {"retrieval_settings_json"}])
        /\ Goes(p, "policy", "search_results")
  /\ UNCHANGED <<begins, stops, clean>>

After(table) == IF table = "search_results" THEN "embeddings" ELSE "search_results"
Proceed(p, t) == IF t = "search_results" THEN Goes(p, "policy", After(t)) ELSE Goes(p, "packets", t)

\* Nothing to do for a table that has its current foreign key; a table that is
\* missing has none, which search_results may and embeddings may not.
Policy(p) ==
  /\ Step(p, "policy")
  /\ LET t == at[p].table IN
       IF IF View(p).table[t] = NoTable THEN t = "embeddings" ELSE View(p).table[t].policy = "legacy"
       THEN Goes(p, "rename", t) ELSE Proceed(p, t)
  /\ UNCHANGED <<db, work, writer, begins, stops, clean>>

\* Mutant: a leftover of an earlier migration is dropped first.
RenameReplaces(p) ==
  /\ Step(p, "rename")
  /\ LET t == at[p].table IN
       /\ View(p).table[t] # NoTable
       /\ Writes(p, [View(p) EXCEPT !.table[t] = NoTable, !.old[t] = View(p).table[t]])
       /\ Goes(p, "create", t)
  /\ UNCHANGED <<begins, stops, clean>>

Rename(p) ==
  /\ Step(p, "rename")
  /\ LET t == at[p].table IN
       /\ View(p).table[t] # NoTable /\ View(p).old[t] = NoTable
       /\ Writes(p, [View(p) EXCEPT !.table[t] = NoTable, !.old[t] = View(p).table[t]])
       /\ Goes(p, "create", t)
  /\ UNCHANGED <<begins, stops, clean>>

Create(p) ==
  /\ Step(p, "create")
  /\ LET t == at[p].table IN
       /\ View(p).table[t] = NoTable
       /\ Writes(p, [View(p) EXCEPT !.table[t] = Table("current", {})])
       /\ Goes(p, "copy", t)
  /\ UNCHANGED <<begins, stops, clean>>

\* The INSERT opens the transaction, unless one is open.
Copy(p) ==
  /\ Step(p, "copy") /\ Free(p)
  /\ LET t == at[p].table IN
       /\ View(p).table[t] # NoTable /\ View(p).old[t] # NoTable
       /\ View(p).table[t].rows \cap View(p).old[t].rows = {}
       /\ work' = [View(p) EXCEPT !.table[t].rows = @ \cup View(p).old[t].rows]
       /\ Goes(p, "drop", t)
  /\ writer' = p
  /\ UNCHANGED <<db, begins, stops, clean>>

Drop(p) ==
  /\ Step(p, "drop")
  /\ Writes(p, [View(p) EXCEPT !.old[at[p].table] = NoTable])
  /\ Proceed(p, at[p].table)
  /\ UNCHANGED <<begins, stops, clean>>

\* _ensure_search_result_indexes, _ensure_evidence_packet_uniqueness, and the commit.
Finish(p) ==
  /\ Step(p, "packets") /\ Free(p)
  /\ View(p).table["search_results"] # NoTable /\ ~ View(p).duplicates
  /\ db' = View(p) /\ work' = View(p) /\ writer' = NoTable
  /\ Goes(p, "ready", "search_results")
  /\ UNCHANGED <<begins, stops, clean>>

Midway(p) == at[p].pc \notin {"idle", "ready", "failed"}
\* What the statements above refuse: no name of the plan column, a leftover with
\* the name, a table another process made, rows copied already, two packets.
Rejects(p) ==
  LET v == View(p)
      t == at[p].table
  IN  \/ Step(p, "columns") /\ {"query_plan_json", "router_output_json"} \cap v.columns = {}
      \/ Step(p, "rename") /\ (v.table[t] = NoTable \/ v.old[t] # NoTable)
      \/ Step(p, "create") /\ v.table[t] # NoTable
      \/ Step(p, "copy") /\ (NoTable \in {v.old[t], v.table[t]} \/ v.old[t].rows \cap v.table[t].rows # {})
      \/ Step(p, "packets") /\ (v.table["search_results"] = NoTable \/ v.duplicates)

\* rollback undoes what the open transaction holds; so does SQLite for a process
\* that is killed.  A locked database, a full disk or a kill stops any statement.
Stop(p) ==
  /\ Midway(p)
  /\ IF Rejects(p) THEN UNCHANGED stops ELSE stops < MaxStops /\ stops' = stops + 1
  /\ work' = IF writer = p THEN db ELSE work
  /\ writer' = IF writer = p THEN NoTable ELSE writer
  /\ Goes(p, "failed", "search_results")
  /\ clean' = FALSE
  /\ UNCHANGED <<db, begins>>

SchemaNext == \E p \in Processes :
  Begin(p) \/ Script(p) \/ Columns(p) \/ Policy(p) \/ Rename(p) \/ Create(p) \/ Copy(p)
  \/ Drop(p) \/ Finish(p) \/ Stop(p)

SchemaSpec == SchemaInit /\ [][SchemaNext]_schemaVars

-----------------------------------------------------------------------------
\* check_storage: the required tables are there.
StorageOk == \A t \in Migrated : db.table[t] # NoTable

Held(t) == (IF db.table[t] = NoTable THEN {} ELSE db.table[t].rows)
           \cup (IF db.old[t] = NoTable THEN {} ELSE db.old[t].rows)
\* Every row is in the table the program reads, and no other table refers to a chunk.
Unstranded(t) == /\ db.table[t] # NoTable /\ db.table[t].policy = "current"
                 /\ db.old[t] = NoTable

\* Whatever fails or runs beside it, a migration destroys no row; one that had
\* no failure and no process beside or before it leaves every row where the
\* program reads it.
MigrationLosesNothing ==
  [][/\ \A t \in Migrated : Held(t) \subseteq Held(t)'
     /\ (\E p \in Processes : Step(p, "packets") /\ Step(p, "ready")') /\ clean'
          => \A t \in Migrated : Unstranded(t)']_<<db, at>>

\* Docstring of _ensure_search_results_chunk_delete_policy: "Keep stale chunk
\* cleanup from blocking on historical search result rows."
NoHistoryBlocksCleanup ==
  (\E p \in Processes : Step(p, "ready")) /\ (\A p \in Processes : ~ Midway(p)) /\ StorageOk => \A t \in Migrated : Unstranded(t)
=============================================================================

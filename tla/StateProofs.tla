----------------------------- MODULE StateProofs -----------------------------
(* What the migration of the schema keeps, for any rows, any processes that   *)
(* initialize the database side by side, and any statements that fail; then   *)
(* what the evaluation keeps, for any preparations, commits and item sets;    *)
(* last, what the session registry keeps, for any asks, limits and clock.     *)
EXTENDS Evaluation, StorageSchema, SessionRegistry, FiniteSetTheorems, TLAPS

TableType == [policy : {"legacy", "current"}, rows : SUBSET Rows] \cup {NoTable}
DbType == [table : [Migrated -> TableType], old : [Migrated -> TableType],
           columns : SUBSET {"router_output_json", "query_plan_json", "retrieval_settings_json"},
           duplicates : BOOLEAN]
Working == {"script", "columns", "policy", "rename", "create", "copy", "drop", "packets"}
Places == [pc : Working \cup {"idle", "ready", "failed"}, table : Migrated]
SchemaType ==
  /\ db \in DbType /\ work \in DbType /\ writer \in Processes \cup {NoTable}
  /\ at \in [Processes -> Places]
  /\ clean \in BOOLEAN

\* The rows a table and its leftover hold together.
RowsIn(d, t) == (IF d.table[t] = NoTable THEN {} ELSE d.table[t].rows)
                \cup (IF d.old[t] = NoTable THEN {} ELSE d.old[t].rows)

\* The open transaction holds every committed row, and drops only what it has copied.
RowsInv ==
  /\ \A t \in Migrated : RowsIn(db, t) \subseteq RowsIn(work, t)
  /\ writer # NoTable => Midway(writer)
  /\ \A p \in Processes : Step(p, "drop") =>
       LET t == at[p].table
       IN  /\ writer = p /\ work.table[t] # NoTable /\ work.old[t] # NoTable
           /\ work.old[t].rows \subseteq work.table[t].rows

Whole(d, t) == d.table[t] # NoTable /\ d.old[t] = NoTable
Current(d, t) == Whole(d, t) /\ d.table[t].policy = "current"

\* What a migration has reached before statement step of table t, when it is alone
\* and nothing has failed.
Reached(d, step, t) ==
  /\ step = "script" => /\ \A u \in Migrated : d.old[u] = NoTable
                        /\ t = "search_results" => d.table["embeddings"] # NoTable
  /\ step \in {"columns", "policy", "rename"} => \A u \in Migrated : Whole(d, u)
  /\ step \in {"policy", "rename", "create", "copy", "drop"} /\ t = "embeddings" => Current(d, "search_results")
  /\ step \in {"create", "copy", "drop"} => \A u \in Migrated \ {t} : Whole(d, u)
  /\ step \in {"copy", "drop"} => d.table[t] # NoTable /\ d.table[t].policy = "current"
  /\ step = "packets" => \A u \in Migrated : Current(d, u)
Progress(p) == Reached(View(p), at[p].pc, at[p].table)

CleanInv ==
  clean =>
    /\ \A p \in Processes : at[p].pc # "failed"
    /\ \A p, q \in Processes : Midway(p) /\ Midway(q) => p = q
    /\ (\A p \in Processes : ~ Midway(p)) => \A t \in Migrated : db.old[t] = NoTable
    /\ \A p \in Processes : Midway(p) => Progress(p)

SchemaInv == SchemaType /\ RowsInv /\ CleanInv

\* What MigrationLosesNothing says of a step.
LosesNothing ==
  /\ \A t \in Migrated : Held(t) \subseteq Held(t)'
  /\ (\E p \in Processes : Step(p, "packets") /\ Step(p, "ready")') /\ clean'
       => \A t \in Migrated : Unstranded(t)'

LEMMA AbsentTable ==
  /\ NoTable \notin Processes
  /\ \A x \in TableType : x # NoTable => x.policy \in {"legacy", "current"} /\ x.rows \in SUBSET Rows
BY SchemaAssumption DEF SchemaAssumption, TableType

\* Only one process has a transaction open, and it drops from no other view.
LEMMA AloneInTransaction ==
  ASSUME SchemaType, RowsInv, NEW p \in Processes, Free(p),
         NEW q \in Processes \ {p}
  PROVE  ~ Step(q, "drop")
BY AbsentTable DEF SchemaType, RowsInv, Free

\* A statement of process p that writes next, of which no row is missing.
LEMMA StatementKeepsRows ==
  ASSUME SchemaType, RowsInv, NEW p \in Processes, NEW next \in DbType, Writes(p, next),
         \A t \in Migrated : RowsIn(View(p), t) \subseteq RowsIn(next, t),
         at' \in [Processes -> Places], clean' = clean,
         \A q \in Processes \ {p} : at'[q] = at[q],
         at'[p].pc \in Working \ {"drop"}
  PROVE  SchemaType' /\ RowsInv' /\ View(p)' = next /\ \A t \in Migrated : RowsIn(db, t) \subseteq RowsIn(db', t)
<1>1. writer' = writer /\ writer \in {p, NoTable} /\ p # NoTable
  BY AbsentTable DEF Writes, Free
<1>2. db' \in DbType /\ work' \in DbType /\ View(p)' = next
  BY <1>1 DEF Writes, SchemaType, View
<1>3. SchemaType'
  BY <1>1, <1>2 DEF SchemaType
<1>4. \A t \in Migrated : RowsIn(db, t) \subseteq RowsIn(db', t) /\ RowsIn(db', t) \subseteq RowsIn(work', t)
  <2>1. CASE writer = p
    <3>1. db' = db /\ work' = next /\ View(p) = work
      BY <2>1 DEF Writes, View
    <3> QED BY <3>1 DEF RowsInv
  <2>2. CASE writer # p
    <3>1. db' = next /\ work' = next /\ View(p) = db
      BY <2>2 DEF Writes, View
    <3> QED BY <3>1
  <2> QED BY <2>1, <2>2
<1>5. RowsInv'
  <2>1. writer' # NoTable => Midway(writer)'
    BY <1>1 DEF Midway, Working
  <2>2. \A q \in Processes : ~ Step(q, "drop")'
    BY AloneInTransaction DEF Step, Writes
  <2>3. (\A t \in Migrated : RowsIn(db, t) \subseteq RowsIn(work, t))'
    BY <1>4 DEF RowsIn
  <2> QED BY <2>1, <2>2, <2>3 DEF RowsInv
<1> QED BY <1>2, <1>3, <1>4, <1>5

\* A step of a process that is alone and without a failure keeps CleanInv, when
\* what it reaches is what the next statement needs.
LEMMA AloneKeepsClean ==
  ASSUME SchemaType, CleanInv, NEW p \in Processes, Midway(p), clean' = clean,
         \A q \in Processes \ {p} : at'[q] = at[q],
         Progress(p) => /\ at'[p].pc # "failed"
                        /\ Midway(p)' => Progress(p)'
                        /\ ~ Midway(p)' => \A t \in Migrated : db'.old[t] = NoTable
  PROVE  CleanInv'
<1> SUFFICES ASSUME clean PROVE CleanInv'
  BY DEF CleanInv
<1>1. Progress(p)
  BY DEF CleanInv
<1>2. \A q \in Processes \ {p} : ~ Midway(q) /\ ~ Midway(q)' /\ at'[q].pc # "failed"
  BY DEF CleanInv, Midway
<1> QED BY <1>1, <1>2 DEF CleanInv

LEMMA InitSchemaInv == SchemaInit => SchemaInv
<1> SUFFICES ASSUME SchemaInit PROVE SchemaInv
  OBVIOUS
<1>1. SchemaType
  BY DEF SchemaInit, SchemaType, DbType, TableType, Table, Places, At, Idle, Working, Migrated
<1>2. \A p \in Processes : at[p].pc = "idle"
  BY DEF SchemaInit, Idle, At
<1>3. RowsInv
  BY <1>2 DEF SchemaInit, RowsInv, Step
<1>4. CleanInv
  BY <1>2 DEF SchemaInit, CleanInv, Midway
<1> QED BY <1>1, <1>3, <1>4 DEF SchemaInv

\* A step that neither commits nor ends a migration loses nothing when the rows stay.
LEMMA NothingLost ==
  ASSUME \A t \in Migrated : RowsIn(db, t) \subseteq RowsIn(db', t),
         \A q \in Processes : Step(q, "ready")' => ~ Step(q, "packets")
  PROVE  LosesNothing
BY DEF LosesNothing, Held, RowsIn

LEMMA BeginKeeps ==
  ASSUME SchemaInv, NEW p \in Processes, Begin(p)
  PROVE  SchemaInv' /\ LosesNothing
<1> USE DEF SchemaInv
<1>1. /\ at' = [at EXCEPT ![p] = At("script", "embeddings")] /\ ~ Midway(p)
      /\ db' = db /\ work' = work /\ writer' = writer
  BY DEF Begin, Goes, Midway
<1>2. SchemaType'
  BY <1>1 DEF SchemaType, Begin, Places, At, Working, Migrated
<1>3. at'[p].pc = "script" /\ at'[p].table = "embeddings" /\ \A q \in Processes \ {p} : at'[q] = at[q]
  BY <1>1 DEF SchemaType, At
<1>4. writer # p
  BY <1>1, AbsentTable DEF RowsInv
<1>5. RowsInv'
  BY <1>1, <1>3, <1>4 DEF RowsInv, RowsIn, Step, Midway, SchemaType
<1>6. CleanInv'
  <2> SUFFICES ASSUME clean' PROVE CleanInv'
    BY DEF CleanInv
  <2>1. clean /\ \A q \in Processes : ~ Midway(q) /\ at[q].pc # "failed"
    BY DEF Begin, Midway
  <2>2. \A t \in Migrated : db.old[t] = NoTable
    BY <2>1 DEF CleanInv
  <2>3. View(p)' = db
    BY <1>1, <1>4 DEF View
  <2>4. Progress(p)'
    BY <1>3, <2>2, <2>3 DEF Progress, Reached
  <2> QED BY <1>3, <2>1, <2>4 DEF CleanInv, Midway
<1>7. LosesNothing
  BY <1>1, <1>3, NothingLost DEF Step
<1> QED BY <1>2, <1>5, <1>6, <1>7

\* What a statement that writes next shows, once its rows and what it reaches are known.
LEMMA StatementKeeps ==
  ASSUME SchemaInv, NEW p \in Processes, NEW next \in DbType, Writes(p, next),
         NEW step \in Working \ {"drop"}, NEW t \in Migrated,
         \A u \in Migrated : RowsIn(View(p), u) \subseteq RowsIn(next, u),
         at' = [at EXCEPT ![p] = At(step, t)], clean' = clean,
         Midway(p), Progress(p) => Reached(next, step, t)
  PROVE  SchemaInv' /\ LosesNothing
<1> USE DEF SchemaInv
<1>1. at'[p] = [pc |-> step, table |-> t] /\ (\A q \in Processes \ {p} : at'[q] = at[q]) /\ at' \in [Processes -> Places]
  BY DEF SchemaType, At, Places
<1>2. /\ SchemaType' /\ RowsInv' /\ View(p)' = next
      /\ \A u \in Migrated : RowsIn(db, u) \subseteq RowsIn(db', u)
  BY <1>1, StatementKeepsRows
<1>3. Progress(p)' <=> Reached(next, step, t)
  BY <1>1, <1>2 DEF Progress
<1>4. CleanInv'
  <2>1. at'[p].pc # "failed" /\ Midway(p)'
    BY <1>1 DEF Midway, Working
  <2> QED BY <1>1, <1>3, <2>1, AloneKeepsClean
<1>5. LosesNothing
  BY <1>1, <1>2, NothingLost DEF Step, Working
<1> QED BY <1>2, <1>4, <1>5

LEMMA ViewType ==
  ASSUME SchemaType, NEW p \in Processes
  PROVE  View(p) \in DbType
BY DEF SchemaType, View

LEMMA ScriptKeeps ==
  ASSUME SchemaInv, NEW p \in Processes, Script(p)
  PROVE  SchemaInv' /\ LosesNothing
<1> DEFINE d == View(p)
           t == at[p].table
           next == [d EXCEPT !.table[t] = IF @ = NoTable THEN Table("current", {}) ELSE @]
           made == IF d.table[t] = NoTable THEN Table("current", {}) ELSE d.table[t]
<1>1. d \in DbType /\ t \in Migrated /\ Step(p, "script")
  BY ViewType DEF SchemaInv, SchemaType, Places, Script
<1>2. Table("current", {}) # NoTable /\ Table("current", {}) \in TableType
  BY SchemaAssumption DEF SchemaAssumption, Table, TableType
<1>3. /\ next.old = d.old /\ next.table[t] = made /\ made # NoTable
      /\ \A u \in Migrated \ {t} : next.table[u] = d.table[u]
  BY <1>1, <1>2 DEF DbType
<1>4. next \in DbType
  BY <1>1, <1>2 DEF DbType
<1>5. \A u \in Migrated : RowsIn(d, u) \subseteq RowsIn(next, u)
  BY <1>1, <1>3 DEF RowsIn
<1>6. Writes(p, next) /\ clean' = clean /\ Midway(p)
  BY DEF Script, Midway, Step
<1> HIDE DEF made
<1>7. CASE t = "embeddings"
  <2>1. at' = [at EXCEPT ![p] = At("script", "search_results")]
    BY <1>7 DEF Script, Goes
  <2> HIDE DEF next
  <2>2. Progress(p) => Reached(next, "script", "search_results")
    BY <1>1, <1>3, <1>7 DEF Progress, Reached, Step
  <2> HIDE DEF d, t
  <2> QED BY <1>4, <1>5, <1>6, <2>1, <2>2, StatementKeeps DEF Working, Migrated, d
<1>8. CASE t # "embeddings"
  <2>1. t = "search_results" /\ at' = [at EXCEPT ![p] = At("columns", "search_results")]
    BY <1>1, <1>8 DEF Script, Goes, Migrated
  <2> HIDE DEF next
  <2>2. Progress(p) => Reached(next, "columns", "search_results")
    BY <1>1, <1>3, <2>1 DEF Progress, Reached, Step, Whole, Migrated
  <2> HIDE DEF d, t
  <2> QED BY <1>4, <1>5, <1>6, <2>1, <2>2, StatementKeeps DEF Working, Migrated, d
<1> QED BY <1>7, <1>8

LEMMA ColumnsKeep ==
  ASSUME SchemaInv, NEW p \in Processes, Columns(p)
  PROVE  SchemaInv' /\ LosesNothing
<1> DEFINE d == View(p)
           renamed == [d EXCEPT !.columns = (@ \ {"router_output_json"}) \cup {"query_plan_json"}]
           added == [d EXCEPT !.columns = @ \cup {"retrieval_settings_json"}]
<1>1. d \in DbType
  BY ViewType DEF SchemaInv
<1>2. \A next \in {renamed, added} : next \in DbType /\ next.table = d.table /\ next.old = d.old
  BY <1>1 DEF DbType
<1>3. clean' = clean /\ Midway(p) /\ Step(p, "columns") /\ at[p] = At("columns", at[p].table) /\ at[p].table \in Migrated
  BY DEF Columns, Midway, Step, SchemaInv, SchemaType, Places, At
<1>4. \A next \in {renamed, added}, t \in Migrated : RowsIn(d, t) \subseteq RowsIn(next, t)
  BY <1>2 DEF RowsIn
<1>5. \A next \in {renamed, added}, step \in {"columns", "policy"}, t \in Migrated :
        (step = "policy" => t = "search_results") /\ Progress(p) => Reached(next, step, t)
  BY <1>2, <1>3 DEF Progress, Reached, Whole, Step
<1>6. CASE Writes(p, renamed) /\ UNCHANGED at
  <2>1. at' = [at EXCEPT ![p] = At("columns", at[p].table)]
    BY <1>3, <1>6 DEF SchemaInv, SchemaType
  <2> HIDE DEF d, renamed, added
  <2> QED BY <1>2, <1>3, <1>4, <1>5, <1>6, <2>1, StatementKeeps DEF Working, d
<1>7. CASE Writes(p, added) /\ Goes(p, "policy", "search_results")
  <2> HIDE DEF d, renamed, added
  <2> QED BY <1>2, <1>3, <1>4, <1>5, <1>7, StatementKeeps DEF Working, d, Goes, Migrated
<1> QED BY <1>6, <1>7 DEF Columns

LEMMA PolicyKeeps ==
  ASSUME SchemaInv, NEW p \in Processes, Policy(p)
  PROVE  SchemaInv' /\ LosesNothing
<1> USE DEF SchemaInv
<1> DEFINE t == at[p].table
           d == View(p)
<1>1. /\ db' = db /\ work' = work /\ writer' = writer /\ clean' = clean
      /\ at[p].pc = "policy" /\ Midway(p) /\ t \in Migrated /\ d \in DbType
  BY ViewType DEF Policy, Step, Midway, SchemaType, Places
<1>2. \E step \in {"rename", "policy", "packets"}, u \in Migrated :
        /\ at' = [at EXCEPT ![p] = At(step, u)]
        /\ Progress(p) => Reached(d, step, u)
  <2>1. CASE Goes(p, "rename", t)
    BY <1>1, <2>1 DEF Goes, Progress, Reached
  <2>2. CASE t = "search_results" /\ ~ Goes(p, "rename", t)
    <3>1. Goes(p, "policy", "embeddings")
      BY <2>2 DEF Policy, Proceed, After
    <3>2. Progress(p) => Reached(d, "policy", "embeddings")
      <4>1. d.table[t] # NoTable => d.table[t].policy = "current"
        BY <1>1, <2>2, AbsentTable DEF Policy, DbType
      <4> QED BY <1>1, <2>2, <4>1 DEF Progress, Reached, Whole, Current
    <3> QED BY <3>1, <3>2 DEF Goes, Migrated
  <2>3. CASE t = "embeddings" /\ ~ Goes(p, "rename", t)
    <3>1. Goes(p, "packets", "embeddings")
      BY <2>3 DEF Policy, Proceed
    <3>2. Progress(p) => Reached(d, "packets", "embeddings")
      <4>1. d.table[t] # NoTable /\ d.table[t].policy = "current"
        BY <1>1, <2>3, AbsentTable DEF Policy, DbType
      <4> QED BY <1>1, <2>3, <4>1 DEF Progress, Reached, Whole, Current, Migrated
    <3> QED BY <3>1, <3>2 DEF Goes, Migrated
  <2> QED BY <1>1, <2>1, <2>2, <2>3 DEF Migrated
<1>3. PICK step \in {"rename", "policy", "packets"}, u \in Migrated :
        /\ at' = [at EXCEPT ![p] = At(step, u)]
        /\ Progress(p) => Reached(d, step, u)
  BY <1>2
<1>4. /\ at'[p] = [pc |-> step, table |-> u] /\ (\A q \in Processes \ {p} : at'[q] = at[q])
      /\ at' \in [Processes -> Places]
  BY <1>3 DEF SchemaType, At, Places, Working
<1>5. SchemaType'
  BY <1>1, <1>4 DEF SchemaType
<1>6. RowsInv'
  <2>1. writer' # NoTable => Midway(writer)'
    BY <1>1, <1>4 DEF RowsInv, Midway, SchemaType
  <2>2. \A q \in Processes : Step(q, "drop")' => q # p /\ Step(q, "drop")
    BY <1>4 DEF Step
  <2> QED BY <1>1, <1>4, <2>1, <2>2 DEF RowsInv, RowsIn
<1>7. CleanInv'
  <2>1. View(p)' = d
    BY <1>1 DEF View
  <2>2. Progress(p) => Progress(p)'
    BY <1>3, <1>4, <2>1 DEF Progress
  <2>3. at'[p].pc # "failed" /\ Midway(p)'
    BY <1>4 DEF Midway
  <2> QED BY <1>1, <1>4, <2>2, <2>3, AloneKeepsClean
<1>8. LosesNothing
  BY <1>1, <1>4, NothingLost DEF Step
<1> QED BY <1>5, <1>6, <1>7, <1>8

LEMMA RenameKeeps ==
  ASSUME SchemaInv, NEW p \in Processes, Rename(p)
  PROVE  SchemaInv' /\ LosesNothing
<1> DEFINE d == View(p)
           t == at[p].table
           next == [d EXCEPT !.table[t] = NoTable, !.old[t] = d.table[t]]
<1>1. d \in DbType /\ t \in Migrated
  BY ViewType DEF SchemaInv, SchemaType, Places
<1>2. next.table = [d.table EXCEPT ![t] = NoTable] /\ next.old = [d.old EXCEPT ![t] = d.table[t]]
  BY <1>1 DEF DbType
<1>3. next \in DbType
  BY <1>1 DEF DbType, TableType
<1>4. /\ d.table[t] # NoTable /\ d.old[t] = NoTable /\ Writes(p, next)
      /\ at' = [at EXCEPT ![p] = At("create", t)] /\ clean' = clean /\ Midway(p) /\ Step(p, "rename")
  BY DEF Rename, Goes, Midway, Step
<1>5. next.table[t] = NoTable /\ next.old[t] = d.table[t]
      /\ \A u \in Migrated \ {t} : next.table[u] = d.table[u] /\ next.old[u] = d.old[u]
  BY <1>1, <1>2 DEF DbType
<1>6. \A u \in Migrated : RowsIn(d, u) \subseteq RowsIn(next, u)
  BY <1>1, <1>4, <1>5 DEF RowsIn
<1>7. Progress(p) => Reached(next, "create", t)
  <2> HIDE DEF next, d
  <2> QED BY <1>4, <1>5 DEF Progress, Reached, Whole, Current, Step, Migrated, d
<1> HIDE DEF d, next, t
<1> QED BY <1>1, <1>3, <1>4, <1>6, <1>7, StatementKeeps DEF Working, d

LEMMA CreateKeeps ==
  ASSUME SchemaInv, NEW p \in Processes, Create(p)
  PROVE  SchemaInv' /\ LosesNothing
<1> DEFINE d == View(p)
           t == at[p].table
           next == [d EXCEPT !.table[t] = Table("current", {})]
<1>1. d \in DbType /\ t \in Migrated
  BY ViewType DEF SchemaInv, SchemaType, Places
<1>2. next.table = [d.table EXCEPT ![t] = Table("current", {})] /\ next.old = d.old
  BY <1>1 DEF DbType
<1>3. next \in DbType
  BY <1>1 DEF DbType, TableType, Table
<1>4. /\ d.table[t] = NoTable /\ Writes(p, next)
      /\ at' = [at EXCEPT ![p] = At("copy", t)] /\ clean' = clean /\ Midway(p) /\ Step(p, "create")
  BY DEF Create, Goes, Midway, Step
<1>5. /\ next.table[t] = [policy |-> "current", rows |-> {}] /\ next.table[t] # NoTable
      /\ \A u \in Migrated \ {t} : next.table[u] = d.table[u]
  BY <1>1, <1>2, SchemaAssumption DEF DbType, SchemaAssumption, Table
<1>6. \A u \in Migrated : RowsIn(d, u) \subseteq RowsIn(next, u)
  BY <1>1, <1>2, <1>4, <1>5 DEF RowsIn
<1>7. Progress(p) => Reached(next, "copy", t)
  <2> HIDE DEF next, d
  <2> QED BY <1>2, <1>4, <1>5 DEF Progress, Reached, Whole, Current, Step, Migrated, d
<1> HIDE DEF d, next, t
<1> QED BY <1>1, <1>3, <1>4, <1>6, <1>7, StatementKeeps DEF Working, d

\* The copy opens the transaction that the drop needs.
LEMMA CopyKeeps ==
  ASSUME SchemaInv, NEW p \in Processes, Copy(p)
  PROVE  SchemaInv' /\ LosesNothing
<1> USE DEF SchemaInv
<1> DEFINE d == View(p)
           t == at[p].table
           next == [d EXCEPT !.table[t].rows = @ \cup d.old[t].rows]
<1>1. d \in DbType /\ t \in Migrated
  BY ViewType DEF SchemaType, Places
<1>2. /\ d.table[t] # NoTable /\ d.old[t] # NoTable /\ Free(p) /\ work' = next /\ writer' = p /\ db' = db
      /\ at' = [at EXCEPT ![p] = At("drop", t)] /\ clean' = clean /\ Midway(p) /\ Step(p, "copy")
  BY DEF Copy, Goes, Midway, Step
<1>3. /\ d.table[t].policy \in {"legacy", "current"} /\ d.table[t].rows \in SUBSET Rows
      /\ d.old[t].rows \in SUBSET Rows
      /\ d.table[t] = [policy |-> d.table[t].policy, rows |-> d.table[t].rows]
  BY <1>1, <1>2, AbsentTable DEF DbType, TableType
<1>4. /\ next.old = d.old /\ next.duplicates = d.duplicates /\ next.columns = d.columns
      /\ next.table = [d.table EXCEPT ![t] = [policy |-> d.table[t].policy, rows |-> d.table[t].rows \cup d.old[t].rows]]
  BY <1>1, <1>3 DEF DbType
<1>5. next \in DbType
  BY <1>1, <1>3 DEF DbType, TableType
<1>6. /\ next.table[t].policy = d.table[t].policy /\ next.table[t].rows = d.table[t].rows \cup d.old[t].rows
      /\ next.table[t] # NoTable
      /\ \A u \in Migrated \ {t} : next.table[u] = d.table[u]
  BY <1>1, <1>3, <1>4, SchemaAssumption DEF DbType, SchemaAssumption
<1> HIDE DEF next
<1>7. \A u \in Migrated : RowsIn(db, u) \subseteq RowsIn(next, u)
  <2>1. \A u \in Migrated : RowsIn(db, u) \subseteq RowsIn(d, u)
    BY DEF RowsInv, View
  <2>2. \A u \in Migrated : RowsIn(d, u) \subseteq RowsIn(next, u)
    BY <1>1, <1>2, <1>4, <1>6 DEF RowsIn
  <2> QED BY <2>1, <2>2
<1>8. /\ at'[p] = [pc |-> "drop", table |-> t] /\ (\A q \in Processes \ {p} : at'[q] = at[q])
      /\ at' \in [Processes -> Places]
  BY <1>1, <1>2 DEF SchemaType, At, Places, Working
<1>9. SchemaType'
  BY <1>2, <1>5, <1>8 DEF SchemaType
<1>10. RowsInv'
  <2>1. (\A u \in Migrated : RowsIn(db, u) \subseteq RowsIn(work, u))'
    BY <1>2, <1>7 DEF RowsIn
  <2>2. \A q \in Processes : Step(q, "drop")' => q = p
    BY <1>2, <1>8, AloneInTransaction DEF Step
  <2>3. work'.table[t] # NoTable /\ work'.old[t] # NoTable /\ work'.old[t].rows \subseteq work'.table[t].rows
    BY <1>2, <1>4, <1>6
  <2>4. Midway(writer)'
    BY <1>2, <1>8 DEF Midway
  <2> QED BY <1>2, <1>8, <2>1, <2>2, <2>3, <2>4 DEF RowsInv
<1>11. CleanInv'
  <2>1. View(p)' = next
    BY <1>2 DEF View
  <2>2. Progress(p) => Reached(next, "drop", t)
    BY <1>2, <1>4, <1>6 DEF Progress, Reached, Whole, Current, Step, Migrated
  <2>3. Progress(p)' <=> Reached(next, "drop", t)
    BY <1>8, <2>1 DEF Progress
  <2>4. at'[p].pc # "failed" /\ Midway(p)'
    BY <1>8 DEF Midway
  <2> QED BY <1>2, <1>8, <2>2, <2>3, <2>4, AloneKeepsClean
<1>12. LosesNothing
  BY <1>2, <1>8, NothingLost DEF Step
<1> QED BY <1>9, <1>10, <1>11, <1>12

\* What is dropped was copied in the same transaction.
LEMMA DropKeeps ==
  ASSUME SchemaInv, NEW p \in Processes, Drop(p)
  PROVE  SchemaInv' /\ LosesNothing
<1> DEFINE d == View(p)
           t == at[p].table
           next == [d EXCEPT !.old[t] = NoTable]
<1>1. d \in DbType /\ t \in Migrated
  BY ViewType DEF SchemaInv, SchemaType, Places
<1>2. next.table = d.table /\ next.old = [d.old EXCEPT ![t] = NoTable]
  BY <1>1 DEF DbType
<1>3. next \in DbType
  BY <1>1 DEF DbType, TableType
<1>4. Writes(p, next) /\ clean' = clean /\ Midway(p) /\ Step(p, "drop") /\ Proceed(p, t)
  BY DEF Drop, Midway, Step
<1>5. next.old[t] = NoTable /\ \A u \in Migrated \ {t} : next.old[u] = d.old[u]
  BY <1>1, <1>2 DEF DbType
<1> HIDE DEF next
<1>6. \A u \in Migrated : RowsIn(d, u) \subseteq RowsIn(next, u)
  <2>1. d.table[t] # NoTable /\ d.old[t] # NoTable /\ d.old[t].rows \subseteq d.table[t].rows
    BY <1>4 DEF SchemaInv, RowsInv, View
  <2> QED BY <1>1, <1>2, <1>5, <2>1 DEF RowsIn
<1>7. CASE t = "search_results"
  <2>1. at' = [at EXCEPT ![p] = At("policy", "embeddings")]
    BY <1>4, <1>7 DEF Proceed, After, Goes
  <2>2. Progress(p) => Reached(next, "policy", "embeddings")
    BY <1>2, <1>4, <1>5, <1>7 DEF Progress, Reached, Whole, Current, Step, Migrated
  <2> HIDE DEF d, t
  <2> QED BY <1>3, <1>4, <1>6, <2>1, <2>2, StatementKeeps DEF Working, Migrated, d
<1>8. CASE t = "embeddings"
  <2>1. at' = [at EXCEPT ![p] = At("packets", "embeddings")]
    BY <1>4, <1>8 DEF Proceed, After, Goes
  <2>2. Progress(p) => Reached(next, "packets", "embeddings")
    BY <1>2, <1>4, <1>5, <1>8 DEF Progress, Reached, Whole, Current, Step, Migrated
  <2> HIDE DEF d, t
  <2> QED BY <1>3, <1>4, <1>6, <2>1, <2>2, StatementKeeps DEF Working, Migrated, d
<1> QED BY <1>1, <1>7, <1>8 DEF Migrated

\* The commit publishes what the transaction holds.
LEMMA FinishKeeps ==
  ASSUME SchemaInv, NEW p \in Processes, Finish(p)
  PROVE  SchemaInv' /\ LosesNothing
<1> USE DEF SchemaInv
<1> DEFINE d == View(p)
<1>1. d \in DbType
  BY ViewType
<1>2. /\ Free(p) /\ db' = d /\ work' = d /\ writer' = NoTable /\ clean' = clean
      /\ at' = [at EXCEPT ![p] = At("ready", "search_results")] /\ Midway(p) /\ Step(p, "packets")
  BY DEF Finish, Goes, Midway, Step
<1>3. /\ at'[p] = [pc |-> "ready", table |-> "search_results"] /\ (\A q \in Processes \ {p} : at'[q] = at[q])
      /\ at' \in [Processes -> Places]
  BY <1>2 DEF SchemaType, At, Places, Migrated
<1>4. SchemaType'
  BY <1>1, <1>2, <1>3 DEF SchemaType
<1>5. RowsInv'
  <2>1. (\A u \in Migrated : RowsIn(db, u) \subseteq RowsIn(work, u))'
    BY <1>2 DEF RowsIn
  <2>2. \A q \in Processes : ~ Step(q, "drop")'
    BY <1>2, <1>3, AloneInTransaction DEF Step
  <2> QED BY <1>2, <2>1, <2>2 DEF RowsInv
<1>6. Progress(p) => \A u \in Migrated : Current(d, u)
  BY <1>2 DEF Progress, Reached, Step
<1>7. CleanInv'
  <2>1. at'[p].pc # "failed" /\ ~ Midway(p)'
    BY <1>3 DEF Midway
  <2>2. Progress(p) => \A u \in Migrated : db'.old[u] = NoTable
    BY <1>2, <1>6 DEF Current, Whole
  <2> QED BY <1>2, <1>3, <2>1, <2>2, AloneKeepsClean
<1>8. LosesNothing
  <2>1. \A u \in Migrated : Held(u) \subseteq Held(u)'
    <3>1. \A u \in Migrated : RowsIn(db, u) \subseteq RowsIn(d, u)
      BY DEF RowsInv, View
    <3> QED BY <1>2, <3>1 DEF Held, RowsIn
  <2>2. clean' => \A u \in Migrated : Unstranded(u)'
    BY <1>2, <1>6 DEF CleanInv, Unstranded, Current, Whole
  <2> QED BY <2>1, <2>2 DEF LosesNothing
<1> QED BY <1>4, <1>5, <1>7, <1>8

\* A failure undoes the transaction, and no more.
LEMMA StopKeeps ==
  ASSUME SchemaInv, NEW p \in Processes, Stop(p)
  PROVE  SchemaInv' /\ LosesNothing
<1> USE DEF SchemaInv
<1>1. /\ at' = [at EXCEPT ![p] = At("failed", "search_results")] /\ db' = db /\ clean' = FALSE
      /\ work' = (IF writer = p THEN db ELSE work) /\ writer' = (IF writer = p THEN NoTable ELSE writer)
  BY DEF Stop, Goes
<1>2. /\ at'[p] = [pc |-> "failed", table |-> "search_results"] /\ (\A q \in Processes \ {p} : at'[q] = at[q])
      /\ at' \in [Processes -> Places]
  BY <1>1 DEF SchemaType, At, Places, Migrated
<1>3. SchemaType'
  BY <1>1, <1>2 DEF SchemaType
<1>4. RowsInv'
  <2>1. (\A u \in Migrated : RowsIn(db, u) \subseteq RowsIn(work, u))'
    BY <1>1 DEF RowsInv, RowsIn
  <2>2. writer' # NoTable => Midway(writer)'
    BY <1>1, <1>2 DEF RowsInv, Midway, SchemaType
  <2>3. \A q \in Processes : Step(q, "drop")' => q # p /\ Step(q, "drop") /\ writer # p /\ work' = work /\ writer' = writer
    BY <1>1, <1>2 DEF Step, RowsInv
  <2> QED BY <1>2, <2>1, <2>2, <2>3 DEF RowsInv
<1>5. CleanInv'
  BY <1>1 DEF CleanInv
<1>6. LosesNothing
  BY <1>1, <1>2, NothingLost DEF Step
<1> QED BY <1>3, <1>4, <1>5, <1>6

LEMMA SchemaStep ==
  ASSUME SchemaInv, [SchemaNext]_schemaVars
  PROVE  SchemaInv' /\ [LosesNothing]_<<db, at>>
<1>1. CASE UNCHANGED schemaVars
  BY <1>1 DEF schemaVars, SchemaInv, SchemaType, RowsInv, RowsIn, CleanInv, Step, Midway, Progress, View
<1>2. CASE SchemaNext
  BY <1>2, BeginKeeps, ScriptKeeps, ColumnsKeep, PolicyKeeps, RenameKeeps, CreateKeeps, CopyKeeps,
     DropKeeps, FinishKeeps, StopKeeps DEF SchemaNext
<1> QED BY <1>1, <1>2

\* initialize_schema: whatever statements fail, whatever processes are killed and
\* whatever they do side by side, no row of the two migrated tables is destroyed, and
\* a migration that met no failure and no other process leaves every row in the
\* tables the program reads.
THEOREM MigrationIsSafe == SchemaSpec => MigrationLosesNothing
<1>1. SchemaInit => SchemaInv
  BY InitSchemaInv
<1>2. SchemaInv /\ [SchemaNext]_schemaVars => SchemaInv'
  BY SchemaStep
<1>3. SchemaInv /\ [SchemaNext]_schemaVars => [LosesNothing]_<<db, at>>
  BY SchemaStep
<1> QED BY <1>1, <1>2, <1>3, PTL DEF SchemaSpec, MigrationLosesNothing, LosesNothing

-----------------------------------------------------------------------------
States == [id : Preparers \cup {First}, listed : Nat, read : Nat, indexed : Nat, label : Nat,
           sealed : {<<>>} \cup (Nat \X Nat \X Nat)]
Trees == States \cup {Missing}
Items == {EvalItem(raw) : raw \in RawItems}
Recorded == [item : {i.id : i \in Items}, status : {"passed", "failed"},
             traces : SUBSET {"search run", "packet", "answer"}, state : Trees]
Preparations == [pc : Building \cup Swapping
                      \cup {"idle", "check", "failed", "stopped", "done", "done with an error"},
                 had : BOOLEAN, moved : BOOLEAN, prior : Trees]
ItemStates == [packet : Packets \cup {Missing}, state : Trees, answer : Answers \cup {Missing}]
Runs == [pc : {"idle", "load", "item", "answer", "score", "done"}, version : Nat, state : Trees,
         todo : Seq(Items), at : ItemStates, results : Seq(Recorded), disturbed : BOOLEAN]
EvalType ==
  /\ repository \in Versions
  /\ active \in Trees /\ temporary \in [Preparers -> Trees] /\ backup \in [Preparers -> Trees]
  /\ prep \in [Preparers -> Preparations]
  /\ eval \in Runs

\* Where the prior state is, in a swap that nothing disturbs.
Where(p) ==
  LET s == prep[p]
  IN  /\ s.pc # "cleanup" => s.had = (s.prior # Missing)
      /\ s.pc = "out" => active = s.prior /\ ~ s.moved
      /\ s.pc = "in" => active = Missing /\ backup[p] = s.prior /\ s.moved = s.had
      /\ s.pc \in {"remove", "put back"} =>
           \/ ~ s.moved /\ active = s.prior /\ (s.pc = "remove" => s.had)
           \/ s.moved = s.had /\ backup[p] = s.prior /\ (s.pc = "put back" => active = Missing)
Swaps(p) == prep[p].pc \in Swapping
SwapInv ==
  /\ \A p \in Preparers : prep[p].moved => Swaps(p)
  /\ \A p \in Preparers : Swaps(p) /\ p \notin unsafe =>
       Where(p) /\ \A q \in Preparers \ {p} : ~ Swaps(q)

\* A tree that says it is whole was built from one version, that of its label,
\* unless the repository changed while it was built.
Sound(s, changed) ==
  s.sealed = Content(s) /\ 0 \notin Range(Content(s)) /\ s.id \notin changed
    => Content(s) = <<s.label, s.label, s.label>>
\* How far a tree has been built, and from what.
Stage(s, step, version, changed) ==
  /\ step \in {"inventory", "extract", "index", "manifest"} => s.sealed = <<>>
  /\ step \in {"inventory", "extract", "index"} => s.indexed = 0
  /\ s.id \notin changed =>
       /\ step \in {"extract", "index", "manifest"} => s.listed = version
       /\ step \in {"index", "manifest"} => s.read = version
       /\ step = "manifest" => s.indexed = version
Built(p) == temporary[p] \in States /\ temporary[p].id = p /\ Stage(temporary[p], prep[p].pc, repository, mixed)
Holds(p) == prep[p].pc \in Building \cup {"check", "out", "in"}
BuildInv ==
  /\ \A p \in Preparers : Holds(p) => Built(p)
  /\ active # Missing => Sound(active, mixed)
  /\ \A p \in Preparers : /\ temporary[p] # Missing => Sound(temporary[p], mixed)
                          /\ backup[p] # Missing => Sound(backup[p], mixed)

\* What is done and what is left of the items of one version.
Covers(results, todo, raws) ==
  /\ Len(results) + Len(todo) = Len(raws)
  /\ \A k \in 1 .. Len(results) : results[k].item = Stripped(raws[k].id)
  /\ \A k \in 1 .. Len(todo) : todo[k].id = Stripped(raws[Len(results) + k].id)
OneVersion(run, last) == \E v \in run.version .. last : Covers(run.results, run.todo, EvalSets[v])
\* A result that passed was answered from the state the run validated.
From(r, state) == r.status = "passed" => r.state = state
AllFrom(results, state) == \A k \in 1 .. Len(results) : From(results[k], state)
\* It has all its traces, and a state that is of one version when it is whole.
Passes(r, changed) ==
  r.status = "passed" => r.traces = {"search run", "packet", "answer"} /\ Sound(r.state, changed)
AllPass(results, changed) == \A k \in 1 .. Len(results) : Passes(results[k], changed)
RunInv ==
  /\ eval.pc = "idle" => eval.results = <<>>
  /\ Running(eval) =>
       /\ eval.state \in States /\ eval.version \in Versions
       /\ eval.state.id \notin mixed => Content(eval.state) = <<eval.version, eval.version, eval.version>>
       /\ eval.version <= repository
       /\ eval.pc \in {"answer", "score"} => eval.todo # <<>> /\ Sound(eval.at.state, mixed)
       /\ IF eval.pc = "load" THEN eval.results = <<>> ELSE OneVersion(eval, repository)
       /\ AllPass(eval.results, mixed)
       /\ ~ eval.disturbed =>
            /\ active = eval.state /\ active # Missing
            /\ eval.pc \in {"answer", "score"} => eval.at.state = eval.state
            /\ AllFrom(eval.results, eval.state)
EvalInv == EvalType /\ SwapInv /\ BuildInv /\ RunInv

LEMMA RangeOfThree ==
  ASSUME NEW a, NEW b, NEW c
  PROVE  Range(<<a, b, c>>) = {a, b, c}
<1>1. DOMAIN <<a, b, c>> = 1..3
  OBVIOUS
<1>2. ASSUME NEW x \in Range(<<a, b, c>>) PROVE x \in {a, b, c}
  BY <1>1 DEF Range
<1>3. \A k \in 1..3 : <<a, b, c>>[k] \in Range(<<a, b, c>>)
  BY <1>1, Zenon DEF Range
<1>4. a \in Range(<<a, b, c>>) /\ b \in Range(<<a, b, c>>) /\ c \in Range(<<a, b, c>>)
  BY <1>3
<1> QED BY <1>2, <1>4

LEMMA TornIsNotWhole ==
  ASSUME NEW s \in States
  PROVE  Torn(s) \in States /\ \A changed : Sound(Torn(s), changed)
<1>1. Torn(s) \in States /\ Torn(s).listed = s.listed /\ Torn(s).read = s.read /\ Torn(s).indexed = 0
  BY DEF States, Torn
<1>2. 0 \in Range(Content(Torn(s)))
  BY <1>1, RangeOfThree DEF Content
<1> QED BY <1>1, <1>2 DEF Sound

\* A state that validates was built from the sources of the version it names.
LEMMA UsableContent ==
  ASSUME NEW s \in States, NEW changed, Sound(s, changed), Usable(s), s.id \notin changed
  PROVE  Content(s) = <<repository, repository, repository>>
BY DEF Usable, Sound

LEMMA InitEvalInv == EvalInit => EvalInv
<1> SUFFICES ASSUME EvalInit PROVE EvalInv
  OBVIOUS
<1>1. 1 \in Versions
  BY EvaluationAssumption DEF EvaluationAssumption, Versions
<1> DEFINE s == [id |-> First, listed |-> 1, read |-> 1, indexed |-> 1, label |-> 1, sealed |-> <<1, 1, 1>>]
<1>2. s \in States /\ Content(s) = <<1, 1, 1>> /\ s.label = 1
  BY DEF States, Content
<1>3. active \in {Missing, s}
  BY DEF EvalInit
<1> HIDE DEF s
<1>4. EvalType
  BY <1>1, <1>2, <1>3 DEF EvalInit, EvalType, Trees, Preparations, NoPrep, Runs, NoRun, NoItem, ItemStates
<1>5. SwapInv
  BY DEF EvalInit, SwapInv, Swaps, NoPrep, Swapping
<1>6. BuildInv
  <2>1. \A p \in Preparers : ~ Holds(p) /\ temporary[p] = Missing /\ backup[p] = Missing
    BY DEF EvalInit, Holds, NoPrep, Building
  <2>2. Sound(s, mixed)
    BY <1>2 DEF Sound
  <2> QED BY <1>3, <2>1, <2>2 DEF BuildInv
<1>7. RunInv
  BY DEF EvalInit, RunInv, Running, NoRun
<1> QED BY <1>4, <1>5, <1>6, <1>7 DEF EvalInv

-----------------------------------------------------------------------------
\* What a step leaves to the run: it sees nothing, or learns that it was disturbed.
LEMMA SoundStays ==
  ASSUME NEW changed, NEW more, changed \subseteq more
  PROVE  /\ \A s : Sound(s, changed) => Sound(s, more)
         /\ \A results : AllPass(results, changed) => AllPass(results, more)
<1>1. \A s : Sound(s, changed) => Sound(s, more)
  BY DEF Sound
<1>2. \A r : Passes(r, changed) => Passes(r, more)
  BY <1>1 DEF Passes
<1> QED BY <1>1, <1>2 DEF AllPass

LEMMA VersionsAreNumbers == Versions \subseteq Nat
BY EvaluationAssumption DEF EvaluationAssumption, Versions

LEMMA OneVersionStays ==
  ASSUME NEW run, NEW later, run.version \in Versions, NEW last \in Versions, NEW next \in Versions, last <= next,
         OneVersion(run, last), later.version = run.version, later.results = run.results, later.todo = run.todo
  PROVE  OneVersion(later, next)
<1>1. PICK v \in run.version .. last : Covers(run.results, run.todo, EvalSets[v])
  BY DEF OneVersion
<1>2. v \in later.version .. next
  BY <1>1, VersionsAreNumbers
<1> QED BY <1>1, <1>2 DEF OneVersion

LEMMA RunStays ==
  ASSUME EvalType, RunInv, mixed \subseteq mixed', repository' \in Versions, repository <= repository',
         \/ eval' = Disturbed(eval)
         \/ eval' = eval /\ (active # Missing => active' = active)
  PROVE  RunInv' /\ eval' \in Runs
<1>1. /\ eval'.pc = eval.pc /\ eval'.version = eval.version /\ eval'.state = eval.state /\ eval'.at = eval.at
      /\ eval'.todo = eval.todo /\ eval'.results = eval.results /\ eval' \in Runs
      /\ Running(eval) /\ ~ eval'.disturbed => ~ eval.disturbed /\ (active # Missing => active' = active)
  BY DEF Disturbed, EvalType, Runs
<1>2. CASE ~ Running(eval)
  BY <1>1, <1>2 DEF RunInv, Running
<1>3. CASE Running(eval)
  <2>1. eval.version \in Versions /\ repository \in Versions /\ eval.version <= repository
    BY <1>3 DEF RunInv, EvalType
  <2>2. eval'.version <= repository'
    <3>1. eval.version \in Nat /\ repository \in Nat /\ repository' \in Nat
      BY <2>1, VersionsAreNumbers
    <3>2. eval.version <= repository'
      BY <2>1, <3>1
    <3>3. eval'.version = eval.version
      BY <1>1
    <3> QED BY <3>2, <3>3
  <2>3. eval.pc # "load" => OneVersion(eval, repository)
    BY <1>3 DEF RunInv
  <2>4. ASSUME eval.pc # "load" PROVE OneVersion(eval, repository)'
    <3>1. PICK run : run = eval'
      OBVIOUS
    <3>2. PICK next \in Versions : next = repository'
      OBVIOUS
    <3>3. OneVersion(run, next)
      BY <1>1, <2>1, <2>3, <2>4, <3>1, <3>2, OneVersionStays
    <3> QED BY <3>1, <3>2, <3>3 DEF OneVersion
  <2>5. PICK more : more = mixed'
    OBVIOUS
  <2>6. /\ Sound(eval.at.state, mixed) => Sound(eval.at.state, more)
        /\ AllPass(eval.results, mixed) => AllPass(eval.results, more)
    BY <2>5, SoundStays
  <2>7. /\ Sound(eval.at.state, mixed) => Sound(eval.at.state, mixed)'
        /\ AllPass(eval.results, mixed) => AllPass(eval.results, mixed)'
    BY <1>1, <2>5, <2>6 DEF Sound, AllPass, Passes, Content
  <2>8. AllFrom(eval.results, eval.state) => AllFrom(eval.results, eval.state)'
    BY <1>1 DEF AllFrom, From
  <2>9. Content(eval.state)' = Content(eval.state)
    BY <1>1 DEF Content
  <2>10. /\ eval.state \in States
         /\ eval.state.id \notin mixed => Content(eval.state) = <<eval.version, eval.version, eval.version>>
         /\ eval.pc \in {"answer", "score"} => eval.todo # <<>> /\ Sound(eval.at.state, mixed)
         /\ AllPass(eval.results, mixed) /\ (eval.pc = "load" => eval.results = <<>>)
    BY <1>3 DEF RunInv
  <2>11. ASSUME ~ eval'.disturbed
         PROVE  /\ active' = eval'.state /\ active' # Missing
                /\ eval'.pc \in {"answer", "score"} => eval'.at.state = eval'.state
                /\ AllFrom(eval.results, eval.state)'
    <3>1. /\ active = eval.state /\ active # Missing /\ active' = active
          /\ eval.pc \in {"answer", "score"} => eval.at.state = eval.state
          /\ AllFrom(eval.results, eval.state)
      BY <1>1, <1>3, <2>11 DEF RunInv
    <3> QED BY <1>1, <2>8, <3>1
  <2>12. Running(eval)' /\ eval'.pc # "idle"
    BY <1>1, <1>3 DEF Running
  <2> QED BY <1>1, <2>1, <2>2, <2>4, <2>7, <2>9, <2>10, <2>11, <2>12 DEF RunInv
<1> QED BY <1>2, <1>3

OnlyOf(p) ==
  \A q \in Preparers \ {p} : prep'[q] = prep[q] /\ temporary'[q] = temporary[q] /\ backup'[q] = backup[q]

\* What one step of preparation p has to show.
LEMMA PreparationStep ==
  ASSUME EvalInv, NEW p \in Preparers, OnlyOf(p), repository' = repository, mixed' = mixed,
         prep'[p] \in Preparations, prep' \in [Preparers -> Preparations],
         active' \in Trees, temporary' \in [Preparers -> Trees], backup' \in [Preparers -> Trees],
         unsafe \subseteq unsafe',
         \/ eval' = Disturbed(eval)
         \/ eval' = eval /\ (active # Missing => active' = active),
         active' # Missing => Sound(active', mixed),
         temporary'[p] # Missing => Sound(temporary'[p], mixed),
         backup'[p] # Missing => Sound(backup'[p], mixed),
         Holds(p)' => Built(p)',
         prep'[p].moved => Swaps(p)',
         active' = active \/ Swaps(p),
         Swaps(p)' /\ p \notin unsafe' => Where(p)',
         Swaps(p)' /\ ~ Swaps(p) =>
           \A q \in Preparers \ {p} : Swaps(q) => p \in unsafe' /\ q \in unsafe'
  PROVE  EvalInv'
<1> USE DEF EvalInv
<1>1. RunInv' /\ eval' \in Runs
  <2>1. repository' \in Versions /\ repository <= repository'
    BY VersionsAreNumbers DEF EvalType
  <2> QED BY <2>1, RunStays
<1>2. EvalType'
  BY <1>1 DEF EvalType
<1>3. SwapInv'
  <2>1. ASSUME NEW q \in Preparers \ {p}, Swaps(q)', q \notin unsafe'
        PROVE  Where(q)' /\ \A r \in Preparers \ {q} : ~ Swaps(r)'
    <3>1. Swaps(q) /\ q \notin unsafe
      BY <2>1 DEF OnlyOf, Swaps
    <3>2. Where(q) /\ \A r \in Preparers \ {q} : ~ Swaps(r)
      BY <3>1 DEF SwapInv
    <3>3. ~ Swaps(p) /\ ~ Swaps(p)' /\ active' = active
      BY <2>1, <3>1, <3>2
    <3>4. Where(q)'
      BY <3>2, <3>3 DEF Where, OnlyOf
    <3>5. \A r \in Preparers \ {q} : ~ Swaps(r)'
      BY <3>2, <3>3 DEF Swaps, OnlyOf
    <3> QED BY <3>4, <3>5
  <2>2. ASSUME Swaps(p)', p \notin unsafe'
        PROVE  \A q \in Preparers \ {p} : ~ Swaps(q)'
    <3>1. \A q \in Preparers \ {p} : Swaps(q)' <=> Swaps(q)
      BY DEF OnlyOf, Swaps
    <3>2. CASE Swaps(p)
      BY <2>2, <3>1, <3>2 DEF SwapInv
    <3>3. CASE ~ Swaps(p)
      BY <2>2, <3>1, <3>3
    <3> QED BY <3>2, <3>3
  <2>3. \A q \in Preparers : prep'[q].moved => Swaps(q)'
    BY DEF OnlyOf, SwapInv, Swaps
  <2> QED BY <2>1, <2>2, <2>3 DEF SwapInv
<1>4. BuildInv'
  <2>1. ASSUME NEW q \in Preparers, Holds(q)' PROVE Built(q)'
    <3>1. CASE q # p
      <4>1. prep'[q] = prep[q] /\ temporary'[q] = temporary[q]
        BY <3>1 DEF OnlyOf
      <4> QED BY <2>1, <4>1 DEF Holds, Built, BuildInv
    <3> QED BY <2>1, <3>1
  <2>2. ASSUME NEW q \in Preparers
        PROVE  /\ temporary'[q] # Missing => Sound(temporary'[q], mixed)
               /\ backup'[q] # Missing => Sound(backup'[q], mixed)
    BY DEF OnlyOf, BuildInv
  <2> QED BY <2>1, <2>2 DEF BuildInv
<1> QED BY <1>1, <1>2, <1>3, <1>4

LEMMA TreeFields ==
  ASSUME EvalType, NEW p \in Preparers
  PROVE  /\ prep[p] \in Preparations /\ temporary[p] \in Trees /\ backup[p] \in Trees /\ active \in Trees
         /\ repository \in Nat
BY EvaluationAssumption DEF EvalType, Versions

LEMMA ProceedsType ==
  ASSUME EvalType, NEW p \in Preparers, NEW step \in Building \cup Swapping \cup {"check"}, Proceeds(p, step)
  PROVE  /\ prep'[p] = [prep[p] EXCEPT !.pc = step] /\ prep'[p] \in Preparations
         /\ prep' \in [Preparers -> Preparations]
         /\ prep'[p].pc = step /\ prep'[p].had = prep[p].had /\ prep'[p].moved = prep[p].moved
         /\ prep'[p].prior = prep[p].prior
         /\ \A q \in Preparers \ {p} : prep'[q] = prep[q]
<1>1. prep' = [prep EXCEPT ![p].pc = step] /\ prep \in [Preparers -> Preparations]
  BY DEF Proceeds, EvalType
<1>2. /\ prep'[p] = [prep[p] EXCEPT !.pc = step] /\ \A q \in Preparers \ {p} : prep'[q] = prep[q]
      /\ prep' \in [Preparers -> Preparations] <=> prep'[p] \in Preparations
  BY <1>1
<1>3. prep[p] \in Preparations
  BY <1>1
<1> QED BY <1>2, <1>3 DEF Preparations

LEMMA EndsType ==
  ASSUME EvalType, NEW p \in Preparers, NEW step \in {"failed", "stopped", "done", "done with an error"}, Ends(p, step)
  PROVE  /\ prep'[p] \in Preparations /\ prep' \in [Preparers -> Preparations]
         /\ prep'[p].pc = step /\ ~ Swaps(p)' /\ ~ Holds(p)' /\ ~ prep'[p].moved
         /\ \A q \in Preparers \ {p} : prep'[q] = prep[q]
<1>1. /\ [NoPrep EXCEPT !.pc = step] \in Preparations /\ [NoPrep EXCEPT !.pc = step].pc = step
      /\ ~ [NoPrep EXCEPT !.pc = step].moved
  BY DEF NoPrep, Preparations, Trees
<1>2. prep' = [prep EXCEPT ![p] = [NoPrep EXCEPT !.pc = step]] /\ prep \in [Preparers -> Preparations]
  BY DEF Ends, EvalType
<1> QED BY <1>1, <1>2 DEF Swaps, Holds, Swapping, Building

LEMMA BeginPreparationKeeps ==
  ASSUME EvalInv, NEW p \in Preparers, BeginPreparation(p)
  PROVE  EvalInv'
<1>1. EvalType /\ BuildInv /\ active \in Trees /\ (active # Missing => Sound(active, mixed)) /\ (backup[p] # Missing => Sound(backup[p], mixed))
  BY DEF EvalInv, EvalType, BuildInv
<1>2. Proceeds(p, "inventory") /\ temporary' = [temporary EXCEPT ![p] = Fresh(p)]
      /\ repository' = repository /\ active' = active /\ backup' = backup /\ eval' = eval
      /\ mixed' = mixed /\ unsafe' = unsafe
  BY DEF BeginPreparation
<1>3. /\ prep'[p] \in Preparations /\ prep' \in [Preparers -> Preparations] /\ prep'[p].pc = "inventory"
      /\ prep'[p].moved = prep[p].moved /\ ~ prep[p].moved
      /\ \A q \in Preparers \ {p} : prep'[q] = prep[q]
  BY <1>1, <1>2, ProceedsType DEF Building, BeginPreparation, Doing, EvalInv, SwapInv, Swaps, Swapping
<1>4. Fresh(p) \in States /\ Fresh(p).id = p /\ Fresh(p).sealed = <<>> /\ Fresh(p).indexed = 0
  BY DEF Fresh, States
<1>5. Sound(Fresh(p), mixed)
  <2> HIDE DEF Fresh
  <2> DEFINE s == Fresh(p)
  <2>1. s \in States /\ s.sealed = <<>>
    BY <1>4
  <2> HIDE DEF s
  <2>2. Sound(s, mixed)
    BY <2>1 DEF Sound, Content
  <2> QED BY <2>2 DEF s
<1>6. /\ temporary' \in [Preparers -> Trees] /\ temporary'[p] = Fresh(p) /\ backup' \in [Preparers -> Trees]
      /\ \A q \in Preparers \ {p} : temporary'[q] = temporary[q]
  BY <1>1, <1>2, <1>4 DEF EvalType, Trees
<1>7. OnlyOf(p)
  BY <1>2, <1>3, <1>6 DEF OnlyOf
<1>8. Built(p)'
  BY <1>3, <1>4, <1>6 DEF Built, Stage
<1>9. ~ Swaps(p)'
  BY <1>3 DEF Swaps, Swapping
<1> QED BY <1>1, <1>2, <1>3, <1>5, <1>6, <1>7, <1>8, <1>9, PreparationStep

\* One stage of the build: what it reads is of the current version.
LEMMA StageKeeps ==
  ASSUME EvalInv, NEW p \in Preparers, NEW step \in Building \cup {"check"}, Proceeds(p, step),
         ~ Swaps(p), NEW s \in States, temporary' = [temporary EXCEPT ![p] = s],
         s.id = p, Stage(s, step, repository, mixed), Sound(s, mixed),
         UNCHANGED <<repository, active, backup, eval, mixed, unsafe>>
  PROVE  EvalInv'
<1>1. EvalType /\ BuildInv /\ active \in Trees /\ (active # Missing => Sound(active, mixed)) /\ (backup[p] # Missing => Sound(backup[p], mixed))
  BY DEF EvalInv, EvalType, BuildInv
<1>3. /\ prep'[p] \in Preparations /\ prep' \in [Preparers -> Preparations] /\ prep'[p].pc = step
      /\ ~ prep'[p].moved
      /\ \A q \in Preparers \ {p} : prep'[q] = prep[q]
  BY <1>1, ProceedsType DEF EvalInv, SwapInv
<1>6. /\ temporary' \in [Preparers -> Trees] /\ temporary'[p] = s /\ backup' \in [Preparers -> Trees]
      /\ \A q \in Preparers \ {p} : temporary'[q] = temporary[q]
  BY <1>1 DEF EvalType, Trees
<1>7. OnlyOf(p)
  BY <1>3, <1>6 DEF OnlyOf
<1>8. Built(p)'
  BY <1>3, <1>6 DEF Built
<1>9. ~ Swaps(p)'
  BY <1>3 DEF Swaps, Swapping, Building
<1> QED BY <1>1, <1>3, <1>6, <1>7, <1>8, <1>9, PreparationStep

LEMMA BuildKeeps ==
  ASSUME EvalInv, NEW p \in Preparers, Build(p)
  PROVE  EvalInv'
<1> DEFINE s == temporary[p]
<1>1. EvalType /\ UNCHANGED <<repository, active, backup, eval, mixed, unsafe>> /\ temporary \in [Preparers -> Trees]
  BY DEF Build, EvalInv, EvalType
<1>2. prep[p].pc \in Building => /\ s \in States /\ s.id = p /\ Stage(s, prep[p].pc, repository, mixed)
                                 /\ (s # Missing => Sound(s, mixed)) /\ repository \in Nat
  BY TreeFields DEF EvalInv, BuildInv, Holds, Built
<1>8. prep[p].pc \in Building => ~ Swaps(p)
  BY DEF Swaps, Swapping, Building
<1>3. CASE Doing(p, "inventory") /\ Proceeds(p, "extract") /\ temporary' = [temporary EXCEPT ![p].listed = repository]
  <2> DEFINE n == [s EXCEPT !.listed = repository]
  <2>1. s \in States /\ s.id = p /\ Stage(s, "inventory", repository, mixed) /\ repository \in Nat
    BY <1>2, <1>3 DEF Doing, Building
  <2>2. n \in States /\ n.id = p /\ n.sealed = <<>> /\ n.indexed = 0 /\ n.listed = repository
    BY <2>1 DEF States, Stage
  <2>3. temporary' = [temporary EXCEPT ![p] = n]
    BY <1>1, <1>3
  <2> HIDE DEF n, s
  <2>4. Stage(n, "extract", repository, mixed) /\ Sound(n, mixed)
    BY <2>2 DEF Stage, Sound, Content
  <2> QED BY <1>1, <1>3, <2>2, <2>3, <2>4, StageKeeps, <1>8 DEF Building, Doing
<1>4. CASE Doing(p, "extract") /\ Proceeds(p, "index") /\ temporary' = [temporary EXCEPT ![p].read = repository]
  <2> DEFINE n == [s EXCEPT !.read = repository]
  <2>1. s \in States /\ s.id = p /\ Stage(s, "extract", repository, mixed) /\ repository \in Nat
    BY <1>2, <1>4 DEF Doing, Building
  <2>2. n \in States /\ n.id = p /\ n.sealed = <<>> /\ n.indexed = 0 /\ n.read = repository /\ (p \notin mixed => n.listed = repository)
    BY <2>1 DEF States, Stage
  <2>3. temporary' = [temporary EXCEPT ![p] = n]
    BY <1>1, <1>4
  <2> HIDE DEF n, s
  <2>4. Stage(n, "index", repository, mixed) /\ Sound(n, mixed)
    BY <2>2 DEF Stage, Sound, Content
  <2> QED BY <1>1, <1>4, <2>2, <2>3, <2>4, StageKeeps, <1>8 DEF Building, Doing
<1>5. CASE Doing(p, "index") /\ Proceeds(p, "manifest") /\ temporary' = [temporary EXCEPT ![p].indexed = @ + temporary[p].read]
  <2> DEFINE n == [s EXCEPT !.indexed = s.indexed + s.read]
  <2>1. s \in States /\ s.id = p /\ Stage(s, "index", repository, mixed) /\ repository \in Nat
    BY <1>2, <1>5 DEF Doing, Building
  <2>2. /\ n \in States /\ n.id = p /\ n.sealed = <<>>
        /\ p \notin mixed => n.listed = repository /\ n.read = repository /\ n.indexed = repository
    BY <2>1 DEF States, Stage
  <2>3. temporary' = [temporary EXCEPT ![p] = n]
    BY <1>1, <1>5
  <2> HIDE DEF n, s
  <2>4. Stage(n, "manifest", repository, mixed) /\ Sound(n, mixed)
    BY <2>2 DEF Stage, Sound, Content
  <2> QED BY <1>1, <1>5, <2>2, <2>3, <2>4, StageKeeps, <1>8 DEF Building, Doing
<1>6. CASE /\ Doing(p, "manifest") /\ Proceeds(p, "validate")
           /\ temporary' = [temporary EXCEPT ![p].sealed = Content(temporary[p]), ![p].label = repository]
  <2> DEFINE n == [s EXCEPT !.sealed = Content(s), !.label = repository]
  <2>1. s \in States /\ s.id = p /\ Stage(s, "manifest", repository, mixed) /\ repository \in Nat
    BY <1>2, <1>6 DEF Doing, Building
  <2>2. Content(s) \in Nat \X Nat \X Nat
    BY <2>1 DEF States, Content
  <2>3. /\ n \in States /\ n.id = p /\ n.listed = s.listed /\ n.read = s.read /\ n.indexed = s.indexed /\ n.label = repository
        /\ p \notin mixed => s.listed = repository /\ s.read = repository /\ s.indexed = repository
    BY <2>1, <2>2 DEF States, Stage
  <2>4. temporary' = [temporary EXCEPT ![p] = n]
    BY <1>1, <1>6
  <2> HIDE DEF n, s
  <2>5. Stage(n, "validate", repository, mixed) /\ Sound(n, mixed)
    BY <2>3 DEF Stage, Sound, Content
  <2> QED BY <1>1, <1>6, <2>3, <2>4, <2>5, StageKeeps, <1>8 DEF Building, Doing
<1>7. CASE Doing(p, "validate") /\ Usable(temporary[p]) /\ Proceeds(p, "check") /\ UNCHANGED temporary
  <2>1. s \in States /\ s.id = p /\ Sound(s, mixed)
    BY <1>2, <1>7 DEF Doing, Building, Usable
  <2>2. temporary' = [temporary EXCEPT ![p] = s]
    BY <1>1, <1>7
  <2>3. Stage(s, "check", repository, mixed)
    BY DEF Stage
  <2> HIDE DEF s
  <2> QED BY <1>1, <1>7, <2>1, <2>2, <2>3, StageKeeps, <1>8 DEF Building, Doing
<1> QED BY <1>3, <1>4, <1>5, <1>6, <1>7 DEF Build

\* What stands before a step of preparation p.
LEMMA Standing ==
  ASSUME EvalInv, NEW p \in Preparers
  PROVE  /\ EvalType /\ active \in Trees /\ (active # Missing => Sound(active, mixed) /\ active \in States)
         /\ temporary[p] \in Trees /\ (temporary[p] # Missing => Sound(temporary[p], mixed))
         /\ backup[p] \in Trees /\ (backup[p] # Missing => Sound(backup[p], mixed))
         /\ temporary \in [Preparers -> Trees] /\ backup \in [Preparers -> Trees]
         /\ prep[p] \in Preparations
         /\ Holds(p) => Built(p)
         /\ Swaps(p) /\ p \notin unsafe => Where(p)
BY DEF EvalInv, EvalType, BuildInv, SwapInv, Trees

\* A preparation that ends without touching the active state.
LEMMA EndKeeps ==
  ASSUME EvalInv, NEW p \in Preparers, NEW step \in {"failed", "stopped", "done", "done with an error"}, Ends(p, step),
         UNCHANGED <<repository, active, eval, mixed, unsafe>>,
         temporary' \in {temporary, [temporary EXCEPT ![p] = Missing]},
         backup' \in {backup, [backup EXCEPT ![p] = Missing]}
  PROVE  EvalInv'
<1>1. /\ prep'[p] \in Preparations /\ prep' \in [Preparers -> Preparations] /\ ~ Swaps(p)' /\ ~ Holds(p)'
      /\ ~ prep'[p].moved /\ \A q \in Preparers \ {p} : prep'[q] = prep[q]
  BY Standing, EndsType
<1>2. /\ temporary' \in [Preparers -> Trees] /\ temporary'[p] \in {temporary[p], Missing}
      /\ backup' \in [Preparers -> Trees] /\ backup'[p] \in {backup[p], Missing}
      /\ \A q \in Preparers \ {p} : temporary'[q] = temporary[q] /\ backup'[q] = backup[q]
  BY Standing DEF Trees
<1>3. OnlyOf(p)
  BY <1>1, <1>2 DEF OnlyOf
<1>4. /\ active \in Trees /\ (active # Missing => Sound(active, mixed))
      /\ (temporary[p] # Missing => Sound(temporary[p], mixed)) /\ (backup[p] # Missing => Sound(backup[p], mixed))
  BY Standing
<1> QED BY <1>1, <1>2, <1>3, <1>4, PreparationStep

LEMMA CheckActiveKeeps ==
  ASSUME EvalInv, NEW p \in Preparers, CheckActive(p)
  PROVE  EvalInv'
<1>1. /\ prep' = [prep EXCEPT ![p].pc = "out", ![p].had = active # Missing, ![p].prior = active]
      /\ prep[p].pc = "check" /\ Disturb(p)
      /\ UNCHANGED <<repository, active, temporary, backup, eval, mixed>>
  BY DEF CheckActive, trees, Doing
<1> DEFINE n == [prep[p] EXCEPT !.pc = "out", !.had = active # Missing, !.prior = active]
<1>2. n \in Preparations /\ n.pc = "out" /\ n.had = (active # Missing) /\ n.prior = active /\ n.moved = prep[p].moved
  BY Standing DEF Preparations, Swapping
<1>3. prep'[p] = n /\ prep' \in [Preparers -> Preparations] /\ \A q \in Preparers \ {p} : prep'[q] = prep[q]
  BY <1>1, <1>2, Standing DEF EvalType
<1> HIDE DEF n
<1>4. ~ Swaps(p) /\ ~ prep[p].moved /\ Swaps(p)'
  BY <1>1, <1>2, <1>3 DEF EvalInv, SwapInv, Swaps, Swapping
<1>5. unsafe \subseteq unsafe' /\ \A q \in Preparers \ {p} : Swaps(q) => p \in unsafe' /\ q \in unsafe'
  BY <1>1 DEF Disturb, Swaps
<1>6. OnlyOf(p)
  BY <1>1, <1>3 DEF OnlyOf
<1>7. Built(p)'
  <2>1. Built(p) /\ prep'[p].pc = "out"
    BY <1>1, <1>2, <1>3, Standing DEF Holds
  <2> QED BY <1>1, <2>1 DEF Built, Stage
<1>8. Where(p)'
  BY <1>1, <1>2, <1>3, <1>4 DEF Where
<1> QED BY <1>1, <1>2, <1>3, <1>4, <1>5, <1>6, <1>7, <1>8, Standing, PreparationStep

LEMMA MoveOutKeeps ==
  ASSUME EvalInv, NEW p \in Preparers, MoveOut(p)
  PROVE  EvalInv'
<1>1. /\ prep[p].pc = "out" /\ prep' = [prep EXCEPT ![p].pc = "in", ![p].moved = active # Missing]
      /\ active' = Missing /\ backup' = [backup EXCEPT ![p] = active]
      /\ eval' = IF active = Missing THEN eval ELSE Disturbed(eval)
      /\ UNCHANGED <<repository, temporary, mixed, unsafe>>
  BY DEF MoveOut, Doing
<1> DEFINE n == [prep[p] EXCEPT !.pc = "in", !.moved = active # Missing]
<1>2. n \in Preparations /\ n.pc = "in" /\ n.had = prep[p].had /\ n.prior = prep[p].prior /\ n.moved = (active # Missing)
  BY Standing DEF Preparations, Swapping
<1>3. prep'[p] = n /\ prep' \in [Preparers -> Preparations] /\ \A q \in Preparers \ {p} : prep'[q] = prep[q]
  BY <1>1, <1>2, Standing DEF EvalType
<1> HIDE DEF n
<1>4. Swaps(p) /\ Swaps(p)'
  BY <1>1, <1>2, <1>3 DEF Swaps, Swapping
<1>5. /\ backup' \in [Preparers -> Trees] /\ backup'[p] = active /\ active' \in Trees
      /\ \A q \in Preparers \ {p} : backup'[q] = backup[q]
  BY <1>1, Standing DEF Trees
<1>6. OnlyOf(p)
  BY <1>1, <1>3, <1>5 DEF OnlyOf
<1>7. Built(p)'
  <2>1. Built(p) /\ prep'[p].pc = "in"
    BY <1>1, <1>2, <1>3, Standing DEF Holds
  <2> QED BY <1>1, <2>1 DEF Built, Stage
<1>8. p \notin unsafe' => Where(p)'
  <2> SUFFICES ASSUME p \notin unsafe PROVE Where(p)'
    BY <1>1
  <2>1. Where(p)
    BY <1>4, Standing
  <2> QED BY <1>1, <1>2, <1>3, <1>5, <2>1 DEF Where
<1> QED BY <1>1, <1>2, <1>3, <1>4, <1>5, <1>6, <1>7, <1>8, Standing, PreparationStep

LEMMA MoveOutFailsKeeps ==
  ASSUME EvalInv, NEW p \in Preparers, MoveOutFails(p)
  PROVE  EvalInv'
<1>1. /\ prep[p].pc = "out" /\ Proceeds(p, "remove") /\ active # Missing
      /\ UNCHANGED <<repository, temporary, mixed>>
      /\ \/ UNCHANGED <<active, backup, eval, unsafe>>
         \/ /\ backup' = [backup EXCEPT ![p] = active] /\ active' = Torn(active)
            /\ eval' = Disturbed(eval) /\ unsafe' = unsafe \cup {p}
  BY DEF MoveOutFails, Doing, trees
<1>2. /\ prep'[p] \in Preparations /\ prep' \in [Preparers -> Preparations] /\ prep'[p].pc = "remove"
      /\ prep'[p].had = prep[p].had /\ prep'[p].moved = prep[p].moved /\ prep'[p].prior = prep[p].prior
      /\ \A q \in Preparers \ {p} : prep'[q] = prep[q]
  BY <1>1, Standing, ProceedsType DEF Swapping
<1>3. /\ backup' \in [Preparers -> Trees] /\ backup'[p] \in {backup[p], active}
      /\ \A q \in Preparers \ {p} : backup'[q] = backup[q]
  BY <1>1, Standing
<1>4. active' \in Trees /\ (active' # Missing => Sound(active', mixed)) /\ unsafe \subseteq unsafe'
  BY <1>1, Standing, TornIsNotWhole DEF Trees
<1>5. OnlyOf(p)
  BY <1>1, <1>2, <1>3 DEF OnlyOf
<1>6. Swaps(p) /\ Swaps(p)' /\ ~ Holds(p)'
  BY <1>1, <1>2 DEF Swaps, Swapping, Holds, Building
<1>7. p \notin unsafe' => Where(p)'
  <2> SUFFICES ASSUME p \notin unsafe' PROVE Where(p)'
    OBVIOUS
  <2>1. Where(p) /\ active' = active
    BY <1>1, <1>6, Standing
  <2> QED BY <1>1, <1>2, <2>1 DEF Where
<1> QED BY <1>1, <1>2, <1>3, <1>4, <1>5, <1>6, <1>7, Standing, PreparationStep

LEMMA MoveInKeeps ==
  ASSUME EvalInv, NEW p \in Preparers, MoveIn(p)
  PROVE  EvalInv'
<1>1. /\ prep[p].pc = "in" /\ Proceeds(p, "cleanup")
      /\ active' = (IF active = Missing THEN temporary[p] ELSE active)
      /\ temporary' = [temporary EXCEPT ![p] = Missing]
      /\ UNCHANGED <<repository, backup, eval, mixed, unsafe>>
  BY DEF MoveIn, Doing
<1>2. /\ prep'[p] \in Preparations /\ prep' \in [Preparers -> Preparations] /\ prep'[p].pc = "cleanup"
      /\ \A q \in Preparers \ {p} : prep'[q] = prep[q]
  BY <1>1, Standing, ProceedsType DEF Swapping
<1>3. /\ temporary' \in [Preparers -> Trees] /\ temporary'[p] = Missing
      /\ \A q \in Preparers \ {p} : temporary'[q] = temporary[q]
  BY <1>1, Standing DEF Trees
<1>4. active' \in Trees /\ (active' # Missing => Sound(active', mixed))
  BY <1>1, Standing
<1>5. OnlyOf(p)
  BY <1>1, <1>2, <1>3 DEF OnlyOf
<1>6. Swaps(p) /\ Swaps(p)' /\ ~ Holds(p)'
  BY <1>1, <1>2 DEF Swaps, Swapping, Holds, Building
<1>7. Where(p)'
  BY <1>2 DEF Where
<1> QED BY <1>1, <1>2, <1>3, <1>4, <1>5, <1>6, <1>7, Standing, PreparationStep

LEMMA MoveInFailsKeeps ==
  ASSUME EvalInv, NEW p \in Preparers, MoveInFails(p)
  PROVE  EvalInv'
<1>1. /\ prep[p].pc = "in" /\ Proceeds(p, "remove")
      /\ active' = active \/ (active = Missing /\ active' \in {Torn(temporary[p]), temporary[p]})
      /\ UNCHANGED <<repository, temporary, backup, eval, mixed, unsafe>>
  BY DEF MoveInFails, Doing, trees
<1>2. /\ prep'[p] \in Preparations /\ prep' \in [Preparers -> Preparations] /\ prep'[p].pc = "remove"
      /\ prep'[p].had = prep[p].had /\ prep'[p].moved = prep[p].moved /\ prep'[p].prior = prep[p].prior
      /\ \A q \in Preparers \ {p} : prep'[q] = prep[q]
  BY <1>1, Standing, ProceedsType DEF Swapping
<1>3. temporary[p] \in States
  BY <1>1, Standing DEF Holds, Built
<1>4. active' \in Trees /\ (active' # Missing => Sound(active', mixed))
  BY <1>1, <1>3, Standing, TornIsNotWhole DEF Trees
<1>5. OnlyOf(p)
  BY <1>1, <1>2 DEF OnlyOf
<1>6. Swaps(p) /\ Swaps(p)' /\ ~ Holds(p)'
  BY <1>1, <1>2 DEF Swaps, Swapping, Holds, Building
<1>7. p \notin unsafe' => Where(p)'
  <2> SUFFICES ASSUME p \notin unsafe PROVE Where(p)'
    BY <1>1
  <2>1. Where(p)
    BY <1>6, Standing
  <2> QED BY <1>1, <1>2, <2>1 DEF Where
<1> QED BY <1>1, <1>2, <1>3, <1>4, <1>5, <1>6, <1>7, Standing, PreparationStep

LEMMA RemovalKeeps ==
  ASSUME EvalInv, NEW p \in Preparers, RemoveNew(p)
  PROVE  EvalInv'
<1>1. /\ prep[p].pc = "remove" /\ Proceeds(p, "put back")
      /\ active' = (IF prep[p].moved \/ ~ prep[p].had THEN Missing ELSE active)
      /\ eval' = Disturbed(eval) \/ (eval' = eval /\ active' = active)
      /\ UNCHANGED <<repository, temporary, backup, mixed, unsafe>>
  BY DEF RemoveNew, Doing
<1>2. /\ prep'[p] \in Preparations /\ prep' \in [Preparers -> Preparations] /\ prep'[p].pc = "put back"
      /\ prep'[p].had = prep[p].had /\ prep'[p].moved = prep[p].moved /\ prep'[p].prior = prep[p].prior
      /\ \A q \in Preparers \ {p} : prep'[q] = prep[q]
  BY <1>1, Standing, ProceedsType DEF Swapping
<1>3. active' \in Trees /\ (active' # Missing => Sound(active', mixed))
  BY <1>1, Standing DEF Trees
<1>4. OnlyOf(p)
  BY <1>1, <1>2 DEF OnlyOf
<1>5. Swaps(p) /\ Swaps(p)' /\ ~ Holds(p)'
  BY <1>1, <1>2 DEF Swaps, Swapping, Holds, Building
<1>6. p \notin unsafe' => Where(p)'
  <2> SUFFICES ASSUME p \notin unsafe PROVE Where(p)'
    BY <1>1
  <2>1. Where(p)
    BY <1>5, Standing
  <2> QED BY <1>1, <1>2, <2>1 DEF Where
<1> QED BY <1>1, <1>2, <1>3, <1>4, <1>5, <1>6, Standing, PreparationStep

LEMMA PutBackKeeps ==
  ASSUME EvalInv, NEW p \in Preparers, PutBack(p)
  PROVE  EvalInv' /\ (p \notin unsafe => active' = prep[p].prior)
<1>1. /\ prep[p].pc = "put back" /\ Ends(p, "failed")
      /\ active' = (IF prep[p].moved /\ backup[p] # Missing /\ active = Missing THEN backup[p] ELSE active)
      /\ backup' \in {backup, [backup EXCEPT ![p] = Missing]}
      /\ temporary' = [temporary EXCEPT ![p] = Missing]
      /\ UNCHANGED <<repository, eval, mixed, unsafe>>
  BY DEF PutBack, Doing
<1>2. /\ prep'[p] \in Preparations /\ prep' \in [Preparers -> Preparations] /\ ~ Swaps(p)' /\ ~ Holds(p)'
      /\ ~ prep'[p].moved /\ \A q \in Preparers \ {p} : prep'[q] = prep[q]
  BY <1>1, Standing, EndsType
<1>3. /\ temporary' \in [Preparers -> Trees] /\ temporary'[p] \in {temporary[p], Missing}
      /\ backup' \in [Preparers -> Trees] /\ backup'[p] \in {backup[p], Missing}
      /\ \A q \in Preparers \ {p} : temporary'[q] = temporary[q] /\ backup'[q] = backup[q]
  BY <1>1, Standing DEF Trees
<1>4. active' \in Trees /\ (active' # Missing => Sound(active', mixed))
  BY <1>1, Standing
<1>5. OnlyOf(p)
  BY <1>2, <1>3 DEF OnlyOf
<1>6. Swaps(p)
  BY <1>1 DEF Swaps, Swapping
<1>7. EvalInv'
  BY <1>1, <1>2, <1>3, <1>4, <1>5, <1>6, Standing, PreparationStep
<1>8. ASSUME p \notin unsafe PROVE active' = prep[p].prior
  <2>1. Where(p)
    BY <1>6, <1>8, Standing
  <2> QED BY <1>1, <2>1 DEF Where
<1> QED BY <1>7, <1>8

LEMMA OthersKeep ==
  ASSUME EvalInv, NEW p \in Preparers, BuildFails(p) \/ Stops(p) \/ Cleanup(p)
  PROVE  EvalInv'
<1>1. CASE BuildFails(p)
  BY <1>1, EndKeeps DEF BuildFails
<1>2. CASE Stops(p)
  BY <1>2, EndKeeps DEF Stops
<1>3. CASE Cleanup(p)
  BY <1>3, EndKeeps DEF Cleanup
<1> QED BY <1>1, <1>2, <1>3

LEMMA CommitKeeps == ASSUME EvalInv, Commit PROVE EvalInv'
<1> USE DEF EvalInv
<1>1. /\ repository' \in Versions /\ mixed' = mixed \cup {p \in Preparers : prep[p].pc \in Building}
      /\ repository <= repository' /\ UNCHANGED <<active, temporary, backup, prep, eval, unsafe>>
  BY VersionsAreNumbers DEF Commit, trees, EvalType
<1>2. RunInv' /\ eval' \in Runs
  BY <1>1, RunStays
<1>3. EvalType'
  BY <1>1, <1>2 DEF EvalType
<1>4. SwapInv'
  BY <1>1 DEF SwapInv, Swaps, Where
<1>5. \A s : Sound(s, mixed) => Sound(s, mixed')
  BY <1>1 DEF Sound
<1>6. BuildInv'
  <2>1. ASSUME NEW p \in Preparers, Holds(p)' PROVE Built(p)'
    <3>1. Built(p) /\ prep' = prep /\ temporary' = temporary
      BY <1>1, <2>1 DEF BuildInv, Holds
    <3>2. Stage(temporary[p], prep[p].pc, repository', mixed')
      BY <1>1, <3>1 DEF Built, Stage, Building
    <3> QED BY <3>1, <3>2 DEF Built
  <2> QED BY <1>1, <1>5, <2>1 DEF BuildInv
<1> QED BY <1>2, <1>3, <1>4, <1>6

LEMMA DriftKeeps == ASSUME EvalInv, Drift PROVE EvalInv'
<1> USE DEF EvalInv
<1>1. /\ active # Missing /\ active' = Torn(active) /\ eval' = Disturbed(eval)
      /\ unsafe' = unsafe \cup {p \in Preparers : prep[p].pc \in Swapping}
      /\ UNCHANGED <<repository, temporary, backup, prep, mixed>>
  BY DEF Drift, Torn
<1>2. RunInv' /\ eval' \in Runs
  <2>1. repository' \in Versions /\ repository <= repository'
    BY <1>1, VersionsAreNumbers DEF EvalType
  <2> QED BY <1>1, <2>1, RunStays
<1>3. active' \in States /\ Sound(active', mixed)
  BY <1>1, TornIsNotWhole DEF EvalType, Trees
<1>4. EvalType'
  BY <1>1, <1>2, <1>3 DEF EvalType, Trees
<1>5. SwapInv'
  BY <1>1 DEF SwapInv, Swaps
<1>6. BuildInv'
  BY <1>1, <1>3 DEF BuildInv, Holds, Built
<1> QED BY <1>2, <1>4, <1>5, <1>6

-----------------------------------------------------------------------------
LEMMA RunStep ==
  ASSUME EvalInv, UNCHANGED prepared, eval' \in Runs, RunInv'
  PROVE  EvalInv'
<1>1. UNCHANGED <<repository, active, temporary, backup, prep, mixed, unsafe>>
  BY DEF prepared, trees
<1>2. EvalType'
  BY <1>1 DEF EvalInv, EvalType
<1>3. SwapInv'
  BY <1>1 DEF EvalInv, SwapInv, Swaps, Where
<1>4. BuildInv'
  BY <1>1 DEF EvalInv, BuildInv, Holds, Built
<1> QED BY <1>2, <1>3, <1>4 DEF EvalInv

LEMMA EvalSetType ==
  ASSUME NEW v \in Versions
  PROVE  EvalSets[v] \in Seq(RawItems)
BY EvaluationAssumption DEF EvaluationAssumption, Versions

\* A set of items that loads has one item for each raw one, in order.
LEMMA LoadedItems ==
  ASSUME NEW v \in Versions, Loaded(EvalSets[v]) # NoItems
  PROVE  /\ Loaded(EvalSets[v]) \in Seq(Items) /\ Len(Loaded(EvalSets[v])) = Len(EvalSets[v])
         /\ \A k \in 1 .. Len(EvalSets[v]) : Loaded(EvalSets[v])[k].id = Stripped(EvalSets[v][k].id)
<1> DEFINE raws == EvalSets[v]
           items == [k \in 1 .. Len(raws) |-> EvalItem(raws[k])]
<1>1. raws \in Seq(RawItems) /\ DOMAIN raws = 1 .. Len(raws) /\ Len(raws) \in Nat
  BY EvalSetType
<1>2. Loaded(raws) = items
  BY <1>1 DEF Loaded
<1> HIDE DEF raws
<1>3. \A k \in 1 .. Len(raws) : items[k] = EvalItem(raws[k]) /\ EvalItem(raws[k]) \in Items
  BY <1>1 DEF Items
<1>4. items \in Seq(Items) /\ Len(items) = Len(raws)
  BY <1>1, <1>3
<1>5. \A raw : EvalItem(raw).id = Stripped(raw.id)
  BY DEF EvalItem
<1> HIDE DEF items
<1> QED BY <1>2, <1>3, <1>4, <1>5 DEF raws

LEMMA BeginRunKeeps == ASSUME EvalInv, BeginRun PROVE EvalInv'
<1> USE DEF EvalInv
<1>1. /\ eval.pc = "idle" /\ eval.results = <<>> /\ Usable(active)
      /\ eval' = [eval EXCEPT !.pc = "load", !.state = active, !.version = repository]
      /\ UNCHANGED prepared
  BY DEF BeginRun, RunInv
<1>2. active \in States /\ Sound(active, mixed)
  BY <1>1 DEF Usable, EvalType, Trees, BuildInv
<1>3. eval \in Runs /\ repository \in Nat /\ repository \in Versions
  BY EvaluationAssumption DEF EvalType, Versions
<1>4. /\ eval' \in Runs /\ eval'.pc = "load" /\ eval'.state = active /\ eval'.version = repository
      /\ eval'.results = <<>>
  BY <1>1, <1>2, <1>3 DEF Runs, Trees
<1>5. active.id \notin mixed => Content(active) = <<repository, repository, repository>>
  BY <1>1, <1>2, UsableContent
<1>6. UNCHANGED <<repository, active, mixed>> /\ active # Missing
  BY <1>1 DEF prepared, trees, Usable
<1>7. RunInv'
  <2>1. AllFrom(<<>>, active) /\ AllPass(<<>>, mixed)
    BY DEF AllFrom, AllPass
  <2> QED BY <1>2, <1>3, <1>4, <1>5, <1>6, <2>1 DEF RunInv
<1> QED BY <1>1, <1>4, <1>7, RunStep

LEMMA LoadItemsKeeps == ASSUME EvalInv, LoadItems PROVE EvalInv'
<1> USE DEF EvalInv
<1> DEFINE items == Loaded(EvalSets[repository])
<1>1. /\ eval.pc = "load" /\ UNCHANGED prepared
      /\ eval' = IF items = NoItems THEN [eval EXCEPT !.pc = "done"]
                 ELSE [eval EXCEPT !.pc = "item", !.todo = items]
  BY DEF LoadItems
<1>2. eval \in Runs /\ repository \in Versions
  BY DEF EvalType
<1>3. UNCHANGED <<repository, active, mixed>>
  BY <1>1 DEF prepared, trees
<1>4. CASE items = NoItems
  <2>1. eval' \in Runs /\ eval'.pc = "done"
    BY <1>1, <1>2, <1>4 DEF Runs
  <2>2. RunInv'
    BY <2>1 DEF RunInv, Running
  <2> QED BY <1>1, <2>1, <2>2, RunStep
<1>5. CASE items # NoItems
  <2>1. /\ items \in Seq(Items) /\ Len(items) = Len(EvalSets[repository])
        /\ \A k \in 1 .. Len(EvalSets[repository]) : items[k].id = Stripped(EvalSets[repository][k].id)
    BY <1>2, <1>5, LoadedItems
  <2> HIDE DEF items
  <2>2. /\ eval' \in Runs /\ eval'.pc = "item" /\ eval'.todo = items /\ eval'.results = eval.results
        /\ eval'.state = eval.state /\ eval'.version = eval.version /\ eval'.disturbed = eval.disturbed
    BY <1>1, <1>2, <1>5, <2>1 DEF Runs
  <2>3. Running(eval) /\ eval.results = <<>>
    BY <1>1 DEF RunInv, Running
  <2>4. Len(items) \in Nat
    BY <2>1
  <2>5. Covers(<<>>, items, EvalSets[repository])
    BY <2>1, <2>4 DEF Covers
  <2>6. OneVersion(eval, repository)'
    <3>1. eval.version \in Versions /\ eval.version <= repository
      BY <2>3 DEF RunInv
    <3>2. repository \in eval.version .. repository
      BY <1>2, <3>1, VersionsAreNumbers
    <3> QED BY <1>3, <2>2, <2>3, <2>5, <3>2 DEF OneVersion
  <2>7. RunInv'
    BY <1>3, <2>2, <2>3, <2>6 DEF RunInv
  <2> QED BY <1>1, <2>2, <2>7, RunStep
<1> QED BY <1>4, <1>5

LEMMA TailOf ==
  ASSUME NEW S, NEW s \in Seq(S), s # <<>>
  PROVE  /\ Head(s) \in S /\ Head(s) = s[1] /\ Tail(s) \in Seq(S)
         /\ Len(s) \in Nat \ {0} /\ Len(Tail(s)) = Len(s) - 1
         /\ \A k \in 1 .. Len(Tail(s)) : Tail(s)[k] = s[k + 1]
OBVIOUS

LEMMA AppendOf ==
  ASSUME NEW S, NEW s \in Seq(S), NEW e \in S
  PROVE  /\ Append(s, e) \in Seq(S) /\ Len(s) \in Nat /\ Len(Append(s, e)) = Len(s) + 1
         /\ Append(s, e)[Len(s) + 1] = e
         /\ \A k \in 1 .. Len(s) : Append(s, e)[k] = s[k]
OBVIOUS

LEMMA CoversNext ==
  ASSUME NEW R, NEW T, NEW results \in Seq(R), NEW todo \in Seq(T), todo # <<>>, NEW raws,
         Covers(results, todo, raws), NEW result \in R, result.item = Head(todo).id
  PROVE  Covers(Append(results, result), Tail(todo), raws)
<1> DEFINE n == Len(results)
           m == Len(todo)
           later == Append(results, result)
           left == Tail(todo)
<1>1. /\ m \in Nat \ {0} /\ Len(left) = m - 1 /\ Head(todo) = todo[1]
      /\ \A k \in 1 .. m - 1 : left[k] = todo[k + 1]
  BY TailOf
<1>2. n \in Nat /\ Len(later) = n + 1 /\ later[n + 1] = result /\ \A k \in 1 .. n : later[k] = results[k]
  BY AppendOf
<1>3. /\ n + m = Len(raws)
      /\ \A k \in 1 .. n : results[k].item = Stripped(raws[k].id)
      /\ \A k \in 1 .. m : todo[k].id = Stripped(raws[n + k].id)
  BY DEF Covers
<1> HIDE DEF n, m, later, left
<1>4. ASSUME NEW k \in 1 .. n + 1 PROVE later[k].item = Stripped(raws[k].id)
  <2>1. CASE k = n + 1
    <3>1. 1 \in 1 .. m
      BY <1>1
    <3> QED BY <1>1, <1>2, <1>3, <2>1, <3>1
  <2>2. CASE k # n + 1
    <3>1. k \in 1 .. n
      BY <1>2, <2>2
    <3> QED BY <1>2, <1>3, <3>1
  <2> QED BY <2>1, <2>2
<1>5. ASSUME NEW k \in 1 .. m - 1 PROVE left[k].id = Stripped(raws[n + 1 + k].id)
  <2>1. k + 1 \in 1 .. m /\ n + (k + 1) = n + 1 + k
    BY <1>1, <1>2
  <2>2. todo[k + 1].id = Stripped(raws[n + (k + 1)].id)
    BY <1>3, <2>1
  <2> QED BY <1>1, <2>1, <2>2
<1>6. n + 1 + (m - 1) = Len(raws)
  <2>1. n \in Nat /\ m \in Nat /\ n + m = Len(raws)
    BY <1>1, <1>2, <1>3
  <2>2. n + 1 + (m - 1) = n + m
    BY <2>1
  <2> QED BY <2>1, <2>2
<1>7. Covers(later, left, raws)
  BY <1>1, <1>2, <1>4, <1>5, <1>6 DEF Covers
<1> QED BY <1>7 DEF later, left

LEMMA FromNext ==
  ASSUME NEW results \in Seq(Recorded), NEW result \in Recorded, NEW state,
         AllFrom(results, state), From(result, state)
  PROVE  AllFrom(Append(results, result), state)
<1> DEFINE later == Append(results, result)
<1>1. ASSUME NEW k \in 1 .. Len(later) PROVE From(later[k], state)
  <2>1. later[k] = result \/ (k \in 1 .. Len(results) /\ later[k] = results[k])
    BY AppendOf
  <2> HIDE DEF later
  <2> QED BY <2>1 DEF AllFrom
<1> QED BY <1>1 DEF AllFrom

LEMMA PassesNext ==
  ASSUME NEW results \in Seq(Recorded), NEW result \in Recorded, NEW changed,
         AllPass(results, changed), Passes(result, changed)
  PROVE  AllPass(Append(results, result), changed)
<1> DEFINE later == Append(results, result)
<1>1. ASSUME NEW k \in 1 .. Len(later) PROVE Passes(later[k], changed)
  <2>1. later[k] = result \/ (k \in 1 .. Len(results) /\ later[k] = results[k])
    BY AppendOf
  <2> HIDE DEF later
  <2> QED BY <2>1 DEF AllPass
<1> QED BY <1>1 DEF AllPass

LEMMA HeadItem ==
  ASSUME EvalType, eval.todo # <<>>
  PROVE  Head(eval.todo) \in Items
BY TailOf DEF EvalType, Runs

\* One item more is recorded, and one less is left.
LEMMA RecordsKeeps ==
  ASSUME EvalInv, eval.pc \in {"item", "answer", "score"}, eval.todo # <<>>, UNCHANGED prepared,
         NEW result \in Recorded, result.item = Head(eval.todo).id, Records(result),
         Passes(result, mixed), ~ eval.disturbed => From(result, eval.state)
  PROVE  EvalInv'
<1> DEFINE later == Append(eval.results, result)
           left == Tail(eval.todo)
<1>1. EvalType /\ RunInv /\ eval \in Runs /\ eval.todo \in Seq(Items) /\ eval.results \in Seq(Recorded)
  BY DEF EvalInv, EvalType, Runs
<1>2. Head(eval.todo) \in Items /\ left \in Seq(Items)
  BY <1>1, TailOf
<1>4. eval' = [eval EXCEPT !.pc = "item", !.at = NoItem, !.results = later, !.todo = left]
  BY DEF Records
<1>5. later \in Seq(Recorded)
  <2>1. eval.results \in Seq(Recorded)
    BY <1>1
  <2> QED BY <2>1, AppendOf, Zenon
<1>6. NoItem \in ItemStates
  BY DEF NoItem, ItemStates, Trees
<1> HIDE DEF later, left
<1>7. /\ eval' \in Runs /\ eval'.pc = "item" /\ eval'.results = later /\ eval'.todo = left
      /\ eval'.state = eval.state /\ eval'.version = eval.version /\ eval'.disturbed = eval.disturbed
  BY <1>1, <1>2, <1>4, <1>5, <1>6 DEF Runs
<1>8. UNCHANGED <<repository, active, mixed>> /\ Running(eval) /\ eval.pc # "load"
  BY DEF prepared, trees, Running
<1>9. OneVersion(eval, repository)'
  <2>1. PICK v \in eval.version .. repository : Covers(eval.results, eval.todo, EvalSets[v])
    BY <1>1, <1>8 DEF RunInv, OneVersion
  <2>2. Covers(later, left, EvalSets[v])
    BY <1>1, <2>1, CoversNext DEF later, left
  <2> QED BY <1>7, <1>8, <2>1, <2>2 DEF OneVersion
<1>10. ASSUME ~ eval.disturbed PROVE AllFrom(later, eval.state)
  <2>1. AllFrom(eval.results, eval.state)
    BY <1>1, <1>8, <1>10 DEF RunInv
  <2> QED BY <1>1, <1>10, <2>1, FromNext DEF later
<1>11. AllPass(later, mixed)
  <2>1. AllPass(eval.results, mixed)
    BY <1>1, <1>8 DEF RunInv
  <2> QED BY <1>1, <2>1, PassesNext DEF later
<1>12. RunInv'
  BY <1>1, <1>7, <1>8, <1>9, <1>10, <1>11 DEF RunInv
<1> QED BY <1>7, <1>12, RunStep

LEMMA EvidenceKeeps == ASSUME EvalInv, Evidence PROVE EvalInv'
<1> USE DEF EvalInv
<1>1. PICK packet \in Packets : eval' = [eval EXCEPT !.pc = "answer", !.at.packet = packet, !.at.state = active]
  BY DEF Evidence
<1>2. eval.pc = "item" /\ eval.todo # <<>> /\ UNCHANGED prepared /\ eval \in Runs /\ active \in Trees /\ eval.at \in ItemStates
  BY DEF Evidence, EvalType, Runs
<1> DEFINE visit == [eval.at EXCEPT !.packet = packet, !.state = active]
<1>3. visit \in ItemStates /\ visit.state = active
  BY <1>2 DEF ItemStates
<1>4. eval' = [eval EXCEPT !.pc = "answer", !.at = visit]
  BY <1>1, <1>2 DEF Runs
<1> HIDE DEF visit
<1>5. /\ eval' \in Runs /\ eval'.pc = "answer" /\ eval'.at = visit /\ eval'.todo = eval.todo /\ eval'.results = eval.results
      /\ eval'.state = eval.state /\ eval'.version = eval.version /\ eval'.disturbed = eval.disturbed
  BY <1>2, <1>3, <1>4 DEF Runs
<1>6. UNCHANGED <<repository, active, mixed>> /\ Running(eval)
  BY <1>2 DEF prepared, trees, Running
<1>7. OneVersion(eval, repository)'
  BY <1>2, <1>5, <1>6 DEF RunInv, OneVersion
<1>8. Sound(visit.state, mixed)
  BY <1>3 DEF Evidence, BuildInv
<1>9. RunInv'
  BY <1>2, <1>3, <1>5, <1>6, <1>7, <1>8 DEF RunInv
<1> QED BY <1>2, <1>5, <1>9, RunStep

LEMMA AnswerItemKeeps == ASSUME EvalInv, AnswerItem PROVE EvalInv'
<1> USE DEF EvalInv
<1>1. PICK answer \in Answers : eval' = [eval EXCEPT !.pc = "score", !.at.answer = answer]
  BY DEF AnswerItem
<1>2. eval.pc = "answer" /\ UNCHANGED prepared /\ eval \in Runs /\ eval.at \in ItemStates
  BY DEF AnswerItem, EvalType, Runs
<1> DEFINE visit == [eval.at EXCEPT !.answer = answer]
<1>3. visit \in ItemStates /\ visit.state = eval.at.state
  BY <1>2 DEF ItemStates
<1>4. eval' = [eval EXCEPT !.pc = "score", !.at = visit]
  BY <1>1, <1>2 DEF Runs
<1> HIDE DEF visit
<1>5. /\ eval' \in Runs /\ eval'.pc = "score" /\ eval'.at = visit /\ eval'.todo = eval.todo /\ eval'.results = eval.results
      /\ eval'.state = eval.state /\ eval'.version = eval.version /\ eval'.disturbed = eval.disturbed
  BY <1>2, <1>3, <1>4 DEF Runs
<1>6. UNCHANGED <<repository, active, mixed>> /\ Running(eval)
  BY <1>2 DEF prepared, trees, Running
<1>7. OneVersion(eval, repository)'
  BY <1>2, <1>5, <1>6 DEF RunInv, OneVersion
<1>8. RunInv'
  BY <1>2, <1>3, <1>5, <1>6, <1>7 DEF RunInv
<1> QED BY <1>2, <1>5, <1>8, RunStep

\* The outcomes of an item: only a score can be a pass.
LEMMA OutcomeKeeps == ASSUME EvalInv, EvidenceFails \/ AnswerFails \/ Score PROVE EvalInv'
<1>1. EvalType /\ RunInv /\ eval.at.state \in Trees /\ Missing \in Trees
  BY DEF EvalInv, EvalType, Runs, ItemStates, Trees
<1>2. CASE EvidenceFails
  <2>1. eval.pc = "item" /\ eval.todo # <<>> /\ UNCHANGED prepared
    BY <1>2 DEF EvidenceFails
  <2>2. PICK traces \in {{}, {"search run"}} : Records(Result("failed", traces, Missing))
    BY <1>2 DEF EvidenceFails
  <2> DEFINE r == Result("failed", traces, Missing)
  <2>3. r \in Recorded /\ r.item = Head(eval.todo).id /\ r.status = "failed"
    BY <1>1, <2>1, HeadItem DEF Result, Recorded
  <2>4. From(r, eval.state) /\ Passes(r, mixed)
    BY <2>3 DEF From, Passes
  <2> HIDE DEF r
  <2> QED BY <2>1, <2>2, <2>3, <2>4, RecordsKeeps DEF r
<1>3. CASE AnswerFails
  <2>1. /\ eval.pc = "answer" /\ UNCHANGED prepared
        /\ Records(Result("failed", {"search run", "packet"}, eval.at.state))
    BY <1>3 DEF AnswerFails
  <2>2. eval.todo # <<>>
    BY <1>1, <2>1 DEF RunInv, Running
  <2> DEFINE r == Result("failed", {"search run", "packet"}, eval.at.state)
  <2>3. r \in Recorded /\ r.item = Head(eval.todo).id /\ r.status = "failed"
    BY <1>1, <2>2, HeadItem DEF Result, Recorded
  <2>4. From(r, eval.state) /\ Passes(r, mixed)
    BY <2>3 DEF From, Passes
  <2> HIDE DEF r
  <2> QED BY <2>1, <2>2, <2>3, <2>4, RecordsKeeps DEF r
<1>4. CASE Score
  <2>1. /\ eval.pc = "score" /\ UNCHANGED prepared
        /\ \E status \in {"passed", "failed"} :
             Records(Result(status, {"search run", "packet", "answer"}, eval.at.state))
    BY <1>4 DEF Score
  <2>2. eval.todo # <<>> /\ Sound(eval.at.state, mixed) /\ (~ eval.disturbed => eval.at.state = eval.state)
    BY <1>1, <2>1 DEF RunInv, Running
  <2>3. PICK status \in {"passed", "failed"} :
          Records(Result(status, {"search run", "packet", "answer"}, eval.at.state))
    BY <2>1
  <2> DEFINE r == Result(status, {"search run", "packet", "answer"}, eval.at.state)
  <2>4. /\ r \in Recorded /\ r.item = Head(eval.todo).id
        /\ r.traces = {"search run", "packet", "answer"} /\ r.state = eval.at.state
    BY <1>1, <2>2, HeadItem DEF Result, Recorded
  <2>5. Passes(r, mixed) /\ (~ eval.disturbed => From(r, eval.state))
    BY <2>2, <2>4 DEF From, Passes
  <2> HIDE DEF r
  <2> QED BY <2>1, <2>2, <2>3, <2>4, <2>5, RecordsKeeps DEF r
<1> QED BY <1>2, <1>3, <1>4

LEMMA WriteReportKeeps == ASSUME EvalInv, WriteReport PROVE EvalInv'
<1> USE DEF EvalInv
<1>1. eval' = [NoRun EXCEPT !.pc = "done"] /\ UNCHANGED <<repository, active, temporary, backup, prep, mixed, unsafe>>
  BY DEF WriteReport, trees
<1>2. eval' \in Runs /\ eval'.pc = "done"
  <2>1. NoRun \in Runs
    BY DEF NoRun, NoItem, Runs, ItemStates, Trees
  <2> QED BY <1>1, <2>1 DEF Runs
<1>3. RunInv'
  BY <1>2 DEF RunInv, Running
<1>4. EvalType'
  BY <1>1, <1>2 DEF EvalType
<1>5. SwapInv'
  BY <1>1 DEF SwapInv, Swaps, Where
<1>6. BuildInv'
  BY <1>1 DEF BuildInv, Holds, Built
<1> QED BY <1>3, <1>4, <1>5, <1>6

LEMMA EvalStep == ASSUME EvalInv, [EvalNext]_evalVars PROVE EvalInv'
<1>1. CASE UNCHANGED evalVars
  <2>1. UNCHANGED <<repository, active, temporary, backup, prep, eval, mixed, unsafe>>
    BY <1>1 DEF evalVars, trees
  <2>2. EvalType' /\ RunInv'
    BY <2>1 DEF EvalInv, EvalType, RunInv
  <2>3. SwapInv'
    BY <2>1 DEF EvalInv, SwapInv, Swaps, Where
  <2>4. BuildInv'
    BY <2>1 DEF EvalInv, BuildInv, Holds, Built
  <2> QED BY <2>2, <2>3, <2>4 DEF EvalInv
<1>2. CASE EvalNext
  <2>1. CASE Commit \/ Drift
    BY <2>1, CommitKeeps, DriftKeeps
  <2>2. ASSUME NEW p \in Preparers,
               \/ BeginPreparation(p) \/ Build(p) \/ BuildFails(p)
               \/ CheckActive(p) \/ MoveOut(p) \/ MoveOutFails(p) \/ MoveIn(p) \/ MoveInFails(p)
               \/ RemoveNew(p) \/ PutBack(p) \/ Stops(p) \/ Cleanup(p)
        PROVE  EvalInv'
    BY <2>2, BeginPreparationKeeps, BuildKeeps, CheckActiveKeeps, MoveOutKeeps, MoveOutFailsKeeps,
       MoveInKeeps, MoveInFailsKeeps, RemovalKeeps, PutBackKeeps, OthersKeep
  <2>3. CASE BeginRun \/ LoadItems \/ Evidence \/ EvidenceFails \/ AnswerItem \/ AnswerFails \/ Score \/ WriteReport
    BY <2>3, BeginRunKeeps, LoadItemsKeeps, EvidenceKeeps, AnswerItemKeeps, OutcomeKeeps, WriteReportKeeps
  <2> QED BY <1>2, <2>1, <2>2, <2>3 DEF EvalNext
<1> QED BY <1>1, <1>2

LEMMA EvalInvariant == EvalSpec => []EvalInv
<1>1. EvalInit => EvalInv
  BY InitEvalInv
<1>2. EvalInv /\ [EvalNext]_evalVars => EvalInv'
  BY EvalStep
<1> QED BY <1>1, <1>2, PTL DEF EvalSpec

\* Only a restoration ends a swap with a failure.
PriorKept ==
  \A p \in Preparers : prep[p].pc \in Swapping /\ prep'[p].pc = "failed" /\ p \notin unsafe => active' = prep[p].prior

LEMMA OnlyPutBackFails ==
  ASSUME EvalType, EvalNext, NEW p \in Preparers, prep[p].pc \in Swapping, prep'[p].pc = "failed"
  PROVE  PutBack(p)
<1>1. prep \in [Preparers -> Preparations] /\ prep'[p] # prep[p]
  BY DEF EvalType, Swapping
<1>2. CASE Commit \/ Drift
  BY <1>1, <1>2 DEF Commit, Drift
<1>3. CASE BeginRun \/ LoadItems \/ Evidence \/ EvidenceFails \/ AnswerItem \/ AnswerFails \/ Score \/ WriteReport
  BY <1>1, <1>3 DEF BeginRun, LoadItems, Evidence, EvidenceFails, AnswerItem, AnswerFails, Score, WriteReport, prepared
<1>4. ASSUME NEW q \in Preparers,
             \/ BeginPreparation(q) \/ Build(q) \/ BuildFails(q)
             \/ CheckActive(q) \/ MoveOut(q) \/ MoveOutFails(q) \/ MoveIn(q) \/ MoveInFails(q)
             \/ RemoveNew(q) \/ PutBack(q) \/ Stops(q) \/ Cleanup(q)
      PROVE  PutBack(p)
  <2> USE <1>1 DEF Proceeds, Doing, Preparations
  <2>1. CASE BeginPreparation(q)
    BY <2>1 DEF BeginPreparation
  <2>2. CASE Build(q)
    BY <2>2 DEF Build
  <2>3. CASE BuildFails(q)
    BY <2>3 DEF BuildFails, Ends, Building, Swapping
  <2>4. CASE CheckActive(q)
    BY <2>4 DEF CheckActive
  <2>5. CASE MoveOut(q)
    BY <2>5 DEF MoveOut
  <2>6. CASE MoveOutFails(q)
    BY <2>6 DEF MoveOutFails
  <2>7. CASE MoveIn(q)
    BY <2>7 DEF MoveIn
  <2>8. CASE MoveInFails(q)
    BY <2>8 DEF MoveInFails
  <2>9. CASE RemoveNew(q)
    BY <2>9 DEF RemoveNew
  <2>10. CASE PutBack(q)
    BY <2>10 DEF PutBack, Ends
  <2>11. CASE Stops(q)
    BY <2>11 DEF Stops, Ends, NoPrep
  <2>12. CASE Cleanup(q)
    BY <2>12 DEF Cleanup, Ends, NoPrep
  <2> QED BY <1>4, <2>1, <2>2, <2>3, <2>4, <2>5, <2>6, <2>7, <2>8, <2>9, <2>10, <2>11, <2>12
<1> QED BY <1>2, <1>3, <1>4 DEF EvalNext

\* _activate_fixture_state: a failed preparation leaves the state that was active when
\* it checked, unless another swap or an edit came beside it or a move stopped
\* between copying and removing.
THEOREM FailedSwapsRestore == EvalSpec => FailureKeepsPrior
<1>1. ASSUME EvalInv, [EvalNext]_evalVars PROVE [PriorKept]_prep
  <2> SUFFICES ASSUME EvalNext PROVE PriorKept
    BY <1>1 DEF evalVars
  <2>1. ASSUME NEW p \in Preparers, prep[p].pc \in Swapping, prep'[p].pc = "failed", p \notin unsafe
        PROVE  active' = prep[p].prior
    <3>1. PutBack(p)
      BY <1>1, <2>1, OnlyPutBackFails DEF EvalInv
    <3> QED BY <1>1, <2>1, <3>1, PutBackKeeps
  <2> QED BY <2>1 DEF PriorKept
<1>2. EvalInv /\ [EvalNext]_evalVars => [PriorKept]_prep
  BY <1>1
<1> QED BY <1>2, EvalInvariant, PTL DEF EvalSpec, FailureKeepsPrior, PriorKept

\* What ReportIsFaithful says of a step.
FaithfulResult(r) ==
  r.status = "passed" =>
    /\ r.traces = {"search run", "packet", "answer"}
    /\ ~ eval.disturbed => /\ r.state = eval.state
                           /\ r.state.id \notin mixed => Range(Content(r.state)) = {eval.version}
    /\ Untouched(r.state) /\ r.state.id \notin mixed => Range(Content(r.state)) = {r.state.label}
Faithful ==
  report = {} /\ report' # {} =>
    /\ \E v \in eval.version .. repository : [k \in DOMAIN eval.results |-> eval.results[k].item] = ItemsOf(v)
    /\ \A k \in DOMAIN eval.results : FaithfulResult(eval.results[k])

LEMMA ReportsAreFaithful ==
  ASSUME EvalInv, [EvalNext]_evalVars
  PROVE  [Faithful]_report
<1> SUFFICES ASSUME report = {}, report' # {} PROVE Faithful
  BY DEF Faithful
<1>1. WriteReport
  BY DEF EvalNext, evalVars, Commit, Drift, BeginPreparation, Build, BuildFails, CheckActive, MoveOut,
     MoveOutFails, MoveIn, MoveInFails, RemoveNew, PutBack, Stops, Cleanup, BeginRun, LoadItems, Evidence,
     EvidenceFails, AnswerItem, AnswerFails, Score
<1>2. eval.pc = "item" /\ eval.todo = <<>> /\ Running(eval)
  BY <1>1 DEF WriteReport, Running
<1> DEFINE results == eval.results
<1>3. /\ AllPass(results, mixed) /\ (~ eval.disturbed => AllFrom(results, eval.state))
      /\ eval.state.id \notin mixed => Content(eval.state) = <<eval.version, eval.version, eval.version>>
      /\ eval.version \in Versions /\ repository \in Versions
  BY <1>2 DEF EvalInv, EvalType, RunInv
<1>4. PICK v \in eval.version .. repository : Covers(results, <<>>, EvalSets[v])
  BY <1>2 DEF EvalInv, RunInv, OneVersion
<1>5. DOMAIN results = 1 .. Len(results) /\ Len(results) \in Nat
  BY DEF EvalInv, EvalType, Runs
<1> HIDE DEF results
<1>6. [k \in DOMAIN results |-> results[k].item] = ItemsOf(v)
  <2> DEFINE raws == EvalSets[v]
  <2>1. v \in Versions
    BY <1>3, <1>4, EvaluationAssumption DEF EvaluationAssumption, Versions
  <2>2. /\ raws \in Seq(RawItems) /\ DOMAIN raws = 1 .. Len(raws) /\ Len(raws) \in Nat
    BY <2>1, EvalSetType
  <2>3. Covers(results, <<>>, raws)
    BY <1>4
  <2> HIDE DEF raws
  <2>4. Len(results) = Len(raws) /\ \A k \in 1 .. Len(results) : results[k].item = Stripped(raws[k].id)
    <3>1. Len(results) + Len(<<>>) = Len(raws) /\ Len(<<>>) = 0
      BY <2>3 DEF Covers
    <3>2. \A k \in 1 .. Len(results) : results[k].item = Stripped(raws[k].id)
      BY <2>3 DEF Covers
    <3>3. Len(results) \in Nat
      BY <1>5
    <3>4. Len(results) = Len(raws)
      BY <3>1, <3>3
    <3> QED BY <3>2, <3>4, Zenon
  <2>5. [k \in DOMAIN results |-> results[k].item] = [k \in DOMAIN raws |-> Stripped(raws[k].id)]
    BY <1>5, <2>2, <2>4
  <2> QED BY <2>5 DEF ItemsOf, raws
<1>7. \A n : Range(<<n, n, n>>) = {n}
  BY RangeOfThree
<1>8. ASSUME NEW k \in DOMAIN results PROVE FaithfulResult(results[k])
  <2> DEFINE r == results[k]
  <2>1. Passes(r, mixed) /\ (~ eval.disturbed => From(r, eval.state))
    BY <1>3, <1>5, <1>8 DEF AllFrom, AllPass
  <2> HIDE DEF r
  <2>2. r.status = "passed" /\ Untouched(r.state) /\ r.state.id \notin mixed
          => Content(r.state) = <<r.state.label, r.state.label, r.state.label>>
    BY <2>1 DEF Passes, Sound, Untouched
  <2>3. FaithfulResult(r)
    BY <1>3, <1>7, <2>1, <2>2 DEF FaithfulResult, Passes, From
  <2> QED BY <2>3 DEF r
<1> QED BY <1>4, <1>6, <1>8 DEF Faithful, results

\* run_eval_set: a report that was written has one result for each item of one version of
\* the set, in order; an item that passed was answered from the state the run validated,
\* unless a swap or an edit came between, and from one version of the sources.
THEOREM ReportsTellTheTruth == EvalSpec => ReportIsFaithful
<1>1. EvalInv /\ [EvalNext]_evalVars => [Faithful]_report
  BY ReportsAreFaithful
<1> QED BY <1>1, EvalInvariant, PTL DEF EvalSpec, ReportIsFaithful, Faithful, FaithfulResult

----------------------------------------------------------------------------
(* The session registry.                                                    *)
USE SessionOfAssumption, RegistryAssumption

LEMMA UsersAreFinite == ASSUME NEW e \in Entries PROVE IsFiniteSet(Users(e))
<1>1. Users(e) \subseteq Asks
  BY DEF Users
<1> QED
  BY <1>1, FS_Subset

\* An entry that is checked out is in use.
LEMMA InUse ==
  ASSUME IInv, NEW a \in Asks, Checked(a)
  PROVE  /\ held[a] \in Entries /\ entry[SessionOf[a]] = held[a]
         /\ inUse[held[a]] # 0
<1>1. held[a] \in Entries /\ entry[SessionOf[a]] = held[a]
  BY DEF IInv, ActiveIsExact, CheckedOutStays
<1>2. a \in Users(held[a])
  BY DEF Users
<1>3. Cardinality(Users(held[a])) # 0
  BY <1>1, <1>2, UsersAreFinite, FS_EmptySet
<1> QED
  BY <1>1, <1>3 DEF IInv, ActiveIsExact

\* Neither a purge nor making room takes an entry that is checked out.
LEMMA DroppedIsIdle ==
  ASSUME NEW kept, NEW t \in Expired \cup Victim(kept)
  PROVE  inUse[entry[t]] = 0
BY DEF Expired, Victim

LEMMA FreshIsUnused == ASSUME IInv, NEW a \in Asks, pc[a] = "new" PROVE Users(a) = {}
BY DEF IInv, NewEntriesAreFresh, Users

LEMMA InitInv == Init => IInv
<1> SUFFICES ASSUME Init PROVE IInv
  OBVIOUS
<1>1. TypeOK
  BY DEF Init, TypeOK, Entries
<1>2. \A e \in Entries : Users(e) = {}
  BY DEF Init, Users, Checked
<1>3. ActiveIsExact
  BY <1>2, FS_EmptySet DEF Init, ActiveIsExact, Checked
<1> QED
  BY <1>1, <1>3 DEF Init, IInv, NewEntriesAreFresh, InsideHoldsLock, CheckedOutStays,
     ContextIsCurrent, Checked, Entries

-----------------------------------------------------------------------------
\* A session that is there: its entry has one more user.
LEMMA AcquirePresentInv ==
  ASSUME IInv, NEW a \in Asks, AcquirePresent(a)
  PROVE  IInv'
<1> DEFINE s == SessionOf[a]
<1>1. TypeOK /\ s \in SessionIds /\ pc[a] = "new"
  BY DEF IInv, AcquirePresent
<1>11. PICK e \in Entries : e = entry[s]
  BY <1>1 DEF AcquirePresent, Present, TypeOK
<1>2. /\ entry' = [t \in SessionIds |-> IF t \in Expired THEN NoEntry ELSE entry[t]]
      /\ inUse' = [inUse EXCEPT ![e] = @ + 1]
      /\ held' = [held EXCEPT ![a] = e] /\ pc' = [pc EXCEPT ![a] = "waiting"]
      /\ memory' = memory /\ lock' = lock /\ context' = context /\ s \notin Expired
  BY <1>11 DEF AcquirePresent
<1>3. TypeOK'
  BY <1>1, <1>2 DEF TypeOK, Entries
<1>4. Users(e)' = Users(e) \cup {a} /\ a \notin Users(e)
  BY <1>1, <1>2 DEF Users, Checked, TypeOK
<1>5. \A x \in Entries \ {e} : Users(x)' = Users(x)
  BY <1>1, <1>2 DEF Users, Checked, TypeOK
<1>6. Cardinality(Users(e))' = Cardinality(Users(e)) + 1
  BY <1>1, <1>4, UsersAreFinite, FS_AddElement
<1>7. ActiveIsExact'
  BY <1>1, <1>2, <1>5, <1>6 DEF IInv, ActiveIsExact, TypeOK, Checked
<1>8. CheckedOutStays'
  <2> SUFFICES ASSUME NEW b \in Asks, Checked(b)' PROVE entry'[SessionOf[b]] = held'[b]
    BY DEF CheckedOutStays
  <2>1. CASE b = a
    BY <1>1, <1>11, <1>2, <2>1 DEF TypeOK
  <2>2. CASE b # a
    <3>1. Checked(b) /\ held'[b] = held[b]
      BY <1>1, <1>2, <2>2 DEF Checked, TypeOK
    <3>2. SessionOf[b] \notin Expired
      BY <3>1, InUse DEF Expired
    <3> QED
      BY <1>2, <3>1, <3>2, InUse
  <2> QED
    BY <2>1, <2>2
<1>9. NewEntriesAreFresh'
  BY <1>1, <1>11, <1>2, InUse DEF IInv, NewEntriesAreFresh, TypeOK, Checked
<1>10. InsideHoldsLock' /\ ContextIsCurrent'
  BY <1>1, <1>2 DEF IInv, InsideHoldsLock, ContextIsCurrent, TypeOK
<1> QED
  BY <1>3, <1>7, <1>8, <1>9, <1>10 DEF IInv

\* A session that is not: its entry is new and has one user.
LEMMA AcquireFreshInv ==
  ASSUME IInv, NEW a \in Asks, AcquireFresh(a)
  PROVE  IInv'
<1> DEFINE s == SessionOf[a]
<1>1. TypeOK /\ s \in SessionIds /\ pc[a] = "new" /\ a \in Entries
  BY DEF IInv, AcquireFresh, Entries
<1>2. PICK gone \in SUBSET (Expired \cup Victim(Without(Expired))) :
        entry' = [t \in SessionIds |-> IF t = s THEN a ELSE IF t \in gone THEN NoEntry ELSE entry[t]]
  BY DEF AcquireFresh
<1>3. /\ inUse' = [inUse EXCEPT ![a] = 1]
      /\ held' = [held EXCEPT ![a] = a] /\ pc' = [pc EXCEPT ![a] = "waiting"]
      /\ memory' = memory /\ lock' = lock /\ context' = context /\ s \notin Present \ Expired
  BY DEF AcquireFresh
<1>4. TypeOK'
  BY <1>1, <1>2, <1>3 DEF TypeOK, Entries
<1>5. Users(a) = {} /\ Users(a)' = {a}
  BY <1>1, <1>3, FreshIsUnused DEF Users, Checked, TypeOK
<1>6. \A x \in Entries \ {a} : Users(x)' = Users(x)
  BY <1>1, <1>3 DEF Users, Checked, TypeOK
<1>7. ActiveIsExact'
  <2>1. Cardinality(Users(a))' = 1
    BY <1>5, FS_Singleton
  <2> QED
    BY <1>1, <1>3, <1>6, <2>1 DEF IInv, ActiveIsExact, TypeOK, Checked
<1>8. CheckedOutStays'
  <2> SUFFICES ASSUME NEW b \in Asks, Checked(b)' PROVE entry'[SessionOf[b]] = held'[b]
    BY DEF CheckedOutStays
  <2>1. CASE b = a
    BY <1>1, <1>2, <1>3, <2>1 DEF TypeOK
  <2>2. CASE b # a
    <3>1. Checked(b) /\ held'[b] = held[b]
      BY <1>1, <1>3, <2>2 DEF Checked, TypeOK
    <3>2. SessionOf[b] \notin Expired \cup Victim(Without(Expired))
      BY <3>1, InUse, DroppedIsIdle
    <3>3. SessionOf[b] \in Present
      BY <3>1, InUse DEF Present, Entries
    <3> QED
      BY <1>2, <1>3, <3>1, <3>2, <3>3, InUse
  <2> QED
    BY <2>1, <2>2
<1>9. NewEntriesAreFresh'
  BY <1>1, <1>2, <1>3 DEF IInv, NewEntriesAreFresh, TypeOK, Entries
<1>10. InsideHoldsLock' /\ ContextIsCurrent'
  BY <1>1, <1>3 DEF IInv, InsideHoldsLock, ContextIsCurrent, TypeOK
<1> QED
  BY <1>4, <1>7, <1>8, <1>9, <1>10 DEF IInv

\* A purge without an acquisition.
LEMMA PurgeInv ==
  ASSUME IInv, entry' = [t \in SessionIds |-> IF t \in Expired THEN NoEntry ELSE entry[t]],
         UNCHANGED <<inUse, memory, lock, held, context>>,
         pc' = pc \/ \E a \in Asks : pc[a] = "new" /\ pc' = [pc EXCEPT ![a] = "refused"]
  PROVE  IInv'
<1>1. TypeOK /\ TypeOK'
  BY DEF IInv, TypeOK
<1>2. \A a \in Asks : (Checked(a)' <=> Checked(a)) /\ (pc'[a] \in {"new", "inside"} => pc'[a] = pc[a])
  BY <1>1 DEF Checked, TypeOK
<1>3. \A e \in Entries : Users(e)' = Users(e)
  BY <1>2 DEF Users
<1>4. ActiveIsExact'
  BY <1>2, <1>3 DEF IInv, ActiveIsExact
<1>5. CheckedOutStays'
  <2> SUFFICES ASSUME NEW b \in Asks, Checked(b)' PROVE entry'[SessionOf[b]] = held'[b]
    BY DEF CheckedOutStays
  <2>1. Checked(b) /\ SessionOf[b] \notin Expired
    BY <1>2, InUse DEF Expired
  <2> QED
    BY <2>1, InUse
<1>6. NewEntriesAreFresh' /\ InsideHoldsLock' /\ ContextIsCurrent'
  BY <1>1, <1>2 DEF IInv, NewEntriesAreFresh, InsideHoldsLock, ContextIsCurrent
<1> QED
  BY <1>1, <1>4, <1>5, <1>6 DEF IInv

-----------------------------------------------------------------------------
LEMMA LastTurnsType == ASSUME NEW t \in Seq(Asks) PROVE LastTurns(t) \in Seq(Asks)
<1>1. CASE Len(t) <= MaxTurns
  BY <1>1 DEF LastTurns
<1>2. CASE Len(t) > MaxTurns
  BY <1>2 DEF LastTurns
<1> QED
  BY <1>1, <1>2

\* What happens under the request lock; another ask inside has another entry.
LEMMA InsideInv ==
  ASSUME IInv, NEW a \in Asks, Enter(a) \/ Complete(a) \/ Fail(a)
  PROVE  IInv'
<1>1. TypeOK /\ Checked(a) /\ held[a] \in Entries
  BY InUse DEF IInv, Enter, Complete, Fail, Checked
<1>2. TypeOK'
  <2>1. Append(memory[held[a]], a) \in Seq(Asks)
    BY <1>1 DEF TypeOK
  <2>2. LastTurns(Append(memory[held[a]], a)) \in Seq(Asks)
    BY <2>1, LastTurnsType
  <2>3. CASE Enter(a)
    <3>1. memory[held[a]] \in Seq(Asks)
      BY <1>1 DEF TypeOK
    <3> QED
      BY <1>1, <2>3, <3>1 DEF Enter, TypeOK, registry, Entries
  <2>4. CASE Complete(a)
    <3>1. memory' \in [Entries -> Seq(Asks)]
      BY <1>1, <2>2, <2>4 DEF Complete, TypeOK
    <3> QED
      BY <1>1, <2>4, <3>1 DEF Complete, TypeOK, registry, Entries
  <2>5. CASE Fail(a)
    BY <1>1, <2>5 DEF Fail, TypeOK, registry, Entries
  <2> QED
    BY <2>3, <2>4, <2>5
<1>3. \A b \in Asks : (Checked(b)' <=> Checked(b)) /\ (pc'[b] = "new" => pc[b] = "new")
  BY <1>1 DEF Enter, Complete, Fail, Checked, TypeOK
<1>4. UNCHANGED <<entry, inUse, held>>
  BY DEF Enter, Complete, Fail, registry
<1>5. \A e \in Entries : Users(e)' = Users(e)
  BY <1>3, <1>4 DEF Users
<1>6. ActiveIsExact' /\ CheckedOutStays' /\ NewEntriesAreFresh'
  BY <1>3, <1>4, <1>5 DEF IInv, ActiveIsExact, CheckedOutStays, NewEntriesAreFresh
<1>7. \A b \in Asks \ {a} : pc[b] = "inside" /\ pc'[a] # "waiting" => held[b] # held[a]
  BY <1>1 DEF IInv, InsideHoldsLock, Enter, Complete, Fail, TypeOK
<1>8. InsideHoldsLock' /\ ContextIsCurrent'
  <2> SUFFICES ASSUME NEW b \in Asks, pc'[b] = "inside"
               PROVE  lock'[held'[b]] = b /\ context'[b] = memory'[held'[b]]
    BY DEF InsideHoldsLock, ContextIsCurrent
  <2>1. held[b] \in Entries
    BY <1>3, InUse DEF Checked
  <2>2. CASE b = a
    BY <1>1, <2>2 DEF Enter, Complete, Fail, TypeOK
  <2>3. CASE b # a
    <3>1. pc[b] = "inside" /\ held[b] # held[a]
      BY <1>1, <1>7, <2>3 DEF Enter, Complete, Fail, TypeOK
    <3> QED
      BY <1>1, <1>4, <2>1, <2>3, <3>1 DEF IInv, InsideHoldsLock, ContextIsCurrent, Enter, Complete, Fail, TypeOK
  <2> QED
    BY <2>2, <2>3
<1> QED
  BY <1>2, <1>6, <1>8 DEF IInv

\* The entry is still there, so its user is subtracted.
LEMMA ReleaseInv ==
  ASSUME IInv, NEW a \in Asks, Release(a)
  PROVE  IInv'
<1>1. TypeOK /\ Checked(a) /\ pc[a] = "leaving"
  BY DEF IInv, Release, Checked
<1>2. PICK e \in Entries : e = held[a] /\ entry[SessionOf[a]] = e
  BY <1>1, InUse
<1>3. /\ inUse' = [inUse EXCEPT ![e] = @ - 1] /\ pc' = [pc EXCEPT ![a] = "done"]
      /\ UNCHANGED <<entry, memory, lock, held, context>>
  BY <1>2 DEF Release
<1>4. TypeOK'
  BY <1>1, <1>2, <1>3 DEF TypeOK
<1>5. Users(e)' = Users(e) \ {a} /\ a \in Users(e)
  BY <1>1, <1>2, <1>3 DEF Users, Checked, TypeOK
<1>6. \A x \in Entries \ {e} : Users(x)' = Users(x)
  BY <1>1, <1>2, <1>3 DEF Users, Checked, TypeOK
<1>7. Cardinality(Users(e))' = Cardinality(Users(e)) - 1
  BY <1>5, UsersAreFinite, FS_RemoveElement
<1>8. ActiveIsExact'
  BY <1>1, <1>2, <1>3, <1>6, <1>7 DEF IInv, ActiveIsExact, TypeOK, Checked
<1>9. NewEntriesAreFresh' /\ InsideHoldsLock' /\ CheckedOutStays' /\ ContextIsCurrent'
  BY <1>1, <1>3 DEF IInv, NewEntriesAreFresh, InsideHoldsLock, CheckedOutStays, ContextIsCurrent, Checked, TypeOK
<1> QED
  BY <1>4, <1>8, <1>9 DEF IInv

LEMMA StutterInv == ASSUME IInv, UNCHANGED <<registry, memory, lock, local>> PROVE IInv'
<1>1. \A e \in Entries : Users(e)' = Users(e)
  BY DEF Users, Checked, local
<1> QED
  BY <1>1 DEF IInv, TypeOK, ActiveIsExact, NewEntriesAreFresh, InsideHoldsLock, CheckedOutStays,
     ContextIsCurrent, Checked, registry, local

LEMMA InvStep == IInv /\ [Next]_vars => IInv'
<1> SUFFICES ASSUME IInv, [Next]_vars PROVE IInv'
  OBVIOUS
<1>1. ASSUME NEW a \in Asks, Start(a) PROVE IInv'
  <2>1. CASE Refuse(a)
    BY <2>1, PurgeInv DEF Refuse
  <2> QED
    BY <1>1, <2>1, AcquirePresentInv, AcquireFreshInv DEF Start
<1>2. ASSUME NEW a \in Asks, Run(a) PROVE IInv'
  BY <1>2, InsideInv, ReleaseInv DEF Run
<1>3. CASE HasLiveSession
  BY <1>3, PurgeInv DEF HasLiveSession, local
<1>4. CASE Tick
  BY <1>4, StutterInv DEF Tick
<1>5. CASE UNCHANGED vars
  BY <1>5, StutterInv DEF vars
<1> QED
  BY <1>1, <1>2, <1>3, <1>4, <1>5 DEF Next, Quiescent

-----------------------------------------------------------------------------
\* The inductive invariant of the registry; with it, inUse is the number of
\* users of an entry, and an ask inside holds its request lock.
THEOREM RegistryInvariant == Spec => []IInv
BY InitInv, InvStep, PTL DEF Spec

\* No entry is expired, evicted or replaced while an ask has it checked out,
\* however many asks, sessions and entries there are (SessionRegistry.checkout).
THEOREM CheckoutIsStable == Spec => []CheckedOutStays
<1>1. IInv => CheckedOutStays
  BY DEF IInv
<1> QED
  BY <1>1, RegistryInvariant, PTL

\* What an ask's planner was given stays the whole memory of its session until
\* the ask records its own turn (record_complete_turn).
THEOREM ContextStaysCurrent == Spec => []ContextIsCurrent
<1>1. IInv => ContextIsCurrent
  BY DEF IInv
<1> QED
  BY <1>1, RegistryInvariant, PTL
=============================================================================

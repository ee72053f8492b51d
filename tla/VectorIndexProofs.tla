------------------------- MODULE VectorIndexProofs -------------------------
(***************************************************************************)
(* Safety of VectorIndex for any files, ids, indexes and bounds: a mapped  *)
(* vector embeds the text of its chunk unless the chunk was replaced while *)
(* it was embedded, a search ranks chunks by the text it shows, an         *)
(* undisturbed synchronization repairs both stores, and a search of indexes *)
(* that are served returns the nearest chunks.  At the end, safety of      *)
(* EmbeddingRegistry, which holds the models that embed and query.         *)
(***************************************************************************)
EXTENDS VectorIndex, EmbeddingRegistry, FiniteSetTheorems, WellFoundedInduction, TLAPS

USE VectorAssumption

\* A vector of a chunk is a vector.
LEMMA CourseType ==
  ASSUME TypeOK, NEW i \in Ids, chunk[i] # None
  PROVE  chunk[i] \in [file : Files, text : Texts] /\ CourseOf(i) \in Courses
<1>1. chunk[i] \in [file : Files, text : Texts]
  BY DEF TypeOK
<1>2. chunk[i].file \in Files /\ file[chunk[i].file] \in [indexed : BOOLEAN, course : Courses]
  BY <1>1 DEF TypeOK
<1> QED BY <1>1, <1>2 DEF CourseOf

LEMMA HereType == ASSUME TypeOK, sync.todo # <<>> PROVE here \in Indexes /\ Tail(sync.todo) \in Seq(Indexes)
<1>1. sync.todo \in Seq(Indexes) /\ sync.todo # <<>>
  BY DEF TypeOK, SyncType
<1>2. \A s \in Seq(Indexes) : s # <<>> => Head(s) \in Indexes /\ Tail(s) \in Seq(Indexes)
  <2> HIDE DEF Indexes
  <2> QED OBVIOUS
<1> QED BY <1>1, <1>2 DEF here

LEMMA FileType ==
  ASSUME TypeOK, NEW f \in Files, NEW b \in BOOLEAN
  PROVE  [file EXCEPT ![f] = [indexed |-> b, course |-> @.course]] \in [Files -> [indexed : BOOLEAN, course : Courses]]
  BY DEF TypeOK

LEMMA NoSyncType == NoSync \in SyncType
  BY DEF NoSync, SyncType

LEMMA NoSearchType == NoSearch \in SearchType
  BY DEF NoSearch, SearchType

LEMMA InitInv == Init => IInv
<1> SUFFICES ASSUME Init PROVE IInv
  OBVIOUS
<1>1. PICK embedded \in BOOLEAN :
        /\ mapped = [x \in Indexes |-> IF embedded THEN Eligible(x) ELSE {}]
        /\ vec = [x \in Indexes |-> [i \in Ids |->
             IF i \in mapped[x] THEN [text |-> chunk[i].text, course |-> CourseOf(i)] ELSE None]]
  BY DEF Init
<1>2. chunk \in [Ids -> [file : Files, text : Texts] \cup {None}] /\ file \in [Files -> [indexed : BOOLEAN, course : Courses]]
  BY DEF Init
<1>3. \A x \in Indexes : mapped[x] \subseteq Ids /\ \A i \in mapped[x] : chunk[i] # None
  BY <1>1 DEF Eligible, Searchable
<1>4. \A x \in Indexes : \A i \in mapped[x] : [text |-> chunk[i].text, course |-> CourseOf(i)] \in Vector
  BY <1>2, <1>3 DEF CourseOf, Vector
<1>5. TypeOK
  <2>1. mapped \in [Indexes -> SUBSET Ids]
    BY <1>1, <1>3
  <2>2. \A x \in Indexes, i \in Ids :
          (IF i \in mapped[x] THEN [text |-> chunk[i].text, course |-> CourseOf(i)] ELSE None) \in Vector \cup {None}
    BY <1>4
  <2>3. vec \in [Indexes -> [Ids -> Vector \cup {None}]]
    BY <1>1, <2>2
  <2> QED BY <1>2, <2>1, <2>3, NoSyncType, NoSearchType DEF TypeOK, Init
<1>6. MappedVectorsAreCurrent
  BY <1>1, <1>3 DEF MappedVectorsAreCurrent
<1>7. RowsFaithful /\ HitsFaithful
  BY DEF Init, RowsFaithful, HitsFaithful, NoSync, NoSearch
<1> QED BY <1>3, <1>5, <1>6, <1>7 DEF IInv, MappedHaveChunks

\* Whatever replaces the chunks of ids `gone`, cascades to their mappings and tells the
\* synchronization and the search keeps the invariant.
LEMMA ReplaceInv ==
  ASSUME IInv, NEW gone \in SUBSET Ids,
         chunk' \in [Ids -> [file : Files, text : Texts] \cup {None}],
         \A j \in Ids \ gone : chunk[j] # None => chunk'[j] = chunk[j],
         file' \in [Files -> [indexed : BOOLEAN, course : Courses]],
         mapped' = Cascade(gone),
         sync' = [sync EXCEPT !.quiet = FALSE, !.hit = @ \cup gone],
         search' = [search EXCEPT !.quiet = FALSE, !.touched = @ \cup gone],
         vec' = vec, raced' = raced
  PROVE  IInv'
<1> USE DEF IInv
<1>1. \A x \in Indexes : mapped'[x] = mapped[x] \ gone
  BY DEF TypeOK, Cascade
<1>2. \A x \in Indexes : \A k \in mapped'[x] : k \in mapped[x] /\ chunk'[k] = chunk[k] /\ chunk[k] # None
  BY <1>1 DEF TypeOK, MappedHaveChunks
<1>3. /\ sync' \in SyncType /\ sync'.pc = sync.pc /\ sync'.todo = sync.todo /\ sync'.rows = sync.rows
      /\ sync'.batch = sync.batch /\ sync'.hit = sync.hit \cup gone
  BY DEF TypeOK, SyncType
<1>4. /\ search' \in SearchType /\ search'.pc = search.pc /\ search'.hits = search.hits
      /\ search'.touched = search.touched \cup gone
  BY DEF TypeOK, SearchType
<1>5. TypeOK'
  BY <1>1, <1>3, <1>4 DEF TypeOK, Cascade
<1>6. MappedVectorsAreCurrent' /\ MappedHaveChunks'
  <2>1. MappedHaveChunks'
    BY <1>2 DEF MappedHaveChunks
  <2>2. ASSUME NEW x \in Indexes, NEW k \in mapped'[x], vec[x][k] # None, <<x, k>> \notin raced
        PROVE  vec[x][k].text = chunk'[k].text
    BY <1>2, <2>2 DEF MappedVectorsAreCurrent
  <2> QED BY <2>1, <2>2 DEF MappedVectorsAreCurrent
<1>7. RowsFaithful'
  <2> SUFFICES ASSUME sync.pc \in {"embed", "upserted"} PROVE RowsFaithful'
    BY <1>3 DEF RowsFaithful
  <2>1. here' = here /\ here \in Indexes /\ sync.todo # <<>>
    BY <1>3, HereType DEF here, RowsFaithful
  <2>2. \A r \in sync.rows : r.id \in Ids
    BY DEF TypeOK, SyncType, Row
  <2>3. \A r \in sync.rows : r.id \notin sync.hit \cup gone => chunk'[r.id] = chunk[r.id] /\ chunk[r.id] # None
    BY <2>2 DEF RowsFaithful
  <2>4. \A r \in sync.rows : r.id \notin mapped'[here]
    BY <1>1, <2>1 DEF RowsFaithful
  <2> QED BY <1>3, <2>1, <2>3, <2>4 DEF RowsFaithful
<1>8. HitsFaithful'
  <2> SUFFICES ASSUME NEW h \in search.hits, h.id \notin search.touched \cup gone
      PROVE /\ h.id \in mapped'[h.index] /\ <<h.index, h.id>> \notin raced => chunk'[h.id].text = h.text
            /\ sync.pc = "upserted" /\ h.index = here' => \A r \in sync.batch : r.id = h.id => r.text = h.text
    BY <1>3, <1>4 DEF HitsFaithful
  <2>1. h.id \in Ids /\ h.index \in Indexes
    BY DEF TypeOK, SearchType
  <2>2. here' = here
    BY <1>3 DEF here
  <2> QED BY <1>2, <2>1, <2>2 DEF HitsFaithful
<1> QED BY <1>5, <1>6, <1>7, <1>8

LEMMA ExtractInv ==
  ASSUME IInv, NEW f \in Files, NEW t \in Texts, NEW i \in Ids, Extract(f, t, i)
  PROVE  IInv'
<1>1. TypeOK /\ Old(f) \in SUBSET Ids
  BY DEF IInv, Old
<1>2. [file |-> f, text |-> t] \in [file : Files, text : Texts]
  OBVIOUS
<1>3. chunk' \in [Ids -> [file : Files, text : Texts] \cup {None}]
  BY <1>1, <1>2 DEF Extract, TypeOK
<1>4. \A j \in Ids \ Old(f) : chunk[j] # None => j # i
  <2>1. \A j \in {j \in Ids : chunk[j] # None} \ Old(f) : j < i
    BY DEF Extract, IsFresh
  <2> QED BY <2>1 DEF Ids
<1>5. \A j \in Ids \ Old(f) : chunk[j] # None => chunk'[j] = chunk[j]
  BY <1>4 DEF Extract
<1>6. file' \in [Files -> [indexed : BOOLEAN, course : Courses]]
  BY <1>1, FileType DEF Extract
<1>7. /\ mapped' = Cascade(Old(f)) /\ vec' = vec /\ raced' = raced
      /\ sync' = [sync EXCEPT !.quiet = FALSE, !.hit = @ \cup Old(f)]
      /\ search' = [search EXCEPT !.quiet = FALSE, !.touched = @ \cup Old(f)]
  BY DEF Extract, Disturb
<1> HIDE DEF Old
<1> QED BY <1>1, <1>3, <1>5, <1>6, <1>7, ReplaceInv

LEMMA ExtractNothingInv ==
  ASSUME IInv, NEW f \in Files, ExtractNothing(f)
  PROVE  IInv'
<1>1. TypeOK /\ Old(f) \in SUBSET Ids
  BY DEF IInv, Old
<1>2. chunk' \in [Ids -> [file : Files, text : Texts] \cup {None}]
  BY <1>1 DEF ExtractNothing, TypeOK
<1>3. \A j \in Ids \ Old(f) : chunk[j] # None => chunk'[j] = chunk[j]
  BY DEF ExtractNothing
<1>4. file' \in [Files -> [indexed : BOOLEAN, course : Courses]]
  BY <1>1, FileType DEF ExtractNothing
<1> QED BY <1>1, <1>2, <1>3, <1>4, ReplaceInv DEF ExtractNothing, Disturb

LEMMA InventoryInv ==
  ASSUME IInv, NEW f \in Files, NEW indexed \in BOOLEAN, NEW c \in Courses, Inventory(f, indexed, c)
  PROVE  IInv'
<1>1. TypeOK
  BY DEF IInv
<1>2. chunk' = chunk /\ mapped' = Cascade({}) /\ {} \in SUBSET Ids
  BY <1>1 DEF Inventory, TypeOK, Cascade
<1>3. file' \in [Files -> [indexed : BOOLEAN, course : Courses]]
  BY <1>1 DEF Inventory, TypeOK
<1> QED BY <1>1, <1>2, <1>3, ReplaceInv DEF Inventory, Disturb, TypeOK

-----------------------------------------------------------------------------
\* A step of the synchronization outside a batch: mappings and vectors only disappear or keep their text.
LEMMA ShrinkInv ==
  ASSUME IInv, chunk' = chunk, file' = file, raced' = raced,
         mapped' \in [Indexes -> SUBSET Ids], vec' \in [Indexes -> [Ids -> Vector \cup {None}]],
         \A x \in Indexes : mapped'[x] \subseteq mapped[x],
         \A x \in Indexes, i \in Ids : vec'[x][i] # None => vec[x][i] # None /\ vec'[x][i].text = vec[x][i].text,
         sync' \in SyncType, sync'.pc \notin {"embed", "upserted"},
         search' \in SearchType, search'.pc = search.pc, search'.hits = search.hits,
         search'.touched = search.touched
  PROVE  IInv'
<1> USE DEF IInv
<1>1. TypeOK'
  BY DEF TypeOK
<1>2. \A x \in Indexes : \A i \in mapped'[x] : i \in Ids /\ i \in mapped[x]
  BY DEF TypeOK
<1>3. MappedVectorsAreCurrent' /\ MappedHaveChunks'
  BY <1>2 DEF MappedVectorsAreCurrent, MappedHaveChunks
<1>4. RowsFaithful'
  BY DEF RowsFaithful
<1>5. HitsFaithful'
  <2> SUFFICES ASSUME NEW h \in search.hits, h.id \notin search.touched
      PROVE h.id \in mapped'[h.index] /\ <<h.index, h.id>> \notin raced => chunk[h.id].text = h.text
    BY DEF HitsFaithful
  <2>1. h.index \in Indexes
    BY DEF TypeOK, SearchType
  <2> QED BY <2>1 DEF HitsFaithful
<1> QED BY <1>1, <1>3, <1>4, <1>5

LEMMA NoticesType ==
  ASSUME TypeOK, SearchNotices
  PROVE  search' \in SearchType /\ search'.pc = search.pc /\ search'.hits = search.hits /\ search'.touched = search.touched
  BY DEF TypeOK, SearchNotices, SearchType

LEMMA BeginSyncInv ==
  ASSUME IInv, NEW s \in Selections, NEW rebuild \in BOOLEAN, BeginSync(s, rebuild)
  PROVE  IInv'
<1>1. s \in Seq(Indexes)
  <2>1. \A x \in Indexes : <<x>> \in Seq(Indexes)
    OBVIOUS
  <2> QED BY <2>1 DEF Selections
<1>2. sync' \in SyncType /\ sync'.pc \notin {"embed", "upserted"}
  BY <1>1 DEF BeginSync, NoSync, SyncType
<1> QED BY <1>2, ShrinkInv DEF BeginSync, IInv, TypeOK, sql

LEMMA ClearInv ==
  ASSUME IInv, ClearVectors \/ ClearMappings
  PROVE  IInv'
<1>1. TypeOK /\ here \in Indexes
  BY HereType DEF IInv, ClearVectors, ClearMappings, At
<1>2. search' \in SearchType /\ search'.pc = search.pc /\ search'.hits = search.hits /\ search'.touched = search.touched
  BY <1>1, NoticesType DEF ClearVectors, ClearMappings
<1>3. sync' \in SyncType /\ sync'.pc \notin {"embed", "upserted"}
  BY <1>1 DEF ClearVectors, ClearMappings, TypeOK, SyncType
<1>4. CASE ClearVectors
  <2>1. NoneLeft(Ids) \in [Ids -> Vector \cup {None}] /\ \A i \in Ids : NoneLeft(Ids)[i] = None
    BY DEF NoneLeft
  <2>2. vec' \in [Indexes -> [Ids -> Vector \cup {None}]]
    BY <1>1, <1>4, <2>1 DEF ClearVectors, TypeOK
  <2>3. \A x \in Indexes, i \in Ids : vec'[x][i] # None => vec'[x][i] = vec[x][i]
    BY <1>1, <1>4, <2>1 DEF ClearVectors, TypeOK
  <2> QED BY <1>1, <1>2, <1>3, <1>4, <2>2, <2>3, ShrinkInv DEF ClearVectors, TypeOK, sql
<1>5. CASE ClearMappings
  BY <1>1, <1>2, <1>3, <1>5, ShrinkInv DEF ClearMappings, TypeOK
<1> QED BY <1>4, <1>5

LEMMA ReconcileInv ==
  ASSUME IInv, ReconcileRows \/ ReconcileVectors \/ ReconcileCommit
  PROVE  IInv'
<1>1. TypeOK /\ here \in Indexes
  BY HereType DEF IInv, ReconcileRows, ReconcileVectors, ReconcileCommit, At
<1>2. CASE ReconcileRows
  <2>1. sync' \in SyncType /\ sync'.pc \notin {"embed", "upserted"}
    BY <1>1, <1>2 DEF ReconcileRows, TypeOK, SyncType
  <2> QED BY <1>1, <1>2, <2>1, ShrinkInv DEF ReconcileRows, TypeOK, sql
<1>3. CASE ReconcileVectors
  <2>1. NoneLeft(Ids \ sync.expected) \in [Ids -> Vector \cup {None}]
        /\ \A i \in Ids : NoneLeft(Ids \ sync.expected)[i] \in {None, vec[here][i]}
    BY <1>1 DEF NoneLeft, TypeOK
  <2>2. sync' \in SyncType /\ sync'.pc \notin {"embed", "upserted"}
    BY <1>1, <1>3 DEF ReconcileVectors, TypeOK, SyncType, Present
  <2>3. search' \in SearchType /\ search'.pc = search.pc /\ search'.hits = search.hits /\ search'.touched = search.touched
    BY <1>1, <1>3, NoticesType DEF ReconcileVectors
  <2> QED BY <1>1, <1>3, <2>1, <2>2, <2>3, ShrinkInv DEF ReconcileVectors, TypeOK, sql
<1>4. CASE ReconcileCommit
  <2>1. \A i \in Ids : i \in mapped[here] => CourseOf(i) \in Courses
    BY <1>1, CourseType DEF IInv, MappedHaveChunks
  <2>2. \A i \in Ids : vec[here][i] # None => vec[here][i] \in Vector
    BY <1>1 DEF TypeOK
  <2>3. UpdatedCourses \in [Ids -> Vector \cup {None}]
        /\ \A i \in Ids : UpdatedCourses[i] # None => vec[here][i] # None /\ UpdatedCourses[i].text = vec[here][i].text
    BY <2>1, <2>2 DEF UpdatedCourses, Vector
  <2>4. sync' \in SyncType /\ sync'.pc \notin {"embed", "upserted"}
    BY <1>1, <1>4 DEF ReconcileCommit, TypeOK, SyncType
  <2>5. search' \in SearchType /\ search'.pc = search.pc /\ search'.hits = search.hits /\ search'.touched = search.touched
    BY <1>1, <1>4, NoticesType DEF ReconcileCommit
  <2> QED BY <1>1, <1>4, <2>3, <2>4, <2>5, ShrinkInv DEF ReconcileCommit, TypeOK
<1> QED BY <1>2, <1>3, <1>4

LEMMA StopInv ==
  ASSUME IInv, Abort \/ ForeignKeyFails
  PROVE  IInv'
<1>1. sync' = NoSync
  BY DEF Abort, ForeignKeyFails
<1>2. NoSync.pc = "idle"
  BY DEF NoSync
<1> QED BY <1>1, <1>2, NoSyncType, ShrinkInv DEF Abort, ForeignKeyFails, IInv, TypeOK, sql

-----------------------------------------------------------------------------
\* Advance goes on with fewer rows, or ends.
LEMMA AdvanceType ==
  ASSUME TypeOK, sync.todo # <<>>, NEW rows \in SUBSET Row
  PROVE  /\ Advance(rows) \in SyncType /\ Advance(rows).pc # "upserted"
         /\ Advance(rows).pc = "embed" =>
              /\ Advance(rows).rows = rows /\ Advance(rows).batch = {}
              /\ Advance(rows).todo = sync.todo /\ Advance(rows).hit = sync.hit
<1>1. sync \in SyncType /\ Tail(sync.todo) \in Seq(Indexes)
  BY HereType DEF TypeOK
<1>2. CASE rows # {}
  <2>1. Advance(rows) = [sync EXCEPT !.pc = "embed", !.rows = rows, !.batch = {}]
    BY <1>2 DEF Advance
  <2> QED BY <1>1, <2>1 DEF SyncType
<1>3. CASE rows = {} /\ Tail(sync.todo) = <<>>
  <2>1. Advance(rows) = NoSync /\ NoSync.pc = "idle"
    BY <1>3 DEF Advance, NoSync
  <2> QED BY <2>1, NoSyncType
<1>4. CASE rows = {} /\ Tail(sync.todo) # <<>>
  <2>1. Advance(rows) = [sync EXCEPT !.pc = IF sync.rebuild THEN "clear" ELSE "reconcile",
                           !.todo = Tail(@), !.rows = {}, !.batch = {}, !.hit = {}]
    BY <1>4 DEF Advance
  <2>2. (IF sync.rebuild THEN "clear" ELSE "reconcile") \in {"clear", "reconcile"}
    OBVIOUS
  <2> QED BY <1>1, <2>1, <2>2 DEF SyncType
<1> QED BY <1>2, <1>3, <1>4

LEMMA MissingRowsAre ==
  ASSUME TypeOK, sync.todo # <<>>
  PROVE  /\ MissingRows \subseteq Row
         /\ \A r \in MissingRows : r.id \in Ids /\ r.id \notin mapped[here] /\ chunk[r.id] # None /\ chunk[r.id].text = r.text
         /\ \A r, s \in MissingRows : s.id = r.id => s = r
<1>1. \A i \in Eligible(here) : i \in Ids /\ chunk[i] # None
  BY DEF Eligible, Searchable
<1>2. \A i \in Eligible(here) : [id |-> i, text |-> chunk[i].text, course |-> CourseOf(i)] \in Row
  BY <1>1, CourseType DEF Row
<1> QED BY <1>1, <1>2 DEF MissingRows

LEMMA ReadMissingInv ==
  ASSUME IInv, ReadMissing
  PROVE  IInv'
<1> USE DEF IInv
<1>1. sync.todo # <<>> /\ sync' = [Advance(MissingRows) EXCEPT !.hit = {}]
      /\ chunk' = chunk /\ file' = file /\ mapped' = mapped /\ vec' = vec /\ search' = search /\ raced' = raced
  BY DEF ReadMissing, At, sql
<1>2. Advance(MissingRows) \in SyncType /\ Advance(MissingRows).pc # "upserted"
      /\ (Advance(MissingRows).pc = "embed" =>
             Advance(MissingRows).rows = MissingRows /\ Advance(MissingRows).batch = {}
             /\ Advance(MissingRows).todo = sync.todo)
  BY <1>1, MissingRowsAre, AdvanceType
<1>3. sync' \in SyncType /\ sync'.pc # "upserted"
      /\ (sync'.pc = "embed" => sync'.rows = MissingRows /\ sync'.batch = {} /\ sync'.todo = sync.todo)
  BY <1>1, <1>2 DEF SyncType
<1>4. TypeOK' /\ MappedVectorsAreCurrent' /\ MappedHaveChunks'
  BY <1>1, <1>3 DEF TypeOK, MappedVectorsAreCurrent, MappedHaveChunks
<1>5. RowsFaithful'
  BY <1>1, <1>3, MissingRowsAre DEF RowsFaithful, here
<1>6. HitsFaithful'
  BY <1>1, <1>3 DEF HitsFaithful
<1> QED BY <1>4, <1>5, <1>6

LEMMA BatchIs == \A rows \in SUBSET Row : FirstBatch(rows) \subseteq rows
  BY DEF FirstBatch

LEMMA UpsertInv ==
  ASSUME IInv, Upsert
  PROVE  IInv'
<1> USE DEF IInv
<1> DEFINE batch == FirstBatch(sync.rows)
           Of(i) == CHOOSE s \in batch : s.id = i
<1>1. /\ sync.pc = "embed" /\ sync.todo # <<>> /\ here \in Indexes /\ sync.rows \in SUBSET Row
      /\ chunk' = chunk /\ file' = file /\ mapped' = mapped /\ raced' = raced
  BY HereType DEF Upsert, At, TypeOK, SyncType, sql
<1>2. batch \subseteq sync.rows /\ \A i \in Ids : (\E r \in batch : r.id = i) => Of(i) \in batch /\ Of(i).id = i
  BY <1>1, BatchIs
<1> HIDE DEF batch
<1>3. vec' = [vec EXCEPT ![here] = [i \in Ids |-> IF \E r \in batch : r.id = i
                                     THEN [text |-> Of(i).text, course |-> Of(i).course] ELSE vec[here][i]]]
  BY DEF Upsert, batch
<1>4. /\ sync' = [sync EXCEPT !.pc = "upserted", !.batch = batch]
      /\ search' = [search EXCEPT !.quiet = FALSE, !.touched = @ \cup {r.id : r \in batch}]
  BY DEF Upsert, batch
<1>5. \A i \in Ids : (\E r \in batch : r.id = i) => [text |-> Of(i).text, course |-> Of(i).course] \in Vector
  BY <1>1, <1>2 DEF Row, Vector
<1>6. vec' \in [Indexes -> [Ids -> Vector \cup {None}]]
      /\ \A x \in Indexes, i \in Ids : (x # here \/ ~ \E r \in batch : r.id = i) => vec'[x][i] = vec[x][i]
  BY <1>1, <1>3, <1>5 DEF TypeOK
<1>7. \A r \in batch : r.id \in Ids /\ vec'[here][r.id] # None /\ vec'[here][r.id].text = r.text
  <2> SUFFICES ASSUME NEW r \in batch PROVE r.id \in Ids /\ vec'[here][r.id] # None /\ vec'[here][r.id].text = r.text
    OBVIOUS
  <2>1. r.id \in Ids /\ Of(r.id) = r
    BY <1>1, <1>2 DEF Row, RowsFaithful
  <2>2. vec'[here][r.id] = [text |-> r.text, course |-> r.course]
    BY <1>1, <1>3, <2>1 DEF TypeOK
  <2>3. [text |-> r.text, course |-> r.course] # None
    BY <1>5, <2>1 DEF Vector
  <2> QED BY <2>1, <2>2, <2>3
<1>8. sync' \in SyncType /\ sync'.pc = "upserted" /\ sync'.batch = batch /\ sync'.rows = sync.rows
      /\ sync'.todo = sync.todo /\ sync'.hit = sync.hit /\ here' = here
  BY <1>1, <1>2, <1>4 DEF TypeOK, SyncType, here
<1>9. search' \in SearchType /\ search'.pc = search.pc /\ search'.hits = search.hits
      /\ search'.touched = search.touched \cup {r.id : r \in batch}
  <2>1. {r.id : r \in batch} \in SUBSET Ids
    BY <1>7
  <2> HIDE DEF Ids
  <2> QED BY <1>4, <2>1 DEF TypeOK, SearchType
<1>10. TypeOK'
  BY <1>1, <1>6, <1>8, <1>9 DEF TypeOK
<1>11. \A x \in Indexes : \A i \in mapped[x] : i \in Ids /\ vec'[x][i] = vec[x][i]
  <2> SUFFICES ASSUME NEW x \in Indexes, NEW i \in mapped[x] PROVE i \in Ids /\ vec'[x][i] = vec[x][i]
    OBVIOUS
  <2>1. i \in Ids
    BY DEF TypeOK
  <2>2. x # here \/ ~ \E r \in batch : r.id = i
    BY <1>1, <1>2 DEF RowsFaithful
  <2> QED BY <1>6, <2>1, <2>2
<1>12. MappedVectorsAreCurrent' /\ MappedHaveChunks'
  BY <1>1, <1>11 DEF MappedVectorsAreCurrent, MappedHaveChunks
<1>13. RowsFaithful'
  BY <1>1, <1>2, <1>7, <1>8 DEF RowsFaithful
<1>14. HitsFaithful'
  BY <1>1, <1>8, <1>9 DEF HitsFaithful
<1> QED BY <1>10, <1>12, <1>13, <1>14

LEMMA CommitBatchInv ==
  ASSUME IInv, CommitBatch
  PROVE  IInv'
<1> USE DEF IInv
<1> DEFINE rest == sync.rows \ sync.batch
           new == {<<here, i>> : i \in Batched}
<1>1. /\ sync.pc = "upserted" /\ sync.todo # <<>> /\ here \in Indexes
      /\ sync.rows \in SUBSET Row /\ sync.batch \subseteq sync.rows
      /\ chunk' = chunk /\ file' = file /\ vec' = vec /\ \A i \in Batched : chunk[i] # None
  BY HereType DEF CommitBatch, At, TypeOK, SyncType, RowsFaithful
<1>2. /\ mapped' = [mapped EXCEPT ![here] = @ \cup Batched] /\ sync' = Advance(rest)
      /\ raced' = (raced \ new) \cup {<<here, i>> : i \in Batched \cap sync.hit}
      /\ search' \in SearchType /\ search'.pc = search.pc /\ search'.hits = search.hits /\ search'.touched = search.touched
  BY NoticesType DEF CommitBatch
<1>3. Batched \subseteq Ids /\ \A i \in Batched : \E r \in sync.batch : r.id = i
  BY <1>1 DEF Batched, Row
<1>4. /\ sync' \in SyncType /\ sync'.pc # "upserted"
      /\ sync'.pc = "embed" => sync'.rows = rest /\ sync'.batch = {} /\ sync'.todo = sync.todo /\ sync'.hit = sync.hit
  BY <1>1, <1>2, AdvanceType
<1>5. TypeOK'
  BY <1>1, <1>2, <1>3, <1>4 DEF TypeOK
<1>6. \A x \in Indexes : \A i \in mapped'[x] :
        \/ i \in mapped[x] /\ (<<x, i>> \notin raced' => <<x, i>> \notin raced \/ (x = here /\ i \in Batched))
        \/ x = here /\ i \in Batched
  BY <1>1, <1>2 DEF TypeOK
<1>7. \A i \in Batched : <<here, i>> \notin raced' => i \notin sync.hit
  BY <1>2
<1>8. \A i \in Batched : i \notin sync.hit => vec[here][i] # None /\ chunk[i] # None /\ vec[here][i].text = chunk[i].text
  BY <1>1, <1>3 DEF RowsFaithful
<1>9. MappedVectorsAreCurrent' /\ MappedHaveChunks'
  BY <1>1, <1>6, <1>7, <1>8 DEF MappedVectorsAreCurrent, MappedHaveChunks
<1>10. RowsFaithful'
  <2> SUFFICES ASSUME sync'.pc = "embed" PROVE RowsFaithful'
    BY <1>4 DEF RowsFaithful
  <2>1. here' = here /\ mapped'[here] = mapped[here] \cup Batched
    BY <1>1, <1>2, <1>4 DEF here, TypeOK
  <2>2. \A r \in rest : r.id \notin Batched
    BY <1>1, <1>3 DEF RowsFaithful
  <2> QED BY <1>1, <1>4, <2>1, <2>2 DEF RowsFaithful
<1>11. HitsFaithful'
  <2> SUFFICES ASSUME NEW h \in search.hits, h.id \notin search.touched,
                      h.id \in mapped'[h.index], <<h.index, h.id>> \notin raced'
      PROVE chunk[h.id].text = h.text
    BY <1>1, <1>2, <1>4 DEF HitsFaithful
  <2>1. h.index \in Indexes /\ h.id \in Ids
    BY DEF TypeOK, SearchType
  <2>2. CASE h.index = here /\ h.id \in Batched
    <3>1. PICK r \in sync.batch : r.id = h.id
      BY <1>3, <2>2
    <3>2. r.text = h.text
      BY <1>1, <2>2, <3>1 DEF HitsFaithful
    <3>3. h.id \notin sync.hit
      BY <1>7, <2>2
    <3> QED BY <1>1, <3>1, <3>2, <3>3 DEF RowsFaithful
  <2>3. CASE ~ (h.index = here /\ h.id \in Batched)
    <3>1. h.id \in mapped[h.index] /\ <<h.index, h.id>> \notin raced
      BY <1>6, <2>1, <2>3
    <3> QED BY <3>1 DEF HitsFaithful
  <2> QED BY <2>2, <2>3
<1> QED BY <1>5, <1>9, <1>10, <1>11

-----------------------------------------------------------------------------
\* A hit carries the text of its vector.
LEMMA HitsAre ==
  ASSUME TypeOK, NEW x \in Indexes, NEW cs \in SUBSET Courses, NEW starved \in BOOLEAN, NEW h \in Hits(x, cs, starved)
  PROVE  h \in [id : Ids, index : Indexes, text : Texts] /\ h.index = x /\ vec[x][h.id] # None /\ vec[x][h.id].text = h.text
<1>1. h \in Matching(x, cs)
  BY DEF Hits, Nearest
<1>2. PICK i \in Ids : vec[x][i] # None /\ h = [id |-> i, index |-> x, text |-> vec[x][i].text]
  BY <1>1 DEF Matching, Present
<1>3. vec[x][i] \in Vector
  BY <1>2 DEF TypeOK
<1> QED BY <1>2, <1>3 DEF Vector

LEMMA QueryInv ==
  ASSUME IInv, NEW s \in Scopes, NEW starved \in BOOLEAN, Query(s.indexes, s.courses, starved)
  PROVE  IInv'
<1> USE DEF IInv
<1> DEFINE cs == Canonical(s.courses)
           hits == Candidates(UNION {Hits(x, cs, starved) : x \in Asked(s.indexes)})
           quiet == Bearable(s.indexes, cs, starved)
<1>1. s.indexes \in SUBSET Indexes /\ cs \in SUBSET Courses /\ Asked(s.indexes) \subseteq s.indexes
  BY ScopeAssumption DEF Canonical, Asked
<1>2. \A h \in hits : h \in [id : Ids, index : Indexes, text : Texts] /\ vec[h.index][h.id] # None /\ vec[h.index][h.id].text = h.text
  BY <1>1, HitsAre DEF Candidates
<1>3. search' = [NoSearch EXCEPT !.pc = "hydrate", !.indexes = s.indexes, !.courses = cs, !.hits = hits, !.quiet = quiet]
      /\ chunk' = chunk /\ file' = file /\ mapped' = mapped /\ vec' = vec /\ sync' = sync /\ raced' = raced
  BY DEF Query, sql
<1> HIDE DEF hits, quiet, cs
<1>4. quiet \in BOOLEAN
  BY DEF quiet, Bearable
<1>5. search' \in SearchType /\ search'.hits = hits
  BY <1>1, <1>2, <1>3, <1>4 DEF NoSearch, SearchType
<1>6. TypeOK' /\ MappedVectorsAreCurrent' /\ MappedHaveChunks'
  BY <1>3, <1>5 DEF TypeOK, MappedVectorsAreCurrent, MappedHaveChunks
<1>7. RowsFaithful'
  BY <1>3 DEF RowsFaithful, here
<1>8. HitsFaithful'
  <2> SUFFICES ASSUME NEW h \in hits
      PROVE /\ h.id \in mapped[h.index] /\ <<h.index, h.id>> \notin raced => chunk[h.id].text = h.text
            /\ sync.pc = "upserted" /\ h.index = here => \A r \in sync.batch : r.id = h.id => r.text = h.text
    BY <1>3, <1>5 DEF HitsFaithful, here
  <2>1. h.id \in Ids /\ h.index \in Indexes /\ vec[h.index][h.id] # None /\ vec[h.index][h.id].text = h.text
    BY <1>2
  <2> QED BY <2>1 DEF MappedVectorsAreCurrent, RowsFaithful
<1> QED BY <1>6, <1>7, <1>8

LEMMA HydrateInv ==
  ASSUME IInv, Hydrate
  PROVE  IInv'
<1>1. search' = NoSearch /\ NoSearch.hits = {}
  BY DEF Hydrate, NoSearch
<1> QED BY <1>1, NoSearchType DEF Hydrate, IInv, TypeOK, MappedVectorsAreCurrent, MappedHaveChunks,
           RowsFaithful, HitsFaithful, here, sql

LEMMA NextInv == IInv /\ [Next]_vars => IInv'
<1> SUFFICES ASSUME IInv, [Next]_vars PROVE IInv'
  OBVIOUS
<1>1. CASE UNCHANGED vars
  <2>1. chunk' = chunk /\ file' = file /\ mapped' = mapped /\ vec' = vec /\ sync' = sync /\ search' = search
        /\ raced' = raced
    BY <1>1 DEF vars, sql
  <2>2. TypeOK' /\ MappedVectorsAreCurrent' /\ MappedHaveChunks'
    BY <2>1 DEF IInv, TypeOK, MappedVectorsAreCurrent, MappedHaveChunks
  <2>3. RowsFaithful' /\ HitsFaithful'
    BY <2>1 DEF IInv, RowsFaithful, HitsFaithful, here
  <2> QED BY <2>2, <2>3 DEF IInv
<1>2. CASE SyncStep
  BY <1>2, ClearInv, ReconcileInv, ReadMissingInv, UpsertInv, CommitBatchInv, StopInv DEF SyncStep
<1>3. CASE \E f \in Files, t \in Texts, i \in Ids : Extract(f, t, i)
  BY <1>3, ExtractInv
<1>4. CASE \E f \in Files : ExtractNothing(f)
  BY <1>4, ExtractNothingInv
<1>5. CASE \E f \in Files, indexed \in BOOLEAN, c \in Courses : Inventory(f, indexed, c)
  BY <1>5, InventoryInv
<1>6. CASE \E s \in Selections, rebuild \in BOOLEAN : BeginSync(s, rebuild)
  BY <1>6, BeginSyncInv
<1>7. CASE \E s \in Scopes, starved \in BOOLEAN : Query(s.indexes, s.courses, starved)
  BY <1>7, QueryInv
<1>8. CASE Abort \/ Hydrate
  BY <1>8, StopInv, HydrateInv
<1> QED BY <1>1, <1>2, <1>3, <1>4, <1>5, <1>6, <1>7, <1>8 DEF Next

-----------------------------------------------------------------------------
\* The inductive invariant of the vector index, for any corpus and any history.
THEOREM VectorInvariant == Spec => []IInv
  BY InitInv, NextInv, PTL DEF Spec

\* _embed_missing_chunks: a mapped vector embeds its chunk's text, unless an extraction replaced the
\* chunk between its reading and the commit of its mapping.
THEOREM VectorsAreCurrent == Spec => []MappedVectorsAreCurrent
<1>1. IInv => MappedVectorsAreCurrent
  BY DEF IInv
<1> QED BY <1>1, VectorInvariant, PTL

\* semantic_search_many: a chunk is ranked by the text shown for it, unless it was so replaced, or
\* replaced or embedded between the query of Chroma and the reading of its row.
THEOREM SearchRanksItsText == Spec => []RankedByItsText
<1>1. IInv => RankedByItsText
  <2> SUFFICES ASSUME IInv, NEW r \in Results,
                      <<r.index, r.id>> \notin raced, r.id \notin search.touched
      PROVE r.scored = r.text
    BY DEF RankedByItsText
  <2>1. PICK h \in search.hits : Hydrated(h) /\ r = [id |-> h.id, index |-> h.index, scored |-> h.text, text |-> chunk[h.id].text]
    BY DEF Results, Nearest
  <2>2. h.id \in mapped[h.index]
    BY <2>1 DEF Hydrated
  <2> QED BY <2>1, <2>2 DEF IInv, HitsFaithful
<1> QED BY <1>1, VectorInvariant, PTL
-----------------------------------------------------------------------------
HIDE VectorAssumption

Members(s) == {s[k] : k \in 1..Len(s)}

\* The mappings of the collection are current, and their vectors carry the courses of their chunks.
Sound(x) == /\ mapped[x] \subseteq Eligible(x) /\ mapped[x] \subseteq Present(x)
            /\ \A i \in mapped[x] : vec[x][i].course = CourseOf(i)

\* Rows are what the index at hand lacks, with the courses of their chunks.
Lacking(x, rows) == /\ {r.id : r \in rows} = Eligible(x) \ mapped[x]
                    /\ \A r \in rows : r.course = CourseOf(r.id)

\* What an undisturbed synchronization has established: the indexes behind it are exact, and the one
\* at hand is as far as its phase says.
SyncInv ==
  sync.quiet =>
    /\ sync.pc # "idle"
    /\ \A x \in Members(sync.selected) \ Members(sync.todo) : Exact(x)
    /\ sync.pc \in {"vectors", "commit"} =>
         /\ sync.expected = mapped[here] \cap Eligible(here)
         /\ sync.stale = mapped[here] \ Eligible(here)
    /\ sync.pc = "commit" =>
         /\ Present(here) \subseteq sync.expected
         /\ sync.missing = sync.expected \ Present(here)
    /\ sync.pc \in {"read", "embed", "upserted"} => Sound(here)
    /\ sync.pc \in {"read", "embed"} => Present(here) = mapped[here]
    /\ sync.pc \in {"embed", "upserted"} => Lacking(here, sync.rows)
    /\ sync.pc = "upserted" =>
         /\ Present(here) = mapped[here] \cup Batched
         /\ \A r \in sync.batch : vec[here][r.id].course = r.course

LEMMA ListMembers ==
  ASSUME NEW s \in Seq(Indexes)
  PROVE  /\ Members(s) \subseteq Indexes
         /\ s # <<>> => Head(s) \in Members(s) /\ Members(s) \subseteq Members(Tail(s)) \cup {Head(s)}
<1> HIDE DEF Indexes
<1>1. Members(s) \subseteq Indexes
  <2>1. \A k \in 1..Len(s) : s[k] \in Indexes
    OBVIOUS
  <2> QED BY <2>1, Zenon DEF Members
<1>2. ASSUME s # <<>> PROVE Head(s) \in Members(s) /\ Members(s) \subseteq Members(Tail(s)) \cup {Head(s)}
  <2>1. Len(s) \in Nat \ {0} /\ Head(s) = s[1] /\ Len(Tail(s)) = Len(s) - 1
        /\ \A k \in 1..Len(Tail(s)) : Tail(s)[k] = s[k + 1]
    BY <1>2
  <2>2. ASSUME NEW k \in 1..Len(s), k # 1 PROVE s[k] \in Members(Tail(s))
    <3>1. k - 1 \in 1..Len(Tail(s)) /\ Tail(s)[k - 1] = s[k - 1 + 1] /\ k - 1 + 1 = k
      BY <2>1, <2>2
    <3> QED BY <3>1 DEF Members
  <2>3. 1 \in 1..Len(s)
    BY <2>1
  <2>4. Head(s) \in Members(s)
    BY <2>1, <2>3, Zenon DEF Members
  <2>5. ASSUME NEW x \in Members(s) PROVE x \in Members(Tail(s)) \cup {Head(s)}
    <3>1. PICK k \in 1..Len(s) : x = s[k]
      BY Zenon DEF Members
    <3>2. CASE k = 1
      BY <3>1, <3>2, <2>1
    <3>3. CASE k # 1
      BY <3>1, <3>3, <2>2
    <3> QED BY <3>2, <3>3
  <2> QED BY <2>4, <2>5
<1> QED BY <1>1, <1>2

LEMMA VectorsAreNot == \A v \in Vector : v # None
  BY VectorAssumption DEF Vector

\* Steps that leave the other collections alone keep the finished indexes exact.
LEMMA FinishedStay ==
  ASSUME TypeOK, SyncInv, sync.quiet, sync.todo # <<>>, chunk' = chunk, file' = file,
         \A x \in Indexes : x # here => mapped'[x] = mapped[x] /\ vec'[x] = vec[x]
  PROVE  \A x \in Members(sync.selected) \ Members(sync.todo) : Exact(x)'
<1> SUFFICES ASSUME NEW x \in Members(sync.selected), x \notin Members(sync.todo) PROVE Exact(x)'
  OBVIOUS
<1>1. sync.selected \in Seq(Indexes) /\ sync.todo \in Seq(Indexes)
  BY DEF TypeOK, SyncType
<1>2. x \in Indexes /\ x # here
  BY <1>1, ListMembers DEF here
<1>3. Exact(x) /\ mapped'[x] = mapped[x] /\ vec'[x] = vec[x]
  BY <1>2 DEF SyncInv
<1> QED BY <1>3 DEF Exact, Eligible, Searchable, Present, CourseOf

\* Advance over an index whose mappings are sound and have their vectors.
LEMMA AdvanceSync ==
  ASSUME TypeOK, SyncInv, sync.quiet, sync.todo # <<>>, NEW rows \in SUBSET Row,
         chunk' = chunk, file' = file, vec' = vec,
         \A x \in Indexes : x # here => mapped'[x] = mapped[x],
         NEW x0, x0 = here, Sound(x0)', Present(x0)' = mapped'[x0], Lacking(x0, rows)',
         sync' = Advance(rows) \/ sync' = [Advance(rows) EXCEPT !.hit = {}]
  PROVE  /\ SyncInv'
         /\ sync'.pc = "idle" => \A x \in Members(sync.selected) : Exact(x)'
<1>1. sync \in SyncType /\ sync.todo \in Seq(Indexes) /\ Tail(sync.todo) \in Seq(Indexes)
  BY HereType DEF TypeOK, SyncType
<1>2. \A x \in Members(sync.selected) \ Members(sync.todo) : Exact(x)'
  BY FinishedStay
<1>3. Members(sync.todo) \subseteq Members(Tail(sync.todo)) \cup {x0}
  BY <1>1, ListMembers DEF here
<1>a. Advance(rows) \in SyncType
  BY AdvanceType
<1>b. \A n \in SyncType : LET m == [n EXCEPT !.hit = {}]
                         IN m.pc = n.pc /\ m.rows = n.rows /\ m.todo = n.todo /\ m.selected = n.selected
  BY DEF SyncType
<1>c. /\ sync'.pc = Advance(rows).pc /\ sync'.rows = Advance(rows).rows
      /\ sync'.todo = Advance(rows).todo /\ sync'.selected = Advance(rows).selected
  <2>1. CASE sync' = Advance(rows)
    BY <2>1
  <2>2. CASE sync' = [Advance(rows) EXCEPT !.hit = {}]
    BY <1>a, <1>b, <2>2
  <2> QED BY <2>1, <2>2
<1>4. CASE rows # {}
  <2>1. Advance(rows) = [sync EXCEPT !.pc = "embed", !.rows = rows, !.batch = {}]
    BY <1>4 DEF Advance
  <2>2. sync'.pc = "embed" /\ sync'.rows = rows /\ sync'.todo = sync.todo /\ sync'.selected = sync.selected
    <3>1. LET n == [sync EXCEPT !.pc = "embed", !.rows = rows, !.batch = {}]
          IN n.pc = "embed" /\ n.rows = rows /\ n.todo = sync.todo /\ n.selected = sync.selected
      BY <1>1 DEF SyncType
    <3> QED BY <1>c, <2>1, <3>1
  <2>3. here' = x0
    BY <2>2 DEF here
  <2> QED BY <1>2, <2>2, <2>3 DEF SyncInv
<1>5. CASE rows = {}
  <2>1. Exact(x0)'
    BY <1>5 DEF Lacking, Exact, Sound
  <2>2. \A x \in Members(sync.selected) \ Members(Tail(sync.todo)) : Exact(x)'
    BY <1>2, <1>3, <2>1
  <2>3. CASE Tail(sync.todo) = <<>>
    <3>1. Advance(rows) = NoSync
      BY <1>5, <2>3 DEF Advance
    <3>2. ~ sync'.quiet
      BY <3>1 DEF NoSync
    <3>3. Members(Tail(sync.todo)) = {}
      BY <2>3 DEF Members
    <3> QED BY <2>2, <3>2, <3>3 DEF SyncInv
  <2>4. CASE Tail(sync.todo) # <<>>
    <3>1. Advance(rows) = [sync EXCEPT !.pc = IF sync.rebuild THEN "clear" ELSE "reconcile",
                             !.todo = Tail(@), !.rows = {}, !.batch = {}, !.hit = {}]
      BY <1>5, <2>4 DEF Advance
    <3>2. sync'.pc \in {"clear", "reconcile"} /\ sync'.todo = Tail(sync.todo) /\ sync'.selected = sync.selected
      BY <1>1, <1>c, <3>1 DEF SyncType
    <3> QED BY <2>2, <3>2 DEF SyncInv
  <2> QED BY <2>3, <2>4
<1> QED BY <1>4, <1>5

LEMMA ClearSync ==
  ASSUME TypeOK, SyncInv, ClearVectors \/ ClearMappings
  PROVE  SyncInv'
<1> SUFFICES ASSUME sync'.quiet PROVE SyncInv'
  BY DEF SyncInv
<1>1. sync \in SyncType /\ here \in Indexes /\ sync.todo # <<>>
  BY HereType DEF TypeOK, ClearVectors, ClearMappings, At
<1>2. /\ sync'.pc \in {"clear mappings", "reconcile"} /\ sync'.todo = sync.todo
      /\ sync'.selected = sync.selected /\ sync'.quiet = sync.quiet
  BY <1>1 DEF ClearVectors, ClearMappings, SyncType
<1>3. \A x \in Members(sync.selected) \ Members(sync.todo) : Exact(x)'
  BY <1>1, <1>2, FinishedStay DEF ClearVectors, ClearMappings, TypeOK, sql
<1> QED BY <1>2, <1>3 DEF SyncInv

LEMMA ReconcileSync ==
  ASSUME TypeOK, SyncInv, ReconcileRows \/ ReconcileVectors \/ ReconcileCommit
  PROVE  SyncInv'
<1> SUFFICES ASSUME sync'.quiet PROVE SyncInv'
  BY DEF SyncInv
<1>1. sync \in SyncType /\ here \in Indexes /\ sync.todo # <<>>
  BY HereType DEF TypeOK, ReconcileRows, ReconcileVectors, ReconcileCommit, At
<1>2. /\ sync'.pc \in {"vectors", "commit", "read"} /\ sync'.todo = sync.todo
      /\ sync'.selected = sync.selected /\ sync'.quiet = sync.quiet /\ chunk' = chunk /\ file' = file
  BY <1>1 DEF ReconcileRows, ReconcileVectors, ReconcileCommit, SyncType, sql
<1>3. \A x \in Members(sync.selected) \ Members(sync.todo) : Exact(x)'
  BY <1>1, <1>2, FinishedStay DEF ReconcileRows, ReconcileVectors, ReconcileCommit, TypeOK, sql
<1>4. PICK x0 \in Indexes : x0 = here /\ x0 = here'
  BY <1>1, <1>2 DEF here
<1>5. Eligible(x0)' = Eligible(x0) /\ \A i \in Ids : CourseOf(i)' = CourseOf(i)
  BY <1>2 DEF Eligible, Searchable, CourseOf
<1>6. CASE ReconcileRows
  <2>1. sync'.pc = "vectors" /\ sync'.expected = mapped[x0] \cap Eligible(x0) /\ sync'.stale = mapped[x0] \ Eligible(x0)
        /\ mapped' = mapped
    BY <1>1, <1>4, <1>6 DEF ReconcileRows, SyncType, sql
  <2> QED BY <1>2, <1>3, <1>4, <1>5, <2>1 DEF SyncInv
<1>7. CASE ReconcileVectors
  <2>1. sync.expected = mapped[x0] \cap Eligible(x0) /\ sync.stale = mapped[x0] \ Eligible(x0)
    BY <1>2, <1>4, <1>7 DEF SyncInv, ReconcileVectors, At
  <2>2. /\ sync'.pc = "commit" /\ sync'.expected = sync.expected /\ sync'.stale = sync.stale /\ mapped' = mapped
        /\ sync'.missing = sync.expected \ Present(x0)
    BY <1>1, <1>4, <1>7 DEF ReconcileVectors, SyncType, sql
  <2>3. vec'[x0] = [i \in Ids |-> IF i \in Ids \ sync.expected THEN None ELSE vec[x0][i]]
    BY <1>4, <1>7 DEF ReconcileVectors, TypeOK, NoneLeft
  <2>4. Present(x0)' = Present(x0) \cap sync.expected
    BY <2>3 DEF Present
  <2> QED BY <1>2, <1>3, <1>4, <1>5, <2>1, <2>2, <2>4 DEF SyncInv
<1>8. CASE ReconcileCommit
  <2>1. /\ sync.expected = mapped[x0] \cap Eligible(x0) /\ sync.stale = mapped[x0] \ Eligible(x0)
        /\ Present(x0) \subseteq sync.expected /\ sync.missing = sync.expected \ Present(x0)
    BY <1>2, <1>4, <1>8 DEF SyncInv, ReconcileCommit, At
  <2>2. sync'.pc = "read" /\ mapped'[x0] = mapped[x0] \ (sync.stale \cup sync.missing)
    BY <1>1, <1>4, <1>8 DEF ReconcileCommit, SyncType, TypeOK
  <2>3. mapped'[x0] = Present(x0)
    BY <2>1, <2>2
  <2>4. (mapped[x0] \cap Eligible(x0)) \cap (sync.expected \ sync.missing) = Present(x0)
    BY <2>1
  <2>5. vec'[x0] = [i \in Ids |-> IF i \in Present(x0) /\ vec[x0][i] # None
                                  THEN [vec[x0][i] EXCEPT !.course = CourseOf(i)] ELSE vec[x0][i]]
    BY <1>4, <1>8, <2>4 DEF ReconcileCommit, TypeOK, UpdatedCourses
  <2>6. \A i \in Present(x0) : i \in Ids /\ vec[x0][i] \in Vector /\ vec[x0][i] # None
                               /\ i \in Eligible(x0) /\ chunk[i] # None
    BY <1>4, <2>1 DEF Present, TypeOK, Eligible, Searchable
  <2>7. \A i \in Present(x0) : vec'[x0][i] = [vec[x0][i] EXCEPT !.course = CourseOf(i)]
                               /\ CourseOf(i) \in Courses
    BY <2>5, <2>6, CourseType
  <2>8. \A i \in Present(x0) : vec'[x0][i] \in Vector /\ vec'[x0][i].course = CourseOf(i)
    BY <2>6, <2>7 DEF Vector
  <2>9. \A i \in Present(x0) : vec'[x0][i] # None
    BY <2>8, VectorsAreNot
  <2>10. \A i \in Ids \ Present(x0) : vec'[x0][i] = None
    BY <2>5 DEF Present
  <2>11. Present(x0)' = Present(x0)
    BY <2>6, <2>9, <2>10 DEF Present
  <2>12. Sound(x0)'
    BY <1>5, <2>3, <2>6, <2>8, <2>11 DEF Sound
  <2> QED BY <1>2, <1>3, <1>4, <2>2, <2>3, <2>11, <2>12 DEF SyncInv
<1> QED BY <1>6, <1>7, <1>8

LEMMA ReadMissingSync ==
  ASSUME TypeOK, SyncInv, ReadMissing, sync.quiet
  PROVE  /\ SyncInv'
         /\ sync'.pc = "idle" => \A x \in Members(sync.selected) : Exact(x)'
<1>1. sync.pc = "read" /\ sync.todo # <<>> /\ here \in Indexes
      /\ chunk' = chunk /\ file' = file /\ mapped' = mapped /\ vec' = vec
  BY HereType DEF ReadMissing, At, sql
<1>2. PICK rows \in SUBSET Row : rows = MissingRows
  BY <1>1, MissingRowsAre
<1>3. PICK x0 \in Indexes : x0 = here
  BY <1>1
<1>4. Sound(x0) /\ Present(x0) = mapped[x0]
  BY <1>1, <1>3 DEF SyncInv
<1>5. Lacking(x0, rows)
  <2>1. rows = {[id |-> i, text |-> chunk[i].text, course |-> CourseOf(i)] : i \in Eligible(x0) \ mapped[x0]}
    BY <1>2, <1>3 DEF MissingRows
  <2>2. \A r \in rows : r.id \in Eligible(x0) \ mapped[x0] /\ r.course = CourseOf(r.id)
    BY <2>1
  <2>3. ASSUME NEW i \in Eligible(x0) \ mapped[x0] PROVE \E r \in rows : r.id = i
    <3>1. [id |-> i, text |-> chunk[i].text, course |-> CourseOf(i)] \in rows
      BY <2>1
    <3> QED BY <3>1
  <2> QED BY <2>2, <2>3 DEF Lacking
<1>6. Sound(x0)' /\ Present(x0)' = mapped'[x0] /\ Lacking(x0, rows)'
  BY <1>1, <1>4, <1>5 DEF Sound, Present, Lacking, Eligible, Searchable, CourseOf
<1>7. sync' = [Advance(rows) EXCEPT !.hit = {}]
  BY <1>2 DEF ReadMissing
<1> QED BY <1>1, <1>3, <1>6, <1>7, AdvanceSync

LEMMA UpsertSync ==
  ASSUME TypeOK, RowsFaithful, SyncInv, Upsert
  PROVE  SyncInv'
<1> SUFFICES ASSUME sync'.quiet PROVE SyncInv'
  BY DEF SyncInv
<1>1. sync \in SyncType /\ here \in Indexes /\ sync.todo # <<>> /\ sync.pc = "embed" /\ sync.rows \in SUBSET Row
  BY HereType DEF TypeOK, Upsert, At, SyncType
<1>2. PICK batch \in SUBSET Row : batch = FirstBatch(sync.rows)
  BY <1>1, BatchIs
<1>3. /\ sync'.pc = "upserted" /\ sync'.todo = sync.todo /\ sync'.batch = batch /\ sync'.rows = sync.rows
      /\ sync'.selected = sync.selected /\ sync'.quiet = sync.quiet
      /\ chunk' = chunk /\ file' = file /\ mapped' = mapped
  BY <1>1, <1>2 DEF Upsert, SyncType, sql
<1>4. \A x \in Members(sync.selected) \ Members(sync.todo) : Exact(x)'
  BY <1>1, <1>3, FinishedStay DEF Upsert, TypeOK
<1>5. PICK x0 \in Indexes : x0 = here /\ x0 = here'
  BY <1>1, <1>3 DEF here
<1>6. Eligible(x0)' = Eligible(x0) /\ \A i : CourseOf(i)' = CourseOf(i)
  BY <1>3 DEF Eligible, Searchable, CourseOf
<1>7. Sound(x0) /\ Present(x0) = mapped[x0] /\ Lacking(x0, sync.rows)
  BY <1>1, <1>3, <1>5 DEF SyncInv
<1>8. batch \subseteq sync.rows /\ \A r \in batch : r.id \in Ids /\ r \in Row /\ r.id \notin mapped[x0]
  BY <1>1, <1>2, <1>5, BatchIs DEF Row, RowsFaithful
<1>9. vec'[x0] = [i \in Ids |-> IF \E r \in batch : r.id = i
                                THEN LET r == CHOOSE s \in batch : s.id = i IN [text |-> r.text, course |-> r.course]
                                ELSE vec[x0][i]]
  BY <1>2, <1>5 DEF Upsert, TypeOK
<1>10. \A r \in batch : vec'[x0][r.id] = [text |-> r.text, course |-> r.course]
  <2> SUFFICES ASSUME NEW r \in batch PROVE vec'[x0][r.id] = [text |-> r.text, course |-> r.course]
    OBVIOUS
  <2>1. (CHOOSE s \in batch : s.id = r.id) = r
    <3>1. \A s \in batch : s.id = r.id => s = r
      BY <1>1, <1>8 DEF RowsFaithful
    <3> QED BY <3>1
  <2> QED BY <1>8, <1>9, <2>1
<1>11. \A r \in batch : vec'[x0][r.id] # None /\ vec'[x0][r.id].course = r.course
  <2> SUFFICES ASSUME NEW r \in batch PROVE vec'[x0][r.id] # None /\ vec'[x0][r.id].course = r.course
    OBVIOUS
  <2>1. PICK v \in Vector : v = [text |-> r.text, course |-> r.course]
    BY <1>8 DEF Row, Vector
  <2>2. v.course = r.course /\ v # None
    BY <2>1, VectorsAreNot
  <2>3. vec'[x0][r.id] = v
    BY <1>10, <2>1
  <2> QED BY <2>2, <2>3
<1>12. \A i \in Ids : (~ \E r \in batch : r.id = i) => vec'[x0][i] = vec[x0][i]
  BY <1>9
<1>13. Present(x0)' = mapped[x0] \cup {r.id : r \in batch}
  <2>1. \A i \in Ids : vec'[x0][i] # None <=> (i \in mapped[x0] \/ \E r \in batch : r.id = i)
    BY <1>7, <1>11, <1>12 DEF Present
  <2>2. mapped[x0] \subseteq Ids
    BY DEF TypeOK
  <2> QED BY <1>8, <2>1, <2>2 DEF Present
<1>14. Sound(x0)'
  <2>1. \A i \in mapped[x0] : i \in Ids /\ vec'[x0][i] = vec[x0][i]
    BY <1>8, <1>12 DEF TypeOK
  <2> QED BY <1>3, <1>6, <1>7, <1>13, <2>1 DEF Sound
<1>15. Lacking(x0, sync.rows)'
  BY <1>3, <1>6, <1>7 DEF Lacking
<1>16. Batched' = {r.id : r \in batch}
  BY <1>3 DEF Batched
<1> QED BY <1>3, <1>4, <1>5, <1>11, <1>13, <1>14, <1>15, <1>16 DEF SyncInv

LEMMA CommitBatchSync ==
  ASSUME TypeOK, RowsFaithful, SyncInv, CommitBatch, sync.quiet
  PROVE  /\ SyncInv'
         /\ sync'.pc = "idle" => \A x \in Members(sync.selected) : Exact(x)'
<1>1. sync.pc = "upserted" /\ sync.todo # <<>> /\ here \in Indexes /\ sync.rows \in SUBSET Row
      /\ chunk' = chunk /\ file' = file /\ vec' = vec
  BY HereType DEF CommitBatch, At, TypeOK, SyncType
<1>2. PICK x0 \in Indexes : x0 = here
  BY <1>1
<1>3. mapped' = [mapped EXCEPT ![x0] = @ \cup Batched]
  BY <1>2 DEF CommitBatch
<1>4. mapped'[x0] = mapped[x0] \cup Batched /\ \A x \in Indexes : x # here => mapped'[x] = mapped[x]
  BY <1>2, <1>3 DEF TypeOK
<1>5. /\ Sound(x0) /\ Lacking(x0, sync.rows) /\ Present(x0) = mapped[x0] \cup Batched
      /\ \A r \in sync.batch : vec[x0][r.id].course = r.course
  BY <1>1, <1>2 DEF SyncInv
<1>6. sync.batch \subseteq sync.rows /\ \A r, s \in sync.rows : s.id = r.id => s = r
  BY <1>1 DEF RowsFaithful
<1>7. PICK rest \in SUBSET Row : rest = sync.rows \ sync.batch
  BY <1>1
<1>8. Eligible(x0)' = Eligible(x0) /\ Present(x0)' = Present(x0) /\ \A i : CourseOf(i)' = CourseOf(i)
  BY <1>1 DEF Eligible, Searchable, CourseOf, Present
<1>9. Batched \subseteq Eligible(x0) /\ \A i \in Batched : \E r \in sync.batch : r.id = i
  BY <1>5, <1>6 DEF Batched, Lacking
<1>10. Sound(x0)' /\ Present(x0)' = mapped'[x0]
  <2>1. \A i \in Batched : vec[x0][i].course = CourseOf(i)
    BY <1>5, <1>6, <1>9 DEF Lacking
  <2> QED BY <1>1, <1>4, <1>5, <1>8, <1>9, <2>1 DEF Sound
<1>11. Lacking(x0, rest)'
  <2>1. {r.id : r \in rest} = {r.id : r \in sync.rows} \ Batched
    BY <1>6, <1>7 DEF Batched
  <2>2. {r.id : r \in rest} = Eligible(x0) \ mapped'[x0]
    BY <1>4, <1>5, <2>1 DEF Lacking
  <2> QED BY <1>5, <1>7, <1>8, <2>2 DEF Lacking
<1>12. sync' = Advance(rest)
  BY <1>7 DEF CommitBatch
<1> QED BY <1>1, <1>2, <1>4, <1>10, <1>11, <1>12, AdvanceSync

LEMMA SyncInvStep == IInv /\ SyncInv /\ [Next]_vars => SyncInv'
<1> SUFFICES ASSUME TypeOK, RowsFaithful, SyncInv, [Next]_vars PROVE SyncInv'
  BY DEF IInv
<1>1. CASE UNCHANGED <<chunk, file, mapped, vec, sync>>
  BY <1>1 DEF SyncInv, Exact, Sound, Lacking, Eligible, Searchable, Present, CourseOf, Batched, here
<1>2. CASE ~ sync'.quiet
  BY <1>2 DEF SyncInv
<1>3. CASE SyncStep
  <2>1. CASE ReadMissing \/ CommitBatch
    <3>1. sync \in SyncType /\ sync.todo # <<>>
      BY <2>1 DEF TypeOK, ReadMissing, CommitBatch, At
    <3>2. \A rows : Advance(rows).quiet => sync.quiet
      BY <3>1 DEF Advance, NoSync, SyncType
    <3>3. \A rows : [Advance(rows) EXCEPT !.hit = {}].quiet = Advance(rows).quiet
      BY <3>1 DEF Advance, NoSync, SyncType
    <3>4. sync'.quiet => sync.quiet
      BY <2>1, <3>2, <3>3 DEF ReadMissing, CommitBatch
    <3> QED BY <1>2, <2>1, <3>4, ReadMissingSync, CommitBatchSync
  <2>2. CASE ForeignKeyFails
    <3>1. ~ sync'.quiet
      BY <2>2 DEF ForeignKeyFails, NoSync
    <3> QED BY <1>2, <3>1
  <2> QED BY <1>3, <2>1, <2>2, ClearSync, ReconcileSync, UpsertSync DEF SyncStep
<1>4. CASE \E f \in Files, t \in Texts, i \in Ids : Extract(f, t, i)
  BY <1>2, <1>4 DEF Extract, Disturb, TypeOK, SyncType
<1>5. CASE \E f \in Files : ExtractNothing(f)
  BY <1>2, <1>5 DEF ExtractNothing, Disturb, TypeOK, SyncType
<1>6. CASE \E f \in Files, indexed \in BOOLEAN, c \in Courses : Inventory(f, indexed, c)
  BY <1>2, <1>6 DEF Inventory, Disturb, TypeOK, SyncType
<1>7. CASE \E s \in Selections, rebuild \in BOOLEAN : BeginSync(s, rebuild)
  <2>1. sync'.pc \in {"clear", "reconcile"} /\ sync'.selected = sync'.todo
    BY <1>7 DEF BeginSync, NoSync
  <2> QED BY <2>1 DEF SyncInv
<1>8. CASE Abort
  BY <1>2, <1>8 DEF Abort, NoSync
<1>9. CASE \E s \in Scopes, starved \in BOOLEAN : Query(s.indexes, s.courses, starved)
  BY <1>1, <1>9 DEF Query, sql
<1>10. CASE Hydrate
  BY <1>1, <1>10 DEF Hydrate, sql
<1>11. CASE UNCHANGED vars
  BY <1>1, <1>11 DEF vars, sql
<1> QED BY <1>3, <1>4, <1>5, <1>6, <1>7, <1>8, <1>9, <1>10, <1>11 DEF Next

\* No mapping of the collection was committed for a chunk replaced meanwhile.
Clean(x) == \A i \in mapped[x] : <<x, i>> \notin raced
Collected == sync.todo # <<>> /\ sync.pc \notin {"clear", "clear mappings"}

\* An undisturbed synchronization commits no such mapping, and a rebuild leaves none behind it.
CleanInv ==
  sync.quiet =>
    /\ sync.hit = {}
    /\ sync.rebuild => /\ \A x \in Members(sync.selected) \ Members(sync.todo) : Clean(x)
                       /\ Collected => Clean(here)

LEMMA MembersType == ASSUME TypeOK PROVE Members(sync.selected) \subseteq Indexes
BY ListMembers DEF TypeOK, SyncType

\* Steps that only take mappings away, within one index.
LEMMA CleanShrinks ==
  ASSUME TypeOK, CleanInv, sync.quiet, raced' = raced, \A x \in Indexes : mapped'[x] \subseteq mapped[x],
         sync'.hit = sync.hit, sync'.rebuild = sync.rebuild, sync'.selected = sync.selected,
         sync'.todo = sync.todo, Collected' => Collected
  PROVE  CleanInv'
<1>1. \A x \in Indexes : Clean(x) => Clean(x)'
  BY DEF Clean
<1>2. \A x \in Members(sync.selected) : Clean(x) => Clean(x)'
  BY <1>1, MembersType
<1>3. Collected' => sync.todo # <<>> /\ here' = here /\ here \in Indexes
  BY HereType DEF Collected, here
<1>4. sync.rebuild /\ Collected' => Clean(here)'
  <2> SUFFICES ASSUME sync.rebuild, Collected' PROVE Clean(here)'
    OBVIOUS
  <2>1. PICK x0 \in Indexes : x0 = here /\ x0 = here'
    BY <1>3
  <2>2. Clean(x0)
    BY <2>1 DEF CleanInv
  <2> QED BY <1>1, <2>1, <2>2 DEF Clean
<1> QED BY <1>2, <1>4 DEF CleanInv

\* Advance over an index whose mappings are clean.
LEMMA AdvanceClean ==
  ASSUME TypeOK, sync.quiet, sync.hit = {}, sync.todo # <<>>, NEW rows \in SUBSET Row, NEW x0, x0 = here,
         sync.rebuild => \A x \in Members(sync.selected) \ Members(sync.todo) : Clean(x)',
         sync.rebuild => Clean(x0)',
         sync' = Advance(rows) \/ sync' = [Advance(rows) EXCEPT !.hit = {}]
  PROVE  /\ CleanInv'
         /\ sync'.pc = "idle" /\ sync.rebuild => \A x \in Members(sync.selected) : Clean(x)'
<1>1. sync \in SyncType /\ sync.todo \in Seq(Indexes) /\ Advance(rows) \in SyncType
  BY AdvanceType DEF TypeOK, SyncType
<1>2. Members(sync.todo) \subseteq Members(Tail(sync.todo)) \cup {x0}
  BY <1>1, ListMembers DEF here
<1>3. \A n \in SyncType : LET m == [n EXCEPT !.hit = {}]
                          IN /\ m.pc = n.pc /\ m.todo = n.todo /\ m.selected = n.selected /\ m.rebuild = n.rebuild
                             /\ m.quiet = n.quiet /\ m.hit = {}
  BY DEF SyncType
<1>4. /\ sync'.pc = Advance(rows).pc /\ sync'.todo = Advance(rows).todo /\ sync'.selected = Advance(rows).selected
      /\ sync'.rebuild = Advance(rows).rebuild /\ sync'.quiet = Advance(rows).quiet
      /\ sync'.hit \in {Advance(rows).hit, {}}
  <2>1. CASE sync' = Advance(rows)
    BY <2>1
  <2>2. CASE sync' = [Advance(rows) EXCEPT !.hit = {}]
    BY <1>1, <1>3, <2>2
  <2> QED BY <2>1, <2>2
<1>5. CASE rows # {}
  <2>1. Advance(rows) = [sync EXCEPT !.pc = "embed", !.rows = rows, !.batch = {}]
    BY <1>5 DEF Advance
  <2>2. LET n == [sync EXCEPT !.pc = "embed", !.rows = rows, !.batch = {}]
        IN n.pc = "embed" /\ n.todo = sync.todo /\ n.selected = sync.selected /\ n.rebuild = sync.rebuild /\ n.hit = {}
    BY <1>1 DEF SyncType
  <2>3. /\ sync'.pc = "embed" /\ sync'.todo = sync.todo /\ sync'.selected = sync.selected
        /\ sync'.rebuild = sync.rebuild /\ sync'.hit = {}
    BY <1>4, <2>1, <2>2
  <2>4. here' = x0
    BY <2>3 DEF here
  <2> QED BY <2>3, <2>4 DEF CleanInv
<1>6. CASE rows = {}
  <2>1. sync.rebuild => \A x \in Members(sync.selected) \ Members(Tail(sync.todo)) : Clean(x)'
    BY <1>2
  <2>2. CASE Tail(sync.todo) = <<>>
    <3>1. ~ sync'.quiet
      BY <1>4, <1>6, <2>2 DEF Advance, NoSync
    <3>2. Members(Tail(sync.todo)) = {}
      BY <2>2 DEF Members
    <3> QED BY <2>1, <3>1, <3>2 DEF CleanInv
  <2>3. CASE Tail(sync.todo) # <<>>
    <3>1. Advance(rows) = [sync EXCEPT !.pc = IF sync.rebuild THEN "clear" ELSE "reconcile",
                             !.todo = Tail(@), !.rows = {}, !.batch = {}, !.hit = {}]
      BY <1>6, <2>3 DEF Advance
    <3>2. LET n == [sync EXCEPT !.pc = IF sync.rebuild THEN "clear" ELSE "reconcile",
                             !.todo = Tail(@), !.rows = {}, !.batch = {}, !.hit = {}]
          IN /\ n.pc = (IF sync.rebuild THEN "clear" ELSE "reconcile") /\ n.todo = Tail(sync.todo)
             /\ n.selected = sync.selected /\ n.rebuild = sync.rebuild /\ n.hit = {}
      BY <1>1 DEF SyncType
    <3>3. /\ sync'.pc = (IF sync.rebuild THEN "clear" ELSE "reconcile") /\ sync'.todo = Tail(sync.todo)
          /\ sync'.selected = sync.selected /\ sync'.rebuild = sync.rebuild /\ sync'.hit = {}
      BY <1>4, <3>1, <3>2
    <3> QED BY <2>1, <3>3 DEF CleanInv, Collected
  <2> QED BY <2>2, <2>3
<1> QED BY <1>5, <1>6

LEMMA ReadMissingClean ==
  ASSUME TypeOK, CleanInv, ReadMissing, sync.quiet
  PROVE  /\ CleanInv'
         /\ sync'.pc = "idle" /\ sync.rebuild => \A x \in Members(sync.selected) : Clean(x)'
<1>1. sync.pc = "read" /\ sync.todo # <<>> /\ mapped' = mapped /\ raced' = raced
      /\ sync' = [Advance(MissingRows) EXCEPT !.hit = {}]
  BY DEF ReadMissing, At, sql
<1>2. PICK rows, x0 : rows \in SUBSET Row /\ rows = MissingRows /\ x0 = here
  BY <1>1, MissingRowsAre
<1>3. \A x : Clean(x) => Clean(x)'
  BY <1>1 DEF Clean
<1>4. sync.rebuild => Clean(x0)'
  BY <1>1, <1>2, <1>3 DEF CleanInv, Collected
<1>5. sync.rebuild => \A x \in Members(sync.selected) \ Members(sync.todo) : Clean(x)'
  BY <1>3 DEF CleanInv
<1>6. sync.hit = {} /\ sync' = [Advance(rows) EXCEPT !.hit = {}]
  BY <1>1, <1>2 DEF CleanInv
<1> QED BY <1>1, <1>2, <1>4, <1>5, <1>6, AdvanceClean

LEMMA CommitBatchClean ==
  ASSUME TypeOK, RowsFaithful, CleanInv, CommitBatch, sync.quiet
  PROVE  /\ CleanInv'
         /\ sync'.pc = "idle" /\ sync.rebuild => \A x \in Members(sync.selected) : Clean(x)'
<1>1. sync.pc = "upserted" /\ sync.todo # <<>> /\ here \in Indexes /\ sync.rows \in SUBSET Row /\ sync.hit = {}
  BY HereType DEF CommitBatch, At, TypeOK, SyncType, CleanInv
<1>2. PICK x0 \in Indexes : x0 = here
  BY <1>1
<1>3. PICK rest, ids : rest \in SUBSET Row /\ rest = sync.rows \ sync.batch /\ ids = Batched
  BY <1>1
<1>4. /\ mapped' = [mapped EXCEPT ![x0] = @ \cup ids] /\ sync' = Advance(rest)
      /\ raced' = (raced \ {<<x0, i>> : i \in ids}) \cup {<<x0, i>> : i \in ids \cap {}}
  BY <1>1, <1>2, <1>3 DEF CommitBatch
<1>5. raced' = raced \ {<<x0, i>> : i \in ids}
  BY <1>4
<1>6. \A x \in Indexes : x # x0 => mapped'[x] = mapped[x]
  BY <1>4 DEF TypeOK
<1>7. \A x \in Indexes : Clean(x) => Clean(x)'
  <2> SUFFICES ASSUME NEW x \in Indexes, Clean(x), NEW i \in mapped'[x] PROVE <<x, i>> \notin raced'
    BY DEF Clean
  <2>1. CASE x = x0
    <3>1. i \in mapped[x0] \cup ids
      BY <1>4, <2>1 DEF TypeOK
    <3> QED BY <1>5, <2>1, <3>1 DEF Clean
  <2>2. CASE x # x0
    BY <1>5, <1>6, <2>2 DEF Clean
  <2> QED BY <2>1, <2>2
<1>8. sync.rebuild => Clean(x0)'
  BY <1>1, <1>2, <1>7 DEF CleanInv, Collected
<1>9. sync.rebuild => \A x \in Members(sync.selected) \ Members(sync.todo) : Clean(x)'
  BY <1>7, MembersType DEF CleanInv
<1> QED BY <1>1, <1>2, <1>3, <1>4, <1>8, <1>9, AdvanceClean

LEMMA CleanStep == IInv /\ CleanInv /\ [Next]_vars => CleanInv'
<1> SUFFICES ASSUME TypeOK, RowsFaithful, CleanInv, [Next]_vars PROVE CleanInv'
  BY DEF IInv
<1>1. CASE UNCHANGED <<mapped, sync, raced>>
  BY <1>1 DEF CleanInv, Clean, Collected, here
<1>2. CASE ~ sync'.quiet
  BY <1>2 DEF CleanInv
<1>3. sync \in SyncType
  BY DEF TypeOK
<1>4. CASE ReadMissing \/ CommitBatch
  <2>1. \A rows : Advance(rows).quiet => sync.quiet
    BY <1>3 DEF Advance, NoSync, SyncType
  <2>2. \A rows : [Advance(rows) EXCEPT !.hit = {}].quiet = Advance(rows).quiet
    BY <1>3 DEF Advance, NoSync, SyncType
  <2>3. sync'.quiet => sync.quiet
    BY <1>4, <2>1, <2>2 DEF ReadMissing, CommitBatch
  <2> QED BY <1>2, <1>4, <2>3, ReadMissingClean, CommitBatchClean
<1>5. CASE ForeignKeyFails \/ Abort
  BY <1>2, <1>5 DEF ForeignKeyFails, Abort, NoSync
<1>6. CASE ClearMappings
  <2>1. here \in Indexes /\ sync.todo # <<>> /\ raced' = raced /\ mapped' = [mapped EXCEPT ![here] = {}]
        /\ sync' = [sync EXCEPT !.pc = "reconcile"]
    BY <1>6, HereType DEF ClearMappings, At
  <2>2. PICK x0 \in Indexes : x0 = here
    BY <2>1
  <2>3. /\ sync'.todo = sync.todo /\ sync'.selected = sync.selected /\ sync'.quiet = sync.quiet
        /\ sync'.hit = sync.hit /\ sync'.rebuild = sync.rebuild
    BY <1>3, <2>1 DEF SyncType
  <2>4. \A x \in Indexes : Clean(x) => Clean(x)'
    BY <2>1 DEF TypeOK, Clean
  <2>5. Clean(x0)' /\ here' = x0
    BY <2>1, <2>2, <2>3 DEF TypeOK, Clean, here
  <2> QED BY <2>3, <2>4, <2>5, MembersType DEF CleanInv
<1>7. CASE ClearVectors \/ ReconcileRows \/ ReconcileVectors \/ ReconcileCommit \/ Upsert
  <2>1. here \in Indexes /\ raced' = raced
    BY <1>7, HereType DEF ClearVectors, ReconcileRows, ReconcileVectors, ReconcileCommit, Upsert, At
  <2>2. /\ sync'.todo = sync.todo /\ sync'.selected = sync.selected /\ sync'.quiet = sync.quiet
        /\ sync'.hit = sync.hit /\ sync'.rebuild = sync.rebuild
    BY <1>3, <1>7 DEF SyncType, ClearVectors, ReconcileRows, ReconcileVectors, ReconcileCommit, Upsert
  <2>3. Collected' => Collected
    BY <1>3, <1>7 DEF SyncType, Collected, ClearVectors, ReconcileRows, ReconcileVectors, ReconcileCommit, Upsert, At
  <2>4. \A x \in Indexes : mapped'[x] \subseteq mapped[x]
    BY <1>7, <2>1 DEF TypeOK, ClearVectors, ReconcileRows, ReconcileVectors, ReconcileCommit, Upsert, sql
  <2> QED BY <1>2, <2>1, <2>2, <2>3, <2>4, CleanShrinks
<1>8. CASE \E f \in Files, t \in Texts, i \in Ids : Extract(f, t, i)
  BY <1>2, <1>3, <1>8 DEF Extract, Disturb, SyncType
<1>9. CASE \E f \in Files : ExtractNothing(f)
  BY <1>2, <1>3, <1>9 DEF ExtractNothing, Disturb, SyncType
<1>10. CASE \E f \in Files, indexed \in BOOLEAN, c \in Courses : Inventory(f, indexed, c)
  BY <1>2, <1>3, <1>10 DEF Inventory, Disturb, SyncType
<1>11. CASE \E s \in Selections, rebuild \in BOOLEAN : BeginSync(s, rebuild)
  <2>1. PICK s \in Selections, rebuild \in BOOLEAN : BeginSync(s, rebuild)
    BY <1>11
  <2>2. /\ sync'.pc = (IF rebuild THEN "clear" ELSE "reconcile") /\ sync'.selected = sync'.todo
        /\ sync'.rebuild = rebuild /\ sync'.hit = {}
    BY <2>1 DEF BeginSync, NoSync
  <2> QED BY <2>2 DEF CleanInv, Collected
<1>12. CASE \/ UNCHANGED vars \/ Hydrate
            \/ \E s \in Scopes, starved \in BOOLEAN : Query(s.indexes, s.courses, starved)
  BY <1>1, <1>12 DEF Query, Hydrate, vars, sql
<1> QED BY <1>4, <1>5, <1>6, <1>7, <1>8, <1>9, <1>10, <1>11, <1>12 DEF Next, SyncStep

\* A synchronization that ends neither by a failure nor disturbed leaves its indexes exact.
LEMMA SyncEnds ==
  ASSUME IInv, SyncInv, CleanInv, aborts \in Nat, [Next]_vars,
         sync.pc \in {"read", "upserted"}, sync'.pc = "idle", aborts' = aborts, sync.quiet
  PROVE  \A x \in Members(sync.selected) : Exact(x)' /\ (sync.rebuild => Clean(x)')
<1>1. TypeOK /\ RowsFaithful
  BY DEF IInv
<1>2. CASE ReadMissing \/ CommitBatch
  BY <1>1, <1>2, ReadMissingSync, CommitBatchSync, ReadMissingClean, CommitBatchClean
<1>3. ~ ForeignKeyFails
  <2> SUFFICES ASSUME ForeignKeyFails PROVE FALSE
    OBVIOUS
  <2>1. PICK i \in Batched : chunk[i] = None
    BY DEF ForeignKeyFails
  <2>2. Batched \subseteq Eligible(here)
    BY <1>1 DEF ForeignKeyFails, At, SyncInv, RowsFaithful, Lacking, Batched
  <2> QED BY <2>1, <2>2 DEF Eligible, Searchable
<1>4. CASE UNCHANGED sync
  BY <1>4
<1>5. CASE sync'.pc = sync.pc
  BY <1>5
<1>6. ~ Abort
  BY DEF Abort
<1>7. ~ \E s \in Selections, rebuild \in BOOLEAN : BeginSync(s, rebuild)
  BY DEF BeginSync
<1>8. ASSUME NEW ids, Disturb(ids) PROVE sync'.pc = sync.pc
  BY <1>1, <1>8 DEF Disturb, TypeOK, SyncType
<1>9. ~ (ClearVectors \/ ClearMappings \/ ReconcileRows \/ ReconcileVectors \/ ReconcileCommit \/ Upsert)
  BY DEF ClearVectors, ClearMappings, ReconcileRows, ReconcileVectors, ReconcileCommit, Upsert, At
<1>10. CASE \E f \in Files, t \in Texts, i \in Ids : Extract(f, t, i)
  BY <1>5, <1>8, <1>10 DEF Extract
<1>11. CASE \E f \in Files : ExtractNothing(f)
  BY <1>5, <1>8, <1>11 DEF ExtractNothing
<1>12. CASE \E f \in Files, indexed \in BOOLEAN, c \in Courses : Inventory(f, indexed, c)
  BY <1>5, <1>8, <1>12 DEF Inventory
<1>13. CASE UNCHANGED vars
  BY <1>4, <1>13 DEF vars
<1>14. CASE Hydrate \/ \E s \in Scopes, starved \in BOOLEAN : Query(s.indexes, s.courses, starved)
  BY <1>4, <1>14 DEF Hydrate, Query
<1> QED BY <1>2, <1>3, <1>6, <1>7, <1>9, <1>10, <1>11, <1>12, <1>13, <1>14 DEF Next, SyncStep

LEMMA AbortsCount == aborts \in Nat /\ [Next]_vars => (aborts \in Nat)'
<1> SUFFICES ASSUME aborts \in Nat, [Next]_vars PROVE aborts' \in Nat
  OBVIOUS
<1>1. CASE Abort
  BY <1>1 DEF Abort
<1>2. CASE SyncStep
  BY <1>2 DEF SyncStep, ClearVectors, ClearMappings, ReconcileRows, ReconcileVectors, ReconcileCommit,
              ReadMissing, Upsert, CommitBatch, ForeignKeyFails, counts
<1>3. CASE \/ \E f \in Files, t \in Texts, i \in Ids : Extract(f, t, i)
           \/ \E f \in Files : ExtractNothing(f)
           \/ \E f \in Files, indexed \in BOOLEAN, c \in Courses : Inventory(f, indexed, c)
  BY <1>3 DEF Extract, ExtractNothing, Inventory
<1>4. CASE \/ \E s \in Selections, rebuild \in BOOLEAN : BeginSync(s, rebuild)
           \/ \E s \in Scopes, starved \in BOOLEAN : Query(s.indexes, s.courses, starved)
           \/ Hydrate \/ UNCHANGED vars
  BY <1>4 DEF BeginSync, Query, Hydrate, vars, counts
<1> QED BY <1>1, <1>2, <1>3, <1>4 DEF Next

\* The same, with the texts of the vectors.
LEMMA SyncEndsRepaired ==
  ASSUME IInv, SyncInv, CleanInv, aborts \in Nat, [Next]_vars, IInv',
         sync.pc \in {"read", "upserted"}, sync'.pc = "idle", aborts' = aborts, sync.quiet
  PROVE  \A x \in Members(sync.selected) :
           Exact(x)' /\ EmbedsNow(x, raced)' /\ (sync.rebuild => EmbedsNow(x, {})')
<1> SUFFICES ASSUME NEW x \in Members(sync.selected)
             PROVE  Exact(x)' /\ EmbedsNow(x, raced)' /\ (sync.rebuild => EmbedsNow(x, {})')
  OBVIOUS
<1>1. x \in Indexes
  BY MembersType DEF IInv
<1>2. Exact(x)' /\ (sync.rebuild => Clean(x)')
  BY SyncEnds
<1>3. \A i \in Eligible(x)' : i \in mapped'[x] /\ vec'[x][i] # None
  BY <1>2 DEF Exact, Present
<1>4. \A i \in Eligible(x)' : vec'[x][i].text = chunk'[i].text \/ <<x, i>> \in raced'
  BY <1>1, <1>3 DEF IInv, MappedVectorsAreCurrent
<1>5. sync.rebuild => \A i \in Eligible(x)' : <<x, i>> \notin raced'
  BY <1>2, <1>3 DEF Clean
<1> QED BY <1>2, <1>4, <1>5 DEF EmbedsNow

\* sync_chroma: a synchronization that neither fails nor is disturbed leaves the mappings and vectors
\* of its indexes exactly those of the current chunks, whatever earlier failures left behind.  The vectors
\* embed the current texts, but for mappings that an earlier, disturbed run committed for a chunk
\* replaced meanwhile; after a rebuild without exception.
THEOREM SyncRepairs == Spec => UndisturbedSyncRepairs
<1>1. Init => SyncInv /\ CleanInv /\ aborts \in Nat
  BY DEF Init, NoSync, SyncInv, CleanInv
<1>2. Spec => [](SyncInv /\ CleanInv /\ aborts \in Nat)
  BY <1>1, VectorInvariant, SyncInvStep, CleanStep, AbortsCount, PTL DEF Spec
<1>3. IInv /\ SyncInv /\ CleanInv /\ aborts \in Nat /\ [Next]_vars /\ IInv'
      => [sync.pc \in {"read", "upserted"} /\ sync'.pc = "idle" /\ aborts' = aborts /\ sync.quiet
          => \A x \in {sync.selected[k] : k \in 1..Len(sync.selected)} :
               Exact(x)' /\ EmbedsNow(x, raced)' /\ (sync.rebuild => EmbedsNow(x, {})')]_vars
  BY SyncEndsRepaired DEF Members
<1> QED BY <1>2, <1>3, VectorInvariant, PTL DEF Spec, UndisturbedSyncRepairs
-----------------------------------------------------------------------------
\* A set of natural numbers has a least element.
LEMMA LeastOf ==
  ASSUME NEW S \in SUBSET Nat, S # {}
  PROVE  \E k \in S : \A j \in S : k <= j
<1>1. PICK k \in S : \A j \in S : <<j, k>> \notin OpToRel(<, Nat)
  BY WFMin, NatLessThanWellFounded, Zenon
<1>2. \A j \in S : ~ (j < k)
  BY <1>1, Zenon DEF OpToRel
<1> QED BY <1>2

LEMMA SearchBounds == Limit \in Nat \ {0} /\ Overfetch \in Nat \ {0} /\ MaxId \in Nat /\ Distance \in [Texts -> Nat]
BY VectorAssumption

LEMMA NearerIsOrder ==
  ASSUME NEW g, NEW h, NEW k, {g.text, h.text, k.text} \subseteq Texts, {g.id, h.id, k.id} \subseteq Ids
  PROVE  /\ ~ Nearer(h, h)
         /\ Nearer(k, g) /\ Nearer(g, h) => Nearer(k, h)
BY SearchBounds DEF Nearer, Ids

\* Records of distinct ids are as many as their ids.
HaveIds(S) == (\A s \in S : s.id \in Ids) /\ (\A s, r \in S : s.id = r.id => s = r)

LEMMA CountByIds ==
  ASSUME NEW S, HaveIds(S)
  PROVE  /\ IsFiniteSet(S) /\ Cardinality(S) \in Nat
         /\ Cardinality(S) = Cardinality({s.id : s \in S})
<1> DEFINE T == {s.id : s \in S}
           f == [i \in T |-> CHOOSE s \in S : s.id = i]
<1>1. T \subseteq Ids /\ IsFiniteSet(Ids)
  BY SearchBounds, FS_Interval DEF HaveIds, Ids
<1>2. IsFiniteSet(T)
  BY <1>1, FS_Subset
<1>3. \A i \in T : f[i] \in S /\ f[i].id = i
  OBVIOUS
<1>4. \A s \in S : s.id \in T /\ f[s.id] = s
  BY <1>3 DEF HaveIds
<1>a. f = [i \in T |-> f[i]]
  OBVIOUS
<1> HIDE DEF T, f
<1>5. f \in Bijection(T, S)
  <2>1. f \in [T -> S]
    BY <1>3, <1>a
  <2>2. IsInjective(f)
    BY <1>3, <2>1 DEF IsInjective
  <2> QED BY <1>4, <2>1, <2>2 DEF Bijection, Injection, Surjection
<1>6. ExistsBijection(T, S)
  BY <1>5 DEF ExistsBijection
<1>7. IsFiniteSet(S) /\ Cardinality(S) = Cardinality(T)
  BY <1>2, <1>6, FS_Bijection
<1> QED BY <1>7, FS_CardinalityType DEF T

\* The nearest of a set are the nearest of any part of it that holds them.
LEMMA NearestOfPart ==
  ASSUME NEW M, HaveIds(M), \A m \in M : m.text \in Texts,
         NEW H \in SUBSET M, NEW n \in Nat, Nearest(M, n) \subseteq H
  PROVE  Nearest(H, n) = Nearest(M, n)
<1> DEFINE Ahead(h) == {g \in M : Nearer(g, h)}
           AheadH(h) == {g \in H : Nearer(g, h)}
<1>1. \A A \in SUBSET M : IsFiniteSet(A) /\ Cardinality(A) \in Nat
  <2>1. IsFiniteSet(M)
    BY CountByIds
  <2> QED BY <2>1, FS_Subset, FS_CardinalityType
<1>2. \A h : /\ Ahead(h) \in SUBSET M /\ AheadH(h) \in SUBSET Ahead(h)
             /\ IsFiniteSet(Ahead(h)) /\ Cardinality(Ahead(h)) \in Nat
             /\ IsFiniteSet(AheadH(h)) /\ Cardinality(AheadH(h)) \in Nat
  BY <1>1
<1>3. \A h : Cardinality(AheadH(h)) <= Cardinality(Ahead(h))
  BY <1>2, FS_Subset
<1>4. \A h : (h \in Nearest(M, n) <=> h \in M /\ Cardinality(Ahead(h)) < n)
             /\ (h \in Nearest(H, n) <=> h \in H /\ Cardinality(AheadH(h)) < n)
  BY DEF Nearest
<1>5. \A h \in Nearest(M, n) : h \in Nearest(H, n)
  <2> HIDE DEF Ahead, AheadH
  <2> QED BY <1>2, <1>3, <1>4
<1>6. ASSUME NEW h \in Nearest(H, n), h \notin Nearest(M, n) PROVE FALSE
  <2>1. h \in H /\ h \in M /\ Cardinality(AheadH(h)) < n /\ ~ (Cardinality(Ahead(h)) < n)
    BY <1>4, <1>6
  <2>2. Ahead(h) \ H # {}
    <3> SUFFICES ASSUME Ahead(h) \ H = {} PROVE FALSE
      OBVIOUS
    <3>1. Ahead(h) = AheadH(h)
      OBVIOUS
    <3>2. Cardinality(Ahead(h)) = Cardinality(AheadH(h))
      BY <3>1
    <3> HIDE DEF Ahead, AheadH
    <3> QED BY <2>1, <3>2
  <2> DEFINE Places == {Cardinality(Ahead(g)) : g \in Ahead(h) \ H}
  <2>3. PICK g \in Ahead(h) \ H : \A k \in Ahead(h) \ H : Cardinality(Ahead(g)) <= Cardinality(Ahead(k))
    <3>1. Places \in SUBSET Nat /\ Places # {}
      BY <1>2, <2>2
    <3>2. PICK p \in Places : \A q \in Places : p <= q
      <4> HIDE DEF Places
      <4> QED BY <3>1, LeastOf
    <3> QED BY <3>2
  <2>0. \A j, k, l \in M : ~ Nearer(j, j) /\ (Nearer(j, k) /\ Nearer(k, l) => Nearer(j, l))
    BY NearerIsOrder DEF HaveIds
  <2>4. \A k \in Ahead(g) : k \in Ahead(h) /\ Ahead(k) \subseteq Ahead(g) /\ k \notin Ahead(k)
    BY <2>0, <2>1
  <2>5. Ahead(g) \subseteq H
    <3> SUFFICES ASSUME NEW k \in Ahead(g), k \notin H PROVE FALSE
      OBVIOUS
    <3>1. Ahead(k) \in SUBSET Ahead(g) /\ Ahead(k) # Ahead(g) /\ k \in Ahead(h) \ H
      BY <2>4
    <3> HIDE DEF Ahead, AheadH
    <3>2. Cardinality(Ahead(k)) <= Cardinality(Ahead(g)) /\ Cardinality(Ahead(k)) # Cardinality(Ahead(g))
      BY <1>2, <3>1, FS_Subset
    <3>3. Cardinality(Ahead(g)) <= Cardinality(Ahead(k))
      BY <2>3, <3>1
    <3> QED BY <1>2, <3>2, <3>3
  <2>6. Ahead(g) \in SUBSET AheadH(h)
    BY <2>4, <2>5
  <2>7. g \in M /\ g \notin H
    BY <2>3
  <2> HIDE DEF Ahead, AheadH
  <2>8. Cardinality(Ahead(g)) <= Cardinality(AheadH(h))
    BY <1>2, <2>6, FS_Subset
  <2>9. g \in Nearest(M, n)
    BY <1>2, <1>4, <2>1, <2>7, <2>8
  <2> QED BY <2>7, <2>9
<1> QED BY <1>5, <1>6

-----------------------------------------------------------------------------
\* The chunks of the courses in the indexes, as hits and as rows.
Of(x, cs) == {i \in Eligible(x) : CourseOf(i) \in cs}
AllOf(xs, cs) == {i \in UNION {Eligible(x) : x \in xs} : CourseOf(i) \in cs}
Hit(i) == [id |-> i, index |-> IndexOf[chunk[i].file], text |-> chunk[i].text]
HitsOf(S) == {Hit(i) : i \in S}
RowOf(i) == [id |-> i, text |-> chunk[i].text]
RowsOf(S) == {RowOf(i) : i \in S}

LEMMA EligibleAre ==
  ASSUME TypeOK, NEW x, NEW i \in Eligible(x)
  PROVE  i \in Ids /\ chunk[i] # None /\ chunk[i].text \in Texts /\ IndexOf[chunk[i].file] = x
BY CourseType DEF Eligible, Searchable

LEMMA IdsAre ==
  ASSUME NEW S
  PROVE  {h.id : h \in {Hit(i) : i \in S}} = S /\ {r.id : r \in {RowOf(i) : i \in S}} = S
<1>1. \A i : Hit(i).id = i /\ RowOf(i).id = i
  BY DEF Hit, RowOf
<1> QED BY <1>1

\* Hits and rows of the same chunks rank alike.
LEMMA RowsRankAlike ==
  ASSUME NEW S \in SUBSET Ids, NEW n \in Nat
  PROVE  /\ HaveIds(HitsOf(S)) /\ HaveIds(RowsOf(S))
         /\ {h.id : h \in Nearest(HitsOf(S), n)} = {r.id : r \in Nearest(RowsOf(S), n)}
<1> DEFINE Ahead(i) == {j \in S : Nearer(RowOf(j), RowOf(i))}
<1>1. HaveIds(HitsOf(S)) /\ HaveIds(RowsOf(S))
  BY DEF HaveIds, HitsOf, RowsOf, Hit, RowOf
<1>2. \A i, j : Nearer(Hit(j), Hit(i)) <=> Nearer(RowOf(j), RowOf(i))
  BY DEF Nearer, Hit, RowOf
<1>3. ASSUME NEW i \in S
      PROVE  /\ Cardinality({g \in HitsOf(S) : Nearer(g, Hit(i))}) = Cardinality(Ahead(i))
             /\ Cardinality({g \in RowsOf(S) : Nearer(g, RowOf(i))}) = Cardinality(Ahead(i))
  <2> DEFINE G == {g \in HitsOf(S) : Nearer(g, Hit(i))}
             R == {g \in RowsOf(S) : Nearer(g, RowOf(i))}
  <2>1. HaveIds(G) /\ HaveIds(R)
    BY <1>1 DEF HaveIds
  <2>2. G = {Hit(j) : j \in Ahead(i)} /\ R = {RowOf(j) : j \in Ahead(i)}
    BY <1>2 DEF HitsOf, RowsOf
  <2>3. {g.id : g \in G} = Ahead(i) /\ {g.id : g \in R} = Ahead(i)
    <3> HIDE DEF G, R, Ahead
    <3> QED BY <2>2, IdsAre
  <2>4. Cardinality(G) = Cardinality({g.id : g \in G}) /\ Cardinality(R) = Cardinality({g.id : g \in R})
    <3> HIDE DEF G, R
    <3> QED BY <2>1, CountByIds
  <2> HIDE DEF Ahead
  <2> QED BY <2>3, <2>4
<1> HIDE DEF Ahead
<1>4. Nearest(HitsOf(S), n) = {Hit(i) : i \in {j \in S : Cardinality(Ahead(j)) < n}}
  BY <1>3 DEF Nearest, HitsOf
<1>5. Nearest(RowsOf(S), n) = {RowOf(i) : i \in {j \in S : Cardinality(Ahead(j)) < n}}
  BY <1>3 DEF Nearest, RowsOf
<1>6. {h.id : h \in Nearest(HitsOf(S), n)} = {j \in S : Cardinality(Ahead(j)) < n}
  BY <1>4, IdsAre
<1>7. {r.id : r \in Nearest(RowsOf(S), n)} = {j \in S : Cardinality(Ahead(j)) < n}
  BY <1>5, IdsAre
<1> QED BY <1>1, <1>6, <1>7

\* What a served index offers for courses: its chunks of them, and the vectors left behind.
LEMMA MatchingParts ==
  ASSUME IInv, NEW x \in Indexes, Served(x), NEW cs \in SUBSET Courses
  PROVE  /\ HitsOf(Of(x, cs)) \subseteq Matching(x, cs)
         /\ \A h \in Matching(x, cs) : h \in HitsOf(Of(x, cs)) \/ h.id \in Left(x, cs)
         /\ HaveIds(Matching(x, cs))
         /\ \A h \in Matching(x, cs) : h.text \in Texts /\ h.id \in Present(x)
<1>1. \A i \in Eligible(x) : /\ i \in Ids /\ IndexOf[chunk[i].file] = x
                             /\ i \in Present(x) /\ vec[x][i].course = CourseOf(i)
                             /\ vec[x][i].text = chunk[i].text
  <2> SUFFICES ASSUME NEW i \in Eligible(x)
      PROVE  /\ i \in Ids /\ IndexOf[chunk[i].file] = x
             /\ i \in Present(x) /\ vec[x][i].course = CourseOf(i)
             /\ vec[x][i].text = chunk[i].text
    OBVIOUS
  <2>1. i \in Ids /\ IndexOf[chunk[i].file] = x /\ chunk[i] # None /\ chunk[i].text \in Texts
    BY EligibleAre DEF IInv
  <2>2. CourseOf(i) \in Courses
    BY <2>1, CourseType DEF IInv
  <2>3. PICK v \in Vector : v = [text |-> chunk[i].text, course |-> CourseOf(i)]
    BY <2>1, <2>2 DEF Vector
  <2>4. vec[x][i] = v /\ v # None
    BY <2>3, VectorsAreNot DEF Served
  <2> QED BY <2>1, <2>3, <2>4 DEF Present
<1>2. \A i \in Present(x) : i \in Ids /\ vec[x][i].text \in Texts
  BY DEF Present, IInv, TypeOK, Vector
<1>3. \A h \in Matching(x, cs) : \E i \in Present(x) :
         vec[x][i].course \in cs /\ h = [id |-> i, index |-> x, text |-> vec[x][i].text]
  BY DEF Matching
<1>4. ASSUME NEW h \in Matching(x, cs) PROVE h \in HitsOf(Of(x, cs)) \/ h.id \in Left(x, cs)
  <2>1. PICK i \in Present(x) : vec[x][i].course \in cs /\ h = [id |-> i, index |-> x, text |-> vec[x][i].text]
    BY <1>3
  <2>2. CASE i \in Eligible(x)
    <3>1. i \in Of(x, cs) /\ h = Hit(i)
      BY <1>1, <2>1, <2>2 DEF Of, Hit
    <3> QED BY <3>1 DEF HitsOf
  <2>3. CASE i \notin Eligible(x)
    BY <2>1, <2>3 DEF Left
  <2> QED BY <2>2, <2>3
<1>5. ASSUME NEW h \in HitsOf(Of(x, cs)) PROVE h \in Matching(x, cs)
  <2>1. PICK i \in Of(x, cs) : h = Hit(i)
    BY DEF HitsOf
  <2>2. i \in Present(x) /\ vec[x][i].course \in cs /\ h = [id |-> i, index |-> x, text |-> vec[x][i].text]
    BY <1>1, <2>1 DEF Of, Hit
  <2> QED BY <2>2 DEF Matching
<1>6. HaveIds(Matching(x, cs)) /\ \A h \in Matching(x, cs) : h.text \in Texts /\ h.id \in Present(x)
  <2>1. \A h \in Matching(x, cs) : /\ h.id \in Present(x) /\ h.text = vec[x][h.id].text
                                   /\ h = [id |-> h.id, index |-> x, text |-> h.text]
    BY <1>3
  <2>2. \A g, h \in Matching(x, cs) : g.id = h.id => g = h
    BY <2>1
  <2> QED BY <1>2, <2>1, <2>2 DEF HaveIds
<1> QED BY <1>4, <1>5, <1>6

\* Chroma's hits on a served index hold the nearest chunks of the courses, if the vectors left behind are few.
LEMMA HitsHoldNearest ==
  ASSUME IInv, NEW x \in Indexes, Served(x), NEW cs \in SUBSET Courses, NEW starved \in BOOLEAN,
         Limit + Cardinality(Left(x, cs)) <= IF starved THEN Limit ELSE Overfetch * Limit
  PROVE  /\ Hits(x, cs, starved) \subseteq Matching(x, cs)
         /\ \A h \in HitsOf(Of(x, cs)) :
              Cardinality({g \in HitsOf(Of(x, cs)) : Nearer(g, h)}) < Limit => h \in Hits(x, cs, starved)
<1> DEFINE M == Matching(x, cs)
           L == HitsOf(Of(x, cs))
           D == {g \in M : g.id \in Left(x, cs)}
           p == Cardinality(Present(x))
           n == IF starved THEN Limit ELSE Overfetch * Limit
<1>1. L \subseteq M /\ M \subseteq L \cup D /\ HaveIds(M) /\ \A h \in M : h.text \in Texts /\ h.id \in Present(x)
  BY MatchingParts
<1>2. Present(x) \in SUBSET Ids /\ Left(x, cs) \in SUBSET Ids
  BY DEF Present, Left
<1>3. IsFiniteSet(Ids)
  BY SearchBounds, FS_Interval DEF Ids
<1>4. /\ IsFiniteSet(Present(x)) /\ p \in Nat
      /\ IsFiniteSet(Left(x, cs)) /\ Cardinality(Left(x, cs)) \in Nat
  BY <1>2, <1>3, FS_Subset, FS_CardinalityType
<1>5. D \in SUBSET M /\ {g.id : g \in D} \in SUBSET Left(x, cs) /\ HaveIds(D) /\ {g.id : g \in M} \in SUBSET Present(x)
  BY <1>1 DEF HaveIds
<1>6. Hits(x, cs, starved) = IF starved THEN Nearest(M, Limit) ELSE Nearest(M, Lesser(p, Overfetch * Limit))
  BY DEF Hits
<1>7. n \in Nat /\ Limit \in Nat /\ Limit + Cardinality(Left(x, cs)) <= n
  BY SearchBounds
<1>8. \A k : Nearest(M, k) \subseteq M
  BY DEF Nearest
<1> HIDE DEF M, L, D
<1>9. /\ IsFiniteSet(M) /\ Cardinality(M) \in Nat /\ Cardinality(M) <= p
      /\ IsFiniteSet(D) /\ Cardinality(D) \in Nat /\ Cardinality(D) <= Cardinality(Left(x, cs))
  <2>1. Cardinality(M) = Cardinality({g.id : g \in M}) /\ Cardinality(D) = Cardinality({g.id : g \in D})
        /\ IsFiniteSet(M) /\ IsFiniteSet(D) /\ Cardinality(M) \in Nat /\ Cardinality(D) \in Nat
    BY <1>1, <1>5, CountByIds
  <2>2. Cardinality({g.id : g \in M}) <= p /\ Cardinality({g.id : g \in D}) <= Cardinality(Left(x, cs))
    BY <1>4, <1>5, FS_Subset
  <2> QED BY <2>1, <2>2
<1>10. ASSUME NEW h \in L, Cardinality({g \in L : Nearer(g, h)}) < Limit PROVE h \in Hits(x, cs, starved)
  <2> DEFINE A == {g \in M : Nearer(g, h)}
             B == {g \in L : Nearer(g, h)}
  <2>1. h \in M /\ A \in SUBSET M /\ B \in SUBSET M /\ A \in SUBSET (B \cup D) /\ h \notin A
    <3>1. h \in M /\ h.text \in Texts /\ h.id \in Ids
      BY <1>1, <1>2
    <3> QED BY <1>1, <3>1, NearerIsOrder
  <2>2. h \in Nearest(M, Limit) <=> Cardinality(A) < Limit
    BY <2>1 DEF Nearest
  <2>3. h \in Nearest(M, Lesser(p, Overfetch * Limit)) <=> Cardinality(A) < Lesser(p, Overfetch * Limit)
    BY <2>1 DEF Nearest
  <2>4. Cardinality(B) < Limit
    BY <1>10
  <2> HIDE DEF A, B, p
  <2>5. /\ IsFiniteSet(A) /\ Cardinality(A) \in Nat /\ Cardinality(A) <= Cardinality(M) /\ Cardinality(A) # Cardinality(M)
        /\ IsFiniteSet(B) /\ Cardinality(B) \in Nat
    BY <1>9, <2>1, FS_Subset, FS_CardinalityType
  <2>6. Cardinality(A) <= Cardinality(B) + Cardinality(D)
    <3>1. IsFiniteSet(B \cup D) /\ IsFiniteSet(B \cap D)
          /\ Cardinality(B \cup D) = Cardinality(B) + Cardinality(D) - Cardinality(B \cap D)
      BY <1>9, <2>5, FS_Union, FS_Intersection
    <3>2. Cardinality(B \cap D) \in Nat /\ Cardinality(A) <= Cardinality(B \cup D)
      BY <2>1, <3>1, FS_Subset, FS_CardinalityType
    <3> QED BY <1>9, <2>5, <3>1, <3>2
  <2>7. Cardinality(A) < p
    BY <1>4, <1>9, <2>5
  <2>8. Cardinality(A) < n
    <3> HIDE DEF n
    <3> QED BY <1>4, <1>7, <1>9, <2>4, <2>5, <2>6
  <2>9. CASE starved
    BY <1>6, <2>2, <2>8, <2>9
  <2>10. CASE ~ starved
    <3>1. Cardinality(A) < Overfetch * Limit
      BY <2>8, <2>10
    <3>2. Cardinality(A) < Lesser(p, Overfetch * Limit)
      BY <2>7, <3>1 DEF Lesser
    <3> QED BY <1>6, <2>3, <2>10, <3>2
  <2> QED BY <2>9, <2>10
<1>11. Hits(x, cs, starved) \subseteq M
  BY <1>6, <1>8
<1> QED BY <1>10, <1>11 DEF M, L

Gathered(xs, cs, starved) == UNION {Hits(x, cs, starved) : x \in Asked(xs)}
Hydratable(h, xs, cs) ==
  h.id \in mapped[h.index] /\ CourseOf(h.id) \in cs /\ \E x \in xs : h.id \in Searchable(x)

\* The query: its candidates, hydrated and cut, are the nearest chunks of the indexes and courses.
LEMMA QueryIsExact ==
  ASSUME IInv, NEW xs \in SUBSET Indexes, NEW cs \in SUBSET Courses, NEW starved \in BOOLEAN,
         Bearable(xs, cs, starved),
         NEW H, H = Gathered(xs, cs, starved)
  PROVE  {h.id : h \in Nearest({h \in Candidates(H) : Hydratable(h, xs, cs)}, Limit)} = Reference(xs, cs)
<1> DEFINE S == AllOf(xs, cs)
           M == HitsOf(S)
           G == {h \in Candidates(H) : Hydratable(h, xs, cs)}
<1>1. TypeOK /\ Limit \in Nat
  BY SearchBounds DEF IInv
<1>2. \A x \in xs : /\ Served(x) /\ Hits(x, cs, starved) \subseteq Matching(x, cs)
                    /\ \A h \in HitsOf(Of(x, cs)) :
                         Cardinality({g \in HitsOf(Of(x, cs)) : Nearer(g, h)}) < Limit => h \in Hits(x, cs, starved)
  BY HitsHoldNearest DEF Bearable
<1>3. \A i \in S : \E x \in xs : i \in Of(x, cs)
  BY DEF AllOf, Of
<1>4. \A x \in xs : Of(x, cs) \subseteq S
  BY DEF AllOf, Of
<1>5. S \in SUBSET Ids
  BY <1>1, <1>3, EligibleAre DEF Of
<1>6. HaveIds(M) /\ HaveIds(RowsOf(S))
  BY <1>5, RowsRankAlike
<1>7. \A h \in M : h.text \in Texts
  <2>1. \A i \in S : chunk[i].text \in Texts
    BY <1>1, <1>3, EligibleAre DEF Of
  <2> HIDE DEF S
  <2> QED BY <2>1 DEF HitsOf, Hit
<1>8. \A x \in xs : HitsOf(Of(x, cs)) \subseteq M
  <2> HIDE DEF S
  <2> QED BY <1>4 DEF HitsOf
<1>9. ASSUME NEW h \in H PROVE h \in M \/ \A x \in xs : h.id \notin Searchable(x)
  <2>1. PICK x \in xs : h \in Hits(x, cs, starved)
    BY DEF Gathered, Asked
  <2>2. h \in HitsOf(Of(x, cs)) \/ h.id \in Left(x, cs)
    BY <1>2, <2>1, MatchingParts
  <2>3. \A y \in xs : Left(x, cs) \cap Searchable(y) = {}
    BY DEF Bearable
  <2> QED BY <1>8, <2>2, <2>3
<1> HIDE DEF S, M
<1>10. ASSUME NEW h \in M PROVE Hydratable(h, xs, cs)
  <2>1. PICK i \in S : h = Hit(i)
    BY DEF M, HitsOf
  <2>2. PICK x \in xs : i \in Of(x, cs)
    BY <1>3
  <2>3. Served(x) /\ i \in Eligible(x) /\ IndexOf[chunk[i].file] = x /\ CourseOf(i) \in cs
    BY <1>1, <1>2, <2>2, EligibleAre DEF Of
  <2>4. h.id = i /\ h.index = x
    BY <2>1, <2>3 DEF Hit
  <2> QED BY <2>3, <2>4 DEF Served, Eligible, Hydratable
<1>11. G \subseteq M
  BY <1>9 DEF Candidates, Hydratable
<1>12. ASSUME NEW h \in M, h \in H PROVE h \in G
  <2>1. Hydratable(h, xs, cs) /\ \E x \in xs : h.id \in Searchable(x)
    BY <1>10 DEF Hydratable
  <2>2. \A g \in H : g.id = h.id => g = h
    BY <1>6, <1>9, <2>1 DEF HaveIds
  <2> QED BY <1>12, <2>1, <2>2 DEF Candidates
<1>13. Nearest(M, Limit) \subseteq H
  <2> SUFFICES ASSUME NEW h \in Nearest(M, Limit) PROVE h \in H
    OBVIOUS
  <2>1. PICK i \in S : h = Hit(i)
    BY DEF Nearest, M, HitsOf
  <2>2. PICK x \in xs : i \in Of(x, cs)
    BY <1>3
  <2>3. h \in HitsOf(Of(x, cs))
    BY <2>1, <2>2 DEF HitsOf
  <2>4. x \in Asked(xs)
    <3>1. h \in Matching(x, cs) /\ x \in Indexes
      BY <1>2, <2>3, MatchingParts
    <3>2. h.id \in Present(x)
      BY <1>2, <3>1, MatchingParts
    <3> QED BY <3>2 DEF Asked
  <2> DEFINE A == {g \in HitsOf(Of(x, cs)) : Nearer(g, h)}
             B == {g \in M : Nearer(g, h)}
  <2>5. A \in SUBSET B /\ B \in SUBSET M
    BY <1>8
  <2>6. IsFiniteSet(M)
    BY <1>6, CountByIds
  <2>7. Cardinality(B) < Limit
    BY DEF Nearest
  <2>8. Cardinality(A) < Limit
    <3> HIDE DEF A, B
    <3>1. IsFiniteSet(B) /\ Cardinality(B) \in Nat /\ Cardinality(A) <= Cardinality(B) /\ Cardinality(A) \in Nat
      BY <2>5, <2>6, FS_Subset, FS_CardinalityType
    <3> QED BY <1>1, <2>7, <3>1
  <2> QED BY <1>2, <2>3, <2>4, <2>8 DEF Gathered
<1>14. Nearest(M, Limit) \subseteq G
  <2>1. \A h \in Nearest(M, Limit) : h \in M
    BY DEF Nearest
  <2> HIDE DEF G
  <2> QED BY <1>12, <1>13, <2>1
<1> HIDE DEF G
<1>15. Nearest(G, Limit) = Nearest(M, Limit)
  BY <1>1, <1>6, <1>7, <1>11, <1>14, NearestOfPart
<1>16. {h.id : h \in Nearest(M, Limit)} = {r.id : r \in Nearest(RowsOf(S), Limit)}
  BY <1>1, <1>5, RowsRankAlike DEF M
<1>17. Reference(xs, cs) = {r.id : r \in Nearest(RowsOf(S), Limit)}
  BY DEF Reference, RowsOf, RowOf, S, AllOf
<1> QED BY <1>15, <1>16, <1>17 DEF G

LEMMA QuerySearch ==
  ASSUME IInv, NEW s \in Scopes, NEW starved \in BOOLEAN, Query(s.indexes, s.courses, starved)
  PROVE  SearchIsExact'
<1> SUFFICES ASSUME search'.quiet
             PROVE  {r.id : r \in Results'} = (Reference(search.indexes, search.courses))'
  BY DEF SearchIsExact
<1>1. PICK xs \in SUBSET Indexes, cs \in SUBSET Courses : xs = s.indexes /\ cs = Canonical(s.courses)
  BY ScopeAssumption DEF Canonical
<1>2. PICK H : H = Gathered(xs, cs, starved)
  OBVIOUS
<1>3. PICK quiet \in BOOLEAN : quiet = Bearable(xs, cs, starved)
  BY DEF Bearable
<1>4. search' = [NoSearch EXCEPT !.pc = "hydrate", !.indexes = xs, !.courses = cs, !.hits = Candidates(H), !.quiet = quiet]
      /\ chunk' = chunk /\ file' = file /\ mapped' = mapped
  BY <1>1, <1>2, <1>3 DEF Query, Gathered, sql
<1>5. search'.indexes = xs /\ search'.courses = cs /\ search'.hits = Candidates(H) /\ search'.quiet = quiet
  BY <1>4 DEF NoSearch
<1>6. PICK L : L = {h \in Candidates(H) : Hydratable(h, xs, cs)}
  OBVIOUS
<1>7. {h.id : h \in Nearest(L, Limit)} = Reference(xs, cs)
  <2>1. Bearable(xs, cs, starved)
    BY <1>3, <1>5
  <2>2. {h.id : h \in Nearest({h \in Candidates(H) : Hydratable(h, xs, cs)}, Limit)} = Reference(xs, cs)
    BY <1>2, <2>1, QueryIsExact
  <2> QED BY <1>6, <2>2
<1>8. /\ \A x : Searchable(x)' = Searchable(x)
      /\ \A i : CourseOf(i)' = CourseOf(i)
      /\ Reference(xs, cs)' = Reference(xs, cs)
  BY <1>4 DEF Searchable, CourseOf, Reference, Eligible
<1>9. {h \in search'.hits : Hydrated(h)'} = L
  <2>1. \A h : Hydrated(h)' <=> Hydratable(h, xs, cs)
    BY <1>4, <1>5, <1>8 DEF Hydrated, Hydratable
  <2> QED BY <1>5, <1>6, <2>1
<1>10. Results' = {[id |-> h.id, index |-> h.index, scored |-> h.text, text |-> chunk[h.id].text] : h \in Nearest(L, Limit)}
  BY <1>4, <1>9 DEF Results
<1>11. {r.id : r \in Results'} = {h.id : h \in Nearest(L, Limit)}
  <2>1. PICK N, R : N = Nearest(L, Limit) /\ R = Results'
    OBVIOUS
  <2>2. R = {[id |-> h.id, index |-> h.index, scored |-> h.text, text |-> chunk[h.id].text] : h \in N}
    BY <1>10, <2>1
  <2>3. \A r \in R : \E h \in N : r.id = h.id
    BY <2>2
  <2>4. ASSUME NEW h \in N PROVE \E r \in R : r.id = h.id
    <3>1. PICK r \in R : r = [id |-> h.id, index |-> h.index, scored |-> h.text, text |-> chunk[h.id].text]
      BY <2>2
    <3> QED BY <3>1
  <2>5. {r.id : r \in R} = {h.id : h \in N}
    BY <2>3, <2>4
  <2> QED BY <2>1, <2>5
<1>12. (Reference(search.indexes, search.courses))' = Reference(xs, cs)'
  BY <1>5 DEF Reference
<1> QED BY <1>7, <1>8, <1>11, <1>12

\* Until its rows are read, whatever could disturb a search tells it.
LEMMA QuietSteps ==
  ASSUME TypeOK, [Next]_vars
  PROVE  \/ UNCHANGED <<chunk, file, mapped, search>>
         \/ search'.pc = "hydrate" => ~ search'.quiet
         \/ \E s \in Scopes, starved \in BOOLEAN : Query(s.indexes, s.courses, starved)
<1>1. search \in SearchType
  BY DEF TypeOK
<1>2. ASSUME NEW ids, Disturb(ids) PROVE ~ search'.quiet
  BY <1>1, <1>2 DEF Disturb, SearchType
<1>3. ASSUME SearchNotices PROVE ~ search'.quiet
  BY <1>1, <1>3 DEF SearchNotices, SearchType
<1>4. CASE Upsert
  BY <1>1, <1>4 DEF Upsert, SearchType
<1>5. CASE ClearVectors \/ ClearMappings \/ ReconcileVectors \/ ReconcileCommit \/ CommitBatch
  BY <1>3, <1>5 DEF ClearVectors, ClearMappings, ReconcileVectors, ReconcileCommit, CommitBatch
<1>6. CASE \/ ReconcileRows \/ ReadMissing \/ ForeignKeyFails \/ Abort \/ UNCHANGED vars
           \/ \E s \in Selections, rebuild \in BOOLEAN : BeginSync(s, rebuild)
  BY <1>6 DEF ReconcileRows, ReadMissing, ForeignKeyFails, Abort, BeginSync, vars, sql
<1>7. CASE \E f \in Files, t \in Texts, i \in Ids : Extract(f, t, i)
  BY <1>2, <1>7 DEF Extract
<1>8. CASE \E f \in Files : ExtractNothing(f)
  BY <1>2, <1>8 DEF ExtractNothing
<1>9. CASE \E f \in Files, indexed \in BOOLEAN, c \in Courses : Inventory(f, indexed, c)
  BY <1>2, <1>9 DEF Inventory
<1>10. CASE Hydrate
  BY <1>10 DEF Hydrate, NoSearch
<1> QED BY <1>4, <1>5, <1>6, <1>7, <1>8, <1>9, <1>10 DEF Next, SyncStep

LEMMA SearchStep == IInv /\ SearchIsExact /\ [Next]_vars => SearchIsExact'
<1> SUFFICES ASSUME IInv, SearchIsExact, [Next]_vars PROVE SearchIsExact'
  OBVIOUS
<1>1. CASE UNCHANGED <<chunk, file, mapped, search>>
  <2>1. chunk' = chunk /\ file' = file /\ mapped' = mapped /\ search' = search
    BY <1>1
  <2>2. \A h : Hydrated(h)' <=> Hydrated(h)
    BY <2>1 DEF Hydrated, Searchable, CourseOf
  <2>3. Results' = Results
    <3>1. {h \in search'.hits : Hydrated(h)'} = {h \in search.hits : Hydrated(h)}
      BY <2>1, <2>2
    <3> QED BY <2>1, <3>1 DEF Results
  <2>4. (Reference(search.indexes, search.courses))' = Reference(search.indexes, search.courses)
    BY <2>1 DEF Reference, Eligible, Searchable, CourseOf
  <2> QED BY <2>1, <2>3, <2>4 DEF SearchIsExact
<1>2. CASE search'.pc = "hydrate" => ~ search'.quiet
  BY <1>2 DEF SearchIsExact
<1> QED BY <1>1, <1>2, QuerySearch, QuietSteps DEF IInv

\* semantic_search_many: where every eligible chunk has a current vector, a search returns the nearest chunks
\* of its courses, although Chroma cuts the hits of each index before they are merged, joined with their
\* rows and filtered, as long as the vectors left behind are no more than it fetches beyond its limit and
\* bear no id of a searchable chunk.
THEOREM SearchesAreExact == Spec => []SearchIsExact
<1>1. Init => SearchIsExact
  BY DEF Init, NoSearch, SearchIsExact
<1> QED BY <1>1, VectorInvariant, SearchStep, PTL DEF Spec

-----------------------------------------------------------------------------
(* The registry of the embedding models, for any calls and profiles. *)

\* Nothing is built, cached or cleared when the process starts.
LEMMA RegistryInitInv == RegistryInit => RegistryInv
BY CallsAssumption DEF RegistryInit, RegistryInv, RegistryTypeOK, OneModelPerProfile, NoStaleFailure,
   BuilderAlone, ErrorsAreFresh, Calls, Ended

\* A step that touches no model, error or build lock, takes no call into
\* "building" and no preparation into "failed", and moves a preparation to
\* "model" only by clearing, keeps the invariant.
LEMMA QuietCallStep ==
  ASSUME RegistryInv, NEW c \in Calls, NEW where \in {"model", "clearing", "client", "opening"} \cup Ended,
         pc' = [pc EXCEPT ![c] = where], pc[c] # "building",
         UNCHANGED <<models, errors, buildLock, got, seen, since>>,
         chroma' \in {"none", "open", "failed"}, chromaLock' \in Calls \cup {NoCall},
         c \in Prepares => where \notin {"model", "failed"}
  PROVE  RegistryInv'
<1>1. RegistryTypeOK'
  BY DEF RegistryInv, RegistryTypeOK, Ended
<1>2. OneModelPerProfile' /\ BuilderAlone'
  BY DEF RegistryInv, RegistryTypeOK, OneModelPerProfile, BuilderAlone, Ended
<1>3. NoStaleFailure' /\ ErrorsAreFresh'
  BY DEF RegistryInv, RegistryTypeOK, NoStaleFailure, ErrorsAreFresh, Calls, Ended
<1> QED
  BY <1>1, <1>2, <1>3 DEF RegistryInv

\* The build lock makes a construction the only one of its profile, and a
\* preparation clears before it looks, so what it finds failed after it.
LEMMA RegistryStep == RegistryInv /\ [RegistryNext]_registryVars => RegistryInv'
<1> SUFFICES ASSUME RegistryInv, [RegistryNext]_registryVars PROVE RegistryInv'
  OBVIOUS
<1> USE CallsAssumption
<1>1. ASSUME NEW c \in Calls, StartCall(c) PROVE RegistryInv'
  <2>1. c \in Asks \/ (c \in Prepares /\ c \notin Asks)
    BY DEF Calls
  <2> QED
    BY <1>1, <2>1, QuietCallStep DEF StartCall, Goto, model, client, RegistryInv, RegistryTypeOK
<1>2. ASSUME NEW c \in Calls, ClearFailure(c) PROVE RegistryInv'
  <2> USE <1>2 DEF ClearFailure, Goto, client, RegistryInv
  <2>1. RegistryTypeOK'
    BY DEF RegistryTypeOK, Ended
  <2>2. OneModelPerProfile' /\ BuilderAlone'
    BY DEF RegistryTypeOK, OneModelPerProfile, BuilderAlone
  <2>3. NoStaleFailure' /\ ErrorsAreFresh'
    BY DEF RegistryTypeOK, NoStaleFailure, ErrorsAreFresh, Calls
  <2> QED
    BY <2>1, <2>2, <2>3
<1>3. ASSUME NEW c \in Calls, IndexUnavailable(c) PROVE RegistryInv'
  BY <1>3, QuietCallStep DEF IndexUnavailable, Goto, model, client, RegistryInv, RegistryTypeOK, Ended
<1>4. ASSUME NEW c \in Calls, RaiseCached(c) PROVE RegistryInv'
  <2> USE <1>4 DEF RaiseCached, Goto, client, model, RegistryInv
  <2>1. RegistryTypeOK'
    BY DEF RegistryTypeOK, Ended
  <2>2. OneModelPerProfile' /\ BuilderAlone'
    BY DEF RegistryTypeOK, OneModelPerProfile, BuilderAlone
  <2>3. NoStaleFailure' /\ ErrorsAreFresh'
    BY DEF RegistryTypeOK, NoStaleFailure, ErrorsAreFresh, Calls
  <2> QED
    BY <2>1, <2>2, <2>3
<1>5. ASSUME NEW c \in Calls, Reuse(c) PROVE RegistryInv'
  <2> USE <1>5 DEF Reuse, Goto, AfterModel, model, client, RegistryInv
  <2>1. RegistryTypeOK'
    BY DEF RegistryTypeOK, Ended
  <2>2. OneModelPerProfile' /\ BuilderAlone'
    BY DEF RegistryTypeOK, OneModelPerProfile, BuilderAlone
  <2>3. NoStaleFailure' /\ ErrorsAreFresh'
    BY DEF RegistryTypeOK, NoStaleFailure, ErrorsAreFresh, Calls
  <2> QED
    BY <2>1, <2>2, <2>3
<1>6. ASSUME NEW c \in Calls, BeginBuild(c) PROVE RegistryInv'
  <2> USE <1>6 DEF BeginBuild, BuildLockFree, Goto, client, RegistryInv
  <2>1. RegistryTypeOK'
    BY DEF RegistryTypeOK, Ended
  <2>2. OneModelPerProfile' /\ BuilderAlone'
    BY DEF RegistryTypeOK, OneModelPerProfile, BuilderAlone
  <2>3. NoStaleFailure' /\ ErrorsAreFresh'
    BY DEF RegistryTypeOK, NoStaleFailure, ErrorsAreFresh, Calls
  <2> QED
    BY <2>1, <2>2, <2>3
<1>7. ASSUME NEW c \in Calls, BuildOk(c) PROVE RegistryInv'
  <2> USE <1>7 DEF BuildOk, Goto, AfterModel, client, RegistryInv
  <2>1. RegistryTypeOK'
    BY DEF RegistryTypeOK, Ended
  <2>2. OneModelPerProfile' /\ BuilderAlone'
    BY DEF RegistryTypeOK, OneModelPerProfile, BuilderAlone
  <2>3. NoStaleFailure' /\ ErrorsAreFresh'
    BY DEF RegistryTypeOK, NoStaleFailure, ErrorsAreFresh, Calls
  <2> QED
    BY <2>1, <2>2, <2>3
<1>8. ASSUME NEW c \in Calls, BuildFails(c) PROVE RegistryInv'
  <2> USE <1>8 DEF BuildFails, Goto, client, RegistryInv
  <2>1. RegistryTypeOK'
    BY DEF RegistryTypeOK, Ended, Calls
  <2>2. OneModelPerProfile' /\ BuilderAlone'
    BY DEF RegistryTypeOK, OneModelPerProfile, BuilderAlone
  <2>3. NoStaleFailure' /\ ErrorsAreFresh'
    BY DEF RegistryTypeOK, NoStaleFailure, ErrorsAreFresh, Calls
  <2> QED
    BY <2>1, <2>2, <2>3
<1>9. ASSUME NEW c \in Calls, ClientCached(c) PROVE RegistryInv'
  <2>1. c \in Asks \/ (c \in Prepares /\ c \notin Asks)
    BY DEF Calls
  <2> QED
    BY <1>9, <2>1, QuietCallStep DEF ClientCached, Goto, AfterClient, model, client, RegistryInv, RegistryTypeOK, Ended
<1>10. ASSUME NEW c \in Calls, BeginOpen(c) PROVE RegistryInv'
  BY <1>10, QuietCallStep DEF BeginOpen, Goto, model, RegistryInv, RegistryTypeOK
<1>11. ASSUME NEW c \in Calls, OpenEnds(c) PROVE RegistryInv'
  <2>1. c \in Asks \/ (c \in Prepares /\ c \notin Asks)
    BY DEF Calls
  <2> QED
    BY <1>11, <2>1, QuietCallStep DEF OpenEnds, Goto, AfterClient, model, RegistryInv, RegistryTypeOK, Ended
<1>12. CASE UNCHANGED registryVars
  BY <1>12 DEF registryVars, model, client, RegistryInv, RegistryTypeOK, OneModelPerProfile, NoStaleFailure,
     BuilderAlone, ErrorsAreFresh
<1> QED
  BY <1>1, <1>2, <1>3, <1>4, <1>5, <1>6, <1>7, <1>8, <1>9, <1>10, <1>11, <1>12
  DEF RegistryNext, Step, Build, Quiescent

\* The inductive invariant holds of every behaviour of the registry.
THEOREM RegistryInvariant == RegistrySpec => []RegistryInv
BY RegistryInitInv, RegistryStep, PTL DEF RegistrySpec

\* No profile's model is ever built twice: all calls that get one share it.
THEOREM ModelIsShared == RegistrySpec => []OneModelPerProfile
<1>1. RegistryInv => OneModelPerProfile
  BY DEF RegistryInv
<1> QED
  BY <1>1, RegistryInvariant, PTL

\* What a preparation reports as failed did fail after its request began.
THEOREM FailureIsRecent == RegistrySpec => []NoStaleFailure
<1>1. RegistryInv => NoStaleFailure
  BY DEF RegistryInv
<1> QED
  BY <1>1, RegistryInvariant, PTL
=============================================================================

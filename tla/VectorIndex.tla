---------------------------- MODULE VectorIndex ----------------------------
(***************************************************************************)
(* The vector index (indexing/vector.py): SQLite holds the chunks and the  *)
(* mappings of table embeddings, Chroma holds the vectors, and no          *)
(* transaction spans both.  A synchronization is a sequence of commits, of *)
(* the one store and then of the other; extractions and inventories change *)
(* the chunks between any two of them, and it can fail after each.         *)
(*                                                                         *)
(* SQLite gives a new chunk the id after the largest in use, so ids are    *)
(* used again, and a vector's name, "chunk:<id>", with them.               *)
(***************************************************************************)
EXTENDS Naturals, Sequences, FiniteSets

CONSTANTS
  Files,       \* files with one chunk each
  IndexOf,     \* the logical index of a file's source type
  IndexOrder,  \* INDEX_TO_SOURCE_TYPE: the logical indexes in their order
  Texts, Blank,
  Courses,
  Distance,    \* of the text a vector embeds from the query of the search
  MaxId, BatchSize, Limit,
  Overfetch,   \* a filtered search asks for limit * 4 hits of each index
  Scopes,      \* the indexes and the names of courses that searches ask for
  Start,       \* the chunks and files before the first step
  MaxEdits, MaxAborts, MaxSearches, \* bounds: changes of chunks and files, failed synchronizations, searches
  None

Indexes == {IndexOrder[k] : k \in 1..Len(IndexOrder)}
Ids == 1..MaxId

ASSUME VectorAssumption ==
  /\ IndexOrder \in Seq(Indexes) /\ IndexOf \in [Files -> Indexes]
  /\ Blank \subseteq Texts /\ Distance \in [Texts -> Nat]
  /\ MaxId \in Nat /\ {BatchSize, Limit, Overfetch} \subseteq Nat \ {0}
  /\ {MaxEdits, MaxAborts, MaxSearches} \subseteq Nat
  /\ Start.chunk \in [Ids -> [file : Files, text : Texts] \cup {None}]
  /\ Start.file \in [Files -> [indexed : BOOLEAN, course : Courses]]
  /\ None \notin Courses \cup Texts /\ None \notin [file : Files, text : Texts]
  /\ None \notin [text : Texts, course : Courses]

ASSUME ScopeAssumption == \A s \in Scopes : s.indexes \subseteq Indexes

VARIABLES
  chunk,   \* table chunks: the file and text of each id
  file,    \* table files: is it 'indexed', and its course
  mapped,  \* table embeddings: the ids mapped in each physical collection
  vec,     \* Chroma: the text and course of each vector of each collection
  sync,    \* the synchronization
  search,  \* the search
  edits, aborts, searches,
  raced    \* ghost: mappings whose chunk was replaced between its reading and its commit

sql == <<chunk, file, mapped>>
counts == <<edits, aborts, searches>>
vars == <<sql, vec, sync, search, counts, raced>>

-----------------------------------------------------------------------------
NoSync == [pc |-> "idle", selected |-> <<>>, todo |-> <<>>, rebuild |-> FALSE, expected |-> {},
           stale |-> {}, missing |-> {}, rows |-> {}, batch |-> {}, hit |-> {}, quiet |-> FALSE]
NoSearch == [pc |-> "idle", indexes |-> {}, courses |-> {}, hits |-> {}, touched |-> {}, quiet |-> FALSE]

CourseOf(i) == file[chunk[i].file].course

\* current_chunk_where_sql, without and with the condition on the text.
Searchable(x) == {i \in Ids : /\ chunk[i] # None
                              /\ IndexOf[chunk[i].file] = x
                              /\ file[chunk[i].file].indexed}
Eligible(x) == {i \in Searchable(x) : chunk[i].text \notin Blank}
Present(x) == {i \in Ids : vec[x][i] # None}

\* Both stores agree with the chunks of an index.
Exact(x) == /\ mapped[x] = Eligible(x) /\ Present(x) = Eligible(x)
            /\ \A i \in Eligible(x) : vec[x][i].course = CourseOf(i)

At(pc) == sync.pc = pc /\ sync.todo # <<>>
here == Head(sync.todo)
Locked == sync.pc \in {"vectors", "commit"} /\ sync.stale # {}
NoneLeft(f) == [i \in Ids |-> IF i \in f THEN None ELSE vec[here][i]]

Init ==
  /\ chunk = Start.chunk /\ file = Start.file
  /\ \E embedded \in BOOLEAN : \* never synchronized, or exact
       /\ mapped = [x \in Indexes |-> IF embedded THEN Eligible(x) ELSE {}]
       /\ vec = [x \in Indexes |-> [i \in Ids |->
            IF i \in mapped[x] THEN [text |-> chunk[i].text, course |-> CourseOf(i)] ELSE None]]
  /\ sync = NoSync /\ search = NoSearch
  /\ edits = 0 /\ aborts = 0 /\ searches = 0 /\ raced = {}

-----------------------------------------------------------------------------
\* Other commands.  An extraction replaces the chunk of a file; the deletion cascades to its mappings.
Old(f) == {i \in Ids : chunk[i] # None /\ chunk[i].file = f}
IsFresh(i, used) == (\A j \in used : j < i) /\ (i = 1 \/ i - 1 \in used)

\* Mutant: the mappings of a deleted chunk stay.
CascadeKeeps(gone) == mapped

Cascade(gone) == [x \in Indexes |-> mapped[x] \ gone]

Disturb(ids) ==
  /\ edits < MaxEdits /\ edits' = edits + 1
  /\ ~ Locked
  /\ sync' = [sync EXCEPT !.quiet = FALSE, !.hit = @ \cup ids]
  /\ search' = [search EXCEPT !.quiet = FALSE, !.touched = @ \cup ids]

Extract(f, t, i) ==
  /\ IsFresh(i, {j \in Ids : chunk[j] # None} \ Old(f))
  /\ Disturb(Old(f))
  /\ chunk' = [j \in Ids |-> IF j = i THEN [file |-> f, text |-> t]
                             ELSE IF j \in Old(f) THEN None ELSE chunk[j]]
  /\ file' = [file EXCEPT ![f] = [indexed |-> TRUE, course |-> @.course]]
  /\ mapped' = Cascade(Old(f))
  /\ UNCHANGED <<vec, aborts, searches, raced>>

\* The extraction fails or finds no text.
ExtractNothing(f) ==
  /\ Disturb(Old(f))
  /\ chunk' = [j \in Ids |-> IF j \in Old(f) THEN None ELSE chunk[j]]
  /\ file' = [file EXCEPT ![f] = [indexed |-> FALSE, course |-> @.course]]
  /\ mapped' = Cascade(Old(f))
  /\ UNCHANGED <<vec, aborts, searches, raced>>

\* An inventory changes a file's status or its course.
Inventory(f, indexed, course) ==
  /\ file[f] # [indexed |-> indexed, course |-> course]
  /\ Disturb({})
  /\ file' = [file EXCEPT ![f] = [indexed |-> indexed, course |-> course]]
  /\ UNCHANGED <<chunk, mapped, vec, aborts, searches, raced>>

-----------------------------------------------------------------------------
\* The synchronization of the selected indexes, or of all of them.
Selections == {IndexOrder} \cup {<<x>> : x \in Indexes}

BeginSync(selected, rebuild) ==
  /\ sync.pc = "idle"
  /\ sync' = [NoSync EXCEPT !.pc = IF rebuild THEN "clear" ELSE "reconcile", !.rebuild = rebuild,
                            !.selected = selected, !.todo = selected, !.quiet = TRUE]
  /\ UNCHANGED <<sql, vec, search, counts, raced>>

SearchNotices == search' = [search EXCEPT !.quiet = FALSE]

\* A rebuild deletes the collection from Chroma, then its mappings from SQLite.
ClearVectors ==
  /\ At("clear")
  /\ vec' = [vec EXCEPT ![here] = NoneLeft(Ids)]
  /\ sync' = [sync EXCEPT !.pc = "clear mappings"]
  /\ SearchNotices
  /\ UNCHANGED <<sql, counts, raced>>

ClearMappings ==
  /\ At("clear mappings")
  /\ mapped' = [mapped EXCEPT ![here] = {}]
  /\ sync' = [sync EXCEPT !.pc = "reconcile"]
  /\ SearchNotices
  /\ UNCHANGED <<chunk, file, vec, counts, raced>>

\* Read the mappings; deleting the stale ones takes SQLite's write lock until the commit.
ReconcileRows ==
  /\ At("reconcile")
  /\ sync' = [sync EXCEPT !.pc = "vectors", !.expected = mapped[here] \cap Eligible(here),
                          !.stale = mapped[here] \ Eligible(here)]
  /\ UNCHANGED <<sql, vec, search, counts, raced>>

\* Mutant: vectors without a mapping are left in the collection.
ReconcileVectorsKeeps ==
  /\ At("vectors")
  /\ sync' = [sync EXCEPT !.pc = "commit", !.missing = sync.expected \ Present(here)]
  /\ SearchNotices
  /\ UNCHANGED <<sql, vec, counts, raced>>

\* Delete the vectors that no current mapping names.
ReconcileVectors ==
  /\ At("vectors")
  /\ vec' = [vec EXCEPT ![here] = NoneLeft(Ids \ sync.expected)]
  /\ sync' = [sync EXCEPT !.pc = "commit", !.missing = sync.expected \ Present(here)]
  /\ SearchNotices
  /\ UNCHANGED <<sql, counts, raced>>

\* Update drifted courses in Chroma; then one commit deletes stale mappings and those without a vector.
UpdatedCourses ==
  LET current == (mapped[here] \cap Eligible(here)) \cap (sync.expected \ sync.missing)
  IN [i \in Ids |-> IF i \in current /\ vec[here][i] # None THEN [vec[here][i] EXCEPT !.course = CourseOf(i)]
                                                            ELSE vec[here][i]]

ReconcileCommit ==
  /\ At("commit")
  /\ vec' = [vec EXCEPT ![here] = UpdatedCourses]
  /\ mapped' = [mapped EXCEPT ![here] = @ \ (sync.stale \cup sync.missing)]
  /\ sync' = [sync EXCEPT !.pc = "read"]
  /\ SearchNotices
  /\ UNCHANGED <<chunk, file, counts, raced>>

FirstBatch(rows) == {r \in rows : Cardinality({s \in rows : s.id <= r.id}) <= BatchSize}
Advance(rows) ==
  IF rows # {} THEN [sync EXCEPT !.pc = "embed", !.rows = rows, !.batch = {}]
  ELSE IF Tail(sync.todo) = <<>> THEN NoSync
  ELSE [sync EXCEPT !.pc = IF sync.rebuild THEN "clear" ELSE "reconcile", !.todo = Tail(@),
                    !.rows = {}, !.batch = {}, !.hit = {}]

MissingRows == {[id |-> i, text |-> chunk[i].text, course |-> CourseOf(i)] :
                i \in Eligible(here) \ mapped[here]}

\* The chunks to embed are read once, before the first batch.
ReadMissing ==
  /\ At("read")
  /\ sync' = [Advance(MissingRows) EXCEPT !.hit = {}]
  /\ UNCHANGED <<sql, vec, search, counts, raced>>

\* Embed one batch and upsert its vectors.
Upsert ==
  /\ At("embed")
  /\ LET batch == FirstBatch(sync.rows)
     IN /\ vec' = [vec EXCEPT ![here] = [i \in Ids |->
                     IF \E r \in batch : r.id = i
                     THEN LET r == CHOOSE s \in batch : s.id = i IN [text |-> r.text, course |-> r.course]
                     ELSE vec[here][i]]]
        /\ sync' = [sync EXCEPT !.pc = "upserted", !.batch = batch]
        /\ search' = [search EXCEPT !.quiet = FALSE, !.touched = @ \cup {r.id : r \in batch}]
  /\ UNCHANGED <<sql, counts, raced>>

Batched == {r.id : r \in sync.batch}

\* Commit the mappings of the batch; the foreign key fails if a chunk is gone (Abort).
CommitBatch ==
  /\ At("upserted")
  /\ \A i \in Batched : chunk[i] # None
  /\ mapped' = [mapped EXCEPT ![here] = @ \cup Batched]
  /\ raced' = (raced \ {<<here, i>> : i \in Batched}) \cup {<<here, i>> : i \in Batched \cap sync.hit}
  /\ sync' = Advance(sync.rows \ sync.batch)
  /\ SearchNotices
  /\ UNCHANGED <<chunk, file, vec, counts>>

\* The process ends, or a provider, Chroma or SQLite raises: open transactions are rolled back.
Abort ==
  /\ sync.pc # "idle"
  /\ aborts < MaxAborts /\ aborts' = aborts + 1
  /\ sync' = NoSync
  /\ UNCHANGED <<sql, vec, search, edits, searches, raced>>

ForeignKeyFails ==
  /\ At("upserted")
  /\ \E i \in Batched : chunk[i] = None
  /\ sync' = NoSync
  /\ UNCHANGED <<sql, vec, search, counts, raced>>

-----------------------------------------------------------------------------
\* A search asks Chroma first and SQLite afterwards.
Nearer(h, g) == Distance[h.text] < Distance[g.text] \/ (Distance[h.text] = Distance[g.text] /\ h.id < g.id)
Nearest(hits, n) == {h \in hits : Cardinality({g \in hits : Nearer(g, h)}) < n}
Lesser(a, b) == IF a < b THEN a ELSE b

Matching(x, courses) ==
  {[id |-> i, index |-> x, text |-> vec[x][i].text] :
     i \in {j \in Present(x) : vec[x][j].course \in courses}}

\* Mutant: the exact search of the fallback is left out.
HitsNoFallback(x, courses, starved) ==
  IF starved THEN {} ELSE Nearest(Matching(x, courses), Lesser(Cardinality(Present(x)), Overfetch * Limit))

\* Mutant: no more hits are fetched than asked for.
HitsNoSpare(x, courses, starved) == Nearest(Matching(x, courses), Limit)

\* Chroma's filtered search may come back empty; then the course is scored exactly.
Hits(x, courses, starved) ==
  IF starved THEN Nearest(Matching(x, courses), Limit)
             ELSE Nearest(Matching(x, courses), Lesser(Cardinality(Present(x)), Overfetch * Limit))

Before(x, y) == \E j, k \in 1..Len(IndexOrder) : j < k /\ IndexOrder[j] = x /\ IndexOrder[k] = y

\* One candidate per chunk id: the nearest hit, the first index on a tie.
Candidates(hits) ==
  {h \in hits : \A g \in hits : g.id = h.id /\ g # h =>
     \/ Distance[h.text] < Distance[g.text]
     \/ Distance[h.text] = Distance[g.text] /\ Before(h.index, g.index)}

\* Course filters are resolved to known names; indexes without vectors are not asked.
Canonical(courses) == courses \cap Courses
Asked(indexes) == {x \in indexes : Present(x) # {}}

\* Every eligible chunk of the index has a vector of its text and course.
Served(x) == \A i \in Eligible(x) :
  i \in mapped[x] /\ vec[x][i] = [text |-> chunk[i].text, course |-> CourseOf(i)]

\* Vectors a search of the courses may find whose chunk is gone, replaced or no longer eligible.
Left(x, courses) == {i \in Present(x) \ Eligible(x) : vec[x][i].course \in courses}

\* What a search of served indexes relies on: no more vectors are left behind than the search fetches beyond
\* its limit, and none bears the id of a searchable chunk, which SQLite may have used again.
Bearable(indexes, courses, starved) ==
  \A x \in indexes :
    /\ Served(x)
    /\ Limit + Cardinality(Left(x, courses)) <= IF starved THEN Limit ELSE Overfetch * Limit
    /\ \A y \in indexes : Left(x, courses) \cap Searchable(y) = {}

Query(indexes, courses, starved) ==
  /\ Canonical(courses) # {} \* otherwise the search returns nothing at once
  /\ search.pc = "idle" /\ searches < MaxSearches /\ searches' = searches + 1
  /\ starved => Canonical(courses) # Courses
  /\ search' = [NoSearch EXCEPT !.pc = "hydrate", !.indexes = indexes, !.courses = Canonical(courses),
                  !.hits = Candidates(UNION {Hits(x, Canonical(courses), starved) : x \in Asked(indexes)}),
                  !.quiet = Bearable(indexes, Canonical(courses), starved)]
  /\ UNCHANGED <<sql, vec, sync, edits, aborts, raced>>

\* Mutant: candidates are joined with their chunks, not through their mappings.
HydratedUnmapped(h) ==
  /\ \E x \in search.indexes : h.id \in Searchable(x)
  /\ CourseOf(h.id) \in search.courses

\* The rows of the candidates: mapped in the hit's collection, current, and of the course.
Hydrated(h) ==
  /\ h.id \in mapped[h.index]
  /\ \E x \in search.indexes : h.id \in Searchable(x)
  /\ CourseOf(h.id) \in search.courses

\* _hydrate_candidates and _semantic_results: the nearest of them, with the text they have now.
Results == {[id |-> h.id, index |-> h.index, scored |-> h.text, text |-> chunk[h.id].text] :
            h \in Nearest({h \in search.hits : Hydrated(h)}, Limit)}

Hydrate ==
  /\ search.pc = "hydrate"
  /\ search' = NoSearch \* Results is returned
  /\ UNCHANGED <<sql, vec, sync, counts, raced>>

-----------------------------------------------------------------------------
SyncStep == \/ ClearVectors \/ ClearMappings \/ ReconcileRows \/ ReconcileVectors \/ ReconcileCommit
            \/ ReadMissing \/ Upsert \/ CommitBatch \/ ForeignKeyFails

Next ==
  \/ \E f \in Files, t \in Texts, i \in Ids : Extract(f, t, i)
  \/ \E f \in Files : ExtractNothing(f)
  \/ \E f \in Files, indexed \in BOOLEAN, c \in Courses : Inventory(f, indexed, c)
  \/ \E s \in Selections, rebuild \in BOOLEAN : BeginSync(s, rebuild)
  \/ SyncStep
  \/ Abort
  \/ \E s \in Scopes, starved \in BOOLEAN : Query(s.indexes, s.courses, starved)
  \/ Hydrate

Spec == Init /\ [][Next]_vars

-----------------------------------------------------------------------------
Row == [id : Ids, text : Texts, course : Courses]
Vector == [text : Texts, course : Courses]
SyncType ==
  [pc : {"idle", "clear", "clear mappings", "reconcile", "vectors", "commit", "read", "embed", "upserted"},
   selected : Seq(Indexes), todo : Seq(Indexes), rebuild : BOOLEAN, expected : SUBSET Ids,
   stale : SUBSET Ids, missing : SUBSET Ids, rows : SUBSET Row, batch : SUBSET Row, hit : SUBSET Ids,
   quiet : BOOLEAN]
SearchType ==
  [pc : {"idle", "hydrate"}, indexes : SUBSET Indexes, courses : SUBSET Courses,
   hits : SUBSET [id : Ids, index : Indexes, text : Texts], touched : SUBSET Ids, quiet : BOOLEAN]

TypeOK ==
  /\ chunk \in [Ids -> [file : Files, text : Texts] \cup {None}]
  /\ file \in [Files -> [indexed : BOOLEAN, course : Courses]]
  /\ mapped \in [Indexes -> SUBSET Ids]
  /\ vec \in [Indexes -> [Ids -> Vector \cup {None}]]
  /\ sync \in SyncType /\ search \in SearchType
  /\ raced \subseteq Indexes \X Ids

\* A mapped vector embeds the text its chunk has, unless the chunk was replaced while it was embedded.
MappedVectorsAreCurrent ==
  \A x \in Indexes : \A i \in mapped[x] :
    vec[x][i] # None /\ <<x, i>> \notin raced => vec[x][i].text = chunk[i].text

\* The foreign key of table embeddings.
MappedHaveChunks == \A x \in Indexes : \A i \in mapped[x] : chunk[i] # None

\* Rows waiting to be embedded are unmapped, and as they were read unless an extraction hit them.
RowsFaithful ==
  sync.pc \in {"embed", "upserted"} =>
    /\ sync.todo # <<>> /\ sync.batch \subseteq sync.rows
    /\ \A r \in sync.rows :
         /\ r.id \notin mapped[here]
         /\ r.id \notin sync.hit => chunk[r.id] # None /\ chunk[r.id].text = r.text
         /\ \A s \in sync.rows : s.id = r.id => s = r
    /\ sync.pc = "upserted" => \A r \in sync.batch : vec[here][r.id] # None /\ vec[here][r.id].text = r.text

\* A hit that nothing touched since was ranked by the text its mapping stands for, or will.
HitsFaithful ==
  \A h \in search.hits : h.id \notin search.touched =>
    /\ h.id \in mapped[h.index] /\ <<h.index, h.id>> \notin raced => chunk[h.id].text = h.text
    /\ sync.pc = "upserted" /\ h.index = here
         => \A r \in sync.batch : r.id = h.id => r.text = h.text

\* A chunk is ranked by the text that is shown for it, although its vector came from the other store: unless
\* an extraction or a synchronization touched it after Chroma answered, or its mapping is a raced one.
RankedByItsText ==
  \A r \in Results :
    r.scored = r.text \/ <<r.index, r.id>> \in raced \/ r.id \in search.touched

\* The vectors of an index embed the texts its chunks have now, except those of the given mappings.
EmbedsNow(x, but) == \A i \in Eligible(x) : vec[x][i].text = chunk[i].text \/ <<x, i>> \in but

\* From whatever earlier failures left behind, one undisturbed synchronization makes both stores exact.
\* Its vectors embed the current texts, but for mappings committed by an earlier run whose chunk was
\* replaced while it embedded: an ordinary run finds their rows in order, only a rebuild embeds them again.
UndisturbedSyncRepairs ==
  [][sync.pc \in {"read", "upserted"} /\ sync'.pc = "idle" /\ aborts' = aborts /\ sync.quiet
     => \A x \in {sync.selected[k] : k \in 1..Len(sync.selected)} :
          Exact(x)' /\ EmbedsNow(x, raced)' /\ (sync.rebuild => EmbedsNow(x, {})')]_vars

\* The inductive invariant.
IInv == TypeOK /\ MappedVectorsAreCurrent /\ MappedHaveChunks /\ RowsFaithful /\ HitsFaithful

\* Where every eligible chunk has a current vector, a search returns the nearest chunks of its courses, neither
\* lost nor cut off before the course filter, although vectors of chunks that are gone, replaced or no longer
\* eligible are found too and only dropped when their rows are read: as long as these are Bearable.
Reference(indexes, courses) ==
  {h.id : h \in Nearest({[id |-> i, text |-> chunk[i].text] :
                          i \in {j \in UNION {Eligible(x) : x \in indexes} : CourseOf(j) \in courses}}, Limit)}
SearchIsExact ==
  search.pc = "hydrate" /\ search.quiet
    => {r.id : r \in Results} = Reference(search.indexes, search.courses)
=============================================================================

# TLA+ models of uni-RAG-agent

The program answers questions about a student's course files. Command-line
runs inventory a folder of courses, extract its text into SQLite, and build a
keyword index (FTS5) and vector indexes (Chroma). A FastAPI service plans,
retrieves and answers; it can run as a public demo with signed tokens, quotas
in Firestore and a ledger of every ask, which an operator reads through a
dashboard with its own SQLite cache. A harness evaluates the whole on a copy of
the index. Source paths below are relative to `src/uni_rag_agent/`, and
`context/` is the documentation beside it.

The modules model the parts in which several actors race over shared state, in
which work is done in steps that can stop half-way, or in which two pieces of
code must agree about the same data. What is deterministic and sequential
(parsers, chunking, prompts, formatting) is abstracted to the distinctions the
properties need.

## 1. Inventory

| Component | State | Operations | Interacts with | Hard behaviour | What makes it correct |
|---|---|---|---|---|---|
| Ask life cycle (`app/api.py`, `app/service.py`) | ask semaphore, `session_owners`, `ActiveAskRegistry._gates`, `PersistenceGate`, the task of each ask | `POST /api/ask`, cancel, timeout, done callbacks | quota store and ledger (awaited Firestore calls), worker thread, `answers` table | every await is an interleaving point; timer against commit; replays; lost replies; crash | permits and registry exact, one launch per reservation, the reply agrees with the database |
| Conversation sessions (`app/service.py`, `answering/session.py`) | ordered `_entries`, `active`, `last_used`, request lock, planner memory | checkout, purge, make room, record turn | ask worker threads | expiry and eviction during use; two asks of a session | no entry is removed in use; asks of a session are serial; memory is complete |
| Demo tokens and quota windows (`app/public_demo.py`) | minute, day and global counters, reservations | lookup, reserve | ask life cycle | the clock is read before the transaction; retries; a minute's and a day's end | limits hold over any window; a reservation counts once |
| Embedding registry (`app/service.py`) | `_models`, `_errors`, per-profile build locks, Chroma client | runtime, prepare, clear failure | asks, preparation route | construction takes minutes outside the state lock; cached failures | one model per profile, no stale failure, no delay across profiles |
| Embedding providers (`indexing/profiles.py`, `indexing/embedding_providers/*`) | none, but the provider's batch job | select, build, embed, retry, poll | remote services | items missing or out of order; failures that may have been applied | a vector belongs to its text; billed work is not repeated |
| Gemini key failover (`gemini_failover.py`) | `_index`, `_model` | invoke, rotate | threads of all asks; provider | rotation after another thread's rotation | no good key is skipped |
| Audit dashboard (`app/audit_cache.py`, `app/audit_dashboard.py`, `app/ask_audit.py`) | rows, cursor, bootstrap flag, last error; the page's list | bootstrap, incremental sync, rebuild, paged reads | Firestore ledger, written all the time | pages are not a snapshot; equal timestamps; failure mid-way | nothing is missed for ever; rows never go back; a list shows each row once |
| Web settings (`app/settings.py`, `app/static/app.js`) | override file, per-tab store, the form | open, edit, prepare, save | ask routes | two tabs, an edit by hand, a lost reply | a save changes its edits and nothing else |
| Browser client (`app/static/app.js`, `browser_state.js`) | history, active session, token, request in flight | submit, cancel, resume, verify, clear, reload | ask routes, Turnstile | handlers interleave at every await | it continues what it shows; the history is what happened |
| Inventory (`inventory/*`) | tables `courses`, `files`, `extraction_runs` | walk, stat, hash, status, mark missing, totals, run records | disk, extraction | edits during the walk; I/O errors; overlap with extraction; a root configured anew; failed and killed runs | a row never vouches for text it does not describe; totals and the newest record are true |
| Extraction and data summaries (`extraction/*`) | tables `chunks`, `extracted_documents`, `data_summaries` | load pending, read, persist per file | disk, inventory, indexes | files change before they are read; abort between files | an indexed file has chunks, of its own content |
| Keyword index (`indexing/keyword.py`) | table `chunk_fts` | rebuild, query | extraction, inventory | a sync between replacements | no words of replaced text; only eligible chunks |
| Vector index (`indexing/vector.py`) | table `embeddings`, Chroma collections | sync, rebuild, reconcile, query, hydrate | extraction, inventory, embedding models | two stores, no common transaction; reuse of chunk ids | a hit is returned with the text its vector is of |
| Query planning (`retrieval/planner.py`, `search_contracts.py`) | none | validate a plan | planner model | output of a model | scopes are known courses and indexes |
| Retrieval and evidence (`retrieval/*`) | `search_*`, `evidence_packets` | recorded run, fusion, selection, coverage | both indexes | a crash between the writes of a run; extraction beside it | run, rows and packet agree; evidence is what was ranked |
| Answer generation (`answering/*`) | `answers` | budget, decode, validate, store, audit | evidence, chat model | three checks of the same answer | what one accepts the next does not refuse |
| Evaluation (`evaluation/*`) | fixture state, its backup, reports | prepare, swap, validate, run, report | all of the above, the file system | two moves that may stop half-way; commits meanwhile | a failed preparation keeps the old state; a report is of what was validated |
| Storage schema (`storage/core.py`) | the tables, the migrations | `initialize_schema` | every command | DDL commits by itself; two commands at once | no row is lost, or left where nothing reads it |
| Chat model registry (`app/service.py`) | both chat models, configuration key | warm, planner, answerer | asks | a change of `.env` between two acquisitions | a model matches its configuration |
| Extractors and chunking; CLI, configuration, logging | none | parse, print | | | |

The list of hazards, each at its line and with the properties that watch it, is
in `PROJECT.json`.

## 2. Modules and how they correspond to the code

### AskPromise, AskLifecycle, AskLifecycleProofs

`AskPromise` is what a client may rely on: an ask gets one verdict, never
revised; *answered* means the answer is stored, *withdrawn* (cancelled or timed
out) that it never will be, *refused* that there is none, and *unreported* is
the only gap. `AskLifecycle` is `POST /api/ask`. Its handler is a coroutine, so
nothing interrupts it between two awaits: **an action is one such stretch**, and
`pc[a]` names the await at which the handler is suspended.

| pc | the handler waits for | left by |
|---|---|---|
| received | the ledger's `received` record is written; the quota lookup is next | `Lookup`, `Invalid` |
| waiting | lookup done; semaphore, ownership and registry are next | `Busy`, `RejectSessionOwner`, `RejectInProgress`, `Register` |
| registered | `quota_store.reserve` | `Reserve`, `ReserveFails` |
| accepting | the ledger's `accepted` update | `Accept`, `AcceptFails` |
| running | `wait_for(shield(task))` | `Resume`, `Timeout` |
| cancelling | `to_thread(gate.cancel)` | `CancelOnTimeout` |
| awaiting | the task, after a commit has won | `Resume` |
| closing | the last ledger update | `Close` |

`worker[a]` is the task in its thread: queued, answering, returned, then
*settled* once its done callbacks (`TaskDone`) have released the semaphore and
the registry entry. Firestore calls are one atomic effect whose reply may be
lost (`ReserveFails` and `AcceptFails` with the effect applied). The gate's
`commit` runs the SQL COMMIT under its lock, so `Commit` is one action. `Crash`
empties everything volatile and keeps what is durable. Local mode (`Public =
FALSE`) has no token, ledger, quota or semaphore. Abstracted: the body of the
answer, phases and progress, Turnstile, and the quota windows (one limit here;
the windows are `QuotaWindows`).

### SessionRegistry (proofs in StateProofs)

`SessionRegistry.checkout` as acquire, enter (request lock), complete or fail,
release. An entry is named by the ask that created it, so `current is entry`
compares identities; `inUse` is its `active`. The model keeps the check in `Release` that the code makes,
and `CheckedOutStays` shows that it always succeeds. `memory` is the planner's
conversation, as the asks whose turns it keeps.

### GeminiFailover (proofs in ProvidersProofs)

The provider call is outside the lock, so `Current`, the outcome of the call and
`Rotate` are separate actions of each thread; quota windows close and open at
any time (`Exhaust`, `Refresh`).

### QuotaWindows (proofs in ProvidersProofs)

`FirestoreQuotaStore.reserve` as one transaction (`ReserveNew`), with the rolling
minute, the UTC day of a client and of everyone, and the reservation documents.
The handler reads the clock before it calls (`TakesClock`), so transactions
commit in another order than their clocks. `ReserveNothing` is a refusal, a
replay, or a failure that wrote nothing; a commit whose reply is lost is
`ReserveNew` followed by another call with the same id. The code's list of a
client's timestamps may hold equal ones, so `timestamps[c]` is a set with an entry
per reservation, and the length of the list is its cardinality.

### BrowserClient, BrowserClientProofs

One page of the web application. JavaScript runs one handler at a time, but every
await lets others in: an action is the run of a handler from one await to the
next. `submit` and `resumeSession` are the two long handlers (`ask`, `resume`,
with a stage each); tokens, history, storage and reload are the shared state. The
server appears as far as its replies matter: it stores an answer, refuses, ends a
session. `Settled` lets a promise's continuations run before the next event.
The ghosts `verified`, `answered`, `bound`, `overlapped` and `renewedMidAsk` record what
the server said and stored, which token answered, and the two situations the properties
except. An answer that nothing else waits beside (`AnsweredAlone`) ends the first of them.

### EmbeddingRegistry (proofs in VectorIndexProofs)

`runtime` (model, then client) against the preparation route (client, clear the
cached failure, then model). The state lock is held only for dictionary
accesses, so each is one action; a construction is bracketed by `BeginBuild` and
`BuildOk`/`BuildFails` under the profile's build lock. Its definitions carry the
prefix `Registry`, because its theorems stand beside those of the vector index.

### EmbeddingCall (proofs in ProvidersProofs)

One request for vectors, from the selection of a profile (`profiles.py`) and the
construction of its adapter to the positional checks of the response. A text is
its position; a vector is the text it embeds and its length. A response is any
list of items with or without indexes (`Responses`): some left out, repeated,
reordered or malformed, whatever the provider promises. The history variable
`faithful` says whether it kept to its interface (`Faithful`): an index names the
text of its item, and a list without indexes is in the order of the texts. Exceptions
carry a status, a class name and a chain, of which `retry_transient` reads some. The Gemini
document path creates a batch job, polls it and reads its items.

### SettingsDialog (proofs in BrowserClientProofs)

The dialog in two tabs, the settings routes and the override file. Two settings
stand for all: the embedding model, which is prepared before it is saved, and one
bounded number. A public page keeps its overrides in the tab.

### AuditCacheSync, AuditCacheSyncProofs

Each page is one consistent query (`PageRead`), the pages of one sync are not a
snapshot; writes, deletions and the clock move between them. A sync is one
SQLite transaction: `staged` becomes `cached`, together with the cursor, in
`Commit`. Environment assumption: Firestore stamps a write with its commit time,
so a write that a query did not see is stamped after it.

### AuditDashboard (proofs in AuditCacheSyncProofs)

The page's list: `load` clears the list or asks for older rows, each request is
read by `list_recent` and then appended, and synchronizations commit rows
between any two of them. `overlapped` marks lists whose loads overlapped: the
button for older rows stays usable while a load is on its way. `ListRecent` orders
rows by their `Position`, the number of rows that are newer or the same: the sort
key `(received_at, audit_id)` leaves no ties.

### FileLifecycle, FileLifecycleProofs

The life of a file from the disk through `inventory run`, `extract run`,
`extract data-summaries` and `index keyword`: commands of different processes with one SQLite
file, and a user who edits files at any moment.

| Variable | Code |
|---|---|
| `disk[f]` | content and (size, mtime) stamp of the file |
| `rows[f]` | its row in `files`: stamp, hash, status, reason |
| `text[f]` | the content its chunks (or data summary) were made from |
| `fts[f]` | the content its entries of `chunk_fts` were made from |
| `walk` | the inventory's transaction: files to visit, upserted rows, the file whose stat is taken and whose hash is not |
| `run` | the extraction: rows loaded once at the start, the file that was read and not yet persisted |

`stat` and hash are separate actions, because the file may change between them;
so are reading a file and persisting it. The inventory is one transaction
(`CommitInventory` or `AbortInventory`), extraction is one per file. A writer
waits for, or fails on, the lock of a running inventory: `~ Locked` and
`AbortExtraction`. Three ghost variables name what the properties speak about:
`raced` (an edit between a file's hash and its text, a hash that failed, or an
inventory that changed a row under a running extraction), `hashed` and `listed`.
Environment assumptions: an edit changes size or mtime (else no inventory could
see it), and an inventory walks the directories as they were when it began.

### CourseCatalog (proofs in FileLifecycleProofs)

The table of courses, as runs of the inventory keep it. It shares no state with
`FileLifecycle`, which has the files in detail and one root; here a file is a
member of directories, and what varies is the archive, the configured root, and
how a run ends.

| Variable | Code |
|---|---|
| `catalog` | the committed rows of `courses` with the files their totals count, the course of each row of `files`, the files not marked missing |
| `records` | `extraction_runs` in the order of their ids: status, and the files `files_seen` counted |
| `pass` | the run between `_start_inventory_run` and its end, with its open transaction's view |
| `coursesRoot`, `archive` | `config.courses_root` of the next run, and what is on the disk |

`StartRun` commits a record of its own; `Discover` lists the root; `RootFiles` and
`VisitCourse` are the synthetic course and one course each, with their files and
totals; `CommitRun` resets the totals of courses that were not seen, marks what is missing and
commits; `FailRun` rolls back all but the record, and `RunKilled` leaves that as it is.
`GeneralFits` and the guard of `VisitCourse` are the uniqueness of names and paths and the
identity checks of the two upserts, for which a run fails: once a root has had files of
its own, every run that finds such files under another root fails, for the synthetic course keeps its path.
Everything the summary shows must agree after any history of these, so
there is one property, `CatalogIsHonest`, over the summary and the records.

### VectorIndex, VectorIndexProofs

| Variable | Code |
|---|---|
| `chunk`, `file` | tables `chunks` and `files` |
| `mapped[x]` | ids in table `embeddings` for the physical collection of *x* |
| `vec[x][i]` | the vector `chunk:<i>` in Chroma: the text it embeds and its course |
| `sync` | `sync_vector_index`: the index at hand, what reconciliation read, the rows left and the batch |
| `search` | a query between Chroma's answer and the hydration from SQLite |

A synchronization is a sequence of commits, now of the one store, now of the
other: clear collection, clear mappings, read mappings (`ReconcileRows`), delete
vectors (`ReconcileVectors`), update drifted courses and commit
(`ReconcileCommit`), then for each batch embed and upsert, and commit. Extraction
and inventory act between any two unless SQLite's write lock is held (`Locked`),
and `Abort` stops it anywhere. SQLite uses the largest id plus one, so ids, and
with them the names of vectors, are used again (`IsFresh`). A search may be
starved by Chroma's approximate index, and then falls back to an exact scan.

### EvidenceRun, with QueryPlanning, LexicalSearch, RankFusion, AnswerGeneration, EvidenceProofs

`EvidenceRun` is one retrieval and the answer made of it, by transaction: start
the run, one record per result set, record the fused list, assemble and store the
packet, answer, store the answer, while `Reextract` and `Disappear` change the
chunks it found and `Crash` ends the process anywhere. The four modules it extends
are the functions it calls: validation and canonicalization of the planner's
output (`PlanOf`); terms, scopes and the scores of file names
(`MetadataHits`, `KeywordScope`); reciprocal rank fusion with metadata support
(`MergeWithRrf`); the prompt's budget, the checks of the model's reply and of what is
stored (`PromptEvidence`, `Accepted`, `AuditAccepts`). Each sort of the code has a key that
tells any two elements apart, so `Ordering` defines its result: the element in place *n* has
*n* - 1 before it. Scores are exact: `RankUnit` is a multiple of every denominator. Rankings by bm25 and by distance are any order
of the chunks in scope.

### Evaluation (proofs in StateProofs)

`prepare_fixture_state` with each move, removal and validation of a directory as
one action, by two preparations beside each other, and one run of the evaluation
set: load, validate the state, then item by item retrieve, answer and score, and
write the two report files. A state is an id and the version of the sources each
of its stages read, its manifest's label and its seal. The evaluation sets of
the committed versions are the constant `EvalSets`: whatever a set's JSON may hold, valid or not.

### StorageSchema (proofs in StateProofs)

`initialize_schema` statement by statement. `db` is what is committed and `work`
the open transaction: Python's sqlite3 opens one at the first `INSERT`, so all
statements before it commit by themselves. `Rejects` lists what a statement
refuses, and `Stop` is the failure, with the rollback the code makes.

### Compositions

Modules that share state are one specification. Where they share none, an MC
module starts them side by side and lets one of them move (`side`), so that one
run explores the union of their state spaces and not the product: `MCProviders`
(chat failover, embedding requests, settings, cache, dashboard, quota store),
`MCEvidenceRun` (retrieval, evaluation, schema) and `MCFileLifecycle` (files, courses).

## 3. Runs

Each run ends within five minutes on two workers.

| Run | Instance | What it shows |
|---|---|---|
| AskDemo | three asks, one replaying another's id, one of a second token in the same session; two slots, one unit of quota | slots, launches, quota and ledger are exact, and the ask implements `AskPromise` |
| AskLive | two tokens, one session, one slot, fair event loop, workers that may hang | every ask is answered; slots return if workers end |
| AskLocal | local mode, duplicate and missing request ids | the inductive invariant of the proofs |
| AskOwner | two asks of one token and one of another in a session | *violated*: `RunningSessionOwned` |
| Sessions | four asks, three sessions, two entries, TTL 2, one remembered turn | nothing in use is dropped, turns are seen by the next ask, every ask leaves and the count of users of its entry returns to zero |
| Providers | see below | failover, requests for vectors, settings, ledger cache and its page, quota windows |
| EmbeddingModels | two asks and two preparations of a profile that may hang, an ask of another | one model, no stale failure, no delay across profiles |
| Files | a text and a data file, contents with and without text, two edits, one I/O error; two roots with three directories and two files, three runs, two moves | what is searchable is current unless raced; what is missing is hidden; failures of the moment heal; the course table is honest |
| Vectors | two files of two indexes and courses, three ids, three texts, two edits, one abort, one search for the nearest one | mapped vectors are current; an undisturbed sync makes both stores agree with the chunks, with current texts but for raced mappings, and a rebuild with current texts throughout; searches are exact in spite of vectors left behind, up to what they fetch in excess |
| Evidence | see below | run, packet and answer agree; evaluation and migration |
| Client | a page with three sessions, two asks, two resumes, one verification, one mishap | the page's conversation and history |
| SchemaMigration | two processes, one row | *violated*: `NoHistoryBlocksCleanup` |

### Bounds

* Asks: each race in the handler is between two asks, or an ask and its timer,
  worker or canceller; the third ask fills the second slot or comes from the
  second token. A second unit of quota in AskLive lets both asks launch.
* Sessions: two entries and three sessions make room and refusal happen; the
  fourth ask shares a session, so that entries are used by two.
* Providers: three keys are the least with a key between the failed and the active
  one, and two threads are enough for a stale rotation. Two texts can be swapped,
  lengths 0 to 2 are unusable, declared and other. Pages of two over three documents
  give a full and a short page, and the clock allows two queries with writes before,
  between and after them; one deletion is enough for a rebuild to forget. Four rows, two of one timestamp at the end of a page, and
  four loads make two lists of two pages. Four requests of one client against limits of 2
  and 3, and one of another against the global limit, meet the end of a minute and of a day.
* Files: two edits are a change and its undoing; one I/O error is a hidden
  directory, a failed stat or a failed hash. For the courses: one root is a course of the
  other, one directory has a reserved name and two have one name, so that every refusal of a
  run is met; a run, a move, and two runs after it are a relocation that one run sees and the next repeats. Contents `c1` and `c2` are
  interchangeable (they have text and no order), so symmetry is sound; it is
  used with no liveness property.
* Vectors: ids are used again when the largest is freed, and the third may be that of a
  vector without a chunk; a batch of one puts an edit between two batches; limit 1 makes a
  chunk of a foreign course cut off an eligible one. The code fetches four times its limit
  (`Overfetch`); twice one leaves room for one vector left behind.
* Evidence: chunks such that one is too large for the packet, another for the prompt,
  and two items fit each; payloads that are refused, unsupported, wide and narrow.
  Three versions of the evaluation set, one of them invalid and one shorter; two
  preparations, one commit, one fault. Three initializations of two processes
  are a failure, its repetition and the next command.
* Client: two resumes and two asks overlap in every way; a history limit of 2 drops
  an entry; one mishap is a reload or a stray error.

Symmetry is used over ids that only equality tells apart and with invariants and
step properties, never with liveness.

### Fairness

* `LoopFairness`: the event loop runs what is ready and timers fire, so every
  await of a handler ends (Firestore clients have deadlines) and done callbacks
  run. Nothing is assumed of the worker thread: `EveryAskAnswered` holds even if
  a provider call hangs. `SlotsReturned` assumes in addition that workers end.
* `SessionRegistry`: threads are scheduled and an ask inside ends.
* `EmbeddingRegistry` (`FairRegistrySpec`): threads are scheduled; constructions end, except those of
  `Slow` profiles.
* The other modules state safety only: an operator, a user or a request starts
  each of their steps, and the code promises no progress of its own. A batch job is polled
  without a limit.

### Disagreements with the documentation

* **AskOwner.** `_release_public_owner_claim` (`app/api.py:428`) removes the
  ownership of a session when a rejected ask claimed it, although another ask of
  the same token is running in that session; the ownership rule of
  `context/capabilities/web-application.md` does not hold until that ask ends.
* **SchemaMigration.** `ALTER TABLE` commits by itself. An initialization that
  fails or is killed after it leaves `search_results_old`; the rollback restores
  nothing, and the next initialization finds a current table and reports success. Two
  commands that start together do the same without a failure. Rows are not
  lost (`MigrationLosesNothing`), but nothing reads them, and they still refuse the
  deletion of their chunks.

What the models show besides, as exceptions that the properties name (a ghost
variable, or the wording of the property), so that each holds everywhere else:

* Gemini: `attempts` counts attempts and not keys; a call may try one key twice
  and another never (`gemini_failover.py:44-46` says every key). What holds is
  `NoQuotaErrorWhileAKeyIsGood`.
* Audit cache: a document updated after its page of a bootstrap was read, before a later
  page with a newer stamp, is behind the cursor for good (`audit_cache.py:338`; `raced`).
  Pages of the dashboard skip rows that share the last timestamp of a page
  (`audit_cache.py:508`), and loads that overlap mix their pages.
* Ledger: if the `accepted` update fails, the record never becomes terminal
  (`web-application.md:43`).
* Files: extraction marks a file `indexed` by its id alone (`extraction/persistence.py:103`).
  If the row changed since the run loaded it, old text stands beside the new stamp and
  hash, and no later inventory sees a difference, though `decisions.md:72-73` says that
  stale content does not appear. `StaleOnlyIfRaced` says when this can happen.
* Requests for vectors: a list without indexes that is as long as the texts but in another
  order, or repeats one text in the place of another, is stored as it is: number and dimension
  are all that can be checked (`google_genai.py:82-93`, `:128-134`, `common.py:139-155`; `faithful`).
* Vectors: an extraction between the reading of a batch and its commit leaves a vector of
  the old text under a mapping of the new one (`vector.py:477`, `:522`; `raced`). No later
  synchronization sees it, because none compares texts; only a rebuild embeds the chunk again.
  Hits are joined with rows only after Chroma has answered, so more vectors left behind than
  the search fetches in excess of its limit push eligible ones out, and one under the id of a
  searchable chunk takes that chunk's place (`vector.py:783-839`; `Bearable`). A chunk that
  changes between Chroma's answer and its hydration may be shown with its new text (`touched`).
* Evidence: a chunk replaced between its ranking and the recording of the fused list is
  shown with its new text at the old rank (`evidence.py:238`; `rewritten`). An answer to a
  packet whose weakness has irregular white space is refused by its own store
  (`answering/core.py:759`), and a refusal that quotes a citation marker is audited as
  invalid (`answering/audit.py:149`).
* Evaluation: a move that copies and then fails to remove leaves the active state
  half removed, and its whole copy in a backup that nothing restores
  (`evaluation/core.py:1003-1012`); two preparations at once undo each other
  (`unsafe`), although `evaluation.md:42` says that a failed preparation leaves the prior state
  untouched. A run validates once and uses the state item by item: if it is swapped or edited
  meanwhile, later items are answered from another one (`disturbed`). Of a commit during a run,
  `ReportIsFaithful` excepts nothing: the set is read once, after the validation, and a report may
  be of a newer version of it than the state it was answered from.
* Quota: a reservation that commits after one with a later clock counts in a list the
  other one has pruned, so a client may get more than its limit in a rolling minute
  (`public_demo.py:448`).
* Browser: resumes are not blocked by another that waits, and the one that ends last confirms
  whatever session is attached then (`app.js:1055`; `overlapped`, until a question is answered
  alone); a token renewed while an ask is in flight attaches the old session again (`renewedMidAsk`).
  Two tabs of a local installation share one storage and each writes its whole list, so the
  last one wins (`app.js:148-156`); the model has one page.
  A public page stores only the difference of its last save, so an earlier override is
  lost (`app.js:507-512`); `SaveChangesOnlyItsEdits` speaks of the server's file.
* Embedding registry: a preparation clears a cached failure before it waits for the build lock, so that
  it may report the failure of the construction it waited for.

## 4. Proofs

All theorems are checked by TLAPS for every value of the constants that
satisfies the modules' assumptions.

**Ask life cycle.** `InductiveInvariant` proves `IInv`. The safety properties
are not inductive alone: that a reply agrees with the store needs to know *why*
it was decided (`StatusInv`: a status is decided only when the store cannot
contradict it any more), which needs where the handler is given its task
(`ControlInv`), how the task ended given its gate (`TaskInv`), and that no ledger
record is terminal before its handler closes (`LedgerInv`). One launch per
reservation follows from `ReservationInv`: a launched ask's reservation document
is its own. Slots need cardinalities: `SlotsConserved` proves that each action
changes the number of permits and the set of holders together. `PromiseKept`
shows that every step is a step of `AskPromise` or a stutter, so that the
promise is proved and not only checked.

**Conversation sessions.** An entry may only be taken while `inUse` is zero.
`ActiveIsExact` says that `inUse` counts the asks that have the entry checked out, so
one in use is never idle, and neither the purge nor the eviction can choose it. The new entry of
an ask starts with nobody in it (`NewEntriesAreFresh`), which makes the count right
from the first checkout on. `InsideHoldsLock` makes the memory of an entry change
only under its one holder, whence `ContextStaysCurrent`. The only assumption
beyond the types is that the asks are finitely many.

**Audit cache.** Between two pages the ledger moves, so the pages are no snapshot.
`SyncInv` says what holds instead: what the running synchronization has not staged as it is now
is still ahead of its position, or (once a bootstrap has read everything) is stamped no earlier than
the cursor to come. A write keeps this because it is stamped after whatever was read
(`PositionInv`), a page because it holds the first documents of its query (`PageIsFirst`, by
counting what sorts before each) and, when short, all of them (`ShortPageIsLast`, by a
minimal set of predecessors). `VersionInv` gives `EverySyncIsExact`. The page size, the
number of documents and the bounds on writes and deletions are arbitrary.

**Gemini failover.** `Climb` is the heart: as long as key *g* was never over
quota the index has not passed *g*, and a call has made at most as many attempts
as the index it read; so it reaches *g* before its attempts run out.

**File life cycle.** `RowsFaithful` is the strengthening: for a file nothing
raced with, a pending row has the hash of the disk, an indexed row has the hash
of its text, and a stamp equal to the disk's stands beside the disk's hash. The
open transaction needs the same of its upserted rows (`StagedFaithful`), a
running extraction that its rows are as loaded (`InFlightPending`). From it:
`StaleOnlyAfterARace`, `MissingStaysHidden`, `IndexesMatchChunks`.

**Vector index.** `MappedVectorsAreCurrent` is not inductive alone: between a batch's
upsert and its commit a vector has no mapping yet. `RowsFaithful` says that the rows
waiting to be embedded are unmapped and, unless an extraction hit them, as they were
read, and `MappedHaveChunks` that the cascade leaves no mapping of a deleted
chunk, so that an id used again starts without one. `ReplaceInv` treats all that replaces
chunks, `ShrinkInv` all steps that only take mappings or vectors away. A search is ranked in one store and
hydrated from the other; `HitsFaithful` carries the agreement across the
gap, and gives `RankedByItsText`. The proof holds for any files, texts, ids, batch sizes and
numbers of failures.

**Course catalogue.** `Tallied` says of a table that the totals of some courses count
exactly the files seen of them, where their rows say. The committed table has it of
all courses (`TablesInv`); the view of a running pass only of the courses it has visited,
and the directories it has yet to visit share no file with what it has seen
(`WalkInv`): so a course can be counted alone, and committing, which empties the courses not
visited, makes it true of all again. `PathsDiffer` carries the uniqueness of paths through both.
The proof needs that directories of one root have different names and share no file: the file system's tree.

**Failures heal.** What the inventory hashed it has classified anew (`HealInv`), and a
classification keeps a failure only if its reason is the extraction's (`HealedStatus`).

**Vector index: repair and search.** `SyncInv` is what an undisturbed synchronization has
established in each of its phases: the indexes behind it are exact, in the one at hand mappings and vectors
agree after reconciliation, and the rows it still holds are exactly what is eligible and unmapped.
It holds from *any* state that earlier failures left, for it claims nothing of an
index before the phase that repairs it. That the vectors embed the current texts is
`MappedVectorsAreCurrent` without its exception: `CleanInv` says that a rebuild has cleared every
mapping it started from and that nothing raced it since. `SearchIsExact` rests on `NearestOfPart`: the
nearest of a set are the nearest of any part of it that holds them. What an index returns, starved or not, holds the nearest of its
eligible chunks as long as the vectors left behind fit into the excess, for each of them takes one place at most
(`HitsHoldNearest`), so the merged
hits of all indexes hold the nearest of all (`QueryIsExact`), and hydration takes no other unless
the chunks changed in between (`QuietSteps`).

**Embedding registry.** `ErrorsAreFresh` remembers with a ghost which
constructions failed since each preparation cleared its profile; `BuilderAlone`
gives that models are never overwritten. With the vector index's proofs.

**Requests for vectors.** `CallInv` says that between two calls of the provider a prefix of the
texts is embedded. That a response with an item for each text, accepted by the checks of its form and indices,
and sent by a provider that keeps to its interface, is in the order of the texts is `FaithfulIsInOrder`: indexes
0, 1, ... name the texts in order, and without indexes an increasing choice of *m* of *m* positions is
all of them (`IncreasingIsIdentity`, by a least counterexample). `RetriesOnlyWhatIsSafe`
needs that a job is created in the request stage only, and that its creation, or its failure, ends that stage.

**Quota windows.** Counters equal numbers of grants by day (`DaysTally`). A client's list may have lost
a grant, but only to one at least a minute later (`ListsRemember`); so when no grant with a later clock
committed before, what the list holds injects the grants of the last minute, and its
cardinality, which the code compares with the limit, bounds theirs (`MinutesHold`).

**Dashboard.** `ByRecency` enumerates any finite set of rows in order (`PlacesAreTaken`: distinct
places up to the size of a set are all taken). `ListInv` says that the list has a row of the time of
everything known down to its next page, and `ReadInv` that the page on its way continues it.

**Browser page.** What a page continues changes in many handlers, and none of them
reads all of it. `Alone` says that one handler at most waits for the server unless some
overlapped; `ResumeHolds` that a waiting resume has its own session attached, or none,
and does not continue it yet; `GoHolds` that a token somebody was promised is still
there when its continuation runs. `TokenHolds` and `AskHolds` carry "bound under the token held"
through a resume and through an ask in flight, and give `RenewedTokenStartsNewSession`. For
`HistoryIsHonest`, the list and the storage are `Honest` about what the server has answered,
a reply that arrives as an answer is one of these (`RepliesAreAnswers`), what was answered
stays so, and leaving out or adding an entry keeps a list honest.
The assumptions are that `Null` is no Boolean and no ask, and that the history's limit is positive.

**Settings dialog.** A submit reviews and stores what its form asked, while the other tab and the
editor change the file; `Reviews` says that what is sent is what the review accepts, and the
step of the server is compared with its file at that moment, not with what the form was opened on.

**Schema migration.** `RowsInv`: the open transaction holds every committed row, and a table is about to be dropped
only where its rows were copied in the same transaction. Thus neither a commit, a rollback nor a kill loses one.
For an initialization that ran alone and without failure, `Reached` lists what is true before each
statement, up to the last, where all tables are current and nothing is left over (`CleanInv`).
Dropping a guard of `Rename` makes this proof fail, as it makes the run fail.

**Evaluation.** Three invariants. `SwapInv` knows where the prior state is at each point of a swap
that nothing disturbs (active, in the backup, or moved back), and that no other swap is under way. `BuildInv`
knows how far a tree has been built and from which version: one that says it is whole is of one version, its
label's, unless the repository changed under it. `RunInv` knows that
results and items to do cover the validated set, and that passes come from the validated state.
`FailedSwapsRestore` and `ReportsTellTheTruth` follow from steps that leave them.

**Retrieval, evidence and answer.** `EvidenceInv` follows a result through every table it is written to.
`SearchesRead`: what a search read of a chunk is still there, or its file was extracted again; a recorded
row keeps its chunk only while that holds (`RowsMatch`, because a deletion sets the reference to NULL and
the next id is none that is in use: `OthersStay`), and an item of the packet is selected only through such a row
(`ItemMatches`). `EnvelopesMatch` and `SetsFound` tie the recorded counts to the sets of
the queries, in order, so that a query is blamed only if its search was made. `FusedMatch` says that the
fused list is sorted and divides the hits among its candidates; `Decided` that an answer is one of the four the packet allows.
`KeepsLimits` is kept because the items are picked one after another from a list in rank order (`PickedInOrder`,
`SelectKeepsLimits`), with the sizes that hydration has just read and found positive (`WordsAreCounted`); what goes into a
prompt keeps the prompt's budget likewise (`PromptIs`).
`EvidenceStep` has one lemma per action. From it: `RecordsAlwaysAgree`, `EvidenceAlwaysRanked`,
`AnswersAlwaysHonest`, `FusionAlwaysSound`. The run that checks the four properties also satisfies `EvidenceInv`.

What the folds, sorts and sums of the operators return cannot be proved with the library's induction over operators. The first
part of `EvidenceProofs` does without: a fold is shown to be a function on prefixes of the sequence (`FoldLeftIsDefined`), and what
it keeps is a *set* of values that every step maps into itself (`UpTo`); sorting by the number of
elements before (`Sorting`), flattening (`FlattenHas`) and sums over sets in any order (`ScoresAreSums`) follow the same way.
With them `MergeIs` describes `merge_with_rrf` for any result sets, and `FusionKeepsItsPromise` what
its order promises: a candidate ahead in every list has at least the score, by monotone shares of ranks, and wins each tie.
That holds for any `RankUnit`, so for shares that are rounded, too.

The assumptions are what the schema and the interfaces guarantee. `CorpusAssumption`: finitely many files and ids from 1 (autoincrement
keys), the initial rows are rows, and sizes are integers. `PathAssumption`: `files.path` is UNIQUE. `TierAssumption`: a tier is computed for every word
and name. `ModelAssumption`: queries, paragraphs and citation ids are text, as their validators demand. `WordingAssumption`: none of the four sentences
the answer module writes itself contains a citation marker. The run evaluates them all.

**Only model-checked.** Liveness (`EveryAskAnswered`, `SlotsReturned`,
`EveryAskLeaves`, `OthersFinish`): the prover has no rules for fairness and
ENABLED. Every other property of a passing run is a theorem. What an operator computes beyond what these
theorems need (that the selection leaves out no item that fits, or the tiers of the metadata search) is in the model's
definitions and the runs only. No module declares a recursive operator.

## 5. Not modelled

* **Extractors and chunking** (`extraction/extractors`, `chunking.py`, `builders.py`): functions
  from the bytes of a file to its text through parsers of libraries. The models
  need only whether there is text and whether it changed.
* **Command line, configuration, logging, notebooks**: argument parsing, formatting and
  environment reading around the modelled operations; nothing is shared or ordered.
* **Chat model registry**: both models are built under one lock. Its one hazard is
  an operator who edits `.env` between the two acquisitions of a request.
* **Embedding registry**: a change of the Chroma directory while the process runs, the
  encoding lock of each profile, the readiness flag of hosted profiles.
* **Tokens**: signing and hashing of addresses are functions of libraries, Turnstile is an
  external call; expiry is in `AskLifecycle` and `BrowserClient`.
* **Audit dashboard**: locations of addresses are looked up in a database file and change
  no other column. An incremental sync resolves only the documents it reads again
  (`audit_cache.py:452`), and `--refresh-locations` without a database overwrites resolved ones (`:476`).
* **Inventory**: the counts by category, extension and status of the summary are computed
  from the same rows of files and read by nothing that the models contain.
* **Browser client**: rendering, copying, the theme, the evidence panel.
* Wording: prompts, reports and messages, apart from what the checks of an answer read.
